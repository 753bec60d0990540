SPECIFICATION Spec
CONSTANTS MaxScopes = 4
INVARIANTS
    CursorComesBack
PROPERTY SettingsComeBack
