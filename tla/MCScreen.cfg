SPECIFICATION Spec
CONSTANTS
    Width = 4
    MaxCalls = 6
    Height = 3
    a = a
    b = b
    Views <- MCViews
    Place <- MCPlace
    Provided <- MCViews
    Before <- MCBefore
    TextAt <- MCTextAt
    BlitAt <- MCBlitAt
    Thicknesses = {0, 1}
    Glyphs = {"A"}
    Nobody = Nobody
    Unknown = Unknown
    Origins <- MCOrigins
INVARIANTS
    TypeOK
    ShadowHoldsLastDraw
    RestoreUncovers
CHECK_DEADLOCK FALSE
