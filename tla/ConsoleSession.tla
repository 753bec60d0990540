--------------------------- MODULE ConsoleSession ---------------------------
(***************************************************************************)
(* The state of the console around a program that uses the ansi_ui         *)
(* library: objects of the classes ConsoleConfig and Console change it in  *)
(* their constructors and put it back in their destructors.  The objects   *)
(* are automatic variables, destroyed in the opposite order.               *)
(***************************************************************************)
EXTENDS Integers, Sequences, SequencesExt

CONSTANTS MaxScopes  \* bound on the objects that live at the same time

ASSUME ScopesAssumption == MaxScopes \in Nat

Pages == {"utf8", "other"}

\* Flags of the console modes: ENABLE_VIRTUAL_TERMINAL_PROCESSING,
\* DISABLE_NEWLINE_AUTO_RETURN and ENABLE_VIRTUAL_TERMINAL_INPUT.
OutFlags == {"vt", "noReturn"}
InFlags == {"vtInput"}

\* What a machine may support: the flags, UTF-8 as a code page of the
\* output and of the input, and whether the handles are a console at all.
Abilities == OutFlags \cup InFlags \cup {"outUtf8", "inUtf8", "out", "in"}

Settings == [outCp : Pages, inCp : Pages,
             outMode : SUBSET OutFlags, inMode : SUBSET InFlags]

\* An object: a ConsoleConfig with what it saved and which of the four
\* settings it changed, or a Console.
Config == [kind : {"config"}, orig : Settings,
           changed : SUBSET {"outCp", "inCp", "outMode", "inMode"}]
Screens == [kind : {"console"}]

VARIABLES
    able,    \* what this machine supports
    con,     \* the settings of the console
    cursor,  \* "shown" or "hidden"
    scopes   \* the objects that live, the latest last

vars == <<able, con, cursor, scopes>>

-----------------------------------------------------------------------------
(* The console API: a call sets what the machine supports or fails.        *)

SetsOut(mode) == "out" \in able /\ mode \subseteq able
SetsIn(mode) == "in" \in able /\ mode \subseteq able

\* An escape sequence takes effect while the output processes them.
Written(effect) == IF "vt" \in con.outMode THEN effect ELSE cursor

\* The output mode that ConsoleConfig() asks for, the second one when the
\* first is refused; the old mode stays when both are.
OutModeFor(mode) ==
    LET desired == mode \cup {"vt"}
        withNoAutoReturn == desired \cup {"noReturn"}
    IN  IF SetsOut(withNoAutoReturn) THEN withNoAutoReturn
        ELSE IF SetsOut(desired) THEN desired
        ELSE mode

InModeFor(mode) ==
    IF SetsIn(mode \cup {"vtInput"}) THEN mode \cup {"vtInput"} ELSE mode

\* The settings after ConsoleConfig() has tried to change all four.
Configured(c) ==
    [outCp |-> IF "outUtf8" \in able THEN "utf8" ELSE c.outCp,
     inCp |-> IF "inUtf8" \in able THEN "utf8" ELSE c.inCp,
     outMode |-> OutModeFor(c.outMode),
     inMode |-> InModeFor(c.inMode)]

-----------------------------------------------------------------------------
Init ==
    /\ able \in SUBSET Abilities
    /\ con \in Settings
    /\ con.outMode \cup con.inMode \subseteq able
    /\ cursor = "shown"
    /\ scopes = <<>>

Enter(object) ==
    /\ Len(scopes) < MaxScopes
    /\ scopes' = Append(scopes, object)
    /\ UNCHANGED able

\* Variant: a change by the second attempt is not noted.
BeginConfigFallbackForgotten ==
    /\ con' = Configured(con)
    /\ Enter([kind |-> "config", orig |-> con,
              changed |-> {s \in DOMAIN con :
                  /\ con'[s] # con[s]
                  /\ s = "outMode" => "noReturn" \in con'[s]}])
    /\ UNCHANGED cursor

(* ConsoleConfig(): four settings, one after the other; each call may      *)
(* fail, and the object notes what has changed.                            *)
BeginConfig ==
    /\ con' = Configured(con)
    /\ Enter([kind |-> "config", orig |-> con,
              changed |-> {s \in DOMAIN con : con'[s] # con[s]}])
    /\ UNCHANGED cursor

\* The object declared last goes.
Leave(kind) ==
    /\ scopes # <<>> /\ Last(scopes).kind = kind
    /\ scopes' = Front(scopes)
    /\ UNCHANGED able

\* Variant: the destructor switches off what the constructor asked for.
EndConfigSwitchesOff ==
    /\ Leave("config")
    /\ con' = [s \in DOMAIN con |->
                  IF s \notin Last(scopes).changed THEN con[s]
                  ELSE IF s = "outMode" THEN con[s] \ OutFlags
                  ELSE Last(scopes).orig[s]]
    /\ UNCHANGED cursor

(* ~ConsoleConfig(): what has changed gets its saved value again, which    *)
(* the console accepts as it was in force before.                          *)
EndConfig ==
    /\ Leave("config")
    /\ con' = [s \in DOMAIN con |->
                  IF s \in Last(scopes).changed THEN Last(scopes).orig[s]
                                                ELSE con[s]]
    /\ UNCHANGED cursor

(* Console(): the cursor is hidden first, then the escape sequences are    *)
(* switched on; nothing is saved.                                          *)
BeginConsole ==
    /\ Enter([kind |-> "console"])
    /\ cursor' = Written("hidden")
    /\ con' = IF SetsOut(con.outMode \cup {"vt"})
              THEN [con EXCEPT !.outMode = @ \cup {"vt"}]
              ELSE con

(* Console(Console&&): the object moved from lives on and will show the    *)
(* cursor as well.                                                         *)
MoveConsole ==
    /\ \E i \in DOMAIN scopes : scopes[i].kind = "console"
    /\ Enter([kind |-> "console"])
    /\ UNCHANGED <<con, cursor>>

(* ~Console()                                                              *)
EndConsole ==
    /\ Leave("console")
    /\ cursor' = Written("shown")
    /\ UNCHANGED con

Next == BeginConfig \/ EndConfig \/ BeginConsole \/ MoveConsole \/ EndConsole

Spec == Init /\ [][Next]_vars

-----------------------------------------------------------------------------
(* Properties.                                                             *)

TypeOK ==
    /\ able \subseteq Abilities
    /\ con \in Settings
    /\ cursor \in {"shown", "hidden"}
    /\ scopes \in Seq(Config \cup Screens)

(* A ConsoleConfig that goes leaves the four settings as it found them,    *)
(* whichever of its calls were refused and whatever was configured and     *)
(* drawn by the objects that lived inside its scope.                       *)
SettingsComeBack ==
    [][Leave("config") => con' = Last(scopes).orig]_vars

(* When no Console is left the cursor is visible again: the destructor     *)
(* that shows it runs while escape sequences still take effect, although   *)
(* objects of the other class switch them on and off.                      *)
CursorComesBack ==
    cursor = "hidden" => \E i \in DOMAIN scopes : scopes[i].kind = "console"

=============================================================================
