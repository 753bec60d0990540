--------------------------- MODULE ConsoleProofs ---------------------------
(***************************************************************************)
(* Proofs about what the console library leaves behind: the settings that  *)
(* ConsoleSession is about, for any machine and any nesting, and the text  *)
(* that Utf8 is about, for texts and data of any length.                   *)
(***************************************************************************)
EXTENDS ConsoleSession, Utf8, FiniteSetTheorems, WellFoundedInduction, TLAPS

-----------------------------------------------------------------------------
(* Settings and cursor.                                                    *)

Names == {"outCp", "inCp", "outMode", "inMode"}

\* The scopes are a sequence of objects, and lose or gain one at the end.
LEMMA ScopesSteps ==
    ASSUME NEW S, NEW s \in Seq(S)
    PROVE  /\ s # <<>> => /\ Len(s) \in Nat \ {0}
                          /\ Last(s) = s[Len(s)] /\ Last(s) \in S
                          /\ Front(s) \in Seq(S)
                          /\ Len(Front(s)) = Len(s) - 1
                          /\ \A i \in 1..(Len(s) - 1) : Front(s)[i] = s[i]
           /\ \A x \in S : /\ Append(s, x) \in Seq(S)
                           /\ Len(Append(s, x)) = Len(s) + 1
                           /\ Append(s, x)[Len(s) + 1] = x
                           /\ \A i \in 1..Len(s) : Append(s, x)[i] = s[i]
  BY DEF Last, Front

\* The constructor never takes a flag away, and its result has the type.
LEMMA ConfiguredSettings ==
    ASSUME TypeOK, NEW c \in Settings
    PROVE  /\ Configured(c) \in Settings
           /\ "vt" \in c.outMode => "vt" \in Configured(c).outMode
  BY DEF Configured, Settings, Pages, OutModeFor, InModeFor, OutFlags, InFlags

\* Two settings that agree in all four names are the same.
LEMMA SettingsEqual ==
    ASSUME NEW c \in Settings, NEW e \in Settings, \A n \in Names : c[n] = e[n]
    PROVE  c = e
  BY DEF Settings, Names

\* What the constructor leaves alone it leaves alone a second time.
LEMMA ConfiguredTwice ==
    ASSUME NEW c \in Settings, NEW e \in Settings, NEW n \in Names,
           e[n] = c[n], Configured(c)[n] = c[n]
    PROVE  Configured(e)[n] = e[n]
  BY DEF Configured, Names

\* Where ConsoleConfig() has not changed the output mode, Console() does
\* not either.
LEMMA ConsoleAddsNothing ==
    ASSUME NEW c \in Settings, Configured(c).outMode = c.outMode,
           SetsOut(c.outMode \cup {"vt"})
    PROVE  c.outMode \cup {"vt"} = c.outMode
  BY DEF Configured, OutModeFor

-----------------------------------------------------------------------------
LEMMA InitTypeOK == Init => TypeOK
  BY DEF Init, TypeOK

LEMMA EnterKeepsScopes ==
    ASSUME TypeOK, NEW x \in Config \cup Screens, Enter(x)
    PROVE  /\ scopes' \in Seq(Config \cup Screens)
           /\ able' = able
  BY ScopesSteps DEF Enter, TypeOK

LEMMA LeaveKeepsScopes ==
    ASSUME TypeOK, NEW kind, Leave(kind)
    PROVE  /\ scopes' \in Seq(Config \cup Screens)
           /\ able' = able
           /\ Last(scopes) \in Config \cup Screens
  BY ScopesSteps DEF Leave, TypeOK

LEMMA TypeStep == TypeOK /\ [Next]_vars => TypeOK'
<1>1. SUFFICES ASSUME TypeOK, [Next]_vars PROVE TypeOK'
  OBVIOUS
<1>2. CASE BeginConfig
  <2> DEFINE x == [kind |-> "config", orig |-> con,
                   changed |-> {n \in DOMAIN con : con'[n] # con[n]}]
  <2>1. con' \in Settings
    BY <1>1, <1>2, ConfiguredSettings DEF BeginConfig, TypeOK
  <2>2. x \in Config
    BY <1>1 DEF TypeOK, Settings, Config
  <2>3. Enter(x) /\ cursor' = cursor
    BY <1>2 DEF BeginConfig
  <2> HIDE DEF x
  <2> QED
    BY <1>1, <2>1, <2>2, <2>3, EnterKeepsScopes DEF TypeOK
<1>3. CASE EndConfig
  <2>1. Leave("config") /\ cursor' = cursor
    BY <1>3 DEF EndConfig
  <2>2. Last(scopes) \in Config
    BY <1>1, <2>1, LeaveKeepsScopes DEF Leave, Config, Screens
  <2>3. con' \in Settings
    BY <1>1, <1>3, <2>2 DEF EndConfig, TypeOK, Config, Settings
  <2> QED
    BY <1>1, <2>1, <2>3, LeaveKeepsScopes DEF TypeOK
<1>4. CASE BeginConsole
  <2>1. Enter([kind |-> "console"]) /\ [kind |-> "console"] \in Screens
    BY <1>4 DEF BeginConsole, Screens
  <2>2. con' \in Settings /\ cursor' \in {"shown", "hidden"}
    BY <1>1, <1>4 DEF BeginConsole, TypeOK, Settings, OutFlags, Written
  <2> QED
    BY <1>1, <2>1, <2>2, EnterKeepsScopes DEF TypeOK
<1>5. CASE MoveConsole
  <2>1. Enter([kind |-> "console"]) /\ [kind |-> "console"] \in Screens
    BY <1>5 DEF MoveConsole, Screens
  <2> QED
    BY <1>1, <1>5, <2>1, EnterKeepsScopes DEF TypeOK, MoveConsole
<1>6. CASE EndConsole
  BY <1>1, <1>6, LeaveKeepsScopes DEF TypeOK, EndConsole, Written
<1>7. CASE UNCHANGED vars
  BY <1>1, <1>7 DEF TypeOK, vars
<1> QED
  BY <1>1, <1>2, <1>3, <1>4, <1>5, <1>6, <1>7 DEF Next

(* Each object keeps what its constructor has to keep, on every machine.   *)
THEOREM SessionTypeCorrect == Spec => []TypeOK
  BY InitTypeOK, TypeStep, PTL DEF Spec

-----------------------------------------------------------------------------
(* The settings.  What a ConsoleConfig has not changed is, in every scope  *)
(* inside its own and as long as it lives, what it found.                  *)
Saved(i) ==
    /\ scopes[i].changed =
         {n \in Names : Configured(scopes[i].orig)[n] # scopes[i].orig[n]}
    /\ \A n \in Names \ scopes[i].changed : con[n] = scopes[i].orig[n]

Nested(i, j) ==
    \A n \in Names \ scopes[i].changed : scopes[j].orig[n] = scopes[i].orig[n]

ConfigAt(i) == scopes[i].kind = "config"

SavedRight ==
    \A i \in DOMAIN scopes : ConfigAt(i) =>
        /\ Saved(i)
        /\ \A j \in DOMAIN scopes : i < j /\ ConfigAt(j) => Nested(i, j)

\* Objects that stay are the same objects in the next state.
LEMMA EnterIndexes ==
    ASSUME TypeOK, NEW x \in Config \cup Screens, Enter(x)
    PROVE  /\ Len(scopes) \in Nat /\ DOMAIN scopes = 1..Len(scopes)
           /\ DOMAIN scopes' = 1..(Len(scopes) + 1)
           /\ scopes'[Len(scopes) + 1] = x
           /\ \A i \in 1..Len(scopes) : scopes'[i] = scopes[i]
  BY ScopesSteps DEF Enter, TypeOK

LEMMA LeaveIndexes ==
    ASSUME TypeOK, NEW kind, Leave(kind)
    PROVE  /\ Len(scopes) \in Nat \ {0} /\ DOMAIN scopes = 1..Len(scopes)
           /\ DOMAIN scopes' = 1..(Len(scopes) - 1)
           /\ Last(scopes) = scopes[Len(scopes)] /\ Last(scopes).kind = kind
           /\ \A i \in 1..(Len(scopes) - 1) : scopes'[i] = scopes[i]
  BY ScopesSteps DEF Leave, TypeOK

\* An object that is a ConsoleConfig has settings it saved.
LEMMA ConfigFields ==
    ASSUME TypeOK, NEW i \in DOMAIN scopes, ConfigAt(i)
    PROVE  scopes[i] \in Config /\ scopes[i].orig \in Settings
  BY DEF TypeOK, ConfigAt, Config, Screens

\* The destructor finds what it did not change as it was, so that all four
\* settings are those of its constructor.
LEMMA EndConfigRestores ==
    ASSUME TypeOK, SavedRight, EndConfig
    PROVE  con' = Last(scopes).orig
<1> DEFINE k == Len(scopes)
<1>1. k \in DOMAIN scopes /\ Last(scopes) = scopes[k] /\ ConfigAt(k)
  BY LeaveIndexes DEF EndConfig, ConfigAt
<1>2. Saved(k) /\ scopes[k].orig \in Settings
  BY <1>1, ConfigFields DEF SavedRight
<1>3. con' \in Settings
  BY TypeStep DEF Next, TypeOK
<1>4. \A n \in Names : con'[n] = scopes[k].orig[n]
  <2>1. DOMAIN con = Names
    BY DEF TypeOK, Settings, Names
  <2>2. con' = [n \in Names |-> IF n \in scopes[k].changed
                                THEN scopes[k].orig[n] ELSE con[n]]
    BY <1>1, <2>1 DEF EndConfig
  <2> QED
    BY <1>2, <2>2 DEF Saved
<1> QED
  BY <1>1, <1>2, <1>3, <1>4, SettingsEqual

\* A step that changes no setting which a living object left alone, and
\* adds at most one object, which finds the settings of that moment.
LEMMA SavedStep ==
    ASSUME TypeOK, SavedRight, NEW x \in Config \cup Screens, Enter(x),
           x \in Config => /\ x.orig = con
                           /\ x.changed = {n \in Names : Configured(con)[n] # con[n]}
                           /\ \A n \in Names \ x.changed : con'[n] = con[n],
           \A i \in DOMAIN scopes : ConfigAt(i) =>
               \A n \in Names \ scopes[i].changed : con'[n] = con[n]
    PROVE  SavedRight'
<1>0. PICK k : k = Len(scopes) + 1
  OBVIOUS
<1>1. /\ Len(scopes) \in Nat /\ DOMAIN scopes = 1..Len(scopes)
      /\ DOMAIN scopes' = 1..k
      /\ scopes'[k] = x
      /\ \A i \in 1..Len(scopes) : scopes'[i] = scopes[i]
      /\ able' = able
  BY <1>0, EnterIndexes DEF Enter
<1>2. \A c : Configured(c)' = Configured(c)
  BY <1>1 DEF Configured, OutModeFor, InModeFor, SetsOut, SetsIn
<1>3. \A i \in DOMAIN scopes : ConfigAt(i)' => ConfigAt(i) /\ Saved(i)'
  BY <1>1, <1>2 DEF SavedRight, Saved, ConfigAt
<1>4. ConfigAt(k)' => x \in Config
  BY <1>1 DEF ConfigAt, Config, Screens
<1>5. ConfigAt(k)' => Saved(k)'
  <2>1. SUFFICES ASSUME x \in Config PROVE Saved(k)'
    BY <1>4
  <2>2. Configured(x.orig)' = Configured(con)
    BY <2>1, <1>2
  <2> QED
    BY <1>1, <2>1, <2>2 DEF Saved
<1>6. \A i, j \in DOMAIN scopes : ConfigAt(i)' /\ ConfigAt(j)' /\ i < j => Nested(i, j)'
  BY <1>1 DEF SavedRight, ConfigAt, Nested
<1>7. \A i \in DOMAIN scopes : ConfigAt(i)' /\ ConfigAt(k)' => Nested(i, k)'
  <2>1. SUFFICES ASSUME NEW i \in DOMAIN scopes, ConfigAt(i)', x \in Config
                 PROVE  Nested(i, k)'
    BY <1>4
  <2>2. scopes'[i] = scopes[i] /\ Saved(i)
    BY <1>1, <1>3, <2>1 DEF SavedRight
  <2> QED
    BY <1>1, <2>1, <2>2 DEF Nested, Saved
<1>8. \A i \in DOMAIN scopes' :
         /\ i \in DOMAIN scopes \/ i = k
         /\ \A j \in DOMAIN scopes' : i < j => i \in DOMAIN scopes
  BY <1>0, <1>1
<1>9. SUFFICES ASSUME NEW i \in DOMAIN scopes', ConfigAt(i)'
               PROVE  /\ Saved(i)'
                      /\ \A j \in DOMAIN scopes' : i < j /\ ConfigAt(j)' => Nested(i, j)'
  BY DEF SavedRight
<1>10. Saved(i)'
  BY <1>3, <1>5, <1>8, <1>9
<1>11. ASSUME NEW j \in DOMAIN scopes', i < j, ConfigAt(j)' PROVE Nested(i, j)'
  BY <1>6, <1>7, <1>8, <1>9, <1>11
<1> QED
  BY <1>10, <1>11

\* An object goes, and what those that stay left alone is not changed.
LEMMA SavedLeave ==
    ASSUME TypeOK, SavedRight, NEW kind, Leave(kind),
           \A i \in DOMAIN scopes' : ConfigAt(i) =>
               \A n \in Names \ scopes[i].changed : con'[n] = scopes[i].orig[n]
    PROVE  SavedRight'
<1>1. /\ DOMAIN scopes' \subseteq DOMAIN scopes
      /\ \A i \in DOMAIN scopes' : scopes'[i] = scopes[i]
      /\ able' = able
  BY LeaveIndexes DEF Leave
<1>2. \A c : Configured(c)' = Configured(c)
  BY <1>1 DEF Configured, OutModeFor, InModeFor, SetsOut, SetsIn
<1>3. \A i \in DOMAIN scopes' : ConfigAt(i)' => ConfigAt(i) /\ Saved(i)'
  BY <1>1, <1>2 DEF SavedRight, Saved, ConfigAt
<1> QED
  BY <1>1, <1>3 DEF SavedRight, ConfigAt, Nested

LEMMA SavedRightStep == TypeOK /\ SavedRight /\ [Next]_vars => SavedRight'
<1>1. SUFFICES ASSUME TypeOK, SavedRight, [Next]_vars PROVE SavedRight'
  OBVIOUS
<1>2. \A i \in DOMAIN scopes : ConfigAt(i) =>
         \A n \in Names \ scopes[i].changed :
             /\ con[n] = scopes[i].orig[n]
             /\ Configured(scopes[i].orig)[n] = scopes[i].orig[n]
             /\ Configured(con)[n] = con[n]
  BY <1>1, ConfigFields, ConfiguredTwice DEF SavedRight, Saved, TypeOK
<1>3. CASE BeginConfig
  <2> DEFINE x == [kind |-> "config", orig |-> con,
                   changed |-> {n \in DOMAIN con : con'[n] # con[n]}]
  <2>1. DOMAIN con = Names /\ con' = Configured(con) /\ Enter(x)
    BY <1>1, <1>3 DEF BeginConfig, TypeOK, Settings, Names
  <2>2. x \in Config
    BY <1>1 DEF TypeOK, Settings, Config
  <2>3. /\ x.orig = con
        /\ x.changed = {n \in Names : Configured(con)[n] # con[n]}
        /\ \A n \in Names \ x.changed : con'[n] = con[n]
    BY <2>1
  <2> HIDE DEF x
  <2> QED
    BY <1>1, <1>2, <2>1, <2>2, <2>3, SavedStep
<1>4. CASE EndConfig
  <2>1. Leave("config")
    BY <1>4 DEF EndConfig
  <2>2. PICK k \in DOMAIN scopes : k = Len(scopes) /\ Last(scopes) = scopes[k]
    BY <1>1, <2>1, LeaveIndexes
  <2>3. ConfigAt(k) /\ \A i \in DOMAIN scopes' : i \in DOMAIN scopes /\ i < k
    BY <1>1, <2>1, <2>2, LeaveIndexes DEF ConfigAt
  <2>4. \A i \in DOMAIN scopes' : ConfigAt(i) => Nested(i, k)
    BY <1>1, <2>2, <2>3 DEF SavedRight
  <2> QED
    BY <1>1, <1>4, <2>1, <2>2, <2>3, <2>4, EndConfigRestores, SavedLeave DEF Nested
<1>5. CASE BeginConsole
  <2> DEFINE x == [kind |-> "console"]
  <2>1. Enter(x) /\ x \in Screens /\ x \notin Config
    BY <1>5 DEF BeginConsole, Screens, Config
  <2>2. ASSUME NEW i \in DOMAIN scopes, ConfigAt(i),
               NEW n \in Names \ scopes[i].changed
        PROVE  con'[n] = con[n]
    <3>1. CASE n = "outMode"
      <4>1. Configured(con).outMode = con.outMode
        BY <1>2, <2>2, <3>1
      <4> QED
        BY <1>1, <1>5, <3>1, <4>1, ConsoleAddsNothing DEF BeginConsole, TypeOK, Settings
    <3>2. CASE n # "outMode"
      BY <1>1, <1>5, <3>2 DEF BeginConsole, TypeOK, Settings, Names
    <3> QED
      BY <3>1, <3>2
  <2> HIDE DEF x
  <2> QED
    BY <1>1, <2>1, <2>2, SavedStep
<1>6. CASE MoveConsole
  <2> DEFINE x == [kind |-> "console"]
  <2>1. Enter(x) /\ x \in Screens /\ x \notin Config /\ con' = con
    BY <1>6 DEF MoveConsole, Screens, Config
  <2> HIDE DEF x
  <2> QED
    BY <1>1, <2>1, SavedStep
<1>7. CASE EndConsole
  <2>1. Leave("console") /\ con' = con
    BY <1>7 DEF EndConsole
  <2>2. DOMAIN scopes' \subseteq DOMAIN scopes
    BY <1>1, <2>1, LeaveIndexes
  <2> QED
    BY <1>1, <1>2, <2>1, <2>2, SavedLeave
<1>8. CASE UNCHANGED vars
  BY <1>1, <1>8 DEF vars, SavedRight, Saved, Nested, ConfigAt, Configured,
     OutModeFor, InModeFor, SetsOut, SetsIn
<1> QED
  BY <1>1, <1>3, <1>4, <1>5, <1>6, <1>7, <1>8 DEF Next

LEMMA InitSavedRight == Init => SavedRight
  BY DEF Init, SavedRight

(* On every machine and however the scopes are nested, a ConsoleConfig     *)
(* leaves the settings as it found them.                                   *)
THEOREM SettingsComeBackHolds == Spec => SettingsComeBack
<1>1. TypeOK /\ SavedRight /\ [Next]_vars =>
          [Leave("config") => con' = Last(scopes).orig]_vars
  <2>1. SUFFICES ASSUME TypeOK, SavedRight, Next, Leave("config")
                 PROVE  con' = Last(scopes).orig
    OBVIOUS
  <2>2. ASSUME NEW x \in Config \cup Screens PROVE ~Enter(x)
    BY <2>1, <2>2, EnterIndexes, LeaveIndexes
  <2>3. ~EndConsole
    BY <2>1 DEF EndConsole, Leave
  <2>4. EndConfig
    <3>1. ~BeginConsole /\ ~MoveConsole
      BY <2>2 DEF BeginConsole, MoveConsole, Screens
    <3>2. ~BeginConfig
      <4> DEFINE x == [kind |-> "config", orig |-> con,
                       changed |-> {n \in DOMAIN con : con'[n] # con[n]}]
      <4>1. x \in Config
        BY <2>1 DEF TypeOK, Settings, Config
      <4> QED
        BY <2>2, <4>1 DEF BeginConfig
    <3> QED
      BY <2>1, <2>3, <3>1, <3>2 DEF Next
  <2> QED
    BY <2>1, <2>4, EndConfigRestores
<1>2. Spec => [](TypeOK /\ SavedRight)
  BY InitTypeOK, InitSavedRight, TypeStep, SavedRightStep, PTL DEF Spec
<1> QED
  BY <1>1, <1>2, PTL DEF Spec, SettingsComeBack

-----------------------------------------------------------------------------
(* The cursor.  While it is hidden, escape sequences take effect, and they *)
(* will when the Console that shows it again goes: each ConsoleConfig that *)
(* goes before it found them switched on.                                  *)
ShowsAgain(i) ==
    /\ scopes[i].kind = "console"
    /\ \A j \in DOMAIN scopes :
          i < j /\ ConfigAt(j) => "vt" \in scopes[j].orig.outMode

CursorRight ==
    cursor = "hidden" => /\ "vt" \in con.outMode
                         /\ \E i \in DOMAIN scopes : ShowsAgain(i)

\* An object that comes last finds escape sequences switched on.
LEMMA ShowsAgainEnter ==
    ASSUME TypeOK, NEW x \in Config \cup Screens, Enter(x),
           x.kind = "config" => "vt" \in x.orig.outMode,
           NEW i \in DOMAIN scopes, ShowsAgain(i)
    PROVE  i \in DOMAIN scopes' /\ ShowsAgain(i)'
<1>0. PICK k : k = Len(scopes) + 1
  OBVIOUS
<1>1. /\ Len(scopes) \in Nat /\ DOMAIN scopes = 1..Len(scopes)
      /\ DOMAIN scopes' = 1..k
      /\ scopes'[k] = x
      /\ \A j \in 1..Len(scopes) : scopes'[j] = scopes[j]
  BY <1>0, EnterIndexes
<1>2. \A j \in DOMAIN scopes' : j \in DOMAIN scopes \/ j = k
  BY <1>0, <1>1
<1>3. i \in DOMAIN scopes' /\ scopes'[i] = scopes[i]
  BY <1>0, <1>1
<1> QED
  BY <1>1, <1>2, <1>3 DEF ShowsAgain, ConfigAt

LEMMA CursorStep == TypeOK /\ SavedRight /\ CursorRight /\ [Next]_vars => CursorRight'
<1>1. SUFFICES ASSUME TypeOK, SavedRight, CursorRight, [Next]_vars,
                      cursor' = "hidden"
               PROVE  /\ "vt" \in con'.outMode
                      /\ \E i \in DOMAIN scopes' : ShowsAgain(i)'
  BY DEF CursorRight
<1>2. CASE BeginConfig
  <2> DEFINE x == [kind |-> "config", orig |-> con,
                   changed |-> {n \in DOMAIN con : con'[n] # con[n]}]
  <2>1. con' = Configured(con) /\ Enter(x) /\ cursor = "hidden"
    BY <1>1, <1>2 DEF BeginConfig
  <2>2. x \in Config /\ x.orig = con /\ con \in Settings
    BY <1>1 DEF TypeOK, Settings, Config
  <2> HIDE DEF x
  <2> QED
    BY <1>1, <2>1, <2>2, ShowsAgainEnter, ConfiguredSettings DEF CursorRight
<1>3. CASE EndConfig
  <2>1. Leave("config") /\ cursor = "hidden"
    BY <1>1, <1>3 DEF EndConfig
  <2>2. PICK k \in DOMAIN scopes : k = Len(scopes) /\ Last(scopes) = scopes[k]
    BY <1>1, <2>1, LeaveIndexes
  <2>3. PICK i \in DOMAIN scopes : ShowsAgain(i)
    BY <1>1, <2>1 DEF CursorRight
  <2>4. /\ ConfigAt(k) /\ i # k
        /\ DOMAIN scopes' \subseteq DOMAIN scopes
        /\ \A j \in DOMAIN scopes' : scopes'[j] = scopes[j]
        /\ i # k => i < k /\ i \in DOMAIN scopes'
    BY <1>1, <2>1, <2>2, <2>3, LeaveIndexes DEF ConfigAt, ShowsAgain
  <2>5. "vt" \in con'.outMode
    BY <1>1, <1>3, <2>2, <2>3, <2>4, EndConfigRestores DEF ShowsAgain
  <2>6. ShowsAgain(i)'
    BY <2>3, <2>4 DEF ShowsAgain, ConfigAt
  <2> QED
    BY <2>4, <2>5, <2>6
<1>4. CASE BeginConsole
  <2> DEFINE x == [kind |-> "console"]
  <2>1. Enter(x) /\ x \in Screens
    BY <1>4 DEF BeginConsole, Screens
  <2>2. "vt" \in con.outMode
    BY <1>1, <1>4 DEF BeginConsole, Written, CursorRight
  <2>3. "vt" \in con'.outMode
    BY <1>1, <1>4, <2>2 DEF BeginConsole, TypeOK, Settings
  <2>4. PICK k : k = Len(scopes) + 1
    OBVIOUS
  <2>5. /\ k \in DOMAIN scopes' /\ scopes'[k].kind = "console"
        /\ \A j \in DOMAIN scopes' : ~(k < j)
    BY <1>1, <2>1, <2>4, EnterIndexes
  <2>6. ShowsAgain(k)'
    BY <2>5 DEF ShowsAgain
  <2> QED
    BY <2>3, <2>5, <2>6
<1>5. CASE MoveConsole
  <2> DEFINE x == [kind |-> "console"]
  <2>1. Enter(x) /\ x \in Screens /\ x.kind # "config"
        /\ con' = con /\ cursor = "hidden"
    BY <1>1, <1>5 DEF MoveConsole, Screens
  <2> HIDE DEF x
  <2> QED
    BY <1>1, <2>1, ShowsAgainEnter DEF CursorRight
<1>6. CASE EndConsole
  BY <1>1, <1>6 DEF EndConsole, Written, CursorRight
<1>7. CASE UNCHANGED vars
  BY <1>1, <1>7 DEF vars, CursorRight, ShowsAgain, ConfigAt
<1> QED
  BY <1>1, <1>2, <1>3, <1>4, <1>5, <1>6, <1>7 DEF Next

(* On every machine and however the scopes are nested, no cursor stays     *)
(* hidden without a Console.                                               *)
THEOREM CursorComesBackHolds == Spec => []CursorComesBack
<1>1. Init => CursorRight
  BY DEF Init, CursorRight
<1>2. CursorRight => CursorComesBack
  BY DEF CursorRight, CursorComesBack, ShowsAgain
<1> QED
  BY <1>1, <1>2, InitTypeOK, InitSavedRight, TypeStep, SavedRightStep,
     CursorStep, PTL DEF Spec

-----------------------------------------------------------------------------
(* Code points and their bytes.                                            *)

\* The code points that append_utf8() writes.
Scalars == {c \in Nat : c <= 1114111 /\ ~Surrogate(c)}

\* Every number becomes a code point, and a code point stays what it is.
LEMMA WritesCodePoint ==
    ASSUME NEW ch \in Nat
    PROVE  /\ Writes(ch) \in Scalars
           /\ Writes(Writes(ch)) = Writes(ch)
           /\ AppendUtf8(ch) = AppendUtf8(Writes(ch))
<1>1. Writes(ch) \in Scalars /\ Writes(Writes(ch)) = Writes(ch)
  BY DEF Writes, Scalars, Surrogate, Replacement
<1>2. AppendUtf8(ch) = AppendUtf8(Writes(ch))
  BY <1>1 DEF AppendUtf8
<1> QED
  BY <1>1, <1>2

\* A first byte with the bytes that continue it, as many as it promises.
WellFormedBytes(b) ==
    /\ b \in Seq(Octets)
    /\ Len(b) \in 1..4
    /\ ExpectedByteCount(b[1]) = Len(b)
    /\ \A i \in 2..Len(b) : Continuation(b[i])

LEMMA ByteCounts ==
    ASSUME NEW b \in Octets
    PROVE  /\ ExpectedByteCount(b) \in 0..4
           /\ ExpectedByteCount(b) = 1 <=> b < 128
           /\ ExpectedByteCount(b) = 2 <=> b \in 192..223
           /\ ExpectedByteCount(b) = 3 <=> b \in 224..239
           /\ ExpectedByteCount(b) = 4 <=> b \in 240..247
<1>1. b \in Int /\ 0 <= b /\ b <= 255
  BY DEF Octets
<1>2. \/ b < 128 \/ b \in 128..191 \/ b \in 192..223 \/ b \in 224..239 \/ b \in 240..247
      \/ b \in 248..255
  BY <1>1
<1>3. CASE b < 128
  BY <1>1, <1>3 DEF ExpectedByteCount
<1>4. CASE b \in 128..191
  BY <1>1, <1>4 DEF ExpectedByteCount
<1>5. CASE b \in 192..223
  BY <1>1, <1>5 DEF ExpectedByteCount
<1>6. CASE b \in 224..239
  BY <1>1, <1>6 DEF ExpectedByteCount
<1>7. CASE b \in 240..247
  BY <1>1, <1>7 DEF ExpectedByteCount
<1>8. CASE b \in 248..255
  BY <1>1, <1>8 DEF ExpectedByteCount
<1> QED
  BY <1>2, <1>3, <1>4, <1>5, <1>6, <1>7, <1>8

\* What append_utf8() writes of a code point is well formed, stands for it,
\* and holds white space only if it is white space.
LEMMA WrittenIsRead ==
    ASSUME NEW c \in Scalars
    PROVE  /\ WellFormedBytes(AppendUtf8(c))
           /\ Joined(AppendUtf8(c)) = c
           /\ c <= 127 => AppendUtf8(c) = <<c>>
           /\ c > 127 => Len(AppendUtf8(c)) > 1
<1> DEFINE e == AppendUtf8(c)
<1>1. c \in Nat /\ c <= 1114111 /\ Writes(c) = c
  BY DEF Scalars, Writes
<1>2. CASE c <= 127
  <2>1. e = <<c>>
    BY <1>1, <1>2 DEF AppendUtf8
  <2>2. ExpectedByteCount(c) = 1
    BY <1>1, <1>2, ByteCounts DEF Octets
  <2>3. WellFormedBytes(e) /\ Joined(e) = c
    BY <1>1, <1>2, <2>1, <2>2 DEF WellFormedBytes, Joined, Octets
  <2> QED
    BY <1>1, <1>2, <2>1, <2>3
<1>3. CASE 127 < c /\ c <= 2047
  <2>1. e = <<192 + c \div 64, Tail6(c)>>
    BY <1>1, <1>3 DEF AppendUtf8
  <2>2. 192 + c \div 64 \in 192..223 /\ Tail6(c) \in 128..191
    BY <1>1, <1>3 DEF Tail6
  <2>3. ExpectedByteCount(192 + c \div 64) = 2
    BY <2>2, ByteCounts DEF Octets
  <2>4. WellFormedBytes(e)
    BY <2>1, <2>2, <2>3 DEF WellFormedBytes, Octets, Continuation
  <2>5. Joined(e) = c
    BY <1>1, <1>3, <2>1 DEF Joined, With, Tail6
  <2> QED
    BY <1>1, <1>3, <2>1, <2>4, <2>5
<1>4. CASE 2047 < c /\ c <= 65535
  <2>1. e = <<224 + c \div 4096, Tail6(c \div 64), Tail6(c)>>
    BY <1>1, <1>4 DEF AppendUtf8
  <2>2. /\ 224 + c \div 4096 \in 224..239
        /\ Tail6(c \div 64) \in 128..191 /\ Tail6(c) \in 128..191
    BY <1>1, <1>4 DEF Tail6
  <2>3. ExpectedByteCount(224 + c \div 4096) = 3
    BY <2>2, ByteCounts DEF Octets
  <2>4. WellFormedBytes(e)
    BY <2>1, <2>2, <2>3 DEF WellFormedBytes, Octets, Continuation
  <2>5. Joined(e) = c
    BY <1>1, <1>4, <2>1 DEF Joined, With, Tail6
  <2> QED
    BY <1>1, <1>4, <2>1, <2>4, <2>5
<1>5. CASE 65535 < c
  <2>1. e = <<240 + c \div 262144, Tail6(c \div 4096), Tail6(c \div 64),
              Tail6(c)>>
    BY <1>1, <1>5 DEF AppendUtf8
  <2>2. /\ 240 + c \div 262144 \in 240..247
        /\ Tail6(c \div 4096) \in 128..191
        /\ Tail6(c \div 64) \in 128..191 /\ Tail6(c) \in 128..191
    BY <1>1, <1>5 DEF Tail6
  <2>3. ExpectedByteCount(240 + c \div 262144) = 4
    BY <2>2, ByteCounts DEF Octets
  <2>4. WellFormedBytes(e)
    BY <2>1, <2>2, <2>3 DEF WellFormedBytes, Octets, Continuation
  <2>5. Joined(e) = c
    BY <1>1, <1>5, <2>1 DEF Joined, With, Tail6
  <2> QED
    BY <1>1, <1>5, <2>1, <2>4, <2>5
<1> QED
  BY <1>1, <1>2, <1>3, <1>4, <1>5

\* The six bits of a continuation byte, put at the end and taken off.
LEMMA WithTail ==
    ASSUME NEW bits \in Nat, NEW byte \in 128..191
    PROVE  /\ With(bits, byte) \in Nat /\ With(bits, byte) \div 64 = bits
           /\ Tail6(With(bits, byte)) = byte
BY DEF With, Tail6

LEMMA SixBitsTwice ==
    ASSUME NEW a \in Nat
    PROVE  /\ a \div 4096 = (a \div 64) \div 64
           /\ a \div 262144 = ((a \div 64) \div 64) \div 64
OBVIOUS

\* What is well formed stands for a number that append_utf8() writes back as
\* the same bytes, unless it needs fewer or is no code point.
LEMMA WellFormedIsHonest ==
    ASSUME NEW b, WellFormedBytes(b)
    PROVE  /\ Joined(b) \in Nat
           /\ \/ AppendUtf8(Joined(b)) = b
              \/ Len(AppendUtf8(Joined(b))) < Len(b)
              \/ Writes(Joined(b)) # Joined(b)
<1> DEFINE c == Joined(b)
<1>1. b \in Seq(Octets) /\ Len(b) \in 1..4 /\ ExpectedByteCount(b[1]) = Len(b)
  BY DEF WellFormedBytes
<1>2. b[1] \in Octets /\ \A i \in 2..Len(b) : b[i] \in 128..191
  BY <1>1 DEF WellFormedBytes, Continuation
<1>3. CASE Len(b) = 1
  <2>1. b = <<b[1]>> /\ c = b[1] /\ b[1] < 128
    BY <1>1, <1>2, <1>3, ByteCounts DEF Joined
  <2>2. c \in Nat
    BY <1>2, <2>1 DEF Octets
  <2>3. Writes(c) = c => AppendUtf8(c) = <<c>>
    BY <2>1, <2>2 DEF AppendUtf8
  <2> QED
    BY <2>1, <2>2, <2>3
<1>4. CASE Len(b) = 2
  <2>1. /\ b[1] \in 192..223 /\ b[2] \in 128..191
        /\ b = <<b[1], b[2]>> /\ c = With(b[1] % 32, b[2])
    BY <1>1, <1>2, <1>4, ByteCounts DEF Joined
  <2> HIDE DEF c
  <2>2. b[1] % 32 \in 0..31 /\ 192 + (b[1] % 32) = b[1]
    BY ONLY <2>1
  <2>3. c \in Nat /\ c \div 64 = b[1] % 32 /\ Tail6(c) = b[2]
    BY ONLY <2>1, <2>2, WithTail
  <2>4. 192 + c \div 64 = b[1] /\ c <= 2047
    BY ONLY <2>2, <2>3
  <2>5. Writes(c) = c /\ 127 < c => AppendUtf8(c) = b
    BY <2>1, <2>3, <2>4 DEF AppendUtf8
  <2>6. Writes(c) = c /\ c <= 127 => Len(AppendUtf8(c)) < 2
    BY <2>3 DEF AppendUtf8
  <2>7. \/ AppendUtf8(c) = b
        \/ Len(AppendUtf8(c)) < Len(b)
        \/ Writes(c) # c
    BY ONLY <1>4, <2>3, <2>5, <2>6
  <2> QED
    BY ONLY <2>3, <2>7 DEF c
<1>5. CASE Len(b) = 3
  <2>1. /\ b[1] \in 224..239 /\ b[2] \in 128..191 /\ b[3] \in 128..191
        /\ b = <<b[1], b[2], b[3]>>
        /\ c = With(With(b[1] % 16, b[2]), b[3])
    BY <1>1, <1>2, <1>5, ByteCounts DEF Joined
  <2> HIDE DEF c
  <2>2. b[1] % 16 \in 0..15 /\ 224 + (b[1] % 16) = b[1]
    BY ONLY <2>1
  <2> DEFINE d == With(b[1] % 16, b[2])
  <2>3. d \in Nat /\ d \div 64 = b[1] % 16 /\ Tail6(d) = b[2]
    BY ONLY <2>1, <2>2, WithTail
  <2>4. c \in Nat /\ c \div 64 = d /\ Tail6(c) = b[3]
    BY ONLY <2>1, <2>3, WithTail
  <2> HIDE DEF d
  <2>5. c \div 4096 = b[1] % 16
    BY ONLY <2>3, <2>4, SixBitsTwice
  <2>6. 224 + c \div 4096 = b[1] /\ c <= 65535
    BY ONLY <2>2, <2>4, <2>5
  <2>7. Writes(c) = c /\ 2047 < c => AppendUtf8(c) = b
    BY <2>1, <2>3, <2>4, <2>6 DEF AppendUtf8
  <2>8. Writes(c) = c /\ c <= 2047 => Len(AppendUtf8(c)) < 3
    BY <2>4 DEF AppendUtf8
  <2>9. \/ AppendUtf8(c) = b
        \/ Len(AppendUtf8(c)) < Len(b)
        \/ Writes(c) # c
    BY ONLY <1>5, <2>4, <2>7, <2>8
  <2> QED
    BY ONLY <2>4, <2>9 DEF c
<1>6. CASE Len(b) = 4
  <2>1. /\ b[1] \in 240..247
        /\ b[2] \in 128..191 /\ b[3] \in 128..191 /\ b[4] \in 128..191
        /\ b = <<b[1], b[2], b[3], b[4]>>
        /\ c = With(With(With(b[1] % 8, b[2]), b[3]), b[4])
    <3>1. b[1] \in 240..247
      BY <1>1, <1>2, <1>6, ByteCounts
    <3>2. b[2] \in 128..191 /\ b[3] \in 128..191 /\ b[4] \in 128..191
      BY ONLY <1>2, <1>6
    <3>3. b = <<b[1], b[2], b[3], b[4]>>
      BY ONLY <1>1, <1>6
    <3>4. c = With(With(With(b[1] % 8, b[2]), b[3]), b[4])
      BY ONLY <1>6 DEF Joined
    <3> QED
      BY ONLY <3>1, <3>2, <3>3, <3>4
  <2> HIDE DEF c
  <2>2. b[1] % 8 \in Nat /\ 240 + (b[1] % 8) = b[1]
    BY ONLY <2>1
  <2> DEFINE d == With(b[1] % 8, b[2])
             e == With(d, b[3])
  <2>3. d \in Nat /\ d \div 64 = b[1] % 8 /\ Tail6(d) = b[2]
    BY ONLY <2>1, <2>2, WithTail
  <2> HIDE DEF d
  <2>4. e \in Nat /\ e \div 64 = d /\ Tail6(e) = b[3]
    BY ONLY <2>1, <2>3, WithTail
  <2>5. c = With(e, b[4])
    BY ONLY <2>1 DEF d
  <2> HIDE DEF e
  <2>6. c \in Nat /\ c \div 64 = e /\ Tail6(c) = b[4]
    BY ONLY <2>1, <2>4, <2>5, WithTail
  <2>7. c \div 4096 = d /\ c \div 262144 = b[1] % 8
    BY ONLY <2>3, <2>4, <2>6, SixBitsTwice
  <2>8. Writes(c) = c /\ 65535 < c => AppendUtf8(c) = b
    BY <2>1, <2>2, <2>3, <2>4, <2>6, <2>7 DEF AppendUtf8
  <2>9. Writes(c) = c /\ c <= 65535 => Len(AppendUtf8(c)) < 4
    BY <2>6 DEF AppendUtf8
  <2>10. \/ AppendUtf8(c) = b
         \/ Len(AppendUtf8(c)) < Len(b)
         \/ Writes(c) # c
    BY ONLY <1>6, <2>6, <2>8, <2>9
  <2> QED
    BY ONLY <2>6, <2>10 DEF c
<1> QED
  BY <1>1, <1>3, <1>4, <1>5, <1>6

-----------------------------------------------------------------------------
(* The reader.                                                             *)

\* Every set of naturals has a least member.
LEMMA LeastMember ==
    ASSUME NEW T, T \subseteq Nat, T /= {}
    PROVE  \E m \in T : \A n \in T : m <= n
<1> DEFINE R == {ss \in Nat \X Nat : ss[1] < ss[2]}
<1>1. OpToRel(<, Nat) = R
  BY DEF OpToRel
<1>2. PICK m \in T : \A n \in T : <<n, m>> \notin R
  <2>1. \E m \in T : \A n \in T : ~ (<<n, m>> \in OpToRel(<, Nat))
    BY NatLessThanWellFounded, WFMin
  <2> QED
    BY <1>1, <2>1
<1>3. ASSUME NEW n \in T PROVE m <= n
  <2>1. m \in Nat /\ n \in Nat
    OBVIOUS
  <2>2. n < m => <<n, m>> \in R
    BY ONLY <2>1
  <2>3. ~(n < m)
    BY <1>2, <1>3, <2>2
  <2> QED
    BY ONLY <2>1, <2>3
<1> QED
  BY <1>3

\* A first byte promises at most four.
LEMMA PromisedType ==
    ASSUME rest \in Seq(Octets), rest # <<>>
    PROVE  /\ Len(rest) \in Nat \ {0}
           /\ Promised = ExpectedByteCount(rest[1]) /\ Promised \in 0..4
<1>1. Len(rest) \in Nat \ {0} /\ Head(rest) = rest[1] /\ rest[1] \in Octets
  OBVIOUS
<1> QED
  BY <1>1, ByteCounts DEF Promised

\* The continuation bytes behind the first one are counted up to what it
\* promises, the end of the data, or another byte.
LEMMA ContinuedCounts ==
    ASSUME rest \in Seq(Octets), rest # <<>>, Promised > 0
    PROVE  /\ Continued \in 0..(Promised - 1)
           /\ Continued < Len(rest)
           /\ \A i \in 2..(Continued + 1) : Continuation(rest[i])
           /\ Continued < Promised - 1 /\ Continued + 1 < Len(rest)
                => ~Continuation(rest[Continued + 2])
<1>1. Len(rest) \in Nat \ {0} /\ Promised \in 1..4
  BY PromisedType
<1> DEFINE Follow(n) == /\ n \in 0..(Promised - 1) /\ n < Len(rest)
                        /\ \A i \in 2..(n + 1) : Continuation(rest[i])
           Beyond == {n \in Nat : ~Follow(n + 1)}
<1>2. Promised - 1 \in Beyond
  BY <1>1
<1>3. PICK m \in Beyond : \A n \in Beyond : m <= n
  BY <1>2, LeastMember
<1>4. Follow(m)
  <2>1. CASE m = 0
    BY <1>1, <2>1
  <2>2. CASE m # 0
    <3>1. m - 1 \in Nat /\ m - 1 \notin Beyond /\ (m - 1) + 1 = m
      BY ONLY <1>3, <2>2
    <3> QED
      BY ONLY <3>1
  <2> QED
    BY <2>1, <2>2
<1>5. m < Promised - 1 /\ m + 1 < Len(rest) => ~Continuation(rest[m + 2])
  <2> SUFFICES ASSUME m < Promised - 1, m + 1 < Len(rest),
                      Continuation(rest[m + 2])
               PROVE  FALSE
    OBVIOUS
  <2>1. m \in Nat /\ m + 1 \in 0..(Promised - 1)
    BY <1>1, <1>3
  <2>2. \A i \in 2..(m + 2) : Continuation(rest[i])
    <3> SUFFICES ASSUME NEW i \in 2..(m + 2) PROVE Continuation(rest[i])
      OBVIOUS
    <3>1. i \in 2..(m + 1) \/ i = m + 2
      BY ONLY <2>1
    <3> QED
      BY <1>4, <3>1
  <2> QED
    BY <1>1, <1>3, <2>1, <2>2
<1> HIDE DEF Beyond
<1>6. \E n \in 0..(Promised - 1) :
        /\ n < Len(rest)
        /\ \A i \in 2..(n + 1) : Continuation(rest[i])
        /\ n < Promised - 1 /\ n + 1 < Len(rest) => ~Continuation(rest[n + 2])
  BY <1>4, <1>5
<1> QED
  BY <1>6 DEF Continued

\* recoverFromError() ends with the next continuation byte or the data.
LEMMA RecoveredStops ==
    ASSUME rest \in Seq(Octets), NEW n \in 1..Len(rest)
    PROVE  /\ Recovered(n) \in n..Len(rest)
           /\ \A i \in (n + 1)..(Recovered(n) - 1) : ~Continuation(rest[i])
           /\ Recovered(n) = Len(rest) \/ Continuation(rest[Recovered(n)])
<1> DEFINE stops == {i \in (n + 1)..Len(rest) : Continuation(rest[i])}
<1>1. Len(rest) \in Nat /\ n \in Nat
  OBVIOUS
<1>2. CASE stops = {}
  <2>1. Recovered(n) = Len(rest)
    BY <1>2 DEF Recovered
  <2> QED
    BY <1>1, <1>2, <2>1
<1>3. CASE stops # {}
  <2>1. stops \in SUBSET Nat
    BY <1>1
  <2>2. \E i \in stops : \A j \in stops : i <= j
    <3> HIDE DEF stops
    <3> QED
      BY <1>3, <2>1, LeastMember
  <2>3. Recovered(n) = CHOOSE i \in stops : \A j \in stops : i <= j
    BY <1>3 DEF Recovered
  <2>4. Recovered(n) \in stops /\ \A j \in stops : Recovered(n) <= j
    <3> HIDE DEF stops
    <3> QED
      BY ONLY <2>2, <2>3
  <2> QED
    BY <1>1, <2>4
<1> QED
  BY <1>2, <1>3

-----------------------------------------------------------------------------
(* What nextCodepoint() reports.                                           *)

Results ==
    [code : {"SUCCESS"}, codepoint : Nat, bytes : Seq(Octets)]
      \cup [code : {"INCOMPLETE_SEQUENCE"}, bytes : Seq(Octets)]
      \cup [code : {"INVALID_CONTINUATION_BYTE", "INVALID_FIRST_BYTE"},
             at : Nat, bytes : Seq(Octets)]

HonestResult(r) ==
    r.code = "SUCCESS" =>
        \/ AppendUtf8(r.codepoint) = r.bytes
        \/ Len(AppendUtf8(r.codepoint)) < Len(r.bytes)
        \/ Writes(r.codepoint) # r.codepoint

\* The n bytes that a call takes, and what it leaves.
LEMMA TakenBytes ==
    ASSUME rest \in Seq(Octets), NEW n \in 0..Len(rest)
    PROVE  /\ SubSeq(rest, 1, n) \in Seq(Octets) /\ Len(SubSeq(rest, 1, n)) = n
           /\ \A i \in 1..n : SubSeq(rest, 1, n)[i] = rest[i]
           /\ SubSeq(rest, n + 1, Len(rest)) \in Seq(Octets)
           /\ Len(SubSeq(rest, n + 1, Len(rest))) = Len(rest) - n
           /\ \A i \in 1..(Len(rest) - n) :
                 SubSeq(rest, n + 1, Len(rest))[i] = rest[n + i]
OBVIOUS

\* The bytes of a complete character are well formed.
LEMMA CharacterIsWellFormed ==
    ASSUME rest \in Seq(Octets), rest # <<>>, Promised > 0, Complete
    PROVE  /\ Promised \in 1..4 /\ Promised <= Len(rest)
           /\ WellFormedBytes(SubSeq(rest, 1, Promised))
<1> DEFINE b == SubSeq(rest, 1, Promised)
<1>1. /\ Promised \in 1..4 /\ Promised = ExpectedByteCount(rest[1])
      /\ Len(rest) \in Nat
  BY PromisedType
<1>2. Continued = Promised - 1
  BY DEF Complete
<1>3. /\ Promised <= Len(rest)
      /\ \A i \in 2..Promised : Continuation(rest[i])
  <2>1. /\ Continued < Len(rest)
        /\ \A i \in 2..(Continued + 1) : Continuation(rest[i])
    BY ContinuedCounts
  <2> QED
    BY ONLY <1>1, <1>2, <2>1
<1>4. /\ b \in Seq(Octets) /\ Len(b) = Promised
      /\ \A i \in 1..Promised : b[i] = rest[i]
  <2>1. Promised \in 0..Len(rest)
    BY ONLY <1>1, <1>3
  <2> QED
    BY <2>1, TakenBytes
<1> HIDE DEF b
<1>5. \A i \in 2..Promised : Continuation(b[i])
  BY <1>1, <1>3, <1>4
<1>6. WellFormedBytes(b)
  BY <1>1, <1>4, <1>5 DEF WellFormedBytes
<1> QED
  BY <1>1, <1>3, <1>6 DEF b

\* Every call takes a byte at least and adds one result, an honest one.
LEMMA ResultOfCall ==
    ASSUME rest \in Seq(Octets), NextCodepoint
    PROVE  /\ UNCHANGED <<junk, text>> /\ rest' \in Seq(Octets)
           /\ Len(rest') < Len(rest)
           /\ \E r \in Results : /\ read' = Append(read, r) /\ HonestResult(r)
<1>1. CASE Character
  <2>1. /\ rest # <<>> /\ Promised > 0 /\ Complete
        /\ Report(Promised, Success(Promised))
    BY <1>1 DEF Character
  <2>2. /\ Promised \in 1..4 /\ Promised <= Len(rest) /\ Len(rest) \in Nat
        /\ WellFormedBytes(SubSeq(rest, 1, Promised))
    BY <2>1, CharacterIsWellFormed, PromisedType
  <2>3. /\ SubSeq(rest, Promised + 1, Len(rest)) \in Seq(Octets)
        /\ Len(SubSeq(rest, Promised + 1, Len(rest))) < Len(rest)
    <3>1. Promised \in 0..Len(rest)
      BY ONLY <2>2
    <3>2. /\ SubSeq(rest, Promised + 1, Len(rest)) \in Seq(Octets)
          /\ Len(SubSeq(rest, Promised + 1, Len(rest))) = Len(rest) - Promised
      BY <3>1, TakenBytes
    <3> QED
      BY <2>2, <3>2
  <2> DEFINE b == SubSeq(rest, 1, Promised)
             r == Success(Promised)
  <2>4. r = [code |-> "SUCCESS", codepoint |-> Joined(b), bytes |-> b]
    BY DEF Success
  <2>5. /\ UNCHANGED <<junk, text>> /\ rest' = SubSeq(rest, Promised + 1, Len(rest))
        /\ read' = Append(read, r)
    BY <2>1 DEF Report
  <2> HIDE DEF b, r
  <2>6. b \in Seq(Octets) /\ WellFormedBytes(b)
    BY <2>2 DEF b, WellFormedBytes
  <2>7. r \in Results /\ HonestResult(r)
    BY <2>4, <2>6, WellFormedIsHonest DEF Results, HonestResult
  <2> QED
    BY <2>3, <2>5, <2>7
<1>2. CASE IncompleteSequence
  <2> DEFINE r == [code |-> "INCOMPLETE_SEQUENCE", bytes |-> rest]
  <2>1. /\ UNCHANGED <<junk, text>> /\ rest' = SubSeq(rest, Len(rest) + 1, Len(rest))
        /\ read' = Append(read, r)
    BY <1>2 DEF IncompleteSequence, Report
  <2>2. rest' \in Seq(Octets) /\ Len(rest') < Len(rest)
    <3>1. Len(rest) \in 0..Len(rest) /\ Len(rest) > 0
      BY <1>2 DEF IncompleteSequence
    <3>2. rest' \in Seq(Octets) /\ Len(rest') = Len(rest) - Len(rest)
      BY <2>1, <3>1, TakenBytes
    <3> QED
      BY <3>1, <3>2
  <2>3. r \in Results /\ HonestResult(r)
    BY DEF Results, HonestResult
  <2> QED
    BY <2>1, <2>2, <2>3
<1>3. ASSUME NEW at \in 1..Len(rest), NEW code,
             code \in {"INVALID_CONTINUATION_BYTE", "INVALID_FIRST_BYTE"},
             Report(Recovered(at), Failure(code, at, Recovered(at)))
      PROVE  /\ UNCHANGED <<junk, text>> /\ rest' \in Seq(Octets)
             /\ Len(rest') < Len(rest)
             /\ \E r \in Results : /\ read' = Append(read, r) /\ HonestResult(r)
  <2> DEFINE n == Recovered(at)
             b == SubSeq(rest, 1, n)
             r == Failure(code, at, n)
  <2>1. /\ n \in at..Len(rest)
        /\ \A i \in (at + 1)..(n - 1) : ~Continuation(rest[i])
    BY RecoveredStops
  <2>2. /\ UNCHANGED <<junk, text>> /\ rest' = SubSeq(rest, n + 1, Len(rest))
        /\ read' = Append(read, r)
    BY <1>3 DEF Report
  <2>3. r = [code |-> code, at |-> at, bytes |-> b]
    BY DEF Failure
  <2> HIDE DEF n
  <2>4. n \in 0..Len(rest) /\ at \in Nat /\ Len(rest) \in Nat
    BY <2>1
  <2>5. /\ b \in Seq(Octets) /\ Len(b) = n
        /\ \A i \in 1..n : b[i] = rest[i]
        /\ SubSeq(rest, n + 1, Len(rest)) \in Seq(Octets)
        /\ Len(SubSeq(rest, n + 1, Len(rest))) = Len(rest) - n
    BY <2>4, TakenBytes
  <2> HIDE DEF b, r
  <2>7. r \in Results
    BY <1>3, <2>3, <2>4, <2>5 DEF Results
  <2>8. HonestResult(r)
    BY <1>3, <2>3 DEF HonestResult
  <2>10. Len(rest') < Len(rest)
    <3>1. PICK l \in Nat : l = Len(rest)
      BY <2>4
    <3>2. Len(rest') = l - n /\ n \in at..l /\ at \in 1..l
      BY <2>1, <2>2, <2>5, <3>1
    <3> QED
      BY <3>1, <3>2
  <2> QED
    BY <2>2, <2>5, <2>7, <2>8, <2>10
<1>4. CASE InvalidContinuationByte
  <2>1. /\ rest # <<>> /\ Promised > 0 /\ Continued + 1 < Len(rest)
        /\ Report(Recovered(Continued + 2),
                  Failure("INVALID_CONTINUATION_BYTE", Continued + 2,
                          Recovered(Continued + 2)))
    BY <1>4 DEF InvalidContinuationByte
  <2>2. Continued \in 0..(Promised - 1) /\ Promised \in 0..4 /\ Len(rest) \in Nat
    BY <2>1, ContinuedCounts, PromisedType
  <2>3. Continued + 2 \in 1..Len(rest)
    BY ONLY <2>1, <2>2
  <2> QED
    BY <1>3, <2>1, <2>3
<1>5. CASE InvalidFirstByte
  <2>1. /\ rest # <<>>
        /\ Report(Recovered(1), Failure("INVALID_FIRST_BYTE", 1, Recovered(1)))
    BY <1>5 DEF InvalidFirstByte
  <2>2. 1 \in 1..Len(rest)
    BY <2>1
  <2> QED
    BY <1>3, <2>1, <2>2
<1> QED
  BY <1>1, <1>2, <1>4, <1>5 DEF NextCodepoint

-----------------------------------------------------------------------------
(* The iterator.                                                           *)

\* What Yielded() counts up to: one function, which any solution decides.
LEMMA YieldedSolution ==
    ASSUME NEW b,
           NEW g, g = [n \in 0..Len(b) |->
                         IF n = 0 THEN <<>>
                         ELSE IF b[n] \in Space THEN g[n - 1]
                         ELSE Append(g[n - 1], b[n])]
    PROVE  \E f : /\ f = [n \in 0..Len(b) |->
                            IF n = 0 THEN <<>>
                            ELSE IF b[n] \in Space THEN f[n - 1]
                            ELSE Append(f[n - 1], b[n])]
                  /\ Yielded(b) = f[Len(b)]
<1> DEFINE upTo[n \in 0..Len(b)] ==
             IF n = 0 THEN <<>>
             ELSE IF b[n] \in Space THEN upTo[n - 1]
             ELSE Append(upTo[n - 1], b[n])
<1>1. upTo = [n \in 0..Len(b) |->
                IF n = 0 THEN <<>>
                ELSE IF b[n] \in Space THEN upTo[n - 1]
                ELSE Append(upTo[n - 1], b[n])]
  BY Zenon DEF upTo
<1>2. Yielded(b) = upTo[Len(b)]
  BY Zenon DEF Yielded
<1> HIDE DEF upTo
<1> QED
  BY <1>1, <1>2, Zenon

\* White space is skipped.
LEMMA SpaceSkipped ==
    ASSUME NEW c \in Space
    PROVE  Yielded(<<c>>) = <<>>
<1> DEFINE b == <<c>>
           g == [n \in 0..1 |-> <<>>]
<1>1. Len(b) = 1 /\ b[1] \in Space
  OBVIOUS
<1> HIDE DEF b
<1>2. g = [n \in 0..Len(b) |->
             IF n = 0 THEN <<>>
             ELSE IF b[n] \in Space THEN g[n - 1]
             ELSE Append(g[n - 1], b[n])]
  BY <1>1
<1> HIDE DEF g
<1>3. PICK f : /\ f = [n \in 0..Len(b) |->
                         IF n = 0 THEN <<>>
                         ELSE IF b[n] \in Space THEN f[n - 1]
                         ELSE Append(f[n - 1], b[n])]
               /\ Yielded(b) = f[Len(b)]
  BY <1>2, YieldedSolution
<1>4. f[1] = f[0] /\ f[0] = <<>>
  BY <1>1, <1>3
<1> QED
  BY <1>1, <1>3, <1>4 DEF b

\* Anything else is yielded.
LEMMA RestYielded ==
    ASSUME NEW b \in Seq(Nat), \A i \in 1..Len(b) : b[i] \notin Space
    PROVE  Yielded(b) = b
<1> DEFINE g == [n \in 0..Len(b) |-> SubSeq(b, 1, n)]
<1>1. Len(b) \in Nat /\ SubSeq(b, 1, 0) = <<>> /\ SubSeq(b, 1, Len(b)) = b
  OBVIOUS
<1>2. ASSUME NEW n \in 1..Len(b)
      PROVE  SubSeq(b, 1, n) = Append(SubSeq(b, 1, n - 1), b[n])
  <2>1. n \in Nat /\ n - 1 \in Nat /\ n <= Len(b)
    OBVIOUS
  <2>2. /\ SubSeq(b, 1, n) \in Seq(Nat) /\ Len(SubSeq(b, 1, n)) = n
        /\ \A i \in 1..n : SubSeq(b, 1, n)[i] = b[i]
    BY <2>1
  <2>3. /\ SubSeq(b, 1, n - 1) \in Seq(Nat)
        /\ Len(SubSeq(b, 1, n - 1)) = n - 1
        /\ \A i \in 1..(n - 1) : SubSeq(b, 1, n - 1)[i] = b[i]
    BY <2>1
  <2> DEFINE s == SubSeq(b, 1, n - 1)
             a == Append(s, b[n])
  <2> HIDE DEF s
  <2>4. /\ a \in Seq(Nat) /\ Len(a) = n
        /\ \A i \in 1..n : a[i] = b[i]
    BY <2>1, <2>3 DEF s
  <2> HIDE DEF a
  <2>5. SubSeq(b, 1, n) = a
    BY <2>2, <2>4
  <2> QED
    BY <2>5 DEF a, s
<1>3. g = [n \in 0..Len(b) |->
             IF n = 0 THEN <<>>
             ELSE IF b[n] \in Space THEN g[n - 1]
             ELSE Append(g[n - 1], b[n])]
  <2> SUFFICES ASSUME NEW n \in 0..Len(b)
               PROVE  g[n] = IF n = 0 THEN <<>>
                             ELSE IF b[n] \in Space THEN g[n - 1]
                             ELSE Append(g[n - 1], b[n])
    BY Zenon
  <2>1. CASE n = 0
    BY <1>1, <2>1
  <2>2. CASE n # 0
    <3>1. n \in 1..Len(b) /\ n - 1 \in 0..Len(b)
      BY <2>2
    <3>2. g[n] = SubSeq(b, 1, n) /\ g[n - 1] = SubSeq(b, 1, n - 1)
      BY <3>1
    <3> HIDE DEF g
    <3> QED
      BY <1>2, <2>2, <3>1, <3>2
  <2> QED
    BY <2>1, <2>2
<1> HIDE DEF g
<1>4. PICK f : /\ f = [n \in 0..Len(b) |->
                         IF n = 0 THEN <<>>
                         ELSE IF b[n] \in Space THEN f[n - 1]
                         ELSE Append(f[n - 1], b[n])]
               /\ Yielded(b) = f[Len(b)]
  BY <1>3, YieldedSolution
<1> DEFINE T == {n \in 0..Len(b) : f[n] # SubSeq(b, 1, n)}
<1>5. T = {}
  <2> SUFFICES ASSUME T # {} PROVE FALSE
    OBVIOUS
  <2>1. T \subseteq Nat
    OBVIOUS
  <2>2. PICK m \in T : \A n \in T : m <= n
    <3> HIDE DEF T
    <3> QED
      BY <2>1, LeastMember
  <2>3. m \in 0..Len(b) /\ f[m] # SubSeq(b, 1, m)
    OBVIOUS
  <2>4. CASE m = 0
    <3>1. f[0] = <<>>
      BY <1>1, <1>4
    <3> QED
      BY <1>1, <2>3, <2>4, <3>1
  <2>5. CASE m # 0
    <3>1. m \in 1..Len(b) /\ m - 1 \in 0..Len(b) /\ ~(m <= m - 1)
      BY <2>3, <2>5
    <3>2. f[m] = Append(f[m - 1], b[m])
      BY <1>4, <2>5, <3>1
    <3>3. f[m - 1] = SubSeq(b, 1, m - 1)
      BY <2>2, <3>1
    <3> QED
      BY <1>2, <2>3, <3>1, <3>2, <3>3
  <2> QED
    BY <2>4, <2>5
<1>6. f[Len(b)] = SubSeq(b, 1, Len(b))
  <2>1. Len(b) \in 0..Len(b)
    BY <1>1
  <2> QED
    BY <1>5, <2>1
<1> QED
  BY <1>1, <1>4, <1>6

\* The iterator yields of a code point all its bytes or, of white space,
\* none.
LEMMA YieldedOfCodePoint ==
    ASSUME NEW c \in Scalars
    PROVE  /\ c \in Space => /\ Yielded(AppendUtf8(c)) = <<>>
                             /\ Yielded(<<c>>) = <<>>
           /\ c \notin Space => /\ Yielded(AppendUtf8(c)) = AppendUtf8(c)
                                /\ Yielded(<<c>>) = <<c>>
<1>1. c \in Nat
  BY DEF Scalars
<1>2. CASE c \in Space
  <2>1. AppendUtf8(c) = <<c>>
    <3>1. c <= 127
      BY <1>2 DEF Space
    <3> QED
      BY <3>1, WrittenIsRead
  <2> QED
    BY <1>2, <2>1, SpaceSkipped
<1>3. CASE c \notin Space
  <2>1. Yielded(<<c>>) = <<c>>
    <3>1. <<c>> \in Seq(Nat) /\ \A i \in 1..Len(<<c>>) : <<c>>[i] \notin Space
      BY <1>1, <1>3
    <3> QED
      BY <3>1, RestYielded
  <2>2. CASE c <= 127
    <3>1. AppendUtf8(c) = <<c>>
      BY <2>2, WrittenIsRead
    <3> QED
      BY <1>3, <2>1, <3>1
  <2>3. CASE c > 127
    <3> DEFINE e == AppendUtf8(c)
    <3>1. WellFormedBytes(e) /\ Len(e) > 1
      BY <2>3, WrittenIsRead
    <3> HIDE DEF e
    <3>2. /\ e \in Seq(Octets) /\ Len(e) \in 1..4
          /\ ExpectedByteCount(e[1]) = Len(e)
          /\ \A i \in 2..Len(e) : e[i] \in 128..191
      BY <3>1 DEF WellFormedBytes, Continuation
    <3>3. e[1] \in Octets /\ ~(e[1] < 128)
      BY <3>1, <3>2, ByteCounts
    <3>4. e \in Seq(Nat)
      BY <3>2 DEF Octets
    <3>5. \A i \in 1..Len(e) : e[i] \notin Space
      <4> SUFFICES ASSUME NEW i \in 1..Len(e) PROVE e[i] \notin Space
        OBVIOUS
      <4>1. e[i] \in Nat /\ e[i] >= 128
        <5>1. CASE i = 1
          BY <3>3, <5>1 DEF Octets
        <5>2. CASE i # 1
          <6>1. i \in 2..Len(e)
            BY <3>2, <5>2
          <6>2. e[i] \in 128..191
            BY <3>2, <6>1
          <6>3. \A x \in 128..191 : x \in Nat /\ x >= 128
            OBVIOUS
          <6> QED
            BY <6>2, <6>3
        <5> QED
          BY <5>1, <5>2
      <4> QED
        BY <4>1 DEF Space
    <3>6. Yielded(e) = e
      BY <3>4, <3>5, RestYielded
    <3> QED
      BY <1>3, <2>1, <3>6 DEF e
  <2> QED
    BY <1>1, <2>2, <2>3
<1> QED
  BY <1>2, <1>3

-----------------------------------------------------------------------------
(* The bytes of a text.                                                    *)

\* starts[i] bytes stand before the i-th code point of the text t, and r is
\* what is left of them when k code points have been read.
Fits(t, r, k, starts) ==
    /\ starts \in Seq(Nat) /\ Len(starts) = Len(t) + 1
    /\ \A i \in 1..Len(t) : starts[i + 1] = starts[i] + Len(AppendUtf8(t[i]))
    /\ \A i, j \in 1..Len(starts) : i <= j => starts[i] <= starts[j]
    /\ k \in 0..Len(t)
    /\ Len(r) = starts[Len(t) + 1] - starts[k + 1]
    /\ \A j \in (k + 1)..Len(t) : \A i \in 1..Len(AppendUtf8(t[j])) :
          r[starts[j] - starts[k + 1] + i] = AppendUtf8(t[j])[i]

LEMMA WrittenType ==
    ASSUME NEW c \in Scalars
    PROVE  AppendUtf8(c) \in Seq(Octets) /\ Len(AppendUtf8(c)) \in 1..4
BY WrittenIsRead DEF WellFormedBytes

LEMMA NothingFits == Fits(<<>>, <<>>, 0, <<0>>)
<1>1. /\ <<0>> \in Seq(Nat) /\ Len(<<0>>) = 1 /\ <<0>>[1] = 0
      /\ Len(<<>>) = 0 /\ <<>> = <<>>
  OBVIOUS
<1> QED
  BY <1>1 DEF Fits

\* A text that is longer by a code point, before it is read.
LEMMA FitsLonger ==
    ASSUME NEW t \in Seq(Scalars), NEW r \in Seq(Octets), NEW starts,
           Fits(t, r, 0, starts), NEW c \in Scalars
    PROVE  \E more : Fits(t \o <<c>>, r \o AppendUtf8(c), 0, more)
<1> DEFINE e == AppendUtf8(c)
           t2 == t \o <<c>>
           r2 == r \o e
           L == Len(t)
           more == Append(starts, starts[L + 1] + Len(e))
<1>1. /\ starts \in Seq(Nat) /\ Len(starts) = L + 1 /\ L \in Nat
      /\ \A i \in 1..L : starts[i + 1] = starts[i] + Len(AppendUtf8(t[i]))
      /\ \A i, j \in 1..Len(starts) : i <= j => starts[i] <= starts[j]
      /\ Len(r) = starts[L + 1] - starts[1]
      /\ \A j \in 1..L : \A i \in 1..Len(AppendUtf8(t[j])) :
            r[starts[j] - starts[1] + i] = AppendUtf8(t[j])[i]
  BY DEF Fits
<1>2. e \in Seq(Octets) /\ Len(e) \in 1..4
  BY WrittenType
<1>3. /\ t2 \in Seq(Scalars) /\ Len(t2) = L + 1 /\ t2[L + 1] = c
      /\ \A i \in 1..L : t2[i] = t[i]
  BY <1>1
<1> HIDE DEF e
<1>4. /\ r2 \in Seq(Octets) /\ Len(r2) = Len(r) + Len(e)
      /\ \A i \in 1..Len(r) : r2[i] = r[i]
      /\ \A i \in 1..Len(e) : r2[Len(r) + i] = e[i]
  BY <1>2
<1>0. L \in Nat
  BY ONLY <1>1
<1>5. /\ \A i \in 1..(L + 1) : starts[i] \in Nat
      /\ starts[L + 1] + Len(e) \in Nat
  BY <1>1, <1>2
<1>6. /\ more \in Seq(Nat) /\ Len(more) = L + 2
      /\ more[L + 2] = starts[L + 1] + Len(e)
      /\ \A i \in 1..(L + 1) : more[i] = starts[i]
  BY <1>1, <1>5
<1> HIDE DEF t2, r2, more, L
<1>7. \A i \in 1..(L + 1) : more[i + 1] = more[i] + Len(AppendUtf8(t2[i]))
  <2> SUFFICES ASSUME NEW i \in 1..(L + 1)
               PROVE  more[i + 1] = more[i] + Len(AppendUtf8(t2[i]))
    OBVIOUS
  <2>1. CASE i = L + 1
    <3>1. more[L + 2] = starts[L + 1] + Len(AppendUtf8(t2[L + 1]))
      BY <1>3, <1>6 DEF e
    <3>2. L + 1 \in 1..(L + 1) /\ i + 1 = L + 2
      BY ONLY <1>1, <2>1
    <3>3. more[i] = starts[L + 1]
      BY ONLY <1>6, <2>1, <3>2
    <3> QED
      BY ONLY <2>1, <3>1, <3>2, <3>3
  <2>2. CASE i # L + 1
    <3>1. i \in 1..L /\ i + 1 \in 1..(L + 1)
      BY ONLY <1>0, <2>2
    <3>2. more[i + 1] = starts[i + 1] /\ more[i] = starts[i] /\ t2[i] = t[i]
      BY <1>3, <1>6, <3>1
    <3> QED
      BY <1>1, <3>1, <3>2
  <2> QED
    BY <2>1, <2>2
<1>8. \A i, j \in 1..Len(more) : i <= j => more[i] <= more[j]
  <2> SUFFICES ASSUME NEW i \in 1..Len(more), NEW j \in 1..Len(more), i <= j
               PROVE  more[i] <= more[j]
    OBVIOUS
  <2>1. CASE j \in 1..(L + 1)
    <3>1. i \in 1..(L + 1)
      BY <1>1, <2>1
    <3> QED
      BY <1>1, <1>6, <2>1, <3>1
  <2>2. CASE j = L + 2 /\ i \in 1..(L + 1)
    <3>1. starts[i] <= starts[L + 1] /\ starts[i] \in Nat /\ starts[L + 1] \in Nat
      BY <1>1, <1>5, <2>2
    <3>2. more[i] = starts[i] /\ more[j] = starts[L + 1] + Len(e)
      BY <1>6, <2>2
    <3> QED
      BY ONLY <1>2, <3>1, <3>2
  <2>3. CASE i = L + 2 /\ j = L + 2
    BY <1>5, <1>6, <2>3
  <2>4. \/ j \in 1..(L + 1)
        \/ j = L + 2 /\ i \in 1..(L + 1)
        \/ i = L + 2 /\ j = L + 2
    <3>1. Len(more) = L + 2
      BY ONLY <1>6
    <3> QED
      <4>1. PICK l \in Nat : l = Len(more)
        BY <1>0, <3>1
      <4>2. i \in 1..l /\ j \in 1..l /\ l = L + 2 /\ i <= j
        BY <3>1, <4>1
      <4> QED
        BY ONLY <1>0, <4>2
  <2> QED
    BY <2>1, <2>2, <2>3, <2>4
<1>9. Len(r2) = more[L + 2] - more[1]
  <2>1. starts[1] \in Nat /\ starts[L + 1] \in Nat /\ more[1] = starts[1]
    BY <1>1, <1>5, <1>6
  <2> QED
    BY ONLY <1>1, <1>2, <1>4, <1>6, <2>1
<1>10. ASSUME NEW j \in 1..(L + 1), NEW i \in 1..Len(AppendUtf8(t2[j]))
       PROVE  r2[more[j] - more[1] + i] = AppendUtf8(t2[j])[i]
  <2>1. starts[1] \in Nat /\ more[1] = starts[1] /\ more[j] = starts[j]
    BY <1>1, <1>5, <1>6
  <2>2. CASE j = L + 1
    <3>1. t2[j] = c /\ i \in 1..Len(e)
      BY <1>3, <2>2 DEF e
    <3>2. more[j] - more[1] = Len(r)
      BY <1>1, <2>1, <2>2
    <3> QED
      BY <1>4, <3>1, <3>2 DEF e
  <2>3. CASE j # L + 1
    <3>1. j \in 1..L /\ j + 1 \in 1..(L + 1) /\ L + 1 \in 1..(L + 1)
      BY <1>1, <2>3
    <3>2. t2[j] = t[j] /\ i \in 1..Len(AppendUtf8(t[j])) /\ t[j] \in Scalars
      BY <1>3, <3>1 DEF L
    <3>3. PICK d \in 1..4 : d = Len(AppendUtf8(t[j]))
      BY <3>2, WrittenType
    <3>4. /\ starts[j] \in Nat /\ starts[j + 1] \in Nat /\ starts[L + 1] \in Nat
          /\ starts[1] <= starts[j] /\ starts[j + 1] <= starts[L + 1]
          /\ starts[j + 1] = starts[j] + d
      BY <1>1, <1>5, <3>1, <3>3
    <3>5. starts[j] - starts[1] + i \in 1..Len(r)
      <4>1. i \in 1..d
        BY ONLY <3>2, <3>3
      <4>2. Len(r) = starts[L + 1] - starts[1]
        BY ONLY <1>1
      <4> QED
        <5>1. PICK p \in Nat, u \in Nat, v \in Nat, l \in Nat :
                    /\ p = starts[1] /\ u = starts[j] /\ v = starts[L + 1]
                    /\ l = Len(r)
          BY <2>1, <3>4
        <5>2. p <= u /\ u + d <= v /\ l = v - p /\ i \in 1..d
          BY <3>4, <4>1, <4>2, <5>1
        <5>3. u - p + i \in 1..l
          BY ONLY <5>2
        <5> QED
          BY <5>1, <5>3
    <3>6. r[starts[j] - starts[1] + i] = AppendUtf8(t[j])[i]
      BY <1>1, <3>1, <3>2
    <3> QED
      BY <1>4, <2>1, <3>2, <3>5, <3>6
  <2> QED
    BY <2>2, <2>3
<1>11. Fits(t2, r2, 0, more)
  <2>1. 0 \in 0..Len(t2) /\ Len(t2) + 1 = L + 2 /\ 0 + 1 = 1
    BY <1>1, <1>3
  <2> QED
    BY <1>3, <1>6, <1>7, <1>8, <1>9, <1>10, <2>1 DEF Fits
<1> QED
  BY <1>11 DEF t2, r2, e

\* While bytes are left there is a code point to read, and they begin with
\* what was written for it.
LEMMA FitsFirst ==
    ASSUME NEW t \in Seq(Scalars), NEW r \in Seq(Octets), NEW k, NEW starts,
           Fits(t, r, k, starts), r # <<>>
    PROVE  /\ k \in Nat /\ k + 1 \in 1..Len(t)
           /\ Len(AppendUtf8(t[k + 1])) \in 1..Len(r)
           /\ \A i \in 1..Len(AppendUtf8(t[k + 1])) :
                 r[i] = AppendUtf8(t[k + 1])[i]
           /\ Fits(t, SubSeq(r, Len(AppendUtf8(t[k + 1])) + 1, Len(r)),
                   k + 1, starts)
<1> DEFINE L == Len(t)
<1>1. /\ starts \in Seq(Nat) /\ Len(starts) = L + 1 /\ L \in Nat
      /\ \A i \in 1..L : starts[i + 1] = starts[i] + Len(AppendUtf8(t[i]))
      /\ \A i, j \in 1..(L + 1) : i <= j => starts[i] <= starts[j]
      /\ k \in 0..L /\ Len(r) = starts[L + 1] - starts[k + 1]
      /\ \A j \in (k + 1)..L : \A i \in 1..Len(AppendUtf8(t[j])) :
            r[starts[j] - starts[k + 1] + i] = AppendUtf8(t[j])[i]
  BY DEF Fits
<1>2. \A i \in 1..(L + 1) : starts[i] \in Nat
  BY <1>1
<1>3. k # L /\ Len(r) \in Nat /\ Len(r) # 0
  BY <1>1, <1>2
<1>0. /\ L \in Nat /\ k \in 0..L /\ Len(r) = starts[L + 1] - starts[k + 1]
      /\ Len(r) \in Nat /\ Len(r) # 0
  BY ONLY <1>1, <1>3
<1> HIDE DEF L
<1>4. /\ k \in Nat /\ k + 1 \in 1..L /\ k + 2 \in 1..(L + 1) /\ L + 1 \in 1..(L + 1)
      /\ k + 1 \in 1..(L + 1) /\ k + 1 \in (k + 1)..L /\ k + 2 <= L + 1
      /\ k + 1 + 1 = k + 2
  BY ONLY <1>1, <1>3
<1>5. t[k + 1] \in Scalars
  BY <1>4 DEF L
<1>6. PICK n \in 1..4 : n = Len(AppendUtf8(t[k + 1]))
  BY <1>5, WrittenType
<1> DEFINE r2 == SubSeq(r, n + 1, Len(r))
<1>7. /\ starts[k + 2] = starts[k + 1] + n
      /\ starts[k + 2] <= starts[L + 1]
  BY <1>1, <1>4, <1>6
<1>8. /\ starts[k + 1] \in Nat /\ starts[k + 2] \in Nat
      /\ starts[L + 1] \in Nat
  BY <1>2, <1>4
<1>9. n \in 1..Len(r)
  BY ONLY <1>0, <1>7, <1>8
<1>10. \A i \in 1..n : r[i] = AppendUtf8(t[k + 1])[i]
  <2> SUFFICES ASSUME NEW i \in 1..n PROVE r[i] = AppendUtf8(t[k + 1])[i]
    OBVIOUS
  <2>1. r[starts[k + 1] - starts[k + 1] + i] = AppendUtf8(t[k + 1])[i]
    BY <1>1, <1>4, <1>6
  <2>2. starts[k + 1] - starts[k + 1] + i = i
    BY ONLY <1>6, <1>8
  <2> QED
    BY <2>1, <2>2
<1>11. /\ r2 \in Seq(Octets) /\ Len(r2) = Len(r) - n
       /\ \A i \in 1..(Len(r) - n) : r2[i] = r[n + i]
  <2>1. n \in 0..Len(r)
    BY ONLY <1>0, <1>9
  <2> QED
    BY <2>1
<1> HIDE DEF r2
<1>12. Len(r2) = starts[L + 1] - starts[k + 2]
  <2>1. Len(r2) = Len(r) - n
    BY ONLY <1>11
  <2> QED
    BY ONLY <1>0, <1>7, <1>8, <2>1
<1>13. ASSUME NEW j \in (k + 2)..L, NEW i \in 1..Len(AppendUtf8(t[j]))
       PROVE  r2[starts[j] - starts[k + 2] + i] = AppendUtf8(t[j])[i]
  <2>1. j \in 1..L /\ j \in 1..(L + 1) /\ j + 1 \in 1..(L + 1) /\ j \in (k + 1)..L
        /\ k + 2 <= j /\ j + 1 <= L + 1
    BY ONLY <1>1, <1>4
  <2>2. t[j] \in Scalars
    BY <2>1 DEF L
  <2>3. PICK d \in 1..4 : d = Len(AppendUtf8(t[j]))
    BY <2>2, WrittenType
  <2>4. /\ starts[j] \in Nat /\ starts[j + 1] \in Nat
        /\ starts[k + 2] <= starts[j] /\ starts[j + 1] <= starts[L + 1]
        /\ starts[j + 1] = starts[j] + d /\ i \in 1..d
    BY <1>1, <1>2, <1>4, <2>1, <2>3
  <2>5. r[starts[j] - starts[k + 1] + i] = AppendUtf8(t[j])[i]
    BY <1>1, <2>1
  <2>6. /\ starts[j] - starts[k + 2] + i \in 1..(Len(r) - n)
        /\ n + (starts[j] - starts[k + 2] + i) = starts[j] - starts[k + 1] + i
    <3>1. PICK p \in Nat, q \in Nat, u \in Nat, v \in Nat, l \in Nat :
                /\ p = starts[k + 1] /\ q = starts[k + 2]
                /\ u = starts[j] /\ v = starts[L + 1] /\ l = Len(r)
      BY <1>0, <1>8, <2>4
    <3>2. q = p + n /\ q <= u /\ u + d <= v /\ l = v - p /\ i \in 1..d
      BY <1>0, <1>7, <2>4, <3>1
    <3>3. u - q + i \in 1..(l - n) /\ n + (u - q + i) = u - p + i
      BY ONLY <3>2
    <3> QED
      BY <3>1, <3>3
  <2> QED
    BY <1>11, <2>5, <2>6
<1>14. Fits(t, r2, k + 1, starts)
  <2>1. k + 1 \in 0..L
    BY ONLY <1>4
  <2> QED
    BY <1>1, <1>4, <1>12, <1>13, <2>1 DEF Fits, L
<1> QED
  BY <1>4, <1>6, <1>9, <1>10, <1>14 DEF r2, L

\* When no byte is left every code point has been read.
LEMMA FitsEnd ==
    ASSUME NEW t \in Seq(Scalars), NEW k, NEW starts, Fits(t, <<>>, k, starts)
    PROVE  k = Len(t)
<1> DEFINE L == Len(t)
<1>1. /\ starts \in Seq(Nat) /\ Len(starts) = L + 1 /\ L \in Nat
      /\ \A i \in 1..L : starts[i + 1] = starts[i] + Len(AppendUtf8(t[i]))
      /\ \A i, j \in 1..(L + 1) : i <= j => starts[i] <= starts[j]
      /\ k \in 0..L /\ 0 = starts[L + 1] - starts[k + 1]
  BY DEF Fits
<1> SUFFICES ASSUME k # L PROVE FALSE
  OBVIOUS
<1>2. k + 1 \in 1..L /\ k + 2 \in 1..(L + 1) /\ k + 1 + 1 = k + 2
      /\ L + 1 \in 1..(L + 1) /\ k + 1 \in 1..(L + 1) /\ k + 2 <= L + 1
  BY <1>1
<1>3. PICK n \in 1..4 : n = Len(AppendUtf8(t[k + 1]))
  <2>1. t[k + 1] \in Scalars
    BY <1>2
  <2> QED
    BY <2>1, WrittenType
<1>4. /\ starts[k + 2] = starts[k + 1] + n
      /\ starts[k + 2] <= starts[L + 1]
      /\ starts[k + 1] \in Nat /\ starts[k + 2] \in Nat /\ starts[L + 1] \in Nat
  BY <1>1, <1>2, <1>3
<1>5. starts[L + 1] = starts[k + 1]
  BY ONLY <1>1, <1>4
<1> HIDE DEF L
<1> QED
  BY ONLY <1>4, <1>5

-----------------------------------------------------------------------------
(* The invariants.  As long as the reader is in the damage, the bytes of   *)
(* the text lie ahead; then it stands where a code point begins.           *)

\* The variables have their types, and every result is honest.
ResultsFine ==
    /\ junk \in Nat
    /\ text \in Seq(Scalars) /\ rest \in Seq(Octets) /\ read \in Seq(Results)
    /\ \A i \in 1..Len(read) : HonestResult(read[i])

\* What append_utf8() adds to a text is nothing or one more code point.
LEMMA WriteAdds ==
    ASSUME ResultsFine, NEW ch \in CodePoints, Write(ch)
    PROVE  \/ UNCHANGED utf8Vars
           \/ \E c \in Scalars : /\ read = <<>> /\ read' = <<>>
                                 /\ junk' = junk
                                 /\ text' = text \o <<c>>
                                 /\ rest' = rest \o AppendUtf8(c)
<1>1. ch \in Nat
  BY Utf8Assumption
<1> DEFINE c == Writes(ch)
<1>2. c \in Scalars /\ AppendUtf8(ch) = AppendUtf8(c)
  BY <1>1, WritesCodePoint
<1>3. /\ read = <<>> /\ read' = read /\ junk' = junk
      /\ rest' = rest \o Yielded(AppendUtf8(ch)) /\ text' = text \o Yielded(<<c>>)
  BY DEF Write
<1> HIDE DEF c
<1>4. CASE c \in Space
  <2>1. rest' = rest \o <<>> /\ text' = text \o <<>>
    BY <1>2, <1>3, <1>4, YieldedOfCodePoint
  <2>2. rest \o <<>> = rest /\ text \o <<>> = text
    BY DEF ResultsFine
  <2> QED
    BY <1>3, <2>1, <2>2 DEF utf8Vars
<1>5. CASE c \notin Space
  <2>1. rest' = rest \o AppendUtf8(c) /\ text' = text \o <<c>>
    BY <1>2, <1>3, <1>5, YieldedOfCodePoint
  <2> QED
    BY <1>2, <1>3, <2>1
<1> QED
  BY <1>4, <1>5

LEMMA ResultsStep ==
    ASSUME ResultsFine, [Utf8Next]_utf8Vars
    PROVE  ResultsFine'
<1>1. CASE UNCHANGED utf8Vars
  BY <1>1 DEF ResultsFine, utf8Vars
<1>2. CASE NextCodepoint
  <2>1. /\ UNCHANGED <<junk, text>> /\ rest' \in Seq(Octets)
        /\ \E r \in Results : /\ read' = Append(read, r) /\ HonestResult(r)
    BY <1>2, ResultOfCall DEF ResultsFine
  <2>2. PICK r \in Results : /\ read' = Append(read, r) /\ HonestResult(r)
    BY <2>1
  <2>3. /\ read' \in Seq(Results) /\ Len(read') = Len(read) + 1
        /\ read'[Len(read) + 1] = r
        /\ \A i \in 1..Len(read) : read'[i] = read[i]
    BY <2>2 DEF ResultsFine
  <2>4. ASSUME NEW i \in 1..Len(read')
        PROVE  HonestResult(read'[i])
    <3>1. Len(read) \in Nat
      BY DEF ResultsFine
    <3>2. i \in 1..Len(read) \/ i = Len(read) + 1
      BY <2>3, <3>1
    <3> QED
      BY <2>2, <2>3, <3>2 DEF ResultsFine
  <2> QED
    BY <2>1, <2>3, <2>4 DEF ResultsFine
<1>3. ASSUME NEW ch \in CodePoints, Write(ch)
      PROVE  ResultsFine'
  <2>1. CASE \E c \in Scalars : /\ read = <<>> /\ read' = <<>>
                                /\ junk' = junk
                                /\ text' = text \o <<c>>
                                /\ rest' = rest \o AppendUtf8(c)
    <3>1. PICK c \in Scalars : /\ read = <<>> /\ read' = <<>>
                               /\ junk' = junk
                               /\ text' = text \o <<c>>
                               /\ rest' = rest \o AppendUtf8(c)
      BY <2>1
    <3>2. text' \in Seq(Scalars) /\ rest' \in Seq(Octets)
      BY <3>1, WrittenType DEF ResultsFine
    <3> QED
      BY <3>1, <3>2 DEF ResultsFine
  <2> QED
    BY <1>1, <1>3, <2>1, WriteAdds
<1> QED
  BY <1>1, <1>2, <1>3 DEF Utf8Next, AtEnd

-----------------------------------------------------------------------------
(* Damage in front of a text.                                              *)

\* A call takes what continues the first byte, and after an error at a byte
\* that is wrong all up to the next continuation byte or the end.
CallOf(r, n, at) ==
    /\ n \in 1..Len(r) /\ at \in 1..(n + 1)
    /\ \A i \in 2..(at - 1) : Continuation(r[i])
    /\ at <= n => /\ \A i \in (at + 1)..(n - 1) : ~Continuation(r[i])
                  /\ n = Len(r) \/ Continuation(r[n])

LEMMA CallTakes ==
    ASSUME rest \in Seq(Octets), NextCodepoint
    PROVE  \E n, at : /\ CallOf(rest, n, at)
                      /\ rest' = SubSeq(rest, n + 1, Len(rest))
<1>0. Len(rest) \in Nat
  OBVIOUS
<1>1. CASE Character
  <2>1. /\ rest # <<>> /\ Promised > 0 /\ Complete
        /\ rest' = SubSeq(rest, Promised + 1, Len(rest))
    BY <1>1 DEF Character, Report
  <2>2. Promised \in 1..4 /\ Promised <= Len(rest)
    BY <2>1, CharacterIsWellFormed
  <2>3. \A i \in 2..Promised : Continuation(rest[i])
    <3>1. \A i \in 2..(Continued + 1) : Continuation(rest[i])
      BY <2>1, ContinuedCounts
    <3>2. Continued = Promised - 1
      BY <2>1 DEF Complete
    <3> QED
      BY ONLY <2>2, <3>1, <3>2
  <2>4. CallOf(rest, Promised, Promised + 1)
    <3>1. PICK p \in 1..4 : p = Promised
      BY <2>2
    <3> HIDE DEF Promised
    <3>2. /\ p \in 1..Len(rest) /\ p + 1 \in 1..(p + 1)
          /\ (p + 1) - 1 = p /\ ~(p + 1 <= p)
      BY ONLY <1>0, <2>2, <3>1
    <3> QED
      BY <2>3, <3>1, <3>2 DEF CallOf
  <2> QED
    BY <2>1, <2>4
<1>2. CASE IncompleteSequence
  <2> DEFINE l == Len(rest)
  <2>1. /\ rest # <<>> /\ Promised > 0 /\ Continued + 1 = l
        /\ rest' = SubSeq(rest, l + 1, l)
    BY <1>2 DEF IncompleteSequence, Report
  <2>2. \A i \in 2..l : Continuation(rest[i])
    <3>1. \A i \in 2..(Continued + 1) : Continuation(rest[i])
      BY <2>1, ContinuedCounts
    <3> QED
      BY <2>1, <3>1
  <2>3. CallOf(rest, l, l + 1)
    <3>1. l \in 1..l /\ l + 1 \in 1..(l + 1) /\ (l + 1) - 1 = l /\ ~(l + 1 <= l)
      <4>1. l \in Nat /\ l # 0
        BY <2>1
      <4> QED
        BY ONLY <4>1
    <3> QED
      BY <2>2, <3>1 DEF CallOf
  <2> QED
    BY <2>1, <2>3
<1>3. ASSUME NEW at \in 1..Len(rest), \A i \in 2..(at - 1) : Continuation(rest[i])
      PROVE  CallOf(rest, Recovered(at), at)
  <2>1. /\ Recovered(at) \in at..Len(rest)
        /\ \A i \in (at + 1)..(Recovered(at) - 1) : ~Continuation(rest[i])
        /\ Recovered(at) = Len(rest) \/ Continuation(rest[Recovered(at)])
    BY RecoveredStops
  <2>2. PICK n : n = Recovered(at)
    OBVIOUS
  <2>3. n \in 1..Len(rest) /\ at \in 1..(n + 1)
    <3>1. n \in at..Len(rest)
      BY <2>1, <2>2
    <3> QED
      BY ONLY <1>0, <1>3, <3>1
  <2> QED
    BY <1>3, <2>1, <2>2, <2>3 DEF CallOf
<1>4. CASE InvalidContinuationByte
  <2>1. /\ rest # <<>> /\ Promised > 0 /\ Continued + 1 < Len(rest)
        /\ rest' = SubSeq(rest, Recovered(Continued + 2) + 1, Len(rest))
    BY <1>4 DEF InvalidContinuationByte, Report
  <2>2. Continued \in 0..(Promised - 1) /\ Promised \in 0..4
    BY <2>1, ContinuedCounts, PromisedType
  <2>3. \A i \in 2..(Continued + 1) : Continuation(rest[i])
    BY <2>1, ContinuedCounts
  <2>4. PICK c \in 0..3 : c = Continued
    BY ONLY <2>2
  <2>5. c + 2 \in 1..Len(rest) /\ (c + 2) - 1 = c + 1
    BY ONLY <1>0, <2>1, <2>4
  <2>6. CallOf(rest, Recovered(c + 2), c + 2)
    <3>1. \A i \in 2..((c + 2) - 1) : Continuation(rest[i])
      BY <2>3, <2>4, <2>5
    <3> QED
      BY <1>3, <2>5, <3>1
  <2> QED
    BY <2>1, <2>4, <2>6
<1>5. CASE InvalidFirstByte
  <2>1. /\ rest # <<>>
        /\ rest' = SubSeq(rest, Recovered(1) + 1, Len(rest))
    BY <1>5 DEF InvalidFirstByte, Report
  <2>2. 1 \in 1..Len(rest) /\ \A i \in 2..(1 - 1) : Continuation(rest[i])
    BY <2>1
  <2> QED
    BY <1>3, <2>1, <2>2
<1> QED
  BY <1>1, <1>2, <1>4, <1>5 DEF NextCodepoint

\* Of L characters of one byte or (wide) two, the j-th ends at ends[j + 1] and
\* the last at N; d bytes stand before them, C are the continuation bytes.
Laid(L, N, d, ends, wide, C) ==
    /\ L \in Nat /\ N \in Nat /\ d \in Nat
    /\ ends \in [1..(L + 1) -> Nat] /\ ends[1] = d /\ ends[L + 1] = N
    /\ \A j \in 1..L : /\ ends[j + 1] = ends[j] + (IF j \in wide THEN 2 ELSE 1)
                       /\ ends[j] + 1 \notin C
                       /\ j \in wide => ends[j] + 2 \in C
    /\ \A i, j \in 1..(L + 1) : i <= j => ends[i] <= ends[j]

\* A call that takes n of N bytes, more than d, by the continuation bytes C.
Crosses(n, at, N, d, C) ==
    /\ n \in (d + 1)..N /\ at \in 1..(n + 1)
    /\ \A i \in 2..(at - 1) : i \in C
    /\ at <= n => /\ \A i \in (at + 1)..(n - 1) : i \notin C
                  /\ n = N \/ n \in C

\* A call that takes more than the damage ends where a character ends, and no
\* wide one ends before it.
LEMMA CrossingEnds ==
    ASSUME NEW L, NEW N, NEW d, NEW ends, NEW wide, NEW C,
           Laid(L, N, d, ends, wide, C), d # 0,
           NEW n, NEW at, Crosses(n, at, N, d, C)
    PROVE  \E k \in 1..L : /\ ends[k + 1] = n
                           /\ \A i \in 1..(k - 1) : i \notin wide
<1>a. /\ L \in Nat /\ N \in Nat /\ d \in Nat
      /\ ends \in [1..(L + 1) -> Nat] /\ ends[1] = d /\ ends[L + 1] = N
      /\ \A j \in 1..L : /\ ends[j + 1] = ends[j] + (IF j \in wide THEN 2 ELSE 1)
                         /\ ends[j] + 1 \notin C
                         /\ j \in wide => ends[j] + 2 \in C
      /\ \A i, j \in 1..(L + 1) : i <= j => ends[i] <= ends[j]
  BY DEF Laid
<1>b. /\ n \in (d + 1)..N /\ at \in 1..(n + 1)
      /\ \A i \in 2..(at - 1) : i \in C
      /\ at <= n => /\ \A i \in (at + 1)..(n - 1) : i \notin C
                    /\ n = N \/ n \in C
  BY DEF Crosses
<1> USE <1>a, <1>b
<1>0. n \in Nat /\ at \in Nat /\ d \in Nat /\ N \in Nat /\ d < n /\ n <= N
  BY ONLY n \in (d + 1)..N, at \in 1..(n + 1), d \in Nat, N \in Nat
<1>1. L # 0 /\ 1 \in 1..L /\ L \in 1..L
  BY ONLY ends[1] = d, ends[L + 1] = N, n \in (d + 1)..N, L \in Nat, N \in Nat,
          d \in Nat
<1>2. at <= d + 1
  <2> SUFFICES ASSUME ~(at <= d + 1) PROVE FALSE
    OBVIOUS
  <2>1. d + 1 \in 2..(at - 1)
    OBVIOUS
  <2>2. d + 1 \in C
    BY <2>1
  <2> QED
    BY <1>1, <2>2
<1>3. at <= n
  BY <1>2
<1> DEFINE S == {j \in 1..L : ends[j + 1] >= n}
<1>4. L \in S
  BY <1>1
<1>5. PICK k \in S : \A j \in S : k <= j
  <2>1. S \subseteq Nat
    OBVIOUS
  <2> HIDE DEF S
  <2> QED
    BY <1>4, <2>1, LeastMember
<1>6. k \in 1..L /\ ends[k + 1] >= n
  BY <1>5
<1>7. ends[k] < n
  <2>1. CASE k = 1
    BY <2>1
  <2>2. CASE k # 1
    <3>1. k - 1 \in 1..L /\ (k - 1) + 1 = k
      BY ONLY <1>6, <2>2, L \in Nat
    <3>2. k - 1 \notin S
      <4> HIDE DEF S
      <4> QED
        BY ONLY <1>5, <1>6
    <3>3. ~(ends[k] >= n)
      BY <3>1, <3>2
    <3>4. ends[k] \in Nat
      BY <1>6
    <3> QED
      BY <3>3, <3>4
  <2> QED
    BY <2>1, <2>2
<1> HIDE DEF S
<1>8. ends[k] \in Nat /\ ends[k + 1] \in Nat /\ ends[k] + 1 \notin C
      /\ ends[k + 1] = ends[k] + (IF k \in wide THEN 2 ELSE 1)
      /\ (k \in wide => ends[k] + 2 \in C)
      /\ d <= ends[k] /\ ends[k + 1] <= N
  <2>1. k + 1 \in 1..(L + 1) /\ k \in 1..(L + 1) /\ 1 <= k /\ k + 1 <= L + 1
        /\ 1 \in 1..(L + 1) /\ L + 1 \in 1..(L + 1)
    BY ONLY <1>6, L \in Nat
  <2>2. ends[1] <= ends[k] /\ ends[k + 1] <= ends[L + 1]
    BY <2>1
  <2> QED
    BY <1>6, <2>1, <2>2
<1>9. ends[k + 1] = n
  <2>0. SUFFICES ASSUME ends[k + 1] # n PROVE FALSE
    OBVIOUS
  <2>1. n = ends[k] + 1 /\ k \in wide /\ ends[k + 1] = n + 1
    <3>1. PICK a \in Nat, b \in Nat : a = ends[k] /\ b = ends[k + 1]
      BY <1>8
    <3>2. b = a + 1 \/ (k \in wide /\ b = a + 2)
      BY <1>8, <3>1
    <3>3. b >= n /\ a < n /\ b # n
      BY <1>6, <1>7, <2>0, <3>1
    <3>4. n = a + 1 /\ k \in wide /\ b = n + 1
      BY ONLY <1>0, <3>2, <3>3
    <3> QED
      BY <3>1, <3>4
  <2>2. n = N
    BY <1>3, <1>8, <2>1
  <2> QED
    BY <1>8, <2>1, <2>2
<1>10. ASSUME NEW i \in 1..(k - 1), i \in wide PROVE FALSE
  <2>1. /\ i \in 1..L /\ i + 1 \in 1..(L + 1) /\ i + 1 <= k /\ i \in 1..(L + 1)
        /\ k \in 1..(L + 1) /\ 1 \in 1..(L + 1) /\ 1 <= i
    BY ONLY <1>6, <1>10, L \in Nat, i \in 1..(k - 1), k \in 1..L
  <2>2. /\ ends[i] \in Nat /\ ends[i + 1] = ends[i] + 2 /\ ends[i] + 2 \in C
        /\ ends[i + 1] <= ends[k] /\ d <= ends[i]
    BY <1>10, <2>1
  <2>3. ends[i] + 2 \in (at + 1)..(n - 1)
    <3>1. PICK a \in Nat, b \in Nat, c \in Nat :
                a = ends[i] /\ b = ends[i + 1] /\ c = ends[k]
      BY ONLY <1>a, <2>1
    <3>2. b = a + 2 /\ b <= c /\ d <= a /\ c < n
      BY <1>7, <2>2, <3>1
    <3>3. a + 2 \in (at + 1)..(n - 1)
      BY ONLY <1>0, <1>2, <3>2
    <3> QED
      BY <3>1, <3>3
  <2> QED
    BY <1>3, <2>2, <2>3
<1> QED
  BY <1>6, <1>9, <1>10

\* The bytes of a character of one or two bytes.
LEMMA ShortBytes ==
    ASSUME NEW c \in Scalars, c <= 2047
    PROVE  /\ Len(AppendUtf8(c)) = IF c > 127 THEN 2 ELSE 1
           /\ ~Continuation(AppendUtf8(c)[1])
           /\ c > 127 => Continuation(AppendUtf8(c)[2])
<1>1. c \in Nat /\ Writes(c) = c
  BY DEF Scalars, Writes
<1>2. CASE c <= 127
  <2>1. AppendUtf8(c) = <<c>>
    BY <1>2, WrittenIsRead
  <2> QED
    BY <1>1, <1>2, <2>1 DEF Continuation
<1>3. CASE c > 127
  <2>1. AppendUtf8(c) = <<192 + c \div 64, Tail6(c)>>
    BY <1>1, <1>3 DEF AppendUtf8
  <2>2. 192 + c \div 64 \in 192..223 /\ Tail6(c) \in 128..191
    BY <1>1, <1>3 DEF Tail6
  <2>3. /\ Len(AppendUtf8(c)) = 2 /\ AppendUtf8(c)[2] \in 128..191
        /\ AppendUtf8(c)[1] \in 192..223
    BY ONLY <2>1, <2>2
  <2>4. \A x \in 192..223 : x \notin 128..191
    OBVIOUS
  <2> QED
    BY <1>3, <2>3, <2>4 DEF Continuation
<1> QED
  BY <1>1, <1>2, <1>3

\* What is left after n bytes and then m more.
LEMMA RestOfRest ==
    ASSUME NEW r \in Seq(Octets), NEW n \in 0..Len(r), NEW m \in 0..(Len(r) - n)
    PROVE  /\ SubSeq(r, n + 1, Len(r)) \in Seq(Octets)
           /\ Len(SubSeq(r, n + 1, Len(r))) = Len(r) - n
           /\ \A i \in 1..(Len(r) - n) : SubSeq(r, n + 1, Len(r))[i] = r[n + i]
           /\ SubSeq(SubSeq(r, n + 1, Len(r)), m + 1, Len(SubSeq(r, n + 1, Len(r))))
                = SubSeq(r, n + m + 1, Len(r))
<1> DEFINE q == SubSeq(r, n + 1, Len(r))
<1>1. /\ q \in Seq(Octets) /\ Len(q) = Len(r) - n
      /\ \A i \in 1..(Len(r) - n) : q[i] = r[n + i]
  OBVIOUS
<1> HIDE DEF q
<1>2. PICK l \in Nat : l = Len(r)
  OBVIOUS
<1> DEFINE a == SubSeq(q, m + 1, Len(q))
           b == SubSeq(r, n + m + 1, Len(r))
<1>3. /\ n \in 0..l /\ m \in 0..(l - n) /\ m \in 0..Len(q) /\ n + m \in 0..l
      /\ Len(q) = l - n /\ (l - n) - m = l - (n + m)
  BY <1>1, <1>2
<1>4. /\ a \in Seq(Octets) /\ Len(a) = (l - n) - m
      /\ \A i \in 1..((l - n) - m) : a[i] = q[m + i]
  BY <1>1, <1>3
<1>5. /\ b \in Seq(Octets) /\ Len(b) = l - (n + m)
      /\ \A i \in 1..(l - (n + m)) : b[i] = r[n + m + i]
  BY <1>2, <1>3
<1>6. ASSUME NEW i \in 1..(l - (n + m)) PROVE a[i] = b[i]
  <2>1. i \in 1..((l - n) - m) /\ m + i \in 1..(l - n) /\ n + (m + i) = n + m + i
    BY ONLY <1>3
  <2>2. a[i] = q[m + i] /\ b[i] = r[n + m + i]
    BY <1>4, <1>5, <2>1
  <2>3. q[m + i] = r[n + (m + i)]
    BY <1>1, <1>2, <2>1
  <2> QED
    BY <2>1, <2>2, <2>3
<1> HIDE DEF a, b
<1>7. a = b
  <2>1. PICK k \in Nat : k = l - (n + m)
    BY ONLY <1>3
  <2>2. /\ a \in Seq(Octets) /\ b \in Seq(Octets) /\ Len(a) = k /\ Len(b) = k
        /\ \A i \in 1..k : a[i] = b[i]
    BY <1>3, <1>4, <1>5, <1>6, <2>1
  <2> QED
    BY ONLY <2>2
<1> QED
  BY <1>1, <1>7 DEF a, b, q

\* The bytes of the text t lie behind d others.
Ahead(t, r, d, starts) ==
    d \in 0..Len(r) /\ Fits(t, SubSeq(r, d + 1, Len(r)), 0, starts)

LEMMA AheadMoves ==
    ASSUME NEW t, NEW r \in Seq(Octets), NEW d, NEW starts,
           Ahead(t, r, d, starts), NEW n \in 0..d
    PROVE  Ahead(t, SubSeq(r, n + 1, Len(r)), d - n, starts)
<1> DEFINE q == SubSeq(r, n + 1, Len(r))
<1>1. d \in 0..Len(r) /\ Len(r) \in Nat
  BY DEF Ahead
<1>2. n \in 0..Len(r) /\ d - n \in 0..(Len(r) - n) /\ n + (d - n) + 1 = d + 1
  BY ONLY <1>1
<1>3. /\ Len(q) = Len(r) - n
      /\ SubSeq(q, (d - n) + 1, Len(q)) = SubSeq(r, n + (d - n) + 1, Len(r))
  BY <1>2, RestOfRest
<1> HIDE DEF q
<1> QED
  BY <1>2, <1>3 DEF Ahead, q

LEMMA AheadLonger ==
    ASSUME NEW t \in Seq(Scalars), NEW r \in Seq(Octets), NEW d, NEW starts,
           Ahead(t, r, d, starts), NEW c \in Scalars
    PROVE  \E more : Ahead(t \o <<c>>, r \o AppendUtf8(c), d, more)
<1> DEFINE e == AppendUtf8(c)
           q == SubSeq(r, d + 1, Len(r))
           r2 == r \o e
           q2 == SubSeq(r2, d + 1, Len(r2))
<1>1. e \in Seq(Octets) /\ Len(e) \in 1..4
  BY WrittenType
<1> HIDE DEF e
<1>2. d \in 0..Len(r) /\ Fits(t, q, 0, starts)
  BY DEF Ahead
<1>3. q \in Seq(Octets) /\ Len(q) = Len(r) - d
      /\ \A i \in 1..(Len(r) - d) : q[i] = r[d + i]
  BY <1>2
<1> HIDE DEF q
<1>4. /\ r2 \in Seq(Octets) /\ Len(r2) = Len(r) + Len(e)
      /\ \A i \in 1..Len(r) : r2[i] = r[i]
      /\ \A i \in 1..Len(e) : r2[Len(r) + i] = e[i]
  BY <1>1
<1> HIDE DEF r2
<1>5. PICK l \in Nat, m \in Nat : l = Len(r) /\ m = Len(e)
  BY <1>1
<1>6. d \in 0..(l + m) /\ Len(r2) = l + m /\ d \in 0..l
  BY <1>2, <1>4, <1>5
<1>7. /\ q2 \in Seq(Octets) /\ Len(q2) = (l + m) - d
      /\ \A i \in 1..((l + m) - d) : q2[i] = r2[d + i]
  <2>1. d \in 0..Len(r2) /\ 0 \in 0..(Len(r2) - d)
    BY ONLY <1>6
  <2> QED
    BY <1>4, <1>6, <2>1, RestOfRest
<1> HIDE DEF q2
<1>8. /\ q \o e \in Seq(Octets) /\ Len(q \o e) = (l - d) + m
      /\ \A i \in 1..(l - d) : (q \o e)[i] = q[i]
      /\ \A i \in 1..m : (q \o e)[(l - d) + i] = e[i]
  <2>1. PICK k \in Nat : k = l - d
    BY ONLY <1>6
  <2>2. Len(q) = k /\ Len(e) = m
    BY <1>3, <1>5, <2>1
  <2>3. /\ q \o e \in Seq(Octets) /\ Len(q \o e) = k + m
        /\ \A i \in 1..k : (q \o e)[i] = q[i]
        /\ \A i \in 1..m : (q \o e)[k + i] = e[i]
    BY ONLY <1>1, <1>3, <2>2, l \in Nat, m \in Nat, k \in Nat
  <2> QED
    BY <2>1, <2>3
<1>9. ASSUME NEW i \in 1..((l + m) - d) PROVE q2[i] = (q \o e)[i]
  <2>1. CASE i \in 1..(l - d)
    <3>1. d + i \in 1..l
      BY ONLY <1>6, <2>1
    <3> QED
      BY <1>3, <1>4, <1>5, <1>7, <1>8, <2>1, <3>1
  <2>2. CASE i \notin 1..(l - d)
    <3>1. PICK j \in 1..m : j = i - (l - d)
      BY ONLY <1>6, <2>2
    <3>2. i = (l - d) + j /\ d + i = l + j
      BY ONLY <1>6, <3>1
    <3>3. q2[i] = r2[l + j] /\ r2[l + j] = e[j]
      BY <1>4, <1>5, <1>7, <3>1, <3>2
    <3> QED
      BY <1>8, <3>1, <3>2, <3>3
  <2> QED
    BY <2>1, <2>2
<1>10. q2 = q \o e
  <2>1. (l - d) + m = (l + m) - d
    BY ONLY <1>6
  <2> DEFINE s == q \o e
  <2>2. s \in Seq(Octets) /\ Len(s) = (l + m) - d
        /\ \A i \in 1..((l + m) - d) : q2[i] = s[i]
    BY <1>8, <1>9, <2>1
  <2> HIDE DEF s
  <2>3. q2 = s
    BY <1>7, <2>2
  <2> QED
    BY <2>3 DEF s
<1>11. \E more : Fits(t \o <<c>>, q \o e, 0, more)
  BY <1>2, <1>3, FitsLonger DEF e
<1> QED
  BY <1>5, <1>6, <1>10, <1>11 DEF Ahead, q2, r2, e

\* The bytes that are left when k code points have been skipped.
LEMMA FitsSkip ==
    ASSUME NEW t \in Seq(Scalars), NEW r \in Seq(Octets), NEW starts,
           Fits(t, r, 0, starts), NEW k \in 0..Len(t)
    PROVE  /\ starts[k + 1] - starts[1] \in 0..Len(r)
           /\ Fits(t, SubSeq(r, (starts[k + 1] - starts[1]) + 1, Len(r)), k, starts)
<1> DEFINE L == Len(t)
<1>1. /\ starts \in Seq(Nat) /\ Len(starts) = L + 1 /\ L \in Nat
      /\ \A i \in 1..L : starts[i + 1] = starts[i] + Len(AppendUtf8(t[i]))
      /\ \A i, j \in 1..(L + 1) : i <= j => starts[i] <= starts[j]
      /\ Len(r) = starts[L + 1] - starts[1]
      /\ \A j \in 1..L : \A i \in 1..Len(AppendUtf8(t[j])) :
            r[starts[j] - starts[1] + i] = AppendUtf8(t[j])[i]
  <2>1. 0 + 1 = 1 /\ Len(t) \in Nat /\ Fits(t, r, 0, starts)
    OBVIOUS
  <2> QED
    BY ONLY <2>1 DEF Fits
<1>2. \A i \in 1..(L + 1) : starts[i] \in Nat
  BY <1>1
<1>0. k \in 0..L /\ L \in Nat
  BY <1>1
<1>a. \A j \in 1..L : t[j] \in Scalars
  OBVIOUS
<1> HIDE DEF L
<1>3. 1 \in 1..(L + 1) /\ k + 1 \in 1..(L + 1) /\ L + 1 \in 1..(L + 1)
      /\ 1 <= k + 1 /\ k + 1 <= L + 1
  BY ONLY <1>0
<1>4. PICK p \in Nat, q \in Nat, v \in Nat :
            p = starts[1] /\ q = starts[k + 1] /\ v = starts[L + 1]
  BY <1>2, <1>3
<1>5. p <= q /\ q <= v /\ Len(r) = v - p
  BY <1>1, <1>3, <1>4
<1>6. PICK m \in Nat : m = q - p
  BY ONLY <1>5
<1> DEFINE s == SubSeq(r, m + 1, Len(r))
<1>7. m \in 0..Len(r) /\ 0 \in 0..(Len(r) - m)
  BY ONLY <1>5, <1>6
<1>8. /\ Len(s) = v - q /\ \A i \in 1..(v - q) : s[i] = r[m + i]
  <2>1. Len(s) = Len(r) - m /\ \A i \in 1..(Len(r) - m) : s[i] = r[m + i]
    BY <1>7, RestOfRest
  <2> HIDE DEF s
  <2>2. Len(r) - m = v - q
    BY ONLY <1>5, <1>6
  <2> QED
    BY <2>1, <2>2
<1> HIDE DEF s
<1>9. ASSUME NEW j \in (k + 1)..L, NEW i \in 1..Len(AppendUtf8(t[j]))
      PROVE  s[starts[j] - starts[k + 1] + i] = AppendUtf8(t[j])[i]
  <2>1. j \in 1..L /\ j \in 1..(L + 1) /\ j + 1 \in 1..(L + 1)
        /\ k + 1 <= j /\ j + 1 <= L + 1
    BY ONLY <1>0
  <2>2. PICK d \in 1..4 : d = Len(AppendUtf8(t[j]))
    BY <1>a, <2>1, WrittenType
  <2>3. PICK u \in Nat, w \in Nat : u = starts[j] /\ w = starts[j + 1]
    BY <1>2, <2>1
  <2>4. q <= u /\ w <= v /\ w = u + d /\ i \in 1..d
    BY <1>1, <1>3, <1>4, <2>1, <2>2, <2>3
  <2>5. u - q + i \in 1..(v - q) /\ m + (u - q + i) = u - p + i
    BY ONLY <1>6, <2>4
  <2>6. r[u - p + i] = AppendUtf8(t[j])[i]
    BY <1>1, <1>4, <2>1, <2>3
  <2> QED
    BY <1>4, <1>8, <2>3, <2>5, <2>6
<1>10. Fits(t, s, k, starts)
  BY <1>0, <1>1, <1>4, <1>8, <1>9 DEF Fits, L
<1> QED
  BY <1>4, <1>6, <1>7, <1>10 DEF s

\* Everything about a text of characters of one or two bytes behind d bytes
\* of damage, as CrossingEnds needs it.
LEMMA Crossing ==
    ASSUME NEW t \in Seq(Scalars), \A j \in 1..Len(t) : t[j] <= 2047,
           NEW r \in Seq(Octets), NEW d, NEW starts, Ahead(t, r, d, starts),
           NEW n, NEW at, CallOf(r, n, at), d # 0, n > d
    PROVE  \E k \in 1..Len(t) :
              /\ \A i \in 1..(k - 1) : t[i] <= 127
              /\ Fits(t, SubSeq(r, n + 1, Len(r)), k, starts)
<1> DEFINE L == Len(t)
           q == SubSeq(r, d + 1, Len(r))
           ends == [j \in 1..(L + 1) |-> d + (starts[j] - starts[1])]
           wide == {j \in 1..L : t[j] > 127}
           C == {i \in 1..Len(r) : Continuation(r[i])}
<1>1. PICK N \in Nat : N = Len(r)
  OBVIOUS
<1>2. d \in 0..N /\ Fits(t, q, 0, starts) /\ d \in Nat
  BY <1>1 DEF Ahead
<1>3. /\ q \in Seq(Octets) /\ Len(q) = N - d /\ \A i \in 1..(N - d) : q[i] = r[d + i]
  BY <1>1, <1>2
<1> HIDE DEF q
<1>4. /\ starts \in Seq(Nat) /\ Len(starts) = L + 1 /\ L \in Nat
      /\ \A i \in 1..L : starts[i + 1] = starts[i] + Len(AppendUtf8(t[i]))
      /\ \A i, j \in 1..(L + 1) : i <= j => starts[i] <= starts[j]
      /\ Len(q) = starts[L + 1] - starts[1]
      /\ \A j \in 1..L : \A i \in 1..Len(AppendUtf8(t[j])) :
            q[starts[j] - starts[1] + i] = AppendUtf8(t[j])[i]
  <2>1. 0 + 1 = 1 /\ Len(t) \in Nat
    OBVIOUS
  <2> QED
    BY ONLY <1>2, <2>1 DEF Fits
<1>5. \A i \in 1..(L + 1) : starts[i] \in Nat
  BY <1>4
<1>6. \A j \in 1..L : t[j] \in Scalars /\ t[j] \in Nat /\ t[j] <= 2047
  BY DEF Scalars
<1>7. L \in Nat
  BY ONLY <1>4
<1> HIDE DEF L
<1>8. 1 \in 1..(L + 1) /\ L + 1 \in 1..(L + 1)
  BY ONLY <1>7
<1>9. PICK p \in Nat : p = starts[1]
  BY <1>5, <1>8
<1>10. \A j \in 1..(L + 1) : p <= starts[j] /\ starts[j] \in Nat
  <2> SUFFICES ASSUME NEW j \in 1..(L + 1) PROVE p <= starts[j] /\ starts[j] \in Nat
    OBVIOUS
  <2>1. 1 <= j
    BY ONLY <1>7
  <2> QED
    BY <1>4, <1>5, <1>8, <1>9, <2>1
<1>11. /\ ends \in [1..(L + 1) -> Nat]
       /\ \A j \in 1..(L + 1) : ends[j] = d + (starts[j] - p)
  BY <1>2, <1>9, <1>10
<1> HIDE DEF ends
<1>12. ends[1] = d /\ ends[L + 1] = N
  <2>1. starts[L + 1] \in Nat /\ starts[1] \in Nat
    BY <1>5, <1>8
  <2>2. ends[1] = d + (starts[1] - p) /\ ends[L + 1] = d + (starts[L + 1] - p)
    BY <1>8, <1>11
  <2>3. N - d = starts[L + 1] - p
    BY <1>3, <1>4, <1>9
  <2> QED
    BY ONLY <1>2, <1>9, <2>1, <2>2, <2>3, N \in Nat, p \in Nat
<1>13. ASSUME NEW j \in 1..L
       PROVE  /\ ends[j + 1] = ends[j] + (IF j \in wide THEN 2 ELSE 1)
              /\ ends[j] + 1 \notin C
              /\ j \in wide => ends[j] + 2 \in C
  <2>1. j \in 1..(L + 1) /\ j + 1 \in 1..(L + 1) /\ j + 1 <= L + 1
    BY ONLY <1>7
  <2>2. PICK e \in 1..2 : /\ e = Len(AppendUtf8(t[j]))
                          /\ e = IF t[j] > 127 THEN 2 ELSE 1
    BY <1>6, ShortBytes
  <2>3. PICK u \in Nat, w \in Nat, v \in Nat :
              u = starts[j] /\ w = starts[j + 1] /\ v = starts[L + 1]
    BY <1>5, <1>8, <2>1
  <2>4. w = u + e /\ w <= v /\ p <= u /\ N - d = v - p
    <3>1. starts[j + 1] = starts[j] + Len(AppendUtf8(t[j]))
      BY <1>4
    <3>2. starts[j + 1] <= starts[L + 1]
      BY <1>4, <1>8, <2>1
    <3>3. p <= starts[j]
      BY <1>10, <2>1
    <3>4. N - d = starts[L + 1] - starts[1]
      BY <1>3, <1>4
    <3> QED
      BY ONLY <1>9, <2>2, <2>3, <3>1, <3>2, <3>3, <3>4
  <2>5. ends[j] = d + (u - p) /\ ends[j + 1] = d + (w - p)
    BY <1>11, <2>1, <2>3
  <2>6. j \in wide <=> t[j] > 127
    OBVIOUS
  <2>7. \A i \in 1..e : /\ r[ends[j] + i] = AppendUtf8(t[j])[i]
                        /\ ends[j] + i \in 1..N
    <3> SUFFICES ASSUME NEW i \in 1..e
                 PROVE  /\ r[ends[j] + i] = AppendUtf8(t[j])[i]
                        /\ ends[j] + i \in 1..N
      OBVIOUS
    <3>1. /\ u - p + i \in 1..(N - d) /\ d + (u - p + i) = ends[j] + i
          /\ ends[j] + i \in 1..N
      BY ONLY <1>2, <2>4, <2>5, N \in Nat, p \in Nat, u \in Nat, v \in Nat,
              w \in Nat, e \in 1..2, i \in 1..e
    <3>2. q[u - p + i] = AppendUtf8(t[j])[i]
      <4>1. i \in 1..Len(AppendUtf8(t[j]))
        BY <2>2
      <4>2. q[starts[j] - starts[1] + i] = AppendUtf8(t[j])[i]
        BY <1>4, <4>1
      <4> QED
        BY <1>9, <2>3, <4>2
    <3> QED
      BY <1>3, <3>1, <3>2
  <2>8. ends[j + 1] = ends[j] + (IF j \in wide THEN 2 ELSE 1)
    <3>1. ends[j + 1] = ends[j] + e
      BY ONLY <1>2, <2>4, <2>5, p \in Nat, u \in Nat, w \in Nat, e \in 1..2
    <3> QED
      BY <2>2, <2>6, <3>1
  <2>9. ends[j] + 1 \notin C
    <3>1. r[ends[j] + 1] = AppendUtf8(t[j])[1]
      BY <2>7
    <3> QED
      BY <1>6, <3>1, ShortBytes
  <2>10. j \in wide => ends[j] + 2 \in C
    <3> SUFFICES ASSUME j \in wide PROVE ends[j] + 2 \in C
      OBVIOUS
    <3>1. t[j] > 127 /\ 2 \in 1..e
      BY <2>2, <2>6
    <3>2. r[ends[j] + 2] = AppendUtf8(t[j])[2] /\ ends[j] + 2 \in 1..N
      BY <2>7, <3>1
    <3> QED
      BY <1>1, <1>6, <3>1, <3>2, ShortBytes
  <2> QED
    BY <2>8, <2>9, <2>10
<1>14. \A i, j \in 1..(L + 1) : i <= j => ends[i] <= ends[j]
  <2> SUFFICES ASSUME NEW i \in 1..(L + 1), NEW j \in 1..(L + 1), i <= j
               PROVE  ends[i] <= ends[j]
    OBVIOUS
  <2>1. PICK u \in Nat, w \in Nat : u = starts[i] /\ w = starts[j]
    BY <1>5
  <2>2. u <= w /\ ends[i] = d + (u - p) /\ ends[j] = d + (w - p)
    BY <1>4, <1>11, <2>1
  <2> QED
    BY ONLY <1>2, <2>2, p \in Nat, u \in Nat, w \in Nat
<1>15. /\ n \in (d + 1)..N /\ at \in 1..(n + 1)
       /\ \A i \in 2..(at - 1) : i \in C
       /\ at <= n => /\ \A i \in (at + 1)..(n - 1) : i \notin C
                     /\ n = N \/ n \in C
  <2>1. /\ n \in 1..N /\ at \in 1..(n + 1)
        /\ \A i \in 2..(at - 1) : Continuation(r[i])
        /\ at <= n => /\ \A i \in (at + 1)..(n - 1) : ~Continuation(r[i])
                      /\ n = N \/ Continuation(r[n])
    BY <1>1 DEF CallOf
  <2>2. n \in (d + 1)..N
    BY ONLY <1>2, <2>1, n > d, N \in Nat
  <2>3. \A i \in 2..(at - 1) : i \in 1..N
    BY ONLY <2>1, N \in Nat
  <2> QED
    BY <1>1, <2>1, <2>2, <2>3
<1> HIDE DEF wide, C
<1>16. PICK k \in 1..L : /\ ends[k + 1] = n
                         /\ \A i \in 1..(k - 1) : i \notin wide
  <2>1. Laid(L, N, d, ends, wide, C)
    BY ONLY <1>2, <1>7, <1>11, <1>12, <1>13, <1>14, N \in Nat DEF Laid
  <2>2. Crosses(n, at, N, d, C)
    BY ONLY <1>15 DEF Crosses
  <2> QED
    BY ONLY <2>1, <2>2, d # 0, CrossingEnds
<1>17. \A i \in 1..(k - 1) : t[i] <= 127
  <2> SUFFICES ASSUME NEW i \in 1..(k - 1) PROVE t[i] <= 127
    OBVIOUS
  <2>1. i \in 1..L
    BY ONLY <1>7
  <2>2. t[i] \in Nat /\ ~(t[i] > 127)
    BY <1>6, <1>16, <2>1 DEF wide
  <2> QED
    BY ONLY <2>2
<1>18. Fits(t, SubSeq(r, n + 1, Len(r)), k, starts)
  <2>1. k \in 0..Len(t) /\ k + 1 \in 1..(L + 1)
    BY <1>7 DEF L
  <2>2. PICK m : m = starts[k + 1] - p
    OBVIOUS
  <2>3. m \in 0..Len(q) /\ Fits(t, SubSeq(q, m + 1, Len(q)), k, starts)
    <3>1. /\ t \in Seq(Scalars) /\ q \in Seq(Octets)
          /\ Fits(t, q, 0, starts) /\ k \in 0..Len(t)
      BY <1>2, <1>3, <2>1
    <3>2. /\ starts[k + 1] - starts[1] \in 0..Len(q)
          /\ Fits(t, SubSeq(q, (starts[k + 1] - starts[1]) + 1, Len(q)), k, starts)
      BY ONLY <3>1, FitsSkip
    <3>3. m = starts[k + 1] - starts[1]
      BY ONLY <1>9, <2>2
    <3> QED
      BY ONLY <3>2, <3>3
  <2>4. n = d + m
    BY <1>11, <1>16, <2>1, <2>2
  <2>5. d \in 0..Len(r) /\ m \in 0..(Len(r) - d)
    BY <1>1, <1>2, <1>3, <2>3
  <2>6. SubSeq(q, m + 1, Len(q)) = SubSeq(r, d + m + 1, Len(r))
    BY <2>5, RestOfRest DEF q
  <2> QED
    BY ONLY <2>3, <2>4, <2>6
<1> QED
  BY <1>17, <1>18 DEF L


\* A reader that stands where a code point of the text begins reads it.
LEMMA TextIsRead ==
    ASSUME ResultsFine, NEW k, NEW starts, Fits(text, rest, k, starts),
           NextCodepoint
    PROVE  /\ k \in Nat /\ k + 1 \in 1..Len(text)
           /\ \E b : read' = Append(read, [code |-> "SUCCESS",
                                           codepoint |-> text[k + 1],
                                           bytes |-> b])
           /\ Fits(text, rest', k + 1, starts)
<1> DEFINE e == AppendUtf8(text[k + 1])
<1>1. rest # <<>> /\ rest \in Seq(Octets) /\ text \in Seq(Scalars)
  BY DEF NextCodepoint, Character, IncompleteSequence,
         InvalidContinuationByte, InvalidFirstByte, ResultsFine
<1>3. /\ k \in Nat /\ k + 1 \in 1..Len(text) /\ Len(e) \in 1..Len(rest)
      /\ \A i \in 1..Len(e) : rest[i] = e[i]
      /\ Fits(text, SubSeq(rest, Len(e) + 1, Len(rest)), k + 1, starts)
  BY <1>1, FitsFirst
<1>4. text[k + 1] \in Scalars
  BY <1>1, <1>3
<1>5. WellFormedBytes(e) /\ Joined(e) = text[k + 1]
  BY <1>4, WrittenIsRead
<1> HIDE DEF e
<1>6. /\ e \in Seq(Octets) /\ Len(e) \in 1..4
      /\ ExpectedByteCount(e[1]) = Len(e)
      /\ \A i \in 2..Len(e) : Continuation(e[i])
  BY <1>5 DEF WellFormedBytes
<1>7. Promised = Len(e)
  <2>1. Promised = ExpectedByteCount(rest[1])
    BY <1>1, PromisedType
  <2>2. rest[1] = e[1]
    BY <1>3, <1>6
  <2> QED
    BY <1>6, <2>1, <2>2
<1>8. Complete
  <2> SUFFICES ASSUME Continued # Promised - 1 PROVE FALSE
    BY DEF Complete
  <2>1. Promised > 0
    BY <1>6, <1>7
  <2>2. /\ Continued \in 0..(Promised - 1)
        /\ Continued < Promised - 1 /\ Continued + 1 < Len(rest)
              => ~Continuation(rest[Continued + 2])
    BY <1>1, <2>1, ContinuedCounts
  <2>3. PICK n \in 1..4, l \in Nat : n = Len(e) /\ l = Len(rest)
    BY <1>1, <1>6
  <2>4. /\ Continued < Promised - 1 /\ Continued + 1 < Len(rest)
        /\ Continued + 2 \in 2..Len(e) /\ Continued + 2 \in 1..Len(e)
    <3>1. n <= l /\ Promised = n
      BY <1>3, <1>7, <2>3
    <3> HIDE DEF Promised, Continued
    <3>2. Continued < n - 1 /\ Continued + 1 < l /\ Continued + 2 \in 2..n
          /\ Continued + 2 \in 1..n
      BY <2>2, <3>1
    <3> QED
      BY <2>3, <3>1, <3>2
  <2> QED
    BY <1>3, <1>6, <2>2, <2>4
<1>9. Report(Promised, Success(Promised))
  BY <1>6, <1>7, <1>8 DEF NextCodepoint, Character, IncompleteSequence,
                          InvalidContinuationByte, InvalidFirstByte
<1>10. SubSeq(rest, 1, Len(e)) = e
  <2>1. Len(e) \in 0..Len(rest)
    BY <1>3
  <2>2. /\ SubSeq(rest, 1, Len(e)) \in Seq(Octets)
        /\ Len(SubSeq(rest, 1, Len(e))) = Len(e)
        /\ \A i \in 1..Len(e) : SubSeq(rest, 1, Len(e))[i] = rest[i]
    BY <1>1, <2>1, TakenBytes
  <2> DEFINE s == SubSeq(rest, 1, Len(e))
  <2>3. s \in Seq(Octets) /\ Len(s) = Len(e) /\ \A i \in 1..Len(e) : s[i] = e[i]
    BY <1>3, <2>2
  <2> HIDE DEF s
  <2>4. s = e
    BY <1>6, <2>3
  <2> QED
    BY <2>4 DEF s
<1>11. /\ read' = Append(read, [code |-> "SUCCESS", codepoint |-> text[k + 1],
                                bytes |-> e])
       /\ rest' = SubSeq(rest, Len(e) + 1, Len(rest))
  BY <1>5, <1>7, <1>9, <1>10 DEF Report, Success
<1> QED
  BY <1>3, <1>11

\* The results behind the first m are the characters of the text behind the
\* first k, and what is left are the bytes of those that follow.
ReadsFrom(k, m) ==
    /\ m \in 0..Len(read)
    /\ \A i \in 1..(Len(read) - m) : /\ read[m + i].code = "SUCCESS"
                                     /\ read[m + i].codepoint = text[k + i]
    /\ k \in Nat /\ k + (Len(read) - m) <= Len(text)
    /\ \E starts : Fits(text, rest, k + (Len(read) - m), starts)

LEMMA ReadsOn ==
    ASSUME ResultsFine, NEW k, NEW m, ReadsFrom(k, m), NextCodepoint
    PROVE  ReadsFrom(k, m)'
<1>1. /\ text' = text /\ read \in Seq(Results)
  BY ResultOfCall DEF ResultsFine
<1>2. PICK l \in Nat, L \in Nat : l = Len(read) /\ L = Len(text)
  BY <1>1 DEF ResultsFine
<1>3. m \in 0..l /\ k \in Nat
  BY <1>2 DEF ReadsFrom
<1>4. PICK n \in Nat : n = k + (l - m)
  BY ONLY <1>2, <1>3
<1>5. PICK starts : Fits(text, rest, n, starts)
  BY <1>2, <1>4 DEF ReadsFrom
<1>6. /\ n + 1 \in 1..L
      /\ \E b : read' = Append(read, [code |-> "SUCCESS",
                                      codepoint |-> text[n + 1], bytes |-> b])
      /\ Fits(text, rest', n + 1, starts)
  BY <1>2, <1>5, TextIsRead
<1>7. PICK b : read' = Append(read, [code |-> "SUCCESS",
                                     codepoint |-> text[n + 1], bytes |-> b])
  BY <1>6
<1> DEFINE r == [code |-> "SUCCESS", codepoint |-> text[n + 1], bytes |-> b]
<1>8. r.code = "SUCCESS" /\ r.codepoint = text[n + 1] /\ read' = Append(read, r)
  BY <1>7
<1> HIDE DEF r
<1>9. /\ Len(read') = l + 1 /\ read'[l + 1] = r
      /\ \A i \in 1..l : read'[i] = read[i]
  BY <1>1, <1>2, <1>8
<1>10. /\ m \in 0..(l + 1) /\ k + ((l + 1) - m) = n + 1 /\ n + 1 <= L
       /\ m + ((l + 1) - m) = l + 1
  BY ONLY <1>2, <1>3, <1>4, <1>6
<1>11. ASSUME NEW i \in 1..((l + 1) - m)
       PROVE  read'[m + i].code = "SUCCESS" /\ read'[m + i].codepoint = text[k + i]
  <2>1. CASE i \in 1..(l - m)
    <3>1. m + i \in 1..l
      BY ONLY <1>2, <1>3, <2>1
    <3>2. read[m + i].code = "SUCCESS" /\ read[m + i].codepoint = text[k + i]
      BY <1>2, <2>1 DEF ReadsFrom
    <3> QED
      BY <1>9, <3>1, <3>2
  <2>2. CASE i \notin 1..(l - m)
    <3>1. m + i = l + 1 /\ k + i = n + 1
      BY ONLY <1>2, <1>3, <1>4, <1>11, <2>2
    <3> QED
      BY <1>8, <1>9, <3>1
  <2> QED
    BY <2>1, <2>2
<1> QED
  BY <1>1, <1>2, <1>3, <1>6, <1>9, <1>10, <1>11 DEF ReadsFrom

\* No character of the text takes more than two bytes.
ShortText == \A i \in 1..Len(text) : text[i] <= 2047

\* The reader is in step with the text behind k - 1 characters of one byte.
InStep == \E k, m : /\ \A i \in 1..(k - 1) : text[i] <= 127
                    /\ ReadsFrom(k, m)

\* Until it reads, the text lies behind the damage; if there is none it reads
\* the text, and otherwise it does so when it has left the damage.
FindsText ==
    /\ read = <<>> => \E starts : Ahead(text, rest, junk, starts)
    /\ junk = 0 => read = <<>> \/ ReadsFrom(0, 0)
    /\ ShortText => InStep \/ \E d, starts : Ahead(text, rest, d, starts)

\* A reader that has no damage before it is at the beginning of the text.
LEMMA NothingBefore ==
    ASSUME ResultsFine, NEW starts, Ahead(text, rest, 0, starts)
    PROVE  ReadsFrom(0, Len(read))
<1>1. rest \in Seq(Octets) /\ Len(read) \in Nat /\ Len(text) \in Nat
  BY DEF ResultsFine
<1>2. SubSeq(rest, 0 + 1, Len(rest)) = rest
  <2>1. 0 + 1 = 1 /\ SubSeq(rest, 1, Len(rest)) = rest
    BY <1>1
  <2> QED
    BY <2>1
<1>3. Fits(text, rest, 0, starts)
  BY <1>2 DEF Ahead
<1>4. /\ Len(read) \in 0..Len(read) /\ Len(read) - Len(read) = 0
      /\ 0 + (Len(read) - Len(read)) = 0
  BY ONLY <1>1
<1>5. \A i \in 1..(Len(read) - Len(read)) : FALSE
  BY ONLY <1>4
<1> QED
  BY <1>1, <1>3, <1>4, <1>5 DEF ReadsFrom

LEMMA FindsTextStep ==
    ASSUME ResultsFine, FindsText, [Utf8Next]_utf8Vars
    PROVE  FindsText'
<1>1. CASE UNCHANGED utf8Vars
  BY <1>1 DEF FindsText, InStep, ShortText, ReadsFrom, utf8Vars
<1>2. CASE NextCodepoint
  <2>0. /\ UNCHANGED <<junk, text>> /\ read' # <<>>
        /\ rest \in Seq(Octets) /\ text \in Seq(Scalars)
    <3>1. PICK r \in Results : read' = Append(read, r)
      BY <1>2, ResultOfCall DEF ResultsFine
    <3> QED
      BY <1>2, <3>1, ResultOfCall DEF ResultsFine
  <2>1. ASSUME junk' = 0 PROVE ReadsFrom(0, 0)'
    <3>1. CASE read = <<>>
      <4>1. \E starts : Ahead(text, rest, 0, starts)
        BY <2>0, <2>1, <3>1 DEF FindsText
      <4>2. Len(read) = 0
        BY <3>1
      <4> QED
        BY <1>2, <4>1, <4>2, NothingBefore, ReadsOn
    <3>2. CASE read # <<>>
      BY <1>2, <2>0, <2>1, <3>2, ReadsOn DEF FindsText
    <3> QED
      BY <3>1, <3>2
  <2>2. ASSUME ShortText'
        PROVE  InStep' \/ \E d, starts : Ahead(text', rest', d, starts)
    <3>1. ShortText
      BY <2>0, <2>2 DEF ShortText
    <3>2. CASE InStep
      BY <1>2, <2>0, <3>2, ReadsOn DEF InStep
    <3>3. ASSUME NEW d, NEW starts, Ahead(text, rest, d, starts)
          PROVE  InStep' \/ \E c, s : Ahead(text', rest', c, s)
      <4>0. d \in Nat
        BY <3>3 DEF Ahead
      <4>1. PICK n, at : /\ CallOf(rest, n, at)
                         /\ rest' = SubSeq(rest, n + 1, Len(rest))
        BY <1>2, <2>0, CallTakes
      <4>2. n \in Nat
        BY <4>1 DEF CallOf
      <4>3. CASE d = 0
        <5>1. PICK m : m = Len(read)
          OBVIOUS
        <5>3. ReadsFrom(0, m)'
          BY <1>2, <3>3, <4>3, <5>1, NothingBefore, ReadsOn
        <5>2. \A i \in 1..(0 - 1) : FALSE
          OBVIOUS
        <5> QED
          BY <5>2, <5>3 DEF InStep
      <4>4. CASE d # 0 /\ n > d
        <5>1. PICK k \in 1..Len(text) :
                 /\ \A i \in 1..(k - 1) : text[i] <= 127
                 /\ Fits(text, SubSeq(rest, n + 1, Len(rest)), k, starts)
          BY <2>0, <3>1, <3>3, <4>1, <4>4, Crossing DEF ShortText
        <5>2. ReadsFrom(k, Len(read))'
          <6>1. PICK l \in Nat, L \in Nat : l = Len(read') /\ L = Len(text)
            BY <1>2, <2>0, ResultsStep DEF ResultsFine, Utf8Next
          <6>2. /\ l \in 0..l /\ l - l = 0 /\ k + (l - l) = k /\ k \in Nat
                /\ k <= L
            BY ONLY <5>1, <6>1
          <6>3. \A i \in 1..(l - l) : FALSE
            BY ONLY <6>2
          <6> QED
            BY <2>0, <4>1, <5>1, <6>1, <6>2, <6>3 DEF ReadsFrom
        <5> QED
          BY <2>0, <5>1, <5>2 DEF InStep
      <4>5. CASE n <= d
        <5>1. n \in 0..d
          BY ONLY <4>0, <4>2, <4>5
        <5> QED
          BY <2>0, <3>3, <4>1, <5>1, AheadMoves
      <4> QED
        BY <4>0, <4>2, <4>3, <4>4, <4>5
    <3> QED
      BY <3>1, <3>2, <3>3 DEF FindsText
  <2> QED
    BY <2>0, <2>1, <2>2 DEF FindsText
<1>3. ASSUME NEW c \in Scalars, read = <<>>, read' = <<>>, junk' = junk,
             text' = text \o <<c>>, rest' = rest \o AppendUtf8(c)
      PROVE  FindsText'
  <2>1. PICK starts : Ahead(text, rest, junk, starts)
    BY <1>3 DEF FindsText
  <2>2. \E more : Ahead(text \o <<c>>, rest \o AppendUtf8(c), junk, more)
    BY <1>3, <2>1, AheadLonger DEF ResultsFine
  <2> QED
    BY <1>3, <2>2 DEF FindsText
<1>4. ASSUME NEW ch \in CodePoints, Write(ch)
      PROVE  FindsText'
  BY <1>1, <1>3, <1>4, WriteAdds
<1> QED
  BY <1>1, <1>2, <1>4 DEF Utf8Next, AtEnd

LEMMA Utf8InitOK == Utf8Init => ResultsFine /\ FindsText
<1> SUFFICES ASSUME Utf8Init PROVE ResultsFine /\ FindsText
  OBVIOUS
<1>1. /\ text = <<>> /\ read = <<>> /\ rest \in BoundedSeq(Bytes \ Space, MaxLen)
      /\ junk = Len(rest)
  BY DEF Utf8Init
<1>2. PICK n \in 0..MaxLen : rest \in [1..n -> Bytes \ Space]
  BY <1>1 DEF BoundedSeq, SeqOf
<1>3. rest \in Seq(Octets)
  <2>1. n \in Nat /\ Bytes \ Space \subseteq Octets
    BY Utf8Assumption
  <2>2. rest \in [1..n -> Octets]
    BY <1>2, <2>1
  <2> QED
    BY ONLY <2>1, <2>2
<1>4. Ahead(text, rest, junk, <<0>>)
  <2>1. Len(rest) \in 0..Len(rest) /\ SubSeq(rest, Len(rest) + 1, Len(rest)) = <<>>
    BY <1>3
  <2> QED
    BY <1>1, <2>1, NothingFits DEF Ahead
<1>5. FindsText
  BY <1>1, <1>4 DEF FindsText
<1> QED
  BY <1>1, <1>3, <1>5 DEF ResultsFine

LEMMA Utf8Inv == Utf8Spec => [](ResultsFine /\ FindsText)
<1>1. ResultsFine /\ FindsText /\ [Utf8Next]_utf8Vars
        => (ResultsFine /\ FindsText)'
  BY ResultsStep, FindsTextStep
<1> QED
  BY <1>1, Utf8InitOK, PTL DEF Utf8Spec

\* At the end of the data a reader in step has read the text to the end.
LEMMA ReadToTheEnd ==
    ASSUME ResultsFine, NEW k, NEW m, ReadsFrom(k, m), rest = <<>>
    PROVE  k + (Len(read) - m) = Len(text)
BY FitsEnd DEF ReadsFrom, ResultsFine

(* Every text that append_utf8() can write, of any length and of any       *)
(* numbers, is read back by nextCodepoint() as the code points it was      *)
(* written from, one by one, without an error and to the end.              *)
THEOREM TextReadBackHolds == Utf8Spec => []TextReadBack
<1>1. ResultsFine /\ FindsText => TextReadBack
  <2> SUFFICES ASSUME ResultsFine, FindsText, junk = 0
               PROVE  /\ \A i \in DOMAIN read : /\ read[i].code = "SUCCESS"
                                                /\ i <= Len(text)
                                                /\ read[i].codepoint = text[i]
                      /\ rest = <<>> => Len(read) = Len(text)
    BY DEF TextReadBack
  <2>1. ReadsFrom(0, 0)
    <3>1. CASE read = <<>>
      <4>1. \E starts : Ahead(text, rest, 0, starts)
        BY <3>1 DEF FindsText
      <4>2. Len(read) = 0
        BY <3>1
      <4> QED
        BY <4>1, <4>2, NothingBefore
    <3> QED
      BY <3>1 DEF FindsText
  <2>2. PICK l \in Nat, L \in Nat : l = Len(read) /\ L = Len(text)
    BY DEF ResultsFine
  <2>3. DOMAIN read = 1..l
    BY <2>2 DEF ResultsFine
  <2>4. l - 0 = l /\ 0 + (l - 0) = l /\ \A i \in 1..l : 0 + i = i
    BY ONLY <2>2
  <2>5. l <= L
    BY <2>1, <2>2, <2>4 DEF ReadsFrom
  <2>6. \A i \in 1..l : read[i].code = "SUCCESS" /\ read[i].codepoint = text[i]
    BY <2>1, <2>2, <2>4 DEF ReadsFrom
  <2>7. rest = <<>> => l = L
    BY <2>1, <2>2, <2>4, ReadToTheEnd
  <2>8. \A i \in 1..l : i <= L
    BY ONLY <2>2, <2>5
  <2> QED
    BY <2>2, <2>3, <2>6, <2>7, <2>8
<1> QED
  BY <1>1, Utf8Inv, PTL

(* A code point that nextCodepoint() reports of any data is the one whose  *)
(* bytes it took, but for longer forms and numbers that are no code point. *)
THEOREM SuccessIsHonestHolds == Utf8Spec => []SuccessIsHonest
<1>1. ResultsFine => SuccessIsHonest
  <2>1. ResultsFine => DOMAIN read = 1..Len(read)
    BY DEF ResultsFine
  <2> QED
    BY <2>1 DEF ResultsFine, HonestResult, SuccessIsHonest
<1> QED
  BY <1>1, Utf8Inv, PTL

(* Behind any damage, of any bytes and any length, a text of characters of *)
(* one and two bytes is read without an error from its first character of  *)
(* two bytes on at the latest: what recoverFromError() swallows of it ends *)
(* there, wherever in the damage the errors are.                           *)
THEOREM DamageIsLocalHolds == Utf8Spec => []DamageIsLocal
<1>1. ResultsFine /\ FindsText => DamageIsLocal
  <2> SUFFICES ASSUME ResultsFine, FindsText, rest = <<>>,
                      \A i \in DOMAIN text : text[i] <= 2047,
                      NEW c \in DOMAIN text, text[c] > 127
               PROVE  /\ Len(text) - c <= Len(read)
                      /\ \A i \in 1..(Len(text) - c) :
                            /\ read[Len(read) - (Len(text) - c) + i].code
                                 = "SUCCESS"
                            /\ read[Len(read) - (Len(text) - c) + i].codepoint
                                 = text[c + i]
    BY DEF DamageIsLocal
  <2>1. PICK l \in Nat, L \in Nat : l = Len(read) /\ L = Len(text)
    BY DEF ResultsFine
  <2>2. DOMAIN text = 1..L /\ ShortText /\ text[c] \in Nat
    BY <2>1 DEF ResultsFine, ShortText, Scalars
  <2>3. InStep
    <3>1. ASSUME NEW d, NEW starts, Ahead(text, rest, d, starts) PROVE FALSE
      <4>1. d = 0
        <5>1. d \in 0..Len(rest) /\ Len(rest) = 0
          BY <3>1 DEF Ahead
        <5> QED
          BY ONLY <5>1
      <4>2. ReadsFrom(0, l)
        BY <2>1, <3>1, <4>1, NothingBefore
      <4>3. 0 + (l - l) = L
        BY <2>1, <4>2, ReadToTheEnd
      <4>4. c \in 1..L
        BY <2>2
      <4> QED
        BY ONLY <2>1, <4>3, <4>4
    <3> QED
      BY <2>2, <3>1 DEF FindsText
  <2>4. PICK k, m : (\A i \in 1..(k - 1) : text[i] <= 127) /\ ReadsFrom(k, m)
    BY <2>3 DEF InStep
  <2>5. k \in Nat /\ m \in 0..l /\ k + (l - m) = L
    <3>1. k + (l - m) = L
      BY <2>1, <2>4, ReadToTheEnd
    <3> QED
      BY <2>1, <2>4, <3>1 DEF ReadsFrom
  <2>6. k <= c /\ c \in 1..L
    <3>1. c \notin 1..(k - 1)
      BY <2>2, <2>4
    <3> QED
      BY ONLY <2>2, <2>5, <3>1, c \in DOMAIN text
  <2>7. L - c <= l
    BY ONLY <2>1, <2>5, <2>6
  <2>8. ASSUME NEW i \in 1..(L - c)
        PROVE  /\ read[l - (L - c) + i].code = "SUCCESS"
               /\ read[l - (L - c) + i].codepoint = text[c + i]
    <3>1. PICK j \in Nat : j = (c - k) + i
      BY ONLY <2>1, <2>5, <2>6, i \in 1..(L - c)
    <3>2. j \in 1..(l - m) /\ m + j = l - (L - c) + i /\ k + j = c + i
      BY ONLY <2>5, <2>6, <3>1, i \in 1..(L - c), l \in Nat, L \in Nat,
              j \in Nat
    <3>3. read[m + j].code = "SUCCESS" /\ read[m + j].codepoint = text[k + j]
      BY <2>1, <2>4, <3>2 DEF ReadsFrom
    <3> QED
      BY <3>2, <3>3
  <2> QED
    BY <2>1, <2>7, <2>8
<1> QED
  BY <1>1, Utf8Inv, PTL

(* Every call of nextCodepoint() takes a byte at least, whatever the data  *)
(* are: a loop that calls it until the end of the data ends.               *)
THEOREM EveryCallTakesBytes ==
    Utf8Spec => [][NextCodepoint => Len(rest') < Len(rest)]_utf8Vars
<1>1. ResultsFine /\ [Utf8Next]_utf8Vars
        => [NextCodepoint => Len(rest') < Len(rest)]_utf8Vars
  BY ResultOfCall DEF ResultsFine
<1> QED
  BY <1>1, Utf8Inv, PTL DEF Utf8Spec

=============================================================================
