------------------------------- MODULE Screen -------------------------------
(***************************************************************************)
(* The console of the ansi_ui library, its shadow buffer, and viewports    *)
(* that are drawn over one another and put back what they covered.  A cell *)
(* is its character; colours, which capture() cannot read back from the    *)
(* console, are left out.  The console is the grid of cells of its window, *)
(* which present() and put_text() write by escape sequences; capture()     *)
(* reads the screen buffer, of which the window may show any part.  There  *)
(* is one thread, and each call of Console::present() is a step of its     *)
(* own.                                                                    *)
(***************************************************************************)
EXTENDS Integers, Sequences, SequencesExt

CONSTANTS
    Width, Height,  \* size of the window in characters
    Origins,        \* where in the screen buffer the window may be, in
                    \* columns and rows from its upper left corner
    Before,         \* what the window shows when the program starts
    Views,          \* the viewports
    Place,          \* Place[v]: what the viewport v is constructed with, x, y,
                    \* w, h, whether it has a border, and its insets
    Provided,       \* the viewports with a ConsoleReadbackBackgroundProvider
    Thicknesses,    \* values that set_insets() is called with
    Glyphs,         \* characters that the program draws
    TextAt,         \* points where the program calls put_text()
    BlitAt,         \* offsets of blit_from() and copy_to()
    MaxCalls,       \* bound on the calls of the program
    Nobody,         \* no parent
    Unknown         \* a character of which nothing is known

Points == (1..Width) \X (1..Height)

Area(x, y, w, h) == (x..(x + w - 1)) \X (y..(y + h - 1))

ASSUME SizeAssumption == Width \in Nat /\ Height \in Nat
ASSUME PlaceAssumption ==
    Place \in [Views -> [x : Nat, y : Nat, w : Nat \ {0}, h : Nat \ {0},
                         border : BOOLEAN, thickness : Nat]]
ASSUME ViewAssumption ==
    /\ Provided \subseteq Views
    /\ Nobody \notin Views
    /\ Thicknesses \subseteq Nat
    /\ TextAt \subseteq Points \ {<<Width, Height>>}
    /\ BlitAt \subseteq Int \X Int
    /\ Origins \subseteq Nat \X Nat
    /\ MaxCalls \in Nat

\* The cell of Buffer::resize(), which an empty console shows as well.
Default == " "
Cell == Glyphs \cup {Default, "+", Unknown}

\* A Buffer; its cells are counted from 0.
Filled(w, h, c) == [w |-> w, h |-> h, cell |-> [p \in Area(0, 0, w, h) |-> c]]

ASSUME BeforeAssumption == Before \in [Points -> Cell]

Nothing == Filled(0, 0, Default)

VARIABLES
    screen,   \* what the window of the console shows
    origin,   \* where the window is in the screen buffer
    shadow,   \* Console::shadow_, its cells counted from 1 like the points
    canvas,   \* ViewPort::canvas_
    insets,   \* ViewPort::insets_.thickness
    parent,   \* ViewPort::parent_
    children, \* ViewPort::children_
    calls,    \* number of calls of the program so far
    todo,     \* the calls of present() still to come, in order: of the
              \* console, or of a viewport's child
    open,     \* the viewports between snapshot() and restore(), the latest
              \* last, with snapshot_border_ and snapshot_client_
    \* History, read by the properties only:
    last,     \* the points of the latest present() since the last clear()
    typed,    \* the points of put_text() since then
    closed    \* the entry of open that the last call restored, if it did

consoleVars == <<screen, origin, shadow, last, typed>>
treeVars == <<canvas, insets, parent, children>>
vars == <<screen, origin, shadow, canvas, insets, parent, children, calls,
          todo, open, last, typed, closed>>

-----------------------------------------------------------------------------
(* Geometry.                                                               *)

Larger(a, b) == IF a < b THEN b ELSE a

\* abs_x() and abs_y()
Abs[v \in Views] ==
    LET base == IF parent[v] = Nobody
                THEN <<0, 0>>
                ELSE <<Abs[parent[v]][1] + insets[parent[v]],
                       Abs[parent[v]][2] + insets[parent[v]]>>
    IN  <<base[1] + Place[v].x, base[2] + Place[v].y>>

ClientAbs(v) == <<Abs[v][1] + insets[v], Abs[v][2] + insets[v]>>
ClientWidth(v) == Larger(0, Place[v].w - 2 * insets[v])
ClientHeight(v) == Larger(0, Place[v].h - 2 * insets[v])

\* The points of a viewport: what its snapshot covers.
Extent(v) == Area(Abs[v][1], Abs[v][2], Place[v].w, Place[v].h)
ClientExtent(v) ==
    Area(ClientAbs(v)[1], ClientAbs(v)[2], ClientWidth(v), ClientHeight(v))

Root[v \in Views] == IF parent[v] = Nobody THEN v ELSE Root[parent[v]]

-----------------------------------------------------------------------------
(* What is presented: by the console a buffer, with the point of its upper *)
(* left cell, and by a viewport what it consists of.                       *)

Placed(at, buf) == [of |-> "console", x |-> at[1], y |-> at[2], buf |-> buf]

Covered(d) == Area(d.x, d.y, d.buf.w, d.buf.h)

\* The grid over which d has been drawn.
Paint(grid, d) ==
    [p \in DOMAIN grid |->
        IF p \in Covered(d) THEN d.buf.cell[<<p[1] - d.x, p[2] - d.y>>]
                            ELSE grid[p]]

\* draw_border_and_background(): nothing without a border and insets.
Frame(v) ==
    LET w == Place[v].w  h == Place[v].h
        edge(p) == p[1] \in {0, w - 1} \/ p[2] \in {0, h - 1}
        lined == [p \in Area(0, 0, w, h) |->
                    IF Place[v].border /\ edge(p) THEN "+" ELSE Default]
    IN  IF ~Place[v].border /\ insets[v] = 0
        THEN <<>>
        ELSE <<Placed(Abs[v], [w |-> w, h |-> h, cell |-> lined])>>

\* ViewPort::present(): frame, canvas, then the children in their order.
Drawing(v) ==
    Frame(v) \o <<Placed(ClientAbs(v), canvas[v])>>
        \o [i \in DOMAIN children[v] |->
               [of |-> "viewport", view |-> children[v][i]]]

\* The character at a position of the screen buffer, which need not be one of
\* the window, and at one of the shadow buffer.
Buffered(q) ==
    LET p == <<q[1] - origin[1], q[2] - origin[2]>>
    IN  IF p \in Points THEN screen[p] ELSE Unknown
Shadowed(q) == IF q \in DOMAIN shadow.cell THEN shadow.cell[q] ELSE Default

\* Variant: the position is counted from 0.
CaptureFromZero(at, w, h, readable) ==
    LET read(q) == IF readable THEN Buffered(q) ELSE Shadowed(q)
    IN  [w |-> w, h |-> h,
         cell |-> [p \in Area(0, 0, w, h) |->
                      read(<<at[1] + p[1] + 1, at[2] + p[2] + 1>>)]]

(* Console::capture(): a region is read from the screen buffer or, when    *)
(* that fails, from the shadow buffer.                                     *)
Capture(at, w, h, readable) ==
    LET read(q) == IF readable THEN Buffered(q) ELSE Shadowed(q)
    IN  [w |-> w, h |-> h,
         cell |-> [p \in Area(0, 0, w, h) |->
                      read(<<at[1] + p[1], at[2] + p[2]>>)]]

\* The points at which the shadow buffer is right, and those at which a
\* capture is.
Known == last \ typed
Right(p, readable) == IF readable THEN origin = <<0, 0>> ELSE p \in Known

(* History: what each holder of a snapshot is owed.  The points of S have  *)
(* been written and no snapshot above brings them back: an entry keeps the *)
(* claim to those that its own snapshot covers.                            *)
Spoil(S) ==
    [i \in DOMAIN open |->
        [open[i] EXCEPT
            !.was = Restrict(@, DOMAIN @ \ (S \ Extent(open[i].view)))]]

\* History: nobody is owed anything any more.
Waived(entries) ==
    [i \in DOMAIN entries |-> [entries[i] EXCEPT !.was = <<>>]]

-----------------------------------------------------------------------------
Init ==
    /\ screen = Before
    /\ origin \in Origins
    /\ shadow = [w |-> 0, h |-> 0, cell |-> <<>>]
    /\ insets = [v \in Views |-> Place[v].thickness]
    /\ canvas = [v \in Views |->
                    Filled(ClientWidth(v), ClientHeight(v), Default)]
    /\ parent = [v \in Views |-> Nobody]
    /\ children = [v \in Views |-> <<>>]
    /\ calls = 0
    /\ todo = <<>>
    /\ open = <<>>
    /\ last = {} /\ typed = {}
    /\ closed = <<>>

\* The program calls the library again once its last call has returned.
Call == /\ todo = <<>>
        /\ calls < MaxCalls
        /\ calls' = calls + 1

(* The rules by which a program uses the library, none of which it checks: *)
(* these two, that nothing is moved while snapshots are held, and that no  *)
(* viewport becomes a child of itself or of one below it.                  *)

\* The viewport that is drawn: while snapshots are held, the latest.
InFront(v) == open # <<>> => Last(open).view = v

\* Absolute positions are counted from 1.
OneBased(v) == Abs[v][1] >= 1 /\ Abs[v][2] >= 1

(* canvas().fill(): the program draws into a viewport.                     *)
Fill(v, g) ==
    /\ Call
    /\ canvas' = [canvas EXCEPT ![v] = Filled(@.w, @.h, g)]
    /\ closed' = <<>>
    /\ UNCHANGED <<consoleVars, insets, parent, children, todo, open>>

(* blit_from() and copy_to(): a canvas is copied into another one, cut off  *)
(* at its edges.                                                           *)
Blit(v, from, at) ==
    /\ Call
    /\ v # from
    /\ canvas' = [canvas EXCEPT ![v].cell = Paint(@, Placed(at, canvas[from]))]
    /\ closed' = <<>>
    /\ UNCHANGED <<consoleVars, insets, parent, children, todo, open>>

(* add_child(): the program hands over a viewport that it owns, but not    *)
(* the root of v itself, although nothing would stop it.                   *)
AddChild(v, c) ==
    /\ Call /\ open = <<>>
    /\ parent[c] = Nobody /\ Root[v] # c
    /\ parent' = [parent EXCEPT ![c] = v]
    /\ children' = [children EXCEPT ![v] = Append(@, c)]
    /\ closed' = <<>>
    /\ UNCHANGED <<consoleVars, canvas, insets, todo, open>>

(* set_insets() leaves the canvas as large as it was.                      *)
SetInsets(v, t) ==
    /\ Call /\ open = <<>>
    /\ insets' = [insets EXCEPT ![v] = t]
    /\ closed' = <<>>
    /\ UNCHANGED <<consoleVars, canvas, parent, children, todo, open>>

Present(v) ==
    /\ Call /\ InFront(v) /\ OneBased(v)
    /\ todo' = Drawing(v)
    /\ closed' = <<>>
    /\ UNCHANGED <<consoleVars, treeVars, open>>

(* ViewPort::present() of a child.                                         *)
Descend ==
    /\ todo # <<>> /\ Head(todo).of = "viewport"
    /\ todo' = Drawing(Head(todo).view) \o Tail(todo)
    /\ UNCHANGED <<consoleVars, treeVars, calls, open, closed>>

\* History of Draw: the viewport in front may draw outside its own points.
DrawSpoils ==
    IF open = <<>> \/ closed # <<>>
    THEN open
    ELSE Spoil(Covered(Head(todo)) \ Extent(Last(open).view))

\* Variant: resizing keeps the cells.
StoredOver(d) ==
    [w |-> Larger(shadow.w, d.x - 1 + d.buf.w),
     h |-> Larger(shadow.h, d.y - 1 + d.buf.h),
     cell |-> Paint(shadow.cell, d)]

\* The shadow buffer is resized, which blanks it, and then holds these cells,
\* those beyond the window too; for a buffer that has any, ensure_shadow()
\* finds it as large as it has to be.
Stored(d) ==
    LET w == Larger(shadow.w, d.x - 1 + d.buf.w)
        h == Larger(shadow.h, d.y - 1 + d.buf.h)
    IN  [w |-> w, h |-> h,
         cell |-> Paint([p \in Area(1, 1, w, h) |-> Default], d)]

(* One Console::present() of cells within the window, which show there.    *)
Draw ==
    /\ todo # <<>> /\ Head(todo).of = "console"
    /\ Covered(Head(todo)) \subseteq Points
    /\ screen' = Paint(screen, Head(todo))
    /\ shadow' = Stored(Head(todo))
    /\ last' = Covered(Head(todo))
    /\ typed' = {}
    /\ open' = DrawSpoils
    /\ todo' = Tail(todo)
    /\ UNCHANGED <<origin, treeVars, calls, closed>>

(* One of cells that do not all lie within the window, which it does not   *)
(* look at: rows that are too long go on in the next one, those that are   *)
(* too low are written over the lowest, and after its last cell the window *)
(* may scroll.  Nothing is known then of what it shows.                    *)
DrawBeyond ==
    /\ todo # <<>> /\ Head(todo).of = "console"
    /\ ~(Covered(Head(todo)) \subseteq Points \ {<<Width, Height>>})
    /\ screen' = [p \in Points |-> Unknown]
    /\ origin' \in Origins
    /\ shadow' = Stored(Head(todo))
    /\ last' = Covered(Head(todo))
    /\ typed' = Points
    /\ open' = Waived(open) /\ closed' = Waived(closed)
    /\ todo' = Tail(todo)
    /\ UNCHANGED <<treeVars, calls>>

(* snapshot(): border and client area are captured one after the other,    *)
(* either from the console or from the shadow buffer; nothing is captured  *)
(* without a provider.                                                     *)
Snapshot(v) ==
    /\ Call /\ OneBased(v)
    /\ \A i \in DOMAIN open : open[i].view # v
    /\ \E wholeReadable, clientReadable \in BOOLEAN :
        LET whole == Capture(Abs[v], Place[v].w, Place[v].h, wholeReadable)
            inner == Capture(ClientAbs(v), ClientWidth(v), ClientHeight(v),
                             clientReadable)
            held(buf) == IF v \in Provided THEN buf ELSE Nothing
            lost == IF v \notin Provided THEN Extent(v)
                    ELSE {p \in Extent(v) :
                            ~Right(p, IF p \in ClientExtent(v)
                                      THEN clientReadable
                                      ELSE wholeReadable)}
        IN  open' = Append(Spoil(lost),
                           [view |-> v,
                            border |-> held(whole),
                            client |-> held(inner),
                            was |-> Restrict(screen, Points \ lost)])
    /\ closed' = <<>>
    /\ UNCHANGED <<consoleVars, treeVars, todo>>

Shown(at, buf) == IF buf.w = 0 \/ buf.h = 0 THEN <<>> ELSE <<Placed(at, buf)>>

(* restore(): both captured regions are presented where they are now; an   *)
(* empty one is not.                                                       *)
Restore(v) ==
    /\ Call /\ open # <<>> /\ Last(open).view = v
    /\ todo' = Shown(Abs[v], Last(open).border)
                   \o Shown(ClientAbs(v), Last(open).client)
    /\ closed' = <<Last(open)>>
    /\ open' = Front(open)
    /\ UNCHANGED <<consoleVars, treeVars>>

(* put_text() writes past the shadow buffer.                               *)
PutText(p, g) ==
    /\ Call
    /\ screen' = [screen EXCEPT ![p] = g]
    /\ typed' = typed \cup {p}
    /\ open' = Spoil({p})
    /\ closed' = <<>>
    /\ UNCHANGED <<origin, shadow, last, treeVars, todo>>

\* Variant: the shadow buffer is forgotten.
ClearKeepsShadow ==
    /\ Call
    /\ screen' = [p \in Points |-> Default]
    /\ origin' \in Origins
    /\ last' = {} /\ typed' = {}
    /\ open' = Spoil(Points)
    /\ closed' = <<>>
    /\ UNCHANGED <<shadow, treeVars, todo>>

(* Console::clear(); the window may move to rows that are empty.           *)
Clear ==
    /\ Call
    /\ screen' = [p \in Points |-> Default]
    /\ origin' \in Origins
    /\ shadow' = [w |-> 0, h |-> 0, cell |-> <<>>]
    /\ last' = {} /\ typed' = {}
    /\ open' = Spoil(Points)
    /\ closed' = <<>>
    /\ UNCHANGED <<treeVars, todo>>

Next ==
    \/ Draw \/ DrawBeyond \/ Descend
    \/ Clear
    \/ \E v \in Views :
        \/ Present(v) \/ Snapshot(v) \/ Restore(v)
        \/ \E g \in Glyphs : Fill(v, g)
        \/ \E c \in Views : AddChild(v, c) \/ \E at \in BlitAt : Blit(v, c, at)
        \/ \E t \in Thicknesses : SetInsets(v, t)
    \/ \E p \in TextAt, g \in Glyphs : PutText(p, g)

Spec == Init /\ [][Next]_vars

-----------------------------------------------------------------------------
(* Properties.                                                             *)

TypeOK ==
    /\ screen \in [Points -> Cell]
    /\ origin \in Origins
    /\ shadow.w \in Nat /\ shadow.h \in Nat
    /\ shadow.cell \in [Area(1, 1, shadow.w, shadow.h) -> Cell]
    /\ insets \in [Views -> Nat]
    /\ parent \in [Views -> Views \cup {Nobody}]
    /\ children \in [Views -> Seq(Views)]

(* The shadow buffer, on which capture() falls back, is never stale: where *)
(* the program has not written past it, by put_text() or beyond the        *)
(* window, each cell of it is the one on the console or blank, and those   *)
(* of the last present() are not blanked.                                  *)
ShadowHoldsLastDraw ==
    \A p \in (DOMAIN shadow.cell \cap Points) \ typed :
        /\ shadow.cell[p] \in {screen[p], Default}
        /\ p \in last => shadow.cell[p] = screen[p]

(* Snapshots that are restored in the opposite order bring the characters  *)
(* back everywhere in the window, whatever was drawn in between by the     *)
(* viewport in front, and whichever captures had to rely on the shadow     *)
(* buffer: as long as nothing is moved while snapshots are held and        *)
(* nothing is drawn beyond the window, except where a capture did not see  *)
(* the cell (the shadow buffer did not hold it, or the window was not at   *)
(* the upper left corner of the screen buffer), and outside the viewport,  *)
(* where a canvas larger than its client area, a child that sticks out or  *)
(* put_text() wrote.                                                       *)
RestoreUncovers ==
    todo = <<>> =>
        \A i \in DOMAIN closed :
            \A p \in DOMAIN closed[i].was : screen[p] = closed[i].was[p]

=============================================================================
