---------------------------- MODULE DialogsProofs ----------------------------
(***************************************************************************)
(* Proofs about Dialogs, for every set of variables, every query, all axes *)
(* and every number of levels.                                             *)
(*                                                                         *)
(* Sound is the invariant of the state: an overlay has its draft and the   *)
(* level is in range.  Every reducer preserves it, whatever state it is    *)
(* applied to, and every action applies reducers (lemmas ...Sound).  The   *)
(* entry an index or an arrow resolves to exists because ranks fill an     *)
(* interval (NthIsThere), and the marked name is in the window because the *)
(* lines from a name to a later one are no fewer than the latter takes     *)
(* (LinesOfNames).                                                         *)
(*                                                                         *)
(* Of Screen, for every size of terminal from seven columns on: what may   *)
(* be drawn (Screens) is kept by every reducer, and what leaves the layer  *)
(* on top by the handler's measure does so by what is drawn.  A click      *)
(* sends what the control under it says (Meant), layer by layer.           *)
(***************************************************************************)
EXTENDS Dialogs, Screen, Extrema, FiniteSetTheorems, TLAPS

Sound(v) == v \in Views /\ HasDraft(v) /\ OnLevel(v)

\* w, which a reducer makes of v, is sound, has the levels last read and the same
\* formulas, and selects what v did or an entry of its list.
Keeps(v, w) ==
    /\ Sound(w)
    /\ w.levels = v.levels
    /\ w.formulas = v.formulas
    /\ w.variable \in {v.variable} \cup Listed(v)

(* ------------------------- names by their place ------------------------ *)

\* What comes before n in S.
Before(S, n) == {m \in S : m < n}

LEMMA RankBounds ==
    ASSUME NEW S \in SUBSET Nat, IsFiniteSet(S), NEW n \in S
    PROVE  /\ IsFiniteSet(Before(S, n))
           /\ Rank(S, n) \in 0..(Cardinality(S) - 1)
           /\ \A m \in S : m < n => Rank(S, m) < Rank(S, n)
<1>0. \A m \in S : m \in Nat
  OBVIOUS
<1>1. Before(S, n) \subseteq S \ {n}
  BY <1>0 DEF Before
<1>2. IsFiniteSet(S \ {n}) /\ Cardinality(S \ {n}) = Cardinality(S) - 1
  BY FS_RemoveElement
<1>3. /\ IsFiniteSet(Before(S, n))
      /\ Cardinality(Before(S, n)) <= Cardinality(S) - 1
  BY <1>1, <1>2, FS_Subset
<1>4. Cardinality(S) \in Nat /\ Cardinality(Before(S, n)) \in Nat
  BY <1>3, FS_CardinalityType
<1>5. ASSUME NEW m \in S, m < n PROVE Rank(S, m) < Rank(S, n)
  <2>1. Before(S, m) \subseteq Before(S, n) \ {m}
    <3>1. \A k \in S : k < m => k < n /\ k # m
      BY <1>0, <1>5
    <3> QED
      BY <3>1 DEF Before
  <2>2. m \in Before(S, n)
    BY <1>5 DEF Before
  <2>3. /\ IsFiniteSet(Before(S, n) \ {m})
        /\ Cardinality(Before(S, n) \ {m}) = Cardinality(Before(S, n)) - 1
    BY <1>3, <2>2, FS_RemoveElement
  <2>4. /\ IsFiniteSet(Before(S, m))
        /\ Cardinality(Before(S, m)) <= Cardinality(Before(S, n)) - 1
    BY <2>1, <2>3, FS_Subset
  <2>5. Cardinality(Before(S, m)) \in Nat
    BY <2>4, FS_CardinalityType
  <2> QED
    BY <1>4, <2>4, <2>5 DEF Rank, Before
<1> QED
  BY <1>3, <1>4, <1>5 DEF Rank, Before

\* Every place in a list of names is taken: if place i were not, there would be
\* more names than places.
LEMMA NthIsThere ==
    ASSUME NEW S \in SUBSET Nat, IsFiniteSet(S), NEW i \in Nat, i < Cardinality(S)
    PROVE  Nth(S, i) \in S /\ Rank(S, Nth(S, i)) = i
<1>1. SUFFICES ASSUME \A n \in S : Rank(S, n) # i PROVE FALSE
  BY DEF Nth
<1> DEFINE T == 0..(Cardinality(S) - 1)
           f == [n \in S |-> Rank(S, n)]
<1>2. Cardinality(S) \in Nat
  BY FS_CardinalityType
<1>3. IsFiniteSet(T) /\ Cardinality(T) = Cardinality(S)
  <2>1. Cardinality(S) - 1 \in Int /\ Cardinality(S) = (Cardinality(S) - 1) - 0 + 1
    BY <1>2
  <2>2. IsFiniteSet(T) /\ Cardinality(T) = IF 0 > Cardinality(S) - 1 THEN 0
                                            ELSE (Cardinality(S) - 1) - 0 + 1
    BY <2>1, FS_Interval
  <2> QED
    BY <1>2, <2>2
<1>4. IsFiniteSet(T \ {i}) /\ Cardinality(T \ {i}) = Cardinality(S) - 1
  <2>1. i \in T
    BY <1>2
  <2> HIDE DEF T
  <2> QED
    BY <1>3, <2>1, FS_RemoveElement
<1>5. f \in [S -> T \ {i}]
  BY <1>1, RankBounds
<1>6. PICK x, y \in S : x # y /\ f[x] = f[y]
  <2> HIDE DEF T, f
  <2> QED
    <3>1. Cardinality(T \ {i}) < Cardinality(S)
      BY <1>2, <1>4
    <3> QED
      BY <1>4, <1>5, <3>1, FS_PigeonHole
<1>7. x < y \/ y < x
  BY <1>6
<1>8. Rank(S, x) = Rank(S, y) /\ Rank(S, x) \in Nat
  BY <1>2, <1>6, RankBounds
<1> QED
  BY <1>7, <1>8, RankBounds

LEMMA WithinIsInRange ==
    ASSUME NEW i \in Int, NEW n \in Nat \ {0}
    PROVE  Within(i, n) \in 0..(n - 1)
  BY DEF Within

LEMMA AtMostIsInRange ==
    ASSUME NEW S, IsFiniteSet(S), S # {}, NEW i \in Nat
    PROVE  Cardinality(S) \in Nat \ {0} /\ AtMost(i, S) \in 0..(Cardinality(S) - 1)
<1>1. Cardinality(S) \in Nat \ {0}
  BY FS_EmptySet, FS_CardinalityType
<1> QED
  BY <1>1 DEF AtMost

\* The filtered list is a part of the list, and an index cut to its length names
\* one of its entries.
LEMMA ListsAreFinite ==
    ASSUME NEW v \in Views
    PROVE  /\ Listed(v) \in SUBSET Nat /\ IsFiniteSet(Listed(v))
           /\ Listed(v) \subseteq Variables
           /\ Visible(v) \in SUBSET Nat /\ IsFiniteSet(Visible(v))
           /\ Visible(v) \subseteq Listed(v)
<1>1. Listed(v) \subseteq Variables /\ Visible(v) \subseteq Listed(v)
  BY DEF Listed, Visible, Variables
<1> QED
  BY <1>1, DialogsAssumption, FS_Subset

LEMMA EntryAt ==
    ASSUME NEW v \in Views, Visible(v) # {}, NEW i \in Nat
    PROVE  Nth(Visible(v), AtMost(i, Visible(v))) \in Visible(v)
<1>1. AtMost(i, Visible(v)) \in Nat /\ AtMost(i, Visible(v)) < Cardinality(Visible(v))
  BY ListsAreFinite, AtMostIsInRange
<1> QED
  BY <1>1, ListsAreFinite, NthIsThere

\* The neighbour exists: if there is a name beyond the selected one, then its
\* place plus or minus one is a place of the list.
LEMMA NeighbourIsVisible ==
    ASSUME NEW v \in Views, Visible(v) # {}, NEW dir \in {-1, 1}
    PROVE  Neighbour(v, dir) \in Visible(v)
<1> DEFINE S == Visible(v)
           n == v.variable
           beyond == {m \in S : IF dir < 0 THEN m < n ELSE m > n}
<1>1. S \in SUBSET Nat /\ IsFiniteSet(S) /\ Cardinality(S) \in Nat \ {0}
  BY ListsAreFinite, AtMostIsInRange
<1>2. CASE n \notin S
  <2>1. \A i \in Nat : Nth(S, AtMost(i, S)) \in S
    BY EntryAt
  <2> QED
    BY <1>2, <2>1 DEF Neighbour
<1>3. CASE n \in S /\ beyond = {}
  BY <1>3 DEF Neighbour
<1>4. CASE n \in S /\ beyond # {}
  <2>1. PICK m \in S : IF dir < 0 THEN m < n ELSE m > n
    BY <1>4
  <2>2. /\ Rank(S, m) \in 0..(Cardinality(S) - 1) /\ Rank(S, n) \in 0..(Cardinality(S) - 1)
        /\ m < n => Rank(S, m) < Rank(S, n)
        /\ n < m => Rank(S, n) < Rank(S, m)
    BY <1>1, <1>4, <2>1, RankBounds
  <2>3. Rank(S, n) + dir \in Nat /\ Rank(S, n) + dir < Cardinality(S)
    <3>1. CASE dir = -1
      BY <1>1, <2>1, <2>2, <3>1
    <3>2. CASE dir = 1
      BY <1>1, <2>1, <2>2, <3>2
    <3> QED
      BY <3>1, <3>2
  <2>4. Nth(S, Rank(S, n) + dir) \in S
    BY <1>1, <2>3, NthIsThere
  <2>5. Neighbour(v, dir) = Nth(S, Rank(S, n) + dir)
    BY <1>4 DEF Neighbour
  <2> QED
    BY <2>4, <2>5
<1> QED
  BY <1>2, <1>3, <1>4

(* ------------------- the reducers preserve the invariant --------------- *)

LEMMA SelectedSound ==
    ASSUME NEW v, Sound(v), NEW n \in Listed(v)
    PROVE  /\ \A p \in Pairs : Keeps(v, SelectedWith(v, n, p))
           /\ Keeps(v, Selected(v, n))
<1>1. ASSUME NEW p \in Pairs PROVE Keeps(v, SelectedWith(v, n, p))
  <2>0. 0 \in 0..MaxQuery /\ n \in Variables
    BY DialogsAssumption, ListsAreFinite DEF Sound
  <2>1. SelectedWith(v, n, p) \in Views
    BY <2>0 DEF Sound, SelectedWith, Views
  <2>2. HasDraft(SelectedWith(v, n, p))
    BY DEF Sound, SelectedWith, Views, HasDraft
  <2>3. /\ OnLevel(SelectedWith(v, n, p)) /\ SelectedWith(v, n, p).levels = v.levels
        /\ SelectedWith(v, n, p).formulas = v.formulas
        /\ SelectedWith(v, n, p).variable = n
    BY DEF Sound, SelectedWith, Views, OnLevel
  <2> QED
    BY <2>1, <2>2, <2>3 DEF Keeps, Sound
<1>2. n \in Variables
  BY ListsAreFinite DEF Sound
<1>3. Named[n] \in Pairs /\ Displayed[n] \in Pairs
  BY <1>2, DialogsAssumption
<1> QED
  BY <1>1, <1>3 DEF Selected

LEMMA SteppedSound ==
    ASSUME NEW v, Sound(v), NEW dir \in {-1, 1}
    PROVE  Keeps(v, Stepped(v, dir))
<1>1. CASE v.search /\ Visible(v) # {}
  <2> DEFINE c == Cardinality(Visible(v))
             i == Within(AtMost(v.row, Visible(v)) + dir, c)
  <2>1. v.row \in Nat
    BY DEF Sound, Views
  <2>2. c \in Nat \ {0} /\ AtMost(v.row, Visible(v)) \in Int
    BY <1>1, <2>1, ListsAreFinite, AtMostIsInRange DEF Sound
  <2>3. i \in Nat
    BY <2>2, WithinIsInRange
  <2>4. Stepped(v, dir) = [v EXCEPT !.row = i]
    BY <1>1 DEF Stepped, Sound, Views
  <2> HIDE DEF i
  <2> QED
    BY <2>3, <2>4 DEF Keeps, Sound, Views, HasDraft, OnLevel
<1>2. CASE ~v.search /\ Visible(v) # {}
  <2>1. Neighbour(v, dir) \in Listed(v)
    BY <1>2, ListsAreFinite, NeighbourIsVisible DEF Sound
  <2> QED
    BY <1>2, <2>1, SelectedSound DEF Keeps, Stepped
<1>3. CASE Visible(v) = {}
  BY <1>3 DEF Keeps, Stepped, Sound, Views
<1> QED
  BY <1>1, <1>2, <1>3 DEF Keeps, Sound, Views

LEMMA DepthSound ==
    ASSUME NEW v, Sound(v), NEW i \in Int
    PROVE  Keeps(v, DepthSet(v, i)) /\ Keeps(v, CursorMoved(v, i))
<1>1. v.levels \in Nat \ {0} /\ v.cursor + i \in Int
  BY DEF Sound, Views
<1>2. Within(i, v.levels) \in 0..(v.levels - 1)
      /\ Within(v.cursor + i, v.levels) \in 0..(v.levels - 1)
  BY <1>1, WithinIsInRange
<1> DEFINE d == Within(i, v.levels)
           c == Within(v.cursor + i, v.levels)
<1>5. d \in Nat /\ d < v.levels /\ c \in Nat /\ c < v.levels
  BY <1>1, <1>2
<1>3. DepthSet(v, i) = [v EXCEPT !.depth = d, !.cursor = d]
  BY DEF DepthSet
<1>4. CursorMoved(v, i) = [v EXCEPT !.cursor = c]
  BY DEF CursorMoved, Sound, Views
<1> HIDE DEF d, c
<1> QED
  BY <1>3, <1>4, <1>5, ZenonT(30) DEF Keeps, Sound, Views, HasDraft, OnLevel

\* What closes a layer takes the draft of the overlay only with the overlay.
LEMMA ClosedSound ==
    ASSUME NEW v, Sound(v)
    PROVE  /\ Keeps(v, Closed(v)) /\ Keeps(v, BoundsCancelled(v))
           /\ Keeps(v, HelpToggled(v)) /\ Keeps(v, SidebarToggled(v))
           /\ Keeps(v, [v EXCEPT !.overlay = None])
<1>1. Keeps(v, Closed(v))
  <2>0. 0 \in 0..MaxQuery
    BY DialogsAssumption
  <2>1. Closed(v) \in Views
    BY <2>0 DEF Sound, Closed, Views
  <2>2. HasDraft(Closed(v))
    BY DEF Sound, Closed, Views, HasDraft
  <2>3. /\ OnLevel(Closed(v)) /\ Closed(v).levels = v.levels
        /\ Closed(v).formulas = v.formulas
        /\ Closed(v).variable = v.variable
    BY DEF Sound, Closed, Views, OnLevel
  <2> QED
    BY <2>1, <2>2, <2>3 DEF Keeps, Sound
<1>2. Keeps(v, BoundsCancelled(v))
  BY DEF Keeps, Sound, BoundsCancelled, Views, HasDraft, OnLevel
<1>3. Keeps(v, HelpToggled(v)) /\ Keeps(v, SidebarToggled(v))
  BY DEF Keeps, Sound, HelpToggled, SidebarToggled, Views, HasDraft, OnLevel
<1>4. Keeps(v, [v EXCEPT !.overlay = None])
  BY DEF Keeps, Sound, Views, HasDraft, OnLevel
<1> QED
  BY <1>1, <1>2, <1>3, <1>4

\* What opens an overlay leaves its draft behind it.
LEMMA OpenedSound ==
    ASSUME NEW v, Sound(v), NEW o \in Overlays
    PROVE  Keeps(v, Opened(v, o))
<1>1. DraftOf(o) \subseteq Drafts
  BY DEF DraftOf, Drafts, Overlays, TextOverlays
<1> QED
  BY <1>1 DEF Keeps, Sound, Opened, Views, HasDraft, OnLevel

LEMMA SearchOpenedSound ==
    ASSUME NEW v, Sound(v)
    PROVE  Keeps(v, SearchOpened(v))
<1> DEFINE S == Listed(v) \cap Matches[0]
           i == IF v.variable \in Listed(v) /\ v.variable \in Matches[0]
                THEN Rank(S, v.variable) ELSE 0
<1>1. S \in SUBSET Nat /\ IsFiniteSet(S)
  <2>1. S \subseteq Listed(v)
    OBVIOUS
  <2> QED
    BY <2>1, ListsAreFinite, FS_Subset DEF Sound
<1>2. Cardinality(S) \in Nat
  BY <1>1, FS_CardinalityType
<1>3. i \in Nat
  <2>1. ASSUME v.variable \in S PROVE Rank(S, v.variable) \in 0..(Cardinality(S) - 1)
    BY <1>1, <2>1, RankBounds
  <2> QED
    BY <1>2, <2>1
<1>4. SearchOpened(v) = [v EXCEPT !.help = FALSE, !.search = TRUE, !.row = i]
  BY DEF SearchOpened
<1> HIDE DEF i
<1> QED
  BY <1>3, <1>4 DEF Keeps, Sound, Views, HasDraft, OnLevel

\* load_selected puts the level into the range of the plane it read.
LEMMA LoadedSound ==
    ASSUME NEW v, Sound(v)
    PROVE  Sound(Loaded(v))
<1> DEFINE n == Levels[v.variable][v.pair]
           d == Within(v.depth, n)
<1>1. n \in Nat \ {0} /\ v.depth \in Int
  <2>1. v.variable \in Variables /\ v.pair \in Pairs /\ v.depth \in Int
    BY DEF Sound, Views
  <2>2. Levels[v.variable] \in [Pairs -> Nat \ {0}]
    BY <2>1, DialogsAssumption
  <2> QED
    BY <2>1, <2>2
<1>2. d \in 0..(n - 1)
  BY <1>1, WithinIsInRange
<1>3. Loaded(v) = IF v.variable \notin Listed(v) THEN v
                  ELSE [v EXCEPT !.levels = n, !.depth = d, !.cursor = d]
  BY DEF Loaded
<1>4. d \in Nat /\ d < n
  BY <1>1, <1>2
<1> HIDE DEF n, d
<1>5. CASE v.variable \in Listed(v)
  <2>1. Loaded(v) = [v EXCEPT !.levels = n, !.depth = d, !.cursor = d]
    BY <1>3, <1>5
  <2> QED
    BY <1>1, <1>4, <2>1 DEF Sound, Views, HasDraft, OnLevel
<1> QED
  BY <1>3, <1>5

\* So does whatever an entry of the command palette runs.
LEMMA PaletteSound ==
    ASSUME NEW v, Sound(v), NEW w \in PaletteRuns(v)
    PROVE  Keeps(v, w)
<1> DEFINE c == [v EXCEPT !.overlay = None]
<1>1. Keeps(v, c)
  BY ClosedSound
<1>2. Sound(c) /\ c.overlay = None /\ c.depth - 1 \in Int /\ c.depth + 1 \in Int
      /\ c.depth + (-1) \in Int
  BY <1>1 DEF Keeps, Sound, Views
<1> HIDE DEF c
<1>3. Keeps(c, [c EXCEPT !.drafts = @ \ {"limits"}])
  BY <1>2 DEF Keeps, Sound, Views, HasDraft, OnLevel
<1>4. \A o \in TextOverlays \ {"CommandPalette"} : Keeps(c, Opened(c, o))
  BY <1>2, OpenedSound DEF Overlays
<1>5. \A dir \in {-1, 1} : Keeps(c, Stepped(c, dir))
  BY <1>2, SteppedSound
<1>6. \A dir \in {-1, 1} : Keeps(c, DepthSet(c, c.depth + dir))
  BY <1>2, DepthSound
<1>7. Keeps(c, HelpToggled(c)) /\ Keeps(c, SidebarToggled(c)) /\ Keeps(c, SearchOpened(c))
  BY <1>2, ClosedSound, SearchOpenedSound
<1>8. Keeps(c, w) \/ w = c
  BY <1>3, <1>4, <1>5, <1>6, <1>7 DEF PaletteRuns, c
<1>9. Listed(c) = Listed(v) /\ c.variable = v.variable
  BY DEF c, Listed, Sound, Views
<1> QED
  BY <1>1, <1>8, <1>9 DEF Keeps

\* Opening and closing selects nothing.
LEMMA SelectionStays ==
    ASSUME NEW v, Sound(v)
    PROVE  /\ Selection(Closed(v)) = Selection(v)
           /\ Selection(BoundsCancelled(v)) = Selection(v)
           /\ Selection(HelpToggled(v)) = Selection(v)
           /\ Selection(SidebarToggled(v)) = Selection(v)
           /\ Selection(SearchOpened(v)) = Selection(v)
           /\ \A o \in Overlays : Selection(Opened(v, o)) = Selection(v)
           /\ \A i \in Int : Selection(CursorMoved(v, i)) = Selection(v)
<1>1. Selection(Closed(v)) = Selection(v) /\ Selection(BoundsCancelled(v)) = Selection(v)
  BY DEF Selection, Closed, BoundsCancelled, Sound, Views
<1>2. /\ Selection(HelpToggled(v)) = Selection(v)
      /\ Selection(SidebarToggled(v)) = Selection(v)
      /\ Selection(SearchOpened(v)) = Selection(v)
  BY DEF Selection, HelpToggled, SidebarToggled, SearchOpened, Sound, Views
<1>3. ASSUME NEW o \in Overlays PROVE Selection(Opened(v, o)) = Selection(v)
  BY DEF Selection, Opened, Sound, Views
<1>4. ASSUME NEW i \in Int PROVE Selection(CursorMoved(v, i)) = Selection(v)
  BY DEF Selection, CursorMoved, Sound, Views
<1> QED
  BY <1>1, <1>2, <1>3, <1>4

(* ------------------------------- the actions --------------------------- *)

\* The state a command leaves before the plane is read, if it is.
Reaches(after) ==
    /\ Sound(after)
    /\ after.levels = view.levels
    /\ Keeps(view, after) \/ SubmitFormula \/ RemoveFormula
    /\ \/ Reads(after)
       \/ Only(after) /\ (Selection(after) = Selection(view) \/ ClickPaletteEntry)

LEMMA KeysReach ==
    ASSUME Sound(view), Esc \/ CtrlP \/ Type \/ Erase \/ Arrow \/ TabKey \/ Shortcut
    PROVE  UNCHANGED <<view, fresh>> \/ \E after : Reaches(after)
<1> USE DEF Reaches
<1>0. \A o \in Overlays : Keeps(view, Opened(view, o))
  BY OpenedSound
<1>1. ASSUME NEW after, Keeps(view, after), Only(after), Selection(after) = Selection(view)
      PROVE  \E a : Reaches(a)
  BY <1>1 DEF Keeps
<1>2. CASE Esc
  BY <1>1, <1>2, ClosedSound, SelectionStays DEF Esc, QuitKey
<1>3. CASE CtrlP
  BY <1>0, <1>1, <1>3, SelectionStays DEF CtrlP, Overlays, TextOverlays
<1>4. CASE Type \/ Erase
  <2>1. view.query + 1 \in Int /\ view.query - 1 \in Int /\ MaxQuery \in Nat
        /\ MaxQuery + 1 \in Nat \ {0}
    BY DialogsAssumption DEF Sound, Views
  <2>2. Within(view.query - 1, MaxQuery + 1) \in 0..MaxQuery
    BY <2>1, WithinIsInRange
  <2>3. view.query < MaxQuery => view.query + 1 \in 0..MaxQuery
    BY <2>1 DEF Sound, Views
  <2> DEFINE erased == Within(view.query - 1, MaxQuery + 1)
             a == [view EXCEPT !.recalled = None]
             b == [view EXCEPT !.query = @ + 1, !.row = 0]
             c == [view EXCEPT !.query = erased, !.row = 0]
  <2>4. Keeps(view, a) /\ Selection(a) = Selection(view)
    BY DEF Keeps, Sound, Views, HasDraft, OnLevel, Selection
  <2>5. view.query < MaxQuery => Keeps(view, b) /\ Selection(b) = Selection(view)
    BY <2>3 DEF Keeps, Sound, Views, HasDraft, OnLevel, Selection
  <2>6. Keeps(view, c) /\ Selection(c) = Selection(view)
    <3>1. erased \in 0..MaxQuery
      BY <2>2
    <3> HIDE DEF erased
    <3> QED
      BY <3>1 DEF Keeps, Sound, Views, HasDraft, OnLevel, Selection
  <2>7. Only(a) \/ (view.query < MaxQuery /\ Only(b)) \/ Only(c)
    <3>1. c = [view EXCEPT !.query = Within(@ - 1, MaxQuery + 1), !.row = 0]
      BY DEF Sound, Views
    <3> QED
      BY <1>4, <3>1 DEF Type, Erase
  <2> HIDE DEF a, b, c
  <2> QED
    BY <1>1, <2>4, <2>5, <2>6, <2>7
<1>5. CASE Arrow
  <2>1. PICK dir \in {-1, 1} :
           \/ Reads(Stepped(view, dir))
           \/ \E f \in Formulas : Only([view EXCEPT !.recalled = f])
           \/ \E step \in {1, 7} : Only(CursorMoved(view, dir * step))
    BY <1>5 DEF Arrow
  <2>2. CASE Reads(Stepped(view, dir))
    BY <2>2, SteppedSound DEF Keeps
  <2>3. ASSUME NEW f \in Formulas, Only([view EXCEPT !.recalled = f])
        PROVE  \E a : Reaches(a)
    <3> DEFINE a == [view EXCEPT !.recalled = f]
    <3>1. Keeps(view, a) /\ Selection(a) = Selection(view)
      BY DEF Keeps, Sound, Views, HasDraft, OnLevel, Selection
    <3> QED
      BY <1>1, <2>3, <3>1
  <2>4. ASSUME NEW step \in {1, 7}, Only(CursorMoved(view, dir * step))
        PROVE  \E a : Reaches(a)
    BY <1>1, <2>4, DepthSound, SelectionStays
  <2> QED
    BY <2>1, <2>2, <2>3, <2>4
<1>6. CASE TabKey
  BY <1>1, <1>6, ClosedSound, SelectionStays DEF TabKey
<1>7. CASE Shortcut
  BY <1>0, <1>1, <1>7, ClosedSound, SearchOpenedSound, SelectionStays DEF Shortcut
<1> QED
  BY <1>2, <1>3, <1>4, <1>5, <1>6, <1>7

LEMMA InitiallySound ==
    ASSUME NEW v, Sound(v), NEW w \in Initially(v)
    PROVE  Keeps(v, w)
<1>1. PICK n \in Listed(v) : w = [v EXCEPT !.variable = n, !.pair = Displayed[n]]
  BY DEF Initially
<1>2. n \in Variables /\ Displayed[n] \in Pairs
  BY DialogsAssumption, ListsAreFinite DEF Sound
<1> QED
  BY <1>1, <1>2 DEF Keeps, Sound, Views, HasDraft, OnLevel

LEMMA SubmitFormulaReaches ==
    ASSUME Sound(view), SubmitFormula
    PROVE  \E after : Reaches(after)
<1>1. PICK f \in Formulas, result \in {"good", "bad"} :
         LET stored == [view EXCEPT !.formulas[f] = result, !.recalled = None, !.overlay = None]
         IN  IF result = "good" THEN Reads(SelectedWith(stored, f, Named[f])) ELSE Only(stored)
  BY DEF SubmitFormula
<1> DEFINE stored == [view EXCEPT !.formulas[f] = result, !.recalled = None, !.overlay = None]
<1>2. Sound(stored) /\ stored.levels = view.levels /\ Selection(stored) = Selection(view)
  BY DEF Sound, Views, HasDraft, OnLevel, Selection
<1>3. CASE result = "good"
  <2>1. f \in Listed(stored) /\ Named[f] \in Pairs
    BY <1>3, DialogsAssumption DEF Listed, Sound, Views, Variables
  <2>2. Keeps(stored, SelectedWith(stored, f, Named[f]))
    <3> HIDE DEF stored
    <3> QED
      BY <1>2, <2>1, SelectedSound
  <2> QED
    BY <1>1, <1>2, <1>3, <2>2 DEF Reaches, Keeps
<1>4. CASE result = "bad"
  BY <1>1, <1>2, <1>4 DEF Reaches
<1> QED
  BY <1>3, <1>4

LEMMA RemoveFormulaReaches ==
    ASSUME Sound(view), RemoveFormula
    PROVE  \E after : Reaches(after)
<1> DEFINE left == [view EXCEPT !.formulas[view.recalled] = "absent", !.recalled = None]
<1>1. Sound(left) /\ left.levels = view.levels /\ Selection(left) = Selection(view)
  BY DEF Sound, Views, HasDraft, OnLevel, Selection
<1>2. Only(left) \/ \E after \in Initially(left) : Reads(after)
  BY DEF RemoveFormula
<1> HIDE DEF left
<1>3. \A after \in Initially(left) : Sound(after) /\ after.levels = view.levels
  BY <1>1, InitiallySound DEF Keeps
<1> QED
  BY <1>1, <1>2, <1>3 DEF Reaches

\* The keys that act on the map.
LEMMA MapKeysReach ==
    ASSUME Sound(view),
           DepthKey \/ ResetVariableView \/ Redraw \/ SwitchFile \/ ApplyDepthCursor
              \/ ActivatePoint
    PROVE  \E after : Reaches(after)
<1> USE DEF Reaches
<1>0. /\ view.depth + 1 \in Int /\ view.depth + (-1) \in Int /\ view.cursor \in Int
      /\ 0 \in 0..MaxQuery /\ 0 < view.levels
  BY DialogsAssumption DEF Sound, Views
<1>b. Mode(view) = "Normal" => view.overlay = None
  BY DEF Mode, Sound, Views, Overlays
<1>1. CASE DepthKey
  BY <1>0, <1>1, DepthSound DEF DepthKey, Keeps
<1>2. CASE ResetVariableView
  <2> DEFINE a == [view EXCEPT !.depth = 0, !.cursor = 0, !.pair = Named[view.variable],
                               !.drafts = @ \ {"limits", "axis", "picker"}]
  <2>1. view.overlay = None /\ Named[view.variable] \in Pairs
    BY <1>2, <1>b, DialogsAssumption DEF ResetVariableView, Sound, Views
  <2>2. Keeps(view, a)
    BY <1>0, <2>1 DEF Keeps, Sound, Views, HasDraft, OnLevel
  <2> QED
    BY <1>2, <2>2 DEF ResetVariableView, Keeps
<1>3. CASE Redraw
  BY <1>3 DEF Redraw, Keeps
<1>4. CASE SwitchFile
  <2> DEFINE a == [view EXCEPT !.depth = 0, !.cursor = 0, !.query = 0, !.row = 0,
                               !.drafts = {}, !.recalled = None, !.resolving = FALSE]
  <2>1. view.overlay = None
    BY <1>4, <1>b DEF SwitchFile
  <2>2. Keeps(view, a)
    BY <1>0, <2>1 DEF Keeps, Sound, Views, HasDraft, OnLevel
  <2>3. PICK after \in Initially(a) : Reads(after)
    BY <1>4 DEF SwitchFile
  <2>4. Listed(a) = Listed(view) /\ a.variable = view.variable
    BY DEF Listed, Sound, Views
  <2> HIDE DEF a
  <2>5. Keeps(a, after)
    BY <2>2, <2>3, InitiallySound DEF Keeps
  <2>6. Keeps(view, after)
    BY <2>2, <2>4, <2>5 DEF Keeps
  <2> QED
    BY <2>3, <2>6 DEF Keeps
<1>5. CASE ApplyDepthCursor
  BY <1>0, <1>5, DepthSound DEF ApplyDepthCursor, Keeps
<1>6. CASE ActivatePoint
  BY <1>6, OpenedSound, SelectionStays DEF ActivatePoint, Keeps, Overlays
<1> QED
  BY <1>1, <1>2, <1>3, <1>4, <1>5, <1>6

\* Enter in a dialog.
LEMMA EnterReaches ==
    ASSUME Sound(view),
           SubmitVariableSearch \/ ExecuteCommandPalette \/ CommitPalettePicker
              \/ ApplyLimitDraft \/ ApplyViewBounds \/ SetAxes
    PROVE  \E after : Reaches(after)
<1> USE DEF Reaches
<1>1. CASE SubmitVariableSearch
  <2> DEFINE a == [view EXCEPT !.search = FALSE]
  <2>1. Keeps(view, a)
    BY DEF Keeps, Sound, Views, HasDraft, OnLevel
  <2>2. Visible(view) # {} => Keeps(view, Selected(view, Highlighted(view)))
    <3>1. view \in Views /\ view.row \in Nat
      BY DEF Sound, Views
    <3>2. Visible(view) # {} => Highlighted(view) \in Listed(view)
      BY <3>1, EntryAt, ListsAreFinite DEF Highlighted
    <3> QED
      BY <3>2, SelectedSound
  <2>3. Reads(IF Visible(view) = {} THEN a ELSE Selected(view, Highlighted(view)))
    BY <1>1 DEF SubmitVariableSearch
  <2> HIDE DEF a
  <2>4. CASE Visible(view) = {}
    BY <2>1, <2>3, <2>4 DEF Keeps
  <2>5. CASE Visible(view) # {}
    BY <2>2, <2>3, <2>5 DEF Keeps
  <2> QED
    BY <2>4, <2>5
<1>2. CASE ExecuteCommandPalette
  <2>1. PICK after \in PaletteRuns(view) \cup {view} : Reads(after)
    BY <1>2 DEF ExecuteCommandPalette
  <2>2. Keeps(view, after)
    BY <2>1, PaletteSound DEF Keeps
  <2> QED
    BY <2>1, <2>2 DEF Keeps
<1>3. CASE CommitPalettePicker
  <2>1. Keeps(view, Closed(view)) /\ Selection(Closed(view)) = Selection(view)
    BY ClosedSound, SelectionStays
  <2>2. Only(Closed(view))
    BY <1>3 DEF CommitPalettePicker
  <2> QED
    BY <2>1, <2>2 DEF Keeps
<1>4. CASE ApplyLimitDraft
  <2> DEFINE a == [view EXCEPT !.overlay = None, !.drafts = @ \ {"limits"}]
  <2>1. Keeps(view, a) /\ Selection(a) = Selection(view)
    BY DEF Keeps, Sound, Views, HasDraft, OnLevel, Selection
  <2> QED
    BY <1>4, <2>1 DEF ApplyLimitDraft, Keeps
<1>5. CASE ApplyViewBounds
  <2> DEFINE a == [view EXCEPT !.resolving = TRUE]
  <2>1. Keeps(view, a) /\ Selection(a) = Selection(view)
    BY DEF Keeps, Sound, Views, HasDraft, OnLevel, Selection
  <2> QED
    BY <1>5, <2>1 DEF ApplyViewBounds, Keeps
<1>6. CASE SetAxes
  <2> DEFINE a(p) == [view EXCEPT !.pair = p, !.overlay = None, !.drafts = @ \ {"axis"}]
  <2>1. ASSUME NEW p \in Pairs PROVE Keeps(view, a(p))
    BY DEF Keeps, Sound, Views, HasDraft, OnLevel
  <2>2. Reads(view) \/ \E p \in Pairs : Reads(a(p))
    BY <1>6 DEF SetAxes
  <2>3. Keeps(view, view)
    BY DEF Keeps
  <2> HIDE DEF a
  <2> QED
    BY <2>1, <2>2, <2>3 DEF Keeps
<1> QED
  BY <1>1, <1>2, <1>3, <1>4, <1>5, <1>6

LEMMA MouseReaches ==
    ASSUME Sound(view), Mouse
    PROVE  \E after : Reaches(after)
<1> USE DEF Reaches
<1>0. view.depth \in Int /\ view.depth + 1 \in Int /\ view.depth + (-1) \in Int
  BY DEF Sound, Views
<1>1. CASE RightClick \/ ClickOutside
  <2>1. \A a \in {Closed(view), HelpToggled(view)} :
           Keeps(view, a) /\ Selection(a) = Selection(view)
    BY ClosedSound, SelectionStays
  <2>2. \E a \in {Closed(view), HelpToggled(view)} : Only(a)
    BY <1>1 DEF RightClick, ClickOutside
  <2> QED
    BY <2>1, <2>2 DEF Keeps
<1>2. ASSUME NEW y \in 0..ListHeight, ClickBrowserLine(y)
      PROVE  \E after : Reaches(after)
  <2>1. Nth(Visible(view), y) \in Visible(view)
    BY <1>2, ListsAreFinite, NthIsThere DEF ClickBrowserLine, Sound
  <2>2. Keeps(view, Selected(view, Nth(Visible(view), y)))
    BY <2>1, ListsAreFinite, SelectedSound DEF Sound
  <2> QED
    BY <1>2, <2>2 DEF ClickBrowserLine, Keeps
<1>3. CASE ClickPaletteEntry
  BY <1>3, PaletteSound DEF ClickPaletteEntry, Keeps
<1>4. CASE SeekLevel
  <2>1. PICK i \in Int : Reads(DepthSet(view, i))
    <3>1. \A i \in 0..(view.levels - 1) : i \in Int
      OBVIOUS
    <3> QED
      BY <1>0, <1>4, <3>1 DEF SeekLevel
  <2> QED
    BY <2>1, DepthSound DEF Keeps
<1>5. CASE Wheel
  BY <1>5, SteppedSound DEF Wheel, Keeps
<1>6. CASE ClickSidebar
  BY <1>6, OpenedSound, SearchOpenedSound, SelectionStays
     DEF ClickSidebar, Keeps, Overlays, TextOverlays
<1> QED
  BY <1>1, <1>2, <1>3, <1>4, <1>5, <1>6 DEF Mouse

LEMMA AnswerReaches ==
    ASSUME Sound(view), BoundsArrive
    PROVE  \E after : Reaches(after)
<1> DEFINE a == [view EXCEPT !.drafts = @ \ {"bounds"}, !.resolving = FALSE,
                             !.overlay = IF @ = "ViewBounds" THEN None ELSE @]
           b == [view EXCEPT !.resolving = FALSE]
<1>1. Keeps(view, a) /\ Selection(a) = Selection(view)
  <2>1. a.overlay \in Overlays \cup {None} /\ HasDraft(a)
    BY DEF Sound, Views, HasDraft, DraftOf
  <2> QED
    BY <2>1 DEF Keeps, Sound, Views, OnLevel, Selection
<1>2. Keeps(view, b) /\ Selection(b) = Selection(view)
  BY DEF Keeps, Sound, Views, HasDraft, OnLevel, Selection
<1>3. Only(a) \/ Only(b)
  BY DEF BoundsArrive
<1> HIDE DEF a, b
<1> QED
  BY <1>1, <1>2, <1>3 DEF Reaches, Keeps

LEMMA EveryStepReaches ==
    ASSUME Sound(view), [Next]_vars
    PROVE  UNCHANGED <<view, fresh>> \/ \E after : Reaches(after)
<1>1. CASE Keyboard
  BY <1>1, KeysReach, MapKeysReach, EnterReaches, SubmitFormulaReaches, RemoveFormulaReaches
     DEF Keyboard
<1>2. CASE Mouse
  BY <1>2, MouseReaches
<1>3. CASE BoundsArrive
  BY <1>3, AnswerReaches
<1>4. CASE UNCHANGED vars
  BY <1>4 DEF vars
<1> QED
  BY <1>1, <1>2, <1>3, <1>4 DEF Next, Ended

(* ----------------------------- the invariant --------------------------- *)

\* As long as nothing was selected since the last read, the levels known are
\* those of the selected variable and axes: without this a key that reads the
\* same plane again could move the level.
LevelsAreOfSelection == fresh => view.levels = Levels[view.variable][view.pair]

IInv ==
    /\ Sound(view)
    /\ fresh \in BOOLEAN
    /\ running \in BOOLEAN
    /\ LevelsAreOfSelection

LEMMA InitIInv == Init => IInv
<1> SUFFICES ASSUME Init PROVE IInv
  OBVIOUS
<1>1. PICK n \in Files :
        view = [overlay |-> None, search |-> FALSE, help |-> FALSE, sidebar |-> FALSE,
                query |-> 0, row |-> 0, drafts |-> {}, resolving |-> FALSE,
                variable |-> n, pair |-> Displayed[n], depth |-> 0, cursor |-> 0,
                levels |-> Levels[n][Displayed[n]],
                formulas |-> [f \in Formulas |-> "absent"], recalled |-> None]
  BY DEF Init
<1>2. n \in Variables /\ Displayed[n] \in Pairs /\ Levels[n][Displayed[n]] \in Nat \ {0}
      /\ 0 \in 0..MaxQuery
  <2>1. n \in Variables
    BY DEF Variables
  <2>2. Displayed[n] \in Pairs /\ Levels[n] \in [Pairs -> Nat \ {0}]
    BY <2>1, DialogsAssumption
  <2> QED
    BY <2>1, <2>2, DialogsAssumption
<1>3. Sound(view)
  BY <1>1, <1>2 DEF Sound, Views, HasDraft, OnLevel
<1> QED
  BY <1>1, <1>3 DEF Init, IInv, LevelsAreOfSelection

\* What handle_command does with the state a command leaves.
LEMMA ReadsKeeps ==
    ASSUME NEW after, Sound(after), Reads(after)
    PROVE  /\ Sound(view')
           /\ view'.formulas = after.formulas /\ view'.variable = after.variable
           /\ view'.pair = after.pair /\ view'.query = after.query
           /\ view'.search = after.search
           /\ after.variable \in Listed(after) =>
                 fresh' /\ view'.levels = Levels[view'.variable][view'.pair]
           /\ after.variable \notin Listed(after) =>
                 view' = after /\ fresh' = (fresh /\ Selection(after) = Selection(view))
<1>1. Sound(view')
  BY LoadedSound DEF Reads
<1>2. CASE after.variable \in Listed(after)
  <2> DEFINE n == Levels[after.variable][after.pair]
             d == Within(after.depth, n)
  <2>1. view' = [after EXCEPT !.levels = n, !.depth = d, !.cursor = d]
    BY <1>2 DEF Reads, Loaded
  <2> HIDE DEF d
  <2> QED
    BY <1>1, <1>2, <2>1 DEF Reads, Sound, Views
<1>3. CASE after.variable \notin Listed(after)
  BY <1>1, <1>3 DEF Reads, Loaded
<1> QED
  BY <1>2, <1>3

LEMMA NextIInv == IInv /\ [Next]_vars => IInv'
<1> SUFFICES ASSUME IInv, [Next]_vars PROVE IInv'
  OBVIOUS
<1>1. running' \in BOOLEAN
  BY DEF IInv, Next, vars, Ended, Keyboard, Mouse, BoundsArrive, Esc, QuitKey, CtrlP, Type,
     Erase, Arrow, DepthKey, TabKey, Shortcut, ResetVariableView, Redraw, SwitchFile,
     SubmitVariableSearch, ExecuteCommandPalette, CommitPalettePicker, ApplyLimitDraft,
     ApplyViewBounds, SetAxes, SubmitFormula, RemoveFormula, ApplyDepthCursor, ActivatePoint,
     RightClick, ClickOutside, ClickBrowserLine, ClickPaletteEntry, SeekLevel, Wheel,
     ClickSidebar, Reads, Only
<1>2. CASE UNCHANGED <<view, fresh>>
  BY <1>1, <1>2 DEF IInv, LevelsAreOfSelection
<1>3. ASSUME NEW after, Reaches(after), Reads(after) PROVE IInv'
  <2>1. CASE after.variable \in Listed(after)
    BY <1>1, <1>3, <2>1, ReadsKeeps DEF Reaches, IInv, LevelsAreOfSelection
  <2>2. CASE after.variable \notin Listed(after)
    BY <1>1, <1>3, <2>2, ReadsKeeps DEF Reaches, IInv, LevelsAreOfSelection, Selection
  <2> QED
    BY <2>1, <2>2
<1>4. ASSUME NEW after, Reaches(after), Only(after) PROVE IInv'
  BY <1>1, <1>4 DEF Reaches, Only, IInv, LevelsAreOfSelection, Selection
<1> QED
  BY <1>2, <1>3, <1>4, EveryStepReaches DEF IInv, Reaches

LEMMA IInvInvariance == Spec => []IInv
  BY InitIInv, NextIInv, PTL DEF Spec

(* ------------------------------- theorems ------------------------------ *)

\* Type correctness: every reducer leaves a state of the program, and every
\* row, arrow and click resolves to a variable.
THEOREM DialogsTypeCorrect == Spec => []TypeOK
<1>1. IInv => TypeOK
  BY DEF IInv, Sound, TypeOK
<1> QED
  BY <1>1, IInvInvariance, PTL

\* An open dialog has its draft.
THEOREM DialogsHaveDrafts == Spec => []DraftBehindDialog
<1>1. IInv => DraftBehindDialog
  BY DEF IInv, Sound, DraftBehindDialog
<1> QED
  BY <1>1, IInvInvariance, PTL

\* The level shown and the level marked exist.
THEOREM DialogsLevelInRange == Spec => []LevelInRange
<1>1. IInv => LevelInRange
  BY DEF IInv, Sound, LevelInRange
<1> QED
  BY <1>1, IInvInvariance, PTL

\* What is selected has been asked for, except through a click in the palette.
THEOREM DialogsSelectionIsRequested == Spec => SelectionIsRequested
<1> DEFINE A == fresh => \/ fresh'
                         \/ ClickPaletteEntry
                         \/ view'.variable \notin Listed(view')
<1>1. IInv /\ [Next]_vars => [A]_vars
  <2> SUFFICES ASSUME IInv, [Next]_vars PROVE A
    OBVIOUS
  <2>1. CASE UNCHANGED <<view, fresh>>
    BY <2>1
  <2>2. ASSUME NEW after, Reaches(after) PROVE A
    <3>1. CASE Reads(after)
      BY <2>2, <3>1, ReadsKeeps DEF Reaches
    <3>2. CASE Only(after) /\ (Selection(after) = Selection(view) \/ ClickPaletteEntry)
      BY <3>2 DEF Only
    <3> QED
      BY <2>2, <3>1, <3>2 DEF Reaches
  <2> QED
    BY <2>1, <2>2, EveryStepReaches DEF IInv
<1> QED
  BY <1>1, IInvInvariance, PTL DEF Spec, SelectionIsRequested

\* Only replacing the formula of the selected variable takes it off the list.
THEOREM DialogsSelectedStaysListed == Spec => SelectedStaysListed
<1> DEFINE A == view.variable \in Listed(view) =>
                  \/ view'.variable \in Listed(view')
                  \/ SubmitFormula /\ view'.variable \in Formulas /\ view'.overlay = None
<1>1. IInv /\ [Next]_vars => [A]_vars
  <2> SUFFICES ASSUME IInv, [Next]_vars, view.variable \in Listed(view) PROVE A
    OBVIOUS
  <2>1. CASE UNCHANGED <<view, fresh>>
    BY <2>1
  <2>2. CASE SubmitFormula
    <3>1. PICK f \in Formulas, result \in {"good", "bad"} :
             LET stored == [view EXCEPT !.formulas[f] = result, !.recalled = None,
                                        !.overlay = None]
             IN  IF result = "good" THEN Reads(SelectedWith(stored, f, Named[f]))
                 ELSE Only(stored)
      BY <2>2 DEF SubmitFormula
    <3> DEFINE stored == [view EXCEPT !.formulas[f] = result, !.recalled = None,
                                      !.overlay = None]
    <3>2. CASE result = "good"
      <4>1. Sound(stored) /\ f \in Listed(stored) /\ Named[f] \in Pairs
        BY <3>2, DialogsAssumption DEF IInv, Sound, Views, HasDraft, OnLevel, Listed, Variables
      <4>2. Reads(SelectedWith(stored, f, Named[f]))
        BY <3>1, <3>2
      <4> DEFINE after == SelectedWith(stored, f, Named[f])
      <4> HIDE DEF stored
      <4>3. Keeps(stored, after)
        BY <4>1, SelectedSound
      <4>4. after.variable = f
        BY <4>1 DEF SelectedWith, Sound, Views
      <4>5. f \in Listed(after)
        BY <4>1, <4>3 DEF Keeps, Listed
      <4> HIDE DEF after
      <4>6. view'.variable = f /\ view'.formulas = after.formulas
        BY <4>2, <4>3, <4>4, ReadsKeeps DEF Keeps, after
      <4> QED
        BY <4>5, <4>6 DEF Listed
    <3>3. CASE result = "bad"
      <4>1. view' = stored
        BY <3>1, <3>3 DEF Only
      <4>2. /\ view'.variable = view.variable /\ view'.overlay = None
            /\ \A g \in Formulas \ {f} : view'.formulas[g] = view.formulas[g]
        BY <4>1 DEF IInv, Sound, Views
      <4>3. view.variable \in Files \/ view.variable \in Formulas
        BY DEF Listed
      <4>4. view.variable \in Files => view'.variable \in Listed(view')
        BY <4>2 DEF Listed
      <4> QED
        BY <2>2, <4>2, <4>3, <4>4
    <3> QED
      BY <3>2, <3>3
  <2>3. CASE RemoveFormula
    <3> DEFINE left == [view EXCEPT !.formulas[view.recalled] = "absent", !.recalled = None]
    <3>1. \/ left.variable \in Listed(left) /\ Only(left)
          \/ \E after \in Initially(left) : Reads(after)
      BY <2>3 DEF RemoveFormula
    <3>2. Sound(left)
      BY DEF IInv, Sound, Views, HasDraft, OnLevel
    <3> HIDE DEF left
    <3>3. ASSUME NEW after \in Initially(left), Reads(after) PROVE A
      <4>1. Keeps(left, after)
        BY <3>2, InitiallySound
      <4>2. after.variable \in Listed(left)
        BY <3>2, <3>3, ListsAreFinite DEF Initially, Sound, Views
      <4>3. after.variable \in Listed(after)
        BY <4>1, <4>2 DEF Keeps, Listed
      <4> QED
        BY <3>3, <4>1, <4>3, ReadsKeeps DEF Keeps, Listed
    <3> QED
      BY <3>1, <3>3 DEF Only
  <2>4. ASSUME NEW after, Reaches(after), Keeps(view, after) PROVE A
    <3>1. after.variable \in Listed(after)
      BY <2>4 DEF Keeps, Listed
    <3>2. view'.variable = after.variable /\ view'.formulas = after.formulas
      BY <2>4, ReadsKeeps DEF Reaches, Only
    <3> QED
      BY <3>1, <3>2 DEF Listed
  <2> QED
    BY <2>1, <2>2, <2>3, <2>4, EveryStepReaches DEF IInv, Reaches
<1> QED
  BY <1>1, IInvInvariance, PTL DEF Spec, SelectedStaysListed

\* In the browser the arrows move the mark, and reading the same plane again
\* leaves the level where it is.
LEMMA ReadingAgainSelectsNothing ==
    ASSUME IInv, fresh, NEW after, Sound(after), Reads(after),
           Selection(after) = Selection(view)
    PROVE  Selection(view') = Selection(view)
<1>1. /\ after.variable = view.variable /\ after.pair = view.pair /\ after.depth = view.depth
  BY DEF Selection
<1>2. CASE after.variable \in Listed(after)
  <2> DEFINE n == Levels[after.variable][after.pair]
             d == Within(after.depth, n)
  <2>1. view' = [after EXCEPT !.levels = n, !.depth = d, !.cursor = d]
    BY <1>2 DEF Reads, Loaded
  <2>2. n = view.levels
    BY <1>1 DEF IInv, LevelsAreOfSelection
  <2>3. view.depth \in Nat /\ view.depth < view.levels
    BY DEF IInv, Sound, Views, OnLevel
  <2>4. d = view.depth
    BY <1>1, <2>2, <2>3 DEF Within
  <2>5. view'.depth = d /\ view'.variable = after.variable /\ view'.pair = after.pair
    <3> HIDE DEF n, d
    <3> QED
      BY <2>1 DEF Sound, Views
  <2> QED
    BY <1>1, <2>4, <2>5 DEF Selection
<1>3. CASE after.variable \notin Listed(after)
  BY <1>3 DEF Reads, Loaded
<1> QED
  BY <1>2, <1>3

\* Keys do not reach beneath a dialog.
THEOREM DialogsKeysAreModal == Spec => DialogsAreModal
<1> DEFINE A == (Esc \/ CtrlP \/ Type \/ Erase \/ Arrow \/ TabKey) /\ ~NoDialog(view) /\ fresh
                   => Selection(view') = Selection(view)
<1>1. IInv /\ [Next]_vars => [A]_vars
  <2> SUFFICES ASSUME IInv, ~NoDialog(view), fresh,
                      Esc \/ CtrlP \/ Type \/ Erase \/ Arrow \/ TabKey
               PROVE  Selection(view') = Selection(view)
    OBVIOUS
  <2>0. Sound(view)
    BY DEF IInv
  <2>1. CASE Esc
    BY <2>0, <2>1, SelectionStays DEF Esc, QuitKey, Only
  <2>2. CASE CtrlP \/ TabKey
    BY <2>0, <2>2, SelectionStays DEF CtrlP, TabKey, Only, Overlays, TextOverlays
  <2>3. CASE Type \/ Erase
    BY <2>0, <2>3 DEF Type, Erase, Only, Selection, Sound, Views
  <2>4. CASE Arrow
    <3>1. Mode(view) # "Normal"
      BY <2>0 DEF Mode, NoDialog, Sound, Views, Overlays
    <3>2. PICK dir \in {-1, 1} :
             \/ Mode(view) = "VariableSearch" /\ Reads(Stepped(view, dir))
             \/ \E f \in Formulas : Only([view EXCEPT !.recalled = f])
             \/ \E step \in {1, 7} : Only(CursorMoved(view, dir * step))
      BY <2>4, <3>1 DEF Arrow
    <3>3. CASE Mode(view) = "VariableSearch" /\ Reads(Stepped(view, dir))
      <4>1. view.search
        BY <3>3 DEF Mode
      <4>2. Selection(Stepped(view, dir)) = Selection(view)
        BY <2>0, <4>1 DEF Stepped, Selection, Sound, Views
      <4> QED
        BY <2>0, <3>3, <4>2, SteppedSound, ReadingAgainSelectsNothing DEF Keeps
    <3>4. ASSUME NEW f \in Formulas, Only([view EXCEPT !.recalled = f])
          PROVE  Selection(view') = Selection(view)
      BY <2>0, <3>4 DEF Only, Selection, Sound, Views
    <3>5. ASSUME NEW step \in {1, 7}, Only(CursorMoved(view, dir * step))
          PROVE  Selection(view') = Selection(view)
      BY <2>0, <3>5, SelectionStays DEF Only
    <3> QED
      BY <3>2, <3>3, <3>4, <3>5
  <2> QED
    BY <2>1, <2>2, <2>3, <2>4
<1> QED
  BY <1>1, IInvInvariance, PTL DEF Spec, DialogsAreModal

\* Esc takes down one layer, and only the last Esc ends the program.
THEOREM DialogsEscClosesOne == Spec => EscClosesOne
<1> DEFINE A == /\ Esc => IF Layers(view) = 0 THEN view.sidebar \/ ~running'
                          ELSE Layers(view') = Layers(view) - 1 /\ running'
                /\ Mouse => running'
<1>1. IInv /\ [Next]_vars => [A]_vars
  <2> SUFFICES ASSUME IInv PROVE A
    OBVIOUS
  <2>0. Sound(view) /\ None \notin Overlays
    BY DialogsAssumption DEF IInv
  <2>1. Mouse => running'
    <3>1. ASSUME NEW after, Reads(after) \/ Only(after) PROVE running'
      <4>1. running /\ running' = running
        BY <3>1 DEF Reads, Only
      <4>2. running' \in {TRUE}
        BY <4>1
      <4> QED
        BY <4>2
    <3>2. Mouse => \E after : Reads(after) \/ Only(after)
      BY Zenon DEF Mouse, RightClick, ClickOutside, ClickBrowserLine, ClickPaletteEntry,
                   SeekLevel, Wheel, ClickSidebar
    <3> QED
      BY <3>1, <3>2
  <2>2. ASSUME Esc, Layers(view) = 0 PROVE view.sidebar \/ ~running'
    BY <2>0, <2>2 DEF Esc, QuitKey, Layers, Mode, Sound, Views, Overlays
  <2>3. ASSUME Esc, Layers(view) # 0 PROVE Layers(view') = Layers(view) - 1 /\ running'
    <3>1. Mode(view) \notin {"Normal", "Sidebar"}
      BY <2>0, <2>3 DEF Layers, Mode, Sound, Views, Overlays
    <3>2. /\ running'
          /\ \/ view' = Closed(view)
             \/ view' = BoundsCancelled(view) /\ view.overlay = "ViewBounds"
      BY <2>3, <3>1 DEF Esc, QuitKey, Only
    <3>3. CASE view' = Closed(view)
      <4> DEFINE w == Closed(view)
      <4>1. Layers(w) = Layers(view) - 1
        <5>0. view.search \in BOOLEAN /\ view.help \in BOOLEAN
          BY <2>0 DEF Sound, Views
        <5>1. CASE view.search
          <6>1. ~w.search /\ w.overlay = view.overlay /\ w.help = view.help
            BY <2>0, <5>1 DEF Closed, Sound, Views
          <6> HIDE DEF w
          <6> QED
            BY <5>0, <5>1, <6>1 DEF Layers
        <5>2. CASE ~view.search /\ view.overlay # None
          <6>1. ~w.search /\ w.overlay = None /\ w.help = view.help
            BY <2>0, <5>2 DEF Closed, Sound, Views
          <6> HIDE DEF w
          <6> QED
            BY <5>0, <5>2, <6>1 DEF Layers
        <5>3. CASE ~view.search /\ view.overlay = None
          <6>1. ~w.search /\ w.overlay = None /\ ~w.help
            BY <2>0, <5>3 DEF Closed, Sound, Views, Overlays, TextOverlays
          <6>2. view.help
            BY <2>3, <5>0, <5>3 DEF Layers
          <6> HIDE DEF w
          <6> QED
            BY <5>0, <5>3, <6>1, <6>2 DEF Layers
        <5> QED
          BY <5>0, <5>1, <5>2, <5>3
      <4> QED
        BY <3>2, <3>3, <4>1
    <3>4. CASE view' = BoundsCancelled(view) /\ view.overlay = "ViewBounds"
      <4>1. Layers(BoundsCancelled(view)) = Layers(view) - 1
        BY <2>0, <3>4 DEF Layers, BoundsCancelled, Sound, Views, Overlays, TextOverlays
      <4> QED
        BY <3>2, <3>4, <4>1
    <3> QED
      BY <3>2, <3>3, <3>4
  <2> QED
    BY <2>1, <2>2, <2>3
<1> QED
  BY <1>1, IInvInvariance, PTL DEF Spec, EscClosesOne

(* ---------------------- the window of the browser ---------------------- *)

\* The lines between two names of the list: no fewer than the last of them takes.
LEMMA LinesOfNames ==
    ASSUME NEW S \in SUBSET Nat, IsFiniteSet(S), S \subseteq Variables,
           NEW m \in S, NEW n \in S, m <= n
    PROVE  /\ LinesFrom(S, m, n) \in Nat /\ LinesFrom(S, m, n) >= Height[n]
           /\ LinesFrom(S, n, n) = Height[n]
<1> DEFINE between(k) == {j \in S : k <= j /\ j <= n}
<1>1. \A k : LinesFrom(S, k, n) = SumOver(Height, between(k))
  BY DEF LinesFrom, SumOver
<1>2. n \in Nat /\ m \in Nat /\ \A j \in S : j \in Nat /\ Height[j] \in Nat
  BY DialogsAssumption
<1>3. between(n) = {n} /\ n \in between(m)
  <2>1. n \in between(m)
    BY <1>2
  <2>2. \A j \in S : n <= j /\ j <= n <=> j = n
    BY <1>2
  <2> QED
    BY <2>1, <2>2
<1>4. ASSUME NEW k \in {m, n}
      PROVE  IsFiniteSet(between(k)) /\ \A j \in between(k) : Height[j] \in Nat
  BY <1>2, FS_Subset
<1> HIDE DEF between
<1>5. /\ SumOver(Height, between(m)) \in Nat
      /\ \A j \in between(m) : SumOver(Height, between(m)) >= Height[j]
  BY <1>4, SumIsAtLeast, Zenon
<1>6. \A j \in between(n) : between(n) = {j} => SumOver(Height, between(n)) = Height[j]
  BY <1>4, SumIsAtLeast, Zenon
<1> QED
  BY <1>1, <1>3, <1>5, <1>6

\* The window opens on a name from which the marked one still fits.
LEMMA MarkedFits ==
    ASSUME NEW v \in Views, Visible(v) # {}, Height[Highlighted(v)] <= ListHeight
    PROVE  /\ WindowTop(v) \in Visible(v) /\ WindowTop(v) <= Highlighted(v)
           /\ LinesFrom(Visible(v), WindowTop(v), Highlighted(v)) <= ListHeight
<1> DEFINE h == Highlighted(v)
           fits == {m \in Visible(v) : m <= h /\ LinesFrom(Visible(v), m, h) <= ListHeight}
<1>1. h \in Visible(v)
  <2>1. v.row \in Nat
    BY DEF Views
  <2> QED
    BY <2>1, EntryAt DEF Highlighted
<1>2. Visible(v) \in SUBSET Nat /\ IsFiniteSet(Visible(v)) /\ Visible(v) \subseteq Variables
  BY ListsAreFinite
<1>3. WindowTop(v) = IF fits = {} THEN h ELSE CHOOSE m \in fits : \A k \in fits : m <= k
  BY DEF WindowTop
<1> HIDE DEF h
<1>4. h \in fits
  <2>1. h <= h
    BY <1>1, <1>2
  <2>2. LinesFrom(Visible(v), h, h) = Height[h]
    BY <1>1, <1>2, <2>1, LinesOfNames
  <2> QED
    BY <1>1, <2>1, <2>2 DEF h
<1>5. \E m \in fits : \A k \in fits : m <= k
  <2>1. fits \subseteq Nat
    BY <1>2
  <2> HIDE DEF fits
  <2> QED
    BY <1>4, <2>1, LeastNatural
<1>6. WindowTop(v) \in fits
  <2> HIDE DEF fits
  <2> QED
    BY <1>3, <1>4, <1>5
<1> QED
  BY <1>6 DEF h

\* The marked name is on screen whenever it fits into the list at all.
THEOREM DialogsHighlightShown == Spec => []HighlightShown
<1>1. IInv => HighlightShown
  <2> SUFFICES ASSUME IInv, Visible(view) # {}, Height[Highlighted(view)] <= ListHeight
               PROVE  \E y \in 0 .. ListHeight : Highlighted(view) \in ShownAt(view, y)
    BY DEF HighlightShown
  <2>1. view \in Views
    BY DEF IInv, Sound
  <2> DEFINE S == Visible(view)
             h == Highlighted(view)
             top == WindowTop(view)
             y == LinesFrom(S, top, h) - Height[h]
  <2>2. S \in SUBSET Nat /\ IsFiniteSet(S) /\ S \subseteq Variables
    BY <2>1, ListsAreFinite
  <2>3. h \in S
    <3>1. view.row \in Nat
      BY <2>1 DEF Views
    <3> QED
      BY <2>1, <3>1, EntryAt DEF Highlighted
  <2>4. top \in S /\ top <= h /\ LinesFrom(S, top, h) <= ListHeight
    BY <2>1, MarkedFits
  <2>5. Height[h] \in Nat \ {0} /\ ListHeight \in Nat
    BY <2>2, <2>3, DialogsAssumption
  <2>6. LinesFrom(S, top, h) \in Nat /\ LinesFrom(S, top, h) >= Height[h]
    BY <2>2, <2>3, <2>4, LinesOfNames
  <2> HIDE DEF S, h, top
  <2>7. y \in 0 .. ListHeight /\ y < ListHeight /\ y < LinesFrom(S, top, h)
    BY <2>4, <2>5, <2>6
  <2>8. h \in ShownAt(view, y)
    <3>1. h \in Visible(view) /\ WindowTop(view) <= h
      BY <2>3, <2>4 DEF S, top
    <3>2. y < LinesFrom(Visible(view), WindowTop(view), h)
          /\ y >= LinesFrom(Visible(view), WindowTop(view), h) - Height[h]
      BY <2>4, <2>5, <2>6, <2>7 DEF S, top
    <3> HIDE DEF y
    <3> QED
      BY <2>7, <3>1, <3>2 DEF ShownAt
  <2> QED
    BY <2>7, <2>8 DEF h
<1> QED
  BY <1>1, IInvInvariance, PTL

(* ----------------------- what the screen may show ----------------------- *)

\* What may be drawn: an overlay that exists, levels and a cursor among them.
Screens ==
    [search : BOOLEAN, help : BOOLEAN, overlay : Boxed \cup {Nothing}, row : Int,
     levels : Nat \ {0}, level : Nat, cursor : Nat]

(* ------------------------- clicks on what is open ----------------------- *)

IsRect(r) == r.x \in Int /\ r.y \in Int /\ r.w \in Int /\ r.h \in Int

\* The share of a wide enough terminal has room for a close button.
LEMMA SharesAreWide ==
    ASSUME NEW t \in Terminals, t.w >= 7
    PROVE  /\ IsRect(BrowserRect(t)) /\ BrowserRect(t).w >= 4
           /\ IsRect(HelpRect(t)) /\ HelpRect(t).w >= 4
           /\ \A o : IsRect(BoxedRect(t, o)) /\ BoxedRect(t, o).w >= 4
           /\ \A o : IsRect(DrawnRect(t, o)) /\ DrawnRect(t, o).w >= 4
<1>1. t.w \in Nat /\ t.h \in Nat
  BY ScreenAssumption
<1>2. /\ (t.w * 4) \div 5 \in Nat /\ (t.w * 4) \div 5 >= 4
      /\ (t.w * 3) \div 4 \in Nat /\ (t.w * 3) \div 4 >= 4
      /\ (t.w * 3) \div 5 \in Nat /\ (t.w * 3) \div 5 >= 4
  BY <1>1
<1>3. ASSUME NEW w \in Nat, NEW h \in Nat, w >= 4
      PROVE  LET r == Rect((t.w - w) \div 2, (t.h - h) \div 2, w, h) IN IsRect(r) /\ r.w >= 4
  BY <1>1, <1>3 DEF Rect, IsRect
<1>4. (t.h * 4) \div 5 \in Nat /\ (t.h * 3) \div 5 \in Nat /\ (t.h * 2) \div 5 \in Nat
  BY <1>1
<1>5. IsRect(Share(t, 4, 5, 4, 5)) /\ Share(t, 4, 5, 4, 5).w >= 4
  BY <1>2, <1>3, <1>4 DEF Share
<1>6. IsRect(Share(t, 3, 4, 3, 5)) /\ Share(t, 3, 4, 3, 5).w >= 4
  BY <1>2, <1>3, <1>4 DEF Share
<1>7. IsRect(Share(t, 3, 5, 2, 5)) /\ Share(t, 3, 5, 2, 5).w >= 4
  BY <1>2, <1>3, <1>4 DEF Share
<1>8. IsRect(Rect(0, 0, t.w, t.h)) /\ Rect(0, 0, t.w, t.h).w >= 4
  BY <1>1 DEF Rect, IsRect
<1> QED
  BY <1>5, <1>6, <1>7, <1>8 DEF BrowserRect, HelpRect, BoxedRect, DrawnRect

\* A click leaves a rectangle where the place of the pointer is not within.
LEMMA LeavesOrWithin ==
    ASSUME NEW r, IsRect(r), r.w >= 4, NEW x \in Int, NEW y \in Int
    PROVE  Leaves(r, x, y) <=> (\E k \in {0, 1} : CloseAt(r, x - k, y)) \/ ~Inside(r, x, y)
  BY DEF IsRect, Leaves, CloseAt, Inside

\* The place of the pointer is the one the handler measures.
LEMMA PlaceIsMeasured ==
    ASSUME NEW t \in Terminals, t.w >= 7, NEW s, NEW x \in Int, NEW y \in Int, Top(s) # "dashboard"
    PROVE  PlaceOf(t, s, x, y) = "within" <=> ~Leaves(RectOf(t, s, Top(s)), x, y)
<1>1. Top(s) \in {"help", "browser", "dialog"}
  BY DEF Top
<1>2. IsRect(RectOf(t, s, Top(s))) /\ RectOf(t, s, Top(s)).w >= 4
  BY <1>1, SharesAreWide DEF RectOf
<1>3. Leaves(RectOf(t, s, Top(s)), x, y) <=>
        \/ \E k \in {0, 1} : CloseAt(RectOf(t, s, Top(s)), x - k, y)
        \/ ~Inside(RectOf(t, s, Top(s)), x, y)
  BY <1>2, LeavesOrWithin
<1> QED
  BY <1>1, <1>3 DEF PlaceOf

\* What a key closes.
LEMMA ClosedByQuit ==
    ASSUME NEW s \in Screens, NEW u \in Reduced(s, Plain("Quit")), NEW layer,
           Top(s) = layer, layer \in {"browser", "dialog"}
    PROVE  Open(s) \ Open(u) = {layer}
<1>1. u = QuitOne(s)
  BY DEF Reduced, Plain, Command
<1>2. CASE layer = "browser"
  <2>1. s.search
    BY <1>2 DEF Top
  <2>2. u.search = FALSE /\ u.help = s.help /\ u.overlay = s.overlay
    BY <1>1, <2>1 DEF QuitOne, Screens
  <2> QED
    BY <1>2, <2>1, <2>2 DEF Open
<1>3. CASE layer = "dialog"
  <2>1. ~s.search /\ s.overlay # Nothing
    BY <1>3 DEF Top
  <2>2. u.search = s.search /\ u.help = s.help /\ u.overlay = Nothing
    BY <1>1, <2>1 DEF QuitOne, Screens
  <2> QED
    BY <1>3, <2>1, <2>2 DEF Open
<1> QED
  BY <1>2, <1>3

LEMMA ClosedByHelp ==
    ASSUME NEW s \in Screens, NEW u \in Reduced(s, Plain("ToggleHelp")), s.help
    PROVE  Open(s) \ Open(u) = {"help"}
<1>1. u = [s EXCEPT !.help = ~@]
  BY DEF Reduced, Plain, Command
<1>2. u.help = FALSE /\ u.search = s.search /\ u.overlay = s.overlay
  BY <1>1 DEF Screens
<1> QED
  BY <1>2 DEF Open

LEMMA KeepsOpen ==
    ASSUME NEW s \in Screens, NEW c, NEW u \in Reduced(s, c),
           c.name \in {"Pointer", "FocusLimitField", "FocusAxisField", "SetPlotKind", "FocusPlotAxis"}
    PROVE  Open(s) \ Open(u) = {}
<1>1. u = s
  BY DEF Reduced
<1> QED
  BY <1>1

\* What a click on the layer on top may be taken for.
Choice(c) == c.name \in {"ExecutePaletteChoice", "SelectVariableAt"}
Inert(c) ==
    c.name \in {"Pointer", "FocusLimitField", "FocusAxisField", "SetPlotKind", "FocusPlotAxis"}
Leaving(layer) == Plain(IF layer = "help" THEN "ToggleHelp" ELSE "Quit")

\* A click that leaves the layer on top is its key, any other a choice or of no effect on it.
LEMMA ClicksOnTop ==
    ASSUME NEW t \in Terminals, NEW s \in Screens, NEW x \in Int, NEW y \in Int,
           Top(s) # "dashboard", ~(s.help /\ s.search),
           ~(s.overlay = "ViewBounds" /\ TakesAll(t, "ViewBounds"))
    PROVE  LET c == ClickAt(t, s, x, y)
               r == RectOf(t, s, Top(s))
           IN  IF Leaves(r, x, y) THEN c = Leaving(Top(s)) ELSE Choice(c) \/ Inert(c)
<1> DEFINE c == ClickAt(t, s, x, y)
           r == RectOf(t, s, Top(s))
<1>0. Inert(Ignored)
  BY DEF Ignored, Plain, Command, Inert
<1>1. CASE s.help
  <2>1. Top(s) = "help" /\ r = HelpRect(t) /\ c = HelpClick(t, x, y)
    BY <1>1 DEF Top, RectOf, ClickAt
  <2> HIDE DEF c, r
  <2> QED
    BY <1>0, <2>1 DEF HelpClick, Leaving, c, r
<1>2. CASE ~s.help /\ s.search
  <2>1. Top(s) = "browser" /\ r = BrowserRect(t) /\ c = BrowserClick(t, x, y)
    BY <1>2 DEF Top, RectOf, ClickAt
  <2>2. Leaves(r, x, y) => c = Plain("Quit")
    BY <2>1 DEF BrowserClick
  <2>3. ~Leaves(r, x, y) => Choice(c) \/ Inert(c)
    BY <1>0, <2>1 DEF BrowserClick, Choice, Command
  <2> HIDE DEF c, r
  <2> QED
    BY <2>1, <2>2, <2>3 DEF Leaving, c, r
<1>3. CASE ~s.help /\ ~s.search
  <2>1. /\ s.overlay # Nothing /\ s.overlay \in Boxed
        /\ Top(s) = "dialog" /\ r = DrawnRect(t, s.overlay) /\ c = OverlayClick(t, s.overlay, x, y)
    BY <1>3 DEF Top, RectOf, ClickAt, Screens
  <2>2. OverlayRect(t, s.overlay) = r
    BY <2>1 DEF OverlayRect, DrawnRect, TakesAll
  <2>3. Leaves(r, x, y) => c = Plain("Quit")
    BY <2>1, <2>2 DEF OverlayClick
  <2>4. ~Leaves(r, x, y) => Choice(c) \/ Inert(c)
    BY <1>0, <2>1, <2>2 DEF OverlayClick, Choice, Inert, Command
  <2> HIDE DEF c, r
  <2> QED
    BY <2>1, <2>3, <2>4 DEF Leaving, c, r
<1> QED
  BY <1>1, <1>2, <1>3

\* So it closes that layer and nothing else, from wherever it leaves it.
LEMMA ClickCloses ==
    ASSUME NEW t \in Terminals, t.w >= 7, NEW s \in Screens, NEW x \in Int, NEW y \in Int,
           NEW u \in Reduced(s, ClickAt(t, s, x, y)),
           Top(s) # "dashboard", ~(s.help /\ s.search),
           ~(s.overlay = "ViewBounds" /\ TakesAll(t, "ViewBounds"))
    PROVE  IF PlaceOf(t, s, x, y) = "within"
           THEN Open(s) \ Open(u) = {} \/ Choice(ClickAt(t, s, x, y))
           ELSE Open(s) \ Open(u) = {Top(s)}
<1>1. Top(s) \in {"help", "browser", "dialog"}
  BY DEF Top
<1>2. CASE Leaves(RectOf(t, s, Top(s)), x, y)
  <2>1. ClickAt(t, s, x, y) = Leaving(Top(s))
    BY <1>2, ClicksOnTop
  <2>2. PlaceOf(t, s, x, y) # "within"
    BY <1>2, PlaceIsMeasured
  <2>3. CASE Top(s) = "help"
    <3>1. s.help /\ u \in Reduced(s, Plain("ToggleHelp"))
      BY <2>1, <2>3 DEF Top, Leaving
    <3> QED
      BY <2>2, <2>3, <3>1, ClosedByHelp
  <2>4. CASE Top(s) # "help"
    <3>1. u \in Reduced(s, Plain("Quit"))
      BY <2>1, <2>4 DEF Leaving
    <3> QED
      BY <1>1, <2>2, <2>4, <3>1, ClosedByQuit
  <2> QED
    BY <2>3, <2>4
<1>3. CASE ~Leaves(RectOf(t, s, Top(s)), x, y)
  <2>1. Choice(ClickAt(t, s, x, y)) \/ Inert(ClickAt(t, s, x, y))
    BY <1>3, ClicksOnTop
  <2>2. PlaceOf(t, s, x, y) = "within"
    BY <1>3, PlaceIsMeasured
  <2>3. Inert(ClickAt(t, s, x, y)) => Open(s) \ Open(u) = {}
    BY KeepsOpen DEF Inert
  <2> QED
    BY <2>1, <2>2, <2>3
<1> QED
  BY <1>2, <1>3

(* ------------------------- every step of the screen --------------------- *)

\* Bounds keep an index a natural number.
LEMMA WithinRange ==
    ASSUME NEW i \in Int, NEW n \in Nat \ {0}
    PROVE  Bounded(i, n) \in Nat
  BY DEF Bounded, Lesser

\* A level, or some fields, set in what may be drawn.
LEMMA LevelsInRange ==
    ASSUME NEW s \in Screens, NEW i \in Int
    PROVE  AtLevel(s, i) \in Screens
<1>1. s.levels \in Nat \ {0}
  BY DEF Screens
<1>2. Bounded(i, s.levels) \in Nat
  BY <1>1, WithinRange
<1> QED
  BY <1>2 DEF AtLevel, Screens

\* Fields one at a time, and several as one after the other.
LEMMA FieldsInRange ==
    /\ \A q \in Screens : [q EXCEPT !.search = TRUE] \in Screens
    /\ \A q \in Screens : [q EXCEPT !.search = FALSE] \in Screens
    /\ \A q \in Screens : [q EXCEPT !.help = FALSE] \in Screens
    /\ \A q \in Screens : [q EXCEPT !.help = ~@] \in Screens
    /\ \A q \in Screens, o \in Boxed \cup {Nothing} : [q EXCEPT !.overlay = o] \in Screens
    /\ \A q \in Screens : [q EXCEPT !.row = 0] \in Screens
    /\ \A q \in Screens, n \in Nat \ {0} : [q EXCEPT !.levels = n] \in Screens
<1>1. \A q \in Screens : [q EXCEPT !.search = TRUE] \in Screens
  BY DEF Screens
<1>2. \A q \in Screens : [q EXCEPT !.search = FALSE] \in Screens
  BY DEF Screens
<1>3. \A q \in Screens : [q EXCEPT !.help = FALSE] \in Screens
  BY DEF Screens
<1>4. \A q \in Screens : [q EXCEPT !.help = ~@] \in Screens
  BY DEF Screens
<1>5. \A q \in Screens, o \in Boxed \cup {Nothing} : [q EXCEPT !.overlay = o] \in Screens
  BY DEF Screens
<1>6. \A q \in Screens : [q EXCEPT !.row = 0] \in Screens
  BY DEF Screens
<1>7. \A q \in Screens, n \in Nat \ {0} : [q EXCEPT !.levels = n] \in Screens
  BY DEF Screens
<1> QED
  BY <1>1, <1>2, <1>3, <1>4, <1>5, <1>6, <1>7, Zenon

LEMMA FieldByField ==
    ASSUME NEW s, NEW n
    PROVE  /\ [s EXCEPT !.search = FALSE, !.row = 0] = [[s EXCEPT !.search = FALSE] EXCEPT !.row = 0]
           /\ [s EXCEPT !.search = TRUE, !.help = FALSE, !.row = 0]
                = [[[s EXCEPT !.search = TRUE] EXCEPT !.help = FALSE] EXCEPT !.row = 0]
           /\ [s EXCEPT !.search = FALSE, !.row = 0, !.levels = n]
                = [[[s EXCEPT !.search = FALSE] EXCEPT !.row = 0] EXCEPT !.levels = n]
  OBVIOUS

LEMMA SearchingInRange ==
    ASSUME NEW s \in Screens
    PROVE  Searching(s) \in Screens
<1>1. Searching(s) = [[[s EXCEPT !.search = TRUE] EXCEPT !.help = FALSE] EXCEPT !.row = 0]
  BY FieldByField DEF Searching
<1>2. [s EXCEPT !.search = TRUE] \in Screens
  BY FieldsInRange
<1>3. [[s EXCEPT !.search = TRUE] EXCEPT !.help = FALSE] \in Screens
  BY <1>2, FieldsInRange
<1>4. [[[s EXCEPT !.search = TRUE] EXCEPT !.help = FALSE] EXCEPT !.row = 0] \in Screens
  BY <1>3, FieldsInRange
<1> QED
  BY <1>1, <1>4

\* What a reducer may be given: a number where it counts.
Counted(c) == c.name \in {"SetDepth", "MoveDepth", "SelectVariable"} => c.arg \in Int

\* Every reducer keeps what may be drawn.
LEMMA KeepsScreens ==
    ASSUME NEW s \in Screens, NEW c, Counted(c), NEW u \in Reduced(s, c)
    PROVE  u \in Screens
<1>0. Nothing \notin Boxed /\ Lengths \subseteq Nat \ {0} /\ NumEntries \in Nat
  BY ScreenAssumption
<1>1. CASE c.name = "SetDepth"
  BY <1>1, LevelsInRange DEF Reduced, Counted
<1>2. CASE c.name = "MoveDepth"
  <2>1. s.level + c.arg \in Int
    BY <1>2 DEF Screens, Counted
  <2> QED
    BY <1>2, <2>1, LevelsInRange DEF Reduced
<1>3. CASE c.name \in {"OpenLimits", "OpenFilter", "OpenAxisOverlay"}
  <2>1. \A o \in Boxed : Overlaid(s, o) \in Screens
    BY DEF Overlaid, Screens
  <2>2. {"Limits", "Filter", "Axis"} \subseteq Boxed
    BY DEF Boxed
  <2> QED
    BY <1>3, <2>1, <2>2 DEF Reduced
<1>4. CASE c.name = "OpenVariableSearch"
  <2>1. u = Searching(s)
    BY <1>4 DEF Reduced
  <2> QED
    BY <2>1, SearchingInRange
<1>5. CASE c.name = "Quit"
  <2>1. u = QuitOne(s)
    BY <1>5 DEF Reduced
  <2>2. [s EXCEPT !.search = FALSE, !.row = 0] = [[s EXCEPT !.search = FALSE] EXCEPT !.row = 0]
    BY FieldByField
  <2>3. [s EXCEPT !.search = FALSE] \in Screens
    BY FieldsInRange
  <2>4. [[s EXCEPT !.search = FALSE] EXCEPT !.row = 0] \in Screens
    BY <2>3, FieldsInRange
  <2>5. [s EXCEPT !.overlay = Nothing] \in Screens /\ [s EXCEPT !.help = FALSE] \in Screens
    BY FieldsInRange
  <2> QED
    BY <2>1, <2>2, <2>4, <2>5 DEF QuitOne
<1>6. CASE c.name = "ToggleHelp"
  <2>1. u = [s EXCEPT !.help = ~@]
    BY <1>6 DEF Reduced
  <2> QED
    BY <2>1, FieldsInRange
<1>7. CASE c.name = "ExecutePaletteChoice"
  BY <1>7, FieldsInRange DEF Reduced
<1>8. ASSUME NEW n \in Lengths
      PROVE  AtLevel([s EXCEPT !.search = FALSE, !.row = 0, !.levels = n], s.level) \in Screens
  <2>1. n \in Nat \ {0}
    BY <1>0
  <2>4. [s EXCEPT !.search = FALSE] \in Screens
    BY FieldsInRange
  <2>5. [[s EXCEPT !.search = FALSE] EXCEPT !.row = 0] \in Screens
    BY <2>4, FieldsInRange
  <2>2. [[[s EXCEPT !.search = FALSE] EXCEPT !.row = 0] EXCEPT !.levels = n] \in Screens
    BY <2>1, <2>5, FieldsInRange
  <2>3. s.level \in Int
    BY DEF Screens
  <2> QED
    BY <2>2, <2>3, LevelsInRange, FieldByField
<1>9. CASE c.name = "SelectVariableAt"
  BY <1>8, <1>9 DEF Reduced, Chosen
<1>10. CASE c.name = "SelectVariable" /\ s.search
  <2>1. Bounded(s.row + c.arg, NumEntries) \in Int
    BY <1>0, <1>10 DEF Bounded, Lesser, Screens, Counted
  <2>2. u = [s EXCEPT !.row = Bounded(s.row + c.arg, NumEntries)]
    BY <1>10 DEF Reduced, Screens
  <2> QED
    BY <2>1, <2>2 DEF Screens
<1>11. CASE c.name = "SelectVariable" /\ ~s.search /\ s.overlay \notin TakeTheWheel
  BY <1>8, <1>11 DEF Reduced, Chosen
<1>12. CASE /\ c.name \notin {"SetDepth", "MoveDepth", "OpenLimits", "OpenFilter",
                               "OpenAxisOverlay", "OpenVariableSearch", "Quit", "ToggleHelp",
                               "ExecutePaletteChoice", "SelectVariableAt"}
            /\ ~(c.name = "SelectVariable" /\ s.search)
            /\ ~(c.name = "SelectVariable" /\ ~s.search /\ s.overlay \notin TakeTheWheel)
  <2>1. u = s
    BY <1>12 DEF Reduced
  <2> QED
    BY <2>1
<1> QED
  BY <1>1, <1>2, <1>3, <1>4, <1>5, <1>6, <1>7, <1>9, <1>10, <1>11, <1>12 DEF Screens

(* ----------------------------- the invariant ---------------------------- *)

\* What is drawn has its type, and what a click sent, and did to the layer on
\* top, is what ClickIsOfControl and ClickClosesTheTop say.
ScreenInv ==
    /\ terminal \in Terminals /\ screen \in Screens
    /\ ClickClosesTheTop /\ ClickIsOfControl

\* The greater of two numbers is a number.
LEMMA GreaterIsInt ==
    ASSUME NEW a \in Int, NEW b \in Int
    PROVE  Max({a, b}) \in {a, b} /\ Max({a, b}) >= a /\ Max({a, b}) >= b
<1>1. \E x \in {a, b} : \A y \in {a, b} : x >= y
  OBVIOUS
<1> QED
  BY <1>1 DEF Max

\* A bar asks for a number wherever it is clicked.
LEMMA ValueIsInt ==
    ASSUME NEW r, r.x \in Int, r.w \in Int, NEW n \in Nat, NEW x \in Int
    PROVE  ValueAt(r, n, x) \in Int
<1> DEFINE start == r.x + 1
           end == r.x + r.w - 2
           pos == Max({start, Lesser(x, end)}) - start
           span == Max({end - start, 1})
<1>1. start \in Int /\ end \in Int /\ Lesser(x, end) \in Int /\ end - start \in Int
  BY DEF Lesser
<1> HIDE DEF start, end
<1>2. pos \in Int
  <2> DEFINE there == Lesser(x, end)
  <2>1. there \in Int
    BY <1>1
  <2> HIDE DEF there
  <2>2. Max({start, there}) \in {start, there}
    BY <1>1, <2>1, GreaterIsInt
  <2>3. Max({start, there}) \in Int
    BY <1>1, <2>1, <2>2
  <2> QED
    BY <1>1, <2>3 DEF there
<1>3. span \in Int /\ span >= 1
  BY <1>1, GreaterIsInt
<1> HIDE DEF pos, span
<1>4. pos * (n - 1) \in Int
  BY <1>2
<1>5. (pos * (n - 1)) \div span \in Int
  BY <1>3, <1>4
<1> QED
  BY <1>5 DEF ValueAt, pos, span, start, end

\* The Level box is where the boxes above it end: their heights are summed up.
LEMMA LevelBoxIsRect ==
    ASSUME NEW t \in Terminals, NEW s \in Screens
    PROVE  ListTop(t, s) \in Int /\ ListRows(t, s) \in Nat
<1> DEFINE H == BoxHeight(s)
           i == CHOOSE k \in DOMAIN BoxOrder : BoxOrder[k] = "level"
<1>1. DOMAIN BoxOrder = 1..6 /\ BoxOrder[5] = "level"
  BY DEF BoxOrder
<1>2. i \in 1..6
  BY <1>1
<1>3. \A k \in 1..6 : Stacked(s)[k] \in Nat
  BY <1>1 DEF Stacked, BoxOrder, BoxHeight
<1>4. BoxHeight(s)["level"] \in Nat
  BY DEF BoxHeight
<1>5. BodyHeight(t, s) \in Int
  BY ScreenAssumption DEF BodyHeight
<1> HIDE DEF i
<1>6. IsFiniteSet(1..(i - 1)) /\ \A k \in 1..(i - 1) : Stacked(s)[k] \in Nat
  <2>1. 1 \in Int /\ i - 1 \in Int /\ \A k \in 1..(i - 1) : k \in 1..6
    BY <1>2
  <2>2. IsFiniteSet(1..(i - 1))
    BY <2>1, FS_Interval, Zenon
  <2> QED
    BY <1>3, <2>1, <2>2
<1>7. SumOver(Stacked(s), 1..(i - 1)) \in Nat
  BY <1>6, SumIsAtLeast, Zenon
<1> DEFINE top == Lesser(SumOver(Stacked(s), 1..(i - 1)), BodyHeight(t, s))
<1>8. Box(t, s, "level")
        = Rect(0, 2 + top, 32, Lesser(BoxHeight(s)["level"], BodyHeight(t, s) - top))
  BY DEF Box, SumOver, i
<1>9. top \in Int
  BY <1>5, <1>7 DEF Lesser
<1>10. Lesser(BoxHeight(s)["level"], BodyHeight(t, s) - top) \in Int
  <2> HIDE DEF top
  <2> QED
    BY <1>4, <1>5, <1>9 DEF Lesser
<1> HIDE DEF top
<1>11. Box(t, s, "level").y \in Int /\ Box(t, s, "level").h \in Int
  BY <1>8, <1>9, <1>10 DEF Rect
<1> QED
  BY <1>11 DEF ListTop, ListRows, Less

\* A click or the wheel counts with numbers only.
LEMMA CountedClicks ==
    ASSUME NEW t \in Terminals, NEW s \in Screens, NEW x \in Int, NEW y \in Int
    PROVE  Counted(ClickAt(t, s, x, y))
<1>0. Counted(Ignored)
  BY DEF Ignored, Plain, Command, Counted
<1>1. \A name : Counted(Plain(name))
  BY DEF Plain, Command, Counted
<1>2. Counted(BrowserClick(t, x, y))
  <2>1. \A k : Counted(Command("SelectVariableAt", k))
    BY DEF Command, Counted
  <2> QED
    BY <1>1, <2>1, Zenon DEF BrowserClick, Ignored
<1>3. Counted(HelpClick(t, x, y))
  BY <1>1, Zenon DEF HelpClick, Ignored
<1>4. Counted(OverlayClick(t, s.overlay, x, y))
  <2>1. \A name, k : name \notin {"SetDepth", "MoveDepth", "SelectVariable"} => Counted(Command(name, k))
    BY DEF Command, Counted
  <2> QED
    BY <1>1, <2>1 DEF OverlayClick, Ignored
<1>5. ValueAt(LevelBand(t), s.levels, x) \in Int /\ ValueAt(Timeline(t), NumTimes, x) \in Int
  <2>1. s.levels \in Nat /\ NumTimes \in Nat /\ t.w \in Int
    BY ScreenAssumption DEF Screens
  <2>2. LevelBand(t).x \in Int /\ LevelBand(t).w \in Int
    BY <2>1 DEF LevelBand, Rect
  <2>3. Timeline(t).x \in Int /\ Timeline(t).w \in Int
    BY <2>1 DEF Timeline, Rect
  <2> QED
    BY <2>1, <2>2, <2>3, ValueIsInt
<1>6. \A k \in Int : Counted(Command("SetDepth", k)) /\ Counted(Command("SetTime", k))
                     /\ Counted(Command("MoveDepth", k))
  BY DEF Command, Counted
<1>7. Counted(TimelineClick(t, s, x))
  BY <1>1, <1>5, <1>6 DEF TimelineClick
<1>8. Counted(SidebarClick(t, s, x, y))
  <2>1. LevelUnder(t, s, y) \in Int
    <3>1. ListTop(t, s) \in Int /\ ListRows(t, s) \in Nat
      BY LevelBoxIsRect
    <3>2. s.levels \in Nat /\ s.cursor \in Nat
      BY DEF Screens
    <3>3. LevelTop(s, ListRows(t, s)) \in Int
      <4> HIDE DEF ListRows
      <4> QED
        BY <3>1, <3>2 DEF LevelTop, Lesser, Less
    <3> QED
      BY <3>1, <3>3 DEF LevelUnder
  <2>2. Counted(Command("SetDepth", LevelUnder(t, s, y)))
    BY <1>6, <2>1
  <2>3. Counted(Command("MoveDepth", -1)) /\ Counted(Command("MoveDepth", 1))
    BY <1>6
  <2> QED
    BY <1>0, <1>1, <2>2, <2>3, Zenon DEF SidebarClick
<1> QED
  BY <1>0, <1>1, <1>2, <1>3, <1>4, <1>5, <1>6, <1>7, <1>8 DEF ClickAt

\* The same of the wheel.
LEMMA CountedWheel ==
    ASSUME NEW t, NEW s, NEW x, NEW y, NEW delta \in Int
    PROVE  Counted(WheelAt(t, s, x, y, delta))
  BY DEF WheelAt, Ignored, Plain, Command, Counted

(* ----------------------- what a click is taken for ---------------------- *)

\* A bar asks, by truncating, for a value whose end, by rounding, is where the pointer is.
LEMMA RoundedEnds ==
    ASSUME NEW w \in Nat, w >= 2, NEW d \in Nat \ {0}, NEW pos \in 0 .. w - 1
    PROVE  LET i == (pos * d) \div (w - 1)
           IN  /\ i \in 0 .. d
               /\ Filled(w, d + 1, i) <= pos + 1
               /\ i = d \/ Filled(w, d + 1, i + 1) >= pos
<1> DEFINE e == w - 1
           p == pos * d
           i == p \div e
<1>1. e \in Nat \ {0} /\ p \in Nat /\ pos <= e /\ w = e + 1 /\ pos \in Nat
  OBVIOUS
<1> HIDE DEF i
<1>2. i \in Nat /\ i * e <= p /\ p < (i + 1) * e
  <2> HIDE DEF e, p
  <2> QED
    BY <1>1, QuotientBounds DEF i
<1>3. i <= d
  <2>1. p <= e * d
    BY <1>1, ProductsOrder
  <2>2. i * e <= d * e
    BY <1>1, <1>2, <2>1
  <2> QED
    BY <1>1, <1>2, <2>2, ProductsOrder
<1>4. /\ 2 * w * i + ((d + 1) - 1) \in Nat /\ 2 * w * (i + 1) + ((d + 1) - 1) \in Nat
      /\ 2 * ((d + 1) - 1) \in Nat \ {0} /\ (d + 1) - 1 = d
  BY <1>2
<1>5. Filled(w, d + 1, i) <= pos + 1
  <2>1. w * i = i * e + i
    BY <1>1, <1>2
  <2>2. w * i <= p + d
    BY <1>1, <1>2, <1>3, <2>1
  <2>3. 2 * w * i + d < (pos + 2) * (2 * d)
    <3>1. (pos + 2) * (2 * d) = 2 * p + 4 * d
      OBVIOUS
    <3>2. 2 * w * i = 2 * (w * i)
      BY <1>2
    <3>3. w * i \in Int
      BY <1>2
    <3> HIDE DEF p
    <3> QED
      BY <1>1, <2>2, <3>1, <3>2, <3>3
  <2>4. Filled(w, d + 1, i) = (2 * w * i + d) \div (2 * d)
    BY <1>4 DEF Filled
  <2> DEFINE a == 2 * w * i + d
             b == 2 * d
  <2>5. a \in Nat /\ b \in Nat \ {0} /\ a < (pos + 2) * b
    BY <1>4, <2>3
  <2> HIDE DEF a, b
  <2>6. a \div b \in Nat /\ (a \div b) * b <= a
    BY <2>5, QuotientBounds
  <2>7. (a \div b) * b < (pos + 2) * b
    BY <1>1, <2>5, <2>6
  <2>8. a \div b < pos + 2
    BY <1>1, <2>5, <2>6, <2>7, ProductsOrder
  <2> QED
    BY <1>1, <2>4, <2>6, <2>8 DEF a, b
<1>6. Filled(w, d + 1, i + 1) >= pos
  <2>1. w * (i + 1) = (i + 1) * e + (i + 1)
    BY <1>1, <1>2
  <2>2. w * (i + 1) >= p
    BY <1>1, <1>2, <2>1
  <2>3. pos * (2 * d) <= 2 * w * (i + 1) + d
    <3>1. pos * (2 * d) = 2 * p
      OBVIOUS
    <3>2. 2 * w * (i + 1) = 2 * (w * (i + 1)) /\ w * (i + 1) \in Int
      BY <1>2
    <3> HIDE DEF p
    <3> QED
      BY <1>1, <2>2, <3>1, <3>2
  <2> DEFINE a == 2 * w * (i + 1) + d
             b == 2 * d
  <2>4. Filled(w, d + 1, i + 1) = a \div b
    BY <1>4 DEF Filled
  <2>5. a \in Nat /\ b \in Nat \ {0} /\ pos * b <= a
    BY <1>4, <2>3
  <2> HIDE DEF a, b
  <2>6. pos <= a \div b
    BY <1>1, <2>5, QuotientAtLeast
  <2>7. a \div b \in Nat
    BY <2>5, QuotientBounds
  <2> QED
    BY <1>1, <2>4, <2>6, <2>7
<1> QED
  BY <1>2, <1>3, <1>5, <1>6 DEF i

LEMMA GreaterOfTwo ==
    ASSUME NEW a \in Int, NEW b \in Int, a <= b
    PROVE  Max({a, b}) = b /\ Max({b, a}) = b
<1>1. Max({a, b}) \in {a, b} /\ Max({a, b}) >= b
  BY GreaterIsInt
<1>2. {a, b} = {b, a}
  OBVIOUS
<1> QED
  BY <1>1, <1>2

\* So what is sent for a place on a bar is what its control says.
LEMMA BarIsOfControl ==
    ASSUME NEW r, r.x \in Int, r.w \in Int, r.w >= 4, NEW n \in Nat, n >= 2,
           NEW x \in Int, x >= r.x + 1, x <= r.x + r.w - 2,
           NEW label, NEW name, NEW edge, NEW c \in BarAt(r, label, name, n, x, edge)
    PROVE  Command(name, ValueAt(r, n, x)) \in c.does /\ c.edge = edge
<1> DEFINE w == r.w - 2
           d == n - 1
           pos == x - r.x - 1
           i == (pos * d) \div (w - 1)
           ends == {j \in 0..(n - 1) : /\ Filled(w, n, j) <= pos + 1
                                       /\ j = n - 1 \/ Filled(w, n, j + 1) >= pos}
<1>1. w \in Nat /\ w >= 2 /\ d \in Nat \ {0} /\ pos \in 0 .. w - 1 /\ n = d + 1
  OBVIOUS
<1>2. c = Control(label, {Command(name, j) : j \in ends}, edge)
  BY DEF BarAt
<1>3. i \in ends
  <2> HIDE DEF w, d, pos
  <2>1. /\ i \in 0 .. d /\ Filled(w, d + 1, i) <= pos + 1
        /\ i = d \/ Filled(w, d + 1, i + 1) >= pos
    BY <1>1, RoundedEnds
  <2>2. d + 1 = n /\ n - 1 = d
    BY <1>1 DEF d
  <2> QED
    BY <2>1, <2>2
<1>4. ValueAt(r, n, x) = i
  <2> DEFINE start == r.x + 1
             end == r.x + r.w - 2
  <2>1. Lesser(x, end) = x
    BY DEF Lesser
  <2>2. Max({start, x}) = x
    <3>1. start \in Int /\ start <= x
      OBVIOUS
    <3> HIDE DEF start
    <3> QED
      BY <3>1, GreaterOfTwo
  <2>3. Max({end - start, 1}) = w - 1
    <3> DEFINE span == w - 1
    <3>1. end - start = span /\ span >= 1 /\ span \in Int
      OBVIOUS
    <3> HIDE DEF w, start, end, span
    <3>2. Max({span, 1}) = span
      BY <3>1, GreaterOfTwo
    <3> QED
      BY <3>1, <3>2 DEF span
  <2>4. x - start = pos
    OBVIOUS
  <2>5. ValueAt(r, n, x)
          = ((Max({start, Lesser(x, end)}) - start) * d) \div Max({end - start, 1})
    BY DEF ValueAt
  <2> HIDE DEF start, end, w, pos, d
  <2> QED
    BY <2>1, <2>2, <2>3, <2>4, <2>5, Zenon DEF i
<1> HIDE DEF i, ends
<1> QED
  BY <1>2, <1>3, <1>4 DEF Control

\* The boxes of the sidebar lie within it, one below the other.
LEMMA BoxesInOrder ==
    ASSUME NEW t \in Terminals, NEW s \in Screens
    PROVE  LET b(name) == Box(t, s, name)
               bottom == 2 + BodyHeight(t, s)
           IN  /\ \A name \in DOMAIN BoxHeight(s) :
                    /\ b(name).x = 0 /\ b(name).w = 32
                    /\ b(name).y \in Int /\ b(name).h \in Nat
                    /\ b(name).y >= 2 /\ b(name).y + b(name).h <= bottom
               /\ b("file").y + b("file").h <= b("controls").y
               /\ b("controls").y + b("controls").h <= b("variables").y
               /\ b("variables").y + b("variables").h <= b("dimensions").y
               /\ b("dimensions").y + b("dimensions").h <= b("level").y
               /\ b("level").y + b("level").h <= b("scale").y
<1> DEFINE h == Stacked(s)
           body == BodyHeight(t, s)
           sum(k) == SumOver(h, 1..(k - 1))
           top(k) == Lesser(sum(k), body)
           box(k) == Rect(0, 2 + top(k), 32, Lesser(h[k], body - top(k)))
<1>1. DOMAIN BoxOrder = 1..6 /\ \A k \in 1..6 : h[k] \in Nat
  BY DEF Stacked, BoxOrder, BoxHeight
<1>2. body \in Nat
  BY ScreenAssumption DEF BodyHeight
<1>3. ASSUME NEW k \in 1..6, NEW name, BoxOrder[k] = name, \A j \in 1..6 : BoxOrder[j] = name => j = k
      PROVE  Box(t, s, name) = box(k)
  <2>1. (CHOOSE j \in DOMAIN BoxOrder : BoxOrder[j] = name) = k
    BY <1>1, <1>3
  <2>2. BoxHeight(s)[name] = h[k]
    BY <1>1, <1>3 DEF Stacked
  <2> QED
    BY <2>1, <2>2 DEF Box, SumOver
<1>4. /\ Box(t, s, "file") = box(1) /\ Box(t, s, "controls") = box(2)
      /\ Box(t, s, "variables") = box(3) /\ Box(t, s, "dimensions") = box(4)
      /\ Box(t, s, "level") = box(5) /\ Box(t, s, "scale") = box(6)
  <2>1. /\ BoxOrder[1] = "file" /\ BoxOrder[2] = "controls" /\ BoxOrder[3] = "variables"
        /\ BoxOrder[4] = "dimensions" /\ BoxOrder[5] = "level" /\ BoxOrder[6] = "scale"
    BY DEF BoxOrder
  <2>2. \A j \in 1..6 : j \in {1, 2, 3, 4, 5, 6}
    OBVIOUS
  <2> HIDE DEF box
  <2> QED
    BY <1>3, <2>1, <2>2
<1>5. ASSUME NEW k \in 1..7 PROVE sum(k) \in Nat
  <2>1. 1 \in Int /\ k - 1 \in Int /\ \A j \in 1..(k - 1) : j \in 1..6
    OBVIOUS
  <2>2. IsFiniteSet(1..(k - 1)) /\ \A j \in 1..(k - 1) : h[j] \in Nat
    BY <1>1, <2>1, FS_Interval, Zenon
  <2> HIDE DEF h
  <2> QED
    BY <2>2, SumIsAtLeast, Zenon
<1>6. ASSUME NEW k \in 1..6 PROVE sum(k + 1) = h[k] + sum(k)
  <2>1. 1 \in Int /\ k \in Int /\ \A j \in 1..k : j \in 1..6
    OBVIOUS
  <2>2. IsFiniteSet(1..k) /\ \A j \in 1..k : h[j] \in Nat
    BY <1>1, <2>1, FS_Interval, Zenon
  <2>3. k \in 1..k /\ (1..k) \ {k} = 1..(k - 1) /\ (k + 1) - 1 = k
    OBVIOUS
  <2> HIDE DEF h
  <2>4. SumOver(h, 1..k) = h[k] + SumOver(h, (1..k) \ {k})
    BY <2>2, <2>3, SumSplits, Zenon
  <2> QED
    BY <2>3, <2>4
<1> HIDE DEF sum, h, body
<1>7. ASSUME NEW k \in 1..6
      PROVE  /\ box(k).x = 0 /\ box(k).w = 32 /\ box(k).y \in Int /\ box(k).h \in Nat
             /\ box(k).y >= 2 /\ box(k).y + box(k).h <= 2 + body
             /\ box(k).y + box(k).h <= 2 + top(k + 1)
  <2>1. sum(k) \in Nat /\ sum(k + 1) = h[k] + sum(k) /\ h[k] \in Nat
    BY <1>1, <1>5, <1>6
  <2> QED
    BY <1>2, <2>1 DEF Rect, Lesser
<1>8. \A k \in 1..6 : box(k).y = 2 + top(k)
  BY DEF Rect
<1> HIDE DEF top, box
<1>9. \A k \in 1..5 : box(k).y + box(k).h <= box(k + 1).y
  BY <1>7, <1>8
<1>10. DOMAIN BoxHeight(s) = {"file", "controls", "variables", "dimensions", "level", "scale"}
  BY DEF BoxHeight
<1>11. /\ box(1).y + box(1).h <= box(2).y /\ box(2).y + box(2).h <= box(3).y
       /\ box(3).y + box(3).h <= box(4).y /\ box(4).y + box(4).h <= box(5).y
       /\ box(5).y + box(5).h <= box(6).y
  BY <1>9
<1>12. \A k \in {1, 2, 3, 4, 5, 6} :
            /\ box(k).x = 0 /\ box(k).w = 32 /\ box(k).y \in Int /\ box(k).h \in Nat
            /\ box(k).y >= 2 /\ box(k).y + box(k).h <= 2 + body
  BY <1>7
<1> QED
  BY <1>4, <1>10, <1>11, <1>12 DEF body

\* Within the border of a rectangle is not where it is left.
LEMMA WithinBorder ==
    ASSUME NEW r, IsRect(r), NEW x \in Int, NEW y \in Int, Inside(Inner(r), x, y)
    PROVE  /\ ~Leaves(r, x, y) /\ Inside(r, x, y)
           /\ y >= r.y + 1 /\ y <= r.y + r.h - 2 /\ x >= r.x + 1 /\ x <= r.x + r.w - 2
  BY DEF IsRect, Inside, Inner, Rect, Less, Leaves

\* What ClickIsOfControl says of one control, outside of its first two exceptions.
Meant(c, sent) ==
    c.label \in Displaced \/ CyclesInstead(c) \/ c.edge \/ sent \in c.does

\* The entries of the browser.
LEMMA BrowserClicks ==
    ASSUME NEW t \in Terminals, t.w >= 7, NEW s \in Screens, NEW x \in Int, NEW y \in Int,
           NEW c \in BrowserAt(t, s, x, y)
    PROVE  Meant(c, BrowserClick(t, x, y))
<1> DEFINE r == BrowserRect(t)
           row == y - r.y - 3
           first == BrowserTop(t, s)
<1>1. IsRect(r) /\ NumEntries \in Int /\ s.row \in Int
  BY SharesAreWide, ScreenAssumption DEF Screens
<1>2. /\ Inside(Inner(r), x, y) /\ row \in 0..(BrowserRows(t) - 1) /\ first + row < NumEntries
      /\ c = Control("entry", {Command("SelectVariableAt", first + row)}, first > 0)
  BY DEF BrowserAt
<1>3. BrowserRows(t) \in Nat /\ first \in Nat
  BY <1>1 DEF BrowserTop, BrowserRows, Less, IsRect
<1>4. ~Leaves(r, x, y)
  BY <1>1, <1>2, WithinBorder
<1>5. row \in Nat
  BY <1>1, <1>2, <1>3 DEF IsRect
<1>6. CASE first = 0
  <2>1. first + row = row /\ row \in 0..(NumEntries - 1)
    <3> HIDE DEF row, first
    <3> QED
      BY <1>1, <1>2, <1>5, <1>6
  <2>2. BrowserClick(t, x, y) = Command("SelectVariableAt", row)
    BY <1>4, <2>1 DEF BrowserClick
  <2> HIDE DEF row, first, r
  <2> QED
    BY <1>2, <2>1, <2>2 DEF Meant, Control
<1>7. CASE first # 0
  <2> HIDE DEF first
  <2>1. first > 0
    BY <1>3, <1>7
  <2>2. c.edge = (first > 0)
    BY <1>2 DEF Control
  <2> QED
    BY <2>1, <2>2 DEF Meant
<1> QED
  BY <1>6, <1>7

\* The rows of a dialog.
LEMMA DialogClicks ==
    ASSUME NEW t \in Terminals, t.w >= 7, NEW o \in Boxed, NEW x \in Int, NEW y \in Int,
           ~(o = "ViewBounds" /\ TakesAll(t, "ViewBounds")),
           NEW c \in DialogAt(t, o, x, y)
    PROVE  Meant(c, OverlayClick(t, o, x, y))
<1> DEFINE r == DrawnRect(t, o)
           row == y - r.y
           column == x - r.x - 2
<1>1. IsRect(r)
  BY SharesAreWide
<1>2. OverlayRect(t, o) = r
  BY DEF OverlayRect, DrawnRect, TakesAll
<1>3. Inside(Inner(r), x, y)
  BY DEF DialogAt
<1>4. ~Leaves(r, x, y) /\ x <= r.x + r.w - 2
  BY <1>1, <1>3, WithinBorder
<1>5. CASE o \in {"Limits", "Filter"} /\ row \in {1, 2}
  <2>1. c \in Sends("field", Command("FocusLimitField", row))
    BY <1>3, <1>5 DEF DialogAt
  <2>2. OverlayClick(t, o, x, y) = Command("FocusLimitField", row)
    BY <1>2, <1>4, <1>5 DEF OverlayClick
  <2> QED
    BY <2>1, <2>2 DEF Sends, Meant, Control
<1>6. CASE o = "Axis" /\ row \in {1, 2}
  <2>1. c \in Sends("field", Command("FocusAxisField", row))
    BY <1>3, <1>6 DEF DialogAt
  <2>2. OverlayClick(t, o, x, y) = Command("FocusAxisField", row)
    BY <1>2, <1>4, <1>6 DEF OverlayClick
  <2> QED
    BY <2>1, <2>2 DEF Sends, Meant, Control
<1>7. CASE o = "CommandPalette" /\ row - 3 \in 0..(NumRuns - 1)
  <2>1. c \in Sends("entry", Command("ExecutePaletteChoice", row - 3))
    BY <1>3, <1>7 DEF DialogAt
  <2>2. OverlayClick(t, o, x, y) = Command("ExecutePaletteChoice", row - 3)
    BY <1>2, <1>4, <1>7 DEF OverlayClick
  <2> QED
    BY <2>1, <2>2 DEF Sends, Meant, Control
<1>8. CASE o = "Plot" /\ row = 2 /\ column < r.w - 4
  <2>1. c \in DialogAt(t, o, x, y) /\ (row \in PlotRows(r) => c \in KindsAt(r, column))
    BY <1>3, <1>8 DEF DialogAt
  <2>2. row \in PlotRows(r)
    BY <1>3, <1>8 DEF DialogAt
  <2>3. PICK i \in 1..5 : c \in Sends("kind", Command("SetPlotKind", i))
    <3> HIDE DEF column, r, row
    <3> QED
      BY <2>1, <2>2 DEF KindsAt
  <2> QED
    BY <2>3 DEF Meant, Sends, Control, Displaced
<1>9. CASE o = "Plot" /\ row \in {4, 5} \cap PlotRows(r)
  <2>1. c \in Sends("field", Command("FocusPlotAxis", row - 3))
    BY <1>3, <1>9 DEF DialogAt
  <2>2. OverlayClick(t, o, x, y) = Command("FocusPlotAxis", row - 3)
    BY <1>2, <1>4, <1>9 DEF OverlayClick
  <2> QED
    BY <2>1, <2>2 DEF Sends, Meant, Control
<1>10. CASE /\ ~(o \in {"Limits", "Filter"} /\ row \in {1, 2})
            /\ ~(o = "Axis" /\ row \in {1, 2})
            /\ ~(o = "CommandPalette" /\ row - 3 \in 0..(NumRuns - 1))
            /\ ~(o = "Plot" /\ row = 2 /\ column < r.w - 4)
            /\ ~(o = "Plot" /\ row \in {4, 5} \cap PlotRows(r))
  <2>1. DialogAt(t, o, x, y) = {}
    BY <1>10 DEF DialogAt
  <2> QED
    BY <2>1
<1> QED
  BY <1>5, <1>6, <1>7, <1>8, <1>9, <1>10

\* What is drawn on the layer on top is what a click on it sends.
LEMMA ControlsOnTop ==
    ASSUME NEW t \in Terminals, t.w >= 7, NEW s \in Screens, NEW x \in Int, NEW y \in Int,
           Top(s) # "dashboard", ~(s.help /\ s.search),
           ~(s.overlay = "ViewBounds" /\ TakesAll(t, "ViewBounds")),
           NEW c \in DrawnAt(t, s, x, y)
    PROVE  Meant(c, ClickAt(t, s, x, y))
<1>1. Top(s) \in {"help", "browser", "dialog"}
  BY DEF Top
<1>2. CASE CloseAt(RectOf(t, s, Top(s)), x, y)
  <2>1. IsRect(RectOf(t, s, Top(s))) /\ RectOf(t, s, Top(s)).w >= 4
    BY <1>1, SharesAreWide DEF RectOf
  <2>2. \E k \in {0, 1} : CloseAt(RectOf(t, s, Top(s)), x - k, y)
    <3>1. x - 0 = x /\ 0 \in {0, 1}
      OBVIOUS
    <3> QED
      BY <1>2, <3>1, Zenon
  <2>3. Leaves(RectOf(t, s, Top(s)), x, y)
    BY <2>1, <2>2, LeavesOrWithin
  <2>4. ClickAt(t, s, x, y) = Leaving(Top(s))
    BY <2>3, ClicksOnTop
  <2>5. c \in Sends("close", Leaving(Top(s)))
    BY <1>1, <1>2 DEF DrawnAt, Leaving
  <2> QED
    BY <2>4, <2>5 DEF Sends, Meant, Control
<1>3. CASE ~CloseAt(RectOf(t, s, Top(s)), x, y)
  <2>1. Top(s) \in {"browser", "dialog"}
    BY <1>1, <1>3 DEF DrawnAt
  <2>2. CASE Top(s) = "browser"
    <3>1. c \in BrowserAt(t, s, x, y)
      BY <1>3, <2>2 DEF DrawnAt
    <3>2. ClickAt(t, s, x, y) = BrowserClick(t, x, y)
      BY <2>2 DEF Top, ClickAt
    <3> QED
      BY <3>1, <3>2, BrowserClicks
  <2>3. CASE Top(s) = "dialog"
    <3>1. c \in DialogAt(t, s.overlay, x, y)
      BY <1>3, <2>3 DEF DrawnAt
    <3>2. s.overlay \in Boxed /\ ClickAt(t, s, x, y) = OverlayClick(t, s.overlay, x, y)
      BY <2>3 DEF Top, ClickAt, Screens
    <3> QED
      BY <3>1, <3>2, DialogClicks
  <2> QED
    BY <2>1, <2>2, <2>3
<1> QED
  BY <1>2, <1>3

LEMMA SentIsMeant ==
    ASSUME NEW label, NEW sent, NEW c \in Sends(label, sent)
    PROVE  Meant(c, sent)
  BY DEF Sends, Control, Meant

LEMMA ListStarts ==
    ASSUME NEW s \in Screens, NEW rows \in Nat
    PROVE  LevelTop(s, rows) \in Int
  BY DEF Screens, LevelTop, Lesser, Less

\* The words of the labels in the Controls box are each in its third of the row.
LEMMA WordsInThirds ==
    ASSUME NEW row \in 1..4, NEW i \in 1..3, NEW x \in Int,
           x >= Buttons[row][i].word, x <= Buttons[row][i].end
    PROVE  \/ Buttons[row][i].does = Plain("OpenPalettePicker")
           \/ Plain(ControlsRow(row)[ThirdOf(x)]) = Buttons[row][i].does
<1>1. /\ x \in 0..9 => ThirdOf(x) = 1
      /\ x \in 10..19 => ThirdOf(x) = 2
      /\ x \in 20..31 => ThirdOf(x) = 3
  BY DEF ThirdOf, Lesser
<1>2. CASE row = 1
  BY <1>1, <1>2 DEF Buttons, Button, ControlsRow
<1>3. CASE row = 2
  BY <1>1, <1>3 DEF Buttons, Button, ControlsRow
<1>4. CASE row = 3
  BY <1>1, <1>4 DEF Buttons, Button, ControlsRow
<1>5. CASE row = 4
  BY <1>1, <1>5 DEF Buttons, Button, ControlsRow
<1> QED
  BY <1>2, <1>3, <1>4, <1>5

\* A row of the sidebar, in the order in which the handler looks at the boxes.
LEMMA SidebarClicks ==
    ASSUME NEW t \in Terminals, NEW s \in Screens, NEW x \in Int, NEW y \in Int,
           NEW c \in SidebarAt(t, s, x, y)
    PROVE  Inside(Sidebar(t, s), x, y) /\ x \in 1..30 /\ Meant(c, SidebarClick(t, s, x, y))
<1> DEFINE b(n) == Box(t, s, n)
<1>1. PICK name \in DOMAIN BoxHeight(s) :
        /\ Inside(Inner(b(name)), x, y)
        /\ c \in IF name = "controls" THEN ButtonsAt(t, s, x, y)
                 ELSE IF name = "level" THEN LevelBoxAt(t, s, x, y)
                 ELSE RowsOf(name, y - b(name).y)
  BY DEF SidebarAt
<1>2. DOMAIN BoxHeight(s) = {"file", "controls", "variables", "dimensions", "level", "scale"}
  BY DEF BoxHeight
<1>3. \A n \in DOMAIN BoxHeight(s) :
         /\ b(n).x = 0 /\ b(n).w = 32 /\ b(n).y \in Int /\ b(n).h \in Nat
         /\ b(n).y >= 2 /\ b(n).y + b(n).h <= 2 + BodyHeight(t, s)
  BY BoxesInOrder
<1>4. /\ b("file").y + b("file").h <= b("controls").y
      /\ b("controls").y + b("controls").h <= b("variables").y
      /\ b("variables").y + b("variables").h <= b("dimensions").y
      /\ b("dimensions").y + b("dimensions").h <= b("level").y
      /\ b("level").y + b("level").h <= b("scale").y
  BY BoxesInOrder
<1> HIDE DEF b
<1>5. /\ b("file").y \in Int /\ b("file").h \in Nat
      /\ b("controls").y \in Int /\ b("controls").h \in Nat
      /\ b("variables").y \in Int /\ b("variables").h \in Nat
      /\ b("dimensions").y \in Int /\ b("dimensions").h \in Nat
      /\ b("level").y \in Int /\ b("level").h \in Nat
      /\ b("scale").y \in Int /\ b("scale").h \in Nat
  BY <1>2, <1>3
<1>6. /\ y >= b(name).y + 1 /\ y <= b(name).y + b(name).h - 2
      /\ x >= 1 /\ x <= 30
  <2>1. IsRect(b(name)) /\ b(name).x = 0 /\ b(name).w = 32
    BY <1>3 DEF IsRect
  <2>2. /\ y >= b(name).y + 1 /\ y <= b(name).y + b(name).h - 2
        /\ x >= b(name).x + 1 /\ x <= b(name).x + b(name).w - 2
    BY <1>1, <2>1, WithinBorder
  <2> QED
    BY <2>1, <2>2
<1>7. Inside(Sidebar(t, s), x, y) /\ x \in 1..30
  <2>1. BodyHeight(t, s) \in Int
    BY ScreenAssumption DEF BodyHeight
  <2> QED
    BY <1>3, <1>6, <2>1 DEF Inside, Sidebar, Rect
<1>8. \A n : InBox(t, s, n, y) <=> y >= b(n).y /\ y < b(n).y + b(n).h
  BY DEF InBox, b
<1>9. CASE name = "file"
  <2>1. InBox(t, s, "file", y)
    BY <1>5, <1>6, <1>8, <1>9
  <2>2. c \in RowsOf("file", y - b("file").y)
    BY <1>1, <1>9
  <2>3. \/ y - b("file").y = 2 /\ c \in Sends("row", Plain("CyclePalette"))
        \/ y - b("file").y = 3 /\ c \in Sends("row", Plain("ToggleScale"))
    BY <2>2 DEF RowsOf
  <2>4. SidebarClick(t, s, x, y) = CASE y - b("file").y = 2 -> Plain("CyclePalette")
                                     [] y - b("file").y = 3 -> Plain("ToggleScale")
                                     [] OTHER -> Ignored
    BY <2>1 DEF SidebarClick, b
  <2>5. Meant(c, SidebarClick(t, s, x, y))
    <3>1. CASE y - b("file").y = 2 /\ c \in Sends("row", Plain("CyclePalette"))
      BY <2>4, <3>1, SentIsMeant
    <3>2. CASE y - b("file").y = 3 /\ c \in Sends("row", Plain("ToggleScale"))
      BY <2>4, <3>2, SentIsMeant
    <3> QED
      BY <2>3, <3>1, <3>2
  <2> QED
    BY <1>7, <2>5
<1>10. CASE name = "controls"
  <2>1. InBox(t, s, "controls", y) /\ ~InBox(t, s, "file", y)
    BY <1>4, <1>5, <1>6, <1>8, <1>10
  <2> DEFINE row == y - b("controls").y
  <2>2. PICK i \in 1..3 :
          /\ row \in 1..4 /\ x \in Buttons[row][i].first..Buttons[row][i].end
          /\ c = Control("button", {Buttons[row][i].does}, x < Buttons[row][i].word)
    BY <1>1, <1>10 DEF ButtonsAt, b
  <2>3. SidebarClick(t, s, x, y) = Plain(ControlsRow(row)[ThirdOf(x)])
    BY <2>1, <2>2 DEF SidebarClick, b
  <2> HIDE DEF row
  <2>4. Buttons[row][i].word \in Int /\ Buttons[row][i].end \in Int /\ Buttons[row][i].first \in Int
    BY <2>2 DEF Buttons, Button
  <2>5. \/ x < Buttons[row][i].word
        \/ Buttons[row][i].does = Plain("OpenPalettePicker")
        \/ Plain(ControlsRow(row)[ThirdOf(x)]) = Buttons[row][i].does
    BY <2>2, <2>4, WordsInThirds
  <2>6. Meant(c, SidebarClick(t, s, x, y))
    BY <2>2, <2>3, <2>5, Zenon DEF Meant, Control, CyclesInstead
  <2> QED
    BY <1>7, <2>6
<1>11. CASE name = "variables"
  <2>1. /\ InBox(t, s, "variables", y) /\ ~InBox(t, s, "controls", y)
        /\ ~InBox(t, s, "file", y)
    BY <1>4, <1>5, <1>6, <1>8, <1>11
  <2>2. c \in Sends("row", Plain("OpenVariableSearch"))
    BY <1>1, <1>11 DEF RowsOf
  <2>3. SidebarClick(t, s, x, y) = Plain("OpenVariableSearch")
    BY <2>1 DEF SidebarClick
  <2> QED
    BY <1>7, <2>2, <2>3, SentIsMeant
<1>12. CASE name = "dimensions"
  BY <1>1, <1>12 DEF RowsOf
<1>13. CASE name = "level"
  <2>1. /\ ~InBox(t, s, "variables", y) /\ ~InBox(t, s, "controls", y)
        /\ ~InBox(t, s, "file", y)
    BY <1>4, <1>5, <1>6, <1>8, <1>13
  <2> DEFINE row == y - ListTop(t, s)
  <2>2. HasList(t, s) /\ c \in LevelBoxAt(t, s, x, y)
    BY <1>1, <1>13 DEF LevelBoxAt
  <2>3. CASE y = Stepper(t, s)
    <3>1. \/ x \in 1..6 /\ c \in Sends("step", Command("MoveDepth", -1))
          \/ c \in Sends("next", Command("MoveDepth", 1))
      BY <2>2, <2>3 DEF LevelBoxAt
    <3>2. x \in 1..6 => SidebarClick(t, s, x, y) = Command("MoveDepth", -1)
      <4>1. x \in 1..6 => x \in 1..(30 \div 2)
        OBVIOUS
      <4> QED
        BY <2>1, <2>2, <2>3, <4>1 DEF SidebarClick
    <3> QED
      BY <1>7, <3>1, <3>2, SentIsMeant DEF Meant, Sends, Control, Displaced
  <2>4. CASE y # Stepper(t, s)
    <3>1. /\ ListTop(t, s) \in Int /\ ListRows(t, s) \in Nat
      BY LevelBoxIsRect
    <3>2. s.levels \in Nat /\ s.cursor \in Nat
      BY DEF Screens
    <3>3. /\ row \in 0..(Lesser(ListRows(t, s), s.levels) - 1)
          /\ c \in Sends("level", Command("SetDepth", LevelTop(s, ListRows(t, s)) + row))
      BY <2>2, <2>4 DEF LevelBoxAt
    <3>4. row \in 0..(ListRows(t, s) - 1)
      <4> HIDE DEF row
      <4> QED
        BY <3>1, <3>2, <3>3 DEF Lesser
    <3>5. SidebarClick(t, s, x, y) = Command("SetDepth", LevelUnder(t, s, y))
      BY <2>1, <2>2, <2>4, <3>4 DEF SidebarClick
    <3>6. LevelTop(s, ListRows(t, s)) \in Int
      BY <3>1, ListStarts
    <3>7. LevelUnder(t, s, y) = LevelTop(s, ListRows(t, s)) + row
      BY <3>1, <3>6 DEF LevelUnder
    <3> HIDE DEF row
    <3> QED
      BY <1>7, <3>3, <3>5, <3>7, SentIsMeant
  <2> QED
    BY <2>3, <2>4
<1>14. CASE name = "scale"
  <2>1. /\ ~InBox(t, s, "variables", y) /\ ~InBox(t, s, "controls", y)
        /\ ~InBox(t, s, "file", y) /\ InBox(t, s, "scale", y)
    BY <1>4, <1>5, <1>6, <1>8, <1>14
  <2>2. HasList(t, s) => y # Stepper(t, s) /\ y - ListTop(t, s) \notin 0..(ListRows(t, s) - 1)
    <3>1. /\ Stepper(t, s) = b("level").y + 2 /\ ListTop(t, s) = b("level").y + 3
          /\ ListRows(t, s) = Less(b("level").h, 4)
      BY DEF Stepper, ListTop, ListRows, b
    <3> QED
      BY <1>4, <1>5, <1>6, <1>14, <3>1 DEF HasList, Less
  <2>3. \/ y - b("scale").y = 1 /\ c \in Sends("row", Plain("OpenLimits"))
        \/ y - b("scale").y = 2 /\ c \in Sends("row", Plain("OpenFilter"))
        \/ y - b("scale").y = 7 /\ c \in Sends("row", Plain("ToggleColorScaleScope"))
    BY <1>1, <1>14 DEF RowsOf
  <2>4. SidebarClick(t, s, x, y) = CASE y - b("scale").y = 1 -> Plain("OpenLimits")
                                     [] y - b("scale").y = 2 -> Plain("OpenFilter")
                                     [] y - b("scale").y = 7 -> Plain("ToggleColorScaleScope")
                                     [] OTHER -> Ignored
    BY <2>1, <2>2 DEF SidebarClick, b
  <2>5. Meant(c, SidebarClick(t, s, x, y))
    <3>1. CASE y - b("scale").y = 1 /\ c \in Sends("row", Plain("OpenLimits"))
      BY <2>4, <3>1, SentIsMeant
    <3>2. CASE y - b("scale").y = 2 /\ c \in Sends("row", Plain("OpenFilter"))
      BY <2>4, <3>2, SentIsMeant
    <3>3. CASE y - b("scale").y = 7 /\ c \in Sends("row", Plain("ToggleColorScaleScope"))
      BY <2>4, <3>3, SentIsMeant
    <3> QED
      BY <2>3, <3>1, <3>2, <3>3
  <2> QED
    BY <1>7, <2>5
<1> QED
  BY <1>2, <1>9, <1>10, <1>11, <1>12, <1>13, <1>14

\* The bar of times and its title.
LEMMA TimelineClicks ==
    ASSUME NEW t \in Terminals, IsWide(t), NEW s \in Screens, NEW x \in Int, NEW y \in Int,
           NEW c \in TimelineAt(t, s, x, y)
    PROVE  Meant(c, TimelineClick(t, s, x))
<1> DEFINE r == Timeline(t)
<1>1. t.w \in Nat /\ t.h \in Nat /\ t.w >= 63 /\ NumTimes \in Nat
  BY ScreenAssumption DEF IsWide
<1>2. r.x = 0 /\ r.y = t.h - 4 /\ r.w = t.w /\ r.h = 3 /\ IsRect(r)
  BY <1>1 DEF Timeline, Rect, IsRect
<1> HIDE DEF r
<1>3. CASE y = r.y
  <2>1. \/ c \in Sends("play", Plain("TogglePlayback"))
        \/ /\ x \in (t.w - 25)..(t.w - 16)
           /\ c = Control("speed", {Plain("DecreasePlaybackSpeed")}, x < t.w - 18)
        \/ /\ x \in (t.w - 13)..(t.w - 3)
           /\ c = Control("speed", {Plain("IncreasePlaybackSpeed")}, x < t.w - 5)
    BY <1>3 DEF TimelineAt, r
  <2>2. CASE c \in Sends("play", Plain("TogglePlayback"))
    BY <2>2 DEF Meant, Sends, Control, Displaced
  <2>3. CASE /\ x \in (t.w - 25)..(t.w - 16)
             /\ c = Control("speed", {Plain("DecreasePlaybackSpeed")}, x < t.w - 18)
    <3>1. x < t.w - 18 \/ (x >= t.w - 23 /\ x < t.w - 12 /\ ~(x <= 7))
      BY <1>1, <2>3
    <3> QED
      BY <2>3, <3>1 DEF Meant, Control, TimelineClick
  <2>4. CASE /\ x \in (t.w - 13)..(t.w - 3)
             /\ c = Control("speed", {Plain("IncreasePlaybackSpeed")}, x < t.w - 5)
    <3>1. x < t.w - 5 \/ (x >= t.w - 23 /\ ~(x < t.w - 12) /\ ~(x <= 7))
      BY <1>1, <2>4
    <3> QED
      BY <2>4, <3>1 DEF Meant, Control, TimelineClick
  <2> QED
    BY <2>1, <2>2, <2>3, <2>4
<1>4. CASE y # r.y
  <2> DEFINE edge == x <= 21 \/ x >= t.w - 25
  <2>1. Inside(Inner(r), x, y) /\ NumTimes > 1 /\ c \in BarAt(r, "date", "SetTime", NumTimes, x, edge)
    BY <1>4 DEF TimelineAt, r
  <2>2. x >= r.x + 1 /\ x <= r.x + r.w - 2
    BY <1>2, <2>1, WithinBorder
  <2>3. ~edge => ~(x <= 7) /\ ~(x >= t.w - 23)
    BY <1>1
  <2>4. edge \in BOOLEAN
    BY <1>1
  <2> HIDE DEF edge
  <2>5. Command("SetTime", ValueAt(r, NumTimes, x)) \in c.does /\ c.edge = edge
    BY <1>1, <1>2, <2>1, <2>2, BarIsOfControl
  <2>6. ~edge => TimelineClick(t, s, x) = Command("SetTime", ValueAt(r, NumTimes, x))
    BY <2>3 DEF TimelineClick, r
  <2> QED
    BY <2>4, <2>5, <2>6 DEF Meant
<1> QED
  BY <1>3, <1>4

\* What is drawn on the dashboard is what a click on it sends.
LEMMA ControlsOfDashboard ==
    ASSUME NEW t \in Terminals, NEW s \in Screens, NEW x \in Int, NEW y \in Int,
           Top(s) = "dashboard", NEW c \in DrawnAt(t, s, x, y)
    PROVE  Meant(c, ClickAt(t, s, x, y))
<1>1. ~s.search /\ ~s.help /\ s.overlay = Nothing
  BY DEF Top
<1>2. c \in DashboardAt(t, s, x, y) /\ IsWide(t)
  BY DEF DrawnAt, DashboardAt
<1>3. t.w \in Nat /\ t.h \in Nat /\ t.h >= 14 /\ t.w >= 63 /\ s.levels \in Nat
  BY <1>2, ScreenAssumption DEF IsWide, Screens
<1>4. HasLevels(s) => s.levels >= 2
  BY <1>3 DEF HasLevels
<1> DEFINE band == LevelBand(t)
<1>5. /\ band.x = 0 /\ band.y = t.h - 7 /\ band.w = t.w /\ band.h = 3 /\ IsRect(band)
      /\ Timeline(t).x = 0 /\ Timeline(t).y = t.h - 4 /\ Timeline(t).w = t.w /\ Timeline(t).h = 3
      /\ Sidebar(t, s).y = 2 /\ Sidebar(t, s).h = BodyHeight(t, s)
      /\ Canvas(t, s).x = 32 /\ Canvas(t, s).y = 2 /\ Canvas(t, s).h = BodyHeight(t, s)
  BY <1>3 DEF LevelBand, Timeline, Sidebar, Canvas, Rect, IsRect
<1> HIDE DEF band
<1>6. /\ BodyHeight(t, s) \in Nat /\ BodyHeight(t, s) <= t.h - 6
      /\ HasLevels(s) => BodyHeight(t, s) = t.h - 9
  BY <1>3 DEF BodyHeight
<1>7. CASE HasLevels(s) /\ Inside(Inner(band), x, y)
  <2>1. c \in BarAt(band, "bar", "SetDepth", s.levels, x, FALSE)
    BY <1>2, <1>7 DEF DashboardAt, band
  <2>2. x >= band.x + 1 /\ x <= band.x + band.w - 2 /\ Inside(band, x, y)
    BY <1>5, <1>7, WithinBorder
  <2>3. Command("SetDepth", ValueAt(band, s.levels, x)) \in c.does
    <3>1. band.x \in Int /\ band.w \in Int /\ band.w >= 4
      BY <1>3, <1>5
    <3>2. s.levels \in Nat /\ s.levels >= 2
      BY <1>3, <1>4, <1>7
    <3> QED
      BY <2>1, <2>2, <3>1, <3>2, BarIsOfControl
  <2>4. ClickAt(t, s, x, y) = Command("SetDepth", ValueAt(band, s.levels, x))
    BY <1>1, <1>7, <2>2 DEF ClickAt, band
  <2> QED
    BY <2>3, <2>4 DEF Meant
<1>8. CASE ~(HasLevels(s) /\ Inside(Inner(band), x, y)) /\ Inside(Timeline(t), x, y)
  <2>1. c \in TimelineAt(t, s, x, y)
    BY <1>2, <1>8 DEF DashboardAt, band
  <2>2. y >= t.h - 4
    BY <1>5, <1>8 DEF Inside
  <2>3. ~Inside(band, x, y) /\ ~Inside(Canvas(t, s), x, y)
    BY <1>3, <1>5, <1>6, <2>2 DEF Inside
  <2>4. ClickAt(t, s, x, y) = TimelineClick(t, s, x)
    BY <1>1, <1>8, <2>3 DEF ClickAt, band
  <2> QED
    BY <1>2, <2>1, <2>4, TimelineClicks
<1>9. CASE ~(HasLevels(s) /\ Inside(Inner(band), x, y)) /\ ~Inside(Timeline(t), x, y)
  <2>1. c \in SidebarAt(t, s, x, y)
    BY <1>2, <1>9 DEF DashboardAt, band
  <2>2. Inside(Sidebar(t, s), x, y) /\ x \in 1..30 /\ Meant(c, SidebarClick(t, s, x, y))
    BY <2>1, SidebarClicks
  <2>3. y < 2 + BodyHeight(t, s)
    BY <1>5, <2>2 DEF Inside
  <2>4. ~(HasLevels(s) /\ Inside(band, x, y)) /\ ~Inside(Canvas(t, s), x, y)
    BY <1>3, <1>5, <1>6, <2>2, <2>3 DEF Inside
  <2>5. ClickAt(t, s, x, y) = SidebarClick(t, s, x, y)
    BY <1>1, <1>9, <2>2, <2>4 DEF ClickAt, band
  <2> QED
    BY <2>2, <2>5
<1> QED
  BY <1>7, <1>8, <1>9

(* ------------------------------ every step ------------------------------ *)

\* The first frame.
LEMMA ScreenInitInv == ScreenInit => ScreenInv
<1> SUFFICES ASSUME ScreenInit PROVE ScreenInv
  OBVIOUS
<1>1. terminal \in Terminals /\ last.top = "none" /\ last.control = {}
  BY DEF ScreenInit, NoClick
<1>2. PICK n \in Lengths :
         screen = [search |-> FALSE, help |-> FALSE, overlay |-> Nothing, row |-> 0,
                   levels |-> n, level |-> 0, cursor |-> 0]
  BY DEF ScreenInit
<1>3. screen \in Screens
  BY <1>2, ScreenAssumption DEF Screens
<1> QED
  BY <1>1, <1>3 DEF ScreenInv, ClickClosesTheTop, ClickIsOfControl

\* Every step of the screen.
LEMMA ScreenNextInv ==
    ASSUME \A t \in Terminals : t.w >= 7, ScreenInv, [ScreenNext]_screenVars
    PROVE  ScreenInv'
<1> USE DEF ScreenInv
<1>0. /\ ScreenAssumption /\ terminal.w \in Nat /\ terminal.h \in Nat
      /\ screen.levels \in Nat \ {0} /\ screen.level \in Nat /\ screen.cursor \in Nat
  BY ScreenAssumption DEF Screens
<1>1. ASSUME last' = last, terminal' = terminal, screen' \in Screens
      PROVE  ScreenInv'
  BY <1>1 DEF ClickClosesTheTop, ClickIsOfControl, BrowserUnderHelp
<1>2. CASE LeftClick
  <2>1. PICK x \in 0..(terminal.w - 1), y \in 0..(terminal.h - 1) :
            LET c == ClickAt(terminal, screen, x, y)
            IN  /\ screen' \in Reduced(screen, c)
                /\ last' = [control |-> DrawnAt(terminal, screen, x, y), command |-> c,
                            top |-> Top(screen), at |-> PlaceOf(terminal, screen, x, y),
                            open |-> Open(screen), closed |-> Open(screen) \ Open(screen'),
                            whole |-> /\ screen.overlay = "ViewBounds"
                                      /\ TakesAll(terminal, "ViewBounds")]
                /\ UNCHANGED terminal
    BY <1>2 DEF LeftClick
  <2>2. x \in Int /\ y \in Int
    BY <1>0
  <2>3. screen' \in Screens
    BY <2>1, <2>2, CountedClicks, KeepsScreens
  <2>4. ClickClosesTheTop'
    <3>1. /\ last'.top = Top(screen) /\ last'.at = PlaceOf(terminal, screen, x, y)
          /\ last'.closed = Open(screen) \ Open(screen')
          /\ last'.open = Open(screen) /\ last'.command = ClickAt(terminal, screen, x, y)
          /\ last'.whole = (screen.overlay = "ViewBounds" /\ TakesAll(terminal, "ViewBounds"))
      BY <2>1
    <3>2. CASE Top(screen) = "dashboard"
      BY <3>1, <3>2 DEF ClickClosesTheTop
    <3>3. CASE screen.help /\ screen.search
      <4>1. {"help", "browser"} \subseteq Open(screen)
        BY <3>3 DEF Open
      <4> QED
        BY <3>1, <4>1 DEF ClickClosesTheTop, BrowserUnderHelp
    <3>4. CASE screen.overlay = "ViewBounds" /\ TakesAll(terminal, "ViewBounds")
      BY <3>1, <3>4 DEF ClickClosesTheTop
    <3>5. CASE /\ Top(screen) # "dashboard" /\ ~(screen.help /\ screen.search)
               /\ ~(screen.overlay = "ViewBounds" /\ TakesAll(terminal, "ViewBounds"))
      <4>1. IF PlaceOf(terminal, screen, x, y) = "within"
            THEN \/ Open(screen) \ Open(screen') = {}
                 \/ Choice(ClickAt(terminal, screen, x, y))
            ELSE Open(screen) \ Open(screen') = {Top(screen)}
        BY <2>1, <2>2, <3>5, ClickCloses
      <4> QED
        BY <3>1, <4>1 DEF ClickClosesTheTop, Choice
    <3> QED
      BY <3>2, <3>3, <3>4, <3>5
  <2>5. ClickIsOfControl'
    <3> SUFFICES ASSUME NEW c \in last'.control, ~BrowserUnderHelp', ~last'.whole
                 PROVE  Meant(c, last'.command)
      BY DEF ClickIsOfControl, Meant
    <3>1. /\ c \in DrawnAt(terminal, screen, x, y)
          /\ last'.command = ClickAt(terminal, screen, x, y) /\ last'.open = Open(screen)
          /\ ~(screen.overlay = "ViewBounds" /\ TakesAll(terminal, "ViewBounds"))
      BY <2>1
    <3>2. ~(screen.help /\ screen.search)
      BY <3>1 DEF Open, BrowserUnderHelp
    <3>3. Meant(c, ClickAt(terminal, screen, x, y))
      BY <2>2, <3>1, <3>2, ControlsOnTop, ControlsOfDashboard
    <3> QED
      BY <3>1, <3>3
  <2> QED
    BY <2>1, <2>3, <2>4, <2>5
<1>3. CASE FrameDrawn
  BY <1>3 DEF FrameDrawn, NoClick, ClickClosesTheTop, ClickIsOfControl
<1>4. CASE HelpButton
  <2>1. [screen EXCEPT !.help = ~@] \in Screens
    BY FieldsInRange
  <2> QED
    BY <1>1, <1>4, <2>1 DEF HelpButton
<1>5. CASE WheelTurns
  <2>1. PICK x \in {1, terminal.w \div 2}, y \in 0..(terminal.h - 1), delta \in {-1, 1} :
            /\ screen' \in Reduced(screen, WheelAt(terminal, screen, x, y, delta))
            /\ UNCHANGED <<terminal, last>>
    BY <1>5 DEF WheelTurns
  <2>2. screen' \in Screens
    BY <2>1, CountedWheel, KeepsScreens
  <2> QED
    BY <1>1, <2>1, <2>2
<1>6. CASE DragOverBand
  <2>1. PICK x \in 0..(terminal.w - 1) :
            /\ screen' = AtLevel(screen, ValueAt(LevelBand(terminal), screen.levels, x))
            /\ UNCHANGED <<terminal, last>>
    BY <1>6 DEF DragOverBand
  <2>2. LevelBand(terminal).x \in Int /\ LevelBand(terminal).w \in Int
    BY <1>0 DEF LevelBand, Rect
  <2>3. ValueAt(LevelBand(terminal), screen.levels, x) \in Int
    BY <1>0, <2>2, ValueIsInt
  <2>4. screen' \in Screens
    BY <2>1, <2>3, LevelsInRange
  <2> QED
    BY <1>1, <2>1, <2>4
<1>7. CASE KeyPressed
  <2>1. screen' \in Screens
    <3>1. ASSUME NEW o \in Boxed PROVE Overlaid(screen, o) \in Screens
      BY DEF Overlaid, Screens
    <3>2. Searching(screen) \in Screens
      BY SearchingInRange
    <3>3. ASSUME NEW delta \in {-1, 1}
          PROVE  [screen EXCEPT !.cursor = Bounded(@ + delta, screen.levels)] \in Screens
      <4>1. Bounded(screen.cursor + delta, screen.levels) \in Nat
        BY <1>0, WithinRange
      <4> QED
        BY <4>1 DEF Screens
    <3>4. ASSUME NEW delta \in {-1, 1}
          PROVE  [screen EXCEPT !.row = Bounded(@ + delta, NumEntries)] \in Screens
      <4>1. Bounded(screen.row + delta, NumEntries) \in Int
        BY <1>0 DEF Bounded, Lesser, Screens, ScreenAssumption
      <4> QED
        BY <4>1 DEF Screens
    <3>5. "CommandPalette" \in Boxed
      BY DEF Boxed, Large
    <3> QED
      BY <1>7, <3>1, <3>2, <3>3, <3>4, <3>5 DEF KeyPressed
  <2> QED
    BY <1>1, <1>7, <2>1 DEF KeyPressed
<1>8. CASE TerminalResized
  BY <1>8 DEF TerminalResized, ClickClosesTheTop, ClickIsOfControl, BrowserUnderHelp
<1>9. CASE UNCHANGED screenVars
  BY <1>1, <1>9 DEF screenVars
<1> QED
  BY <1>2, <1>3, <1>4, <1>5, <1>6, <1>7, <1>8, <1>9 DEF ScreenNext

\* translate_overlay_mouse, translate_variable_browser_click and translate_help_click
\* against popup.rs and help.rs: a click on the layer on top closes that layer from its
\* close button or from beside it, or chooses one of its entries, and closes nothing else,
\* on every terminal at least seven columns wide (below that a dialog has less than the
\* four columns close_button_hit asks for).
THEOREM ScreenClickClosesTheTop ==
    ASSUME \A t \in Terminals : t.w >= 7
    PROVE  ScreenSpec => []ClickClosesTheTop
<1>1. ScreenInit => ScreenInv
  BY ScreenInitInv
<1>2. ScreenInv /\ [ScreenNext]_screenVars => ScreenInv'
  BY ScreenNextInv
<1>3. ScreenInv => ClickClosesTheTop
  BY DEF ScreenInv
<1> QED
  BY <1>1, <1>2, <1>3, PTL DEF ScreenSpec

\* The seven files that draw controls against translate_mouse and what it calls: a
\* click on a control of the layer on top sends what the control says - the command of
\* the key its label names, not what the handler has for it -, on every such terminal,
\* for any number of levels, times, variables and palette entries, except on the controls
\* ClickIsOfControl names: labels of which it is false in the code, and edges.  For
\* a bar that is by arithmetic (RoundedEnds), for the sidebar because its boxes are
\* stacked in the order in which the handler looks at them (BoxesInOrder) and the words
\* of its buttons are in their thirds (WordsInThirds).
THEOREM ScreenClickIsOfControl ==
    ASSUME \A t \in Terminals : t.w >= 7
    PROVE  ScreenSpec => []ClickIsOfControl
<1>1. ScreenInit => ScreenInv
  BY ScreenInitInv
<1>2. ScreenInv /\ [ScreenNext]_screenVars => ScreenInv'
  BY ScreenNextInv
<1>3. ScreenInv => ClickIsOfControl
  BY DEF ScreenInv
<1> QED
  BY <1>1, <1>2, <1>3, PTL DEF ScreenSpec
=============================================================================
