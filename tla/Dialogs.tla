------------------------------ MODULE Dialogs ------------------------------
(***************************************************************************)
(* Dialogs and the routing of input: ViewModel::input_mode, the key tables *)
(* of src/events/input.rs, the mouse translation of src/main.rs, the       *)
(* reducers of src/app.rs they reach and what handle_command reads again   *)
(* afterwards.                                                             *)
(*                                                                         *)
(* Up to three layers cover the map: the variable browser, one overlay and *)
(* the help.  Which of them takes a key is decided in one place, which     *)
(* takes a click in another, and what a command then does is decided a     *)
(* third time, by the reducer.                                             *)
(*                                                                         *)
(* Variables are numbers in the order of their names, and every file has   *)
(* the same ones; time, zoom and the files themselves are SliceLoading's   *)
(* subject.  The text in a field is abstracted: a query is the number of   *)
(* characters typed of one word, a draft is there or not, and whether it   *)
(* parses is chosen on Enter.                                              *)
(***************************************************************************)
EXTENDS Integers, FiniteSets, FiniteSetsExt

CONSTANTS
    Files,      \* variables of the opened files that can be plotted
    Formulas,   \* names the user may give to a formula
    Matches,    \* [0..MaxQuery -> SUBSET Variables]: names matching a query
    MaxQuery,   \* bound: characters typed in the variable browser
    Pairs,      \* pairs of dimensions for x and y
    Named,      \* [Variables -> Pairs]: default_axes, from the names
    Displayed,  \* [Variables -> Pairs]: default_display_axes, from the roles
    Levels,     \* [Variables -> [Pairs -> Nat \ {0}]]: depth_length
    Height,     \* [Variables -> Nat \ {0}]: lines its name takes in the browser
    ListHeight, \* lines the browser has for names
    None        \* no overlay, no recalled formula

Variables == Files \cup Formulas

TextOverlays ==
    {"Limits", "Filter", "Axis", "CommandPalette", "Formula", "PalettePicker", "ViewBounds"}
Overlays == TextOverlays \cup {"Plot"}

ASSUME DialogsAssumption ==
    /\ Variables \subseteq Nat
    /\ IsFiniteSet(Variables)
    /\ Files \cap Formulas = {}
    /\ Files # {}
    /\ None \notin Variables /\ None \notin Overlays
    /\ MaxQuery \in Nat
    /\ Matches \in [0..MaxQuery -> SUBSET Variables]
    /\ Named \in [Variables -> Pairs]
    /\ Displayed \in [Variables -> Pairs]
    /\ Levels \in [Variables -> [Pairs -> Nat \ {0}]]
    /\ Height \in [Variables -> Nat \ {0}]
    /\ ListHeight \in Nat

VARIABLES
    view,    \* the fields of ViewModel and AppState this module is about
    fresh,   \* nothing was selected since the last load_selected (specification only)
    running  \* the main loop has not been left

vars == <<view, fresh, running>>

Drafts == {"limits", "axis", "picker", "bounds"}

\* The draft each overlay edits.
DraftOf(o) ==
    CASE o \in {"Limits", "Filter"} -> {"limits"}
      [] o = "Axis" -> {"axis"}
      [] o = "PalettePicker" -> {"picker"}
      [] o = "ViewBounds" -> {"bounds"}
      [] OTHER -> {}

\* The fields of the state.
Views ==
    [overlay: Overlays \cup {None}, search: BOOLEAN, help: BOOLEAN, sidebar: BOOLEAN,
     query: 0..MaxQuery,        \* characters in variable_query
     row: Nat,                  \* variable_browser_index
     drafts: SUBSET Drafts,     \* the drafts that are Some
     resolving: BOOLEAN,        \* an answer with this bounds_generation will come
     variable: Variables,       \* selected_variable
     pair: Pairs,               \* x_axis and y_axis
     depth: Nat, cursor: Nat,   \* depth_index, depth_cursor
     levels: Nat \ {0},         \* depth_length
     formulas: [Formulas -> {"absent", "bad", "good"}],
     recalled: Formulas \cup {None}]

NoDialog(v) == v.overlay = None /\ ~v.search /\ ~v.help

\* ViewModel::input_mode.
Mode(v) ==
    IF v.search THEN "VariableSearch"
    ELSE IF v.overlay \in TextOverlays THEN "TextOverlay"
    ELSE IF v.overlay = "Plot" THEN "PlotOverlay"
    ELSE IF v.help THEN "Help"
    ELSE IF v.sidebar THEN "Sidebar"
    ELSE "Normal"

(* ---------------------------- variable lists --------------------------- *)

\* AppState::variables: a formula that does not evaluate yields no variable.
Listed(v) == Files \cup {f \in Formulas : v.formulas[f] = "good"}

\* filter_variables: the names that match the query, in order.
Visible(v) == Listed(v) \cap Matches[v.query]

Rank(S, n) == Cardinality({m \in S : m < n})
Nth(S, i) == CHOOSE n \in S : Rank(S, n) = i
AtMost(i, S) == IF i < Cardinality(S) THEN i ELSE Cardinality(S) - 1

\* The row of the browser that is marked, and that Enter takes.
Highlighted(v) == Nth(Visible(v), AtMost(v.row, Visible(v)))

\* Lines the names from m up to and including n take.
LinesFrom(S, m, n) == MapThenSumSet(LAMBDA k : Height[k], {k \in S : m <= k /\ k <= n})

\* (mutant) a name is taken to need one line.
WindowTopByEntries(v) ==
    LET h == Highlighted(v)
        fits == {m \in Visible(v) : m <= h /\ Rank(Visible(v), h) - Rank(Visible(v), m) < ListHeight}
    IN  IF fits = {} THEN h ELSE CHOOSE m \in fits : \A k \in fits : m <= k

\* visible_window_start: the earliest name from which the marked one still fits.
WindowTop(v) ==
    LET h == Highlighted(v)
        fits == {m \in Visible(v) : m <= h /\ LinesFrom(Visible(v), m, h) <= ListHeight}
    IN  IF fits = {} THEN h ELSE CHOOSE m \in fits : \A k \in fits : m <= k

\* The name on line y of the list, if there is one.
ShownAt(v, y) ==
    {n \in Visible(v) : /\ WindowTop(v) <= n
                        /\ y < ListHeight
                        /\ y < LinesFrom(Visible(v), WindowTop(v), n)
                        /\ y >= LinesFrom(Visible(v), WindowTop(v), n) - Height[n]}

(* ------------------------------ reducers ------------------------------- *)

\* bounded_index.
Within(i, length) == IF i < 0 THEN 0 ELSE IF i < length THEN i ELSE length - 1

\* AppState::select_variable, and the axes handle_command sets if it is another.
SelectedWith(v, n, pair) ==
    [v EXCEPT !.variable = n, !.pair = pair, !.search = FALSE, !.query = 0, !.row = 0,
              !.sidebar = FALSE, !.cursor = 0, !.resolving = FALSE]
Selected(v, n) == SelectedWith(v, n, IF n = v.variable THEN Named[n] ELSE Displayed[n])

\* The neighbour of the selected variable in the filtered list; if it is not
\* in there, the first entry for "previous" and the second for "next".
Neighbour(v, dir) ==
    LET S == Visible(v)
        beyond == {n \in S : IF dir < 0 THEN n < v.variable ELSE n > v.variable}
    IN  IF v.variable \notin S THEN Nth(S, AtMost(IF dir < 0 THEN 0 ELSE 1, S))
        ELSE IF beyond = {} THEN v.variable
        ELSE Nth(S, Rank(S, v.variable) + dir)

\* (mutant) the arrows select although the variable browser is open.
SteppedBeneathBrowser(v, dir) ==
    IF v.overlay \in {"CommandPalette", "Axis", "Plot"} \/ Visible(v) = {} THEN v
    ELSE Selected(v, Neighbour(v, dir))

\* Command::SelectVariable, also what the wheel over the sidebar sends.
Stepped(v, dir) ==
    IF v.search
    THEN IF Visible(v) = {} THEN v
         ELSE [v EXCEPT !.row = Within(AtMost(@, Visible(v)) + dir, Cardinality(Visible(v)))]
    ELSE IF v.overlay \in {"CommandPalette", "Axis", "Plot"} \/ Visible(v) = {} THEN v
    ELSE Selected(v, Neighbour(v, dir))

\* Command::SetDepth and Command::MoveDepth.
DepthSet(v, i) ==
    LET d == Within(i, v.levels) IN [v EXCEPT !.depth = d, !.cursor = d]

\* (mutant) the level list may run past its end.
CursorMovedPastEnd(v, delta) == [v EXCEPT !.cursor = Within(@ + delta, v.levels + 1)]

\* Command::MoveDepthCursor.
CursorMoved(v, delta) == [v EXCEPT !.cursor = Within(@ + delta, v.levels)]

\* (mutant) the help goes together with the overlay.
ClosedWithHelp(v) ==
    IF v.search THEN [v EXCEPT !.search = FALSE, !.query = 0, !.row = 0]
    ELSE [v EXCEPT !.overlay = None, !.help = FALSE,
                   !.drafts = @ \ {"limits", "axis", "bounds", "picker"}]

\* Command::Quit while something is open: one layer, the browser first.
Closed(v) ==
    IF v.search THEN [v EXCEPT !.search = FALSE, !.query = 0, !.row = 0]
    ELSE IF v.overlay = "PalettePicker"
    THEN [v EXCEPT !.overlay = None, !.drafts = @ \ {"picker"}]
    ELSE IF v.overlay # None
    THEN [v EXCEPT !.overlay = None, !.drafts = @ \ {"limits", "axis", "bounds"}]
    ELSE [v EXCEPT !.help = FALSE]

\* Command::CancelViewBounds draws a bounds generation, so a late answer is ignored.
BoundsCancelled(v) ==
    [v EXCEPT !.overlay = None, !.drafts = @ \ {"bounds"}, !.resolving = FALSE]

\* (mutant) the dialog opens without its draft.
OpenedWithoutDraft(v, o) ==
    [v EXCEPT !.overlay = o,
              !.help = @ /\ o \in {"Limits", "Filter", "Axis"},
              !.recalled = IF o = "Formula" THEN None ELSE @]

\* The commands that open an overlay; three of them leave the help open.
Opened(v, o) ==
    [v EXCEPT !.overlay = o,
              !.drafts = @ \cup DraftOf(o),
              !.help = @ /\ o \in {"Limits", "Filter", "Axis"},
              !.recalled = IF o = "Formula" THEN None ELSE @]

\* Command::OpenVariableSearch: the mark goes to the selected variable's
\* place in the whole list, whatever query is still there.
SearchOpened(v) ==
    [v EXCEPT !.help = FALSE, !.search = TRUE,
              !.row = IF v.variable \in Listed(v) /\ v.variable \in Matches[0]
                      THEN Rank(Listed(v) \cap Matches[0], v.variable) ELSE 0]

HelpToggled(v) == [v EXCEPT !.help = ~@]
SidebarToggled(v) ==
    [v EXCEPT !.sidebar = ~@, !.cursor = IF v.sidebar THEN @ ELSE v.depth]

\* What running an entry of the command palette leaves behind.  The entries
\* for files, for export and for interpolation are left to handle_command,
\* which never sees them, and do nothing.
PaletteRuns(v) ==
    LET c == [v EXCEPT !.overlay = None]
    IN  {c, HelpToggled(c), SidebarToggled(c), SearchOpened(c),
         [c EXCEPT !.drafts = @ \ {"limits"}]}
        \cup {Opened(c, o) : o \in TextOverlays \ {"CommandPalette"}}
        \cup {Stepped(c, d) : d \in {-1, 1}}
        \cup {DepthSet(c, c.depth + d) : d \in {-1, 1}}

(* ---------------------------- handle_command --------------------------- *)

Selection(v) == <<v.variable, v.depth, v.pair>>

\* load_selected: nothing if no source has the variable.
Loaded(v) ==
    IF v.variable \notin Listed(v) THEN v
    ELSE LET n == Levels[v.variable][v.pair]
             d == Within(v.depth, n)
         IN  [v EXCEPT !.levels = n, !.depth = d, !.cursor = d]

\* While the main loop runs: the command is reduced, and the plane is read
\* again if the command is on the reload list.
Reads(after) ==
    /\ running
    /\ view' = Loaded(after)
    /\ fresh' = \/ after.variable \in Listed(after)
                \/ fresh /\ Selection(view') = Selection(view)
    /\ UNCHANGED running
Only(after) ==
    /\ running
    /\ view' = after
    /\ fresh' = (fresh /\ Selection(after) = Selection(view))
    /\ UNCHANGED running

(* ------------------------------- keyboard ------------------------------ *)

\* q or Esc with nothing open leaves the main loop.
QuitKey ==
    \/ /\ Mode(view) \in {"Help", "PlotOverlay"}
       /\ Only(Closed(view))
    \/ /\ Mode(view) = "Normal"
       /\ running
       /\ running' = FALSE
       /\ UNCHANGED <<view, fresh>>

Esc ==
    \/ QuitKey
    \/ /\ \/ Mode(view) = "VariableSearch"
          \/ (Mode(view) = "TextOverlay" /\ view.overlay # "ViewBounds")
       /\ Only(Closed(view))
    \/ /\ Mode(view) = "TextOverlay" /\ view.overlay = "ViewBounds"
       /\ Only(BoundsCancelled(view))
    \/ /\ Mode(view) = "Sidebar"
       /\ Only(SidebarToggled(view))

CtrlP ==
    /\ Mode(view) \in {"VariableSearch", "TextOverlay", "Normal"}
    /\ Only(Opened(view, "CommandPalette"))

\* Characters: the field that takes them is chosen by the reducer, which looks
\* at the overlay before it looks at the variable browser.
Type ==
    /\ Mode(view) \in {"VariableSearch", "TextOverlay"}
    /\ \/ /\ view.overlay = "Formula"
          /\ Only([view EXCEPT !.recalled = None])
       \/ /\ view.overlay = None /\ view.query < MaxQuery
          /\ Only([view EXCEPT !.query = @ + 1, !.row = 0])

Erase ==
    /\ Mode(view) \in {"VariableSearch", "TextOverlay"}
    /\ \/ /\ view.overlay = "Formula"
          /\ Only([view EXCEPT !.recalled = None])
       \/ /\ view.overlay = None
          /\ Only([view EXCEPT !.query = Within(@ - 1, MaxQuery + 1), !.row = 0])

Arrow ==
    \E dir \in {-1, 1} :
        \/ /\ Mode(view) \in {"VariableSearch", "Normal"}
           /\ Reads(Stepped(view, dir))
        \/ /\ Mode(view) = "TextOverlay" /\ view.overlay = "Formula"
           /\ \E f \in Formulas : /\ view.formulas[f] # "absent"
                                  /\ Only([view EXCEPT !.recalled = f])
        \/ /\ Mode(view) = "Sidebar"
           /\ \E step \in {1, 7} : Only(CursorMoved(view, dir * step))

\* (mutant) MoveDepth is missing on the reload list.
DepthKeyUnread ==
    /\ Mode(view) = "Normal"
    /\ \E dir \in {-1, 1} : Only(DepthSet(view, view.depth + dir))

\* [ and ] outside the sidebar.
DepthKey ==
    /\ Mode(view) = "Normal"
    /\ \E dir \in {-1, 1} : Reads(DepthSet(view, view.depth + dir))

TabKey ==
    /\ Mode(view) \in {"Sidebar", "Normal"}
    /\ Only(SidebarToggled(view))

\* The letters that open something.
Shortcut ==
    /\ Mode(view) = "Normal"
    /\ \/ \E o \in Overlays \ {"ViewBounds"} : Only(Opened(view, o))
       \/ Only(SearchOpened(view))
       \/ Only(HelpToggled(view))

ResetVariableView ==
    /\ Mode(view) = "Normal"
    /\ Reads([view EXCEPT !.depth = 0, !.cursor = 0, !.pair = Named[view.variable],
                          !.drafts = @ \ {"limits", "axis", "picker"}])

\* Time, limits, scale and zoom: the plane is read again.
Redraw == NoDialog(view) /\ Reads(view)

\* select_initial_variable: the choice goes by the number of dimensions.
Initially(v) == {[v EXCEPT !.variable = n, !.pair = Displayed[n]] : n \in Listed(v)}

\* { and }: the state is replaced, the formulas are kept.
SwitchFile ==
    /\ Mode(view) = "Normal"
    /\ \E after \in Initially([view EXCEPT !.depth = 0, !.cursor = 0, !.query = 0, !.row = 0,
                                          !.drafts = {}, !.recalled = None,
                                          !.resolving = FALSE]) : Reads(after)

(* ---------------------- Enter, and Delete in formulas ------------------ *)

SubmitVariableSearch ==
    /\ Mode(view) = "VariableSearch"
    /\ Reads(IF Visible(view) = {} THEN [view EXCEPT !.search = FALSE]
             ELSE Selected(view, Highlighted(view)))

\* The entry under the mark, or none if no entry matches what was typed.
ExecuteCommandPalette ==
    /\ Mode(view) = "TextOverlay" /\ view.overlay = "CommandPalette"
    /\ \E after \in PaletteRuns(view) \cup {view} : Reads(after)

CommitPalettePicker ==
    /\ Mode(view) = "TextOverlay" /\ view.overlay = "PalettePicker"
    /\ Only(Closed(view))

\* The dialog stays open when the numbers do not parse or are out of order.
ApplyLimitDraft ==
    /\ Mode(view) = "TextOverlay" /\ view.overlay \in {"Limits", "Filter"}
    /\ "limits" \in view.drafts
    /\ Only([view EXCEPT !.overlay = None, !.drafts = @ \ {"limits"}])

\* The dialog stays open until the answer arrives (see BoundsResolution).
ApplyViewBounds ==
    /\ Mode(view) = "TextOverlay" /\ view.overlay = "ViewBounds"
    /\ "bounds" \in view.drafts
    /\ Only([view EXCEPT !.resolving = TRUE])

\* SetAxes is refused for a pair the variable does not have; the plane is
\* read again in either case.
SetAxes ==
    /\ Mode(view) = "TextOverlay" /\ view.overlay = "Axis"
    /\ \/ /\ "axis" \in view.drafts
          /\ \E p \in Pairs :
                Reads([view EXCEPT !.pair = p, !.overlay = None, !.drafts = @ \ {"axis"}])
       \/ Reads(view)

\* SubmitFormula and apply_formula_changes.  A formula that parses replaces
\* the one of that name, evaluates or not, and is selected if it does.
SubmitFormula ==
    /\ Mode(view) = "TextOverlay" /\ view.overlay = "Formula"
    /\ \E f \in Formulas, result \in {"good", "bad"} :
          LET stored == [view EXCEPT !.formulas[f] = result, !.recalled = None, !.overlay = None]
          IN  IF result = "good" THEN Reads(SelectedWith(stored, f, Named[f]))
              ELSE Only(stored)

\* If the selected variable is gone, select_initial_variable picks another.
RemoveFormula ==
    /\ Mode(view) = "TextOverlay" /\ view.overlay = "Formula"
    /\ view.recalled # None
    /\ LET left == [view EXCEPT !.formulas[view.recalled] = "absent", !.recalled = None]
       IN  IF left.variable \in Listed(left) THEN Only(left)
           ELSE \E after \in Initially(left) : Reads(after)

ApplyDepthCursor ==
    /\ Mode(view) = "Sidebar"
    /\ Reads(DepthSet(view, view.cursor))

ActivatePoint ==
    /\ Mode(view) = "Normal"
    /\ Only(Opened(view, "Plot"))

Keyboard ==
    \/ Esc \/ CtrlP \/ Type \/ Erase \/ Arrow \/ DepthKey \/ TabKey \/ Shortcut
    \/ ResetVariableView \/ Redraw \/ SwitchFile \/ SubmitVariableSearch \/ ExecuteCommandPalette \/ CommitPalettePicker
    \/ ApplyLimitDraft \/ ApplyViewBounds \/ SetAxes \/ SubmitFormula \/ RemoveFormula
    \/ ApplyDepthCursor \/ ActivatePoint

(* --------------------------------- mouse ------------------------------- *)

\* The right button, whatever is open.
RightClick == Only(HelpToggled(view))

\* The close button of the topmost popup, or anywhere outside it.
ClickOutside ==
    \/ /\ view.search \/ (view.overlay # None /\ ~view.help)
       /\ Only(Closed(view))
    \/ /\ ~view.search /\ view.help
       /\ Only(HelpToggled(view))

\* A click on line y of the variable browser: SelectVariableAt(y).
ClickBrowserLine(y) ==
    /\ view.search
    /\ y < ListHeight /\ y < Cardinality(Visible(view))
    /\ Reads(Selected(view, Nth(Visible(view), y)))

\* A click on an entry of the command palette: ExecutePaletteChoice.
ClickPaletteEntry ==
    /\ view.overlay = "CommandPalette" /\ ~view.search /\ ~view.help
    /\ \E after \in PaletteRuns(view) : Only(after)

\* The level bar is there as long as the last plane read has levels.  Seeking
\* by drag and by wheel is not stopped by dialogs.
SeekLevel ==
    /\ view.levels > 1
    /\ \/ \E i \in 0..(view.levels - 1) : Reads(DepthSet(view, i))
       \/ \E dir \in {-1, 1} : Reads(DepthSet(view, view.depth + dir))

Wheel == \E dir \in {-1, 1} : Reads(Stepped(view, dir))

\* The buttons of the sidebar, when nothing covers it.
ClickSidebar ==
    /\ NoDialog(view)
    /\ \/ \E o \in {"Limits", "Filter", "Axis"} : Only(Opened(view, o))
       \/ Only(SearchOpened(view))

Mouse ==
    \/ RightClick \/ ClickOutside \/ (\E y \in 0..ListHeight : ClickBrowserLine(y))
    \/ ClickPaletteEntry \/ SeekLevel \/ Wheel \/ ClickSidebar

\* accept_view_bounds, with the current generation.
BoundsArrive ==
    /\ view.resolving
    /\ \/ Only([view EXCEPT !.drafts = @ \ {"bounds"}, !.resolving = FALSE,
                            !.overlay = IF @ = "ViewBounds" THEN None ELSE @])
       \/ Only([view EXCEPT !.resolving = FALSE])

\* The program has ended.
Ended == ~running /\ UNCHANGED vars

Init ==
    /\ \E n \in Files :
        view = [overlay |-> None, search |-> FALSE, help |-> FALSE, sidebar |-> FALSE,
                query |-> 0, row |-> 0, drafts |-> {}, resolving |-> FALSE,
                variable |-> n, pair |-> Displayed[n], depth |-> 0, cursor |-> 0,
                levels |-> Levels[n][Displayed[n]],
                formulas |-> [f \in Formulas |-> "absent"], recalled |-> None]
    /\ fresh = TRUE
    /\ running = TRUE

Next == Keyboard \/ Mouse \/ BoundsArrive \/ Ended

Spec == Init /\ [][Next]_vars

(* ------------------------------ properties ----------------------------- *)

TypeOK ==
    /\ view \in Views
    /\ fresh \in BOOLEAN
    /\ running \in BOOLEAN

\* An open dialog has the draft it edits, whatever was opened over it, closed
\* by an answer or dismissed before: without it the dialog is drawn but takes
\* neither text nor Enter (app.rs, reduce_text_input).
HasDraft(v) == v.overlay # None => DraftOf(v.overlay) \subseteq v.drafts
DraftBehindDialog == HasDraft(view)

\* The level shown and the one marked in the list exist: depth_length belongs
\* to the last plane read and bounds both (app.rs, bounded_index).
OnLevel(v) == v.depth < v.levels /\ v.cursor < v.levels
LevelInRange == OnLevel(view)

\* However far the mark was moved and however long the names are, the marked
\* name is on screen (popup.rs, visible_window_start).
HighlightShown ==
    view.search /\ Visible(view) # {} /\ Height[Highlighted(view)] <= ListHeight =>
        \E y \in 0..ListHeight : Highlighted(view) \in ShownAt(view, y)

\* Esc takes down one layer at a time, and ends the program only when there is
\* none (docs/reference/keyboard.md: "Esc closes a dialog first").
Layers(v) ==
    (IF v.search THEN 1 ELSE 0) + (IF v.overlay # None THEN 1 ELSE 0) + (IF v.help THEN 1 ELSE 0)
EscClosesOne ==
    [][/\ Esc => IF Layers(view) = 0 THEN view.sidebar \/ ~running'
                 ELSE Layers(view') = Layers(view) - 1 /\ running'
       /\ Mouse => running']_vars

\* Keys other than Enter and Delete change nothing beneath a dialog, as long as
\* the plane of what is selected has been asked for.
DialogsAreModal ==
    [][(Esc \/ CtrlP \/ Type \/ Erase \/ Arrow \/ TabKey) /\ ~NoDialog(view) /\ fresh
            => Selection(view') = Selection(view)]_vars

\* What is selected has been asked for: a command that changes the selection is
\* on the reload list of handle_command under the name it is sent as.  A click
\* in the command palette is not, and a formula that stopped evaluating cannot
\* be read.
SelectionIsRequested ==
    [][fresh => \/ fresh'
                \/ ClickPaletteEntry
                \/ view'.variable \notin Listed(view')]_vars

\* The selected variable stays in the list unless its own formula is replaced
\* by one that does not evaluate (main.rs, apply_formula_changes).
SelectedStaysListed ==
    [][view.variable \in Listed(view) =>
            \/ view'.variable \in Listed(view')
            \/ SubmitFormula /\ view'.variable \in Formulas /\ view'.overlay = None]_vars

\* popup.rs: "a click or Enter always resolves to the row that is shown".
ResolvesToShownRow ==
    [][\A y \in 0..ListHeight :
            ClickBrowserLine(y) /\ ShownAt(view, y) # {} => view'.variable \in ShownAt(view, y)]_vars
=============================================================================
