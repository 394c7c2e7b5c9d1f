------------------------------- MODULE Screen -------------------------------
(***************************************************************************)
(* What is drawn on a cell of the terminal, and what a click on that cell  *)
(* does: the layout of src/ui/layout.rs, the boxes of src/ui/sidebar.rs,   *)
(* src/ui/level.rs and src/ui/timeline.rs, the dialogs of src/ui/popup.rs  *)
(* and src/ui/help.rs, against translate_mouse and its helpers in          *)
(* src/main.rs.  Drawing and hit-testing are separate functions in seven   *)
(* files; a control is where both agree on it.                             *)
(*                                                                         *)
(* A control is a label with the commands it stands for, told without a    *)
(* look at the handler: that of the key the label names (normal_command),  *)
(* of the row, or of the length of a bar.  Where the handler does          *)
(* something else, the property names it.  The map between sidebar and     *)
(* legend is the subject of the module MapCells.  What a command does is   *)
(* kept as far as it changes what is drawn; Dialogs has the rest.          *)
(***************************************************************************)
EXTENDS Integers, Sequences, FiniteSets, FiniteSetsExt

CONSTANTS
    Terminals,  \* sizes of the terminal, [w: columns, h: rows]
    Lengths,    \* lengths of the level axis of a variable
    NumTimes,   \* time_length
    NumEntries, \* variables in the browser, each of one line
    NumRuns,    \* entries of the command palette
    Nothing     \* no dialog is open

VARIABLES
    terminal, \* terminal.size()
    screen,   \* the fields of ViewModel that are drawn
    last      \* the last use of the mouse: what was drawn there, what was sent

screenVars == <<terminal, screen, last>>

Large == {"CommandPalette", "Plot", "Formula"}
Boxed == Large \cup {"Limits", "Filter", "Axis", "PalettePicker", "ViewBounds"}

ASSUME ScreenAssumption ==
    /\ \A t \in Terminals : t.w \in Nat /\ t.h \in Nat /\ t.h >= 14
    /\ Lengths \subseteq Nat \ {0}
    /\ NumTimes \in Nat \ {0} /\ NumEntries \in Nat /\ NumRuns \in Nat
    /\ Nothing \notin Boxed

(* ------------------------------ rectangles ----------------------------- *)

Lesser(a, b) == IF a < b THEN a ELSE b
\* saturating_sub
Less(a, b) == IF a < b THEN 0 ELSE a - b

Rect(x, y, w, h) == [x |-> x, y |-> y, w |-> w, h |-> h]
Inside(r, x, y) == x >= r.x /\ x < r.x + r.w /\ y >= r.y /\ y < r.y + r.h
\* Without the border.
Inner(r) == Rect(r.x + 1, r.y + 1, Less(r.w, 2), Less(r.h, 2))

\* A share of the terminal, in its middle.
Share(t, p, q, m, n) ==
    LET w == (t.w * p) \div q
        h == (t.h * m) \div n
    IN  Rect((t.w - w) \div 2, (t.h - h) \div 2, w, h)

(* --------------------------- layout of a screen ------------------------ *)

HasLevels(s) == s.levels > 1

\* layout::dashboard, from the bottom: status, time, level, body, header.
Timeline(t) == Rect(0, t.h - 4, t.w, 3)
LevelBand(t) == Rect(0, t.h - 7, t.w, 3)
BodyHeight(t, s) == t.h - 6 - (IF HasLevels(s) THEN 3 ELSE 0)
Sidebar(t, s) == Rect(0, 2, 32, BodyHeight(t, s))
Canvas(t, s) == Rect(32, 2, t.w - 62, BodyHeight(t, s))
\* Where the three columns do not fit, what the layout gives them is not modelled.
IsWide(t) == t.w >= 63

\* sidebar_boxes: fixed heights, and as its comment says the last boxes are clipped.
\* (A test's comment says that all are squeezed; both readers of the layout would see it.)
BoxHeight(s) == [file |-> 5, controls |-> 6, variables |-> 13, dimensions |-> 7,
                 level |-> IF HasLevels(s) THEN 6 ELSE 0, scale |-> 9]
BoxOrder == <<"file", "controls", "variables", "dimensions", "level", "scale">>
Stacked(s) == [k \in DOMAIN BoxOrder |-> BoxHeight(s)[BoxOrder[k]]]
Box(t, s, name) ==
    LET i   == CHOOSE k \in DOMAIN BoxOrder : BoxOrder[k] = name
        top == Lesser(MapThenSumSet(LAMBDA k : Stacked(s)[k], 1..(i - 1)),
                      BodyHeight(t, s))
    IN  Rect(0, 2 + top, 32, Lesser(BoxHeight(s)[name], BodyHeight(t, s) - top))

\* level_section: a border, the readout, the stepper, the list, a border.
ListRows(t, s) == Less(Box(t, s, "level").h, 4)
HasList(t, s) == HasLevels(s) /\ ListRows(t, s) > 0
Stepper(t, s) == Box(t, s, "level").y + 2
ListTop(t, s) == Box(t, s, "level").y + 3

\* level_window: the first level of the list, which is centred on the cursor.
LevelTop(s, rows) ==
    LET len == Lesser(rows, s.levels)
        top == Lesser(Less(s.cursor, len \div 2), s.levels - len)
    IN  IF s.cursor >= top + len THEN Lesser(Less(s.cursor + 1, len), s.levels - len) ELSE top

BrowserRect(t) == Share(t, 4, 5, 4, 5)
HelpRect(t) == Share(t, 3, 4, 3, 5)
BoxedRect(t, o) == IF o \in Large THEN Share(t, 3, 4, 3, 5) ELSE Share(t, 3, 5, 2, 5)

\* overlay_popup_rect: two dialogs take a small terminal as a whole.
TakesAll(t, o) ==
    \/ o = "PalettePicker" /\ (t.w < 54 \/ t.h < 12)
    \/ o = "ViewBounds" /\ (t.w < 52 \/ t.h < 14)
DrawnRect(t, o) ==
    IF TakesAll(t, o) THEN Rect(0, 0, t.w, t.h)
    ELSE BoxedRect(t, IF o = "PalettePicker" THEN "Plot" ELSE o)

(* ------------------------------- controls ------------------------------ *)

Command(name, arg) == [name |-> name, arg |-> arg]
Plain(name) == Command(name, 0)
Ignored == Plain("Pointer")

\* "edge": a cell at the edge of what is drawn, on which nothing is claimed.
Control(label, commands, edge) == [label |-> label, does |-> commands, edge |-> edge]
Sends(label, command) == {Control(label, {command}, FALSE)}

\* A label ends in a word; the cells before the last three are its edge.
Button(name, from, to) ==
    [does |-> Plain(name), first |-> from, word |-> to - 2, end |-> to]

\* The labels in the Controls box: the command of the key each names, and its cells.
Buttons == <<
    << Button("OpenPalettePicker", 1, 7), Button("TogglePaletteReverse", 9, 15),
       Button("AutomaticLimits", 17, 24) >>,
    << Button("OpenLimits", 1, 7), Button("OpenFilter", 9, 15), Button("OpenAxisOverlay", 17, 24) >>,
    << Button("ResetZoom", 1, 9), Button("DateBack", 11, 18), Button("DateForward", 20, 27) >>,
    << Button("DecreasePlaybackSpeed", 1, 6), Button("IncreasePlaybackSpeed", 8, 13),
       Button("ToggleColorScaleScope", 15, 22) >> >>

\* render_controls_box.
ButtonsAt(t, s, x, y) ==
    LET row == y - Box(t, s, "controls").y
    IN  {Control("button", {Buttons[row][i].does}, x < Buttons[row][i].word) :
            i \in {k \in 1..3 : row \in 1..4 /\ x \in Buttons[row][k].first..Buttons[row][k].end}}

\* What a row of a box offers: file, variables and scale.
RowsOf(name, row) ==
    CASE name = "file" /\ row = 2 -> Sends("row", Plain("CyclePalette"))
      [] name = "file" /\ row = 3 -> Sends("row", Plain("ToggleScale"))
      [] name = "variables" -> Sends("row", Plain("OpenVariableSearch"))
      [] name = "scale" /\ row = 1 -> Sends("row", Plain("OpenLimits"))
      [] name = "scale" /\ row = 2 -> Sends("row", Plain("OpenFilter"))
      [] name = "scale" /\ row = 7 -> Sends("row", Plain("ToggleColorScaleScope"))
      [] OTHER -> {}

\* render_level_box: "Prev" and "Next" side by side, then the levels.
LevelBoxAt(t, s, x, y) ==
    LET row == y - ListTop(t, s)
    IN  IF ~HasList(t, s) THEN {}
        ELSE IF y = Stepper(t, s)
        THEN IF x \in 1..6 THEN Sends("step", Command("MoveDepth", -1))
             ELSE IF x \in 9..14 THEN Sends("next", Command("MoveDepth", 1))
             ELSE {}
        ELSE IF row \in 0..(Lesser(ListRows(t, s), s.levels) - 1)
        THEN Sends("level", Command("SetDepth", LevelTop(s, ListRows(t, s)) + row))
        ELSE {}

SidebarAt(t, s, x, y) ==
    UNION {IF ~Inside(Inner(Box(t, s, name)), x, y) THEN {}
           ELSE IF name = "controls" THEN ButtonsAt(t, s, x, y)
           ELSE IF name = "level" THEN LevelBoxAt(t, s, x, y)
           ELSE RowsOf(name, y - Box(t, s, name).y) : name \in DOMAIN BoxHeight(s)}

\* Gauge: cells of a bar of n values that are filled for value i, rounded.
Filled(w, n, i) == (2 * w * i + n - 1) \div (2 * (n - 1))

\* A bar asks for the value at which it would end where the pointer is.
BarAt(r, label, name, n, x, edge) ==
    LET w   == r.w - 2
        pos == x - r.x - 1
        ends == {i \in 0..(n - 1) : /\ Filled(w, n, i) <= pos + 1
                                    /\ i = n - 1 \/ Filled(w, n, i + 1) >= pos}
    IN  {Control(label, {Command(name, i) : i \in ends}, edge)}

\* timeline::render: a title with a button, the speeds at its right end, a bar, whose
\* edges are below these labels.
TimelineAt(t, s, x, y) ==
    LET r == Timeline(t)
    IN  IF y = r.y
        THEN IF x \in 12..21 THEN Sends("play", Plain("TogglePlayback"))
             ELSE IF x \in (t.w - 25)..(t.w - 16)
             THEN {Control("speed", {Plain("DecreasePlaybackSpeed")}, x < t.w - 18)}
             ELSE IF x \in (t.w - 13)..(t.w - 3)
             THEN {Control("speed", {Plain("IncreasePlaybackSpeed")}, x < t.w - 5)}
             ELSE {}
        ELSE IF Inside(Inner(r), x, y) /\ NumTimes > 1
        THEN BarAt(r, "date", "SetTime", NumTimes, x, x <= 21 \/ x >= t.w - 25)
        ELSE {}

DashboardAt(t, s, x, y) ==
    IF ~IsWide(t) THEN {}
    ELSE IF HasLevels(s) /\ Inside(Inner(LevelBand(t)), x, y)
    THEN BarAt(LevelBand(t), "bar", "SetDepth", s.levels, x, FALSE)
    ELSE IF Inside(Timeline(t), x, y) THEN TimelineAt(t, s, x, y)
    ELSE SidebarAt(t, s, x, y)

\* " × close ", at the right end of the upper border.
CloseAt(r, x, y) == y = r.y /\ x >= r.x + r.w - 10 /\ x <= r.x + r.w - 2

\* visible_window_start, for names of one line: the marked one is the last.
BrowserRows(t) == Less(BrowserRect(t).h, 6)
BrowserTop(t, s) == Less(s.row + 1, BrowserRows(t))

\* render_variable_browser: search line, blank line, names, counts.
BrowserAt(t, s, x, y) ==
    LET row == y - BrowserRect(t).y - 3
    IN  IF Inside(Inner(BrowserRect(t)), x, y) /\ row \in 0..(BrowserRows(t) - 1)
           /\ BrowserTop(t, s) + row < NumEntries
        THEN {Control("entry", {Command("SelectVariableAt", BrowserTop(t, s) + row)},
                      BrowserTop(t, s) > 0)}
        ELSE {}

\* render_plot: the kinds in a line, with the columns their labels take.  Below the
\* controls the chart takes five rows first, whatever is left of a small dialog.
PlotRows(r) == 2..(Lesser(7, Less(r.h, 7)) - 1)
KindLeft == <<6, 23, 36, 51, 60>>
KindRight == <<20, 33, 48, 57, 70>>
KindsAt(r, column) ==
    UNION {Sends("kind", Command("SetPlotKind", i)) :
        i \in {k \in 1..5 : column \in KindLeft[k]..KindRight[k]}}

\* The rows of a dialog that react to a click.
DialogAt(t, o, x, y) ==
    LET r   == DrawnRect(t, o)
        row == y - r.y
        column == x - r.x - 2
    IN  IF ~Inside(Inner(r), x, y) THEN {}
        ELSE CASE o \in {"Limits", "Filter"} /\ row \in {1, 2} ->
                    Sends("field", Command("FocusLimitField", row))
               [] o = "Axis" /\ row \in {1, 2} -> Sends("field", Command("FocusAxisField", row))
               [] o = "CommandPalette" /\ row - 3 \in 0..(NumRuns - 1) ->
                    Sends("entry", Command("ExecutePaletteChoice", row - 3))
               [] o = "Plot" /\ row = 2 /\ row \in PlotRows(r) /\ column < r.w - 4 ->
                    KindsAt(r, column)
               [] o = "Plot" /\ row \in {4, 5} \cap PlotRows(r) ->
                    Sends("field", Command("FocusPlotAxis", row - 3))
               [] OTHER -> {}

\* popup::render, then help::render: the help covers the rest.
Top(s) ==
    IF s.help THEN "help" ELSE IF s.search THEN "browser"
    ELSE IF s.overlay # Nothing THEN "dialog" ELSE "dashboard"

RectOf(t, s, layer) ==
    CASE layer = "help" -> HelpRect(t)
      [] layer = "browser" -> BrowserRect(t)
      [] layer = "dialog" -> DrawnRect(t, s.overlay)

\* What is drawn on a cell of the layer on top.
DrawnAt(t, s, x, y) ==
    LET layer == Top(s)
    IN  IF layer = "dashboard" THEN DashboardAt(t, s, x, y)
        ELSE IF CloseAt(RectOf(t, s, layer), x, y)
        THEN Sends("close", Plain(IF layer = "help" THEN "ToggleHelp" ELSE "Quit"))
        ELSE IF layer = "browser" THEN BrowserAt(t, s, x, y)
        ELSE IF layer = "dialog" THEN DialogAt(t, s.overlay, x, y)
        ELSE {}

(* ----------------------------- translation ----------------------------- *)

\* (mutant) every dialog has the size of the small ones.
OverlayRectSmall(t, o) ==
    IF o = "PalettePicker" THEN DrawnRect(t, o) ELSE Share(t, 3, 5, 2, 5)

\* overlay_rect: the rectangle clicks are measured by.
OverlayRect(t, o) ==
    IF o = "PalettePicker" THEN DrawnRect(t, o) ELSE BoxedRect(t, o)

\* close_button_hit, and a click beside the popup.
Leaves(r, x, y) ==
    \/ r.w >= 4 /\ y = r.y /\ x >= r.x + r.w - 10 /\ x < r.x + r.w
    \/ ~Inside(r, x, y)

\* depth_index_at, and the same for times.
ValueAt(r, n, x) ==
    LET start == r.x + 1
        end   == r.x + r.w - 2
        pos   == Max({start, Lesser(x, end)}) - start
    IN  (pos * (n - 1)) \div Max({end - start, 1})

\* translate_variable_browser_click.
BrowserClick(t, x, y) ==
    LET index == y - BrowserRect(t).y - 3
    IN  IF Leaves(BrowserRect(t), x, y) THEN Plain("Quit")
        ELSE IF index \in 0..(NumEntries - 1) THEN Command("SelectVariableAt", index)
        ELSE Ignored

\* translate_help_click.
HelpClick(t, x, y) == IF Leaves(HelpRect(t), x, y) THEN Plain("ToggleHelp") ELSE Ignored

\* translate_plot_overlay_click: the kind of a fifth of the line.
FifthOf(r, column) ==
    LET fifth == Max({(r.w - 4) \div 5, 1}) IN Lesser(column \div fifth, 4) + 1

\* translate_overlay_mouse and the four functions it calls.
OverlayClick(t, o, x, y) ==
    LET r   == OverlayRect(t, o)
        row == y - r.y
        content == r.x + 2
    IN  CASE Leaves(r, x, y) -> Plain("Quit")
          [] ~Leaves(r, x, y) /\ o = "CommandPalette" /\ row - 3 \in 0..(NumRuns - 1) ->
                Command("ExecutePaletteChoice", row - 3)
          [] ~Leaves(r, x, y) /\ o \in {"Limits", "Filter"} /\ row \in {1, 2} ->
                Command("FocusLimitField", row)
          [] ~Leaves(r, x, y) /\ o = "Axis" /\ row \in {1, 2} -> Command("FocusAxisField", row)
          [] ~Leaves(r, x, y) /\ o = "Plot" /\ row = 2 /\ x >= content /\ x < r.x + r.w - 1 ->
                Command("SetPlotKind", FifthOf(r, x - content))
          [] ~Leaves(r, x, y) /\ o = "Plot" /\ row \in {4, 5} ->
                Command("FocusPlotAxis", row - 3)
          [] OTHER -> Ignored

\* translate_mouse_position, for a click on the bar of times.
TimelineClick(t, s, x) ==
    IF x <= 7 THEN Plain("TogglePlayback")
    ELSE IF x >= t.w - 23
    THEN Plain(IF x < t.w - 12 THEN "DecreasePlaybackSpeed" ELSE "IncreasePlaybackSpeed")
    ELSE Command("SetTime", ValueAt(Timeline(t), NumTimes, x))

\* (mutant) the window keeps the first level it is built with.
LevelUnderUnscrolled(t, s, y) == y - ListTop(t, s)

\* level_at, on the window level_geometry computes.
LevelUnder(t, s, y) == LevelTop(s, ListRows(t, s)) + y - ListTop(t, s)

InBox(t, s, name, y) == LET b == Box(t, s, name) IN y >= b.y /\ y < b.y + b.h

\* A row of the Controls box in thirds.
ThirdOf(x) == Lesser(x \div (32 \div 3), 2) + 1
ControlsRow(row) ==
    CASE row = 1 -> <<"CyclePalette", "TogglePaletteReverse", "AutomaticLimits">>
      [] row = 2 -> <<"OpenLimits", "OpenFilter", "OpenAxisOverlay">>
      [] row = 3 -> <<"ResetZoom", "DateBack", "DateForward">>
      [] row = 4 -> <<"DecreasePlaybackSpeed", "IncreasePlaybackSpeed", "ToggleColorScaleScope">>

\* translate_sidebar_position.
SidebarClick(t, s, x, y) ==
    LET row == y - Box(t, s, "controls").y
        half == 30 \div 2
        FileRow == CASE y - Box(t, s, "file").y = 2 -> Plain("CyclePalette")
                     [] y - Box(t, s, "file").y = 3 -> Plain("ToggleScale")
                     [] OTHER -> Ignored
        ScaleRow == CASE y - Box(t, s, "scale").y = 1 -> Plain("OpenLimits")
                      [] y - Box(t, s, "scale").y = 2 -> Plain("OpenFilter")
                      [] y - Box(t, s, "scale").y = 7 -> Plain("ToggleColorScaleScope")
                      [] OTHER -> Ignored
    IN  IF InBox(t, s, "file", y) THEN FileRow
        ELSE IF InBox(t, s, "controls", y)
        THEN IF row \in 1..4 THEN Plain(ControlsRow(row)[ThirdOf(x)]) ELSE Ignored
        ELSE IF InBox(t, s, "variables", y) THEN Plain("OpenVariableSearch")
        ELSE IF HasList(t, s) /\ y = Stepper(t, s)
        THEN IF x \in 1..half THEN Command("MoveDepth", -1)
             ELSE IF x \in (half + 1)..(2 * half) THEN Command("MoveDepth", 1)
             ELSE Ignored
        ELSE IF HasList(t, s) /\ y - ListTop(t, s) \in 0..(ListRows(t, s) - 1)
        THEN Command("SetDepth", LevelUnder(t, s, y))
        ELSE IF InBox(t, s, "scale", y) THEN ScaleRow
        ELSE Ignored

\* translate_mouse_position.
ClickAt(t, s, x, y) ==
    IF s.search THEN BrowserClick(t, x, y)
    ELSE IF s.help THEN HelpClick(t, x, y)
    ELSE IF s.overlay # Nothing THEN OverlayClick(t, s.overlay, x, y)
    ELSE IF HasLevels(s) /\ Inside(LevelBand(t), x, y)
    THEN Command("SetDepth", ValueAt(LevelBand(t), s.levels, x))
    ELSE IF Inside(Canvas(t, s), x, y) THEN Plain("SelectPoint")
    ELSE IF Inside(Timeline(t), x, y) THEN TimelineClick(t, s, x)
    ELSE IF Inside(Sidebar(t, s), x, y) THEN SidebarClick(t, s, x, y)
    ELSE Ignored

\* translate_scroll: from the border of the Level box to the end of its list.
WheelAt(t, s, x, y, delta) ==
    IF HasLevels(s) /\ Inside(LevelBand(t), x, y) THEN Command("MoveDepth", delta)
    ELSE IF ~Inside(Sidebar(t, s), x, y) THEN Ignored
    ELSE IF /\ HasList(t, s)
            /\ y >= Box(t, s, "level").y /\ y < ListTop(t, s) + ListRows(t, s)
    THEN Command("MoveDepth", delta)
    ELSE Command("SelectVariable", delta)

(* ------------------------------- reducers ------------------------------ *)

Bounded(i, n) == IF i < 0 THEN 0 ELSE Lesser(i, n - 1)
AtLevel(s, i) == [s EXCEPT !.level = Bounded(i, s.levels), !.cursor = Bounded(i, s.levels)]
Overlaid(s, o) == [s EXCEPT !.overlay = o, !.help = @ /\ o \in {"Limits", "Filter", "Axis"}]
Searching(s) == [s EXCEPT !.search = TRUE, !.help = FALSE, !.row = 0]

\* Command::Quit: the browser, then the overlay, then the help.
QuitOne(s) ==
    IF s.search THEN [s EXCEPT !.search = FALSE, !.row = 0]
    ELSE IF s.overlay # Nothing THEN [s EXCEPT !.overlay = Nothing]
    ELSE [s EXCEPT !.help = FALSE]

\* A variable selected may have another number of levels.
Chosen(s) == {AtLevel([s EXCEPT !.search = FALSE, !.row = 0, !.levels = n], s.level) : n \in Lengths}

\* The overlays that take the wheel; beneath the others it chooses a variable.
TakeTheWheel == {"CommandPalette", "Axis", "Plot"}

\* AppState::reduce, as far as it changes what is drawn.  The entry run by the palette
\* is left out.
Reduced(s, c) ==
    CASE c.name = "SetDepth" -> {AtLevel(s, c.arg)}
      [] c.name = "MoveDepth" -> {AtLevel(s, s.level + c.arg)}
      [] c.name = "OpenLimits" -> {Overlaid(s, "Limits")}
      [] c.name = "OpenFilter" -> {Overlaid(s, "Filter")}
      [] c.name = "OpenAxisOverlay" -> {Overlaid(s, "Axis")}
      [] c.name = "OpenVariableSearch" -> {Searching(s)}
      [] c.name = "Quit" -> {QuitOne(s)}
      [] c.name = "ToggleHelp" -> {[s EXCEPT !.help = ~@]}
      [] c.name = "ExecutePaletteChoice" -> {[s EXCEPT !.overlay = Nothing]}
      [] c.name = "SelectVariableAt" -> Chosen(s)
      [] c.name = "SelectVariable" /\ s.search ->
            {[s EXCEPT !.row = Bounded(@ + c.arg, NumEntries)]}
      [] c.name = "SelectVariable" /\ ~s.search /\ s.overlay \notin TakeTheWheel -> Chosen(s)
      [] OTHER -> {s}

\* What is open.
Open(s) ==
    {l \in {"help", "browser", "dialog"} :
        CASE l = "help" -> s.help
          [] l = "browser" -> s.search
          [] l = "dialog" -> s.overlay # Nothing}

(* -------------------------------- actions ------------------------------ *)

NoClick == [control |-> {}, command |-> Ignored, top |-> "none", at |-> "none", open |-> {},
            closed |-> {}, whole |-> FALSE]

Nobody(s) == ~s.search /\ ~s.help /\ s.overlay = Nothing

ScreenInit ==
    /\ terminal \in Terminals
    /\ screen \in {[search |-> FALSE, help |-> FALSE, overlay |-> Nothing, row |-> 0,
                    levels |-> n, level |-> 0, cursor |-> 0] : n \in Lengths}
    /\ last = NoClick

\* Where on the layer on top the pointer is; the corner goes with the button.
PlaceOf(t, s, x, y) ==
    LET layer == Top(s)
    IN  IF layer = "dashboard" THEN "free"
        ELSE IF \E k \in {0, 1} : CloseAt(RectOf(t, s, layer), x - k, y) THEN "close"
        ELSE IF Inside(RectOf(t, s, layer), x, y) THEN "within" ELSE "beside"

Answered == last = NoClick

\* The frame after a click.
FrameDrawn == ~Answered /\ last' = NoClick /\ UNCHANGED <<terminal, screen>>

\* The left button, pressed and released on one cell.
LeftClick ==
    \E x \in 0..(terminal.w - 1), y \in 0..(terminal.h - 1) :
        LET c == ClickAt(terminal, screen, x, y)
        IN  /\ Answered
            /\ IsWide(terminal) \/ ~Nobody(screen)
            /\ screen' \in Reduced(screen, c)
            /\ last' = [control |-> DrawnAt(terminal, screen, x, y), command |-> c,
                        top |-> Top(screen), at |-> PlaceOf(terminal, screen, x, y),
                        open |-> Open(screen), closed |-> Open(screen) \ Open(screen'),
                        whole |-> screen.overlay = "ViewBounds" /\ TakesAll(terminal, "ViewBounds")]
            /\ UNCHANGED terminal

\* The right button is the key of the help, wherever the pointer is.
HelpButton ==
    /\ Answered
    /\ screen' = [screen EXCEPT !.help = ~@]
    /\ UNCHANGED <<terminal, last>>

\* The wheel, over the dashboard or what covers it.
WheelTurns ==
    \E x \in {1, terminal.w \div 2}, y \in 0..(terminal.h - 1), delta \in {-1, 1} :
        /\ Answered /\ IsWide(terminal)
        /\ screen' \in Reduced(screen, WheelAt(terminal, screen, x, y, delta))
        /\ UNCHANGED <<terminal, last>>

\* A drag that did not begin on the map seeks on the level bar, whatever covers it.
DragOverBand ==
    \E x \in 0..(terminal.w - 1) :
        /\ Answered /\ HasLevels(screen)
        /\ screen' = AtLevel(screen, ValueAt(LevelBand(terminal), screen.levels, x))
        /\ UNCHANGED <<terminal, last>>

\* The keys that open something, and those of the level list.
KeyPressed ==
    /\ Answered
    /\ UNCHANGED <<terminal, last>>
    /\ \/ /\ Nobody(screen)
          /\ \/ \E o \in Boxed : screen' = Overlaid(screen, o)
             \/ screen' = Searching(screen)
             \/ \E delta \in {-1, 1} : /\ HasLevels(screen)
                                       /\ screen' = [screen EXCEPT !.cursor =
                                                        Bounded(@ + delta, screen.levels)]
       \/ /\ screen.search
          /\ \/ screen' = Overlaid(screen, "CommandPalette")
             \/ \E delta \in {-1, 1} :
                    screen' = [screen EXCEPT !.row = Bounded(@ + delta, NumEntries)]

\* Event::Resize.
TerminalResized ==
    /\ Answered
    /\ \E t \in Terminals : t # terminal /\ terminal' = t
    /\ UNCHANGED <<screen, last>>

ScreenNext ==
    \/ LeftClick \/ FrameDrawn
    \/ HelpButton \/ WheelTurns \/ DragOverBand \/ KeyPressed \/ TerminalResized

ScreenSpec == ScreenInit /\ [][ScreenNext]_screenVars

(* ------------------------------ properties ----------------------------- *)

\* The help is drawn over the variable browser, which takes the clicks.
BrowserUnderHelp == {"help", "browser"} \subseteq last.open

\* Labels that are not where the handler expects them: "Next" is drawn in the half of
\* "Prev", the Play button right of its eight cells, and the plot kinds, of unequal
\* lengths, over fifths of the line.
Displaced == {"next", "play", "kind"}

\* "[c] MAP" names the key that opens the palette picker; the click takes the next map.
CyclesInstead(c) == c.label = "button" /\ c.does = {Plain("OpenPalettePicker")}

\* A click on something drawn on the topmost layer sends what its label
\* says, by the key it names, the row or the length of a bar: labels of the
\* Controls box by their words, rows of clipped boxes, the scrolled list of
\* levels, bars, fields of dialogs, entries of lists and close buttons.  The code
\* does something else on the labels in Displaced and on "[c] MAP"; nothing is
\* said of the keys before a word, of the bar of times below the labels of its
\* title, or of a scrolled list of variables, which DialogsBrowser is about.
ClickIsOfControl ==
    \A c \in last.control :
        \/ BrowserUnderHelp \/ last.whole
        \/ c.label \in Displaced \/ CyclesInstead(c) \/ c.edge
        \/ last.command \in c.does

\* A click on the topmost dialog closes it with its close button or by
\* choosing one of its entries, and nothing else; a click beside it closes it
\* and nothing below.  The help over the browser is excepted, and the view
\* bounds where they fill a small terminal but are measured by their usual size.
ClickClosesTheTop ==
    last.top \notin {"none", "dashboard"} =>
        \/ BrowserUnderHelp
        \/ last.whole
        \/ last.at = "within" /\ (last.closed = {} \/ last.command.name \in
                                    {"ExecutePaletteChoice", "SelectVariableAt"})
        \/ last.at # "within" /\ last.closed = {last.top}
=============================================================================
