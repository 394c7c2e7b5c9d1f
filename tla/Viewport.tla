------------------------------- MODULE Viewport -------------------------------
(* What the user measures on the image - the window zoomed to, the limits   *)
(* of the colours and the point picked - while the image on screen is the   *)
(* last one that was read, perhaps of what was selected before: a new       *)
(* selection is announced at once and its image comes later, or never.      *)
(* The reducer is app.rs (viewport, limits and points), the translation of  *)
(* a drag into a window main.rs and events/mouse.rs, the request and its    *)
(* answer load_selected and apply_remote_slice.  Every value measured       *)
(* carries as "of" what it was measured on, which the code does not keep.   *)
(* Which answers arrive at all is in SliceLoading, the view bounds dialog   *)
(* in BoundsResolution.                                                     *)
EXTENDS Integers

CONSTANTS Views,       \* a variable of a file on a pair of axes
          VariableOf,  \* view |-> its variable
          FileOf,      \* view |-> its file
          Defaults,    \* the views with default_display_axes, by the roles of dimensions
          Named,       \* view |-> its variable with default_axes, by names alone
          Transposed,  \* view |-> the view with its axes exchanged
          Rows, Cols,  \* view |-> size of its plane
          Flipped,     \* views whose latitude increases with the source row
          Width, Height,  \* cells of map_drawable, which begins at <<0, 0>>
          Pointers,    \* bound: cells the pointer is pressed or released on
          Absent,      \* a selection the active file has nothing for
          Nothing      \* None

ASSUME ViewAssumption ==
    /\ Absent \notin Views /\ Nothing \notin Views /\ Defaults \subseteq Views
    /\ \A v \in Views : Named[v] \in Views \cup {Absent}
    /\ \A v \in Views : Rows[v] \in Nat \ {0} /\ Cols[v] \in Nat \ {0}
ASSUME TransposedAssumption ==
    \A v \in Views :
      /\ Transposed[v] \in Views
      /\ Rows[Transposed[v]] = Cols[v] /\ Cols[Transposed[v]] = Rows[v]
ASSUME CanvasAssumption ==
    Width \in Nat \ {0} /\ Height \in Nat \ {0} /\ Pointers \subseteq Int \X Int

VARIABLES selection,  \* selected_variable, x_axis and y_axis of the active file
          listed,     \* AppState::variables
          zoom,       \* zoom_bounds
          limits,     \* limits and limits_manual
          point,      \* selected_point
          drag,       \* drag
          image,      \* slice: the image on screen
          reading     \* a read of the selection has not been answered

view == <<selection, listed, zoom, limits, point, drag, image, reading>>

Least(a, b) == IF a <= b THEN a ELSE b
Most(a, b)  == IF a >= b THEN a ELSE b
Clamp(x, lo, hi) == Most(lo, Least(x, hi))

Window(row0, row1, col0, col1) ==
    [row_start |-> row0, row_end |-> row1, col_start |-> col0, col_end |-> col1]
Full(v) == Window(0, Rows[v], 0, Cols[v])

\* Bounds::new
Proper(w) == w.row_start < w.row_end /\ w.col_start < w.col_end
Inside(w, v) ==
    Proper(w) /\ 0 <= w.row_start /\ w.row_end <= Rows[v]
              /\ 0 <= w.col_start /\ w.col_end <= Cols[v]

RowSpan(w) == w.row_end - w.row_start
ColSpan(w) == w.col_end - w.col_start

Current == IF zoom = Nothing THEN Full(selection) ELSE zoom.window

-----------------------------------------------------------------------------
\* Geometry: events/mouse.rs and analysis/mapping.rs

OnCanvas(p) == p[1] \in 0 .. Width - 1 /\ p[2] \in 0 .. Height - 1

\* the cell of the image under the pointer (screen_to_source_with_row_flip)
CellAt(p, w, flip) ==
    LET shown == Least((p[2] * RowSpan(w)) \div Height, RowSpan(w) - 1)
        col   == w.col_start + (p[1] * ColSpan(w)) \div Width
    IN  [row |-> Least(w.row_start + (IF flip THEN RowSpan(w) - 1 - shown ELSE shown),
                       w.row_end - 1),
         col |-> Least(col, w.col_end - 1)]

\* the corners of the rectangle dragged over the canvas
Corners(d) ==
    LET x0 == Clamp(d.start[1], 0, Width - 1)    x1 == Clamp(d.end[1], 0, Width - 1)
        y0 == Clamp(d.start[2], 0, Height - 1)   y1 == Clamp(d.end[2], 0, Height - 1)
    IN  [left |-> Least(x0, x1), right |-> Most(x0, x1),
         top |-> Least(y0, y1), bottom |-> Most(y0, y1)]

IsRectangle(d) == Corners(d).left # Corners(d).right /\ Corners(d).top # Corners(d).bottom

\* bounds_with_row_flip, and the offset of the image it was dragged on
DragWindow(d, w, flip) ==
    LET k   == Corners(d)
        row0 == (k.top * RowSpan(w)) \div Height
        row1 == Least(Most(((k.bottom + 1) * RowSpan(w)) \div Height, row0 + 1), RowSpan(w))
        col0 == (k.left * ColSpan(w)) \div Width
        col1 == Least(Most(((k.right + 1) * ColSpan(w)) \div Width, col0 + 1), ColSpan(w))
        top == IF flip THEN RowSpan(w) - row1 ELSE row0
    IN  Window(w.row_start + top, w.row_start + top + row1 - row0,
               w.col_start + col0, w.col_start + col1)

\* scaled_delta: rounded, and at least one cell for any movement
Scaled(delta, span, cells) ==
    LET size == Most(((IF delta < 0 THEN -delta ELSE delta) * span + cells \div 2) \div cells, 1)
    IN  IF delta = 0 \/ span = 0 THEN 0 ELSE IF delta < 0 THEN -size ELSE size

\* pan_delta: the image follows the pointer
PanRows(d, w) == -Scaled(d.end[2] - d.start[2], RowSpan(w), Height)
PanCols(d, w) == -Scaled(d.end[1] - d.start[1], ColSpan(w), Width)

\* Mutant: the window may slide until its start leaves the plane.
PannedPastEnd(w, full, rows, cols) ==
    LET r == Clamp(w.row_start + rows, full.row_start, full.row_end - 1)
        c == Clamp(w.col_start + cols, full.col_start, full.col_end - 1)
    IN  Window(r, r + RowSpan(w), c, c + ColSpan(w))

\* Pan: the window keeps its size and stays on the plane if it fits there
Panned(w, full, rows, cols) ==
    LET r == Clamp(Most(w.row_start + rows, 0), full.row_start, Most(full.row_end - RowSpan(w), 0))
        c == Clamp(Most(w.col_start + cols, 0), full.col_start, Most(full.col_end - ColSpan(w), 0))
    IN  Window(r, r + RowSpan(w), c, c + ColSpan(w))

Transpose(w) == Window(w.col_start, w.col_end, w.row_start, w.row_end)

-----------------------------------------------------------------------------
\* Requests and answers

Load == reading' = (selection' \in Views)

Measured == <<zoom, limits, point>>
Shown    == <<selection, listed>>

ViewInit(v, known) ==
    /\ selection = v /\ listed = known
    /\ zoom = Nothing /\ limits = Nothing /\ point = Nothing
    /\ drag = Nothing /\ image = Nothing
    /\ reading = (v \in Views)

\* apply_remote_slice: limits are kept unless there are none
LimitsAfter(v) ==
    IF limits = Nothing THEN [of |-> VariableOf[v], manual |-> FALSE] ELSE limits

\* the newest read is answered; an image outside of the plane is an error
Answered ==
    /\ reading
    /\ Inside(Current, selection)
    /\ image' = [of |-> selection, window |-> Current]
    /\ limits' = LimitsAfter(selection)
    /\ reading' = FALSE
    /\ UNCHANGED <<Shown, zoom, point, drag>>

ReadFailed ==
    /\ reading
    /\ reading' = FALSE
    /\ UNCHANGED <<Shown, Measured, drag, image>>

-----------------------------------------------------------------------------
\* Commands that change the selection

HasDefault(f, x) == \E v \in Defaults : FileOf[v] = f /\ VariableOf[v] = x
DefaultView(f, x) ==
    IF HasDefault(f, x) THEN CHOOSE v \in Defaults : FileOf[v] = f /\ VariableOf[v] = x
    ELSE Absent

\* Mutant: the window is kept for the new variable.
NewSelectionKeepsZoom(v, known) ==
    /\ selection' = v /\ listed' = known
    /\ limits' = Nothing /\ point' = Nothing /\ drag' = Nothing
    /\ Load
    /\ UNCHANGED <<zoom, image>>

(* select_variable and the axes handle_command gives it: everything measured *)
(* is forgotten, the image stays on screen until the new one is there.       *)
NewSelection(v, known) ==
    /\ selection' = v /\ listed' = known
    /\ zoom' = Nothing /\ limits' = Nothing /\ point' = Nothing /\ drag' = Nothing
    /\ Load
    /\ UNCHANGED image

\* axes by role are given to another variable, not to the same one again
SelectVariable(f, x) ==
    /\ x \in listed
    /\ NewSelection(IF selection \in Views /\ VariableOf[selection] = x THEN Named[selection]
                    ELSE DefaultView(f, x), listed)

\* R: all that was measured is forgotten, the axes are those the names suggest
ResetVariableView == selection \in Views /\ NewSelection(Named[selection], listed)

(* SetAxes on the same variable; exchanged axes turn the image on screen,    *)
(* whatever it is of, and the limits are those of the variable.              *)
SetAxes(v) ==
    /\ selection \in Views /\ v \in Views
    /\ FileOf[v] = FileOf[selection] /\ VariableOf[v] = VariableOf[selection]
    /\ selection' = v
    /\ zoom' = Nothing /\ point' = Nothing
    /\ image' = IF image # Nothing /\ v = Transposed[selection]
                THEN [of |-> Transposed[image.of], window |-> Transpose(image.window)]
                ELSE image
    /\ Load
    /\ UNCHANGED <<listed, limits, drag>>

(* select_initial_variable after the selected formula was removed: another   *)
(* variable is selected and nothing that was measured is forgotten.          *)
FallBack(v, known) ==
    /\ selection' = v /\ listed' = known
    /\ Load
    /\ UNCHANGED <<Measured, drag, image>>

-----------------------------------------------------------------------------
\* Commands on the image

\* translate_begin_drag: only over an image, and only on its canvas
BeginDrag(p, frame) ==
    /\ image # Nothing
    /\ OnCanvas(p)
    /\ drag' = [start |-> p, end |-> p, zoom |-> frame]
    /\ UNCHANGED <<Shown, Measured, image, reading>>

UpdateDrag(p) ==
    /\ drag # Nothing
    /\ drag' = [drag EXCEPT !.end = p]
    /\ UNCHANGED <<Shown, Measured, image, reading>>

\* Pan, by a drag or by the keys; a window of another plane is of none then
Pan(rows, cols) ==
    /\ selection \in Views
    /\ drag' = Nothing
    /\ LET w == Panned(Current, Full(selection), rows, cols) IN
         zoom' = IF Proper(w)
                 THEN [of |-> IF zoom = Nothing \/ zoom.of = selection THEN selection ELSE Nothing,
                       window |-> w]
                 ELSE Nothing
    /\ UNCHANGED <<Shown, limits, point, image>>
    /\ Load

PansBy(d) == zoom # Nothing /\ ~d.zoom
             /\ (PanRows(d, zoom.window) # 0 \/ PanCols(d, zoom.window) # 0)

\* the button comes up: pan, else zoom, else a point, else nothing
ReleasePans ==
    /\ drag # Nothing /\ image # Nothing /\ PansBy(drag)
    /\ Pan(PanRows(drag, zoom.window), PanCols(drag, zoom.window))

ReleaseZooms ==
    /\ drag # Nothing /\ image # Nothing /\ ~PansBy(drag) /\ IsRectangle(drag)
    /\ zoom' = [of |-> image.of,
                window |-> DragWindow(drag, image.window, image.of \in Flipped)]
    /\ drag' = Nothing
    /\ UNCHANGED <<Shown, limits, point, image>>
    /\ Load

ReleasePoints ==
    /\ drag # Nothing /\ image # Nothing /\ ~PansBy(drag) /\ ~IsRectangle(drag)
    /\ point' = IF OnCanvas(drag.end)
                THEN [of |-> image.of,
                      cell |-> CellAt(drag.end, image.window, image.of \in Flipped)]
                ELSE point
    /\ drag' = Nothing
    /\ UNCHANGED <<Shown, zoom, limits, image, reading>>

ResetZoom ==
    /\ zoom' = Nothing /\ drag' = Nothing
    /\ UNCHANGED <<Shown, limits, point, image>>
    /\ Load

\* the range of the image on screen, if there is one
LimitsOfImage ==
    IF image = Nothing THEN Nothing
    ELSE [of |-> VariableOf[image.of], manual |-> FALSE]

AutomaticLimits ==
    /\ limits' = LimitsOfImage
    /\ UNCHANGED <<Shown, zoom, point, drag, image>>
    /\ Load

\* ToggleScale: limits a logarithm cannot show become those of the image
ToggleScale ==
    /\ limits' \in {limits, IF limits = Nothing THEN limits ELSE LimitsOfImage}
    /\ UNCHANGED <<Shown, zoom, point, drag, image>>
    /\ Load

\* ToggleColorScaleScope
ToggleColorScaleScope ==
    /\ limits' = IF limits # Nothing /\ limits.manual THEN limits ELSE Nothing
    /\ UNCHANGED <<Shown, zoom, point, drag, image>>
    /\ Load

\* apply_manual_limits: numbers the user typed for what is selected
ManualLimits ==
    /\ selection \in Views
    /\ limits' = [of |-> VariableOf[selection], manual |-> TRUE]
    /\ UNCHANGED <<Shown, zoom, point, drag, image, reading>>

OnImage ==
    \/ \E p \in Pointers, frame \in BOOLEAN : BeginDrag(p, frame)
    \/ \E p \in Pointers : UpdateDrag(p)
    \/ \E rows, cols \in {-1, 0, 1} : Pan(rows, cols)
    \/ ReleasePans \/ ReleaseZooms \/ ReleasePoints \/ ResetZoom
    \/ AutomaticLimits \/ ToggleScale \/ ToggleColorScaleScope \/ ManualLimits
=============================================================================
