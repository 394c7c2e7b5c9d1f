--------------------------- MODULE LaunchesProofs ---------------------------
(* Proofs about Viewport and Launches for any files, planes and canvas, any *)
(* number of launches and commands.                                         *)
EXTENDS Launches, Extrema

Windows == [row_start : Int, row_end : Int, col_start : Int, col_end : Int]
Drags   == [start : Int \X Int, end : Int \X Int, zoom : BOOLEAN]

-----------------------------------------------------------------------------
\* Geometry

LEMMA WindowFromEdges ==
    ASSUME NEW v, NEW r0 \in Int, NEW r1 \in Int, NEW c0 \in Int, NEW c1 \in Int
    PROVE  /\ Window(r0, r1, c0, c1) \in Windows
           /\ 0 <= r0 /\ r0 < r1 /\ r1 <= Rows[v] /\ 0 <= c0 /\ c0 < c1 /\ c1 <= Cols[v]
                => Inside(Window(r0, r1, c0, c1), v)
  BY DEF Window, Windows, Inside, Proper

LEMMA FullFits ==
    ASSUME NEW v \in Views
    PROVE  Full(v) \in Windows /\ Inside(Full(v), v)
  <1>1. Rows[v] \in Nat \ {0} /\ Cols[v] \in Nat \ {0}
    BY ViewAssumption
  <1> QED BY <1>1 DEF Full, Window, Windows, Inside, Proper

LEMMA TransposedFits ==
    ASSUME NEW v \in Views, NEW w \in Windows, Inside(w, v)
    PROVE  Transpose(w) \in Windows /\ Inside(Transpose(w), Transposed[v])
  <1>1. Rows[Transposed[v]] = Cols[v] /\ Cols[Transposed[v]] = Rows[v]
    BY TransposedAssumption
  <1> QED BY <1>1 DEF Transpose, Window, Windows, Inside, Proper

\* A pixel of h pixels shows one of the n cells.
LEMMA CellOfPixel ==
    ASSUME NEW h \in Nat \ {0}, NEW n \in Nat \ {0}, NEW a \in 0 .. h - 1
    PROVE  (a * n) \div h \in 0 .. n - 1
  <1> DEFINE q == (a * n) \div h
  <1>1. q \in Int /\ a * n \in Nat
    OBVIOUS
  <1>2. h * q <= a * n /\ a * n < h * (q + 1)
    OBVIOUS
  <1> HIDE DEF q
  <1>3. a * n < h * n
    OBVIOUS
  <1>4. q < n
    BY <1>1, <1>2, <1>3
  <1>5. q >= 0
    BY <1>1, <1>2
  <1> QED BY <1>1, <1>4, <1>5 DEF q

\* The rows or columns lo to hi that a rectangle of pixels covers.
LEMMA Covered ==
    ASSUME NEW h \in Nat \ {0}, NEW n \in Nat \ {0},
           NEW a \in 0 .. h - 1, NEW b \in 0 .. h - 1
    PROVE  LET lo == (a * n) \div h
               hi == Least(Most(((b + 1) * n) \div h, lo + 1), n)
           IN  lo \in Int /\ hi \in Int /\ 0 <= lo /\ lo < hi /\ hi <= n
  <1> DEFINE lo == (a * n) \div h
             x  == ((b + 1) * n) \div h
  <1>1. lo \in 0 .. n - 1
    BY CellOfPixel
  <1>2. x \in Int
    OBVIOUS
  <1> HIDE DEF lo, x
  <1>3. LET hi == Least(Most(x, lo + 1), n)
        IN  lo \in Int /\ hi \in Int /\ 0 <= lo /\ lo < hi /\ hi <= n
    BY <1>1, <1>2 DEF Least, Most
  <1> QED BY <1>3 DEF lo, x

LEMMA CornersOnCanvas ==
    ASSUME NEW d \in Drags
    PROVE  /\ Corners(d).left \in 0 .. Width - 1 /\ Corners(d).right \in 0 .. Width - 1
           /\ Corners(d).top \in 0 .. Height - 1 /\ Corners(d).bottom \in 0 .. Height - 1
  <1>1. /\ Width \in Nat \ {0} /\ Height \in Nat \ {0}
        /\ d.start[1] \in Int /\ d.start[2] \in Int /\ d.end[1] \in Int /\ d.end[2] \in Int
    BY CanvasAssumption DEF Drags
  <1>2. ASSUME NEW x \in Int, NEW n \in Nat \ {0} PROVE Clamp(x, 0, n - 1) \in 0 .. n - 1
    BY DEF Clamp, Least, Most
  <1>3. ASSUME NEW n \in Nat \ {0}, NEW a \in 0 .. n - 1, NEW b \in 0 .. n - 1
        PROVE Least(a, b) \in 0 .. n - 1 /\ Most(a, b) \in 0 .. n - 1
    BY DEF Least, Most
  <1>4. /\ Clamp(d.start[1], 0, Width - 1) \in 0 .. Width - 1
        /\ Clamp(d.end[1], 0, Width - 1) \in 0 .. Width - 1
        /\ Clamp(d.start[2], 0, Height - 1) \in 0 .. Height - 1
        /\ Clamp(d.end[2], 0, Height - 1) \in 0 .. Height - 1
    BY <1>1, <1>2
  <1> QED BY <1>1, <1>3, <1>4 DEF Corners

(* A rectangle dragged on an image gives a window of that image             *)
(* (bounds_with_row_flip).                                                  *)
LEMMA DragWindowFits ==
    ASSUME NEW v \in Views, NEW w \in Windows, Inside(w, v), NEW d \in Drags, NEW flip
    PROVE  DragWindow(d, w, flip) \in Windows /\ Inside(DragWindow(d, w, flip), v)
  <1> DEFINE k    == Corners(d)
             row0 == (k.top * RowSpan(w)) \div Height
             row1 == Least(Most(((k.bottom + 1) * RowSpan(w)) \div Height, row0 + 1), RowSpan(w))
             col0 == (k.left * ColSpan(w)) \div Width
             col1 == Least(Most(((k.right + 1) * ColSpan(w)) \div Width, col0 + 1), ColSpan(w))
             top  == IF flip THEN RowSpan(w) - row1 ELSE row0
  <1>1. /\ w.row_start \in Int /\ w.row_end \in Int /\ w.col_start \in Int /\ w.col_end \in Int
        /\ 0 <= w.row_start /\ w.row_start < w.row_end /\ w.row_end <= Rows[v]
        /\ 0 <= w.col_start /\ w.col_start < w.col_end /\ w.col_end <= Cols[v]
    BY DEF Windows, Inside, Proper
  <1>2. /\ RowSpan(w) \in Nat \ {0} /\ RowSpan(w) = w.row_end - w.row_start
        /\ ColSpan(w) \in Nat \ {0} /\ ColSpan(w) = w.col_end - w.col_start
    BY <1>1 DEF RowSpan, ColSpan
  <1>3. Rows[v] \in Nat /\ Cols[v] \in Nat /\ Width \in Nat \ {0} /\ Height \in Nat \ {0}
    BY ViewAssumption, CanvasAssumption
  <1>4. row0 \in Int /\ row1 \in Int /\ 0 <= row0 /\ row0 < row1 /\ row1 <= RowSpan(w)
    BY <1>2, <1>3, CornersOnCanvas, Covered
  <1>5. col0 \in Int /\ col1 \in Int /\ 0 <= col0 /\ col0 < col1 /\ col1 <= ColSpan(w)
    BY <1>2, <1>3, CornersOnCanvas, Covered
  <1>6. DragWindow(d, w, flip)
          = Window(w.row_start + top, w.row_start + top + row1 - row0,
                   w.col_start + col0, w.col_start + col1)
    BY DEF DragWindow
  <1> HIDE DEF row0, row1, col0, col1
  <1>7. top \in Int /\ 0 <= top /\ top + row1 - row0 <= RowSpan(w)
    BY <1>2, <1>4
  <1> HIDE DEF top
  <1> DEFINE r0 == w.row_start + top   r1 == w.row_start + top + row1 - row0
             c0 == w.col_start + col0  c1 == w.col_start + col1
  <1>8. /\ r0 \in Int /\ r1 \in Int /\ 0 <= r0 /\ r0 < r1 /\ r1 <= Rows[v]
        /\ c0 \in Int /\ c1 \in Int /\ 0 <= c0 /\ c0 < c1 /\ c1 <= Cols[v]
    BY <1>1, <1>2, <1>3, <1>4, <1>5, <1>7
  <1>9. DragWindow(d, w, flip) = Window(r0, r1, c0, c1)
    BY <1>6
  <1> HIDE DEF r0, r1, c0, c1
  <1> QED BY <1>8, <1>9, WindowFromEdges

LEMMA PannedIsWindow ==
    ASSUME NEW v \in Views, NEW w \in Windows, NEW rows \in Int, NEW cols \in Int
    PROVE  /\ Panned(w, Full(v), rows, cols) \in Windows
           /\ Inside(w, v) => Inside(Panned(w, Full(v), rows, cols), v)
  <1> DEFINE full == Full(v)
             r == Clamp(Most(w.row_start + rows, 0), full.row_start, Most(full.row_end - RowSpan(w), 0))
             c == Clamp(Most(w.col_start + cols, 0), full.col_start, Most(full.col_end - ColSpan(w), 0))
  <1>1. w.row_start \in Int /\ w.row_end \in Int /\ w.col_start \in Int /\ w.col_end \in Int
    BY DEF Windows
  <1>2. RowSpan(w) = w.row_end - w.row_start /\ ColSpan(w) = w.col_end - w.col_start
    BY DEF RowSpan, ColSpan
  <1>3. /\ Rows[v] \in Nat /\ Cols[v] \in Nat
        /\ full.row_start = 0 /\ full.row_end = Rows[v] /\ full.col_start = 0 /\ full.col_end = Cols[v]
    BY ViewAssumption DEF Full, Window
  <1>4. /\ r \in Int /\ c \in Int
        /\ RowSpan(w) <= Rows[v] => r \in 0 .. Rows[v] - RowSpan(w)
        /\ ColSpan(w) <= Cols[v] => c \in 0 .. Cols[v] - ColSpan(w)
    BY <1>1, <1>2, <1>3 DEF Clamp, Least, Most
  <1>5. Panned(w, Full(v), rows, cols) = Window(r, r + RowSpan(w), c, c + ColSpan(w))
    BY DEF Panned
  <1> HIDE DEF r, c
  <1> QED BY <1>1, <1>2, <1>3, <1>4, <1>5 DEF Window, Windows, Inside, Proper

LEMMA PanIsWhole ==
    ASSUME NEW d \in Drags, NEW w \in Windows
    PROVE  PanRows(d, w) \in Int /\ PanCols(d, w) \in Int
  <1>1. ASSUME NEW delta \in Int, NEW span \in Int, NEW cells \in Nat \ {0}
        PROVE  Scaled(delta, span, cells) \in Int
    BY DEF Scaled, Most
  <1>2. /\ d.end[1] - d.start[1] \in Int /\ d.end[2] - d.start[2] \in Int
        /\ RowSpan(w) \in Int /\ ColSpan(w) \in Int
    BY DEF Drags, Windows, RowSpan, ColSpan
  <1>3. Width \in Nat \ {0} /\ Height \in Nat \ {0}
    BY CanvasAssumption
  <1>4. /\ Scaled(d.end[2] - d.start[2], RowSpan(w), Height) \in Int
        /\ Scaled(d.end[1] - d.start[1], ColSpan(w), Width) \in Int
    BY <1>1, <1>2, <1>3
  <1> QED BY <1>4 DEF PanRows, PanCols

-----------------------------------------------------------------------------
(* The inductive invariant of WindowFits: a window that names a plane lies  *)
(* in it, and so does the image, from which the next window is dragged.  A  *)
(* window that was panned over another plane names none.                    *)

ZoomFits(z) ==
    z # Nothing => z.window \in Windows /\ (z.of \in Views => Inside(z.window, z.of))
ImageFits ==
    image # Nothing => image.of \in Views /\ image.window \in Windows
                         /\ Inside(image.window, image.of)
DragFits   == drag # Nothing => drag \in Drags
ReadFits   == reading => selection \in Views
ViewFits   == ZoomFits(zoom) /\ ImageFits /\ DragFits /\ ReadFits
SavedFits  == IsSession(saved) => ZoomFits(saved.zoom)
LaunchFits == ViewFits /\ SavedFits

LEMMA NoZoomFits == ZoomFits(Nothing)
  BY DEF ZoomFits

LEMMA CurrentIsWindow ==
    ASSUME ZoomFits(zoom), selection \in Views
    PROVE  Current \in Windows /\ (zoom = Nothing => Inside(Current, selection))
  BY FullFits DEF Current, ZoomFits

LEMMA PanFits ==
    ASSUME ViewFits, NEW rows \in Int, NEW cols \in Int, Pan(rows, cols)
    PROVE  ViewFits'
  <1> DEFINE w  == Panned(Current, Full(selection), rows, cols)
             to == IF zoom = Nothing \/ zoom.of = selection THEN selection ELSE Nothing
  <1>1. /\ selection \in Views /\ selection' = selection /\ image' = image /\ drag' = Nothing
        /\ reading' = (selection' \in Views)
    BY DEF Pan, Shown, Load
  <1>2. zoom' = IF Proper(w) THEN [of |-> to, window |-> w] ELSE Nothing
    BY DEF Pan
  <1>3. w \in Windows /\ (Inside(Current, selection) => Inside(w, selection))
    BY <1>1, PannedIsWindow, CurrentIsWindow DEF ViewFits
  <1>4. to \in Views => to = selection /\ Inside(Current, selection)
    <2>1. to \in Views => zoom = Nothing \/ zoom.of = selection
      BY ViewAssumption
    <2> QED BY <2>1, <1>1, CurrentIsWindow DEF ViewFits, ZoomFits, Current
  <1>5. ZoomFits([of |-> to, window |-> w])
    <2> HIDE DEF w, to
    <2> QED BY <1>3, <1>4 DEF ZoomFits
  <1>6. ZoomFits(zoom')
    BY <1>2, <1>5, NoZoomFits
  <1>7. ImageFits' /\ DragFits' /\ ReadFits'
    BY <1>1 DEF ViewFits, ImageFits, DragFits, ReadFits
  <1> QED BY <1>6, <1>7 DEF ViewFits

LEMMA OnImageFits ==
    ASSUME ViewFits, OnImage
    PROVE  ViewFits'
  <1> USE DEF ViewFits
  <1>1. ASSUME NEW p \in Pointers, NEW frame \in BOOLEAN, BeginDrag(p, frame)
        PROVE  ViewFits'
    <2>1. [start |-> p, end |-> p, zoom |-> frame] \in Drags
      BY CanvasAssumption DEF Drags
    <2> QED BY <1>1, <2>1 DEF BeginDrag, Shown, Measured, ZoomFits, ImageFits, DragFits, ReadFits
  <1>2. ASSUME NEW p \in Pointers, UpdateDrag(p)
        PROVE  ViewFits'
    <2>1. drag' \in Drags
      BY <1>2, CanvasAssumption DEF UpdateDrag, DragFits, Drags
    <2> QED BY <1>2, <2>1 DEF UpdateDrag, Shown, Measured, ZoomFits, ImageFits, DragFits, ReadFits
  <1>3. ASSUME NEW rows \in {-1, 0, 1}, NEW cols \in {-1, 0, 1}, Pan(rows, cols)
        PROVE  ViewFits'
    BY <1>3, PanFits
  <1>4. CASE ReleasePans
    <2>1. zoom.window \in Windows /\ drag \in Drags
      BY <1>4 DEF ReleasePans, PansBy, ZoomFits, DragFits
    <2> QED BY <1>4, <2>1, PanIsWhole, PanFits DEF ReleasePans
  <1>5. CASE ReleaseZooms
    <2> DEFINE w == DragWindow(drag, image.window, image.of \in Flipped)
    <2>1. /\ image.of \in Views /\ image.window \in Windows /\ Inside(image.window, image.of)
          /\ drag \in Drags
      BY <1>5 DEF ReleaseZooms, ImageFits, DragFits
    <2>2. w \in Windows /\ Inside(w, image.of)
      BY <2>1, DragWindowFits
    <2>3. /\ zoom' = [of |-> image.of, window |-> w] /\ drag' = Nothing /\ image' = image
          /\ selection' = selection /\ reading' = (selection' \in Views)
      BY <1>5 DEF ReleaseZooms, Shown, Load
    <2> HIDE DEF w
    <2> QED BY <2>2, <2>3 DEF ZoomFits, ImageFits, DragFits, ReadFits
  <1>6. CASE ReleasePoints
    BY <1>6 DEF ReleasePoints, Shown, ZoomFits, ImageFits, DragFits, ReadFits
  <1>7. CASE ResetZoom
    BY <1>7 DEF ResetZoom, Shown, Load, ZoomFits, ImageFits, DragFits, ReadFits
  <1>8. CASE AutomaticLimits
    BY <1>8 DEF AutomaticLimits, Shown, Load, ZoomFits, ImageFits, DragFits, ReadFits
  <1>9. CASE ToggleScale
    BY <1>9 DEF ToggleScale, Shown, Load, ZoomFits, ImageFits, DragFits, ReadFits
  <1>10. CASE ToggleColorScaleScope
    BY <1>10 DEF ToggleColorScaleScope, Shown, Load, ZoomFits, ImageFits, DragFits, ReadFits
  <1>11. CASE ManualLimits
    BY <1>11 DEF ManualLimits, Shown, ZoomFits, ImageFits, DragFits, ReadFits
  <1> QED BY <1>1, <1>2, <1>3, <1>4, <1>5, <1>6, <1>7, <1>8, <1>9, <1>10, <1>11 DEF OnImage

LEMMA NewSelectionFits ==
    ASSUME ViewFits, NEW v, NEW known, NewSelection(v, known)
    PROVE  ViewFits'
  BY DEF ViewFits, NewSelection, Load, ZoomFits, ImageFits, DragFits, ReadFits

LEMMA SetAxesFits ==
    ASSUME ViewFits, NEW v \in Views, SetAxes(v)
    PROVE  ViewFits'
  <1>1. /\ selection' = v /\ zoom' = Nothing /\ drag' = drag
        /\ reading' = (selection' \in Views)
        /\ \/ image' = image
           \/ image # Nothing /\ image' = [of |-> Transposed[image.of],
                                           window |-> Transpose(image.window)]
    BY DEF SetAxes, Load
  <1>2. CASE image' = image
    BY <1>1, <1>2 DEF ViewFits, ZoomFits, ImageFits, DragFits, ReadFits
  <1>3. CASE image # Nothing /\ image' = [of |-> Transposed[image.of],
                                          window |-> Transpose(image.window)]
    <2>1. image.of \in Views /\ image.window \in Windows /\ Inside(image.window, image.of)
      BY <1>3 DEF ViewFits, ImageFits
    <2>2. /\ Transpose(image.window) \in Windows
          /\ Inside(Transpose(image.window), Transposed[image.of])
          /\ Transposed[image.of] \in Views
      BY <2>1, TransposedFits, TransposedAssumption
    <2>3. ImageFits'
      BY <1>3, <2>2 DEF ImageFits
    <2> QED BY <1>1, <2>3 DEF ViewFits, ZoomFits, DragFits, ReadFits
  <1> QED BY <1>1, <1>2, <1>3

LEMMA EndFits == End => ViewFits'
  <1> SUFFICES ASSUME End PROVE ViewFits'
    OBVIOUS
  <1> QED BY DEF End, ViewFits, ZoomFits, ImageFits, DragFits, ReadFits

LEMMA LaunchInitFits == LaunchInit => LaunchFits
  BY ViewAssumption
     DEF LaunchInit, ViewInit, LaunchFits, ViewFits, ZoomFits, ImageFits, DragFits, ReadFits,
         SavedFits, IsSession

LEMMA LaunchStepFits == LaunchFits /\ [LaunchNext]_launchVars => LaunchFits'
  <1> SUFFICES ASSUME LaunchFits, [LaunchNext]_launchVars PROVE LaunchFits'
    OBVIOUS
  <1> USE DEF LaunchFits
  <1>1. ASSUME UNCHANGED <<view, saved>> PROVE LaunchFits'
    BY <1>1 DEF view, ViewFits, ZoomFits, ImageFits, DragFits, ReadFits, SavedFits, IsSession
  <1>2. ASSUME ViewFits', UNCHANGED saved PROVE LaunchFits'
    BY <1>2 DEF SavedFits, IsSession
  <1>3. CASE UNCHANGED launchVars
    BY <1>1, <1>3 DEF launchVars
  <1>4. CASE Launch
    BY <1>1, <1>4 DEF Launch
  <1>5. ASSUME NEW f \in Files, Loader(f) PROVE LaunchFits'
    BY <1>1, <1>5 DEF Loader
  <1>6. CASE OpenView
    <2>1. ZoomFits(Restored.zoom)
      BY NoZoomFits DEF Restored, SavedFits
    <2>2. /\ zoom' = Restored.zoom /\ drag' = Nothing /\ image' = Nothing
          /\ reading' = (selection' \in Views)
      BY <1>6 DEF OpenView, Load
    <2>3. ViewFits'
      BY <2>1, <2>2 DEF ViewFits, ZoomFits, ImageFits, DragFits, ReadFits
    <2> QED BY <2>3, <1>2, <1>6 DEF OpenView
  <1>7. CASE EndLoading
    BY <1>2, <1>7, EndFits DEF EndLoading
  <1>8. CASE OnView
    <2>1. saved' = saved
      BY <1>8 DEF OnView
    <2>2. ASSUME OnImage PROVE ViewFits'
      BY <2>2, OnImageFits
    <2>3. ASSUME NEW x, SelectVariable(file, x) PROVE ViewFits'
      BY <2>3, NewSelectionFits DEF SelectVariable
    <2>4. ASSUME ResetVariableView PROVE ViewFits'
      BY <2>4, NewSelectionFits DEF ResetVariableView
    <2>5. ASSUME NEW v \in Views, SetAxes(v) PROVE ViewFits'
      BY <2>5, SetAxesFits
    <2>6. ViewFits'
      BY <1>8, <2>2, <2>3, <2>4, <2>5 DEF OnView
    <2> QED BY <2>1, <2>6, <1>2
  <1>9. ASSUME NEW delta, SwitchFile(delta) PROVE LaunchFits'
    <2>1. ViewFits'
      BY <1>9 DEF SwitchFile, Load, ViewFits, ZoomFits, ImageFits, DragFits, ReadFits
    <2> QED BY <2>1, <1>2, <1>9 DEF SwitchFile
  <1>16. ASSUME NEW v \in Views, StepToFile(v) PROVE LaunchFits'
    <2>1. ViewFits'
      BY <1>16 DEF StepToFile, Load, Measured, ViewFits, ZoomFits, ImageFits, DragFits, ReadFits
    <2> QED BY <2>1, <1>2, <1>16 DEF StepToFile
  <1>10. CASE DefineFormula
    BY <1>2, <1>10, NewSelectionFits DEF DefineFormula
  <1>11. CASE RemoveFormula
    <2>1. ViewFits'
      BY <1>11 DEF RemoveFormula, FallBack, Load, Measured, ViewFits, ZoomFits, ImageFits,
                   DragFits, ReadFits
    <2> QED BY <2>1, <1>2, <1>11 DEF RemoveFormula
  <1>12. CASE ReadEnds
    <2>1. CASE Answered
      <3>1. selection \in Views /\ Current \in Windows
        BY <2>1, CurrentIsWindow DEF Answered, ViewFits, ReadFits
      <3>2. ViewFits'
        BY <2>1, <3>1 DEF Answered, Shown, ViewFits, ZoomFits, ImageFits, DragFits, ReadFits
      <3> QED BY <3>2, <1>2, <1>12 DEF ReadEnds
    <2>2. CASE ReadFailed
      <3>1. ViewFits'
        BY <2>2 DEF ReadFailed, Shown, Measured, ViewFits, ZoomFits, ImageFits, DragFits, ReadFits
      <3> QED BY <3>1, <1>2, <1>12 DEF ReadEnds
    <2> QED BY <1>12, <2>1, <2>2 DEF ReadEnds
  <1>13. CASE Quit
    <2>1. ViewFits'
      BY <1>13 DEF Quit, view, ViewFits, ZoomFits, ImageFits, DragFits, ReadFits
    <2> QED BY <2>1, <1>13 DEF Quit, SavedFits, IsSession
  <1>14. CASE Write
    <2>1. ViewFits' /\ saved' = Captured /\ ZoomFits(zoom)
      BY <1>14, EndFits DEF Write, ViewFits
    <2>2. Captured.zoom = zoom
      BY DEF Captured
    <2> QED BY <2>1, <2>2 DEF SavedFits
  <1>15. CASE Crash
    BY <1>2, <1>15, EndFits DEF Crash
  <1> QED BY <1>3, <1>4, <1>5, <1>6, <1>7, <1>8, <1>9, <1>10, <1>11, <1>12, <1>13, <1>14, <1>15, <1>16
             DEF LaunchNext

(* Whatever is dragged, panned, turned, saved and restored, a window that   *)
(* was measured on a plane lies in it.                                      *)
THEOREM LaunchWindowsFit == LaunchSpec => []LaunchFits
  <1>1. LaunchInit => LaunchFits
    BY LaunchInitFits
  <1>2. LaunchFits /\ [LaunchNext]_launchVars => LaunchFits'
    BY LaunchStepFits
  <1> QED BY <1>1, <1>2, PTL DEF LaunchSpec

(* The read of the selected plane in the window zoomed to can succeed.      *)
THEOREM LaunchWindowFits == LaunchSpec => []WindowFits
  <1>1. LaunchFits => WindowFits
    BY DEF LaunchFits, ViewFits, ZoomFits, WindowFits
  <1> QED BY <1>1, LaunchWindowsFit, PTL

-----------------------------------------------------------------------------
\* What is measured on one selection and applied to another

LEMMA UnmeasuredIsNotForeign ==
    (zoom = Nothing /\ limits = Nothing /\ point = Nothing) => ~Foreign
  BY DEF Foreign

LEMMA NewSelectionIsNotForeign ==
    ASSUME NEW v, NEW known, NewSelection(v, known)
    PROVE  ~Foreign'
  BY DEF NewSelection, Foreign

\* Where the image is that of the selection, or where there is none.
LEMMA OnImageForeign ==
    ASSUME OnImage, Foreign', ~OldImage
    PROVE  Foreign
  <1>1. image # Nothing => image.of = selection
    BY DEF OldImage
  <1>2. ASSUME NEW rows, NEW cols, Pan(rows, cols) PROVE Foreign
    <2>1. /\ selection \in Views /\ selection' = selection
          /\ limits' = limits /\ point' = point
      BY <1>2 DEF Pan, Shown
    <2>2. zoom' # Nothing
            => zoom'.of = IF zoom = Nothing \/ zoom.of = selection THEN selection ELSE Nothing
      BY <1>2 DEF Pan
    <2> QED BY <2>1, <2>2 DEF Foreign
  <1>3. ASSUME NEW p, NEW frame, BeginDrag(p, frame) PROVE Foreign
    BY <1>3 DEF BeginDrag, Shown, Measured, Foreign
  <1>4. ASSUME NEW p, UpdateDrag(p) PROVE Foreign
    BY <1>4 DEF UpdateDrag, Shown, Measured, Foreign
  <1>5. CASE ReleasePans
    BY <1>5, <1>2 DEF ReleasePans
  <1>6. CASE ReleaseZooms
    <2>1. zoom'.of = selection /\ selection' = selection /\ limits' = limits /\ point' = point
      BY <1>6, <1>1 DEF ReleaseZooms, Shown
    <2> QED BY <2>1 DEF Foreign
  <1>7. CASE ReleasePoints
    <2>1. /\ selection' = selection /\ limits' = limits /\ zoom' = zoom
          /\ point' = point \/ point'.of = selection
      BY <1>7, <1>1 DEF ReleasePoints, Shown
    <2> QED BY <2>1 DEF Foreign
  <1>8. CASE ResetZoom
    BY <1>8 DEF ResetZoom, Shown, Foreign
  <1>9. ASSUME UNCHANGED <<selection, zoom, point>>,
               limits' \in {limits, Nothing, LimitsOfImage}
        PROVE  Foreign
    BY <1>1, <1>9 DEF LimitsOfImage, Foreign
  <1>10. CASE AutomaticLimits
    BY <1>9, <1>10 DEF AutomaticLimits, Shown
  <1>11. CASE ToggleScale
    BY <1>9, <1>11 DEF ToggleScale, Shown
  <1>12. CASE ToggleColorScaleScope
    BY <1>9, <1>12 DEF ToggleColorScaleScope, Shown
  <1>13. CASE ManualLimits
    BY <1>13 DEF ManualLimits, Shown, Foreign
  <1> QED BY <1>2, <1>3, <1>4, <1>5, <1>6, <1>7, <1>8, <1>10, <1>11, <1>12, <1>13 DEF OnImage

LEMMA ForeignSteps ==
    ASSUME LaunchNext, Foreign'
    PROVE  \/ Foreign \/ (OldImage /\ OnView) \/ RemoveFormula
           \/ (\E v \in Views : StepToFile(v))
           \/ (OpenView /\ IsSession(saved))
  <1>1. ASSUME UNCHANGED view PROVE Foreign
    BY <1>1 DEF view, Foreign
  <1>2. CASE Launch
    BY <1>1, <1>2 DEF Launch
  <1>3. ASSUME NEW f \in Files, Loader(f) PROVE Foreign
    BY <1>1, <1>3 DEF Loader
  <1>4. CASE OpenView
    <2>1. IsSession(saved) \/ (zoom' = Nothing /\ limits' = Nothing /\ point' = Nothing)
      BY <1>4 DEF OpenView, Restored
    <2> QED BY <2>1, <1>4 DEF Foreign
  <1>5. ~End
    BY DEF End, Foreign
  <1>6. ASSUME OnView, ~OldImage PROVE Foreign
    <2>1. ASSUME NEW v \in Views, SetAxes(v) PROVE Foreign
      BY <2>1 DEF SetAxes, Foreign
    <2> QED BY <1>6, <2>1, OnImageForeign, NewSelectionIsNotForeign
            DEF OnView, SelectVariable, ResetVariableView
  <1>7. ASSUME NEW delta, SwitchFile(delta) PROVE Foreign
    BY <1>7 DEF SwitchFile, Foreign
  <1>8. CASE DefineFormula
    BY <1>8, NewSelectionIsNotForeign DEF DefineFormula
  <1>9. CASE ReadEnds
    BY <1>9 DEF ReadEnds, Answered, ReadFailed, LimitsAfter, Shown, Measured, Foreign
  <1>10. CASE Quit
    BY <1>1, <1>10 DEF Quit
  <1> QED BY <1>2, <1>3, <1>4, <1>5, <1>6, <1>7, <1>8, <1>9, <1>10
             DEF LaunchNext, EndLoading, Write, Crash

(* What was measured on one selection is applied to another only through    *)
(* the image that is still the old one, a session, a removed formula or a   *)
(* step to a frame of another file.                                         *)
THEOREM LaunchForeignOnlyByName == LaunchSpec => ForeignOnlyByName
  <1>1. [LaunchNext]_launchVars
          => [Foreign' => \/ Foreign \/ (OldImage /\ OnView) \/ RemoveFormula
                          \/ (\E v \in Views : StepToFile(v))
                          \/ (OpenView /\ IsSession(saved))]_launchVars
    BY ForeignSteps
  <1> QED BY <1>1, PTL DEF LaunchSpec, ForeignOnlyByName

-----------------------------------------------------------------------------
\* Starting

\* Every file has a variable, and every variable of a file can be shown.
Plottable == \A f \in Files : Has[f] # {} /\ \A x \in Has[f] : HasDefault(f, x)

LEMMA LowestIsThere ==
    ASSUME NEW S \in SUBSET Files, S # {}
    PROVE  Lowest(S) \in S
  <1>1. S \subseteq Nat
    BY FileAssumption
  <1>2. \E f \in S : \A g \in S : f <= g
    BY <1>1, LeastNatural
  <1> QED BY <1>2 DEF Lowest

\* The initial variable of an earlier file is shown in any file that has it.
LEMMA InitialViewIsThere ==
    ASSUME Plottable, NEW f \in Opened, NEW e \in Files, Has[e] \subseteq Has[f]
    PROVE  InitialView(f, Has[e]) \in Views
  <1> DEFINE x == CHOOSE x \in Has[e] : \A y \in Has[e] : Preference[x] >= Preference[y]
  <1>1. f \in Files
    BY DEF Opened
  <1>2. /\ IsFiniteSet(Has[e]) /\ Has[e] # {} /\ \A y \in Has[e] : Preference[y] \in Int
    BY HasAssumption DEF Plottable
  <1>3. \E y \in Has[e] : \A z \in Has[e] : Preference[y] >= Preference[z]
    BY <1>2, FiniteMaximum
  <1>4. x \in Has[e]
    BY <1>3
  <1>5. InitialView(f, Has[e]) = DefaultView(f, x)
    BY <1>2 DEF InitialView
  <1> HIDE DEF x
  <1>6. HasDefault(f, x)
    BY <1>1, <1>4 DEF Plottable
  <1>7. DefaultView(f, x) \in Defaults
    BY <1>6 DEF DefaultView, HasDefault
  <1> QED BY <1>5, <1>7, ViewAssumption

LEMMA OpenViewStartsWithAnImage ==
    ASSUME Plottable, OpenView
    PROVE  StartsWithAnImage'
  <1>1. /\ Opened' = Opened /\ labelled' = labelled /\ Earliest' = Earliest
        /\ file' = Restored.file /\ defined' = FALSE
        /\ listed' = IF Earliest \in Opened THEN Has[Earliest] ELSE {}
        /\ selection' = InitialView(file', listed')
        /\ Opened # {}
    BY DEF OpenView, Opened, Earliest
  <1>2. Opened \in SUBSET Files /\ Files # {}
    BY <1>1 DEF Opened
  <1>3. CASE Earliest \notin Opened
    <2>1. Opened \cap labelled = {}
      BY <1>2, <1>3, LowestIsThere DEF Earliest
    <2>2. Lowest(Files) \notin Opened
      BY <2>1, <1>3 DEF Earliest
    <2> QED BY <1>1, <2>1, <2>2 DEF StartsWithAnImage
  <1>4. CASE Earliest \in Opened
    <2>1. listed' = Has[Earliest] /\ Earliest \in Files
      BY <1>1, <1>2, <1>4
    <2>2. Has[Earliest] # {}
      BY <2>1 DEF Plottable
    <2>3. CASE file' = Earliest
      <3>1. selection' \in Views
        BY <1>1, <1>4, <2>1, <2>3, InitialViewIsThere
      <3> QED BY <3>1 DEF StartsWithAnImage
    <2>4. CASE file' # Earliest /\ listed' \subseteq VariablesOf(file)'
      <3>1. VariablesOf(file)' = IF file' \in Opened THEN Has[file'] ELSE {}
        BY <1>1 DEF VariablesOf
      <3>2. file' \in Opened /\ Has[Earliest] \subseteq Has[file']
        BY <2>1, <2>2, <2>4, <3>1
      <3>3. selection' \in Views
        BY <1>1, <2>1, <3>2, InitialViewIsThere
      <3> QED BY <3>3 DEF StartsWithAnImage
    <2>5. CASE file' # Earliest /\ ~(listed' \subseteq VariablesOf(file)')
      BY <1>1, <2>5 DEF StartsWithAnImage
    <2> QED BY <2>3, <2>4, <2>5
  <1> QED BY <1>3, <1>4

(* A launch that opened a file starts with a read of it, if every file has  *)
(* a variable that can be shown.                                            *)
THEOREM LaunchStartsWithAnImage ==
    ASSUME Plottable
    PROVE  LaunchSpec => []StartsWithAnImage
  <1> DEFINE Inv == commands \in Nat /\ StartsWithAnImage
  <1>1. LaunchInit => Inv
    BY DEF LaunchInit, StartsWithAnImage
  <1>2. Inv /\ [LaunchNext]_launchVars => Inv'
    <2> SUFFICES ASSUME Inv, [LaunchNext]_launchVars PROVE Inv'
      OBVIOUS
    <2>1. ASSUME phase' # "viewing", commands' \in {commands, 0} PROVE Inv'
      BY <2>1 DEF StartsWithAnImage
    <2>2. ASSUME Command PROVE Inv'
      BY <2>2 DEF Command, StartsWithAnImage
    <2>3. ASSUME UNCHANGED <<selection, listed, phase, loader, labelled, file, defined, commands>>
          PROVE  Inv'
      BY <2>3 DEF StartsWithAnImage, Opened, Earliest, VariablesOf
    <2>4. CASE UNCHANGED launchVars
      BY <2>3, <2>4 DEF launchVars, view
    <2>5. CASE Launch
      BY <2>1, <2>5 DEF Launch
    <2>6. ASSUME NEW f \in Files, Loader(f) PROVE Inv'
      BY <2>1, <2>6 DEF Loader
    <2>7. CASE OpenView
      BY <2>7, OpenViewStartsWithAnImage DEF OpenView
    <2>8. CASE End
      BY <2>1, <2>8 DEF End
    <2>9. CASE ReadEnds
      BY <2>3, <2>9 DEF ReadEnds, Answered, ReadFailed, Shown
    <2>10. CASE Quit
      BY <2>1, <2>10 DEF Quit
    <2> QED BY <2>2, <2>4, <2>5, <2>6, <2>7, <2>8, <2>9, <2>10
            DEF LaunchNext, OnView, SwitchFile, StepToFile, DefineFormula, RemoveFormula, EndLoading, Write, Crash
  <1> QED BY <1>1, <1>2, PTL DEF LaunchSpec
=============================================================================
