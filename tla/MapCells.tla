------------------------------- MODULE MapCells -------------------------------
(* What the map draws in each cell of the terminal and which cell of the    *)
(* data a pointer there means: the cell fallback and the marks of           *)
(* ui/canvas.rs, the picture of render/raster.rs, the hit test of main.rs   *)
(* and analysis/mapping.rs, and the rectangle dragged over them.  The map   *)
(* is drawn from the samples of the image, the pointer is resolved against  *)
(* its window; the two differ when an MPAS read refined the window.  Drags  *)
(* are made with Shift, which zooms and never pans (see Viewport), and the  *)
(* picture is taken to fill the cells of its area.                          *)
(*                                                                          *)
(* A picture is encoded by a thread of its own (see ImageSlots): until it   *)
(* is there the previous one stays on screen, and its area is the one that  *)
(* pointers and marks are measured in.                                      *)
EXTENDS Integers, FiniteSets

CONSTANTS Planes,    \* planes: rows, cols, flip, and how much finer a zoom is sampled
          Canvases,  \* bound: sizes of the inside of the map panel
          Nowhere    \* None

ASSUME PlaneAssumption ==
    \A p \in Planes : {p.rows, p.cols, p.finer} \subseteq Nat \ {0} /\ p.flip \in BOOLEAN
ASSUME InnerAssumption == \A c \in Canvases : {c.w, c.h} \subseteq Nat \ {0}

VARIABLES plane,     \* the plane selected
          image,     \* the slice on screen: its window and samples per cell
          inner,     \* inside of the map panel
          graphics,  \* the terminal shows pictures
          encoded,   \* image of the protocol: its pixels, and whether they are of this slice
          zoomed,    \* zoom_bounds
          point,     \* selected_point
          box,       \* drag
          pointer    \* the last pointer event over this image: where and what

cellVars == <<plane, image, inner, graphics, encoded, zoomed, point, box, pointer>>

Lower(a, b)  == IF a <= b THEN a ELSE b
Higher(a, b) == IF a >= b THEN a ELSE b
Between(x, lo, hi) == Higher(lo, Lower(x, hi))

\* position i on a scale of "from" steps, on one of "to" steps
Rescaled(i, from, to) == (i * to) \div from
Mirrored(i, n) == IF plane.flip THEN n - 1 - i ELSE i

At(r, c) == [row |-> r, col |-> c]
Rect(r0, r1, c0, c1) == [r0 |-> r0, r1 |-> r1, c0 |-> c0, c1 |-> c1]
Holds(w, s) == s.row \in w.r0 .. w.r1 - 1 /\ s.col \in w.c0 .. w.c1 - 1

Whole == Rect(0, plane.rows, 0, plane.cols)

\* the window, and the samples of the slice that fills it
NRows == image.window.r1 - image.window.r0
NCols == image.window.c1 - image.window.c0
SampleRows == NRows * image.factor
SampleCols == NCols * image.factor

\* source_cell_of_sample
CellOfSample(r, c) == At(image.window.r0 + r \div image.factor,
                         image.window.c0 + c \div image.factor)

\* centre_sample_for_source
CentreSample(s) == At((s.row - image.window.r0) * image.factor + image.factor \div 2,
                      (s.col - image.window.c0) * image.factor + image.factor \div 2)

-----------------------------------------------------------------------------
\* The picture: pixels are bins of samples

Rounded(a, b) == (2 * a + b) \div (2 * b)

PixelsWide == 4 * inner.w
PixelsHigh == 8 * inner.h
RowsLimit == PixelsHigh * SampleCols <= PixelsWide * SampleRows

\* fit_within: it never has more pixels than samples
PictureRows ==
    IF PixelsHigh >= SampleRows /\ PixelsWide >= SampleCols THEN SampleRows
    ELSE IF RowsLimit THEN PixelsHigh
    ELSE Between(Rounded(SampleRows * PixelsWide, SampleCols), 1, SampleRows)
PictureCols ==
    IF PixelsHigh >= SampleRows /\ PixelsWide >= SampleCols THEN SampleCols
    ELSE IF ~RowsLimit THEN PixelsWide
    ELSE Between(Rounded(SampleCols * PixelsHigh, SampleRows), 1, SampleCols)

\* Mutant: each bin ends where a bin of the rounded size would.
BinOfEqualSize(i, n, out) ==
    LET size == Higher(n \div out, 1) IN i * size .. Lower((i + 1) * size, n) - 1

\* bin_range
Bin(i, n, out) ==
    LET start == Rescaled(i, out, n)
    IN  start .. Lower(Higher(Rescaled(i + 1, out, n), start + 1), n) - 1

\* rasterize: the samples a pixel is the mean of
RowsOfPixel(i) == {Mirrored(r, SampleRows) : r \in Bin(i, SampleRows, PictureRows)}
ColsOfPixel(i) == Bin(i, SampleCols, PictureCols)

\* the picture of this slice
Sized == [rows |-> PictureRows, cols |-> PictureCols, current |-> TRUE]

\* the picture on screen is the one of this slice
UpToDate == ~graphics \/ (encoded # Nowhere /\ encoded.current)

(* size_for(Resize::Scale): the picture is scaled to the panel, keeping its *)
(* proportions, on cells twice as high as wide.                             *)
Ceil(a, b) == (a + b - 1) \div b
AreaOf(picture) ==
    IF PixelsHigh * picture.cols <= PixelsWide * picture.rows
    THEN [w |-> Higher(Lower(Ceil(picture.cols * PixelsHigh, picture.rows * 4), inner.w), 1),
          h |-> inner.h]
    ELSE [w |-> inner.w,
          h |-> Higher(Lower(Ceil(picture.rows * PixelsWide, picture.cols * 8), inner.h), 1)]

\* drawable_area: the whole panel until a picture is there
Drawable ==
    IF ~graphics
    THEN [w |-> Lower(inner.w, SampleCols), h |-> Lower(inner.h, SampleRows)]
    ELSE IF encoded = Nowhere THEN inner ELSE AreaOf(encoded)

-----------------------------------------------------------------------------
\* What is drawn

\* the cell fallback takes one sample for each cell of the terminal
SampleAt(p) == At(Mirrored(Rescaled(p.y, Drawable.h, SampleRows), SampleRows),
                  Rescaled(p.x, Drawable.w, SampleCols))

\* the pixels, of "out" in a row of n cells, that cell i touches
Touches(i, n, out) == Rescaled(i, n, out) .. Lower(Ceil((i + 1) * out, n), out) - 1

SamplesAt(p) ==
    IF ~graphics THEN {SampleAt(p)}
    ELSE {At(r, c) : r \in UNION {RowsOfPixel(i) : i \in Touches(p.y, Drawable.h, PictureRows)},
                     c \in UNION {ColsOfPixel(i) : i \in Touches(p.x, Drawable.w, PictureCols)}}

\* the cells of the data drawn at a cell of the terminal
DrawnAt(p) == {CellOfSample(s.row, s.col) : s \in SamplesAt(p)}

Places(d) == [x : 0 .. d.w - 1, y : 0 .. d.h - 1]

\* Mutant: the marker ignores that the rows are drawn from the other end.
MarkersUnflipped(s) ==
    IF ~Holds(image.window, s) THEN {}
    ELSE {[x |-> Rescaled(CentreSample(s).col, SampleCols, Drawable.w),
           y |-> Rescaled(CentreSample(s).row, SampleRows, Drawable.h)]}

\* the fallback marks every cell drawn of s, render_selected_marker one cell
Markers(s) ==
    IF ~Holds(image.window, s) THEN {}
    ELSE IF ~graphics THEN {p \in Places(Drawable) : DrawnAt(p) = {s}}
    ELSE {[x |-> Rescaled(CentreSample(s).col, SampleCols, Drawable.w),
           y |-> Rescaled(Mirrored(CentreSample(s).row, SampleRows), SampleRows, Drawable.h)]}

-----------------------------------------------------------------------------
\* What the pointer means

\* Mutant: the pointer is resolved against the panel, not what is drawn in it.
CellUnderPanel(p) ==
    IF p \notin Places(inner) THEN Nowhere
    ELSE At(image.window.r0 + Mirrored(Rescaled(p.y, inner.h, NRows), NRows),
            image.window.c0 + Rescaled(p.x, inner.w, NCols))

\* map_point_at, screen_to_source_with_row_flip
CellUnder(p) ==
    IF p \notin Places(Drawable) THEN Nowhere
    ELSE At(image.window.r0 + Mirrored(Rescaled(p.y, Drawable.h, NRows), NRows),
            image.window.c0 + Rescaled(p.x, Drawable.w, NCols))

Edges(d) ==
    LET x(p) == Between(p.x, 0, Drawable.w - 1)   y(p) == Between(p.y, 0, Drawable.h - 1)
    IN  [left |-> Lower(x(d.start), x(d.end)), right |-> Higher(x(d.start), x(d.end)),
         top |-> Lower(y(d.start), y(d.end)), bottom |-> Higher(y(d.start), y(d.end))]

Boxes(d) == Edges(d).left # Edges(d).right /\ Edges(d).top # Edges(d).bottom

\* bounds_with_row_flip: display rows, then the rows of the source
Covered(first, last, cells, n) ==
    LET start == Rescaled(first, cells, n)
    IN  [start |-> start,
         end |-> Lower(Higher(Rescaled(last + 1, cells, n), start + 1), n)]

\* Mutant: the window is taken in display rows.
BoxWindowUnflipped(d) ==
    LET rows == Covered(Edges(d).top, Edges(d).bottom, Drawable.h, NRows)
        cols == Covered(Edges(d).left, Edges(d).right, Drawable.w, NCols)
    IN  Rect(image.window.r0 + rows.start, image.window.r0 + rows.end,
             image.window.c0 + cols.start, image.window.c0 + cols.end)

BoxWindow(d) ==
    LET rows == Covered(Edges(d).top, Edges(d).bottom, Drawable.h, NRows)
        cols == Covered(Edges(d).left, Edges(d).right, Drawable.w, NCols)
    IN  Rect(image.window.r0 + IF plane.flip THEN NRows - rows.end ELSE rows.start,
             image.window.r0 + IF plane.flip THEN NRows - rows.start ELSE rows.end,
             image.window.c0 + cols.start, image.window.c0 + cols.end)

-----------------------------------------------------------------------------
Forgotten == pointer' = Nowhere

\* the picture on screen is of what was to be drawn before
Stale == encoded' = IF encoded = Nowhere THEN Nowhere ELSE [encoded EXCEPT !.current = FALSE]

MapInit ==
    /\ plane \in Planes /\ inner \in Canvases /\ graphics \in BOOLEAN
    /\ image = [window |-> Whole, factor |-> 1]
    /\ encoded = Nowhere /\ zoomed = Nowhere /\ point = Nowhere
    /\ box = Nowhere /\ pointer = Nowhere

\* the image of the current view arrives; MPAS samples a zoomed window finer
ImageArrives ==
    /\ image' = IF zoomed = Nowhere THEN [window |-> Whole, factor |-> 1]
                ELSE [window |-> zoomed, factor |-> plane.finer]
    /\ Stale /\ Forgotten
    /\ UNCHANGED <<plane, inner, graphics, zoomed, point, box>>

Resize(c) ==
    /\ inner' = c
    /\ Stale /\ Forgotten
    /\ UNCHANGED <<plane, image, graphics, zoomed, point, box>>

(* finish_pending: the picture of what is to be drawn now; any other is     *)
(* discarded.  The frame that installs it still takes the area of the one   *)
(* before for its diamond; marks are claimed of the next frame on.          *)
PictureEncoded ==
    /\ graphics /\ encoded # Sized
    /\ encoded' = Sized
    /\ Forgotten
    /\ UNCHANGED <<plane, image, inner, graphics, zoomed, point, box>>

\* cycle_filter, reset_filter
PictureDropped ==
    /\ encoded # Nowhere
    /\ encoded' = Nowhere
    /\ Forgotten
    /\ UNCHANGED <<plane, image, inner, graphics, zoomed, point, box>>

Pointed(p) == pointer' = [at |-> p, cell |-> CellUnder(p)]

\* HoverPoint, or ClearHover beside the map
Hover(p) ==
    /\ box = Nowhere
    /\ Pointed(p)
    /\ UNCHANGED <<plane, image, inner, graphics, encoded, zoomed, point, box>>

\* UpdateDrag
Drag(p) ==
    /\ box # Nowhere
    /\ box' = [box EXCEPT !.end = p]
    /\ UNCHANGED <<plane, image, inner, graphics, encoded, zoomed, point, pointer>>

\* translate_begin_drag
Press(p) ==
    /\ p \in Places(Drawable)
    /\ box' = [start |-> p, end |-> p]
    /\ Forgotten
    /\ UNCHANGED <<plane, image, inner, graphics, encoded, zoomed, point>>

\* translate_mouse_release: a rectangle zooms, anything else is a click
ReleaseBox ==
    /\ box # Nowhere /\ Boxes(box)
    /\ zoomed' = BoxWindow(box)
    /\ box' = Nowhere
    /\ Forgotten
    /\ UNCHANGED <<plane, image, inner, graphics, encoded, point>>

ReleaseClick ==
    /\ box # Nowhere /\ ~Boxes(box)
    /\ Pointed(box.end)
    /\ point' = IF CellUnder(box.end) = Nowhere THEN point ELSE CellUnder(box.end)
    /\ box' = Nowhere
    /\ UNCHANGED <<plane, image, inner, graphics, encoded, zoomed>>

\* r
ShowWhole ==
    /\ zoomed' = Nowhere /\ box' = Nowhere
    /\ UNCHANGED <<plane, image, inner, graphics, encoded, point, pointer>>

\* the pointer also leaves the panel by one cell
MapNext ==
    \/ ImageArrives \/ PictureEncoded \/ PictureDropped
    \/ ReleaseBox \/ ReleaseClick \/ ShowWhole
    \/ \E c \in Canvases : Resize(c)
    \/ \E p \in [x : 0 .. inner.w, y : 0 .. inner.h] :
         Hover(p) \/ Drag(p) \/ Press(p)

CellSpec == MapInit /\ [][MapNext]_cellVars

-----------------------------------------------------------------------------
(* A click or a hover means data that is drawn under the pointer, whatever  *)
(* the size of the panel, the order of the rows and the samples per cell    *)
(* (docs/explanation/data-fidelity.md: a click always identifies the exact  *)
(* source cell).  It is claimed of the slice whose picture is on screen:    *)
(* the pointer means this slice already while the picture is of the last.   *)
PointerOnItsCell ==
    UpToDate /\ pointer # Nowhere /\ pointer.cell # Nowhere =>
        pointer.cell \in DrawnAt(pointer.at)

\* a cell, or the next one along an axis on which the picture is reduced
Beside(p) ==
    {q \in Places(Drawable) :
       /\ q.x = p.x \/ (PictureCols < SampleCols /\ q.x = p.x + 1)
       /\ q.y = p.y \/ (PictureRows < SampleRows /\ q.y = p.y + 1)}

(* The diamond of a pinned point stands where the point is drawn, or one    *)
(* cell before: the sample is rescaled to a cell as if it were as wide as   *)
(* the pixel it went into.  A picture always has it, the cell fallback as   *)
(* soon as any cell is drawn of it, and then on the cell that was clicked.  *)
MarkerOnItsPoint ==
    UpToDate /\ point # Nowhere =>
        /\ \A p \in Markers(point) :
             p \in Places(Drawable) /\ \E q \in Beside(p) : point \in DrawnAt(q)
        /\ graphics /\ Holds(image.window, point) => Markers(point) # {}
        /\ ~graphics /\ pointer # Nowhere /\ pointer.cell = point
             => pointer.at \in Markers(point)

(* The picture leaves no sample out and counts none twice, although its     *)
(* pixels are bins of different sizes.                                      *)
PictureIsWhole ==
    graphics =>
        /\ \A r \in 0 .. SampleRows - 1 :
             Cardinality({i \in 0 .. PictureRows - 1 : r \in RowsOfPixel(i)}) = 1
        /\ \A c \in 0 .. SampleCols - 1 :
             Cardinality({i \in 0 .. PictureCols - 1 : c \in ColsOfPixel(i)}) = 1

\* row or column i of n lies under (touches) the cells first .. last of the display
Under(i, n, first, last, cells) == i * cells < (last + 1) * n /\ (i + 1) * cells > first * n
Inside(i, n, first, last, cells) == i * cells >= first * n /\ (i + 1) * cells <= (last + 1) * n

\* the rows and columns under the cells "first .. last": wholly, and at all
RowsUnder(e, T(_, _, _, _, _)) ==
    {image.window.r0 + Mirrored(i, NRows) :
       i \in {k \in 0 .. NRows - 1 : T(k, NRows, e.top, e.bottom, Drawable.h)}}
ColsUnder(e, T(_, _, _, _, _)) ==
    {image.window.c0 + i :
       i \in {k \in 0 .. NCols - 1 : T(k, NCols, e.left, e.right, Drawable.w)}}

(* A rectangle zooms to the data under it: every row and column that lies   *)
(* wholly under the rectangle drawn, and none that it does not touch.       *)
ZoomsToBox ==
    box # Nowhere /\ zoomed' \notin {zoomed, Nowhere} =>
        LET rows == zoomed'.r0 .. zoomed'.r1 - 1
            cols == zoomed'.c0 .. zoomed'.c1 - 1
        IN  /\ RowsUnder(Edges(box), Inside) \subseteq rows
            /\ rows \subseteq RowsUnder(Edges(box), Under)
            /\ ColsUnder(Edges(box), Inside) \subseteq cols
            /\ cols \subseteq ColsUnder(Edges(box), Under)
            /\ rows # {} /\ cols # {}
ZoomIsOfBox == [][ZoomsToBox]_cellVars
=============================================================================
