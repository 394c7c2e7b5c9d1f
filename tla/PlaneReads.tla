------------------------------ MODULE PlaneReads ------------------------------
(* From a variable with any number of dimensions to the cells on screen:    *)
(* the plane, its window and the indices of the other dimensions that       *)
(* load_selected asks for, what the readers (data/netcdf4.rs, netcdf3.rs,   *)
(* mpas.rs, grib2.rs, manifest.rs) give for it, the coordinates that come   *)
(* with it and what the plots of main.rs read again.  An element of the variable is the *)
(* tuple of its indices, one for each dimension in stored order, so that a  *)
(* cell tells where it was read; likewise a coordinate value.  When reads   *)
(* and plots are computed and answered is the subject of SliceLoading and   *)
(* PlotLoading.                                                             *)
EXTENDS Naturals, Sequences, FiniteSetsExt

CONSTANTS Datasets,    \* variables with their dimensions, coordinates and format
          Rectangles,  \* the windows a user may drag
          MaxPresses,  \* bound: commands
          Missing      \* None, NaN or an error

Dimensions == [length : Nat, role : STRING, named : STRING, looks : STRING, token : STRING]
\* virtual_metadata of mpas.rs gives a variable of the mesh two dimensions of its
\* own; a GRIB2 variable has no others
ASSUME DatasetAssumption ==
    \A d \in Datasets :
      /\ d.format \in {"netcdf4", "netcdf3", "mpas", "grib2", "manifest"}
      /\ d.dims \in Seq(Dimensions) /\ Len(d.dims) >= 2
      /\ d.format = "mpas" => {"lat", "lon"} \subseteq {d.dims[i].role : i \in DOMAIN d.dims}
      /\ d.format = "grib2" => <<d.dims[1].role, d.dims[2].role, Len(d.dims)>> = <<"lat", "lon", 2>>
      /\ d.format = "manifest" => d.chunks \in Seq(Nat \ {0}) /\ Len(d.chunks) = Len(d.dims)
\* Bounds::new refuses a window without cells
ASSUME RectangleAssumption ==
    /\ Rectangles \subseteq [top : Nat, bottom : Nat, left : Nat, right : Nat]
    /\ \A b \in Rectangles : b.top < b.bottom /\ b.left < b.right
ASSUME MissingAssumption == Missing \notin Nat

VARIABLES data,       \* the variable of the active file
          plane,      \* axes, time and depth indices, fixed_dimensions, zoom_bounds
          asked,      \* the read that has not been answered, or Missing
          held,       \* slice: the plane on screen, or Missing
          gridCache,  \* coordinate_grid_cache
          pinned,     \* selected_point with its coordinates, or Missing
          curve,      \* plot_series, or Missing
          presses     \* bound only

planeVars == <<data, plane, asked, held, gridCache, pinned, curve, presses>>

Rank      == Len(data.dims)
Axes      == 1 .. Rank
Length(i) == data.dims[i].length
\* Dimension::role of the metadata; what role_for_name of NetCDF-4, the words of
\* default_display_axes and those of resolve_plane_axes make of the name
Role(i)       == data.dims[i].role
NamedRole(i)  == data.dims[i].named
WithRole(r)   == {i \in Axes : Role(i) = r}
Named(r)      == {i \in Axes : NamedRole(i) = r}
Looking(word) == {i \in Axes : data.dims[i].looks = word}
Token(word)   == {i \in Axes : data.dims[i].token = word}

FirstOf(S, otherwise) == IF S = {} THEN otherwise ELSE Min(S)
LengthOf(r) == IF WithRole(r) = {} THEN 1 ELSE Length(Min(WithRole(r)))
AtMost(n, length) == Min({n, Max({length - 1, 0})})

\* Bounds: half open, in indices of the plane
Box(top, bottom, left, right) ==
    [top |-> top, bottom |-> bottom, left |-> left, right |-> right]
Whole(row, col) == Box(0, Length(row), 0, Length(col))
Fits(b, whole) == b.bottom <= whole.bottom /\ b.right <= whole.right
CellsOf(b) == (b.top .. b.bottom - 1) \X (b.left .. b.right - 1)
OneCell(p) == Box(p[1], p[1] + 1, p[2], p[2] + 1)

Element(row, col, p, rest) ==
    [i \in Axes |-> CASE i = row -> p[1] [] i = col -> p[2] [] OTHER -> rest[i]]

LastOf(S) == IF S = {} THEN Rank ELSE Max(S)
Lasting == Looking("x") \cup Looking("y") \cup Looking("none")

LastTwo(otherwise) ==
    IF Cardinality(Lasting) < 2 THEN otherwise ELSE <<Max(Lasting \ {Max(Lasting)}), Max(Lasting)>>

\* default_axes of app.rs, which has only the names, or else the last two: <<row, column>>
AxesByName(otherwise) ==
    IF Looking("x") # {} /\ Looking("y") # {} THEN <<Min(Looking("y")), Min(Looking("x"))>>
    ELSE LastTwo(otherwise)

\* default_display_axes, by role or by name
DefaultAxes ==
    IF WithRole("lon") # {} /\ WithRole("lat") # {}
    THEN <<Min(WithRole("lat")), Min(WithRole("lon"))>>
    ELSE AxesByName(<<Rank - 1, LastOf(Lasting)>>)

ResetAxes == AxesByName(<<Min(Axes \ {LastOf(Lasting)}), LastOf(Lasting)>>)

-----------------------------------------------------------------------------
\* The readers.  A request without axes has row and col Missing.

\* spatial_axes and resolve_plane_axes of NetCDF-4
SpatialAxes ==
    LET named == <<FirstOf(Named("lat"), Rank - 1), FirstOf(Named("lon"), Rank)>>
        flat == Axes \ (Named("time") \cup Named("depth"))
        last == IF Cardinality(flat) < 2 THEN Axes ELSE flat
    IN  CASE data.coords.kind = "grid" -> data.coords.dims
          [] data.coords.kind # "grid" /\ named # <<Rank - 1, Rank>> /\ named[1] # named[2] -> named
          [] OTHER ->
               IF Token("row") # {} /\ Token("col") # {}
               THEN <<Min(Token("row")), Min(Token("col"))>>
               ELSE <<Max(last \ {Max(last)}), Max(last)>>

\* the axes a reader makes rows and columns of, whatever it was asked for
PlaneOf(req) ==
    CASE data.format = "netcdf4" /\ req.row # Missing -> <<req.row, req.col>>
      [] data.format = "netcdf4" /\ req.row = Missing -> SpatialAxes
      [] data.format = "netcdf3" -> <<1, 2>>
      [] data.format = "manifest" -> <<Rank - 1, Rank>>
      [] OTHER -> <<Min(WithRole("lat")), Min(WithRole("lon"))>>

\* NetCDF-4 takes an unnamed first leading axis for the time, a second for the depth
Inferred(i, rc) ==
    CASE Cardinality({j \in 1 .. i : j \notin {rc[1], rc[2]}}) = 1 -> "time"
      [] Cardinality({j \in 1 .. i : j \notin {rc[1], rc[2]}}) = 2 -> "depth"
      [] OTHER -> "other"

RoleRead(i, rc) ==
    CASE data.format # "netcdf4" -> Role(i)
      [] data.format = "netcdf4" /\ NamedRole(i) = "other" -> Inferred(i, rc)
      [] OTHER -> NamedRole(i)

\* Mutant: the indices the user chose are forgotten.
IndicesByRole(req, i, rc) ==
    CASE RoleRead(i, rc) = "time" -> {req.time}
      [] RoleRead(i, rc) = "depth" -> {req.depth}
      [] OTHER -> {0}

\* the index of a dimension outside the plane, none if it cannot be told
Indices(req, i, rc) ==
    CASE i \in DOMAIN req.fixed -> {req.fixed[i]}
      [] i \notin DOMAIN req.fixed /\ RoleRead(i, rc) = "time" -> {req.time}
      [] i \notin DOMAIN req.fixed /\ RoleRead(i, rc) = "depth" -> {req.depth}
      [] OTHER -> IF RoleRead(i, rc) = "other" /\ Length(i) # 1 THEN {} ELSE {0}

Readable(req, rc) ==
    /\ rc[1] # rc[2]
    /\ Fits(req.bounds, Whole(rc[1], rc[2]))
    /\ \A i \in Axes \ {rc[1], rc[2]} : \E k \in Indices(req, i, rc) : k < Length(i)

\* NetCDF-4 values arrive in stored order and fill the rows of the window
Filled(b, rc, p) ==
    LET rows == b.bottom - b.top
        cols == b.right - b.left
        nth == (p[1] - b.top) * cols + p[2] - b.left
    IN  IF data.format # "netcdf4" \/ rc[1] < rc[2] THEN p
        ELSE <<b.top + (nth % rows), b.left + (nth \div rows)>>

\* A manifest lists chunks of a variable under their keys: resolve_chunk_key
Listed(key) ==
    /\ DOMAIN key = Axes /\ key \notin data.absent
    /\ \A i \in Axes : key[i] * data.chunks[i] < Length(i)

\* read_chunk_bytes: a chunk that cannot be read is passed over like one not listed
Fetched(key) == Listed(key) /\ key \notin data.unread

\* the chunk in which read_slice looks for a cell: after the rows and columns
\* the first place is the time's and the second the level's, whatever they are
ChunkKey(req, p) ==
    LET spatial == Min({Rank, 4}) - 1
        at == CASE Rank = 2 -> p
                [] Rank = 3 -> <<req.time>> \o p
                [] OTHER -> <<req.time, req.depth>> \o p
        Size(i) == data.chunks[IF i < spatial THEN i ELSE Rank - spatial - 1 + i]
    IN  [i \in DOMAIN at |-> at[i] \div Size(i)]

\* the value in it: of the first step and the first level that the chunk holds;
\* past the end of the array a chunk is padded with fill values
InChunk(req, p) ==
    LET key == ChunkKey(req, p)
    IN  IF ~Fetched(key) \/ p[1] >= Length(Rank - 1) \/ p[2] >= Length(Rank) THEN Missing
        ELSE Element(Rank - 1, Rank, p, [i \in Axes |-> key[i] * data.chunks[i]])

\* NetCdf3Source::read_slice: the window of a variable of two dimensions
NetCdf3Cells(b) ==
    IF Rank = 2 /\ Fits(b, Whole(1, 2)) THEN [p \in CellsOf(b) |-> p] ELSE Missing

\* Grib2Source::read_slice_on_axes: the latitudes by the longitudes and no other axes
Grib2Cells(req) ==
    LET rc == PlaneOf(req) IN
    IF req.row \in {Missing, rc[1]} /\ req.col \in {Missing, rc[2]} /\ Fits(req.bounds, Whole(rc[1], rc[2]))
    THEN [p \in CellsOf(req.bounds) |-> Element(rc[1], rc[2], p, [i \in Axes |-> 0])]
    ELSE Missing

Cells(req) ==
    LET rc == PlaneOf(req)
        rest == [i \in Axes \ {rc[1], rc[2]} |-> CHOOSE k \in Indices(req, i, rc) : TRUE]
    IN  CASE data.format = "netcdf3" -> NetCdf3Cells(req.bounds)
          [] data.format = "grib2" -> Grib2Cells(req)
          [] data.format = "manifest" -> [p \in CellsOf(req.bounds) |-> InChunk(req, p)]
          [] OTHER ->
               IF ~Readable(req, rc) THEN Missing
               ELSE [p \in CellsOf(req.bounds) |->
                       Element(rc[1], rc[2], Filled(req.bounds, rc, p), rest)]

\* Mutant: the coordinates are counted from the corner of the window.
CoordinatesOfWindow(which, rc, b) ==
    IF data.coords.kind = "none" THEN Missing
    ELSE [p \in CellsOf(b) |->
            LET q == <<p[1] - b.top, p[2] - b.left>> IN
            IF data.coords.kind = "axes" THEN <<q[which]>> ELSE q]

\* coordinate_variable and read_coordinate_plane: the latitudes (1) or longitudes (2)
Coordinates(which, rc, b) ==
    LET dims == data.coords.dims IN
    CASE data.coords.kind = "none" -> Missing
      [] data.coords.kind = "axes" ->
           IF Length(dims[which]) # Length(rc[which]) THEN Missing
           ELSE [p \in CellsOf(b) |-> <<p[which]>>]
      [] OTHER ->
           IF Length(dims[1]) = Length(rc[1]) /\ Length(dims[2]) = Length(rc[2]) THEN [p \in CellsOf(b) |-> p]
           ELSE IF Length(dims[1]) = Length(rc[2]) /\ Length(dims[2]) = Length(rc[1])
           THEN [p \in CellsOf(b) |-> <<p[2], p[1]>>]
           ELSE Missing

\* read_coordinate_grid: only NetCDF-4 keeps what it read, under the window
GridFor(cache, req) ==
    IF data.format = "netcdf4" /\ cache # Missing /\ cache.bounds = req.bounds THEN cache
    ELSE [bounds |-> req.bounds, axes |-> PlaneOf(req),
          grid |-> [which \in 1 .. 2 |-> Coordinates(which, PlaneOf(req), req.bounds)]]

CacheAfter(cache, req) ==
    IF data.format # "netcdf4" \/ ~Readable(req, PlaneOf(req)) THEN cache ELSE GridFor(cache, req)

-----------------------------------------------------------------------------
\* load_selected

\* fixed_dimensions: the dimensions that are neither shown nor time nor depth
Held(p, i) == i \notin {p.x, p.y} /\ Role(i) \notin {"time", "depth"}

Clamped(p) ==
    LET levels == IF Role(p.x) = "depth" \/ Role(p.y) = "depth" THEN 1 ELSE LengthOf("depth")
    IN  [p EXCEPT !.depth = AtMost(@, levels),
                  !.fixed = [i \in Axes |-> IF Held(p, i) THEN AtMost(@[i], Length(i)) ELSE 0]]

\* fixed_axes_for_plane
FixedAxes(p) ==
    [i \in Axes \ {p.x, p.y} |->
       AtMost(CASE Role(i) = "time" -> p.time [] Role(i) = "depth" -> p.depth [] OTHER -> p.fixed[i],
              Length(i))]

\* plane_bounds
Full(p) == Whole(p.y, p.x)

Request(p, b) ==
    [bounds |-> b, time |-> p.time, depth |-> p.depth, row |-> p.y, col |-> p.x,
     fixed |-> FixedAxes(p)]

Load(p) ==
    LET q == Clamped(p) IN
    /\ plane' = q
    /\ asked' = [view |-> q, request |-> Request(q, IF q.zoom = Missing THEN Full(q) ELSE q.zoom)]

PlaneInit ==
    /\ data \in Datasets
    /\ LET opened == [x |-> DefaultAxes[2], y |-> DefaultAxes[1], time |-> 0, depth |-> 0,
                     fixed |-> [i \in Axes |-> 0], zoom |-> Missing]
       IN  /\ plane = opened
           /\ asked = [view |-> opened, request |-> Request(opened, Full(opened))]
    /\ held = Missing /\ gridCache = Missing /\ pinned = Missing /\ curve = Missing
    /\ presses = 0

Press == presses < MaxPresses /\ presses' = presses + 1 /\ UNCHANGED <<data, gridCache>>

Turned(b) == Box(b.left, b.right, b.top, b.bottom)
Swapped(f) == [p \in {<<q[2], q[1]>> : q \in DOMAIN f} |-> f[<<p[2], p[1]>>]]

\* SlicePlane::permuted_axes; of is what was asked for (specification only)
Permuted(s) ==
    [s EXCEPT !.bounds = Turned(@), !.cells = Swapped(@),
              !.grid = [which \in 1 .. 2 |-> IF @[which] = Missing THEN Missing ELSE Swapped(@[which])],
              !.of = [@ EXCEPT !.x = s.of.y, !.y = s.of.x]]

\* Command::SetAxes and the reload after it
SetDisplayAxes(x, y) ==
    /\ Press
    /\ x # y
    /\ Load([plane EXCEPT !.x = x, !.y = y, !.zoom = Missing])
    /\ held' = IF held # Missing /\ x = plane.y /\ y = plane.x THEN Permuted(held) ELSE held
    /\ pinned' = Missing /\ curve' = Missing

StepTime ==
    /\ Press
    /\ \E t \in 0 .. LengthOf("time") - 1 : t # plane.time /\ Load([plane EXCEPT !.time = t])
    /\ UNCHANGED <<held, pinned, curve>>

StepDepth ==
    /\ Press
    /\ \E d \in 0 .. LengthOf("depth") - 1 : d # plane.depth /\ Load([plane EXCEPT !.depth = d])
    /\ UNCHANGED <<held, pinned, curve>>

\* Command::MoveFixedDimension
MoveFixedDimension ==
    /\ Press
    /\ \E i \in Axes : \E k \in 0 .. Length(i) - 1 :
         /\ Held(plane, i) /\ k # plane.fixed[i]
         /\ Load([plane EXCEPT !.fixed[i] = k])
    /\ UNCHANGED <<held, pinned, curve>>

ZoomTo ==
    /\ Press
    /\ \E b \in Rectangles \cup {Missing} :
         /\ b # plane.zoom /\ (b # Missing => Fits(b, Full(plane)))
         /\ Load([plane EXCEPT !.zoom = b])
    /\ UNCHANGED <<held, pinned, curve>>

\* Command::ResetVariableView
ResetVariableView ==
    /\ Press
    /\ Load([x |-> ResetAxes[2], y |-> ResetAxes[1], time |-> 0, depth |-> 0,
             fixed |-> [i \in Axes |-> 0], zoom |-> Missing])
    /\ pinned' = Missing /\ curve' = Missing
    /\ UNCHANGED held

\* Worker and apply_remote_slice; a second read, of the whole plane, if limits are global
Answer ==
    /\ asked # Missing
    /\ asked' = Missing
    /\ LET req == asked.request
           cache == CacheAfter(gridCache, req)
       IN  /\ held' = IF Cells(req) = Missing THEN held
                      ELSE [bounds |-> req.bounds, cells |-> Cells(req), of |-> asked.view,
                            axes |-> <<req.row, req.col>>,
                            grid |-> GridFor(gridCache, req).grid,
                            gridOf |-> GridFor(gridCache, req).axes]
           /\ gridCache' \in {cache, CacheAfter(cache, Request(asked.view, Full(asked.view)))}
    /\ UNCHANGED <<data, plane, pinned, curve, presses>>

-----------------------------------------------------------------------------
\* Points and plots

\* point_coordinates: of the plane the reader would choose
PointCoordinates(p) ==
    LET rc == PlaneOf([row |-> Missing]) IN
    [which \in 1 .. 2 |->
       LET grid == Coordinates(which, rc, OneCell(p))
       IN  IF ~Fits(OneCell(p), Whole(rc[1], rc[2])) THEN Missing
           ELSE IF grid = Missing THEN Missing ELSE grid[p]]

\* a click on the map pins the source cell under it
Pin ==
    /\ Press
    /\ held # Missing
    /\ \E p \in CellsOf(held.bounds) :
         pinned' = [at |-> p, on |-> <<held.of.y, held.of.x>>, coordinates |-> PointCoordinates(p)]
    /\ curve' = Missing
    /\ UNCHANGED <<plane, asked, held>>

\* spatial_bounds
Spatial == <<FirstOf(WithRole("lat"), Rank - 1), FirstOf(WithRole("lon"), Rank)>>

\* leading_lengths
LeadingRole(i) ==
    CASE Role(i) \in {"time", "depth"} -> Role(i)
      [] Role(i) \notin {"time", "depth"} /\ i = 1 -> "time"
      [] Role(i) \notin {"time", "depth"} /\ i = 2 -> "depth"
      [] OTHER -> "other"
LeadingDepth ==
    LET deep == {i \in Axes \ {Spatial[1], Spatial[2]} : LeadingRole(i) = "depth"}
    IN  IF deep = {} THEN 1 ELSE Length(Max(deep))

Plain(time, b) ==
    [bounds |-> b, time |-> time, depth |-> AtMost(plane.depth, LeadingDepth),
     row |-> Missing, col |-> Missing, fixed |-> << >>]

OneOf(f, p) == IF f = Missing THEN Missing ELSE f[p]

\* compute_time_series
TimeSeries(p) ==
    [t \in 0 .. LengthOf("time") - 1 |->
       IF ~Fits(OneCell(p), Whole(Spatial[1], Spatial[2])) THEN Missing
       ELSE OneOf(Cells(Plain(t, OneCell(p))), p)]

\* clamp_domain_bounds
Domain ==
    LET whole == Whole(Spatial[1], Spatial[2])
        wanted == IF plane.zoom = Missing THEN whole ELSE plane.zoom
    IN  Box(AtMost(wanted.top, whole.bottom), Min({wanted.bottom, whole.bottom}),
            AtMost(wanted.left, whole.right), Min({wanted.right, whole.right}))

\* load_domain_summary
DomainSummary ==
    [t \in 0 .. LengthOf("time") - 1 |->
       LET read == Cells(Plain(t, Domain))
       IN  IF read = Missing THEN Missing ELSE {read[p] : p \in DOMAIN read}]

\* Mutant: latitude and longitude are exchanged.
DimensionIndexSwapped(i, p, time, depth) ==
    AtMost(CASE Role(i) = "lat" -> p[2] [] Role(i) = "lon" -> p[1]
             [] Role(i) = "time" -> time [] Role(i) = "depth" -> depth [] OTHER -> 0, Length(i))

\* dimension_index_for_plot
DimensionIndex(i, p, time, depth) ==
    AtMost(CASE Role(i) = "lat" -> p[1] [] Role(i) = "lon" -> p[2]
             [] Role(i) = "time" -> time [] Role(i) = "depth" -> depth [] OTHER -> 0, Length(i))

\* load_cross_section: the other axis of its plane
Across(d) == FirstOf({plane.x, plane.y} \ {d}, Min(Axes \ {d}))

\* cross_section_series
SectionRequest(d, p) ==
    LET depth == AtMost(plane.depth, LeadingDepth)
        Index(i) == DimensionIndex(i, p, plane.time, depth)
        f == Across(d)
    IN  IF data.format = "grib2"
        THEN [bounds |-> IF Role(d) = "lat" THEN Box(0, Length(Spatial[1]), p[2], p[2] + 1)
                         ELSE Box(p[1], p[1] + 1, 0, Length(Spatial[2])),
              time |-> plane.time, depth |-> depth,
              row |-> Spatial[1], col |-> Spatial[2], fixed |-> << >>]
        ELSE [bounds |-> Box(0, Length(d), Index(f), Index(f) + 1),
              time |-> plane.time, depth |-> depth, row |-> d, col |-> f,
              fixed |-> [i \in Axes \ {d, f} |-> Index(i)]]

CrossSection(d, p) ==
    LET read == Cells(SectionRequest(d, p))
        at == SectionRequest(d, p).bounds
        count == IF data.format = "grib2" /\ Role(d) # "lat" THEN at.right ELSE at.bottom
    IN  [n \in 0 .. count - 1 |->
           IF read = Missing \/ ~Fits(OneCell(p), Whole(Spatial[1], Spatial[2])) THEN Missing
           ELSE IF data.format = "grib2" /\ Role(d) # "lat" THEN read[<<at.top, n>>]
           ELSE read[<<n, at.left>>]]

Plot ==
    /\ Press
    /\ \/ /\ pinned = Missing
          /\ curve' = [kind |-> "domain", on |-> DefaultAxes, samples |-> DomainSummary, of |-> plane]
       \/ /\ pinned # Missing
          /\ curve' = [kind |-> "time", at |-> pinned.at, on |-> pinned.on, of |-> plane,
                       samples |-> TimeSeries(pinned.at)]
       \/ /\ pinned # Missing
          /\ \E d \in Axes :
               curve' = [kind |-> "section", along |-> d, at |-> pinned.at, on |-> pinned.on,
                         of |-> plane, samples |-> CrossSection(d, pinned.at)]
    /\ UNCHANGED <<plane, asked, held, pinned>>

PlaneCommand ==
    \/ \E x, y \in Axes : SetDisplayAxes(x, y)
    \/ StepTime \/ StepDepth \/ MoveFixedDimension \/ ZoomTo \/ ResetVariableView \/ Pin \/ Plot

PlaneNext == PlaneCommand \/ Answer

PlaneSpec == PlaneInit /\ [][PlaneNext]_planeVars

-----------------------------------------------------------------------------
\* The element the view v names under row p[1] and column p[2]
Denoted(v, p) ==
    [i \in Axes |->
       CASE i = v.y -> p[1]
         [] i = v.x -> p[2]
         [] OTHER -> CASE Role(i) = "time" -> v.time
                       [] Role(i) = "depth" -> v.depth
                       [] OTHER -> v.fixed[i]]

\* what a reader can give for the element e: no value where no chunk is read
Value(e) ==
    IF data.format # "manifest" THEN e
    ELSE IF Fetched([i \in Axes |-> e[i] \div data.chunks[i]]) THEN e ELSE Missing

Shows(s) == \A p \in DOMAIN s.cells : s.cells[p] = Value(Denoted(s.of, p))

\* Every cell on screen is the element of the variable that its row, its column,
\* the time, the level and the fixed indices name, for every pair of display
\* axes.  Only the violation run checks it.
PlaneIsOfView == held # Missing => Shows(held)

\* What a manifest reader takes for granted: at most a time and a level before
\* the rows, in this order, and one step of either to a chunk.
StepsAreChunks ==
    data.format = "manifest" =>
      /\ Rank <= 4
      /\ \A i \in 1 .. Rank - 2 : Role(i) = <<"time", "depth">>[i] /\ data.chunks[i] = 1

\* The axes a reader reads as they are asked for: NetCDF-4 if the rows come
\* first in the file, the others only their own; GRIB2 refuses all others.
InOrder(rc) ==
    CASE data.format = "netcdf4" -> rc[1] < rc[2]
      [] data.format = "grib2" -> TRUE
      [] OTHER -> rc = PlaneOf([row |-> Missing]) /\ StepsAreChunks

\* a second axis of times or levels follows the index of the first, up to its length
Unambiguous ==
    \A r \in {"time", "depth"} : \A i, j \in WithRole(r) : i = j

\* The same for the axes that are read as asked: neither the clamps of
\* load_selected, nor the indices of the other dimensions, nor the transposition
\* of the slice while the new one loads, put an element under the wrong cell,
\* and only the chunks that a manifest does not list or cannot fetch are left out.
PlaneInOrderIsOfView == held # Missing /\ Unambiguous /\ InOrder(held.axes) => Shows(held)

\* the value the file stores for the element e
Stored(which, e) ==
    IF data.coords.kind = "axes" THEN <<e[data.coords.dims[which]]>>
    ELSE <<e[data.coords.dims[1]], e[data.coords.dims[2]]>>

\* The latitudes and longitudes given with a slice that was read along the
\* default axes, and with a point pinned on one, are those the file stores for
\* its elements, whatever was kept in coordinate_grid_cache, unless a grid kept
\* of other axes is served for the same window (held.gridOf).
CoordinatesOfPlane ==
    /\ held # Missing /\ held.axes = DefaultAxes /\ held.gridOf = held.axes =>
         \A which \in 1 .. 2 : held.grid[which] # Missing =>
           \A p \in DOMAIN held.cells : held.grid[which][p] = Stored(which, Denoted(held.of, p))
    /\ pinned # Missing /\ pinned.on = DefaultAxes =>
         \A which \in 1 .. 2 : pinned.coordinates[which] # Missing =>
           pinned.coordinates[which] =
             Stored(which, Denoted([plane EXCEPT !.y = pinned.on[1], !.x = pinned.on[2]], pinned.at))

\* a map: latitudes by longitudes and nothing else but a time and a level
Geographic(v) ==
    /\ <<v.y, v.x>> = DefaultAxes /\ Role(v.y) = "lat" /\ Role(v.x) = "lon"
    /\ \A i \in Axes \ {v.x, v.y} : Role(i) \in {"time", "depth"}

\* the readers that ignore the axes give the rows of a section only along these
SectionIsRead(d) == data.format \in {"netcdf4", "grib2"} \/ Role(d) = "lat"

\* On a map, what a plot says of the time, the level and the cell on screen is
\* that very element: the time series and the section of a pinned point pass
\* through it, and the summary of the domain is of the elements on screen.  The
\* plots read the file again, with bounds, axes and indices of their own.
PlotReadsTheCell ==
    curve # Missing /\ Geographic(curve.of) /\ curve.on = DefaultAxes /\ StepsAreChunks =>
      CASE curve.kind = "time" -> curve.samples[curve.of.time] = Value(Denoted(curve.of, curve.at))
        [] curve.kind = "section" ->
             LET cell == Denoted(curve.of, curve.at)
             IN  SectionIsRead(curve.along) => curve.samples[cell[curve.along]] = Value(cell)
        [] OTHER ->
             curve.samples[curve.of.time] =
               {Value(Denoted(curve.of, p)) :
                  p \in CellsOf(IF curve.of.zoom = Missing THEN Full(curve.of) ELSE curve.of.zoom)}
=============================================================================
