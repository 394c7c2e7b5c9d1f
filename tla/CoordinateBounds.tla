---------------------------- MODULE CoordinateBounds ----------------------------
(* What the resolver threads of BoundsResolution compute: the window of rows *)
(* and columns for bounds that were typed in coordinates (data/bounds.rs).   *)
(* Numbers are integers: degrees, or units of a linear axis.  A longitude is *)
(* an angle for the user and a number in one of two conventions for the      *)
(* file, and the code compares numbers.                                      *)
EXTENDS Integers, Sequences, FiniteSetsExt

CONSTANTS Grids,      \* planes: their two axes and, if they have them, 2-D coordinates
          Wanted,     \* the bounds a user may type
          NoNumber,   \* NaN or None
          Error       \* BoundsError

IsAxis(axis) ==
    /\ axis.length \in Nat
    /\ axis.values \in Seq(Int \cup {NoNumber}) /\ Len(axis.values) \in {0, axis.length}
ASSUME GridAssumption ==
    \A g \in Grids :
      /\ IsAxis(g.x) /\ IsAxis(g.y)
      /\ g.points # NoNumber =>
           /\ IsFiniteSet(DOMAIN g.points)
           /\ \A p \in DOMAIN g.points :
                /\ p[1] \in Nat /\ p[2] \in Nat
                /\ g.points[p].lon # NoNumber => g.points[p].lon \in Int
                /\ g.points[p].lat # NoNumber => g.points[p].lat \in Int
ASSUME WantedAssumption ==
    \A r \in Wanted : {r.x.min, r.x.max, r.y.min, r.y.max} \subseteq Int
ASSUME ErrorAssumption ==
    LET Spans == [start : Nat, end : Nat]
    IN  Error # NoNumber /\ Error \notin [rows : Spans, cols : Spans]

VARIABLES grid,      \* the plane of the dialog
          typed,     \* the bounds being resolved, or NoNumber
          resolved   \* the window, Error or NoNumber

boundsVars == <<grid, typed, resolved>>

\* an axis: its length, its role and its coordinates, << >> if it has none
Numbers(axis) == {axis.values[i] : i \in DOMAIN axis.values} \ {NoNumber}

\* longitude_convention
From0To360(values) == \E v \in values : v > 180

\* convert_longitude: the seam keeps the value it is written with
Converted(v, from0) ==
    CASE from0 /\ v < 0         -> v % 360
      [] from0 /\ v > 360       -> ((v - 1) % 360) + 1
      [] ~from0 /\ v < -180     -> ((v + 180) % 360) - 180
      [] ~from0 /\ v > 180      -> ((v - 181) % 360) - 179
      [] OTHER                  -> v

\* axis_coordinate_kind; large numbers on the x axis are taken for longitudes
Kind(axis, isX) ==
    CASE axis.role = "lon" /\ isX -> "lon"
      [] axis.role = "lat" /\ ~isX -> "lat"
      [] OTHER -> IF isX /\ From0To360(Numbers(axis)) THEN "lon" ELSE "linear"

Ordered(r) == r.min <= r.max

\* Mutant: longitudes are expected in one convention.
PhysicalSigned(r, kind) ==
    CASE kind = "lon" -> -180 <= r.min /\ r.max <= 180
      [] kind = "lat" -> -90 <= r.min /\ r.max <= 90
      [] OTHER -> TRUE

\* validate_physical_range
Physical(r, kind) ==
    CASE kind = "lon" -> -180 <= r.min /\ r.max <= 360
      [] kind = "lat" -> -90 <= r.min /\ r.max <= 90
      [] OTHER -> TRUE

\* Mutant: the upper end at the seam is not kept at 360.
ConvertedEnds(r, from0) ==
    [min |-> Converted(r.min, from0), max |-> Converted(r.max, from0)]

\* convert_range, for longitudes
ConvertedRange(r, from0) ==
    LET low  == Converted(r.min, from0)
        high == Converted(r.max, from0)
    IN  IF r.max - r.min = 360
        THEN IF from0 THEN [min |-> 0, max |-> 360] ELSE [min |-> -180, max |-> 180]
        ELSE [min |-> low, max |-> IF from0 /\ r.min < 0 /\ high = 0 THEN 360 ELSE high]

\* the interval compared with the coordinates, refused if it is empty there
Interval(r, kind, values) ==
    IF kind = "lon" THEN ConvertedRange(r, From0To360(values)) ELSE r

Acceptable(r, kind, values) ==
    /\ Ordered(r) /\ Physical(r, kind)
    /\ kind = "lon" => r.max - r.min <= 360
    /\ Ordered(Interval(r, kind, values))

Within(v, r, kind, values) ==
    /\ v # NoNumber
    /\ LET number == IF kind = "lon" THEN Converted(v, From0To360(values)) ELSE v
       IN  Interval(r, kind, values).min <= number /\ number <= Interval(r, kind, values).max

Span(S) == [start |-> Min(S), end |-> Max(S) + 1]

\* axis_index_range, and from_index_bounds for an axis without coordinates
Samples(axis, kind, r) ==
    CASE axis.values = << >> -> {i \in 0 .. axis.length - 1 : r.min <= i /\ i <= r.max}
      [] OTHER -> {i \in 0 .. axis.length - 1 : Within(axis.values[i + 1], r, kind, Numbers(axis))}

AxisAccepts(axis, kind, r) ==
    IF axis.values = << >> THEN Ordered(r) /\ 0 <= r.min /\ r.max < axis.length
    ELSE Acceptable(r, kind, Numbers(axis)) /\ Samples(axis, kind, r) # {}

\* 2-D coordinates are asked for if the axes have no geographic ones of their own
\* or count from zero, and only on the axes they are stored for
Counts(axis) ==
    axis.values # << >> /\ \A i \in DOMAIN axis.values : axis.values[i] = i - 1
IsCurvilinear ==
    /\ grid.points # NoNumber /\ grid.trailing
    /\ \/ grid.x.values = << >> \/ grid.y.values = << >>
       \/ Kind(grid.x, TRUE) # "lon" \/ Kind(grid.y, FALSE) # "lat"
       \/ Counts(grid.x) /\ Counts(grid.y)

Longitudes == {grid.points[p].lon : p \in DOMAIN grid.points} \ {NoNumber}
Latitudes  == {grid.points[p].lat : p \in DOMAIN grid.points} \ {NoNumber}

PointsWithin(r) ==
    {p \in DOMAIN grid.points :
       Within(grid.points[p].lon, r.x, "lon", Longitudes)
         /\ Within(grid.points[p].lat, r.y, "lat", Latitudes)}

\* curvilinear_index_bounds
Envelope(r) ==
    IF Acceptable(r.x, "lon", Longitudes) /\ Acceptable(r.y, "lat", Latitudes)
         /\ PointsWithin(r) # {}
    THEN [rows |-> Span({p[1] : p \in PointsWithin(r)}), cols |-> Span({p[2] : p \in PointsWithin(r)})]
    ELSE Error

\* the rest of resolve_source_bounds_with_feedback
Separate(r) ==
    LET kx == Kind(grid.x, TRUE)
        ky == Kind(grid.y, FALSE)
    IN  IF AxisAccepts(grid.x, kx, r.x) /\ AxisAccepts(grid.y, ky, r.y)
        THEN [rows |-> Span(Samples(grid.y, ky, r.y)), cols |-> Span(Samples(grid.x, kx, r.x))]
        ELSE Error

TypingInit == grid \in Grids /\ typed = NoNumber /\ resolved = NoNumber

Type ==
    /\ typed = NoNumber
    /\ typed' \in Wanted
    /\ UNCHANGED <<grid, resolved>>

ResolveTyped ==
    /\ typed # NoNumber /\ resolved = NoNumber
    /\ resolved' = IF IsCurvilinear THEN Envelope(typed) ELSE Separate(typed)
    /\ UNCHANGED <<grid, typed>>

\* the answer was drained
TypeAgain ==
    /\ resolved # NoNumber
    /\ typed' = NoNumber /\ resolved' = NoNumber
    /\ UNCHANGED grid

TypingNext == Type \/ ResolveTyped \/ TypeAgain

TypingSpec == TypingInit /\ [][TypingNext]_boundsVars

-----------------------------------------------------------------------------
\* What the user means: an angle lies in an interval whatever turns are added.
Covers(r, v, kind) ==
    IF kind = "lon" THEN (v - r.min) % 360 <= r.max - r.min ELSE r.min <= v /\ v <= r.max
Inside(r, v, kind) ==
    IF kind = "lon" THEN Covers(r, v, kind) /\ (v - r.min) % 360 \notin {0, (r.max - r.min) % 360}
    ELSE Covers(r, v, kind)

\* Taken for another kind: a linear x axis with numbers over 180 for longitudes,
\* and longitudes on the y axis, or latitudes on the x axis, for plain numbers.
Misjudged(axis, isX) == axis.values # << >> /\ Kind(axis, isX) # axis.role

\* an axis without coordinates counts, whatever its name
Meant(axis) == IF axis.values = << >> THEN "linear" ELSE axis.role
Coordinate(axis, i) == IF axis.values = << >> THEN i ELSE axis.values[i + 1]

EdgesCovered(axis, r, span) ==
    \A i \in {span.start, span.end - 1} : Covers(r, Coordinate(axis, i), Meant(axis))

\* indices of the samples that lie in the interval beyond doubt
Interior(axis, r) ==
    {i \in 0 .. axis.length - 1 :
       Coordinate(axis, i) # NoNumber /\ Inside(r, Coordinate(axis, i), Meant(axis))}

PointsCovered(r) ==
    {p \in DOMAIN grid.points :
       /\ grid.points[p].lon # NoNumber /\ Covers(r.x, grid.points[p].lon, "lon")
       /\ grid.points[p].lat # NoNumber /\ Covers(r.y, grid.points[p].lat, "lat")}
PointsInside(r) == {p \in PointsCovered(r) : Inside(r.x, grid.points[p].lon, "lon")}

Cuts(span, S) == S \subseteq span.start .. span.end - 1

\* the smallest span of an axis around the samples between its bounds
IsSpanOf(span, axis, r) ==
    EdgesCovered(axis, r, span) /\ Cuts(span, Interior(axis, r))

IsEnvelope(window, r) ==
    /\ \A p \in PointsInside(r) : Cuts(window.rows, {p[1]}) /\ Cuts(window.cols, {p[2]})
    /\ {window.rows.start, window.rows.end - 1} \subseteq {p[1] : p \in PointsCovered(r)}
    /\ {window.cols.start, window.cols.end - 1} \subseteq {p[2] : p \in PointsCovered(r)}

\* The window of typed bounds is the smallest one around the samples between
\* them: its first and last row and column have such samples, and none is left
\* out, whichever convention the user and the file write longitudes in.  Except:
\* an axis that is misjudged.
WindowIsOfRegion ==
    resolved \notin {NoNumber, Error} =>
      IF IsCurvilinear THEN IsEnvelope(resolved, typed)
      ELSE /\ ~Misjudged(grid.x, TRUE) => IsSpanOf(resolved.cols, grid.x, typed.x)
           /\ ~Misjudged(grid.y, FALSE) => IsSpanOf(resolved.rows, grid.y, typed.y)

\* the seam of the convention of the file lies in the interval
AcrossSeam(r, values) ==
    Covers(r, IF From0To360(values) THEN 0 ELSE 180, "lon")

Foolish(r, kind) ==
    \/ ~Ordered(r)
    \/ kind = "lon" /\ (r.min < -180 \/ r.max > 360 \/ r.max - r.min > 360)
    \/ kind = "lat" /\ (r.min < -90 \/ r.max > 90)

AxisRefuses(axis, r) ==
    \/ Foolish(r, Meant(axis))
    \/ Meant(axis) = "lon" /\ AcrossSeam(r, Numbers(axis))
    \/ axis.values = << >> /\ (r.min < 0 \/ r.max >= axis.length)
    \/ Interior(axis, r) = {}

\* Bounds are refused only if they are out of order, beyond the globe or beyond
\* the numbers of an axis that counts, wrap around the seam of the file's
\* convention, or have no sample between them.
RefusedForAReason ==
    resolved = Error =>
      IF IsCurvilinear
      THEN \/ Foolish(typed.x, "lon") \/ Foolish(typed.y, "lat")
           \/ AcrossSeam(typed.x, Longitudes)
           \/ PointsInside(typed) = {}
      ELSE \/ AxisRefuses(grid.x, typed.x) \/ Misjudged(grid.x, TRUE)
           \/ AxisRefuses(grid.y, typed.y) \/ Misjudged(grid.y, FALSE)
=============================================================================
