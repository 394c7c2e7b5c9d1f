------------------------- MODULE MCBoundsResolution -------------------------
(* Windows and planes, as a sum: a behaviour sends the bounds of a dialog   *)
(* to its resolvers (BoundsResolution), resolves bounds on one of the grids *)
(* below (CoordinateBounds), reads planes of the variables below            *)
(* (PlaneReads) or of formulas and collections (Derived); the other parts   *)
(* stay as they began.                                                      *)
EXTENDS BoundsResolution, CoordinateBounds, PlaneReads, MCDerived

CONSTANTS temp, wind, first, second

TwoVariables == {temp, wind}
TwoFiles == {first, second}

Dim(length, role, named, looks, token) ==
    [length |-> length, role |-> role, named |-> named, looks |-> looks, token |-> token]
Lat    == Dim(2, "lat", "lat", "y", "none")
Lon(n) == Dim(n, "lon", "lon", "x", "none")
Time   == Dim(2, "time", "time", "t", "none")
Level  == Dim(2, "depth", "depth", "t", "none")
Height == Dim(2, "depth", "depth", "y", "none")
Plain3(length, looks, token) == Dim(length, "other", "other", looks, token)

Variable(format, dims, kind, of) ==
    [format |-> format, dims |-> dims, coords |-> [kind |-> kind, dims |-> of],
     chunks |-> << >>, absent |-> {}, unread |-> {}]

Manifest(dims, chunks, absent, unread) ==
    [Variable("manifest", dims, "none", << >>)
       EXCEPT !.chunks = chunks, !.absent = absent, !.unread = unread]

\* the time axis of the first is told by an attribute, its dimension is "t"
TenVariables ==
    { Variable("netcdf4", <<Dim(2, "time", "other", "none", "none"), Height, Lat, Lon(3)>>, "axes", <<3, 4>>),
      Variable("netcdf4", <<Time, Plain3(2, "none", "row"), Plain3(2, "none", "col")>>, "grid", <<2, 3>>),
      Variable("netcdf4", <<Plain3(2, "y", "row"), Plain3(3, "x", "col"), Plain3(2, "none", "none")>>,
               "none", <<1, 2>>),
      Variable("netcdf4", <<Lon(3), Lat>>, "axes", <<2, 1>>),
      Variable("netcdf3", <<Lat, Lon(3)>>, "none", <<1, 2>>),
      Variable("mpas", <<Time, Plain3(2, "none", "none"), Lat, Lon(2)>>, "axes", <<3, 4>>),
      Variable("grib2", <<Lat, Lon(2)>>, "grid", <<1, 2>>),
      Manifest(<<Time, Level, Lat, Lon(3)>>, <<1, 1, 1, 2>>, {<<1, 0, 1, 0>>}, {<<0, 1, 0, 1>>}),
      Manifest(<<Time, Lat, Lon(2)>>, <<2, 2, 2>>, {}, {}),
      Manifest(<<Lat, Lon(3)>>, <<2, 2>>, {<<0, 1>>}, {}) }
ThreeRectangles == {Box(0, 1, 1, 2), Box(1, 2, 0, 2), Box(0, 2, 0, 2)}

Axis(role, values) == [role |-> role, values |-> values, length |-> Len(values)]
Bare(n) == [role |-> "linear", values |-> << >>, length |-> n]
Grid(x, y, points, trailing) == [x |-> x, y |-> y, points |-> points, trailing |-> trailing]
Point(lat, lon) == [lat |-> lat, lon |-> lon]
\* rows shifted eastwards, a corner without coordinates, longitudes on both sides of 0
Sheared ==
    [p \in (0 .. 1) \X (0 .. 2) |->
       IF p = <<1, 2>> THEN Point(NoNumber, NoNumber)
       ELSE Point(40 * p[1], 130 * p[2] + 30 * p[1] - 20)]
Lats == Axis("lat", <<60, 0, -60>>)

SevenGrids ==
    { Grid(Axis("lon", <<-180, -90, 0, 90, 180>>), Lats, NoNumber, TRUE),
      Grid(Axis("lon", <<0, 90, 180, 270>>), Lats, NoNumber, TRUE),
      Grid(Axis("lon", <<0, 120, 240, 360>>), Axis("lat", <<-90, NoNumber, 90>>), NoNumber, TRUE),
      Grid(Axis("linear", <<0, 100, 400>>), Bare(4), NoNumber, TRUE),
      Grid(Axis("linear", <<30, 20, 10, 0>>), Axis("lon", <<200, 250>>), NoNumber, FALSE),
      Grid(Bare(3), Bare(2), Sheared, TRUE),
      Grid(Bare(3), Bare(2), Sheared, FALSE) }

Intervals(S) == {[min |-> a, max |-> b] : a \in S, b \in S}
SomeBounds ==
    [x : Intervals({-200, -180, -100, -90, 0, 1, 30, 100, 180, 200, 250, 270, 360}),
     y : Intervals({-90, 0, 1, 40, 250})]

VARIABLE part

sumVars == <<vars, boundsVars, planeVars, derivedVars, part>>

OnePlane == data = Variable("grib2", <<Lat, Lon(2)>>, "grid", <<1, 2>>)
OneGrid  == grid = Grid(Bare(3), Bare(2), Sheared, TRUE)
OneView  == variable = temp /\ file = first
NoSources ==
    /\ raw = << >> /\ formulas = {} /\ sources = << >> /\ manifest = << >>
    /\ field = {} /\ line = << >> /\ shown = [of |-> {0}]

SumInit ==
    /\ Init /\ TypingInit /\ PlaneInit
    /\ \/ part = "bounds" /\ OnePlane /\ OneGrid /\ NoSources
       \/ part = "typing" /\ OnePlane /\ OneView /\ NoSources
       \/ part = "planes" /\ OneGrid /\ OneView /\ NoSources
       \/ part = "derived" /\ OnePlane /\ OneGrid /\ OneView /\ DerivedInit

Bounds(A)  == part = "bounds" /\ A /\ UNCHANGED <<boundsVars, planeVars, derivedVars, part>>
Typing(A)  == part = "typing" /\ A /\ UNCHANGED <<vars, planeVars, derivedVars, part>>
Planes(A)  == part = "planes" /\ A /\ UNCHANGED <<vars, boundsVars, derivedVars, part>>
Deriving(A) == part = "derived" /\ A /\ UNCHANGED <<vars, boundsVars, planeVars, part>>

SumSpec ==
    SumInit /\ [][Bounds(Next) \/ Typing(TypingNext) \/ Planes(PlaneNext) \/ Deriving(DerivedNext)]_sumVars
=============================================================================
