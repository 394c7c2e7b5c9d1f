------------------------------ MODULE MCDerived ------------------------------
(* Small files and formulas for Derived. *)
EXTENDS Derived, TLC

Ref(name, dataset) == [op |-> "ref", axis |-> "none", name |-> name, dataset |-> dataset, args |-> << >>]
Node(op, axis, args) == [op |-> op, axis |-> axis, args |-> args]
Number == Node("number", "none", << >>)

\* T - mean(T), T[1] - B[2], layer_mean(T * 2) / area, area * T[2], sqrt(E)
MCFormula ==
    ("anomaly" :> Node("minus", "none", <<Ref("T", 0), Node("mean", "time", <<Ref("T", 0)>>)>>))
    @@ ("bias" :> Node("minus", "none", <<Ref("T", 1), Ref("T", 2)>>))
    @@ ("column" :> Node("divided", "none",
          <<Node("mean", "depth", <<Node("times", "none", <<Ref("T", 0), Number>>)>>), Ref("area", 0)>>))
    @@ ("scaled" :> Node("times", "none", <<Ref("T", 1), Ref("area", 0)>>))
    @@ ("root" :> Node("sqrt", "none", <<Ref("E", 0)>>))
MCListing == <<"area", "E", "T", "anomaly", "bias", "column", "scaled", "root">>

AxisOf(length, role) == [length |-> length, role |-> role]
Dims(steps, lats) ==
    [time |-> AxisOf(steps, "time"), lev |-> AxisOf(2, "depth"), ens |-> AxisOf(2, "other"),
     lat |-> AxisOf(lats, "lat"), lon |-> AxisOf(1, "lon")]
Field == <<"time", "lev", "lat", "lon">>
Map   == <<"lat", "lon">>
Members == <<"time", "lev", "ens", "lat", "lon">>

File(name, format, steps, lats, stored, values, times) ==
    [name |-> name, format |-> format, dims |-> Dims(steps, lats), stored |-> stored,
     values |-> values, corners |-> "corners", times |-> times,
     gaps |-> {[variable |-> "T", at |-> [time |-> 0, lev |-> 1, lat |-> 0, lon |-> 0]]}]

JustT == [T |-> Field]
TAndArea == [T |-> Field, area |-> Map]
TAndMembers == [T |-> Field, E |-> Members]
NoValues == << >>
At(times, levels) == [time |-> times, lev |-> levels]
Levels(levels) == [lev |-> levels]

Start(ours, theirs) == [first |-> ours, second |-> theirs]

MCOpenings ==
    { \* forecasts in time order and interleaved, without coordinate values
      Start(<<File("a", "grib2", 2, 2, TAndArea, NoValues, <<1, 3>>),
              File("b", "grib2", 2, 2, TAndArea, NoValues, <<2, 4>>)>>, << >>),
      \* of one file the time coordinate is not read; other levels in the next start
      Start(<<File("a", "netcdf4", 2, 2, TAndArea, Levels(<<10, 20>>), <<1, 3>>),
              File("b", "netcdf4", 1, 2, TAndArea, At(<<2>>, <<10, 20>>), <<2>>)>>, << >>),
      Start(<<File("a", "netcdf4", 1, 2, TAndArea, Levels(<<10, 20>>), <<2>>),
              File("b", "netcdf4", 1, 2, TAndArea, Levels(<<10, 30>>), <<1>>)>>, << >>),
      \* three files: levels unknown in the first and different in the others, which
      \* join; unknown in the second and different in the third, which does not
      Start(<<File("a", "netcdf4", 1, 2, JustT, NoValues, <<1>>),
              File("b", "netcdf4", 1, 2, JustT, Levels(<<10, 20>>), <<2>>),
              File("c", "netcdf4", 1, 2, JustT, Levels(<<10, 30>>), <<3>>)>>, << >>),
      Start(<<File("a", "netcdf4", 1, 2, JustT, Levels(<<10, 20>>), <<1>>),
              File("b", "netcdf4", 1, 2, JustT, NoValues, <<2>>),
              File("c", "netcdf4", 1, 2, JustT, Levels(<<10, 30>>), <<3>>)>>, << >>),
      \* the usual collection: each file has its own times
      Start(<<File("a", "netcdf4", 1, 2, TAndArea, At(<<1>>, <<10, 20>>), <<1>>),
              File("b", "netcdf4", 1, 2, TAndArea, At(<<2>>, <<10, 20>>), <<2>>)>>, << >>),
      \* operands of other lengths
      Start(<<File("a", "grib2", 2, 1, TAndArea, NoValues, <<1, 3>>),
              File("b", "grib2", 3, 2, TAndArea, NoValues, <<2, 4, 5>>)>>, << >>),
      \* a dimension without a role, and labels that are no times
      Start(<<File("a", "netcdf4", 2, 1, TAndMembers, NoValues, << >>)>>, << >>),
      Start(<<File("e", "netcdf4", 1, 1, [E |-> <<"ens", "lat", "lon">>], NoValues, << >>)>>, << >>),
      \* --diff of two files with one, and of two with two
      Start(<<File("a", "netcdf4", 2, 2, TAndArea, Levels(<<10, 20>>), <<1, 3>>),
              File("b", "netcdf4", 2, 2, TAndArea, Levels(<<10, 20>>), <<2, 4>>)>>,
            <<File("c", "netcdf4", 2, 2, TAndArea, Levels(<<10, 20>>), <<1, 3>>)>>) }
=============================================================================
