# ncview-rs in TLA+

ncview-rs is a terminal viewer for gridded data: NetCDF, GRIB2 and MPAS files,
reference manifests, local or in an object store. This directory models two
questions that its tests hardly reach. *When*: answers of superseded work arrive
in any order, the state they belong to may be gone by then, and a command may
change what the screen claims to show without asking for a new image. *Which*:
on the way from a file to a cell of the terminal an element passes a dozen
index computations in as many functions, and a wrong one still shows a number.

Paths below are relative to the repository, so the crate is `src/src/`.

## 1. The system

One **UI thread** owns all application state and runs one loop
(`main.rs: run`): drain the result channels, advance playback, draw, read one
event, translate it to a `Command`, reduce it. Everything slow runs elsewhere:

```
            Command                        spawn, clone of state, AtomicBool
  terminal ---------> UI thread ---------------------------------> slice worker
  (keys, mouse)      AppState.view                                 plot worker
       ^             |   ^   ^   ^                                 bounds resolver
       | cells,      |   |   |   +--- bounds_rx (generation, bounds)   |
       | pictures    |   |   +------- plot_rx  (generation, series)    | reader of
       +-------------+   +----------- slice_rx (generation, slice)     | the format
       |                                                               v
   image slots: one encoder thread each      local file, or pages / messages of an object
                                                                       |
                    RangeCache <--- StorageRuntime: one thread, one job at a time
                    (mutex)         job channel of 32, retries, timeouts, cancellation
```

No worker is joined, none can be stopped from outside: a flag asks it to stop
and a *generation number* decides whether its answer still counts.

| component | source | state | operations | what makes it correct |
|---|---|---|---|---|
| navigation and slice loading | `main.rs` | `ViewModel`, active file, `generation`, flag, workers, `slice_rx` | commands that move, select, zoom, reload, switch file; playback; `load_selected`; `apply_remote_slice` | the image is the newest answer and is what the labels say; one live read; "Loading" ends |
| plot loading | `main.rs`, `app.rs` | plot dialog, `plot_generation`, flag, workers | `load_time_series`, refresh list, `apply_remote_plot` | same, and the open plot is of the selected variable |
| view bounds | `app.rs`, `main.rs`, `data/bounds.rs` | dialog, `bounds_generation`, zoom, resolvers | open, apply, cancel, dismiss, accept; coordinates to rows and columns | bounds land only on the plane they were resolved for, are read, and hold the samples between them |
| reducer, keys and mouse, widgets | `app.rs`, `events/*`, `main.rs`, `ui/*` | dialogs, browser, help, sidebar, drafts, selection, levels | one reducer per command; layout; hit tests | layers close in order, a click does what is written under it, what is selected is read |
| window, limits and points | `app.rs`, `main.rs` | zoom, limits, drag, point | zoom, pan, drag, limits, pick | what was measured on one plane is used on that one |
| start-up and session files | `main.rs`, `storage/session.rs` | loader threads; a JSON file per dataset | spawn, collect, cancel; capture, save, load, apply | starts with what opened; a torn file does no harm |
| slices and readers | `data/*.rs` | a coordinate cache | `read_slice_on_axes`, `point_coordinates`, plots | each cell is the element its labels name |
| formulas, differences, collections | `analysis/formula.rs`, `data/formula.rs`, `data/diff.rs`, `data/virtual_dataset.rs` | formulas, wrapped sources, frames | define, delete, evaluate, combine | each cell is made of the elements the formula names; one timeline, in order |
| rendering | `render/*`, `ui/canvas.rs` | a slot per picture | raster, encode, cells | the picture is of the slice held; pointer and drawing agree |
| remote message reads | `data/remote_grib2.rs`, `storage/*` | decoder per message, job channel, job, tokens | `with_decoder_cancelled`, `submit_cancellable`, `read_range` | every read ends; only the opened version is decoded |
| paged remote files | `data/remote_hdf5.rs`, `data/remote_netcdf4.rs` | metadata window, pages | opening loop, `read` | the bytes are those asked for; opening ends |
| range cache | `storage/range_cache.rs` | entries, index, counters, last hit | `insert`, `get`, `invalidate_identity` | bounded, exact LRU within eviction classes |
| operation tracking, GRIB2 inventory, export, terminal output, statistics, colours | `storage/operation.rs`, `worker.rs`, `data/grib2_*.rs`, `export.rs`, ... | | | not modelled, see section 7 |

`PROJECT.json` lists these components in full with their status, and every
hazard found while reading them at the line where it bites.

**Hard behaviours.** Concurrency: detached workers against the UI thread, many
readers against one job thread, two readers on one decoder, encoder threads
against redraws. Ordering: answers by generation, bounds accepted outside the
command path. Failure: errors, panics of workers, early returns of
`load_selected`, a missing variable, files that do not open, a rewritten
object, timeouts and retries, a crash while the session is written. Agreement: default
axes, hit tests and readers each decide the same thing in several places.
There is no lock nesting to speak of; deadlock is possible only through the channels.

## 2. Modules

`X.tla` is a component, `XProofs.tla` its proofs, `MCX.tla` small instances. Where
components share nothing a property speaks of, one `MC` module is their *sum*: a
behaviour is one of one part, while the other parts stay as they began, so that
a run costs the sum of their states and not the product.

| module | models | instance |
|---|---|---|
| `LatestAnswer` | the promise to the user: of all requests, only the newest one's answer may appear | implemented by the next two |
| `SliceLoading` | the UI loop and slice workers | `MCSliceLoading` |
| `PlotLoading` | plot requests | `MCPlotLoading` |
| `ImageSlots` | pictures, their keys and encoder threads, redraws | `MCPlotLoading` |
| `MapCells` | cells, bins and pixels of a map against pointer, marker and drag box | `MCPlotLoading` |
| `BoundsResolution` | the bounds dialog and its resolvers | `MCBoundsResolution` |
| `CoordinateBounds` | what a resolver computes | `MCBoundsResolution` |
| `PlaneReads` | from the view to elements of the file, for five formats, and the plots | `MCBoundsResolution` |
| `Derived` | formulas, differences, collections and the timeline | `MCDerived`, part of `MCBoundsResolution` |
| `Dialogs` | every key, click and wheel step over the dialogs | `MCDialogs` |
| `Screen` | what is drawn on a cell and what a click there sends | `MCDialogs` |
| `Viewport` | zoom, pan, drag, limits and points, and what each was measured on | extended by `Launches` |
| `Launches` | loader threads, the initial view, session files, crashes, several launches | `MCLaunches` |
| `RemoteRead` | readers, job channel, job thread, provider | `MCLaunches` |
| `LruCache` | a size-bounded cache with eviction classes and no bookkeeping | implemented by the next one |
| `RangeCache` | the cache as coded | extended by `PagedReads` |
| `PagedReads` | the growing metadata window and reads in pages, on the cache | `MCLaunches` |

Each component is modelled against *any* behaviour of its neighbours, by letting
their inputs occur freely: a bounds answer is a zoom change in `SliceLoading`, a
selection one action in `PlotLoading`, an image one answer in `ImageSlots`. `RemoteRead`
is what a worker's "read" step in `SliceLoading` does; there it ends in success, failure
or cancellation, and `ReadsEnd` is why that step may be assumed to end.

### SliceLoading

`ui` walks one pass of the loop: `startup`, `drain` (the `while let Ok(..) =
slice_rx.try_recv()` loop, then accepted bounds, then the playback tick) and
`input` (at most one command). A command is one action, because the UI thread
runs `handle_command` to its end: it applies the reducer (`Handled`), and then,
as the two lists of `main.rs:1112-1171` say, calls `load_selected`
(`Reloaded`), possibly after `configure_timeline` (`Reconfigured`). `Load` has
all returns of `load_selected`: the variable is missing from the active
source (return), it has no displayable plane (an error), or a generation is
drawn and a worker spawned; in every case the previous flag is raised first.
Worker steps follow the points at which the code looks at its flag. The payload of a
slice is reduced to what was asked for: variable, frame, zoom. Time moves go through
the timeline and may change the active file. `epoch` counts file switches and exists only in the model.

### PlotLoading, ImageSlots, MapCells

A plot request copies the view, raises the previous flag, draws a generation and
spawns. A worker cancelled before it starts sends *nothing*; one that is
cancelled later sends "superseded"; a panic is caught and sent. The generation
survives a file switch, unlike the slice generation.

In `ImageSlots` a picture is what it was made of: the slice, its limits and the
style. A slot holds one picture, one that an encoder thread is making and the key
it was asked under. `Draw` is a frame: it asks for a picture under the current key,
takes a finished one over, or falls back to cells, as `render_cached` does.

`MapCells` computes, for a plane on a panel, which sample each half cell or pixel shows
(`DrawnAt`), which sample a pointer there means, where marker and drag box are drawn. `encoded` is the picture
on screen: while the next one is made by its thread, or after the interpolation was changed, pointer and marks
are measured in the area of what is there (`AreaOf`, the panel if nothing is), as `drawable_area` does. Sizes
are constants, so that the proofs are about every plane, panel and font.

### BoundsResolution and CoordinateBounds

The request records everything its indices depend on (file, variable, number
of axis changes) and the dialog it came from. The code records only a generation.
All exits of the dialog are here: Enter, Esc, a click outside (which is
`Command::Quit` and draws no generation), and the command palette opened on top.
`CoordinateBounds` has the resolvers' search on axes and on 2-D coordinates, with the
conversion of longitudes; coordinates are integers.

### PlaneReads

An element of a variable is the tuple of its indices, so a cell *tells where it was read*.
`Load` is `load_selected` down to the request (clamps, window, fixed dimensions), `Cells` is
what the reader of the format makes of it, `Answer` puts it on screen with its coordinates
(`GridFor` is `coordinate_grid_cache`). The formats differ in which parts of the request
they take into account: NetCDF-4 all of it but the order of the axes, MPAS and NetCDF-3
and GRIB2 their own axes; a manifest looks for chunks under keys made of time, level, row
and column (`ChunkKey`) and leaves out those that are not listed or cannot be fetched.
Plots read again with requests of their own (`TimeSeries`, `CrossSection`, `DomainSummary`).

### Derived

A cell is a term over the elements it was computed from. `Eval` follows `eval`, `combine`
and `aggregate` of `analysis/formula.rs` over the planes that `SliceInputs::read` gives
(`OperandIndex`, `CellAt`); `Accepts` and `Wrapped` are `apply_formulas`, `ManifestOf` and
`LineOf` the collection and its timeline. A file is compatible with the *first* one of its variable, on the
dimensions for which both store values (`SameOn`). Reads are answered at once here.
The recursive operators keep this module to TLC.

### Dialogs and Screen

In `Dialogs`, `view` is one record with the fields of `ViewModel` that decide what input
does; reducers are operators from views to views (`Opened`, `Closed`,
`Selected`, `DepthSet`, ...), so that an action reads as "this input, in this
mode, applies these reducers, and the plane is read again or not" (`Reads`,
`Only`). Keys go by `input_mode`, clicks by the tests in `main.rs`, and these
disagree in places, which is the point of the module. `fresh` says that nothing was selected
since the last read; it exists only in the model. Text is abstracted: a query
is how many characters of one word were typed, a draft exists or not, and
whether it parses is chosen on Enter.

`Screen` has the layout as numbers: `ButtonsAt`, `LevelBoxAt`, `TimelineAt`, `BrowserAt`,
`DialogAt` give the control drawn on a cell, `ClickAt` the commands a click there sends. A control is
labelled with the command it stands for without a look at the handler: a button of the Controls box with that of
the key it names (`normal_command`, `events/input.rs:225`), a row with what it offers, a bar with its length. The
handler's own table is `ControlsRow`.

### Viewport and Launches

Every value measured on the image carries `of`, the plane it was measured on; the code
does not keep it, and the reducer applies values to whatever is selected. A window that is panned
while another plane is selected is of none from then on. Axes come from two functions: `DefaultView` by the
roles of the dimensions (`default_display_axes`), `Named` by their names alone (`default_axes`), which is what a
reset uses and what is left when the same variable is selected again. `StepToFile` is a move of the timeline into
another file, with everything measured kept. `Launches` puts this between two start-ups: `Loader` threads open or fail, `OpenView` restores what
the session file says and then selects the initial variable, `Quit` truncates the file and `Write` fills it, and the program may die at any step.

### RemoteRead, RangeCache, PagedReads

One action per point where a thread can be preempted: the reader locks the
cell, misses and unlocks (`Start`), submits or is refused, receives, locks
again and stores (first one wins), decodes. The job thread takes a job,
receives a response, a transient or a permanent error, sleeps, retries, reads
the body, or drops the job because its token is set. `Rewrite` is the
provider replacing the object; it serves the version opened or the present one (`Served`: a request that names a
version gets that one where the provider keeps versions; both are allowed whatever the provider is).
`MatchesIdentity` accepts a version it cannot tell from the opened one (no etag, no version, same size). An
answer for another range than asked is one of the permanent errors.
Each operation of `RangeCache` runs under the mutex, hence is one action. The eviction loop
is stated by its result. The recency counter has a modulus. The last call is part of the state of both caches
(`call`), so that a hit of `RangeCache` can only be a hit of `LruCache`, which makes its block the newest: a hit
that changes nothing is right only where the abstract one changes nothing either. `PagedReads` looks pages up,
unlocks, fetches through the job thread and stores them; an answer is the interval of the object
whose bytes it holds.

## 3. Runs

`tlc -config <cfg> <module>`; each finishes within four minutes with two workers.

| run | module | shows | bounds, and why they suffice |
|---|---|---|---|
| `SliceNavigation` | `MCSliceLoading` | newest answer, image matches view, one live read, indicator is backed and comes down; implements `LatestAnswer` | 3 reads: superseded, superseding, and one more between them; 2 files with 3 interleaved frames so that time moves change the file; 2 variables; 1 zoom box; 8 generations, so that bounds and zoom can draw extra ones |
| `SliceFileSwitch` | `MCSliceLoading` | a shown answer is the newest of its file, with file switches, palette clicks, a missing variable, and one without a plane | 1 switch resets the counter once, 3 reads put one on each side and one in between; 4 generations let the new counter reach an old number |
| `SliceStaleFile` | `MCSliceLoading` | **violation**, finding 1 | 2 reads and 1 switch are the shortest case |
| `SliceMissingVariable` | `MCSliceLoading` | **violation**, finding 2 | second file lacks one variable |
| `PlotLoading` | `MCPlotLoading` | newest plot only, of the selection, always resolved; pictures arrive and never give way to cells; pointer, marker, picture and drag box agree with the drawing | 3 plots and 2 selections: a refresh while one is computing and another is in the channel. 3 reads, 3 changes, 2 styles: a change back to a key seen before. Planes with more rows than a panel has, more columns than its pixels, and fewer; flipped or not; refined 2 and 3 times. A picture is there, is of what was drawn before, or is not there yet. 694,844 states |
| `MapPictures` | `MCPlotLoading` | **violation**, finding 4 | as above |
| `ViewBounds` | `MCBoundsResolution` | late bounds are never misapplied and never unread; windows are those of the bounds typed; each cell, coordinate and plot is of the element named; formulas, differences and collections likewise | 2 resolvers, 2 generations, 1 switch; 7 grids with both conventions for longitudes, both directions, gaps, 2-D coordinates, and 4,225 bounds; 10 variables of 2 to 4 dimensions in five formats, 3 rectangles, 4 commands (turn, move, zoom, reset, plot); 10 starts with up to 3 files, 5 formulas of which 2 at a time; in two starts of three files the levels are unknown in the first or in the second and different in the others. 2,201,110 states |
| `PlaneOrder` | `MCBoundsResolution` | **violation**, finding 5 | as above |
| `CollectionTimeline` | `MCBoundsResolution` | **violation**, finding 6 | two files with consecutive times |
| `Dialogs` | `MCDialogs` | the marked row is on screen, what is selected is read, a click sends what is drawn under it and closes the topmost layer | 2 file variables with a formula sorted between them, two axis pairs, 1 or 2 levels so that a change of plane can shrink them, a list of 2 lines with one name of 2, a word that narrows the list to one and then none; every cell of 3 terminals, of which one clips the boxes and one the dialogs. 488,897 states |
| `DialogsBrowser` | `MCDialogs` | **violation**, finding 3 | 3 one-line names in 2 lines: the smallest list that scrolls |
| `Launches` | `MCLaunches` | a window lies in its plane, foreign values only where named, a launch starts with an image and loading ends; no answer is lost or crossed, only accepted versions are decoded, reads and opening end; the cache implements `LruCache` | 2 launches: one to save and one to restore; 2 files, of which one has a variable the other lacks; planes of two sizes so that a foreign window may not fit; one variable whose axes by name are not those by role, frames in both files. 3 readers, 2 messages, channel of 1 so that it is full, 2 attempts, 2 rewrites of which one is undetectable. 4 blocks: any two of the smaller three fit, not all, one never. An object of 5 bytes in pages of 2, where the largest metadata window fits one request. About 702,500 states |

Deadlock is checked in `SliceNavigation`, `SliceFileSwitch` and `Dialogs`, where the UI can
always go on. The sums end when a part has used up its budget of commands or reads, so it is
not checked there; `WaitingIsBacked`, `ReadsEnd`, `LoadingEnds`, `OpeningEnds` and
`PlotResolves` say that nobody is stuck before. Every cap (`Max...`) is in a
guard and named in the module that uses it.

**Fairness.** `FairSpec` of the two loaders assumes weak fairness of the UI thread
as a whole and of every worker: the loop polls with a timeout and never waits
for a worker, and threads once spawned are run to the end by the operating
system. The same holds for redraws (`Draw`, the frame budget) and encoder threads, for loader
threads and the loop that waits for them, for the job thread (every await of
`read_range` has a timeout, so it always has a next step) and its readers. No command is
assumed to be given or withheld. The provider, cancellation, crashes and rewrites are not fair.

## 4. Properties, by component

The comment above each property says which code it is about. Exceptions are
part of the statement, because the code has them:

* `AnswerIsLatest`, `ShownMatchesView` speak of slices of the current file
  (see finding 1), and `OnlyLatestShown` is checked without file switches.
* `ShownMatchesView` is checked without clicks in the command palette:
  a click is sent as `ExecutePaletteChoice`, which is not on the reload
  list, so the entry takes effect without a read. `SelectionIsRequested`
  excepts the same click by name.
* `LoadingIsBacked` holds when every file has every variable (finding 2).
* `ZoomIsOfPlane` excepts answers whose dialog was left
  by a click, by the palette or because another answer closed it: only Esc
  draws a bounds generation.
* `WindowIsOfRegion` and `RefusedForAReason` except axes whose convention of longitudes is misjudged from
  their values (`Misjudged`). An interval that crosses the seam of the file's convention may be refused,
  and so may one beyond the globe, out of order or without a sample.
* `PlaneInOrderIsOfView` is about planes read in the order of the file (`InOrder`, finding 5: NetCDF-4 with the row
  axis first, the other readers along the axes they would choose themselves) and variables with at most
  one axis of times and one of levels (`Unambiguous`: a second one follows the index of the first, up
  to its own length). Of manifests it excepts chunks that hold several steps of a leading dimension (the first step is
  shown for all of them, `data/manifest.rs:560`), leading dimensions that are not a time
  followed by a level, and more than four dimensions (`StepsAreChunks`).
* `TimelineIsOneDataset` compares every pair of files of a timeline, on the dimensions for which the first file
  stores values (`FirstTells`). On another one later files may differ, because each is compared with the first
  alone (`data/virtual_dataset.rs:290-309`).
* `CoordinatesOfPlane` excepts a grid kept for the same window of other axes, which
  `coordinate_grid_cache` serves (`data/netcdf4.rs:553`).
* `PointerOnItsCell` and `MarkerOnItsPoint` are claimed of a picture that is up to date (`UpToDate`): until the
  next one is encoded, the pointer means the new slice while the old picture is on screen.
* `MarkerOnItsPoint`: in a picture that has fewer pixels than samples the diamond may stand one cell before
  its point (`Beside`), because a sample is rescaled to a cell as if it were as wide as its pixel.
* `PlotReadsTheCell` speaks of maps. It excepts sections along longitude or level of readers that ignore the
  axes, which read other rows or fail (`SectionIsRead`), and points clicked on an older slice (`on`).
* `CellsAreOfOperands` excepts operands of different lengths (`LengthsAgree`; the code refuses only an index past
  the end, and cuts larger planes to the window of the first operand), an aggregation along an axis on
  screen (`AggregateHidden`: each step reads the same plane, so `T - mean(T)` on a time
  section is 0), and dimensions without a role in first or second place
  (`RolesAreTold`: they count as time and depth).
* `LabelIsOfData`: labels of a formula come from its first operand's file.
* `ForeignOnlyByName` names the places where a value measured on one plane is applied to another:
  commands given while the old slice is still on screen, moves in time into another file (`StepToFile`: zoom,
  limits and point stay, `main.rs:882`, `main.rs:1262`), limits and zoom of a restored session that
  `select_initial_variable` then leaves to another variable
  (`docs/how-to/navigate-time-depth-files.md:61`, `main.rs:720`).
* `ClickIsOfControl` names what the code does otherwise: labels drawn beside their hit boxes (`Displaced`: "Next"
  of the level list lies in the half of "Prev", Play is drawn from column 12 and toggled in columns 0 to 7, the
  plot kinds have labels of unequal length over fifths of the line), and "[c] MAP", where a click takes the next
  map and the key opens the picker (`CyclesInstead`). It claims the word of a button and not the key before it,
  the bar of times not below the labels of its title, and not the scrolled list (finding 3). Of `ClickClosesTheTop`
  the help over the browser is excepted.
* `OpenedVersionOnly` admits versions the identity cannot tell apart.
* `ImplementsLru` and `AnswerIsAsked` are claimed up to the wrap of the recency counter and for objects
  within the word size.

Noticed on the way, and modelled as it is: Ctrl-P during a variable search leaves
the search active under the palette; the wheel over the sidebar selects beneath
dialogs; a right click toggles help under an overlay; the palette entries for
previous and next file, export and interpolation do nothing; `m` on the last
point makes valid time the x axis of the plot; deleting the selected formula
draws no bounds generation; a playback tick resets the level cursor; `R` on a
variable with a `height` dimension shows heights by longitudes, because
`default_axes` (`app.rs:2040`) goes by names only while the variable opened by
roles; selecting the variable that is selected already does the same, because `handle_command` puts the
axes by role back only when the variable changed (`main.rs:1204`); key `c` opens the palette picker
(`events/input.rs:234`, `ui/help.rs:26`) while a click on `[c] MAP` steps to the next palette
(`main.rs:2127`); a click on "Next" of the level list steps back; the marker of the frame that installs a
picture is placed by the area of the one before, because `image_area` is taken first (`ui/canvas.rs:243`); the
boxes of a low sidebar are clipped as the comment at `ui/sidebar.rs:155` says, while that of a test
(`ui/sidebar.rs:889`) has them squeezed; a chunk of a manifest that cannot be read leaves a hole and no message.

## 5. Findings

1. **A late slice of the previous file can replace a newer one**
   (`SliceStaleFile`, `main.rs:1069`). A file switch builds a fresh state and
   so puts the slice generation back to 0, while workers of the previous file
   still hold small numbers; the comment at `main.rs:2748` says the generation
   check prevents this. The old worker's flag is raised, but a worker that has
   looked at it for the last time sends its answer all the same. `bounds_generation`
   is reset by the same line; late bounds of the previous file can become the
   zoom of the next, which is why `ZoomIsOfSelection` speaks of one file.
2. **"Loading" for ever** (`SliceMissingVariable`, `main.rs:2772`). Selecting a
   variable the active file lacks sets `Loading` and `load_selected` returns
   without a read.
3. **A click in a scrolled variable browser selects another variable**
   (`DialogsBrowser`, `main.rs:2304`), against the comment at `ui/popup.rs:618`.
4. **The picture of an old slice stays** (`MapPictures`, `ui/canvas.rs:232`). The key of
   the map's picture has the generation that a *request* draws. A frame between request and
   answer makes a picture of the old slice under the new key; if limits and style stay the same,
   nothing in the key changes when the answer comes.
5. **Reversed axes show a scrambled plane** (`PlaneOrder`, `data/netcdf4.rs:394`). The
   slice on screen is transposed at once; the reload fills rows with values that arrive in stored order.
   MPAS, NetCDF-3 and manifests show their own axes whatever was asked for.
6. **Files of one series do not form a collection** (`CollectionTimeline`,
   `data/virtual_dataset.rs:302`). The time coordinate is among the coordinates that
   have to be equal, so files with consecutive times are isolated, against
   `docs/how-to/navigate-time-depth-files.md:22`. The sources of the tests return no coordinate values.

## 6. Proofs

`tlapm XProofs.tla`; every theorem is checked to its leaves. Each holds for all
values of the constants that meet the named assumptions of the module. These
assumptions say that bounds are naturals, that `None`-like values are not members
of the sets they stand outside of, and what the data is:

* `Bytes` is additive over disjoint sets of blocks; a range that is read whole has a key (`KeyAssumption`).
* Every plane has at least one level; there are finitely many readers, variables, files and blocks.
* A compatible variable has a plane in all sources or in none (`PlaneAssumption`: its dimensions are the same).
* Panels, fonts, planes and refinements have positive sizes; a transposed plane has the sizes exchanged.
* Coordinates and typed bounds are integers (`GridAssumption`, `WantedAssumption`); a dataset has two dimensions or more and the roles
  its format provides (`DatasetAssumption`); a window has a cell (`RectangleAssumption`).

| module | theorems | argument |
|---|---|---|
| `SliceLoadingProofs` | `SliceAnswerIsLatest`, `SliceAtMostOneLiveRead`, `SliceOnlyLatestShown` | accepting by equal generation is right only if a later read of the same file carries a strictly greater generation (`GenerationsGrow`) and none carries one the view has not reached (`RequestsNumbered`); `LiveIsCurrent` says only the current flag is down. The reducers are handled together: each `Follows`, i.e. shows no other slice and never lowers the generation. |
| | `SliceTimelineIsSorted` | a timeline numbers frames by rank, and ranks in a finite total order leave no gap (`RanksNumber`) |
| | `SliceShownMatchesView`, `SliceLoadingIsBacked` | `NavInv`: the timeline is that of the selected variable and the active file that of its frame (`Settled`), the read of the current generation carries what the view names (`CurrentReads`), and so does the slice of a view that is ready (`ReadyIsRead`). Each command either leaves variable, frame and zoom alone or reads again. |
| `PlotLoadingProofs` | `PlotTypeCorrect`, `PlotAtMostOneLive`, `PlotNewestIsOfSelection`, `PlotOnlyLatestShown` | the same, simpler because generations are never reset; in addition a selection while the dialog is open always asks again (`DialogIsOfSelection`) |
| | `PictureTypeCorrect`, `PictureNeverFlashesCells`, `PictureChartIsOfSeries` | `render_cached` is one operator on slots; what it returns is a slot and shows cells only if it is disabled. Of a chart, raster and encoder are of their keys (`Keyed`), so at rest the picture is of the key asked for. |
| | `MapTypeCorrect`, `MapPointerOnItsCell`, `MapMarkerOnItsPoint`, `MapPictureIsWhole`, `MapZoomIsOfBox` | rows are rescaled by integer division, in one direction for drawing and in the other for the pointer. Every statement about a quotient is turned into one about two products (`RescaledAtLeast`), and these are compared by naming each product, since no prover here multiplies variables. A pointer has to be remembered together with what it meant (`PointerMeant`), and a picture that is up to date has the pixels of this slice (`EncodedOK`), whatever area the previous one had. |
| `BoundsResolutionProofs` | `BoundsTypeCorrect`, `BoundsZoomIsRead`, `BoundsZoomIsOfSelection` | a request with the current generation, made since the last file switch, is for the selected variable (`CurrentIsOfSelection`), because `select_variable` draws a generation |
| | `BoundsZoomIsOfPlane`, `BoundsAnswerClosesItsDialog` | a resolver answers once (`AnswersOnce`), and an answer that is still wanted, of a dialog that nobody dismissed, was asked from the dialog now open, over the axes now shown (`DueIsOfDialog`) |
| | `WindowOfTypedBounds`, `RefusalOfTypedBounds` | the window of an axis is spanned by the first and last of its samples in the range, in either convention for longitudes (`From0To360`): converting adds 360 or nothing to both ends, which does not change what lies between them |
| | `ReadsHold`, `PlaneOfView` | `ReadsInv`: view, request and slice name indices within the axes; then one lemma per reader shows that its `Cells` are the elements the request names. A manifest finds an element by quotient and remainder of its indices; a transposed slice shows the same elements under exchanged axes. |
| | `PlotsHold`, `CoordinatesOfView`, `PlotsPassThroughTheCell` | `PlotsInv` adds what is kept beside the slice: a cached grid is that of its own window and axes (`KeptGrid`), a slice and a selected point have the coordinates stored for their elements (`Placed`, `Marked`), a curve is of the elements under its cell (`Through`). A plot asks without axes, so one lemma (`PlainReads`) gives such a read cell by cell for all formats; NetCDF-4 values that arrive in stored order fill the window once each (`FilledCells`), which is all a summary needs. |
| `DialogsProofs` | `DialogsTypeCorrect`, `DialogsHaveDrafts`, `DialogsLevelInRange`, `DialogsSelectionIsRequested`, `DialogsSelectedStaysListed`, `DialogsKeysAreModal`, `DialogsEscClosesOne` | one lemma per reducer (`...Sound`: from a sound view to a sound view, selecting nothing or an entry of the list) and one per input. `LevelsAreOfSelection` has to be added: while nothing was selected since the last read, the known levels are those of the selection, or a key that reads the plane again could move the level. That an index into the list names a variable rests on ranks filling an interval (`NthIsThere`). |
| | `DialogsHighlightShown` | the window begins at the first name from which the lines up to the marked one fit; there is one, since the marked name alone fits, and a sum of lines is at least each of them (`SumIsAtLeast`) |
| | `ScreenClickClosesTheTop` | `close_button_hit` and the rectangle drawn leave a dialog at the same cells (`PlaceIsMeasured`); what is not a leaving click is a choice or of no effect on layers (`ClicksOnTop`); every reducer keeps what may be drawn (`KeepsScreens`) |
| | `ScreenClickIsOfControl` | for a bar, the value reached by truncating is among those whose rounded end is at the pointer (`RoundedEnds`, by the products that bound both quotients); the boxes of the sidebar are stacked in the order in which `translate_sidebar_position` looks at them, whatever is clipped (`BoxesInOrder`, from `SumSplits`); the rows of dialogs and browser have the same numbers on both sides (`DialogClicks`, `BrowserClicks`) |
| `LaunchesProofs` | `LaunchWindowsFit`, `LaunchWindowFits` | the zoom, the image from which the next window is dragged and the session file each hold a window within the plane it is of (`LaunchFits`); panning moves it by at most its distance to the edge |
| | `LaunchForeignOnlyByName`, `LaunchStartsWithAnImage` | step by step: which action makes a value foreign; the earliest file that opened exists (`LowestIsThere`) and has a preferred variable, which any file that has its variables can show (`InitialViewIsThere`) |
| `RangeCacheProofs` | `BookkeepingHolds`, `CacheLastHitIsNewest`, `CacheImplementsLru` | `Bookkeeping` is types, one current slot per block, the exact byte counter and the limit: each needs the others, because eviction decides by index and counter. It holds across a wrap of the recency counter. The last two assume `MaxRecency < RecencyModulus` and add `Ordered`: every recency is below the next one and recencies differ. |
| | `PagesAnswerIsAsked`, `PagesUseTheCache` | pages divide the object, so the bytes of a range are in the pages from the quotient of its first byte to that of its last (`DivideBounds`); every step is one of `RangeCache` or leaves it alone |
| `RemoteReadProofs` | `RemoteTypeCorrect`, `RemoteWaitingIsBacked`, `RemoteOpenedVersionOnly`, `RemoteDecoderStays`, `RemoteDecodedBeforeUse`, `RemoteCancelledByOwner`, `RemoteRefusedOnlyByWaiting` | `Backed`: a reader waits exactly while its read is in one of queue, job thread and result channel. It needs `QueuedOnce`, to see a read leave the channel, and `WithinBudget`, to see a retry stay in budget. `FromOpened` follows a version from the response to the decoder. |
| `Extrema` | (lemmas on ranks and sums only: `RanksNumber`, `SumIsAtLeast`, `SumSplits`) | induction by least counterexample: the naturals are well founded, so a set of counterexamples has a least member, and that one is refuted. A sum over a finite set is a recursion over its subsets, which has a solution because the least number of elements without one does not exist (`SumIsDefined`); the order does not matter, or there would be a least subset where it does (`LeastSubset`). |

**Hypotheses** of single theorems, each a fact about the inputs: `SliceOnlyLatestShown` assumes
`MaxEpochs = 0`, as finding 1 requires; `SliceShownMatchesView` and `SliceLoadingIsBacked` that no palette entry is
*clicked* (`"click" \notin Inputs`: a click takes effect without a read), the latter also that every
file has every variable (`SameVariables`, finding 2); `LaunchStartsWithAnImage` that every file has a variable and
each can be shown (`Plottable`); `ScreenClickClosesTheTop` and `ScreenClickIsOfControl` that terminals have seven columns or more
(in fewer a dialog has less than the four columns `close_button_hit` asks for);
`CoordinatesOfView` that coordinates are stored along the rows and columns of the default axes, a two-dimensional grid
also in the order of the reader's own axes (`CoordinatesTold`: of square grids stored the other way round the code takes the wrong
ones for direct, because it compares lengths); `PlotsPassThroughTheCell` that a map has at most one time and one level,
no dimension of length zero, and roles that the reader, which is not told the axes, finds by name as well (`PlotsTold`), and that `None` is
no plane (`NoneIsNoPlane`). All ten datasets of `ViewBounds` meet both.

Thirty of these theorems are about the same properties as the runs and say for all
values what a run says of an instance. The others are proved and not run, because a run
would repeat the argument of a property that is run: the type invariants,
`CacheLastHitIsNewest` (why `ImplementsLru` holds), the live reads, drafts, levels,
modality and order of dialogs, who cancels, refuses and keeps what in `RemoteRead`, and the
facts about timelines and datasets that these rest on.

**Model-checked only.**

* Liveness (`LoadingResolves`, `PlotResolves`, `PictureArrives`, `LoadingEnds`,
  `ReadsEnd`, `OpeningEnds`): TLAPS does not handle fairness.
* `CellsAreOfOperands`, `TimelineIsOneDataset`, `LabelIsOfData` of `Derived`, whose recursive operators the
  prover does not take.

## 7. Not modelled

* *Operation tracking* (`storage/operation.rs`, `worker.rs`): `LatestGeneration` and
  `WorkerQueue` are used by tests only, and of `OperationState` the application calls `begin`
  and hands the token on; tokens are in `RemoteRead`.
* *GRIB2 index, catalogue, identity*: parsing of inventory lines and tables of names. Lazy GRIB collections of
  `main.rs:1500-1724` and the scan of messages in `data/grib2.rs`.
* Numbers: decoding, statistics, interpolation, colours, projection, the nearest cell of an MPAS mesh. They are
  sequential, mostly floating point, and keep no state.
* Text: wording, formats of labels, the tokens and grammar of formulas, text fields character by character.
* *Export*, *terminal output*, raw mode and panic hook: input and output, without a state of their own.
* In `Viewport` several points at once; in `Screen` terminals too narrow for both columns
  (under 63 cells); in `Derived` a formula redefined under its own name; in `Launches`
  a second instance that shares the session file; in `PagedReads` one page fetched twice, since
  one job thread serves a source.
* Vendored HDF5 and NetCDF readers are third party: a read that returns or fails.

`invalidate_identity` and all cache categories but `metadata` are exercised by the repository's tests and
benches only; they are in `RangeCache` because they are its interface.

## 8. Plan

1. The recursion of `Derived` as recursive functions, then its three invariants.
2. `OperationTracking`: `LatestGeneration::accept` (a compare-and-swap loop) against
   concurrent callers, and `cancel` racing `begin`, once the application uses them.
3. `Grib2Inventory`: inventory lines to byte ranges; lazy collections.
4. The plot chooser and its interaction with `PlotLoading`.

## 9. Running it

```
tlc -workers 2 -config SliceNavigation.cfg MCSliceLoading   # any row of section 3
tlapm SliceLoadingProofs.tla                                # any row of section 6
```

The community modules (`SequencesExt`, `FiniteSetsExt`, ...) and, for proofs,
the TLAPS library have to be on the search path. `PROJECT.json` maps every
definition to the lines it models and lists for every property a plausible bug
(a definition marked "mutant" in the module) under which TLC finds it violated.
