---------------------------- MODULE SliceLoading ----------------------------
(***************************************************************************)
(* Navigation and slice loading: the UI thread of src/main.rs (`run`,      *)
(* `handle_command`, `configure_timeline`, `load_selected`,                *)
(* `apply_remote_slice`) with the detached worker threads that read slices *)
(* and the channel they answer on.                                         *)
(*                                                                         *)
(* Every navigation command supersedes the read in flight: the previous    *)
(* worker's flag is raised, a new generation is drawn and a new thread is  *)
(* spawned.  Results come back in any order and are matched by generation. *)
(* `epoch` counts the file switches; the program does not keep it, and it  *)
(* is used only to state properties.                                       *)
(***************************************************************************)
EXTENDS Integers, FiniteSets, SequencesExt

CONSTANTS
    NumSources,    \* opened datasets
    Variables,     \* names of numeric variables in the collection
    NoVariable,    \* `selected_variable == None`
    Owned,         \* [Sources -> SUBSET Variables]: the metadata of each source
    Plane,         \* [Sources -> SUBSET Variables]: those with a displayable plane
    Uniform,       \* variables with one schema in every source that has them
    Favourite,     \* what select_initial_variable picks from a source's list
    Labels,        \* [Sources -> Seq(Nat)]: valid time of each local frame
    Boxes,         \* zoom rectangles the user may ask for
    FullView,      \* `zoom_bounds == None`
    Inputs,        \* kinds of command the user issues
    MaxRequests,   \* bound: slice reads issued in a behaviour
    MaxGeneration, \* bound: generations drawn between two file switches
    MaxEpochs      \* bound: file switches

Sources == 0..(NumSources - 1)
RequestIds == 1..MaxRequests

ASSUME SourcesAssumption ==
    /\ NumSources \in Nat \ {0}
    /\ MaxRequests \in Nat
    /\ MaxGeneration \in Nat
    /\ MaxEpochs \in Nat
    /\ NoVariable \notin Variables
    /\ FullView \notin Boxes
    /\ Owned \in [Sources -> SUBSET Variables]
    /\ Plane \in [Sources -> SUBSET Variables]
    /\ Uniform \subseteq Variables
    /\ DOMAIN Favourite = Sources
    /\ \A s \in Sources : Favourite[s] \in Owned[s] \cup {NoVariable}
    /\ Labels \in [Sources -> Seq(Nat)]
    /\ \A s \in Sources : Plane[s] \subseteq Owned[s]

VARIABLES
    ui,         \* where the UI thread stands in its pass
    active,     \* active_file
    view,       \* the ViewModel fields this module is about
    epoch,      \* file switches so far (specification only)
    current,    \* the request whose flag `slice_cancelled` points at, 0 at startup
    issued,     \* requests spawned so far
    request,    \* what each worker was asked for
    stage,      \* where each worker stands
    cancelled,  \* each worker's flag
    outcome,    \* what each worker will send
    channel     \* slice_tx/slice_rx: request ids whose message is in flight

vars == <<ui, active, view, epoch, current, issued, request, stage, cancelled,
          outcome, channel>>
workerVars == <<current, issued, request, stage, cancelled>>

NoRequest ==
    [id |-> 0, epoch |-> 0, generation |-> 0, variable |-> NoVariable,
     point |-> [source |-> 0, local |-> 0], zoom |-> FullView]

(* ----------------------------- the timeline ---------------------------- *)

FramesOf(s) == {[source |-> s, local |-> i] : i \in 0..(Len(Labels[s]) - 1)}

\* VirtualVariable::compatible: one schema, and present in every source.
Compatible(name) == name \in Uniform /\ \A s \in Sources : name \in Owned[s]

\* The frames configure_timeline keeps: a variable that is not compatible is
\* isolated to the active file.
TimelineFrames(name, act) ==
    UNION {FramesOf(s) : s \in {t \in Sources : /\ name \in Owned[t]
                                                /\ Compatible(name) \/ t = act}}

\* Its dimensions are the same in every source, so it has a plane in all or none.
ASSUME PlaneAssumption ==
    \A name \in Variables : Compatible(name) =>
        \A s, t \in Sources : name \in Plane[s] <=> name \in Plane[t]

\* Sorted by valid time, then source, then local index.
Earlier(p, q) ==
    LET a == Labels[p.source][p.local + 1]
        b == Labels[q.source][q.local + 1]
    IN  \/ a < b
        \/ a = b /\ p.source < q.source
        \/ a = b /\ p.source = q.source /\ p.local <= q.local

Undated == \A s \in Sources : Labels[s] = <<>>

\* earliest_source_index: the source of the first frame of all.
EarliestSource ==
    IF Undated THEN 0
    ELSE CHOOSE s \in Sources :
           \E p \in FramesOf(s) : \A t \in Sources : \A q \in FramesOf(t) : Earlier(p, q)

\* Where a frame stands among others: the frames up to it.
Rank(p, frames) == Cardinality({q \in frames : Earlier(q, p)})

TimelineFor(name, act) ==
    IF name = NoVariable THEN <<>>
    ELSE LET frames == TimelineFrames(name, act)
         IN  [i \in 1..Cardinality(frames) |-> CHOOSE p \in frames : Rank(p, frames) = i]

\* configure_timeline: rebuild the timeline and clamp the time index.
Configured(v, act) ==
    LET line == TimelineFor(v.variable, act)
    IN  [v EXCEPT !.timeline = line,
                  !.time = IF line = <<>> THEN 0
                           ELSE IF @ < Len(line) THEN @ ELSE Len(line) - 1]

OnTimeline(v) == v.time < Len(v.timeline)

\* The frame load_selected reads: the timeline's, or the active file's first.
PointAt(v, act) ==
    IF OnTimeline(v) THEN v.timeline[v.time + 1] ELSE [source |-> act, local |-> 0]

\* `active_file = point.source_index`, after a command and in every pass.
Synced(v, act) == IF OnTimeline(v) THEN v.timeline[v.time + 1].source ELSE act

(* ------------------------- the reducer (src/app.rs) -------------------- *)

\* (mutant) no new generation is drawn.
SameGeneration(v) == v

NextGeneration(v) == [v EXCEPT !.generation = @ + 1]

\* AppState::select_variable.
Selected(v, name) ==
    [NextGeneration(v) EXCEPT !.variable = name, !.zoom = FullView, !.loading = "Loading"]

\* (mutant) the time index wraps to the length instead of the last frame.
TimeMovedOffByOne(v, delta) ==
    [v EXCEPT !.time = (@ + delta) % (Len(v.timeline) + 1)]

\* Command::MoveTime: bounded_index over time_length = max(1, timeline.len()).
TimeMoved(v, delta) ==
    [v EXCEPT !.time = IF delta < 0 THEN (IF @ = 0 THEN 0 ELSE @ - 1)
                       ELSE IF @ + 1 < Len(v.timeline) THEN @ + 1 ELSE @]

\* Command::TickPlayback wraps around.
Ticked(v) ==
    [v EXCEPT !.time = IF @ + 1 < Len(v.timeline) THEN @ + 1 ELSE 0]

\* Command::ResetVariableView.
ViewReset(v) == [v EXCEPT !.time = 0, !.zoom = FullView, !.playing = FALSE]

\* The navigation commands that can reach `reduce` from a palette entry.
PaletteEffects(v) ==
    {TimeMoved(v, d) : d \in {-1, 1}} \cup {Selected(v, name) : name \in v.listed}
        \cup {[v EXCEPT !.zoom = FullView], v}

(* ---------------------------- load_selected ---------------------------- *)

\* (mutant) the previous read is not told to stop.
CancelNothing == cancelled

CancelCurrent == [id \in RequestIds |-> cancelled[id] \/ id = current]

\* The early returns: nothing selected, or the source lacks the variable.
Unreadable(v, act) == v.variable = NoVariable \/ v.variable \notin Owned[PointAt(v, act).source]

NoPlane(v, act) == v.variable \notin Plane[PointAt(v, act).source]

GiveUp(v) ==
    /\ view' = v
    /\ cancelled' = CancelCurrent
    /\ UNCHANGED <<current, issued, request, stage>>

\* A new generation, a fresh flag, a spawned thread.
Spawn(v, act) ==
    LET id == issued + 1
        next == [NextGeneration(v) EXCEPT !.loading = "Loading"]
    IN  /\ issued < MaxRequests
        /\ view' = next
        /\ issued' = id
        /\ current' = id
        /\ cancelled' = [CancelCurrent EXCEPT ![id] = FALSE]
        /\ stage' = [stage EXCEPT ![id] = "start"]
        /\ request' = [request EXCEPT ![id] =
             [id |-> id, epoch |-> epoch', generation |-> next.generation,
              variable |-> v.variable, point |-> PointAt(v, act), zoom |-> v.zoom]]

Load(v, act) ==
    \/ Unreadable(v, act) /\ GiveUp(v)
    \/ ~Unreadable(v, act) /\ NoPlane(v, act) /\ GiveUp([v EXCEPT !.loading = "Error"])
    \/ ~Unreadable(v, act) /\ ~NoPlane(v, act) /\ Spawn(v, act)

(* --------------------------- the worker threads ------------------------ *)

Finish(id, result) ==
    /\ outcome' = [outcome EXCEPT ![id] = result]
    /\ stage' = [stage EXCEPT ![id] = "send"]
    /\ UNCHANGED <<ui, active, view, epoch, current, issued, request, cancelled,
                   channel>>

Advance(id, from, to) ==
    /\ stage[id] = from
    /\ stage' = [stage EXCEPT ![id] = to]
    /\ UNCHANGED <<ui, active, view, epoch, current, issued, request, cancelled,
                   outcome, channel>>

\* "slice superseded before read".
BeginRead(id) == Advance(id, "start", "read") /\ ~cancelled[id]
SkipRead(id) == stage[id] = "start" /\ cancelled[id] /\ Finish(id, "error")

\* read_slice_on_axes_cancellable returns, fails, is cancelled or panics.
ReadSlice(id) == Advance(id, "read", "check")
FailRead(id) == stage[id] = "read" /\ Finish(id, "error")

\* "slice superseded"; a zoomed view may need the full plane for its limits,
\* whose failure is ignored.
Supersede(id) == stage[id] = "check" /\ cancelled[id] /\ Finish(id, "error")
BeginLimits(id) ==
    Advance(id, "check", "limits") /\ ~cancelled[id] /\ request[id].zoom # FullView
CompleteRead(id) ==
    /\ \/ stage[id] = "check" /\ ~cancelled[id]
       \/ stage[id] = "limits"
    /\ \E result \in {"ok", "oversized"} : Finish(id, result)

Send(id) ==
    /\ stage[id] = "send"
    /\ stage' = [stage EXCEPT ![id] = "done"]
    /\ channel' = Append(channel, id)
    /\ UNCHANGED <<ui, active, view, epoch, current, issued, request, cancelled,
                   outcome>>

Worker(id) ==
    \/ BeginRead(id) \/ SkipRead(id) \/ ReadSlice(id) \/ FailRead(id)
    \/ Supersede(id) \/ BeginLimits(id) \/ CompleteRead(id) \/ Send(id)

(* ------------------------------ the UI thread -------------------------- *)

BlankView(s) ==
    [variable |-> Favourite[s], timeline |-> <<>>, time |-> 0, zoom |-> FullView,
     playing |-> FALSE, generation |-> 0, loading |-> "Idle", slice |-> NoRequest,
     listed |-> Owned[s]]

Init ==
    /\ ui = "startup"
    /\ active \in Sources
    /\ view = BlankView(EarliestSource)
    /\ epoch = 0
    /\ current = 0
    /\ issued = 0
    /\ request = [id \in RequestIds |-> NoRequest]
    /\ stage = [id \in RequestIds |-> "idle"]
    /\ cancelled = [id \in RequestIds |-> FALSE]
    /\ outcome = [id \in RequestIds |-> "none"]
    /\ channel = <<>>

\* The variable list is the earliest source's, the active file may be restored
\* from the session.
Startup ==
    /\ ui = "startup"
    /\ ui' = "drain"
    /\ UNCHANGED <<active, epoch, outcome, channel>>
    /\ Load(Configured(view, active), active)

\* apply_remote_slice.
\* (mutant) results are applied whatever their generation.
AnyGeneration(r) == TRUE

Current(r) == r.generation = view.generation

\* (mutant) a failed read leaves the loading state alone.
AcceptedIfOk(v, r) ==
    IF outcome[r.id] = "ok" THEN [v EXCEPT !.slice = r, !.loading = "Ready"] ELSE v

Accepted(v, r) ==
    CASE outcome[r.id] = "ok" -> [v EXCEPT !.slice = r, !.loading = "Ready"]
      [] OTHER -> [v EXCEPT !.loading = "Error"]

DrainSlice ==
    /\ ui = "drain"
    /\ channel # <<>>
    /\ channel' = Tail(channel)
    /\ LET r == request[Head(channel)]
       IN  IF Current(r) THEN view' = Accepted(view, r) ELSE UNCHANGED view
    /\ UNCHANGED <<ui, active, epoch, outcome, workerVars>>

EndPass(v) == ui = "drain" /\ channel = <<>> /\ ui' = "input" /\ active' = Synced(v, active)

\* The bounds_rx drain: resolved bounds are accepted and read (the dialog and its
\* generations are BoundsResolution's).
BoundsAccepted ==
    /\ "bounds" \in Inputs
    /\ ui = "drain"
    /\ channel = <<>>
    /\ view.generation < MaxGeneration
    /\ UNCHANGED <<ui, active, epoch, outcome, channel>>
    /\ \E box \in Boxes : Load([view EXCEPT !.zoom = box], active)

\* The playback timer has expired: advance a frame and load it.
TickPlayback ==
    /\ EndPass(Ticked(view))
    /\ view.playing
    /\ view.generation < MaxGeneration
    /\ UNCHANGED <<epoch, outcome, channel>>
    /\ Load(Ticked(view), active)

NoTick ==
    /\ EndPass(view)
    /\ UNCHANGED <<view, epoch, outcome, channel, workerVars>>

Command(kind) ==
    /\ kind \in Inputs
    /\ view.generation + 1 < MaxGeneration
    /\ ui = "input"
    /\ ui' = "drain"
    /\ UNCHANGED <<outcome, channel>>

\* handle_command after `reduce`: a command on the reload list reads again, one
\* on the reconfigure list rebuilds the timeline first, any other does neither.
Handled(v) == view' = v /\ active' = Synced(v, active) /\ UNCHANGED <<epoch, workerVars>>
\* (mutant) the command is missing from the reload list.
ReloadForgotten(v) == Handled(v)

Reloaded(v) == UNCHANGED epoch /\ Load(v, active) /\ active' = Synced(v, active)
Reconfigured(v) == Reloaded(Configured(v, active))

MoveTime == Command("time") /\ \E delta \in {-1, 1} : Reloaded(TimeMoved(view, delta))

SelectVariable ==
    Command("variable") /\ \E name \in view.listed : Reconfigured(Selected(view, name))

ChangeZoom ==
    Command("zoom") /\ \E box \in Boxes \cup {FullView} : Reloaded([view EXCEPT !.zoom = box])

\* Depth, fixed dimensions, automatic limits, scale and scope: same frame again.
ReadAgain == Command("reload") /\ Reloaded(view)

ResetVariableView == Command("reset") /\ Reconfigured(ViewReset(view))

TogglePlayback == Command("play") /\ Handled([view EXCEPT !.playing = ~@])

\* Enter in the command palette: ExecuteCommandPalette is on both lists.
PaletteEnter == Command("palette") /\ \E v \in PaletteEffects(view) : Reconfigured(v)

\* A click in the command palette: ExecutePaletteChoice is on neither.
PaletteClick == Command("click") /\ \E v \in PaletteEffects(view) : Handled(v)

\* bounded_file_index.
FileIndex(delta) ==
    LET next == active + delta
    IN  IF next < 0 THEN 0 ELSE IF next >= NumSources THEN NumSources - 1 ELSE next

\* anchored_time_index: the new file's frame at the previous local index, else
\* its first frame, else frame 0.
AnchoredTime(line, offset, s) ==
    LET slots == {i \in DOMAIN line : line[i].source = s}
        Nth(n) == {i \in slots : Cardinality({j \in slots : j < i}) = n}
    IN  IF slots = {} THEN 0
        ELSE (CHOOSE i \in (IF Nth(offset) # {} THEN Nth(offset) ELSE Nth(0)) : TRUE) - 1

\* Command::PreviousFile / NextFile: a fresh state for the source, with its
\* generation counter back at zero.
SwitchFile ==
    /\ Command("file")
    /\ epoch < MaxEpochs
    /\ epoch' = epoch + 1
    /\ \E delta \in {-1, 1} :
         LET s == FileIndex(delta)
             offset == IF OnTimeline(view) THEN PointAt(view, active).local ELSE 0
             fresh == Configured(BlankView(s), s)
         IN  /\ active' = s
             /\ Load([fresh EXCEPT !.time = AnchoredTime(fresh.timeline, offset, s)], s)

NoInput ==
    /\ ui = "input"
    /\ ui' = "drain"
    /\ UNCHANGED <<active, view, epoch, outcome, channel, workerVars>>

UI ==
    \/ Startup \/ DrainSlice \/ BoundsAccepted \/ TickPlayback \/ NoTick \/ NoInput
    \/ MoveTime \/ SelectVariable \/ ChangeZoom \/ ReadAgain \/ ResetVariableView
    \/ TogglePlayback \/ PaletteEnter \/ PaletteClick \/ SwitchFile

Next == UI \/ \E id \in RequestIds : Worker(id)

Spec == Init /\ [][Next]_vars

\* The UI loop never blocks for long and every spawned thread runs to its end.
FairSpec == Spec /\ WF_vars(UI) /\ \A id \in RequestIds : WF_vars(Worker(id))

(* ------------------------------ properties ----------------------------- *)

TypeOK ==
    /\ ui \in {"startup", "drain", "input"}
    /\ active \in Sources
    /\ epoch \in 0..MaxEpochs
    /\ issued \in 0..MaxRequests
    /\ current \in 0..issued
    /\ view.variable \in Variables \cup {NoVariable}
    /\ view.time = 0 \/ view.time \in 1..(Len(view.timeline) - 1)
    /\ view.zoom \in Boxes \cup {FullView}
    /\ view.generation \in Nat
    /\ view.loading \in {"Idle", "Loading", "Ready", "Error"}
    /\ view.listed \subseteq Variables
    /\ stage \in [RequestIds -> {"idle", "start", "read", "check", "limits", "send", "done"}]
    /\ cancelled \in [RequestIds -> BOOLEAN]
    /\ outcome \in [RequestIds -> {"none", "ok", "oversized", "error"}]
    /\ channel \in Seq(1..issued)

\* Between two file switches, a slice shown as ready is the answer to the newest
\* read: no interleaving of workers, cancellations and commands lets the reply
\* of a superseded read become the current image.
AnswerIsLatest ==
    view.loading = "Ready" /\ view.slice.epoch = epoch => view.slice.id = issued

\* Between two file switches, what the screen says is what the image shows: the
\* ready slice is of the selected variable, the frame under the time index and
\* the current zoom (the status bar and the export names are taken from the view).
ShownMatchesView ==
    view.loading = "Ready" /\ view.slice.epoch = epoch =>
        /\ view.slice.variable = view.variable
        /\ view.slice.zoom = view.zoom
        /\ view.slice.point = PointAt(view, active)

\* load_selected leaves at most one read that has not been told to stop, over
\* every sequence of commands and file switches.
Live(id) == stage[id] \in {"start", "read", "check", "limits"} /\ ~cancelled[id]
AtMostOneLiveRead == \A a, b \in RequestIds : Live(a) /\ Live(b) => a = b

\* The loading indicator is backed by a read that will answer with the current
\* generation; otherwise nothing would ever take it down.
Answering(id) == stage[id] \in {"start", "read", "check", "limits", "send"} \/ Contains(channel, id)
LoadingIsBacked ==
    view.loading = "Loading" =>
        \E id \in 1..issued : Answering(id) /\ request[id].generation = view.generation

\* The generation check of apply_remote_slice: the answer of an older read never
\* replaces that of a newer one.
OlderNeverReplaces == [][DrainSlice => view'.slice.id >= view.slice.id]_vars

\* Within one file, the slices implement the promise of LatestAnswer.
Latest == INSTANCE LatestAnswer WITH asked <- issued, shown <- view.slice.id
OnlyLatestShown == Latest!Spec

\* Every load is eventually answered: the indicator does not stay up forever.
LoadingResolves == []<>(view.loading # "Loading")

=============================================================================
