------------------------- MODULE SliceLoadingProofs -------------------------
(***************************************************************************)
(* Proofs about SliceLoading, for every collection of sources, every set   *)
(* of commands and every number of reads, generations and file switches.   *)
(*                                                                         *)
(* The inductive invariant IInv says what the generation check rests on:   *)
(* within one file, a later read carries a strictly greater generation,    *)
(* and no read carries a generation the view has not reached.  A file      *)
(* switch breaks the first half across files (the counter starts again),   *)
(* which is why AnswerIsLatest speaks of the slices of the current file.   *)
(*                                                                         *)
(* NavInv relates what is shown to the view while no point is clicked; the *)
(* timeline of a collection is sorted because ranks by frame are           *)
(* different numbers (SliceTimelineIsSorted).                              *)
(***************************************************************************)
EXTENDS SliceLoading, SequenceTheorems, Extrema, TLAPS

Issued == 1..issued

\* What every command leaves of a view: its fields and a natural generation.
ViewShape(v) ==
    /\ {"variable", "timeline", "time", "zoom", "playing", "generation", "loading",
        "slice", "listed"} \subseteq DOMAIN v
    /\ v.generation \in Nat

\* The view v becomes w without showing another slice, going back in generation
\* or calling an answer ready.
Follows(v, w) ==
    /\ ViewShape(w)
    /\ w.slice = v.slice
    /\ w.generation >= v.generation
    /\ w.loading = "Ready" => v.loading = "Ready"

Shape ==
    /\ ViewShape(view)
    /\ epoch \in Nat
    /\ issued \in 0..MaxRequests
    /\ current \in 0..issued
    /\ DOMAIN request = RequestIds
    /\ DOMAIN stage = RequestIds
    /\ DOMAIN cancelled = RequestIds
    /\ channel \in Seq(Issued)

OnlyIssuedRun == \A id \in RequestIds : stage[id] # "idle" => id \in Issued

LiveIsCurrent == \A id \in RequestIds : Live(id) => id = current

RequestsNumbered ==
    \A id \in Issued :
        /\ request[id].id = id
        /\ request[id].epoch \in 0..epoch
        /\ request[id].generation \in Nat
        /\ request[id].epoch = epoch => request[id].generation <= view.generation

GenerationsGrow ==
    \A a, b \in Issued : a < b =>
        /\ request[a].epoch <= request[b].epoch
        /\ request[a].epoch = request[b].epoch => request[a].generation < request[b].generation

IInv ==
    /\ Shape
    /\ OnlyIssuedRun
    /\ LiveIsCurrent
    /\ RequestsNumbered
    /\ GenerationsGrow
    /\ AnswerIsLatest

(* ----------------------------- the reducer ----------------------------- *)

\* Following is transitive.
LEMMA FollowsTransitive ==
    ASSUME NEW u, NEW v, NEW w, ViewShape(u), Follows(u, v), Follows(v, w)
    PROVE  Follows(u, w)
  BY DEF Follows, ViewShape

\* Every command and every timeline rebuild follows the view it starts from.
LEMMA ReducersFollow ==
    ASSUME NEW v, ViewShape(v)
    PROVE  /\ Follows(v, v)
           /\ \A act : Follows(v, Configured(v, act))
           /\ \A delta : Follows(v, TimeMoved(v, delta))
           /\ \A name : Follows(v, Selected(v, name))
           /\ \A box : Follows(v, [v EXCEPT !.zoom = box])
           /\ \A on : Follows(v, [v EXCEPT !.playing = on])
           /\ Follows(v, Ticked(v))
           /\ Follows(v, ViewReset(v))
<1> USE DEF Follows, ViewShape
<1>1. Follows(v, v)
  OBVIOUS
<1>2. ASSUME NEW act PROVE Follows(v, Configured(v, act))
  <2> DEFINE line == TimelineFor(v.variable, act)
             time == IF line = <<>> THEN 0
                     ELSE IF v.time < Len(line) THEN v.time ELSE Len(line) - 1
  <2>1. Configured(v, act) = [v EXCEPT !.timeline = line, !.time = time]
    BY DEF Configured
  <2> HIDE DEF line, time
  <2> QED
    BY <2>1
<1>3. ASSUME NEW delta PROVE Follows(v, TimeMoved(v, delta))
  BY DEF TimeMoved
<1>4. ASSUME NEW name PROVE Follows(v, Selected(v, name))
  BY DEF Selected, NextGeneration
<1>5. ASSUME NEW box PROVE Follows(v, [v EXCEPT !.zoom = box])
  OBVIOUS
<1>6. ASSUME NEW on PROVE Follows(v, [v EXCEPT !.playing = on])
  OBVIOUS
<1>7. Follows(v, Ticked(v))
  BY DEF Ticked
<1>8. Follows(v, ViewReset(v))
  BY DEF ViewReset
<1> QED
  BY <1>1, <1>2, <1>3, <1>4, <1>5, <1>6, <1>7, <1>8

\* So does whatever the command palette runs.
LEMMA PaletteFollows ==
    ASSUME NEW v, ViewShape(v), NEW w \in PaletteEffects(v)
    PROVE  Follows(v, w)
  BY ReducersFollow DEF PaletteEffects

(* ---------------------------- load_selected ---------------------------- *)

\* A load, from a view that follows the current one or that of a file just
\* opened, preserves the invariant: the read it retires is the only live one and
\* the read it issues carries a generation no other read of the file has.
LEMMA LoadKeepsIInv ==
    ASSUME IInv, NEW v, NEW act, ViewShape(v), Load(v, act),
           UNCHANGED <<outcome, channel>>,
           \/ epoch' = epoch /\ Follows(view, v)
           \/ epoch' = epoch + 1 /\ v.loading # "Ready"
    PROVE  IInv'
<1> USE SourcesAssumption DEF RequestIds, Issued
<1>1. ASSUME NEW w, GiveUp(w), ViewShape(w), w.generation = v.generation,
             w.loading = "Ready" => v.loading = "Ready", w.slice = v.slice
      PROVE  IInv'
  <2>1. view' = w /\ UNCHANGED <<current, issued, request, stage>>
    BY <1>1 DEF GiveUp
  <2>2. cancelled' = CancelCurrent
    BY <1>1 DEF GiveUp
  <2>3. Shape'
    BY <1>1, <2>1, <2>2 DEF IInv, Shape, CancelCurrent
  <2>4. OnlyIssuedRun'
    BY <2>1 DEF IInv, OnlyIssuedRun
  <2>5. LiveIsCurrent'
    BY <2>1, <2>2 DEF IInv, LiveIsCurrent, Live, CancelCurrent
  <2>6. RequestsNumbered'
    BY <1>1, <2>1 DEF IInv, Shape, RequestsNumbered, Follows, ViewShape
  <2>7. GenerationsGrow'
    BY <2>1 DEF IInv, GenerationsGrow
  <2>8. AnswerIsLatest'
    BY <1>1, <2>1 DEF IInv, AnswerIsLatest, Follows
  <2> QED
    BY <2>3, <2>4, <2>5, <2>6, <2>7, <2>8 DEF IInv
<1>2. CASE Spawn(v, act)
  <2> DEFINE id == issued + 1
             next == [NextGeneration(v) EXCEPT !.loading = "Loading"]
  <2>1. ViewShape(next) /\ next.generation = v.generation + 1 /\ next.loading = "Loading"
    BY DEF ViewShape, NextGeneration
  <2>2. /\ id \in RequestIds
        /\ view' = next
        /\ issued' = id
        /\ current' = id
        /\ cancelled' = [CancelCurrent EXCEPT ![id] = FALSE]
        /\ stage' = [stage EXCEPT ![id] = "start"]
    BY <1>2 DEF Spawn, IInv, Shape
  <2>3. request' = [request EXCEPT ![id] =
             [id |-> id, epoch |-> epoch', generation |-> next.generation,
              variable |-> v.variable, point |-> PointAt(v, act), zoom |-> v.zoom]]
    BY <1>2 DEF Spawn
  <2> HIDE DEF next
  <2>4. /\ request'[id].id = id
        /\ request'[id].epoch = epoch'
        /\ request'[id].generation = v.generation + 1
    BY <2>1, <2>2, <2>3 DEF IInv, Shape
  <2>5. \A a \in Issued : request'[a] = request[a] /\ a < id /\ a \in RequestIds
    BY <2>2, <2>3 DEF IInv, Shape
  <2>6. Issued' = Issued \cup {id}
    BY <2>2 DEF IInv, Shape
  <2>7. Shape'
    <3>1. Issued \subseteq Issued' /\ channel \in Seq(Issued) /\ channel' = channel
      BY <2>6 DEF IInv, Shape
    <3>2. channel' \in Seq(Issued')
      BY <3>1, SeqMonotonic
    <3>3. DOMAIN request' = RequestIds
      BY <2>3 DEF IInv, Shape
    <3>4. epoch' \in Nat
      BY DEF IInv, Shape
    <3> QED
      BY <2>1, <2>2, <3>2, <3>3, <3>4 DEF IInv, Shape, CancelCurrent
  <2>8. OnlyIssuedRun'
    BY <2>2, <2>6 DEF IInv, Shape, OnlyIssuedRun
  <2>9. LiveIsCurrent'
    BY <2>2 DEF IInv, Shape, LiveIsCurrent, Live, CancelCurrent
  <2>10. \A a \in Issued : request[a].epoch = epoch' => request[a].generation <= v.generation
    BY DEF IInv, Shape, RequestsNumbered, Follows, ViewShape
  <2>11. RequestsNumbered'
    <3>1. \A a \in Issued : request[a].epoch \in 0..epoch' /\ request[a].generation \in Nat
      BY DEF IInv, Shape, RequestsNumbered
    <3>2. view'.generation = v.generation + 1 /\ v.generation \in Nat /\ epoch' \in Nat
      BY <2>1, <2>2 DEF ViewShape, IInv, Shape
    <3>3. ASSUME NEW a \in Issued
          PROVE  /\ request'[a].id = a
                 /\ request'[a].epoch \in 0..epoch'
                 /\ request'[a].generation \in Nat
                 /\ request'[a].epoch = epoch' => request'[a].generation <= view'.generation
      <4>1. request[a].epoch = epoch' => request[a].generation <= v.generation
        BY <2>10
      <4>2. request[a].id = a
        BY DEF IInv, RequestsNumbered
      <4> QED
        BY <2>5, <3>1, <3>2, <4>1, <4>2
    <3> QED
      BY <2>4, <2>6, <3>2, <3>3 DEF RequestsNumbered
  <2>12. GenerationsGrow'
    <3> SUFFICES ASSUME NEW a \in Issued', NEW b \in Issued', a < b
                 PROVE  /\ request'[a].epoch <= request'[b].epoch
                        /\ request'[a].epoch = request'[b].epoch =>
                             request'[a].generation < request'[b].generation
      BY DEF GenerationsGrow
    <3>1. a \in Issued
      BY <2>2 DEF IInv, Shape
    <3>2. CASE b \in Issued
      BY <2>5, <3>1, <3>2 DEF IInv, GenerationsGrow
    <3>3. CASE b = id
      <4>1. request[a].epoch \in 0..epoch' /\ request[a].generation \in Nat
        BY <3>1 DEF IInv, Shape, RequestsNumbered
      <4>2. request[a].epoch = epoch' => request[a].generation <= v.generation
        BY <2>10, <3>1
      <4> QED
        BY <2>4, <2>5, <3>1, <3>3, <4>1, <4>2 DEF ViewShape
    <3> QED
      BY <2>6, <3>2, <3>3
  <2>13. AnswerIsLatest'
    BY <2>1, <2>2 DEF AnswerIsLatest
  <2> QED
    BY <2>7, <2>8, <2>9, <2>11, <2>12, <2>13 DEF IInv
<1>3. ViewShape([v EXCEPT !.loading = "Error"])
  BY DEF ViewShape
<1>4. CASE GiveUp(v)
  BY <1>1, <1>4
<1>5. CASE GiveUp([v EXCEPT !.loading = "Error"])
  BY <1>1, <1>3, <1>5 DEF ViewShape
<1> QED
  BY <1>2, <1>4, <1>5 DEF Load

\* A command that does not load only changes the view.
LEMMA HandledKeepsIInv ==
    ASSUME IInv, NEW v, Follows(view, v), view' = v,
           UNCHANGED <<epoch, current, issued, request, stage, cancelled, outcome, channel>>
    PROVE  IInv'
<1> USE DEF Issued
<1>1. Shape' /\ OnlyIssuedRun' /\ LiveIsCurrent' /\ GenerationsGrow'
  BY DEF IInv, Shape, OnlyIssuedRun, LiveIsCurrent, Live, GenerationsGrow, Follows
<1>2. RequestsNumbered'
  BY DEF IInv, Shape, RequestsNumbered, Follows, ViewShape
<1>3. AnswerIsLatest'
  BY DEF IInv, AnswerIsLatest, Follows
<1> QED
  BY <1>1, <1>2, <1>3 DEF IInv

(* ------------------------------ every step ----------------------------- *)

\* A worker's steps move its own stage; only an issued worker runs, and only a
\* worker that runs sends.
LEMMA WorkerKeepsIInv ==
    ASSUME IInv, NEW id \in RequestIds, Worker(id)
    PROVE  IInv'
<1> USE SourcesAssumption DEF Issued
<1>1. /\ UNCHANGED <<view, epoch, current, issued, request, cancelled>>
      /\ stage[id] \in {"start", "read", "check", "limits", "send"}
      /\ \E to \in {"read", "check", "limits", "send", "done"} :
            stage' = [stage EXCEPT ![id] = to]
  BY DEF Worker, BeginRead, SkipRead, ReadSlice, FailRead, Supersede, BeginLimits,
     CompleteRead, Send, Advance, Finish
<1>2. stage[id] = "send" => \/ channel' = channel
                            \/ channel' = Append(channel, id)
  BY DEF Worker, BeginRead, SkipRead, ReadSlice, FailRead, Supersede, BeginLimits,
     CompleteRead, Send, Advance, Finish
<1>3. stage[id] # "send" =>
          /\ channel' = channel
          /\ \E to \in {"read", "check", "limits", "send"} : stage' = [stage EXCEPT ![id] = to]
  BY DEF Worker, BeginRead, SkipRead, ReadSlice, FailRead, Supersede, BeginLimits,
     CompleteRead, Send, Advance, Finish
<1>4. stage[id] = "send" => stage' = [stage EXCEPT ![id] = "done"]
  BY DEF Worker, BeginRead, SkipRead, ReadSlice, FailRead, Supersede, BeginLimits,
     CompleteRead, Send, Advance, Finish
<1>5. id \in Issued
  BY <1>1 DEF IInv, OnlyIssuedRun
<1>6. channel' \in Seq(Issued)
  <2>1. channel \in Seq(Issued)
    BY DEF IInv, Shape
  <2>2. Append(channel, id) \in Seq(Issued)
    BY <1>5, <2>1
  <2> QED
    BY <1>2, <1>3, <2>1, <2>2
<1>7. Shape'
  BY <1>1, <1>6 DEF IInv, Shape, ViewShape
<1>8. OnlyIssuedRun'
  BY <1>1, <1>5 DEF IInv, Shape, OnlyIssuedRun
<1>9. LiveIsCurrent'
  <2>1. ASSUME NEW a \in RequestIds, Live(a)' PROVE Live(a)
    BY <1>1, <1>3, <1>4, <2>1 DEF IInv, Shape, Live
  <2> QED
    BY <1>1, <2>1 DEF IInv, LiveIsCurrent
<1>10. RequestsNumbered' /\ GenerationsGrow' /\ AnswerIsLatest'
  BY <1>1 DEF IInv, RequestsNumbered, GenerationsGrow, AnswerIsLatest
<1> QED
  BY <1>7, <1>8, <1>9, <1>10 DEF IInv

\* An answer of the current file that passes the generation check is the answer
\* to the newest read.
LEMMA CurrentIsNewest ==
    ASSUME IInv, NEW id \in Issued, Current(request[id]), request[id].epoch = epoch
    PROVE  id = issued
<1> SUFFICES ASSUME id # issued PROVE FALSE
  OBVIOUS
<1> USE DEF IInv, Shape, Issued
<1>1. issued \in Issued /\ id < issued
  OBVIOUS
<1>2. request[issued].epoch = epoch
  BY <1>1 DEF GenerationsGrow, RequestsNumbered
<1>3. /\ request[id].generation < request[issued].generation
      /\ request[issued].generation <= view.generation
      /\ request[id].generation \in Nat
      /\ request[issued].generation \in Nat
  BY <1>1, <1>2 DEF GenerationsGrow, RequestsNumbered
<1> QED
  BY <1>3 DEF Current, ViewShape

\* Draining one message.
LEMMA DrainKeepsIInv ==
    ASSUME IInv, DrainSlice
    PROVE  IInv'
<1> USE SourcesAssumption DEF Issued
<1> DEFINE id == Head(channel)
<1>1. id \in Issued /\ channel' \in Seq(Issued)
  BY DEF DrainSlice, IInv, Shape
<1>2. UNCHANGED <<epoch, workerVars>>
  BY DEF DrainSlice
<1>3. /\ ViewShape(view')
      /\ view'.generation = view.generation
      /\ \/ view'.loading = view.loading /\ view'.slice = view.slice
         \/ view'.loading = "Error"
         \/ /\ view'.loading = "Ready"
            /\ view'.slice = request[id]
            /\ Current(request[id])
  <2>1. CASE Current(request[id])
    <3>1. view' = Accepted(view, request[id])
      BY <2>1 DEF DrainSlice
    <3>2. \/ Accepted(view, request[id]) =
               [view EXCEPT !.slice = request[id], !.loading = "Ready"]
          \/ Accepted(view, request[id]) = [view EXCEPT !.loading = "Error"]
      BY DEF Accepted
    <3> QED
      BY <2>1, <3>1, <3>2 DEF IInv, Shape, ViewShape
  <2>2. CASE ~Current(request[id])
    <3>1. view' = view
      BY <2>2 DEF DrainSlice
    <3> QED
      BY <3>1 DEF IInv, Shape, ViewShape
  <2> QED
    BY <2>1, <2>2
<1>4. Shape' /\ OnlyIssuedRun' /\ LiveIsCurrent' /\ GenerationsGrow'
  BY <1>1, <1>2, <1>3 DEF IInv, Shape, OnlyIssuedRun, LiveIsCurrent, Live, GenerationsGrow,
     workerVars
<1>5. RequestsNumbered'
  BY <1>2, <1>3 DEF IInv, RequestsNumbered, workerVars
<1>6. AnswerIsLatest'
  <2>1. request[id].id = id
    BY <1>1 DEF IInv, RequestsNumbered
  <2>2. Current(request[id]) /\ request[id].epoch = epoch => id = issued
    BY <1>1, CurrentIsNewest
  <2> QED
    BY <1>2, <1>3, <2>1, <2>2 DEF IInv, AnswerIsLatest, workerVars
<1> QED
  BY <1>4, <1>5, <1>6 DEF IInv

\* The three ways handle_command ends.
LEMMA ReloadedKeepsIInv ==
    ASSUME IInv, NEW v, Follows(view, v), UNCHANGED <<outcome, channel>>,
           Handled(v) \/ Reloaded(v) \/ Reconfigured(v)
    PROVE  IInv'
<1>1. ViewShape(v)
  BY DEF Follows
<1>2. CASE Handled(v)
  BY <1>2, HandledKeepsIInv DEF Handled, workerVars
<1>3. CASE Reloaded(v)
  BY <1>1, <1>3, LoadKeepsIInv DEF Reloaded
<1>4. CASE Reconfigured(v)
  <2>1. Follows(v, Configured(v, active))
    BY <1>1, ReducersFollow
  <2>2. Follows(view, Configured(v, active))
    BY <2>1, FollowsTransitive DEF IInv, Shape
  <2>3. ViewShape(Configured(v, active))
    BY <2>2 DEF Follows
  <2> QED
    BY <1>4, <2>2, <2>3, LoadKeepsIInv DEF Reconfigured, Reloaded
<1> QED
  BY <1>2, <1>3, <1>4

LEMMA InitIInv == Init => IInv
<1> SUFFICES ASSUME Init PROVE IInv
  OBVIOUS
<1> USE SourcesAssumption DEF Init, Issued
<1>1. ViewShape(view) /\ view.loading = "Idle"
  BY DEF ViewShape, BlankView
<1>2. channel \in Seq(1..issued)
  OBVIOUS
<1> QED
  BY <1>1, <1>2 DEF IInv, Shape, OnlyIssuedRun, LiveIsCurrent, Live, RequestsNumbered,
     GenerationsGrow, AnswerIsLatest

LEMMA NextIInv == IInv /\ [Next]_vars => IInv'
<1> SUFFICES ASSUME IInv, [Next]_vars PROVE IInv'
  OBVIOUS
<1>1. ViewShape(view)
  BY DEF IInv, Shape
<1> USE DEF Command
<1>2. CASE Startup
  <2>1. Follows(view, Configured(view, active))
    BY <1>1, ReducersFollow
  <2> QED
    BY <1>2, <2>1, LoadKeepsIInv DEF Startup, Follows
<1>3. CASE DrainSlice
  BY <1>3, DrainKeepsIInv
<1>4. CASE BoundsAccepted
  <2> PICK box \in Boxes : Load([view EXCEPT !.zoom = box], active)
    BY <1>4 DEF BoundsAccepted
  <2>1. Follows(view, [view EXCEPT !.zoom = box])
    BY <1>1, ReducersFollow
  <2> QED
    BY <1>4, <2>1, LoadKeepsIInv DEF BoundsAccepted, Follows
<1>5. CASE TickPlayback
  <2>1. Follows(view, Ticked(view))
    BY <1>1, ReducersFollow
  <2> QED
    BY <1>5, <2>1, LoadKeepsIInv DEF TickPlayback, Follows
<1>6. CASE NoTick \/ NoInput
  <2>1. Follows(view, view) /\ view' = view
    BY <1>1, <1>6, ReducersFollow DEF NoTick, NoInput
  <2> QED
    BY <1>6, <2>1, HandledKeepsIInv DEF NoTick, NoInput, workerVars
<1>7. CASE MoveTime
  <2> PICK delta \in {-1, 1} : Reloaded(TimeMoved(view, delta))
    BY <1>7 DEF MoveTime
  <2>1. Follows(view, TimeMoved(view, delta))
    BY <1>1, ReducersFollow
  <2> QED
    BY <1>7, <2>1, ReloadedKeepsIInv DEF MoveTime
<1>8. CASE SelectVariable
  <2> PICK name \in view.listed : Reconfigured(Selected(view, name))
    BY <1>8 DEF SelectVariable
  <2>1. Follows(view, Selected(view, name))
    BY <1>1, ReducersFollow
  <2> QED
    BY <1>8, <2>1, ReloadedKeepsIInv DEF SelectVariable
<1>9. CASE ChangeZoom
  <2> PICK box \in Boxes \cup {FullView} : Reloaded([view EXCEPT !.zoom = box])
    BY <1>9 DEF ChangeZoom
  <2>1. Follows(view, [view EXCEPT !.zoom = box])
    BY <1>1, ReducersFollow
  <2> QED
    BY <1>9, <2>1, ReloadedKeepsIInv DEF ChangeZoom
<1>10. CASE ReadAgain
  <2>1. Follows(view, view)
    BY <1>1, ReducersFollow
  <2> QED
    BY <1>10, <2>1, ReloadedKeepsIInv DEF ReadAgain
<1>11. CASE ResetVariableView
  <2>1. Follows(view, ViewReset(view))
    BY <1>1, ReducersFollow
  <2> QED
    BY <1>11, <2>1, ReloadedKeepsIInv DEF ResetVariableView
<1>12. CASE TogglePlayback
  <2>1. Follows(view, [view EXCEPT !.playing = ~view.playing])
    BY <1>1, ReducersFollow
  <2> QED
    BY <1>12, <2>1, ReloadedKeepsIInv DEF TogglePlayback
<1>13. CASE PaletteEnter \/ PaletteClick
  <2> PICK v \in PaletteEffects(view) : Reconfigured(v) \/ Handled(v)
    BY <1>13 DEF PaletteEnter, PaletteClick
  <2>1. Follows(view, v)
    BY <1>1, PaletteFollows
  <2> QED
    BY <1>13, <2>1, ReloadedKeepsIInv DEF PaletteEnter, PaletteClick
<1>14. CASE SwitchFile
  <2> PICK delta \in {-1, 1} :
        LET s == FileIndex(delta)
            offset == IF OnTimeline(view) THEN PointAt(view, active).local ELSE 0
            fresh == Configured(BlankView(s), s)
        IN  Load([fresh EXCEPT !.time = AnchoredTime(fresh.timeline, offset, s)], s)
    BY <1>14 DEF SwitchFile
  <2> DEFINE s == FileIndex(delta)
             offset == IF OnTimeline(view) THEN PointAt(view, active).local ELSE 0
             blank == BlankView(s)
             fresh == Configured(blank, s)
             time == AnchoredTime(fresh.timeline, offset, s)
             v == [fresh EXCEPT !.time = time]
  <2>1. Load(v, s)
    OBVIOUS
  <2>2. ViewShape(blank) /\ blank.loading = "Idle"
    BY DEF ViewShape, BlankView
  <2> HIDE DEF blank
  <2>3. ViewShape(fresh) /\ fresh.loading # "Ready"
    BY <2>2, ReducersFollow DEF Follows
  <2> HIDE DEF fresh
  <2> HIDE DEF time
  <2>4. ViewShape(v) /\ v.loading # "Ready"
    BY <2>3 DEF ViewShape
  <2> HIDE DEF v, s
  <2>5. epoch' = epoch + 1 /\ UNCHANGED <<outcome, channel>>
    BY <1>14 DEF SwitchFile
  <2> QED
    BY <2>1, <2>4, <2>5, LoadKeepsIInv
<1>15. ASSUME NEW id \in RequestIds, Worker(id) PROVE IInv'
  BY <1>15, WorkerKeepsIInv
<1>16. CASE UNCHANGED vars
  <2>1. Follows(view, view)
    BY <1>1, ReducersFollow
  <2> QED
    BY <1>16, <2>1, HandledKeepsIInv DEF vars
<1> QED
  BY <1>2, <1>3, <1>4, <1>5, <1>6, <1>7, <1>8, <1>9, <1>10, <1>11, <1>12, <1>13, <1>14,
     <1>15, <1>16 DEF Next, UI

LEMMA Invariance == Spec => []IInv
  BY InitIInv, NextIInv, PTL DEF Spec

(* ------------------------------- theorems ------------------------------ *)

\* A ready slice of the current file is the answer to the newest read, for every
\* interleaving of workers, cancellations, commands and file switches.
THEOREM SliceAnswerIsLatest == Spec => []AnswerIsLatest
<1>1. IInv => AnswerIsLatest
  BY DEF IInv
<1> QED
  BY Invariance, <1>1, PTL

\* load_selected never leaves two reads running that were not told to stop.
THEOREM SliceAtMostOneLiveRead == Spec => []AtMostOneLiveRead
<1>1. IInv => AtMostOneLiveRead
  BY DEF IInv, LiveIsCurrent, AtMostOneLiveRead
<1> QED
  BY Invariance, <1>1, PTL

(* ----------------------------- refinement ------------------------------ *)

\* A load, or a command that does not load, asks at most once and shows nothing.
LEMMA LoadAsks ==
    ASSUME IInv, NEW v, NEW act, Follows(view, v),
           Load(v, act) \/ Handled(v) \/ Reloaded(v) \/ Reconfigured(v)
    PROVE  view'.slice = view.slice /\ issued' \in {issued, issued + 1}
<1>1. ASSUME NEW w, NEW a, Follows(view, w), Load(w, a)
      PROVE  view'.slice = view.slice /\ issued' \in {issued, issued + 1}
  <2>1. CASE GiveUp(w)
    BY <1>1, <2>1 DEF GiveUp, Follows
  <2>2. CASE GiveUp([w EXCEPT !.loading = "Error"])
    BY <1>1, <2>2 DEF GiveUp, Follows, ViewShape
  <2>3. CASE Spawn(w, a)
    BY <1>1, <2>3 DEF Spawn, Follows, ViewShape, NextGeneration
  <2> QED
    BY <1>1, <2>1, <2>2, <2>3 DEF Load
<1>2. CASE Handled(v)
  BY <1>2 DEF Handled, workerVars, Follows
<1>3. CASE Reconfigured(v)
  <2>1. Follows(v, Configured(v, active))
    BY ReducersFollow DEF Follows
  <2>2. Follows(view, Configured(v, active))
    BY <2>1, FollowsTransitive DEF IInv, Shape
  <2> QED
    BY <1>1, <1>3, <2>2 DEF Reconfigured, Reloaded
<1> QED
  BY <1>1, <1>2, <1>3 DEF Reloaded

\* As long as no file is switched, the slices implement LatestAnswer: navigation
\* is an Ask or a stutter, and only the answer to the newest read is an Answer.
THEOREM SliceOnlyLatestShown ==
    ASSUME MaxEpochs = 0
    PROVE  Spec => OnlyLatestShown
<1> DEFINE OneFile == epoch = 0
           Shown == view.slice.id
<1>1. Init => Latest!Init /\ OneFile
  BY DEF Init, Latest!Init, BlankView, NoRequest
<1>2. IInv /\ OneFile /\ [Next]_vars => OneFile'
  <2> SUFFICES ASSUME IInv, OneFile, [Next]_vars PROVE OneFile'
    OBVIOUS
  <2>1. ~SwitchFile
    BY DEF SwitchFile
  <2>2. ASSUME NEW id \in RequestIds, Worker(id) PROVE OneFile'
    BY <2>2 DEF Worker, BeginRead, SkipRead, ReadSlice, FailRead, Supersede, BeginLimits,
       CompleteRead, Send, Advance, Finish
  <2> QED
    BY <2>1, <2>2 DEF Next, UI, vars, Startup, DrainSlice, BoundsAccepted, TickPlayback,
       NoTick, NoInput, MoveTime, SelectVariable, ChangeZoom, ReadAgain, ResetVariableView,
       TogglePlayback, PaletteEnter, PaletteClick, Handled, Reloaded, Reconfigured
<1>3. IInv /\ OneFile /\ [Next]_vars => [Latest!Next]_<<issued, Shown>>
  <2> SUFFICES ASSUME IInv, OneFile, [Next]_vars
               PROVE  [Latest!Next]_<<issued, Shown>>
    OBVIOUS
  <2>1. ViewShape(view)
    BY DEF IInv, Shape
  <2>2. Follows(view, view)
    BY <2>1, ReducersFollow
  <2>3. ASSUME view'.slice = view.slice, issued' \in {issued, issued + 1}
        PROVE  [Latest!Next]_<<issued, Shown>>
    BY <2>3 DEF Latest!Next, Latest!Ask
  <2>4. ASSUME NEW v, NEW act, Follows(view, v),
               Load(v, act) \/ Handled(v) \/ Reloaded(v) \/ Reconfigured(v)
        PROVE  [Latest!Next]_<<issued, Shown>>
    BY <2>3, <2>4, LoadAsks
  <2>5. CASE Startup
    <3>1. Follows(view, Configured(view, active))
      BY <2>1, ReducersFollow
    <3> QED
      BY <2>4, <2>5, <3>1 DEF Startup
  <2>6. CASE DrainSlice
    <3> DEFINE id == Head(channel)
    <3>1. id \in Issued
      BY <2>6 DEF DrainSlice, IInv, Shape
    <3>2. request[id].id = id /\ request[id].epoch = epoch
      BY <3>1 DEF IInv, Shape, RequestsNumbered
    <3>3. issued' = issued
      BY <2>6 DEF DrainSlice, workerVars
    <3>4. CASE Current(request[id])
      <4>1. id = issued
        BY <3>1, <3>2, <3>4, CurrentIsNewest
      <4>2. view' = Accepted(view, request[id])
        BY <2>6, <3>4 DEF DrainSlice
      <4>3. view'.slice = view.slice \/ view'.slice = request[id]
        BY <2>1, <4>2 DEF Accepted, ViewShape
      <4> QED
        BY <3>2, <3>3, <4>1, <4>3 DEF Latest!Next, Latest!Answer
    <3>5. CASE ~Current(request[id])
      BY <2>6, <3>3, <3>5 DEF DrainSlice
    <3> QED
      BY <3>4, <3>5
  <2>7. CASE BoundsAccepted
    <3> PICK box \in Boxes : Load([view EXCEPT !.zoom = box], active)
      BY <2>7 DEF BoundsAccepted
    <3>1. Follows(view, [view EXCEPT !.zoom = box])
      BY <2>1, ReducersFollow
    <3> QED
      BY <2>4, <3>1
  <2>8. CASE TickPlayback
    <3>1. Follows(view, Ticked(view))
      BY <2>1, ReducersFollow
    <3> QED
      BY <2>4, <2>8, <3>1 DEF TickPlayback
  <2>9. CASE NoTick \/ NoInput
    BY <2>9 DEF NoTick, NoInput, workerVars
  <2>10. CASE MoveTime \/ SelectVariable \/ ChangeZoom \/ ReadAgain \/ ResetVariableView
              \/ TogglePlayback
    <3>1. PICK v : /\ Follows(view, v)
                   /\ Handled(v) \/ Reloaded(v) \/ Reconfigured(v)
      <4>1. CASE MoveTime
        BY <2>1, <4>1, ReducersFollow DEF MoveTime
      <4>2. CASE SelectVariable
        BY <2>1, <4>2, ReducersFollow DEF SelectVariable
      <4>3. CASE ChangeZoom
        BY <2>1, <4>3, ReducersFollow DEF ChangeZoom
      <4>4. CASE ReadAgain
        BY <2>2, <4>4 DEF ReadAgain
      <4>5. CASE ResetVariableView
        BY <2>1, <4>5, ReducersFollow DEF ResetVariableView
      <4>6. CASE TogglePlayback
        BY <2>1, <4>6, ReducersFollow DEF TogglePlayback
      <4> QED
        BY <2>10, <4>1, <4>2, <4>3, <4>4, <4>5, <4>6
    <3> QED
      BY <2>4, <3>1
  <2>11. CASE PaletteEnter \/ PaletteClick
    <3> PICK v \in PaletteEffects(view) : Reconfigured(v) \/ Handled(v)
      BY <2>11 DEF PaletteEnter, PaletteClick
    <3>1. Follows(view, v)
      BY <2>1, PaletteFollows
    <3> QED
      BY <2>4, <3>1
  <2>12. ~SwitchFile
    BY DEF SwitchFile
  <2>13. ASSUME NEW id \in RequestIds, Worker(id) PROVE UNCHANGED <<view, issued>>
    BY <2>13 DEF Worker, BeginRead, SkipRead, ReadSlice, FailRead, Supersede, BeginLimits,
       CompleteRead, Send, Advance, Finish
  <2>14. CASE UNCHANGED vars
    BY <2>14 DEF vars
  <2> QED
    BY <2>5, <2>6, <2>7, <2>8, <2>9, <2>10, <2>11, <2>12, <2>13, <2>14 DEF Next, UI
<1>4. Spec => [][Latest!Next]_<<issued, Shown>> /\ Latest!Init
  BY <1>1, <1>2, <1>3, Invariance, PTL DEF Spec
<1> QED
  BY <1>4 DEF OnlyLatestShown, Latest!Spec

(* ----------------------------- the timeline ---------------------------- *)

Frames == UNION {FramesOf(s) : s \in Sources}

LEMMA FrameShape ==
    ASSUME NEW p \in Frames
    PROVE  /\ p.source \in Sources /\ p.source \in Nat
           /\ p.local \in Nat /\ p.local < Len(Labels[p.source])
           /\ p = [source |-> p.source, local |-> p.local]
           /\ Labels[p.source][p.local + 1] \in Nat
<1>1. PICK s \in Sources : p \in FramesOf(s)
  BY DEF Frames
<1>2. s \in Nat /\ Labels[s] \in Seq(Nat) /\ Len(Labels[s]) \in Nat
  BY SourcesAssumption DEF Sources
<1>3. PICK i \in 0..(Len(Labels[s]) - 1) : p = [source |-> s, local |-> i]
  BY <1>1 DEF FramesOf
<1>4. i \in Nat /\ i < Len(Labels[s]) /\ i + 1 \in 1..Len(Labels[s])
  BY <1>2
<1>5. Labels[s][i + 1] \in Nat
  BY <1>2, <1>4
<1>6. p.source = s /\ p.local = i
  BY <1>3
<1> QED
  BY <1>2, <1>3, <1>4, <1>5, <1>6

LEMMA FramesFinite == IsFiniteSet(Frames)
<1>1. /\ IsFiniteSet(Sources) /\ Sources # {}
      /\ \A s \in Sources : Len(Labels[s]) \in Nat
  <2>1. NumSources - 1 \in Int /\ 0 \in Sources
    BY SourcesAssumption DEF Sources
  <2>2. IsFiniteSet(Sources)
    BY <2>1, FS_Interval DEF Sources
  <2> QED
    BY <2>1, <2>2, SourcesAssumption
<1> DEFINE lens == [s \in Sources |-> Len(Labels[s])]
<1>2. PICK m \in Sources : \A s \in Sources : lens[m] >= lens[s]
  <2>1. \A s \in Sources : lens[s] \in Int
    BY <1>1
  <2> HIDE DEF lens
  <2> QED
    BY <1>1, <2>1, FiniteMaximum
<1> DEFINE top == Len(Labels[m])
           pairs == Sources \X (0..top)
           f == [p \in Frames |-> <<p.source, p.local>>]
<1>3. top \in Nat
  BY <1>1
<1>4. IsFiniteSet(0..top)
  BY <1>3, FS_Interval
<1>5. IsFiniteSet(pairs)
  <2> HIDE DEF top
  <2> QED
    BY <1>1, <1>4, FS_Product
<1>6. ASSUME NEW p \in Frames
      PROVE  f[p] \in pairs
  <2>1. p.source \in Sources /\ p.local \in Nat /\ p.local < Len(Labels[p.source])
    BY FrameShape
  <2>2. Len(Labels[p.source]) <= top
    BY <1>1, <1>2, <2>1
  <2> QED
    BY <1>1, <1>3, <2>1, <2>2
<1>7. \A p, q \in Frames : f[p] = f[q] => p = q
  <2> SUFFICES ASSUME NEW p \in Frames, NEW q \in Frames, f[p] = f[q] PROVE p = q
    OBVIOUS
  <2>1. p.source = q.source /\ p.local = q.local
    OBVIOUS
  <2> QED
    BY <2>1, FrameShape
<1>8. f \in Injection(Frames, pairs)
  <2>1. f \in [Frames -> pairs]
    BY <1>6
  <2> HIDE DEF f, pairs
  <2> QED
    BY <1>7, <2>1, Fun_IsInj
<1> QED
  <2> HIDE DEF f, pairs
  <2> QED
    BY <1>5, <1>8, FS_Injection

\* Earlier is a total order of the frames.
LEMMA EarlierOrders ==
    /\ \A p \in Frames : Earlier(p, p)
    /\ \A p, q \in Frames : Earlier(p, q) \/ Earlier(q, p)
    /\ \A p, q \in Frames : Earlier(p, q) /\ Earlier(q, p) => p = q
    /\ \A p, q, r \in Frames : Earlier(p, q) /\ Earlier(q, r) => Earlier(p, r)
<1> USE FrameShape DEF Earlier
<1>1. \A p \in Frames : Earlier(p, p)
  OBVIOUS
<1>2. \A p, q \in Frames : Earlier(p, q) \/ Earlier(q, p)
  OBVIOUS
<1>3. ASSUME NEW p \in Frames, NEW q \in Frames, Earlier(p, q), Earlier(q, p)
      PROVE  p = q
  <2>1. p.source = q.source /\ p.local = q.local
    BY <1>3 DEF Sources
  <2> QED
    BY <2>1
<1>4. ASSUME NEW p \in Frames, NEW q \in Frames, NEW r \in Frames,
             Earlier(p, q), Earlier(q, r)
      PROVE  Earlier(p, r)
  <2> DEFINE a == Labels[p.source][p.local + 1]
             b == Labels[q.source][q.local + 1]
             c == Labels[r.source][r.local + 1]
  <2>1. /\ a \in Nat /\ b \in Nat /\ c \in Nat
        /\ p.source \in Nat /\ q.source \in Nat /\ r.source \in Nat
        /\ p.local \in Nat /\ q.local \in Nat /\ r.local \in Nat
    OBVIOUS
  <2>2. /\ \/ a < b
           \/ a = b /\ p.source < q.source
           \/ a = b /\ p.source = q.source /\ p.local <= q.local
        /\ \/ b < c
           \/ b = c /\ q.source < r.source
           \/ b = c /\ q.source = r.source /\ q.local <= r.local
    BY <1>4
  <2>3. Earlier(p, r) <=>
           \/ a < c
           \/ a = c /\ p.source < r.source
           \/ a = c /\ p.source = r.source /\ p.local <= r.local
    OBVIOUS
  <2> HIDE DEF a, b, c
  <2> QED
    BY <2>1, <2>2, <2>3
<1> QED
  BY <1>1, <1>2, <1>3, <1>4

\* The timeline of a variable is its frames, each once, in the order of time: an
\* index of the time slider is a frame, and the next one is not earlier
\* (configure_timeline).
THEOREM SliceTimelineIsSorted ==
    ASSUME NEW name \in Variables, NEW act
    PROVE  LET frames == TimelineFrames(name, act)
               line == TimelineFor(name, act)
           IN  /\ line \in Seq(frames) /\ Len(line) = Cardinality(frames)
               /\ \A p \in frames : \E i \in DOMAIN line : line[i] = p
               /\ \A i, j \in DOMAIN line : i <= j <=> Earlier(line[i], line[j])
<1> DEFINE frames == TimelineFrames(name, act)
           n == Cardinality(frames)
           line == TimelineFor(name, act)
           R == {pair \in frames \X frames : Earlier(pair[1], pair[2])}
<1>1. frames \subseteq Frames
  BY DEF TimelineFrames, Frames
<1>2. IsFiniteSet(frames)
  BY <1>1, FramesFinite, FS_Subset
<1>3. line = [i \in 1..n |-> CHOOSE p \in frames : Rank(p, frames) = i]
  BY SourcesAssumption DEF TimelineFor
<1>4. \A p, q \in frames : <<p, q>> \in R <=> Earlier(p, q)
  OBVIOUS
<1>5. \A p \in frames : {q \in frames : <<q, p>> \in R} = {q \in frames : Earlier(q, p)}
  BY <1>4
<1> HIDE DEF frames, R
<1>6. /\ \A x \in frames : <<x, x>> \in R
      /\ \A x, y \in frames : <<x, y>> \in R \/ <<y, x>> \in R
      /\ \A x, y \in frames : <<x, y>> \in R /\ <<y, x>> \in R => x = y
      /\ \A x, y, z \in frames : <<x, y>> \in R /\ <<y, z>> \in R => <<x, z>> \in R
  BY <1>1, <1>4, EarlierOrders
<1> DEFINE Upto(p) == {q \in frames : <<q, p>> \in R}
<1>7. /\ n \in Nat
      /\ \A p \in frames : Cardinality(Upto(p)) \in 1..n
      /\ \A i \in 1..n : \E p \in frames : Cardinality(Upto(p)) = i
      /\ \A p, q \in frames : <<p, q>> \in R <=> Cardinality(Upto(p)) <= Cardinality(Upto(q))
  BY <1>2, <1>6, RanksNumber
<1>8. \A p \in frames : Rank(p, frames) = Cardinality(Upto(p))
  BY <1>5 DEF Rank
<1> HIDE DEF Upto, n, line
<1>9. /\ \A p \in frames : Rank(p, frames) \in 1..n
      /\ \A i \in 1..n : \E p \in frames : Rank(p, frames) = i
      /\ \A p, q \in frames : Earlier(p, q) <=> Rank(p, frames) <= Rank(q, frames)
  BY <1>4, <1>7, <1>8
<1>10. /\ DOMAIN line = 1..n
       /\ \A i \in 1..n : line[i] \in frames /\ Rank(line[i], frames) = i
  BY <1>3, <1>9
<1>11. line \in Seq(frames) /\ Len(line) = n
  BY <1>3, <1>7, <1>10
<1>12. ASSUME NEW p \in frames
       PROVE  \E i \in DOMAIN line : line[i] = p
  <2> DEFINE i == Rank(p, frames)
  <2>1. i \in 1..n /\ line[i] \in frames /\ Rank(line[i], frames) = i
    BY <1>9, <1>10
  <2>2. Earlier(line[i], p) /\ Earlier(p, line[i])
    BY <1>7, <1>9, <2>1
  <2>3. line[i] = p
    BY <1>1, <2>1, <2>2, EarlierOrders
  <2> QED
    BY <1>10, <2>1, <2>3
<1> QED
  BY <1>9, <1>10, <1>11, <1>12 DEF n, line, frames

\* So its frames are of sources that have the variable, and of the active file
\* when the variable is not compatible.
LEMMA TimelineSources ==
    ASSUME NEW name \in Variables \cup {NoVariable}, NEW act
    PROVE  /\ TimelineFor(name, act) \in Seq(Frames)
           /\ \A i \in DOMAIN TimelineFor(name, act) :
                LET s == TimelineFor(name, act)[i].source
                IN  s \in Sources /\ name \in Owned[s] /\ (Compatible(name) \/ s = act)
<1> DEFINE line == TimelineFor(name, act)
           frames == TimelineFrames(name, act)
<1>1. CASE name = NoVariable
  <2>1. line = <<>>
    BY <1>1 DEF TimelineFor
  <2>2. DOMAIN line = {} /\ line \in Seq(Frames)
    BY <2>1
  <2> QED
    BY <2>2
<1>2. CASE name \in Variables
  <2>1. line \in Seq(frames)
    BY <1>2, SliceTimelineIsSorted
  <2>2. frames \subseteq Frames
    BY DEF TimelineFrames, Frames
  <2>3. ASSUME NEW p \in frames
        PROVE  /\ p.source \in Sources /\ name \in Owned[p.source]
               /\ Compatible(name) \/ p.source = act
    BY DEF TimelineFrames, FramesOf
  <2> HIDE DEF line, frames
  <2>4. line \in Seq(Frames)
    BY <2>1, <2>2, SeqMonotonic
  <2>5. \A i \in DOMAIN line : line[i] \in frames
    BY <2>1
  <2> QED
    BY <2>3, <2>4, <2>5 DEF line
<1> QED
  BY <1>1, <1>2

\* The variable list of the start is that of a source.
LEMMA EarliestIsSource == EarliestSource \in Sources
<1>1. 0 \in Sources
  BY SourcesAssumption DEF Sources
<1>2. CASE Undated
  BY <1>1, <1>2 DEF EarliestSource
<1>3. CASE ~Undated
  <2>1. Frames # {}
    <3>1. PICK s \in Sources : Labels[s] # <<>>
      BY <1>3 DEF Undated
    <3>2. Labels[s] \in Seq(Nat) /\ Len(Labels[s]) \in Nat /\ Len(Labels[s]) # 0
      BY <3>1, SourcesAssumption
    <3>3. [source |-> s, local |-> 0] \in FramesOf(s)
      BY <3>2 DEF FramesOf
    <3> QED
      BY <3>1, <3>3 DEF Frames
  <2> DEFINE R == {pair \in Frames \X Frames : Earlier(pair[1], pair[2])}
             Upto(p) == {q \in Frames : <<q, p>> \in R}
             n == Cardinality(Frames)
  <2>2. \A p, q \in Frames : <<p, q>> \in R <=> Earlier(p, q)
    OBVIOUS
  <2>3. /\ \A x \in Frames : <<x, x>> \in R
        /\ \A x, y \in Frames : <<x, y>> \in R \/ <<y, x>> \in R
        /\ \A x, y \in Frames : <<x, y>> \in R /\ <<y, x>> \in R => x = y
        /\ \A x, y, z \in Frames : <<x, y>> \in R /\ <<y, z>> \in R => <<x, z>> \in R
    BY <2>2, EarlierOrders
  <2> HIDE DEF R
  <2>4. /\ n \in Nat
        /\ \A p \in Frames : Cardinality(Upto(p)) \in 1..n
        /\ \A i \in 1..n : \E p \in Frames : Cardinality(Upto(p)) = i
        /\ \A p, q \in Frames : <<p, q>> \in R <=> Cardinality(Upto(p)) <= Cardinality(Upto(q))
    BY <2>3, FramesFinite, RanksNumber
  <2> HIDE DEF Upto, n
  <2>5. 1 \in 1..n
    BY <2>1, <2>4
  <2>6. PICK p \in Frames : Cardinality(Upto(p)) = 1
    BY <2>4, <2>5
  <2>7. \A q \in Frames : Earlier(p, q)
    <3>1. \A q \in Frames : Cardinality(Upto(q)) \in 1..n
      BY <2>4
    <3>2. \A q \in Frames : Cardinality(Upto(p)) <= Cardinality(Upto(q))
      BY <2>6, <3>1
    <3> QED
      BY <2>2, <2>4, <3>2
  <2>8. \E s \in Sources :
          \E p1 \in FramesOf(s) : \A t \in Sources : \A q \in FramesOf(t) : Earlier(p1, q)
    BY <2>7 DEF Frames
  <2>9. EarliestSource =
          CHOOSE s \in Sources :
            \E p1 \in FramesOf(s) : \A t \in Sources : \A q \in FramesOf(t) : Earlier(p1, q)
    BY <1>3 DEF EarliestSource
  <2> QED
    BY <2>8, <2>9
<1> QED
  BY <1>2, <1>3

\* The anchored index of a file switch is on the timeline.
LEMMA AnchoredOnLine ==
    ASSUME NEW line \in Seq(Frames), NEW offset, NEW s
    PROVE  /\ AnchoredTime(line, offset, s) \in Nat
           /\ line # <<>> => AnchoredTime(line, offset, s) < Len(line)
<1> DEFINE slots == {i \in DOMAIN line : line[i].source = s}
           Nth(n) == {i \in slots : Cardinality({j \in slots : j < i}) = n}
           among == IF Nth(offset) # {} THEN Nth(offset) ELSE Nth(0)
<1>1. AnchoredTime(line, offset, s) = IF slots = {} THEN 0 ELSE (CHOOSE i \in among : TRUE) - 1
  BY DEF AnchoredTime
<1>2. Len(line) \in Nat /\ DOMAIN line = 1..Len(line) /\ (line # <<>> => Len(line) # 0)
  OBVIOUS
<1>3. CASE slots = {}
  <2> HIDE DEF slots
  <2> QED
    BY <1>1, <1>2, <1>3
<1>4. CASE slots # {}
  <2>1. slots \subseteq Nat
    BY <1>2
  <2>2. PICK m \in slots : \A i \in slots : m <= i
    BY <1>4, <2>1, LeastNatural
  <2>3. {j \in slots : j < m} = {}
    BY <2>1, <2>2
  <2>4. m \in Nth(0)
    BY <2>3, FS_EmptySet
  <2>5. among # {} /\ among \subseteq slots
    BY <2>4
  <2> DEFINE i == CHOOSE i \in among : TRUE
  <2>6. i \in slots
    BY <2>5
  <2>7. i \in 1..Len(line)
    BY <1>2, <2>6
  <2>8. AnchoredTime(line, offset, s) = i - 1
    BY <1>1, <1>4
  <2> HIDE DEF i
  <2> QED
    BY <1>2, <2>7, <2>8
<1> QED
  BY <1>3, <1>4

(* ------------------------ the view and its reads ----------------------- *)

\* A read of this variable for the frame at p can be issued.
CanRead(name, p) == name \in Owned[p.source] /\ name \in Plane[p.source]

\* The timeline is that of the variable and the active file, the index on it.
Settled(v, act) ==
    /\ v.timeline = TimelineFor(v.variable, act)
    /\ v.time \in Nat
    /\ v.timeline # <<>> => v.time < Len(v.timeline)

ViewNames(v) ==
    /\ v.variable \in Variables \cup {NoVariable}
    /\ \A name \in v.listed : \E s \in Sources : name \in Owned[s]

ReadIsOfView(r, v, act) ==
    /\ r.variable = v.variable /\ r.zoom = v.zoom /\ r.point = PointAt(v, act)
    /\ CanRead(r.variable, r.point)

\* A read of this file with the view's generation is a read of what the view is.
CurrentReads ==
    \A id \in Issued :
        request[id].epoch = epoch /\ request[id].generation = view.generation =>
            ReadIsOfView(request[id], view, active)

\* A ready slice of this file is one of them.
ReadyIsRead ==
    view.loading = "Ready" /\ view.slice.epoch = epoch =>
        \E id \in Issued :
            view.slice = request[id] /\ request[id].generation = view.generation

NavInv ==
    /\ active \in Sources
    /\ ViewNames(view)
    /\ view.time \in Nat
    /\ ui # "startup" => Settled(view, active)
    /\ ui = "startup" => issued = 0
    /\ CurrentReads
    /\ ReadyIsRead

\* The program follows the frame: the active file becomes the frame's, which
\* changes neither the timeline nor the frame.
LEMMA SyncKeepsFrame ==
    ASSUME NEW v, NEW act \in Sources, Settled(v, act), ViewNames(v)
    PROVE  /\ OnTimeline(v) <=> v.timeline # <<>>
           /\ PointAt(v, act).source \in Sources
           /\ Synced(v, act) = PointAt(v, act).source
           /\ Settled(v, Synced(v, act))
           /\ PointAt(v, Synced(v, act)) = PointAt(v, act)
           /\ OnTimeline(v) =>
                LET s == PointAt(v, act).source
                IN  v.variable \in Owned[s] /\ (Compatible(v.variable) \/ s = act)
<1> USE DEF Settled, ViewNames
<1> DEFINE line == v.timeline
<1>1. /\ line \in Seq(Frames)
      /\ \A i \in DOMAIN line :
           LET s == line[i].source
           IN  s \in Sources /\ v.variable \in Owned[s] /\ (Compatible(v.variable) \/ s = act)
  BY TimelineSources
<1>2. OnTimeline(v) <=> line # <<>>
  BY <1>1 DEF OnTimeline
<1>3. CASE line # <<>>
  <2>1. v.time + 1 \in DOMAIN line
    BY <1>1, <1>3
  <2>2. PointAt(v, act) = line[v.time + 1] /\ Synced(v, act) = line[v.time + 1].source
    BY <1>2, <1>3 DEF PointAt, Synced
  <2>3. PointAt(v, Synced(v, act)) = PointAt(v, act)
    BY <1>2, <1>3 DEF PointAt
  <2>4. /\ Synced(v, act) \in Sources /\ v.variable \in Owned[Synced(v, act)]
        /\ Compatible(v.variable) \/ Synced(v, act) = act
    BY <1>1, <2>1, <2>2
  <2>5. Compatible(v.variable) =>
          TimelineFrames(v.variable, Synced(v, act)) = TimelineFrames(v.variable, act)
    BY DEF TimelineFrames
  <2>6. TimelineFor(v.variable, Synced(v, act)) = TimelineFor(v.variable, act)
    <3>1. CASE Compatible(v.variable)
      <4> DEFINE there == TimelineFrames(v.variable, Synced(v, act))
                 here  == TimelineFrames(v.variable, act)
      <4>1. there = here
        BY <2>5, <3>1
      <4>2. TimelineFor(v.variable, Synced(v, act)) =
              IF v.variable = NoVariable THEN <<>>
              ELSE [i \in 1..Cardinality(there) |-> CHOOSE p \in there : Rank(p, there) = i]
        BY DEF TimelineFor
      <4>3. TimelineFor(v.variable, act) =
              IF v.variable = NoVariable THEN <<>>
              ELSE [i \in 1..Cardinality(here) |-> CHOOSE p \in here : Rank(p, here) = i]
        BY DEF TimelineFor
      <4> HIDE DEF there, here
      <4> QED
        BY <4>1, <4>2, <4>3
    <3>2. CASE ~Compatible(v.variable)
      BY <2>4, <3>2
    <3> QED
      BY <3>1, <3>2
  <2> QED
    BY <1>2, <2>2, <2>3, <2>4, <2>6
<1>4. CASE line = <<>>
  <2>1. PointAt(v, act) = [source |-> act, local |-> 0] /\ Synced(v, act) = act
    BY <1>2, <1>4 DEF PointAt, Synced
  <2>2. PointAt(v, act).source = act
    BY <2>1
  <2>3. Settled(v, Synced(v, act)) /\ PointAt(v, Synced(v, act)) = PointAt(v, act)
    BY <2>1
  <2> QED
    BY <1>2, <1>4, <2>1, <2>2, <2>3
<1> QED
  BY <1>3, <1>4

\* Two settled views of one variable and file can both be read, or neither.
LEMMA CanReadAlike ==
    ASSUME NEW v, NEW w, NEW act \in Sources, Settled(v, act), Settled(w, act),
           ViewNames(v), ViewNames(w), w.variable = v.variable,
           CanRead(v.variable, PointAt(v, act))
    PROVE  CanRead(w.variable, PointAt(w, act))
<1>1. w.timeline = v.timeline
  BY DEF Settled
<1>2. CASE v.timeline = <<>>
  <2>1. PointAt(v, act).source = act /\ PointAt(w, act).source = act
    BY <1>1, <1>2, SyncKeepsFrame DEF PointAt
  <2> QED
    BY <2>1 DEF CanRead
<1>3. CASE v.timeline # <<>>
  <2>1. OnTimeline(v) /\ OnTimeline(w)
    BY <1>1, <1>3, SyncKeepsFrame
  <2> DEFINE s == PointAt(v, act).source
             t == PointAt(w, act).source
  <2>2. /\ s \in Sources /\ v.variable \in Owned[s]
        /\ Compatible(v.variable) \/ s = act
    BY <2>1, SyncKeepsFrame
  <2>3. /\ t \in Sources /\ v.variable \in Owned[t]
        /\ Compatible(v.variable) \/ t = act
    BY <2>1, SyncKeepsFrame
  <2>4. v.variable \in Variables
    BY <2>2, SourcesAssumption
  <2>5. v.variable \in Plane[s] <=> v.variable \in Plane[t]
    <3>1. CASE Compatible(v.variable)
      BY <2>2, <2>3, <2>4, <3>1, PlaneAssumption
    <3>2. CASE s = act /\ t = act
      BY <3>2
    <3> QED
      BY <2>2, <2>3, <3>1, <3>2
  <2> QED
    BY <2>3, <2>5 DEF CanRead
<1> QED
  BY <1>2, <1>3

\* What a command makes of a view: the same variable, or a newly selected one.
Kept(v, w) ==
    /\ ViewShape(w) /\ w.time \in Nat
    /\ w.variable = v.variable /\ w.generation = v.generation
    /\ w.loading = v.loading /\ w.slice = v.slice /\ w.listed = v.listed

Chosen(v, w) ==
    /\ ViewShape(w) /\ w.time \in Nat
    /\ w.variable \in v.listed /\ w.generation = v.generation + 1
    /\ w.loading = "Loading" /\ w.slice = v.slice /\ w.listed = v.listed

\* Rebuilding the timeline settles a view and keeps the rest of it.
LEMMA ConfiguredSettles ==
    ASSUME NEW v, ViewShape(v), v.time \in Nat, NEW act, ViewNames(v)
    PROVE  Kept(v, Configured(v, act)) /\ Settled(Configured(v, act), act)
<1> USE DEF ViewShape
<1> DEFINE line == TimelineFor(v.variable, act)
           time == IF line = <<>> THEN 0
                   ELSE IF v.time < Len(line) THEN v.time ELSE Len(line) - 1
<1>1. Configured(v, act) = [v EXCEPT !.timeline = line, !.time = time]
  BY DEF Configured
<1>2. line \in Seq(Frames)
  BY TimelineSources DEF ViewNames
<1>3. time \in Nat /\ (line # <<>> => time < Len(line))
  <2> HIDE DEF line
  <2>1. Len(line) \in Nat /\ (line # <<>> => Len(line) # 0)
    BY <1>2
  <2> QED
    BY <2>1
<1> HIDE DEF time
<1>4. /\ Configured(v, act).timeline = line /\ Configured(v, act).time = time
      /\ Kept(v, Configured(v, act))
  <2> HIDE DEF line
  <2> QED
    BY <1>1, <1>3 DEF Kept
<1>5. TimelineFor(Configured(v, act).variable, act) = line
  BY <1>4 DEF Kept
<1> HIDE DEF line
<1> QED
  BY <1>3, <1>4, <1>5 DEF Settled

\* The reducer's effects: where the index or the zoom moves, the timeline stays.
LEMMA MovesSettle ==
    ASSUME NEW v, ViewShape(v), ViewNames(v), NEW act, Settled(v, act)
    PROVE  /\ Kept(v, v)
           /\ \A delta \in {-1, 1} :
                Kept(v, TimeMoved(v, delta)) /\ Settled(TimeMoved(v, delta), act)
           /\ Kept(v, Ticked(v)) /\ Settled(Ticked(v), act)
           /\ \A box : LET w == [v EXCEPT !.zoom = box]
                       IN  Kept(v, w) /\ Settled(w, act)
           /\ \A on : LET w == [v EXCEPT !.playing = on]
                      IN  Kept(v, w) /\ Settled(w, act)
<1> USE DEF ViewShape, Settled, Kept
<1>1. v.timeline \in Seq(Frames) /\ Len(v.timeline) \in Nat
  BY TimelineSources DEF ViewNames
<1>2. v.timeline # <<>> => Len(v.timeline) # 0
  BY <1>1
<1>3. Kept(v, v)
  OBVIOUS
<1>4. ASSUME NEW t \in Nat, v.timeline # <<>> => t < Len(v.timeline)
      PROVE  LET w == [v EXCEPT !.time = t]
             IN  Kept(v, w) /\ Settled(w, act)
  BY <1>4
<1>5. ASSUME NEW delta \in {-1, 1}
      PROVE  Kept(v, TimeMoved(v, delta)) /\ Settled(TimeMoved(v, delta), act)
  <2> DEFINE t == IF delta < 0 THEN (IF v.time = 0 THEN 0 ELSE v.time - 1)
                  ELSE IF v.time + 1 < Len(v.timeline) THEN v.time + 1 ELSE v.time
  <2>1. TimeMoved(v, delta) = [v EXCEPT !.time = t]
    BY DEF TimeMoved
  <2>2. t \in Nat /\ (v.timeline # <<>> => t < Len(v.timeline))
    BY <1>1, <1>2
  <2> HIDE DEF t
  <2> QED
    BY <1>4, <2>1, <2>2
<1>6. Kept(v, Ticked(v)) /\ Settled(Ticked(v), act)
  <2> DEFINE t == IF v.time + 1 < Len(v.timeline) THEN v.time + 1 ELSE 0
  <2>1. Ticked(v) = [v EXCEPT !.time = t]
    BY DEF Ticked
  <2>2. t \in Nat /\ (v.timeline # <<>> => t < Len(v.timeline))
    BY <1>1, <1>2
  <2> HIDE DEF t
  <2> QED
    BY <1>4, <2>1, <2>2
<1>7. ASSUME NEW box
      PROVE  LET w == [v EXCEPT !.zoom = box]
             IN  Kept(v, w) /\ Settled(w, act)
  OBVIOUS
<1>8. ASSUME NEW on
      PROVE  LET w == [v EXCEPT !.playing = on]
             IN  Kept(v, w) /\ Settled(w, act)
  OBVIOUS
<1> QED
  BY <1>3, <1>5, <1>6, <1>7, <1>8

\* A selection, a reset and the palette are settled by the rebuild that follows.
LEMMA EffectsChoose ==
    ASSUME NEW v, ViewShape(v), ViewNames(v), NEW act, Settled(v, act)
    PROVE  /\ \A name \in v.listed : Chosen(v, Selected(v, name))
           /\ Kept(v, ViewReset(v))
           /\ \A w \in PaletteEffects(v) : Kept(v, w) \/ Chosen(v, w)
<1>1. \A name \in v.listed : Chosen(v, Selected(v, name))
  BY DEF ViewShape, Settled, Chosen, Selected, NextGeneration
<1>2. Kept(v, ViewReset(v))
  BY DEF ViewShape, Settled, Kept, ViewReset
<1>3. ASSUME NEW w \in PaletteEffects(v)
      PROVE  Kept(v, w) \/ Chosen(v, w)
  BY <1>1, MovesSettle DEF PaletteEffects
<1> QED
  BY <1>1, <1>2, <1>3

\* Names: a view made of one by a command names what that one lists.
LEMMA NamesKept ==
    ASSUME NEW v, NEW w, ViewNames(v), Kept(v, w) \/ Chosen(v, w)
    PROVE  ViewNames(w)
<1>1. \A name \in v.listed : name \in Variables
  BY SourcesAssumption DEF ViewNames
<1> QED
  BY <1>1 DEF ViewNames, Kept, Chosen

\* A load keeps the invariant when no read of the file has a later generation,
\* and one that has this generation means that the frame can be read: then the
\* load does not give up, and the read it spawns is of what the view is.
LEMMA LoadKeepsNavInv ==
    ASSUME IInv, NEW v, NEW act \in Sources, ViewShape(v), ViewNames(v), Settled(v, act),
           Load(v, act), active' \in {act, Synced(v, act)}, ui' # "startup",
           \A id \in Issued : request[id].epoch = epoch' =>
               /\ request[id].generation <= v.generation
               /\ request[id].generation = v.generation =>
                    CanRead(v.variable, PointAt(v, act)),
           v.loading = "Ready" /\ v.slice.epoch = epoch' =>
               \E id \in Issued : v.slice = request[id] /\ request[id].generation = v.generation
    PROVE  NavInv'
<1> USE SourcesAssumption DEF RequestIds
<1>1. /\ active' \in Sources
      /\ Settled(v, active') /\ PointAt(v, active') = PointAt(v, act)
      /\ PointAt(v, act).source \in Sources
  BY SyncKeepsFrame
<1>2. CanRead(v.variable, PointAt(v, act)) <=> ~Unreadable(v, act) /\ ~NoPlane(v, act)
  BY <1>1 DEF CanRead, Unreadable, NoPlane
<1>3. ASSUME NEW w, w = v \/ w = [v EXCEPT !.loading = "Error"], GiveUp(w),
             ~CanRead(v.variable, PointAt(v, act))
      PROVE  NavInv'
  <2>1. view' = w /\ issued' = issued /\ request' = request /\ Issued' = Issued
    BY <1>3 DEF GiveUp, Issued
  <2>2. /\ w.variable = v.variable /\ w.timeline = v.timeline /\ w.time = v.time
        /\ w.generation = v.generation /\ w.slice = v.slice /\ w.listed = v.listed
        /\ w.loading = "Ready" => v.loading = "Ready"
    BY <1>3 DEF ViewShape
  <2>3. CurrentReads'
    <3>1. \A id \in Issued :
            ~(request[id].epoch = epoch' /\ request[id].generation = v.generation)
      BY <1>3
    <3> QED
      BY <2>1, <2>2, <3>1 DEF CurrentReads
  <2>4. ReadyIsRead'
    BY <2>1, <2>2 DEF ReadyIsRead
  <2>5. ViewNames(view)' /\ Settled(view, active)' /\ view'.time \in Nat
    BY <1>1, <2>1, <2>2 DEF ViewNames, Settled
  <2> QED
    BY <1>1, <2>3, <2>4, <2>5 DEF NavInv
<1>4. CASE Spawn(v, act) /\ CanRead(v.variable, PointAt(v, act))
  <2>a. PICK id \in Nat : id = issued + 1
    BY DEF IInv, Shape
  <2> DEFINE next == [NextGeneration(v) EXCEPT !.loading = "Loading"]
  <2>1. /\ id \in RequestIds /\ issued' = id /\ view' = next
        /\ request' = [request EXCEPT ![id] =
             [id |-> id, epoch |-> epoch', generation |-> next.generation,
              variable |-> v.variable, point |-> PointAt(v, act), zoom |-> v.zoom]]
    BY <1>4, <2>a DEF Spawn, IInv, Shape
  <2>2. /\ next.variable = v.variable /\ next.timeline = v.timeline /\ next.time = v.time
        /\ next.generation = v.generation + 1 /\ next.loading = "Loading"
        /\ next.zoom = v.zoom /\ next.listed = v.listed
    BY DEF ViewShape, NextGeneration
  <2> HIDE DEF next
  <2>3. /\ request'[id] =
             [id |-> id, epoch |-> epoch', generation |-> next.generation,
              variable |-> v.variable, point |-> PointAt(v, act), zoom |-> v.zoom]
        /\ \A a \in Issued : request'[a] = request[a]
        /\ Issued' = Issued \cup {id}
    BY <2>1, <2>a DEF IInv, Shape, Issued
  <2>4. PointAt(view, active)' = PointAt(v, act)
    <3>1. PointAt(next, active') = PointAt(v, active')
      BY <2>2 DEF PointAt, OnTimeline
    <3> QED
      BY <1>1, <2>1, <3>1
  <2>5. ReadIsOfView(request[id], view, active)'
    BY <1>4, <2>1, <2>2, <2>3, <2>4 DEF ReadIsOfView, CanRead
  <2>6. \A a \in Issued : request'[a].epoch = epoch' => request'[a].generation # view'.generation
    <3>1. v.generation \in Nat /\ \A a \in Issued : request[a].generation \in Nat
      BY DEF ViewShape, IInv, RequestsNumbered
    <3> QED
      BY <2>1, <2>2, <2>3, <3>1
  <2>7. CurrentReads'
    BY <2>3, <2>5, <2>6 DEF CurrentReads
  <2>8. ReadyIsRead'
    BY <2>1, <2>2 DEF ReadyIsRead
  <2>9. ViewNames(view)' /\ Settled(view, active)' /\ view'.time \in Nat
    BY <1>1, <2>1, <2>2 DEF ViewNames, Settled
  <2> QED
    BY <1>1, <2>7, <2>8, <2>9 DEF NavInv
<1> QED
  BY <1>2, <1>3, <1>4 DEF Load

\* A command that loads, with the timeline kept or rebuilt.
LEMMA CommandKeepsNavInv ==
    ASSUME IInv, NavInv, NEW v, Kept(view, v) \/ Chosen(view, v), Settled(v, active),
           Kept(view, v) => Settled(view, active) \/ issued = 0,
           Load(v, active), active' \in {active, Synced(v, active)}, ui' # "startup",
           epoch' = epoch
    PROVE  NavInv'
<1>1. ViewShape(v) /\ active \in Sources /\ ViewNames(view) /\ ViewNames(v)
  BY NamesKept DEF Kept, Chosen, NavInv
<1>2. /\ view.generation \in Nat /\ v.generation \in {view.generation, view.generation + 1}
      /\ v.loading = "Ready" => Kept(view, v)
      /\ v.slice = view.slice
  BY DEF Kept, Chosen, IInv, Shape, ViewShape
<1>3. \A id \in Issued : request[id].epoch = epoch =>
          request[id].generation \in Nat /\ request[id].generation <= view.generation
  BY DEF IInv, RequestsNumbered
<1>4. ASSUME NEW id \in Issued, request[id].epoch = epoch,
             request[id].generation = v.generation
      PROVE  CanRead(v.variable, PointAt(v, active))
  <2>1. v.generation = view.generation
    BY <1>2, <1>3, <1>4
  <2>2. Kept(view, v)
    BY <1>2, <2>1 DEF Chosen
  <2>3. ReadIsOfView(request[id], view, active)
    BY <1>4, <2>1 DEF NavInv, CurrentReads
  <2>4. CanRead(view.variable, PointAt(view, active))
    BY <2>3 DEF ReadIsOfView
  <2>5. Settled(view, active)
    BY <1>4, <2>2 DEF Issued
  <2>6. v.variable = view.variable
    BY <2>2 DEF Kept
  <2> QED
    BY <1>1, <2>4, <2>5, <2>6, CanReadAlike
<1>5. v.loading = "Ready" /\ v.slice.epoch = epoch =>
        \E id \in Issued : v.slice = request[id] /\ request[id].generation = v.generation
  BY <1>2 DEF Kept, NavInv, ReadyIsRead
<1>6. \A id \in Issued : request[id].epoch = epoch => request[id].generation <= v.generation
  BY <1>2, <1>3
<1> QED
  BY <1>1, <1>4, <1>5, <1>6, LoadKeepsNavInv

\* A step that neither loads nor moves the frame, which the active file follows.
LEMMA FrameKeepsNavInv ==
    ASSUME IInv, NavInv, ViewShape(view'), UNCHANGED <<epoch, issued, request>>,
           ui' = "startup" <=> ui = "startup",
           \/ active' = active
           \/ ui # "startup" /\ active' = Synced(view, active),
           view'.variable = view.variable, view'.timeline = view.timeline,
           view'.time = view.time, view'.zoom = view.zoom,
           view'.generation = view.generation, view'.listed = view.listed,
           \/ view'.loading = view.loading /\ view'.slice = view.slice
           \/ view'.loading = "Error"
           \/ \E id \in Issued : view'.slice = request[id] /\ Current(request[id])
    PROVE  NavInv'
<1>1. /\ active' \in Sources
      /\ Settled(view, active) => Settled(view, active') /\ PointAt(view, active') = PointAt(view, active)
  BY SyncKeepsFrame DEF NavInv
<1>2. ASSUME NEW act
      PROVE  /\ PointAt(view', act) = PointAt(view, act)
             /\ Settled(view', act) <=> Settled(view, act)
  BY DEF PointAt, OnTimeline, Settled
<1>3. Issued' = Issued
  BY DEF Issued
<1>4. Settled(view, active) \/ issued = 0
  BY DEF NavInv
<1>5. CurrentReads'
  <2>1. CASE issued = 0
    BY <1>3, <2>1 DEF CurrentReads, Issued
  <2>2. CASE Settled(view, active)
    <3>1. PointAt(view', active') = PointAt(view, active)
      BY <1>1, <1>2, <2>2
    <3> QED
      BY <1>3, <3>1 DEF CurrentReads, ReadIsOfView, NavInv
  <2> QED
    BY <1>4, <2>1, <2>2
<1>6. ReadyIsRead'
  BY <1>3 DEF NavInv, ReadyIsRead, Current
<1>7. ViewNames(view)' /\ view'.time \in Nat
  BY DEF NavInv, ViewNames
<1>8. ui' # "startup" => Settled(view', active')
  BY <1>1, <1>2 DEF NavInv
<1> QED
  BY <1>1, <1>5, <1>6, <1>7, <1>8 DEF NavInv

\* The first file's view, and that of a file switched to.
LEMMA BlankShape ==
    ASSUME NEW s \in Sources
    PROVE  /\ ViewShape(BlankView(s)) /\ ViewNames(BlankView(s))
           /\ BlankView(s).loading = "Idle" /\ BlankView(s).time = 0
           /\ BlankView(s).generation = 0
  BY SourcesAssumption DEF ViewShape, ViewNames, BlankView

LEMMA InitNavInv == Init => NavInv
<1> SUFFICES ASSUME Init PROVE NavInv
  OBVIOUS
<1>1. /\ view = BlankView(EarliestSource) /\ EarliestSource \in Sources
      /\ ui = "startup" /\ issued = 0 /\ active \in Sources
  BY EarliestIsSource DEF Init
<1>2. Issued = {}
  BY <1>1 DEF Issued
<1> QED
  BY <1>1, <1>2, BlankShape DEF NavInv, CurrentReads, ReadyIsRead

LEMMA SwitchKeepsNavInv ==
    ASSUME IInv, NavInv, SwitchFile
    PROVE  NavInv'
<1> PICK delta \in {-1, 1} :
      LET s == FileIndex(delta)
          offset == IF OnTimeline(view) THEN PointAt(view, active).local ELSE 0
          fresh == Configured(BlankView(s), s)
      IN  /\ active' = s
          /\ Load([fresh EXCEPT !.time = AnchoredTime(fresh.timeline, offset, s)], s)
  BY DEF SwitchFile
<1> DEFINE s == FileIndex(delta)
           offset == IF OnTimeline(view) THEN PointAt(view, active).local ELSE 0
           blank == BlankView(s)
           fresh == Configured(blank, s)
           time == AnchoredTime(fresh.timeline, offset, s)
           v == [fresh EXCEPT !.time = time]
<1>1. active' = s /\ Load(v, s) /\ epoch' = epoch + 1 /\ ui' # "startup"
  BY DEF SwitchFile, Command
<1>2. s \in Sources
  <2>1. active \in Sources
    BY DEF NavInv
  <2> QED
    BY <2>1, SourcesAssumption DEF Sources, FileIndex
<1> HIDE DEF s
<1>3. ViewShape(blank) /\ ViewNames(blank) /\ blank.loading = "Idle" /\ blank.time \in Nat
  BY <1>2, BlankShape
<1> HIDE DEF blank
<1>4. Kept(blank, fresh) /\ Settled(fresh, s)
  BY <1>3, ConfiguredSettles
<1> HIDE DEF fresh
<1>5. time \in Nat /\ (fresh.timeline # <<>> => time < Len(fresh.timeline))
  <2>1. ViewNames(fresh)
    BY <1>3, <1>4, NamesKept
  <2>2. fresh.timeline \in Seq(Frames)
    BY <1>4, <2>1, TimelineSources DEF Settled, ViewNames
  <2> QED
    BY <2>2, AnchoredOnLine
<1> HIDE DEF time
<1>6. ViewShape(v) /\ Settled(v, s) /\ ViewNames(v) /\ v.loading = "Idle"
  <2>1. /\ v.time = time /\ v.timeline = fresh.timeline /\ v.variable = fresh.variable
        /\ v.listed = fresh.listed /\ v.loading = fresh.loading /\ ViewShape(v)
    BY <1>4 DEF Kept, ViewShape
  <2>2. ViewNames(v)
    BY <1>3, <1>4, <2>1 DEF Kept, ViewNames
  <2> QED
    BY <1>3, <1>4, <1>5, <2>1, <2>2 DEF Kept, Settled
<1> HIDE DEF v
<1>7. \A id \in Issued : request[id].epoch # epoch'
  BY <1>1 DEF IInv, Shape, RequestsNumbered
<1> QED
  BY <1>1, <1>2, <1>6, <1>7, LoadKeepsNavInv

\* The step of each command, without a click in the palette.
LEMMA NextNavInv ==
    ASSUME "click" \notin Inputs
    PROVE  IInv /\ NavInv /\ [Next]_vars => NavInv'
<1> SUFFICES ASSUME IInv, NavInv, [Next]_vars PROVE NavInv'
  OBVIOUS
<1>1. /\ ViewShape(view) /\ ViewNames(view) /\ view.time \in Nat /\ active \in Sources
      /\ ui # "startup" => Settled(view, active)
      /\ ui = "startup" => issued = 0
  BY DEF IInv, Shape, NavInv
<1> USE DEF Command
<1>2. CASE Startup
  <2> DEFINE v == Configured(view, active)
  <2>1. Kept(view, v) /\ Settled(v, active)
    BY <1>1, ConfiguredSettles
  <2>2. /\ Load(v, active) /\ active' = active /\ epoch' = epoch /\ ui' # "startup"
        /\ issued = 0
    BY <1>1, <1>2 DEF Startup
  <2> HIDE DEF v
  <2> QED
    BY <2>1, <2>2, CommandKeepsNavInv
<1>3. CASE DrainSlice
  <2> DEFINE r == request[Head(channel)]
  <2>1. Head(channel) \in Issued
    BY <1>3 DEF DrainSlice, IInv, Shape
  <2>2. /\ UNCHANGED <<epoch, issued, request, active, ui>>
        /\ IF Current(r) THEN view' = Accepted(view, r) ELSE view' = view
    BY <1>3 DEF DrainSlice, workerVars
  <2>3. \/ Accepted(view, r) = [view EXCEPT !.slice = r, !.loading = "Ready"]
        \/ Accepted(view, r) = [view EXCEPT !.loading = "Error"]
    BY DEF Accepted
  <2>4. CASE Current(r)
    <3>1. \/ view' = [view EXCEPT !.slice = r, !.loading = "Ready"]
          \/ view' = [view EXCEPT !.loading = "Error"]
      BY <2>2, <2>3, <2>4
    <3>2. /\ ViewShape(view')
          /\ view'.variable = view.variable /\ view'.timeline = view.timeline
          /\ view'.time = view.time /\ view'.zoom = view.zoom
          /\ view'.generation = view.generation /\ view'.listed = view.listed
          /\ view'.loading = "Error" \/ view'.slice = r
      BY <1>1, <3>1 DEF ViewShape
    <3> HIDE DEF Accepted
    <3> QED
      BY <2>1, <2>2, <2>4, <3>2, FrameKeepsNavInv
  <2>5. CASE ~Current(r)
    BY <1>1, <2>2, <2>5, FrameKeepsNavInv
  <2> QED
    BY <2>4, <2>5
<1>4. CASE BoundsAccepted
  <2> PICK box \in Boxes : Load([view EXCEPT !.zoom = box], active)
    BY <1>4 DEF BoundsAccepted
  <2> DEFINE v == [view EXCEPT !.zoom = box]
  <2>1. /\ Load(v, active) /\ active' = active /\ epoch' = epoch
        /\ ui # "startup" /\ ui' # "startup"
    BY <1>4 DEF BoundsAccepted
  <2>2. Kept(view, v) /\ Settled(v, active)
    BY <1>1, <2>1, MovesSettle
  <2> HIDE DEF v
  <2> QED
    BY <1>1, <2>1, <2>2, CommandKeepsNavInv
<1>5. CASE TickPlayback
  <2> DEFINE v == Ticked(view)
  <2>1. /\ Load(v, active) /\ active' = Synced(v, active) /\ epoch' = epoch
        /\ ui # "startup" /\ ui' # "startup"
    BY <1>5 DEF TickPlayback, EndPass
  <2>2. Kept(view, v) /\ Settled(v, active)
    BY <1>1, <2>1, MovesSettle
  <2> HIDE DEF v
  <2> QED
    BY <1>1, <2>1, <2>2, CommandKeepsNavInv
<1>6. CASE NoTick \/ NoInput
  BY <1>1, <1>6, FrameKeepsNavInv DEF NoTick, NoInput, EndPass, workerVars
<1>7. ASSUME NEW v, Reloaded(v), Kept(view, v), Settled(v, active),
             ui # "startup", ui' # "startup"
      PROVE  NavInv'
  BY <1>1, <1>7, CommandKeepsNavInv DEF Reloaded
<1>8. ASSUME NEW v, Reconfigured(v), Kept(view, v) \/ Chosen(view, v),
             ui # "startup", ui' # "startup"
      PROVE  NavInv'
  <2> DEFINE w == Configured(v, active)
  <2>1. ViewShape(v) /\ v.time \in Nat /\ ViewNames(v)
    BY <1>1, <1>8, NamesKept DEF Kept, Chosen
  <2>2. Kept(v, w) /\ Settled(w, active)
    BY <2>1, ConfiguredSettles
  <2>3. Kept(view, w) \/ Chosen(view, w)
    BY <1>8, <2>2 DEF Kept, Chosen
  <2>4. Load(w, active) /\ active' = Synced(w, active) /\ epoch' = epoch
    BY <1>8 DEF Reconfigured, Reloaded
  <2> HIDE DEF w
  <2> QED
    BY <1>1, <1>8, <2>2, <2>3, <2>4, CommandKeepsNavInv
<1>9. CASE MoveTime
  BY <1>1, <1>7, <1>9, MovesSettle DEF MoveTime
<1>10. CASE SelectVariable
  BY <1>1, <1>8, <1>10, EffectsChoose DEF SelectVariable
<1>11. CASE ChangeZoom
  <2> PICK box \in Boxes \cup {FullView} : Reloaded([view EXCEPT !.zoom = box])
    BY <1>11 DEF ChangeZoom
  <2> QED
    BY <1>1, <1>7, <1>11, MovesSettle DEF ChangeZoom
<1>12. CASE ReadAgain
  BY <1>1, <1>7, <1>12, MovesSettle DEF ReadAgain
<1>13. CASE ResetVariableView
  BY <1>1, <1>8, <1>13, EffectsChoose DEF ResetVariableView
<1>14. CASE TogglePlayback
  <2> DEFINE v == [view EXCEPT !.playing = ~view.playing]
  <2>1. /\ view' = v /\ active' = Synced(v, active) /\ UNCHANGED <<epoch, issued, request>>
        /\ ui # "startup" /\ ui' # "startup"
    BY <1>14 DEF TogglePlayback, Handled, workerVars
  <2>2. /\ ViewShape(v)
        /\ v.variable = view.variable /\ v.timeline = view.timeline
        /\ v.time = view.time /\ v.zoom = view.zoom
        /\ v.generation = view.generation /\ v.listed = view.listed
        /\ v.loading = view.loading /\ v.slice = view.slice
    BY <1>1 DEF ViewShape
  <2> HIDE DEF v
  <2>3. Synced(v, active) = Synced(view, active)
    BY <2>2 DEF Synced, OnTimeline
  <2> QED
    BY <2>1, <2>2, <2>3, FrameKeepsNavInv
<1>15. CASE PaletteEnter
  BY <1>1, <1>8, <1>15, EffectsChoose DEF PaletteEnter
<1>16. CASE SwitchFile
  BY <1>16, SwitchKeepsNavInv
<1>17. ~PaletteClick
  BY DEF PaletteClick
<1>18. ASSUME NEW id \in RequestIds, Worker(id)
       PROVE  NavInv'
  <2>1. UNCHANGED <<ui, active, view, epoch, issued, request>>
    BY <1>18 DEF Worker, BeginRead, SkipRead, ReadSlice, FailRead, Supersede, BeginLimits,
       CompleteRead, Send, Advance, Finish
  <2> QED
    BY <1>1, <2>1, FrameKeepsNavInv
<1>19. CASE UNCHANGED vars
  BY <1>1, <1>19, FrameKeepsNavInv DEF vars
<1> QED
  BY <1>2, <1>3, <1>4, <1>5, <1>6, <1>9, <1>10, <1>11, <1>12, <1>13, <1>14, <1>15,
     <1>16, <1>17, <1>18, <1>19 DEF Next, UI

\* What the screen says is what the image shows, over any sources, commands,
\* file switches and order of answers, as long as no entry of the command
\* palette is clicked: a click runs the command without the read it needs.
THEOREM SliceShownMatchesView ==
    ASSUME "click" \notin Inputs
    PROVE  Spec => []ShownMatchesView
<1>1. NavInv => ShownMatchesView
  <2> SUFFICES ASSUME NavInv, view.loading = "Ready", view.slice.epoch = epoch
               PROVE  /\ view.slice.variable = view.variable
                      /\ view.slice.zoom = view.zoom
                      /\ view.slice.point = PointAt(view, active)
    BY DEF ShownMatchesView
  <2>1. PICK id \in Issued : view.slice = request[id] /\ request[id].generation = view.generation
    BY DEF NavInv, ReadyIsRead
  <2>2. ReadIsOfView(request[id], view, active)
    BY <2>1 DEF NavInv, CurrentReads
  <2> QED
    BY <2>1, <2>2 DEF ReadIsOfView
<1>2. Spec => []NavInv
  BY InitNavInv, NextNavInv, Invariance, PTL DEF Spec
<1> QED
  BY <1>1, <1>2, PTL

(* ------------------------- the loading indicator ----------------------- *)

\* Every file has every variable.
SameVariables == \A s, t \in Sources : Owned[s] = Owned[t]

\* A load that reads backs the indicator, and one that gives up leaves it as it
\* was, unless the variable was just selected.
LEMMA LoadKeepsBacked ==
    ASSUME IInv, LoadingIsBacked, NEW v, NEW act, ViewShape(v), Load(v, act),
           channel' = channel,
           v.loading # "Loading" \/ Kept(view, v) \/ ~Unreadable(v, act)
    PROVE  LoadingIsBacked'
<1> USE SourcesAssumption DEF RequestIds
<1>1. CASE Spawn(v, act)
  <2>a. PICK id \in Nat : id = issued + 1
    BY DEF IInv, Shape
  <2> DEFINE next == [NextGeneration(v) EXCEPT !.loading = "Loading"]
  <2>1. /\ id \in RequestIds /\ issued' = id /\ view' = next
        /\ request' = [request EXCEPT ![id] =
             [id |-> id, epoch |-> epoch', generation |-> next.generation,
              variable |-> v.variable, point |-> PointAt(v, act), zoom |-> v.zoom]]
        /\ stage' = [stage EXCEPT ![id] = "start"]
    BY <1>1, <2>a DEF Spawn, IInv, Shape
  <2> HIDE DEF next
  <2>2. request'[id].generation = view'.generation /\ stage'[id] = "start"
    BY <2>1 DEF IInv, Shape
  <2>3. id \in 1..issued'
    BY <2>1
  <2> QED
    BY <2>2, <2>3 DEF LoadingIsBacked, Answering
<1>2. CASE Unreadable(v, act) /\ GiveUp(v)
  <2> SUFFICES ASSUME v.loading = "Loading"
               PROVE  \E id \in 1..issued : Answering(id)' /\ request'[id].generation = v.generation
    BY <1>2 DEF LoadingIsBacked, GiveUp
  <2>1. view.loading = "Loading" /\ view.generation = v.generation
    BY <1>2 DEF Kept
  <2>2. PICK id \in 1..issued : Answering(id) /\ request[id].generation = view.generation
    BY <2>1 DEF LoadingIsBacked
  <2> QED
    BY <1>2, <2>1, <2>2 DEF GiveUp, Answering
<1>3. CASE GiveUp([v EXCEPT !.loading = "Error"])
  BY <1>3 DEF GiveUp, LoadingIsBacked, ViewShape
<1> QED
  BY <1>1, <1>2, <1>3 DEF Load

\* A selected variable can be read, wherever the timeline starts.
LEMMA ChosenIsReadable ==
    ASSUME SameVariables, NEW v, NEW w, NEW act \in Sources, ViewNames(v), Chosen(v, w),
           Settled(w, act)
    PROVE  ~Unreadable(w, act)
<1>1. PICK s \in Sources : w.variable \in Owned[s]
  BY DEF ViewNames, Chosen
<1>2. PointAt(w, act).source \in Sources
  BY NamesKept, SyncKeepsFrame
<1>3. w.variable \in Owned[PointAt(w, act).source]
  BY <1>1, <1>2 DEF SameVariables
<1>4. w.variable # NoVariable
  BY <1>1, SourcesAssumption
<1> QED
  BY <1>3, <1>4 DEF Unreadable

\* A step that leaves the indicator, the generation and the reads as they are.
LEMMA SameKeepsBacked ==
    ASSUME LoadingIsBacked, UNCHANGED <<issued, request, stage, channel>>,
           view'.generation = view.generation, view'.loading = view.loading
    PROVE  LoadingIsBacked'
  BY DEF LoadingIsBacked, Answering

\* A worker that was to answer still is, or has answered.
LEMMA WorkerKeepsBacked ==
    ASSUME IInv, LoadingIsBacked, NEW id \in RequestIds, Worker(id)
    PROVE  LoadingIsBacked'
<1>1. UNCHANGED <<view, issued, request>>
  BY DEF Worker, BeginRead, SkipRead, ReadSlice, FailRead, Supersede, BeginLimits,
     CompleteRead, Send, Advance, Finish
<1>2. \/ /\ channel' = channel
         /\ \E to \in {"read", "check", "limits", "send"} : stage' = [stage EXCEPT ![id] = to]
      \/ channel' = Append(channel, id) /\ stage' = [stage EXCEPT ![id] = "done"]
  BY DEF Worker, BeginRead, SkipRead, ReadSlice, FailRead, Supersede, BeginLimits,
     CompleteRead, Send, Advance, Finish
<1>3. channel \in Seq(Issued) /\ DOMAIN stage = RequestIds
  BY DEF IInv, Shape
<1>4. ASSUME NEW a \in 1..issued, Answering(a)
      PROVE  Answering(a)'
  <2>1. ASSUME channel' = channel,
               NEW to \in {"read", "check", "limits", "send"}, stage' = [stage EXCEPT ![id] = to]
        PROVE  Answering(a)'
    <3>1. stage'[a] = stage[a] \/ stage'[a] = to
      BY <1>3, <1>4, <2>1 DEF IInv, Shape, Issued
    <3> QED
      BY <1>4, <2>1, <3>1 DEF Answering
  <2>2. CASE channel' = Append(channel, id) /\ stage' = [stage EXCEPT ![id] = "done"]
    <3>1. /\ Len(channel) \in Nat /\ Len(channel') = Len(channel) + 1
          /\ channel'[Len(channel) + 1] = id
          /\ \A i \in 1..Len(channel) : channel'[i] = channel[i]
      BY <1>3, <2>2
    <3>2. Contains(channel', id)
      BY <3>1 DEF Contains
    <3>3. Contains(channel, a) => Contains(channel', a)
      BY <3>1 DEF Contains
    <3>4. a # id => stage'[a] = stage[a]
      BY <2>2
    <3> QED
      BY <1>4, <3>2, <3>3, <3>4 DEF Answering
  <2> QED
    BY <1>2, <2>1, <2>2
<1> QED
  BY <1>1, <1>4 DEF LoadingIsBacked

\* Draining a message takes the indicator down or is not the answer it waits for.
LEMMA DrainKeepsBacked ==
    ASSUME IInv, LoadingIsBacked, DrainSlice
    PROVE  LoadingIsBacked'
<1> DEFINE head == Head(channel)
<1>1. /\ channel # <<>> /\ channel' = Tail(channel) /\ UNCHANGED <<issued, request, stage>>
      /\ IF Current(request[head]) THEN view' = Accepted(view, request[head]) ELSE view' = view
  BY DEF DrainSlice, workerVars
<1>2. CASE Current(request[head])
  <2>1. \/ view' = [view EXCEPT !.slice = request[head], !.loading = "Ready"]
        \/ view' = [view EXCEPT !.loading = "Error"]
    BY <1>1, <1>2 DEF Accepted
  <2>2. view'.loading # "Loading"
    BY <2>1 DEF IInv, Shape, ViewShape
  <2> QED
    BY <2>2 DEF LoadingIsBacked
<1>3. CASE ~Current(request[head])
  <2> SUFFICES ASSUME view.loading = "Loading"
               PROVE  \E id \in 1..issued : Answering(id)' /\ request[id].generation = view.generation
    BY <1>1, <1>3 DEF LoadingIsBacked
  <2>1. PICK id \in 1..issued : Answering(id) /\ request[id].generation = view.generation
    BY DEF LoadingIsBacked
  <2>2. id # head
    BY <1>3, <2>1 DEF Current
  <2>3. Contains(channel, id) => Contains(channel', id)
    <3>1. /\ channel \in Seq(Issued) /\ Len(channel) \in Nat /\ Len(channel) # 0
          /\ head = channel[1] /\ Len(channel') = Len(channel) - 1
          /\ \A i \in 1..(Len(channel) - 1) : channel'[i] = channel[i + 1]
      BY <1>1 DEF IInv, Shape
    <3> SUFFICES ASSUME NEW i \in 1..Len(channel), channel[i] = id
                 PROVE  Contains(channel', id)
      BY DEF Contains
    <3>2. i # 1
      BY <2>2, <3>1
    <3> HIDE DEF head
    <3>3. i - 1 \in 1..(Len(channel) - 1) /\ channel'[i - 1] = channel[(i - 1) + 1]
      BY <3>1, <3>2
    <3>4. (i - 1) + 1 = i
      BY <3>1
    <3> QED
      BY <3>1, <3>3, <3>4 DEF Contains
  <2> QED
    BY <1>1, <2>1, <2>3 DEF Answering
<1> QED
  BY <1>2, <1>3

LEMMA NextBacked ==
    ASSUME "click" \notin Inputs, SameVariables
    PROVE  IInv /\ NavInv /\ LoadingIsBacked /\ [Next]_vars => LoadingIsBacked'
<1> SUFFICES ASSUME IInv, NavInv, LoadingIsBacked, [Next]_vars PROVE LoadingIsBacked'
  OBVIOUS
<1>1. /\ ViewShape(view) /\ ViewNames(view) /\ view.time \in Nat /\ active \in Sources
      /\ ui # "startup" => Settled(view, active)
  BY DEF IInv, Shape, NavInv
<1>2. ASSUME NEW v, Kept(view, v), Load(v, active), channel' = channel
      PROVE  LoadingIsBacked'
  BY <1>2, LoadKeepsBacked DEF Kept
<1>3. ASSUME NEW v, Reconfigured(v), Kept(view, v) \/ Chosen(view, v), channel' = channel
      PROVE  LoadingIsBacked'
  <2> DEFINE w == Configured(v, active)
  <2>1. ViewShape(v) /\ v.time \in Nat /\ ViewNames(v)
    BY <1>1, <1>3, NamesKept DEF Kept, Chosen
  <2>2. Kept(v, w) /\ Settled(w, active)
    BY <2>1, ConfiguredSettles
  <2>3. Kept(view, w) \/ Chosen(view, w)
    BY <1>3, <2>2 DEF Kept, Chosen
  <2>4. Load(w, active) /\ ViewShape(w)
    BY <1>3, <2>2 DEF Reconfigured, Reloaded, Kept
  <2> HIDE DEF w
  <2>5. Chosen(view, w) => ~Unreadable(w, active)
    BY <1>1, <2>2, ChosenIsReadable
  <2> QED
    BY <1>3, <2>3, <2>4, <2>5, LoadKeepsBacked
<1> USE DEF Command
<1>4. CASE Startup
  BY <1>1, <1>2, <1>4, ConfiguredSettles DEF Startup
<1>5. CASE DrainSlice
  BY <1>5, DrainKeepsBacked
<1>6. CASE BoundsAccepted
  BY <1>1, <1>2, <1>6, MovesSettle DEF BoundsAccepted
<1>7. CASE TickPlayback
  BY <1>1, <1>2, <1>7, MovesSettle DEF TickPlayback, EndPass
<1>8. CASE NoTick \/ NoInput
  BY <1>8, SameKeepsBacked DEF NoTick, NoInput, workerVars
<1>9. CASE MoveTime
  BY <1>1, <1>2, <1>9, MovesSettle DEF MoveTime, Reloaded
<1>10. CASE SelectVariable
  BY <1>1, <1>3, <1>10, EffectsChoose DEF SelectVariable
<1>11. CASE ChangeZoom
  BY <1>1, <1>2, <1>11, MovesSettle DEF ChangeZoom, Reloaded
<1>12. CASE ReadAgain
  BY <1>1, <1>2, <1>12, MovesSettle DEF ReadAgain, Reloaded
<1>13. CASE ResetVariableView
  BY <1>1, <1>3, <1>13, EffectsChoose DEF ResetVariableView
<1>14. CASE TogglePlayback
  <2>1. view' = [view EXCEPT !.playing = ~view.playing]
    BY <1>14 DEF TogglePlayback, Handled
  <2>2. view'.generation = view.generation /\ view'.loading = view.loading
    BY <1>1, <2>1 DEF ViewShape
  <2> QED
    BY <1>14, <2>2, SameKeepsBacked DEF TogglePlayback, Handled, workerVars
<1>15. CASE PaletteEnter
  BY <1>1, <1>3, <1>15, EffectsChoose DEF PaletteEnter
<1>16. CASE SwitchFile
  <2> PICK delta \in {-1, 1} :
        LET s == FileIndex(delta)
            offset == IF OnTimeline(view) THEN PointAt(view, active).local ELSE 0
            fresh == Configured(BlankView(s), s)
        IN  /\ active' = s
            /\ Load([fresh EXCEPT !.time = AnchoredTime(fresh.timeline, offset, s)], s)
    BY <1>16 DEF SwitchFile
  <2> DEFINE s == FileIndex(delta)
             offset == IF OnTimeline(view) THEN PointAt(view, active).local ELSE 0
             fresh == Configured(BlankView(s), s)
             time == AnchoredTime(fresh.timeline, offset, s)
             v == [fresh EXCEPT !.time = time]
  <2>1. Load(v, s) /\ channel' = channel
    BY <1>16 DEF SwitchFile
  <2>2. s \in Sources
    BY <1>1, SourcesAssumption DEF Sources, FileIndex
  <2> HIDE DEF s
  <2>3. Kept(BlankView(s), fresh)
    BY <2>2, BlankShape, ConfiguredSettles
  <2>4. fresh.loading = "Idle" /\ ViewShape(fresh)
    BY <2>2, <2>3, BlankShape DEF Kept
  <2> HIDE DEF fresh, time
  <2>5. v.loading = "Idle" /\ ViewShape(v)
    BY <2>4 DEF ViewShape
  <2> HIDE DEF v
  <2> QED
    BY <2>1, <2>5, LoadKeepsBacked
<1>17. ~PaletteClick
  BY DEF PaletteClick
<1>18. ASSUME NEW id \in RequestIds, Worker(id)
       PROVE  LoadingIsBacked'
  BY <1>18, WorkerKeepsBacked
<1>19. CASE UNCHANGED vars
  BY <1>19, SameKeepsBacked DEF vars
<1> QED
  BY <1>4, <1>5, <1>6, <1>7, <1>8, <1>9, <1>10, <1>11, <1>12, <1>13, <1>14, <1>15,
     <1>16, <1>17, <1>18, <1>19 DEF Next, UI

\* The loading indicator is always backed by a read that will answer with the
\* current generation, when every file has every variable and no entry of the
\* command palette is clicked.  Run SliceMissingVariable shows that the first
\* condition is needed; a click selects a variable without reading it.
THEOREM SliceLoadingIsBacked ==
    ASSUME "click" \notin Inputs, SameVariables
    PROVE  Spec => []LoadingIsBacked
<1>1. Init => LoadingIsBacked
  BY DEF Init, BlankView, LoadingIsBacked
<1>2. Spec => []NavInv
  BY InitNavInv, NextNavInv, Invariance, PTL DEF Spec
<1> QED
  BY <1>1, <1>2, NextBacked, Invariance, PTL DEF Spec
=============================================================================
