-------------------------- MODULE PlotLoadingProofs --------------------------
(***************************************************************************)
(* Proofs about PlotLoading, ImageSlots and MapCells.                      *)
(*                                                                         *)
(* Plot requests, for every set of variables and every number of them.     *)
(*                                                                         *)
(* TypeOK is not enough to show that only the newest plot appears: a       *)
(* message names its request, and it is the generation stored in the       *)
(* request that is compared.  IInv adds that the request numbered id       *)
(* carries generation id, that only issued requests are running or in the  *)
(* channel, that a live worker is the one plot_cancelled points at, and    *)
(* that the open dialog's newest request is of the selected variable.      *)
(*                                                                         *)
(* The picture of a map, for any number of frames: the raster and the one  *)
(* under way are of their keys (Keyed), so what is drawn with nothing      *)
(* under way is of the key asked for (AtRest).                             *)
(*                                                                         *)
(* The cells of a map, for every size of terminal, font and plane: bounds  *)
(* on quotients are turned into bounds on products (RescaledAtLeast), and  *)
(* from these the cell of the pointer, of the marker and of the picture    *)
(* are the same one; a pointer kept means the same cell (CellInv).         *)
(***************************************************************************)
EXTENDS PlotLoading, ImageSlots, MapCells, Extrema, SequenceTheorems, FiniteSetTheorems, TLAPS

Issued == 1..plotGeneration

RequestsNumbered == \A id \in Issued : request[id].generation = id

OnlyIssuedRun ==
    /\ \A id \in PlotIds : stage[id] # "idle" => id \in Issued
    /\ channel \in Seq(Issued)

LiveIsCurrent == \A id \in PlotIds : Live(id) => id = current

DialogIsOfSelection ==
    overlay = "plot" => plotGeneration > 0 /\ request[plotGeneration].variable = variable

IInv == TypeOK /\ RequestsNumbered /\ OnlyIssuedRun /\ LiveIsCurrent /\ DialogIsOfSelection

\* The inductive invariant holds initially: nothing has been asked.
LEMMA InitIInv == Init => IInv
<1> SUFFICES ASSUME Init PROVE IInv
  OBVIOUS
<1> USE PlotAssumption DEF Init, PlotIds, NoPlot
<1>1. TypeOK
  BY DEF TypeOK
<1>2. RequestsNumbered /\ OnlyIssuedRun
  BY DEF RequestsNumbered, OnlyIssuedRun, Issued
<1>3. LiveIsCurrent /\ DialogIsOfSelection
  BY DEF LiveIsCurrent, DialogIsOfSelection, Live
<1> QED
  BY <1>1, <1>2, <1>3 DEF IInv

\* What load_time_series does to the requests, the flags and the stages: it
\* numbers a new request, retires the previous flag and starts one worker.
LEMMA LoadKeepsIInv ==
    ASSUME IInv, LoadTimeSeries, overlay' = "plot",
           UNCHANGED <<variable, selections, plot, outcome, channel>>,
           ui' \in {"drain", "input"}
    PROVE  IInv'
<1> USE PlotAssumption DEF IInv, PlotIds, Issued
<1>1. plotGeneration + 1 \in PlotIds /\ plotGeneration' = plotGeneration + 1
  BY DEF LoadTimeSeries, TypeOK
<1>2. TypeOK'
  <2>1. cancelled' \in [PlotIds -> BOOLEAN]
    BY <1>1 DEF LoadTimeSeries, TypeOK, CancelCurrent
  <2>2. request' \in [PlotIds -> [generation : 0..MaxPlots, variable : Variables \cup {0}]]
    BY <1>1 DEF LoadTimeSeries, TypeOK
  <2>3. stage' \in [PlotIds -> {"idle", "start", "compute", "send", "done"}]
    BY <1>1 DEF LoadTimeSeries, TypeOK
  <2> QED
    BY <1>1, <2>1, <2>2, <2>3 DEF LoadTimeSeries, TypeOK, NewFlag
<1>3. RequestsNumbered'
  BY <1>1 DEF LoadTimeSeries, TypeOK, RequestsNumbered
<1>4. OnlyIssuedRun'
  <2>1. Issued \subseteq Issued'
    BY <1>1 DEF TypeOK
  <2>2. channel' \in Seq(Issued')
    <3>1. channel' = channel /\ channel \in Seq(Issued)
      BY DEF OnlyIssuedRun
    <3> QED
      BY <2>1, <3>1, SeqMonotonic
  <2>3. \A id \in PlotIds : stage'[id] # "idle" => id \in Issued'
    BY <1>1, <2>1 DEF LoadTimeSeries, TypeOK, OnlyIssuedRun
  <2> QED
    BY <2>2, <2>3 DEF OnlyIssuedRun
<1>5. LiveIsCurrent'
  BY <1>1 DEF LoadTimeSeries, TypeOK, LiveIsCurrent, Live, CancelCurrent, NewFlag
<1>6. DialogIsOfSelection'
  BY <1>1 DEF LoadTimeSeries, TypeOK, DialogIsOfSelection
<1> QED
  BY <1>2, <1>3, <1>4, <1>5, <1>6

\* Every step of the UI thread and of the workers preserves the invariant.
LEMMA NextIInv == IInv /\ [Next]_vars => IInv'
<1> SUFFICES ASSUME IInv, [Next]_vars PROVE IInv'
  OBVIOUS
<1> USE PlotAssumption DEF IInv, PlotIds
<1>1. CASE DrainPlot
  <2>1. Head(channel) \in Issued /\ channel' \in Seq(Issued)
    BY <1>1 DEF DrainPlot, OnlyIssuedRun
  <2>2. plot' \in 0..plotGeneration
    BY <1>1, <2>1 DEF DrainPlot, TypeOK, Issued
  <2>3. status' \in {"loading", "other"}
    BY <1>1 DEF DrainPlot, TypeOK, StatusAfter
  <2>4. TypeOK'
    <3>1. Issued \subseteq PlotIds
      BY DEF TypeOK, Issued
    <3>2. channel' \in Seq(PlotIds)
      BY <2>1, <3>1, SeqMonotonic
    <3> QED
      BY <1>1, <2>2, <2>3, <3>2 DEF DrainPlot, TypeOK
  <2> QED
    BY <1>1, <2>1, <2>4 DEF DrainPlot, RequestsNumbered, OnlyIssuedRun, LiveIsCurrent,
       DialogIsOfSelection, Live, Issued
<1>2. CASE EndDrain
  BY <1>2 DEF EndDrain, TypeOK, RequestsNumbered, OnlyIssuedRun, LiveIsCurrent,
     DialogIsOfSelection, Live, Issued
<1>3. CASE RefreshPlot
  BY <1>3, LoadKeepsIInv DEF RefreshPlot, Command
<1>4. CASE ClosePlot
  BY <1>4 DEF ClosePlot, Command, TypeOK, RequestsNumbered, OnlyIssuedRun,
     LiveIsCurrent, DialogIsOfSelection, Live, Issued
<1>5. CASE ChangeSelection
  BY <1>5 DEF ChangeSelection, Selectable, Command, TypeOK, RequestsNumbered,
     OnlyIssuedRun, LiveIsCurrent, DialogIsOfSelection, Live, Issued
<1>6. CASE NoCommand
  BY <1>6 DEF NoCommand, Command, TypeOK, RequestsNumbered, OnlyIssuedRun,
     LiveIsCurrent, DialogIsOfSelection, Live, Issued
<1>7. ASSUME NEW id \in PlotIds, BeginPlot(id) PROVE IInv'
  <2>1. TypeOK'
    BY <1>7 DEF BeginPlot, viewVars, TypeOK
  <2> QED
    BY <1>7, <2>1 DEF BeginPlot, viewVars, TypeOK, RequestsNumbered, OnlyIssuedRun,
       LiveIsCurrent, DialogIsOfSelection, Live, Issued
<1>8. ASSUME NEW id \in PlotIds, Compute(id) PROVE IInv'
  <2>1. TypeOK'
    BY <1>8 DEF Compute, viewVars, TypeOK
  <2> QED
    BY <1>8, <2>1 DEF Compute, viewVars, TypeOK, RequestsNumbered, OnlyIssuedRun,
       LiveIsCurrent, DialogIsOfSelection, Live, Issued
<1>9. ASSUME NEW id \in PlotIds, SendPlot(id) PROVE IInv'
  <2>1. id \in Issued
    BY <1>9 DEF SendPlot, OnlyIssuedRun
  <2>2. channel' \in Seq(Issued) /\ channel' \in Seq(PlotIds)
    BY <1>9, <2>1 DEF SendPlot, OnlyIssuedRun, TypeOK
  <2>3. TypeOK'
    BY <1>9, <2>2 DEF SendPlot, viewVars, TypeOK
  <2> QED
    BY <1>9, <2>1, <2>2, <2>3 DEF SendPlot, viewVars, TypeOK, RequestsNumbered,
       OnlyIssuedRun, LiveIsCurrent, DialogIsOfSelection, Live, Issued
<1>10. CASE UNCHANGED vars
  BY <1>10 DEF vars, TypeOK, RequestsNumbered, OnlyIssuedRun, LiveIsCurrent,
     DialogIsOfSelection, Live, Issued
<1> QED
  BY <1>1, <1>2, <1>3, <1>4, <1>5, <1>6, <1>7, <1>8, <1>9, <1>10 DEF Next, UI, Worker

LEMMA Invariance == Spec => []IInv
  BY InitIInv, NextIInv, PTL DEF Spec

\* Type correctness of the plot requests, whatever the number of requests.
THEOREM PlotTypeCorrect == Spec => []TypeOK
  BY Invariance, PTL DEF IInv

\* load_time_series never leaves two computations running that were not told to
\* stop.
THEOREM PlotAtMostOneLive == Spec => []AtMostOneLivePlot
<1>1. IInv => AtMostOneLivePlot
  BY DEF IInv, LiveIsCurrent, AtMostOneLivePlot
<1> QED
  BY Invariance, <1>1, PTL

\* The newest plot in the open dialog is of the selected variable.
THEOREM PlotNewestIsOfSelection == Spec => []NewestPlotIsOfSelection
<1>1. IInv => NewestPlotIsOfSelection
  BY DEF IInv, DialogIsOfSelection, NewestPlotIsOfSelection
<1> QED
  BY Invariance, <1>1, PTL

\* The plot requests implement LatestAnswer: a variable change or a file switch
\* is a Clear, a request is an Ask, and only the newest request's result is an
\* Answer.
THEOREM PlotOnlyLatestShown == Spec => OnlyLatestShown
<1>1. Init => Latest!Init
  BY DEF Init, Latest!Init
<1>2. IInv /\ [Next]_vars => [Latest!Next]_<<plotGeneration, plot>>
  <2> SUFFICES ASSUME IInv, [Next]_vars PROVE [Latest!Next]_<<plotGeneration, plot>>
    OBVIOUS
  <2> USE DEF Latest!Next
  <2>1. CASE DrainPlot
    <3>1. Head(channel) \in Issued
      BY <2>1 DEF DrainPlot, IInv, OnlyIssuedRun
    <3>2. CurrentPlot(request[Head(channel)]) => Head(channel) = plotGeneration
      BY <3>1 DEF IInv, RequestsNumbered, CurrentPlot
    <3> QED
      BY <2>1, <3>2 DEF DrainPlot, Latest!Answer
  <2>2. CASE RefreshPlot
    BY <2>2, PlotAssumption DEF RefreshPlot, LoadTimeSeries, Latest!Ask
  <2>3. CASE ChangeSelection
    BY <2>3 DEF ChangeSelection, Latest!Clear
  <2>4. CASE EndDrain \/ ClosePlot \/ NoCommand
    BY <2>4 DEF EndDrain, ClosePlot, NoCommand
  <2>5. ASSUME NEW id \in PlotIds, Worker(id) PROVE UNCHANGED <<plotGeneration, plot>>
    BY <2>5 DEF Worker, BeginPlot, Compute, SendPlot, viewVars
  <2>6. CASE UNCHANGED vars
    BY <2>6 DEF vars
  <2> QED
    BY <2>1, <2>2, <2>3, <2>4, <2>5, <2>6 DEF Next, UI
<1> QED
  BY <1>1, <1>2, Invariance, PTL DEF Spec, OnlyLatestShown, Latest!Spec

-----------------------------------------------------------------------------
\* The renderer of pictures, for keys K and pictures P of any kind.

\* A slot in which None is not mistaken for something the slot holds.
SlotOf(s, K, P) ==
    /\ s \in Slots(K, P)
    /\ Nothing \notin Rasters(K, P) /\ Nothing \notin Encoders(K, P)

\* Nothing has to be begun before the slot is drawn for this key.
Ready(s, key) == s.disabled \/ s.imageKey = key \/ s.pending # Nothing

\* What a draw may leave: cells only when the slot was given up.
SoundDraw(d, K, P) ==
    d \in [slot : Slots(K, P), drawn : Screens(P)] /\ (d.drawn = Cells => d.slot.disabled)

LEMMA SlotFields ==
    ASSUME NEW K, NEW P, NEW s \in Slots(K, P)
    PROVE  /\ s.image \in P \cup {Nothing} /\ s.imageKey \in K \cup {Nothing}
           /\ s.raster \in Rasters(K, P) \cup {Nothing}
           /\ s.pending \in Encoders(K, P) \cup {Nothing}
           /\ s.disabled \in BOOLEAN
  BY DEF Slots

LEMMA EncoderFields ==
    ASSUME NEW K, NEW P, NEW e \in Encoders(K, P)
    PROVE  /\ e.key \in K /\ e.picture \in P
           /\ e.result \in {"encoding", "ok", "error", "panic"}
  BY DEF Encoders

LEMMA FinishIsSound ==
    ASSUME NEW K, NEW P, NEW s, SlotOf(s, K, P), NEW key \in K
    PROVE  LET f == Finish(s, key)
           IN  /\ f \in Slots(K, P) /\ f.raster = s.raster
               /\ Ready(f, key) \/ (Needed(s, key) /\ f.pending = Nothing)
  <1>1. s \in Slots(K, P)
    BY DEF SlotOf
  <1>2. CASE s.pending = Nothing \/ s.pending.result = "encoding"
    <2>1. Finish(s, key) = s
      BY <1>2 DEF Finish
    <2> QED BY <1>1, <1>2, <2>1 DEF Ready, Needed, Awaits
  <1>3. CASE ~(s.pending = Nothing \/ s.pending.result = "encoding")
    <2> DEFINE taken == s.pending.key = key /\ s.pending.result = "ok"
               given == s.pending.key = key /\ s.pending.result # "ok"
               f == [s EXCEPT !.pending = Nothing,
                              !.image = IF taken THEN s.pending.picture ELSE @,
                              !.imageKey = IF taken THEN key ELSE @,
                              !.disabled = @ \/ given]
    <2>1. Finish(s, key) = f
      BY <1>3 DEF Finish
    <2>2. s.pending.picture \in P
      BY <1>1, <1>3, SlotFields, EncoderFields
    <2>3. f \in Slots(K, P)
      BY <1>1, <2>2 DEF Slots
    <2>4. /\ f.raster = s.raster /\ f.pending = Nothing
          /\ f.imageKey = IF taken THEN key ELSE s.imageKey
          /\ f.disabled = (s.disabled \/ given)
      BY <1>1 DEF Slots
    <2>5. Ready(f, key) \/ Needed(s, key)
      BY <2>4 DEF Ready, Needed, Awaits
    <2> QED BY <2>1, <2>3, <2>4, <2>5
  <1> QED BY <1>2, <1>3

LEMMA StartedIsSound ==
    ASSUME NEW K, NEW P, NEW s, SlotOf(s, K, P), NEW key \in K,
           Ready(s, key) \/ (s.pending = Nothing /\ s.raster # Nothing /\ s.raster.key = key)
    PROVE  Started(s, key) \in Slots(K, P) /\ Ready(Started(s, key), key)
  <1>1. s \in Slots(K, P) /\ Nothing \notin Encoders(K, P)
    BY DEF SlotOf
  <1>2. CASE Ready(s, key)
    BY <1>1, <1>2 DEF Started, Ready
  <1>3. CASE ~Ready(s, key)
    <2> DEFINE e == [key |-> s.raster.key, picture |-> s.raster.picture, result |-> "encoding"]
    <2>1. Started(s, key) = [s EXCEPT !.raster = Nothing, !.pending = e]
      BY <1>3 DEF Started, Ready, Encode
    <2>2. s.raster \in Rasters(K, P)
      BY <1>1, <1>3, SlotFields
    <2>3. e \in Encoders(K, P)
      BY <2>2 DEF Rasters, Encoders
    <2> HIDE DEF e
    <2>4. /\ [s EXCEPT !.raster = Nothing, !.pending = e] \in Slots(K, P)
          /\ [s EXCEPT !.raster = Nothing, !.pending = e].pending = e
      BY <1>1, <2>3 DEF Slots
    <2> QED BY <1>1, <2>1, <2>3, <2>4 DEF Ready
  <1> QED BY <1>2, <1>3

LEMMA ShownIsSound ==
    ASSUME NEW K, NEW P, NEW s \in Slots(K, P), NEW key \in K, Ready(s, key), NEW breaks \in BOOLEAN
    PROVE  SoundDraw(Shown(s, key, breaks), K, P)
  <1>1. CASE s.disabled \/ (s.imageKey # key /\ s.pending = Nothing)
    <2>1. s.disabled
      BY <1>1 DEF Ready
    <2> QED BY <1>1, <2>1 DEF Shown, SoundDraw, Screens, Cells
  <1>2. CASE ~(s.disabled \/ (s.imageKey # key /\ s.pending = Nothing)) /\ s.image = Nothing
    BY <1>2 DEF Shown, SoundDraw, Screens, Blank, Cells
  <1>3. CASE /\ ~(s.disabled \/ (s.imageKey # key /\ s.pending = Nothing))
             /\ s.image # Nothing /\ breaks
    <2> DEFINE t == [s EXCEPT !.image = Nothing, !.imageKey = Nothing, !.disabled = TRUE]
    <2>1. t \in Slots(K, P) /\ t.disabled
      BY DEF Slots
    <2>2. Shown(s, key, breaks) = [slot |-> t, drawn |-> Cells]
      BY <1>3 DEF Shown
    <2> HIDE DEF t
    <2> QED BY <2>1, <2>2 DEF SoundDraw, Screens, Cells
  <1>4. CASE /\ ~(s.disabled \/ (s.imageKey # key /\ s.pending = Nothing))
             /\ s.image # Nothing /\ ~breaks
    <2>1. Shown(s, key, breaks) = [slot |-> s, drawn |-> Image(s.image)]
      BY <1>4 DEF Shown
    <2>2. s.image \in P
      BY <1>4, SlotFields
    <2>3. Image(s.image) \in Screens(P) /\ Image(s.image) # Cells
      BY <2>2 DEF Screens, Image, Cells
    <2> QED BY <2>1, <2>3 DEF SoundDraw
  <1> QED BY <1>1, <1>2, <1>3, <1>4

(* A slot is drawn without a flash of cells, if the raster is there whenever *)
(* one is needed.                                                            *)
LEMMA RenderCachedIsSound ==
    ASSUME NEW K, NEW P, NEW s, SlotOf(s, K, P), NEW key \in K,
           Needed(s, key) => s.disabled \/ (s.raster # Nothing /\ s.raster.key = key),
           NEW d \in RenderCached(s, key)
    PROVE  SoundDraw(d, K, P)
  <1> DEFINE f == Finish(s, key)
             e == Started(f, key)
  <1>1. PICK breaks \in BOOLEAN : d = Shown(e, key, breaks)
    BY DEF RenderCached
  <1>2. /\ f \in Slots(K, P) /\ f.raster = s.raster
        /\ Ready(f, key) \/ (Needed(s, key) /\ f.pending = Nothing)
    BY FinishIsSound
  <1>3. s.disabled => f.disabled
    BY DEF Finish, SlotOf, Slots
  <1> HIDE DEF f
  <1>4. Ready(f, key) \/ (f.pending = Nothing /\ f.raster # Nothing /\ f.raster.key = key)
    BY <1>2, <1>3 DEF Ready
  <1>5. SlotOf(f, K, P)
    BY <1>2 DEF SlotOf
  <1>6. e \in Slots(K, P) /\ Ready(e, key)
    BY <1>4, <1>5, StartedIsSound
  <1> HIDE DEF e
  <1> QED BY <1>1, <1>6, ShownIsSound

LEMMA WithoutRasterIsSound ==
    ASSUME NEW K, NEW P, NEW d, SoundDraw(d, K, P)
    PROVE  SoundDraw([d EXCEPT !.slot.raster = Nothing], K, P)
  BY DEF SoundDraw, Slots

LEMMA RenderWithKeyIsSound ==
    ASSUME NEW K, NEW P, NEW s, SlotOf(s, K, P), NEW key \in K, NEW picture \in P,
           NEW d \in RenderWithKey(s, key, picture)
    PROVE  SoundDraw(d, K, P)
  <1>1. s \in Slots(K, P)
    BY DEF SlotOf
  <1>2. CASE s.disabled
    BY <1>1, <1>2 DEF RenderWithKey, SoundDraw, Screens, Cells
  <1>3. CASE ~s.disabled
    <2> DEFINE made == Needed(s, key) /\ (s.raster = Nothing \/ s.raster.key # key)
               new  == [key |-> key, picture |-> picture]
               with == IF made THEN [s EXCEPT !.raster = new] ELSE s
    <2>1. new \in Rasters(K, P) /\ new # Nothing /\ new.key = key
      BY DEF Rasters, SlotOf
    <2> HIDE DEF new
    <2>2. /\ [s EXCEPT !.raster = new] \in Slots(K, P)
          /\ [s EXCEPT !.raster = new].raster = new
      BY <1>1, <2>1 DEF Slots
    <2>3. SlotOf(with, K, P)
      BY <1>1, <2>2 DEF SlotOf
    <2>4. with.imageKey = s.imageKey /\ with.pending = s.pending
      BY <1>1 DEF Slots
    <2>5. Needed(with, key) => with.raster # Nothing /\ with.raster.key = key
      BY <2>1, <2>2, <2>4 DEF Needed, Awaits
    <2>6. PICK r \in RenderCached(with, key) : d = Settled(r, key)
      BY <1>3 DEF RenderWithKey, new
    <2> HIDE DEF with
    <2>7. SoundDraw(r, K, P)
      BY <2>3, <2>5, RenderCachedIsSound
    <2> QED BY <2>6, <2>7, WithoutRasterIsSound DEF Settled
  <1> QED BY <1>2, <1>3

LEMMA RenderIsSound ==
    ASSUME NEW P, NEW s, SlotOf(s, P, P), NEW picture \in P,
           NEW d \in Render(s, picture)
    PROVE  SoundDraw(d, P, P)
  <1>1. s \in Slots(P, P)
    BY DEF SlotOf
  <1>2. CASE s.disabled
    BY <1>1, <1>2 DEF Render, SoundDraw, Screens, Cells
  <1>3. CASE ~s.disabled /\ Needed(s, picture)
    <2> DEFINE new  == [key |-> picture, picture |-> picture]
               with == [s EXCEPT !.raster = new]
    <2>1. new \in Rasters(P, P) /\ new # Nothing /\ new.key = picture
      BY DEF Rasters, SlotOf
    <2>2. d \in RenderCached(with, picture)
      BY <1>3 DEF Render
    <2> HIDE DEF new
    <2>3. with \in Slots(P, P) /\ with.raster = new
      BY <1>1, <2>1 DEF Slots
    <2> HIDE DEF with
    <2>4. SlotOf(with, P, P)
      BY <2>3 DEF SlotOf
    <2> QED BY <2>1, <2>2, <2>3, <2>4, RenderCachedIsSound
  <1>4. CASE ~s.disabled /\ ~Needed(s, picture)
    <2>1. PICK r \in RenderCached(s, picture) : d = [r EXCEPT !.slot.raster = Nothing]
      BY <1>4 DEF Render
    <2>2. SoundDraw(r, P, P)
      BY <1>4, RenderCachedIsSound
    <2> QED BY <2>1, <2>2, WithoutRasterIsSound
  <1> QED BY <1>2, <1>3, <1>4

-----------------------------------------------------------------------------
\* The slots of the map and of the chart.

LEMMA SlotsAreSlots ==
    ASSUME SlotTypeOK
    PROVE  /\ place = "map" => SlotOf(slot, MapKeys, Maps)
           /\ place = "chart" => SlotOf(slot, Series, Series)
  BY NothingAssumption DEF SlotTypeOK, SlotOf

\* What the loop draws is sound and of the kind of its place.
LEMMA DrawnIsSound ==
    ASSUME SlotTypeOK, NeverFlashesCells, NEW d \in Drawn
    PROVE  /\ place = "map" => SoundDraw(d, MapKeys, Maps)
           /\ place = "chart" => SoundDraw(d, Series, Series)
  <1>1. ASSUME NEW K, NEW P, NEW s \in Slots(K, P), d = [slot |-> s, drawn |-> Blank]
        PROVE  SoundDraw(d, K, P)
    BY <1>1 DEF SoundDraw, Screens, Blank, Cells
  <1>2. CASE place = "map"
    <2>1. slot \in Slots(MapKeys, Maps)
      BY <1>2, SlotsAreSlots DEF SlotOf
    <2>2. CASE slice = Nothing
      BY <1>1, <1>2, <2>1, <2>2 DEF Drawn
    <2>3. CASE slice # Nothing
      <3>1. slice \in Nat /\ Scale \in Scales /\ generation \in Nat /\ style \in Styles
        BY <2>3 DEF SlotTypeOK, Scales, Scale
      <3>2. MapKey \in MapKeys /\ Picture \in Maps
        BY <3>1 DEF MapKey, MapKeys, Picture, Maps
      <3>3. d \in RenderWithKey(slot, MapKey, Picture)
        BY <1>2, <2>3 DEF Drawn
      <3> QED BY <1>2, <3>2, <3>3, SlotsAreSlots, RenderWithKeyIsSound
    <2> QED BY <2>2, <2>3
  <1>3. CASE place = "chart"
    <2>1. slot \in Slots(Series, Series) /\ series \in Series
      BY <1>3, SlotsAreSlots DEF SlotOf, SlotTypeOK
    <2>2. CASE popup
      <3>1. d \in Render(slot, series)
        BY <1>3, <2>2 DEF Drawn
      <3> QED BY <1>3, <2>1, <3>1, SlotsAreSlots, RenderIsSound
    <2>3. CASE ~popup
      <3>1. Forget(slot) \in Slots(Series, Series)
        BY <2>1 DEF Forget, Slot, Slots
      <3> QED BY <1>1, <1>3, <2>3, <3>1 DEF Drawn
    <2> QED BY <2>2, <2>3
  <1> QED BY <1>2, <1>3 DEF SlotTypeOK

LEMMA SlotStep ==
    ASSUME SlotTypeOK, NeverFlashesCells, [SlotNext]_slotVars
    PROVE  SlotTypeOK' /\ NeverFlashesCells'
  <1> USE SlotAssumption
  <1>1. CASE Navigate
    BY <1>1 DEF Navigate, SlotTypeOK, NeverFlashesCells, chartVars, Scales
  <1>2. CASE AnswerSlice
    BY <1>2 DEF AnswerSlice, SlotTypeOK, NeverFlashesCells, chartVars, Scales
  <1>3. CASE Restyle
    BY <1>3 DEF Restyle, Change, SlotTypeOK, NeverFlashesCells, chartVars
  <1>4. CASE CycleFilter
    <2>1. /\ slot \in Slots(MapKeys, Maps) => slot' \in Slots(MapKeys, Maps)
          /\ slot \in Slots(MapKeys, Maps) => slot'.disabled = slot.disabled
      BY <1>4 DEF CycleFilter, Forget, Slot, Slots
    <2> QED BY <1>4, <2>1 DEF CycleFilter, Change, SlotTypeOK, NeverFlashesCells, chartVars
  <1>5. CASE TogglePopup
    BY <1>5 DEF TogglePopup, Change, SlotTypeOK, NeverFlashesCells
  <1>6. CASE AcceptPlot
    BY <1>6 DEF AcceptPlot, Change, SlotTypeOK, NeverFlashesCells, Series
  <1>7. CASE Draw
    <2>1. PICK d \in Drawn : slot' = d.slot /\ screen' = d.drawn
      BY <1>7 DEF Draw
    <2>2. /\ place = "map" => SoundDraw(d, MapKeys, Maps)
          /\ place = "chart" => SoundDraw(d, Series, Series)
      BY DrawnIsSound
    <2> QED BY <1>7, <2>1, <2>2
            DEF Draw, SoundDraw, SlotTypeOK, NeverFlashesCells, mapVars, chartVars
  <1>8. CASE EncoderEnds
    <2>1. PICK r \in {"ok", "error", "panic"} : slot' = [slot EXCEPT !.pending.result = r]
      BY <1>8 DEF EncoderEnds
    <2>2. ASSUME NEW K, NEW P, slot \in Slots(K, P)
          PROVE  slot' \in Slots(K, P) /\ slot'.disabled = slot.disabled
      <3>1. slot.pending \in Encoders(K, P)
        BY <1>8, <2>2, SlotFields DEF EncoderEnds, Pending
      <3>2. [slot.pending EXCEPT !.result = r] \in Encoders(K, P)
        BY <3>1 DEF Encoders
      <3> QED BY <2>1, <2>2, <3>2 DEF Slots
    <2> QED BY <1>8, <2>2 DEF EncoderEnds, SlotTypeOK, NeverFlashesCells, mapVars, chartVars
  <1>9. CASE UNCHANGED slotVars
    BY <1>9 DEF slotVars, mapVars, chartVars, SlotTypeOK, NeverFlashesCells
  <1> QED BY <1>1, <1>2, <1>3, <1>4, <1>5, <1>6, <1>7, <1>8, <1>9 DEF SlotNext

LEMMA SlotStart == SlotInit => SlotTypeOK /\ NeverFlashesCells
  <1>1. ASSUME NEW K, NEW P PROVE Slot \in Slots(K, P) /\ Blank \in Screens(P) /\ Blank # Cells
    BY DEF Slot, Slots, Blank, Screens, Cells
  <1>2. /\ Slot \in Slots(MapKeys, Maps) /\ Slot \in Slots(Series, Series)
        /\ Blank \in Screens(Maps) /\ Blank \in Screens(Series) /\ Blank # Cells
    BY <1>1
  <1>3. ASSUME SlotInit
        PROVE  /\ generation \in Nat /\ reading \in BOOLEAN /\ slice \in Scales /\ limits \in Scales
               /\ style \in Styles /\ popup \in BOOLEAN /\ series \in Series /\ changes \in Nat
               /\ dirty \in BOOLEAN
               /\ place \in {"map", "chart"} /\ slot = Slot /\ screen = Blank
    BY <1>3 DEF SlotInit, Unshown, Scales, Series
  <1> QED BY <1>2, <1>3 DEF SlotTypeOK, NeverFlashesCells

(* Type correctness of the slots: what a slot holds is of its place.        *)
THEOREM PictureTypeCorrect == SlotSpec => []SlotTypeOK
  <1>1. /\ SlotInit => SlotTypeOK /\ NeverFlashesCells
        /\ SlotTypeOK /\ NeverFlashesCells /\ [SlotNext]_slotVars
             => SlotTypeOK' /\ NeverFlashesCells'
    BY SlotStart, SlotStep
  <1> QED BY <1>1, PTL DEF SlotSpec

(* Whatever is asked for while another picture is encoded, cells are drawn  *)
(* in its place only after the terminal or an encoder failed.               *)
THEOREM PictureNeverFlashesCells == SlotSpec => []NeverFlashesCells
  <1>1. /\ SlotInit => SlotTypeOK /\ NeverFlashesCells
        /\ SlotTypeOK /\ NeverFlashesCells /\ [SlotNext]_slotVars
             => SlotTypeOK' /\ NeverFlashesCells'
    BY SlotStart, SlotStep
  <1> QED BY <1>1, PTL DEF SlotSpec

-----------------------------------------------------------------------------
(* A chart is asked for under the picture itself, so what its slot holds is *)
(* never of another key than it says.                                       *)

Keyed(s) ==
    /\ s.imageKey # Nothing => s.image = s.imageKey
    /\ s.raster # Nothing => s.raster.picture = s.raster.key
    /\ s.pending # Nothing => s.pending.picture = s.pending.key

AtRest(d, key) == Keyed(d.slot) /\ (d.slot.pending = Nothing => d.drawn \in {Image(key), Cells})

LEMMA RenderCachedAtRest ==
    ASSUME NEW P, NEW s \in Slots(P, P), Keyed(s), NEW key \in P, key # Nothing,
           NEW d \in RenderCached(s, key)
    PROVE  d \in [slot : Slots(P, P), drawn : Screens(P)] => AtRest(d, key)
  <1> DEFINE f == Finish(s, key)
             e == Started(f, key)
  <1>1. PICK breaks \in BOOLEAN : d = Shown(e, key, breaks)
    BY DEF RenderCached
  <1>2. f \in Slots(P, P) /\ Keyed(f)
    <2>1. CASE s.pending = Nothing \/ s.pending.result = "encoding"
      BY <2>1 DEF Finish
    <2>2. CASE ~(s.pending = Nothing \/ s.pending.result = "encoding")
      <3> DEFINE taken == s.pending.key = key /\ s.pending.result = "ok"
                 given == s.pending.key = key /\ s.pending.result # "ok"
      <3>1. f = [s EXCEPT !.pending = Nothing,
                          !.image = IF taken THEN s.pending.picture ELSE @,
                          !.imageKey = IF taken THEN key ELSE @,
                          !.disabled = @ \/ given]
        BY <2>2 DEF Finish
      <3>2. s.pending.picture \in P
        BY <2>2, SlotFields, EncoderFields
      <3> QED BY <2>2, <3>1, <3>2 DEF Slots, Keyed
    <2> QED BY <2>1, <2>2
  <1> HIDE DEF f
  <1>3. e \in Slots(P, P) /\ Keyed(e)
    <2>1. CASE ~(f.disabled \/ f.imageKey = key \/ f.pending # Nothing)
               /\ ~(f.raster = Nothing \/ f.raster.key # key)
      <3> DEFINE new == [key |-> f.raster.key, picture |-> f.raster.picture,
                         result |-> "encoding"]
      <3>1. e = [f EXCEPT !.raster = Nothing, !.pending = new]
        BY <2>1 DEF Started, Encode
      <3>2. f.raster \in Rasters(P, P)
        BY <1>2, <2>1, SlotFields
      <3>3. new \in Encoders(P, P) /\ new.key = new.picture
        BY <1>2, <2>1, <3>2 DEF Rasters, Encoders, Keyed
      <3> HIDE DEF new
      <3> QED BY <1>2, <3>1, <3>3 DEF Slots, Keyed
    <2>2. CASE ~(f.disabled \/ f.imageKey = key \/ f.pending # Nothing)
               /\ (f.raster = Nothing \/ f.raster.key # key)
      <3>1. e = [f EXCEPT !.raster = Nothing]
        BY <2>2 DEF Started
      <3> QED BY <1>2, <3>1 DEF Slots, Keyed
    <2>3. CASE f.disabled \/ f.imageKey = key \/ f.pending # Nothing
      BY <1>2, <2>3 DEF Started
    <2> QED BY <2>1, <2>2, <2>3
  <1> HIDE DEF e
  <1>4. CASE e.disabled \/ (e.imageKey # key /\ e.pending = Nothing)
    BY <1>1, <1>3, <1>4 DEF Shown, AtRest
  <1>5. CASE ~(e.disabled \/ (e.imageKey # key /\ e.pending = Nothing)) /\ e.image = Nothing
    <2>1. e.pending # Nothing
      BY <1>3, <1>5 DEF Keyed
    <2> QED BY <1>1, <1>3, <1>5, <2>1 DEF Shown, AtRest
  <1>6. CASE ~(e.disabled \/ (e.imageKey # key /\ e.pending = Nothing)) /\ e.image # Nothing
    <2>1. CASE breaks
      <3> DEFINE t == [e EXCEPT !.image = Nothing, !.imageKey = Nothing, !.disabled = TRUE]
      <3>1. d = [slot |-> t, drawn |-> Cells]
        BY <1>1, <1>6, <2>1 DEF Shown
      <3>2. Keyed(t)
        BY <1>3 DEF Slots, Keyed
      <3> QED BY <3>1, <3>2 DEF AtRest
    <2>2. CASE ~breaks
      <3>1. d = [slot |-> e, drawn |-> Image(e.image)]
        BY <1>1, <1>6, <2>2 DEF Shown
      <3>2. e.pending = Nothing => e.image = key
        BY <1>3, <1>6 DEF Keyed
      <3> QED BY <1>3, <3>1, <3>2 DEF AtRest
    <2> QED BY <2>1, <2>2
  <1> QED BY <1>4, <1>5, <1>6

LEMMA RenderAtRest ==
    ASSUME NEW P, NEW s, SlotOf(s, P, P), Keyed(s), NEW picture \in P, picture # Nothing,
           NEW d \in Render(s, picture)
    PROVE  AtRest(d, picture)
  <1>1. s \in Slots(P, P) /\ d \in [slot : Slots(P, P), drawn : Screens(P)]
    BY RenderIsSound DEF SlotOf, SoundDraw
  <1>2. CASE s.disabled
    BY <1>2 DEF Render, AtRest
  <1>3. CASE ~s.disabled /\ Needed(s, picture)
    <2> DEFINE with == [s EXCEPT !.raster = [key |-> picture, picture |-> picture]]
    <2>1. d \in RenderCached(with, picture)
      BY <1>3 DEF Render
    <2>2. [key |-> picture, picture |-> picture] \in Rasters(P, P)
      BY DEF Rasters
    <2>3. with \in Slots(P, P) /\ Keyed(with)
      BY <1>1, <2>2 DEF Slots, Keyed
    <2> HIDE DEF with
    <2> QED BY <1>1, <2>1, <2>3, RenderCachedAtRest
  <1>4. CASE ~s.disabled /\ ~Needed(s, picture)
    <2>1. PICK r \in RenderCached(s, picture) : d = [r EXCEPT !.slot.raster = Nothing]
      BY <1>4 DEF Render
    <2>2. r \in [slot : Slots(P, P), drawn : Screens(P)]
      BY <1>4, <2>1, RenderCachedIsSound DEF SoundDraw
    <2>3. AtRest(r, picture)
      BY <1>1, <2>1, <2>2, RenderCachedAtRest
    <2> QED BY <2>1, <2>2, <2>3 DEF AtRest, Keyed, Slots
  <1> QED BY <1>2, <1>3, <1>4

ChartInv ==
    place = "chart" =>
      Keyed(slot) /\ (~dirty /\ ~Pending /\ popup => screen \in {Image(series), Cells})

LEMMA ChartStep ==
    ASSUME SlotTypeOK, NeverFlashesCells, ChartInv, [SlotNext]_slotVars
    PROVE  ChartInv'
  <1> SUFFICES ASSUME place' = "chart" PROVE ChartInv'
    BY DEF ChartInv
  <1>1. place = "chart" /\ slot \in Slots(Series, Series)
    <2>1. place' = place
      BY DEF SlotNext, slotVars, Navigate, AnswerSlice, Change, Restyle, CycleFilter, TogglePopup,
             AcceptPlot, Draw, EncoderEnds
    <2> QED BY <2>1, SlotsAreSlots DEF SlotOf
  <1>2. CASE TogglePopup \/ AcceptPlot
    BY <1>1, <1>2 DEF TogglePopup, AcceptPlot, Change, ChartInv, Keyed
  <1>3. CASE Draw
    <2>1. PICK d \in Drawn : slot' = d.slot /\ screen' = d.drawn
      BY <1>3 DEF Draw
    <2>2. CASE popup
      <3>1. d \in Render(slot, series) /\ series \in Series /\ series # Nothing
        BY <1>1, <2>1, <2>2, NothingAssumption DEF Drawn, SlotTypeOK, Series
      <3>2. AtRest(d, series)
        BY <1>1, <3>1, SlotsAreSlots, RenderAtRest DEF ChartInv
      <3> QED BY <1>3, <2>1, <3>2 DEF Draw, chartVars, AtRest, ChartInv, Pending
    <2>3. CASE ~popup
      <3>1. d = [slot |-> Forget(slot), drawn |-> Blank]
        BY <1>1, <2>1, <2>3 DEF Drawn
      <3>2. Keyed(Forget(slot))
        BY DEF Forget, Slot, Keyed
      <3> QED BY <1>3, <2>1, <2>3, <3>1, <3>2 DEF Draw, chartVars, ChartInv
    <2> QED BY <2>2, <2>3
  <1>4. CASE EncoderEnds
    <2>1. PICK r \in {"ok", "error", "panic"} : slot' = [slot EXCEPT !.pending.result = r]
      BY <1>4 DEF EncoderEnds
    <2>2. slot.pending \in Encoders(Series, Series) /\ slot.pending # Nothing
      BY <1>1, <1>4, SlotFields DEF EncoderEnds, Pending
    <2>3. [slot.pending EXCEPT !.result = r] \in Encoders(Series, Series)
      BY <2>2 DEF Encoders
    <2>4. /\ slot'.pending # Nothing /\ slot'.pending.picture = slot.pending.picture
          /\ slot'.pending.key = slot.pending.key
          /\ slot'.image = slot.image /\ slot'.imageKey = slot.imageKey
          /\ slot'.raster = slot.raster
      BY <1>1, <2>1, <2>2, <2>3, NothingAssumption DEF Slots, Encoders
    <2> QED BY <1>1, <2>2, <2>4 DEF ChartInv, Keyed, Pending
  <1>5. CASE UNCHANGED slotVars
    BY <1>5 DEF slotVars, mapVars, chartVars, ChartInv, Keyed, Pending
  <1>6. ~(Navigate \/ AnswerSlice \/ Restyle \/ CycleFilter)
    BY <1>1 DEF Navigate, AnswerSlice, Restyle, CycleFilter, Change
  <1> QED BY <1>2, <1>3, <1>4, <1>5, <1>6 DEF SlotNext

(* When drawing has come to rest the chart is that of the series held.      *)
THEOREM PictureChartIsOfSeries == SlotSpec => []ChartIsOfSeries
  <1> DEFINE Inv == SlotTypeOK /\ NeverFlashesCells /\ ChartInv
  <1>1. SlotInit => Inv
    <2>1. SlotInit => ChartInv
      BY DEF SlotInit, Unshown, ChartInv, Keyed, Slot
    <2> QED BY <2>1, SlotStart
  <1>2. Inv /\ [SlotNext]_slotVars => Inv'
    BY SlotStep, ChartStep
  <1>3. Inv => ChartIsOfSeries
    BY DEF ChartInv, ChartIsOfSeries
  <1> QED BY <1>1, <1>2, <1>3, PTL DEF SlotSpec

-----------------------------------------------------------------------------
(* The map.  Its properties are about numbers: a position on one scale and  *)
(* the same on another, for every size of plane, panel and picture.  The     *)
(* provers multiply badly, so that quotients are replaced by the products    *)
(* that bound them before anything else is shown.                           *)

\* the pixel of "out" whose bin of the n samples holds sample r
PixelOf(r, n, out) == ((r + 1) * out - 1) \div n

\* A position on one scale is at least k on the other just if k there is not past it here.
LEMMA RescaledType ==
    ASSUME NEW i \in Nat, NEW from \in Nat \ {0}, NEW to \in Nat
    PROVE  Rescaled(i, from, to) \in Nat
  <1>1. i * to \in Nat
    OBVIOUS
  <1> QED
    BY <1>1, QuotientBounds DEF Rescaled

\* A bound on a rescaled index is one on products.
LEMMA RescaledAtLeast ==
    ASSUME NEW i \in Nat, NEW from \in Nat \ {0}, NEW to \in Nat, NEW k \in Int
    PROVE  k <= Rescaled(i, from, to) <=> k * from <= i * to
  <1>1. i * to \in Nat
    OBVIOUS
  <1> QED
    BY <1>1, QuotientAtLeast DEF Rescaled

\* A bin ends where the next one begins, and the last one with the samples.
LEMMA BinHolds ==
    ASSUME NEW n \in Nat \ {0}, NEW out \in Nat \ {0}, out <= n,
           NEW r \in 0 .. n - 1, NEW i \in 0 .. out - 1
    PROVE  r \in Bin(i, n, out) <=> i * n < (r + 1) * out /\ (r + 1) * out <= (i + 1) * n
  <1> DEFINE start == Rescaled(i, out, n)
             next  == Rescaled(i + 1, out, n)
  <1>0. i \in Nat /\ i + 1 \in Nat /\ r + 1 \in Int
    OBVIOUS
  <1>1. start \in Nat /\ next \in Nat
    BY <1>0, RescaledType
  <1>2. start <= r <=> i * n < (r + 1) * out
    <2>1. r + 1 <= start <=> (r + 1) * out <= i * n
      BY <1>0, RescaledAtLeast
    <2> QED
      BY <2>1, <1>1
  <1>3. r < next <=> (r + 1) * out <= (i + 1) * n
    <2>1. r + 1 <= next <=> (r + 1) * out <= (i + 1) * n
      BY <1>0, RescaledAtLeast
    <2> QED
      BY <2>1, <1>1
  <1>4. start + 1 <= next
    <2>1. start * out <= i * n
      BY RescaledAtLeast, <1>1
    <2>2. (start + 1) * out <= (i + 1) * n
      BY <2>1, <1>1
    <2> QED
      BY <2>2, <1>1, RescaledAtLeast
  <1>5. next <= n
    <2>1. (i + 1) * n <= out * n
      BY ProductsOrder
    <2>2. ~((n + 1) * out <= (i + 1) * n)
      BY <2>1
    <2>3. ~(n + 1 <= next)
      BY <2>2, RescaledAtLeast
    <2> QED
      BY <2>3, <1>1
  <1>6. Bin(i, n, out) = start .. next - 1
    BY <1>1, <1>4, <1>5 DEF Bin, Lower, Higher
  <1> QED
    BY <1>1, <1>2, <1>3, <1>6

\* The bins divide the samples: each is in that of one pixel.
LEMMA BinsDivide ==
    ASSUME NEW n \in Nat \ {0}, NEW out \in Nat \ {0}, out <= n, NEW r \in 0 .. n - 1
    PROVE  /\ PixelOf(r, n, out) \in 0 .. out - 1
           /\ \A i \in 0 .. out - 1 : r \in Bin(i, n, out) <=> i = PixelOf(r, n, out)
  <1> DEFINE a == (r + 1) * out - 1
             q == a \div n
  <1>1. a \in Nat /\ a < out * n
    <2>1. (r + 1) * out <= n * out /\ (r + 1) * out >= 1 * out
      BY ProductsOrder
    <2> QED
      BY <2>1
  <1>2. q \in Nat /\ q * n <= a /\ a < (q + 1) * n
    BY <1>1, QuotientBounds
  <1> HIDE DEF q
  <1>3. q < out
    BY <1>1, <1>2, ProductsOrder
  <1>4. r \in Bin(q, n, out)
    BY <1>2, <1>3, BinHolds
  <1>5. ASSUME NEW i \in 0 .. out - 1, r \in Bin(i, n, out) PROVE i = q
    <2>1. i * n <= a /\ a < (i + 1) * n
      BY <1>5, BinHolds
    <2>2. i * n < (q + 1) * n /\ q * n < (i + 1) * n
      BY <2>1, <1>2, <1>1
    <2>3. i < q + 1 /\ q < i + 1
      BY <2>2, <1>2, ProductsOrder
    <2> QED
      BY <2>3, <1>2
  <1> QED
    BY <1>2, <1>3, <1>4, <1>5 DEF PixelOf, q

\* A cell touches the pixels that overlap it.
LEMMA TouchesOverlap ==
    ASSUME NEW cells \in Nat \ {0}, NEW out \in Nat \ {0}, NEW y \in 0 .. cells - 1,
           NEW i \in 0 .. out - 1
    PROVE  i \in Touches(y, cells, out) <=> y * out < (i + 1) * cells /\ i * cells < (y + 1) * out
  <1> DEFINE first == Rescaled(y, cells, out)
             past  == Ceil((y + 1) * out, cells)
  <1>1. first \in Nat /\ (i + 1 <= first <=> (i + 1) * cells <= y * out)
    <2>1. y \in Nat /\ i + 1 \in Int
      OBVIOUS
    <2> QED
      BY <2>1, RescaledType, RescaledAtLeast
  <1>2. (y + 1) * out + cells - 1 \in Nat /\ (y + 1) * out \in Nat
    OBVIOUS
  <1>3. past \in Nat /\ (i + 1 <= past <=> (i + 1) * cells <= (y + 1) * out + cells - 1)
    BY <1>2, QuotientBounds, QuotientAtLeast DEF Ceil
  <1> HIDE DEF first, past
  <1>4. i < past <=> i * cells < (y + 1) * out
    BY <1>3
  <1>5. first <= i <=> y * out < (i + 1) * cells
    BY <1>1
  <1>6. Touches(y, cells, out) = first .. Lower(past, out) - 1
    BY DEF Touches, first, past
  <1> QED
    BY <1>1, <1>3, <1>4, <1>5, <1>6 DEF Lower

\* What a position is rescaled to.
LEMMA RescaledHolds ==
    ASSUME NEW from \in Nat \ {0}, NEW to \in Nat \ {0}, NEW i \in 0 .. from - 1
    PROVE  /\ Rescaled(i, from, to) \in 0 .. to - 1
           /\ Rescaled(i, from, to) * from <= i * to
           /\ i * to < (Rescaled(i, from, to) + 1) * from
  <1>1. i \in Nat /\ i * to \in Nat
    OBVIOUS
  <1>2. /\ Rescaled(i, from, to) \in Nat
        /\ Rescaled(i, from, to) * from <= i * to
        /\ i * to < (Rescaled(i, from, to) + 1) * from
    BY <1>1, QuotientBounds DEF Rescaled
  <1>3. i * to < from * to
    BY ProductsOrder
  <1>4. Rescaled(i, from, to) < to
    BY <1>1, <1>2, <1>3, ProductsOrder
  <1> QED
    BY <1>2, <1>4

\* Samples and the pixel that holds one, multiplied out.
LEMMA PixelHolds ==
    ASSUME NEW n \in Nat \ {0}, NEW out \in Nat \ {0}, out <= n, NEW r \in 0 .. n - 1
    PROVE  /\ PixelOf(r, n, out) \in 0 .. out - 1
           /\ PixelOf(r, n, out) * n < (r + 1) * out
           /\ (r + 1) * out <= (PixelOf(r, n, out) + 1) * n
           /\ out = n => PixelOf(r, n, out) <= r
  <1>1. PixelOf(r, n, out) \in 0 .. out - 1 /\ r \in Bin(PixelOf(r, n, out), n, out)
    BY BinsDivide
  <1>2. /\ PixelOf(r, n, out) * n < (r + 1) * out
        /\ (r + 1) * out <= (PixelOf(r, n, out) + 1) * n
    BY <1>1, BinHolds
  <1>3. ASSUME out = n PROVE PixelOf(r, n, out) < r + 1
    BY <1>1, <1>2, <1>3, ProductsOrder
  <1> QED
    BY <1>1, <1>2, <1>3

\* A cell of the terminal touches the pixel that holds the sample it is
\* rescaled to, unless a picture is both reduced and drawn on more cells than it
\* has samples.
LEMMA ScaledIsTouched ==
    ASSUME NEW n \in Nat \ {0}, NEW out \in Nat \ {0}, NEW cells \in Nat \ {0},
           out <= n, out = n \/ cells <= n, NEW y \in 0 .. cells - 1
    PROVE  PixelOf(Rescaled(y, cells, n), n, out) \in Touches(y, cells, out)
  <1> DEFINE s == Rescaled(y, cells, n)
             q == PixelOf(s, n, out)
  <1>1. s \in 0 .. n - 1 /\ s * cells <= y * n /\ y * n < (s + 1) * cells
    BY RescaledHolds
  <1>2. /\ q \in 0 .. out - 1 /\ q * n < (s + 1) * out /\ (s + 1) * out <= (q + 1) * n
        /\ out = n => q <= s
    BY <1>1, PixelHolds
  <1> HIDE DEF s, q
  <1>a. s \in Int /\ q \in Int /\ q * n < (s + 1) * out /\ (s + 1) * out <= (q + 1) * n
    BY <1>1, <1>2
  <1>3. y * out < (q + 1) * cells
    <2>1. (y * n) * out < ((s + 1) * cells) * out
      BY <1>1, ProductsOrder
    <2>2. ((s + 1) * out) * cells <= ((q + 1) * n) * cells
      BY <1>a, ProductsOrder
    <2>3. (y * out) * n < ((q + 1) * cells) * n
      BY <1>a, <2>1, <2>2
    <2> QED
      BY <1>a, <2>3, ProductsOrder
  <1>4. q * cells < (y + 1) * out
    <2>1. CASE out = n
      <3>1. q <= s
        BY <1>2, <2>1
      <3>2. q * cells <= s * cells
        BY <1>a, <3>1, ProductsOrder
      <3>3. s * cells <= y * out /\ s * cells \in Int /\ q * cells \in Int
        BY <1>1, <1>a, <2>1
      <3> QED
        BY <3>2, <3>3
    <2>2. CASE cells <= n
      <3>1. (q * n) * cells < ((s + 1) * out) * cells
        BY <1>a, ProductsOrder
      <3>2. (s + 1) * cells <= (y + 1) * n
        BY <1>1, <2>2
      <3>3. ((s + 1) * cells) * out <= ((y + 1) * n) * out
        BY <1>a, <3>2, ProductsOrder
      <3>4. (q * cells) * n < ((y + 1) * out) * n
        BY <1>a, <3>1, <3>3
      <3> QED
        BY <1>a, <3>4, ProductsOrder
    <2> QED
      BY <2>1, <2>2
  <1>5. q \in Touches(y, cells, out)
    BY <1>2, <1>3, <1>4, TouchesOverlap
  <1> QED
    BY <1>5 DEF q, s

\* A sample is drawn in the cell of the terminal that it is rescaled to or, in a
\* reduced picture, in the next one.
LEMMA SampleIsNear ==
    ASSUME NEW n \in Nat \ {0}, NEW out \in Nat \ {0}, NEW cells \in Nat \ {0},
           out <= n, out = n \/ cells <= n, NEW s \in 0 .. n - 1
    PROVE  LET x == Rescaled(s, n, cells)
               q == PixelOf(s, n, out)
           IN  \/ q \in Touches(x, cells, out)
               \/ out < n /\ x + 1 < cells /\ q \in Touches(x + 1, cells, out)
  <1> DEFINE x == Rescaled(s, n, cells)
             q == PixelOf(s, n, out)
  <1>1. x \in 0 .. cells - 1 /\ x * n <= s * cells /\ s * cells < (x + 1) * n
    BY RescaledHolds
  <1>2. /\ q \in 0 .. out - 1 /\ q * n < (s + 1) * out /\ (s + 1) * out <= (q + 1) * n
        /\ out = n => q <= s
    BY PixelHolds
  <1> HIDE DEF x, q
  <1>a. x \in Int /\ q \in Int /\ q * n < (s + 1) * out /\ (s + 1) * out <= (q + 1) * n
    BY <1>1, <1>2
  <1>3. CASE q * cells < (x + 1) * out
    <2>1. (x * n) * out <= (s * cells) * out
      BY <1>1, ProductsOrder
    <2>2. ((s + 1) * out) * cells <= ((q + 1) * n) * cells
      BY <1>a, ProductsOrder
    <2>3. (s * cells) * out < ((s + 1) * cells) * out
      BY ProductsOrder
    <2>4. (x * out) * n < ((q + 1) * cells) * n
      BY <1>a, <2>1, <2>2, <2>3
    <2>5. x * out < (q + 1) * cells
      BY <1>a, <2>4, ProductsOrder
    <2>6. q \in Touches(x, cells, out)
      BY <1>1, <1>2, <1>3, <2>5, TouchesOverlap
    <2> QED
      BY <2>6 DEF x, q
  <1>4. CASE (x + 1) * out <= q * cells
    <2>1. out # n
      <3> SUFFICES ASSUME out = n PROVE FALSE
        OBVIOUS
      <3>1. q * cells <= s * cells
        BY <1>2, <1>a, ProductsOrder
      <3> QED
        BY <3>1, <1>1, <1>a, <1>4
    <2>2. x + 1 < cells
      <3>1. q * cells < out * cells
        BY <1>2, <1>a, ProductsOrder
      <3>2. (x + 1) * out < cells * out
        BY <3>1, <1>4, <1>a
      <3> QED
        BY <3>2, <1>a, ProductsOrder
    <2>3. (x + 1) * out < (q + 1) * cells
      BY <1>4, <1>a
    <2>4. q * cells < (x + 2) * out
      <3>1. (q * n) * cells < ((s + 1) * out) * cells
        BY <1>a, ProductsOrder
      <3>2. (s + 1) * cells <= (x + 2) * n
        BY <1>1, <1>a, <2>1
      <3>3. ((s + 1) * cells) * out <= ((x + 2) * n) * out
        BY <3>2, <1>a, ProductsOrder
      <3>4. (q * cells) * n < ((x + 2) * out) * n
        BY <3>1, <3>3, <1>a
      <3> QED
        BY <3>4, <1>a, ProductsOrder
    <2>5. x + 1 \in 0 .. cells - 1 /\ x + 2 = (x + 1) + 1
      BY <1>1, <2>2
    <2>6. q \in Touches(x + 1, cells, out)
      BY <1>2, <2>3, <2>4, <2>5, TouchesOverlap
    <2> QED
      BY <2>1, <2>2, <2>6 DEF x, q
  <1> QED
    BY <1>1, <1>a, <1>3, <1>4

\* fit_within rounds to no more than the limit.
LEMMA RoundedBound ==
    ASSUME NEW a \in Nat, NEW b \in Nat \ {0}, NEW c \in Nat, a <= c * b
    PROVE  Rounded(a, b) \in Nat /\ Rounded(a, b) <= c
  <1>1. 2 * a + b \in Nat /\ 2 * b \in Nat \ {0}
    OBVIOUS
  <1>2. /\ Rounded(a, b) \in Nat
        /\ c + 1 <= Rounded(a, b) <=> (c + 1) * (2 * b) <= 2 * a + b
    BY <1>1, QuotientBounds, QuotientAtLeast DEF Rounded
  <1>3. 2 * a + b < (c + 1) * (2 * b)
    OBVIOUS
  <1> QED
    BY <1>1, <1>2, <1>3

\* The quotient that rounds up.
LEMMA CeilType ==
    ASSUME NEW a \in Nat, NEW b \in Nat \ {0}
    PROVE  Ceil(a, b) \in Nat
  <1>1. a + b - 1 \in Nat
    OBVIOUS
  <1> QED
    BY <1>1, QuotientBounds DEF Ceil

\* Cells for the pixels of some of them are no more than all.
LEMMA CeilBound ==
    ASSUME NEW p \in Nat \ {0}, NEW m \in Nat \ {0}, NEW k \in Nat \ {0}
    PROVE  Ceil(p * m, m * k) \in Nat /\ Ceil(p * m, m * k) <= p
  <1>1. p * m \in Nat /\ m * k \in Nat \ {0}
    OBVIOUS
  <1>2. p * m + m * k - 1 \in Nat
    BY <1>1
  <1>3. /\ Ceil(p * m, m * k) \in Nat
        /\ p + 1 <= Ceil(p * m, m * k) <=> (p + 1) * (m * k) <= p * m + m * k - 1
    BY <1>1, <1>2, QuotientBounds, QuotientAtLeast DEF Ceil
  <1>4. p * m <= p * (m * k)
    <2>1. 1 * (p * m) <= k * (p * m)
      BY ProductsOrder
    <2> QED
      BY <2>1
  <1>5. ~((p + 1) * (m * k) <= p * m + m * k - 1)
    BY <1>4, <1>1
  <1> QED
    BY <1>3, <1>5

\* Clamped to a range that begins at 1.
LEMMA BetweenHolds ==
    ASSUME NEW x \in Int, NEW hi \in Nat \ {0}
    PROVE  /\ Between(x, 1, hi) \in 1 .. hi
           /\ \A c \in Nat \ {0} : x <= c => Between(x, 1, hi) <= c
  BY DEF Between, Lower, Higher

\* Any picture is drawn on some cells.
LEMMA AreaSizes ==
    ASSUME inner.w \in Nat \ {0}, inner.h \in Nat \ {0}, NEW e,
           e.rows \in Nat \ {0}, e.cols \in Nat \ {0}
    PROVE  AreaOf(e).w \in Nat \ {0} /\ AreaOf(e).h \in Nat \ {0}
  <1> DEFINE a == e.cols * PixelsHigh
             b == e.rows * PixelsWide
  <1>1. a \in Nat /\ b \in Nat /\ e.rows * 4 \in Nat \ {0} /\ e.cols * 8 \in Nat \ {0}
    BY DEF PixelsHigh, PixelsWide
  <1>2. Ceil(a, e.rows * 4) \in Nat /\ Ceil(b, e.cols * 8) \in Nat
    BY <1>1, CeilType
  <1>3. /\ AreaOf(e).w \in {Higher(Lower(Ceil(a, e.rows * 4), inner.w), 1), inner.w}
        /\ AreaOf(e).h \in {Higher(Lower(Ceil(b, e.cols * 8), inner.h), 1), inner.h}
    BY DEF AreaOf
  <1> QED
    BY <1>2, <1>3 DEF Higher, Lower

\* The picture has no more pixels than samples, and is drawn on no more cells
\* than it has samples if it is reduced.
LEMMA PictureSizes ==
    ASSUME SampleRows \in Nat \ {0}, SampleCols \in Nat \ {0},
           inner.w \in Nat \ {0}, inner.h \in Nat \ {0}
    PROVE  /\ PictureRows \in 1 .. SampleRows /\ PictureCols \in 1 .. SampleCols
           /\ AreaOf(Sized).w \in Nat \ {0} /\ AreaOf(Sized).h \in Nat \ {0}
           /\ PictureRows = SampleRows \/ AreaOf(Sized).h <= SampleRows
           /\ PictureCols = SampleCols \/ AreaOf(Sized).w <= SampleCols
  <1> DEFINE R  == SampleRows
             C  == SampleCols
             PH == PixelsHigh
             PW == PixelsWide
             PR == PictureRows
             PC == PictureCols
             w  == inner.w
             h  == inner.h
  <1>1. R \in Nat \ {0} /\ C \in Nat \ {0} /\ w \in Nat \ {0} /\ h \in Nat \ {0}
    OBVIOUS
  <1>2. PH \in Nat \ {0} /\ PW \in Nat \ {0} /\ h <= PH /\ w <= PW /\ PH = 8 * h /\ PW = 4 * w
    BY <1>1 DEF PixelsHigh, PixelsWide
  <1>3. /\ PR = IF PH >= R /\ PW >= C THEN R
                ELSE IF PH * C <= PW * R THEN PH ELSE Between(Rounded(R * PW, C), 1, R)
        /\ PC = IF PH >= R /\ PW >= C THEN C
                ELSE IF ~(PH * C <= PW * R) THEN PW ELSE Between(Rounded(C * PH, R), 1, C)
    BY DEF PictureRows, PictureCols, RowsLimit
  <1>4. /\ AreaOf(Sized).w = IF PH * PC <= PW * PR THEN Higher(Lower(Ceil(PC * PH, PR * 4), w), 1) ELSE w
        /\ AreaOf(Sized).h = IF PH * PC <= PW * PR THEN h ELSE Higher(Lower(Ceil(PR * PW, PC * 8), h), 1)
    BY DEF AreaOf, Sized
  <1> HIDE DEF R, C, PH, PW, PR, PC, w, h
  <1>5. CASE PH >= R /\ PW >= C
    <2>1. PR = R /\ PC = C
      BY <1>3, <1>5
    <2>2. Ceil(PC * PH, PR * 4) \in Nat /\ Ceil(PR * PW, PC * 8) \in Nat
      <3>1. PC * PH \in Nat /\ PR * PW \in Nat /\ PR * 4 \in Nat \ {0} /\ PC * 8 \in Nat \ {0}
        BY <1>1, <1>2, <2>1
      <3> QED
        BY <3>1, CeilType
    <2>3. AreaOf(Sized).w \in Nat \ {0} /\ AreaOf(Sized).h \in Nat \ {0}
      BY <1>1, <1>4, <2>2 DEF Higher, Lower
    <2> QED
      BY <1>1, <2>1, <2>3 DEF R, C, PR, PC
  <1>6. CASE ~(PH >= R /\ PW >= C) /\ PH * C <= PW * R
    <2>1. PR = PH /\ PC = Between(Rounded(C * PH, R), 1, C)
      BY <1>3, <1>6
    <2>2. PH <= R
      <3> SUFFICES ASSUME R < PH PROVE FALSE
        BY <1>1, <1>2
      <3>1. PW < C
        BY <1>1, <1>2, <1>6
      <3>2. R * C < PH * C /\ PW * R < C * R
        BY <1>1, <1>2, <3>1, ProductsOrder
      <3> QED
        BY <1>1, <1>2, <1>6, <3>2
    <2>3. Rounded(C * PH, R) \in Nat /\ Rounded(C * PH, R) <= PW
      <3>1. C * PH \in Nat /\ C * PH <= PW * R
        BY <1>1, <1>2, <1>6
      <3> QED
        BY <1>1, <1>2, <3>1, RoundedBound
    <2>4. PC \in 1 .. C /\ PC <= PW
      BY <1>1, <1>2, <2>1, <2>3, BetweenHolds
    <2>5. PH * PC <= PW * PR
      <3>1. PC * PH <= PW * PH
        BY <1>2, <2>4, ProductsOrder
      <3> QED
        BY <1>2, <2>1, <2>4, <3>1
    <2>6. Ceil(PC * PH, PR * 4) \in Nat /\ Ceil(PC * PH, PR * 4) <= PC
      BY <1>2, <2>1, <2>4, CeilBound
    <2>7. AreaOf(Sized).h = h /\ AreaOf(Sized).w = Higher(Lower(Ceil(PC * PH, PR * 4), w), 1)
      BY <1>4, <2>5
    <2>8. AreaOf(Sized).w \in Nat \ {0} /\ AreaOf(Sized).w <= C /\ AreaOf(Sized).h \in Nat \ {0} /\ AreaOf(Sized).h <= R
      BY <1>1, <1>2, <2>2, <2>4, <2>6, <2>7 DEF Higher, Lower
    <2> QED
      BY <1>1, <1>2, <2>1, <2>2, <2>4, <2>8 DEF R, C, PR, PC
  <1>7. CASE ~(PH >= R /\ PW >= C) /\ ~(PH * C <= PW * R)
    <2>1. PC = PW /\ PR = Between(Rounded(R * PW, C), 1, R)
      BY <1>3, <1>7
    <2>2. PW <= C
      <3> SUFFICES ASSUME C < PW PROVE FALSE
        BY <1>1, <1>2
      <3>1. PH < R
        BY <1>1, <1>2, <1>7
      <3>2. PH * C < R * C /\ C * R < PW * R
        BY <1>1, <1>2, <3>1, ProductsOrder
      <3> QED
        BY <1>1, <1>2, <1>7, <3>2
    <2>3. Rounded(R * PW, C) \in Nat /\ Rounded(R * PW, C) <= PH
      <3>1. R * PW \in Nat /\ R * PW <= PH * C
        BY <1>1, <1>2, <1>7
      <3> QED
        BY <1>1, <1>2, <3>1, RoundedBound
    <2>4. PR \in 1 .. R /\ PR <= PH
      BY <1>1, <1>2, <2>1, <2>3, BetweenHolds
    <2>5. CASE PH * PC <= PW * PR
      <3>1. PH * PW <= PR * PW
        BY <1>2, <2>1, <2>4, <2>5
      <3>2. PH <= PR
        BY <1>2, <2>4, <3>1, ProductsOrder
      <3>3. Ceil(PC * PH, PR * 4) \in Nat
        <4>1. PC * PH \in Nat /\ PR * 4 \in Nat \ {0}
          BY <1>1, <1>2, <2>1, <2>4
        <4> QED
          BY <4>1, CeilType
      <3>4. AreaOf(Sized).h = h /\ AreaOf(Sized).w = Higher(Lower(Ceil(PC * PH, PR * 4), w), 1)
        BY <1>4, <2>5
      <3>5. AreaOf(Sized).w \in Nat \ {0} /\ AreaOf(Sized).w <= C /\ AreaOf(Sized).h \in Nat \ {0} /\ AreaOf(Sized).h <= R
        BY <1>1, <1>2, <2>2, <2>4, <3>2, <3>3, <3>4 DEF Higher, Lower
      <3> QED
        BY <1>1, <1>2, <2>1, <2>2, <2>4, <3>5 DEF R, C, PR, PC
    <2>6. CASE ~(PH * PC <= PW * PR)
      <3>1. Ceil(PR * PW, PC * 8) \in Nat /\ Ceil(PR * PW, PC * 8) <= PR
        BY <1>2, <2>1, <2>4, CeilBound
      <3>2. AreaOf(Sized).w = w /\ AreaOf(Sized).h = Higher(Lower(Ceil(PR * PW, PC * 8), h), 1)
        BY <1>4, <2>6
      <3>3. AreaOf(Sized).w \in Nat \ {0} /\ AreaOf(Sized).w <= C /\ AreaOf(Sized).h \in Nat \ {0} /\ AreaOf(Sized).h <= R
        BY <1>1, <1>2, <2>2, <2>4, <3>1, <3>2 DEF Higher, Lower
      <3> QED
        BY <1>1, <1>2, <2>1, <2>2, <2>4, <3>3 DEF R, C, PR, PC
    <2> QED
      BY <2>5, <2>6
  <1> QED
    BY <1>5, <1>6, <1>7

-----------------------------------------------------------------------------
\* States.  A pointer event is remembered with the cell it meant over this
\* image, on this panel.

Positions == [x : Nat, y : Nat]

WindowOK(w) ==
    /\ w \in [r0 : Nat, r1 : Nat, c0 : Nat, c1 : Nat]
    /\ w.r0 < w.r1 /\ w.r1 <= plane.rows
    /\ w.c0 < w.c1 /\ w.c1 <= plane.cols

\* the picture of this slice has its size
EncodedOK ==
    encoded # Nowhere =>
        /\ encoded \in [rows : Nat \ {0}, cols : Nat \ {0}, current : BOOLEAN]
        /\ encoded.current => encoded.rows = PictureRows /\ encoded.cols = PictureCols

CellTypeOK ==
    /\ plane \in Planes /\ inner \in Canvases /\ graphics \in BOOLEAN
    /\ image.factor \in Nat \ {0} /\ WindowOK(image.window)
    /\ zoomed # Nowhere => WindowOK(zoomed)
    /\ point # Nowhere => point \in [row : Int, col : Int]
    /\ box # Nowhere => box \in [start : Positions, end : Positions]
    /\ EncodedOK

\* the hit test as a function
Found == [p \in Positions |-> CellUnder(p)]

PointerMeant ==
    pointer # Nowhere => pointer.at \in Positions /\ pointer.cell = Found[pointer.at]

CellInv == CellTypeOK /\ PointerMeant

\* The numbers a panel and an image are measured in.
LEMMA CellSizes ==
    ASSUME CellTypeOK
    PROVE  /\ NRows \in Nat \ {0} /\ NCols \in Nat \ {0}
           /\ SampleRows \in Nat \ {0} /\ SampleCols \in Nat \ {0}
           /\ inner.w \in Nat \ {0} /\ inner.h \in Nat \ {0}
           /\ plane.rows \in Nat \ {0} /\ plane.cols \in Nat \ {0} /\ plane.finer \in Nat \ {0}
           /\ plane.flip \in BOOLEAN
  <1>1. NRows \in Nat \ {0} /\ NCols \in Nat \ {0} /\ image.factor \in Nat \ {0}
    BY DEF CellTypeOK, WindowOK, NRows, NCols
  <1>2. \A a, b \in Nat \ {0} : a * b \in Nat \ {0}
    OBVIOUS
  <1>3. SampleRows \in Nat \ {0} /\ SampleCols \in Nat \ {0}
    BY <1>1, <1>2 DEF SampleRows, SampleCols
  <1> QED
    BY <1>1, <1>3, PlaneAssumption, InnerAssumption DEF CellTypeOK

\* What is drawn has a size.
LEMMA DrawnSizes ==
    ASSUME CellTypeOK
    PROVE  /\ Drawable.w \in Nat \ {0} /\ Drawable.h \in Nat \ {0}
           /\ ~graphics => Drawable.h <= SampleRows /\ Drawable.w <= SampleCols
           /\ PictureRows \in 1 .. SampleRows /\ PictureCols \in 1 .. SampleCols
           /\ graphics /\ UpToDate =>
                /\ PictureRows = SampleRows \/ Drawable.h <= SampleRows
                /\ PictureCols = SampleCols \/ Drawable.w <= SampleCols
  <1>1. PictureRows \in 1 .. SampleRows /\ PictureCols \in 1 .. SampleCols
    BY CellSizes, PictureSizes
  <1>2. CASE ~graphics
    <2>1. Drawable.w = Lower(inner.w, SampleCols) /\ Drawable.h = Lower(inner.h, SampleRows)
      BY <1>2 DEF Drawable
    <2> QED
      BY <1>1, <1>2, <2>1, CellSizes DEF Lower
  <1>3. CASE graphics /\ encoded = Nowhere
    <2>1. Drawable = inner /\ ~UpToDate
      BY <1>3 DEF Drawable, UpToDate
    <2> QED
      BY <1>1, <1>3, <2>1, CellSizes
  <1>4. CASE graphics /\ encoded # Nowhere
    <2>1. Drawable = AreaOf(encoded)
      BY <1>4 DEF Drawable
    <2>2. AreaOf(encoded).w \in Nat \ {0} /\ AreaOf(encoded).h \in Nat \ {0}
      BY <1>4, AreaSizes, CellSizes DEF CellTypeOK, EncodedOK
    <2>3. UpToDate => AreaOf(encoded) = AreaOf(Sized)
      BY <1>4 DEF UpToDate, CellTypeOK, EncodedOK, AreaOf, Sized
    <2> QED
      BY <1>1, <1>4, <2>1, <2>2, <2>3, CellSizes, PictureSizes
  <1> QED
    BY <1>2, <1>3, <1>4

-----------------------------------------------------------------------------
\* What is drawn

\* A row counted from the other end is a row, and this one counted so.
LEMMA MirroredTwice ==
    ASSUME CellTypeOK, NEW n \in Nat \ {0}, NEW i \in 0 .. n - 1
    PROVE  Mirrored(i, n) \in 0 .. n - 1 /\ Mirrored(Mirrored(i, n), n) = i
  BY CellSizes DEF Mirrored

\* The cell a sample stands for.
LEMMA SampleOfCell ==
    ASSUME NEW f \in Nat \ {0}, NEW k \in Nat, NEW j \in 0 .. f - 1
    PROVE  (k * f + j) \div f = k
  <1>1. k * f + j \in Nat /\ k * f <= k * f + j /\ k * f + j < (k + 1) * f
    OBVIOUS
  <1> QED
    BY <1>1, QuotientIs

\* Rescaling to samples, then to the cells they refine, is rescaling to cells.
LEMMA RefinedScale ==
    ASSUME NEW cells \in Nat \ {0}, NEW n \in Nat \ {0}, NEW f \in Nat \ {0},
           NEW y \in 0 .. cells - 1
    PROVE  Rescaled(y, cells, n * f) \div f = Rescaled(y, cells, n)
  <1> DEFINE s == Rescaled(y, cells, n * f)
             k == Rescaled(y, cells, n)
  <1>1. k \in 0 .. n - 1 /\ k * cells <= y * n /\ y * n < (k + 1) * cells
    BY RescaledHolds
  <1>2. n * f \in Nat \ {0}
    OBVIOUS
  <1>3. s \in Nat /\ s * cells <= y * (n * f) /\ y * (n * f) < (s + 1) * cells
    BY <1>2, RescaledHolds
  <1> HIDE DEF s, k
  <1>4. k * f <= s
    <2>1. (k * cells) * f <= (y * n) * f
      BY <1>1, ProductsOrder
    <2>2. (k * f) * cells < (s + 1) * cells
      BY <1>1, <1>3, <2>1
    <2>3. k * f < s + 1
      BY <1>1, <1>3, <2>2, ProductsOrder
    <2> QED
      BY <1>1, <1>3, <2>3
  <1>5. s < (k + 1) * f
    <2>1. (y * n) * f < ((k + 1) * cells) * f
      BY <1>1, ProductsOrder
    <2>2. s * cells < ((k + 1) * f) * cells
      BY <1>1, <1>3, <2>1
    <2> QED
      BY <1>1, <1>3, <2>2, ProductsOrder
  <1>6. s \div f = k
    BY <1>1, <1>3, <1>4, <1>5, QuotientIs
  <1> QED
    BY <1>6 DEF s, k

\* The same from the other end.
LEMMA RefinedMirror ==
    ASSUME NEW n \in Nat \ {0}, NEW f \in Nat \ {0}, NEW s \in 0 .. n * f - 1
    PROVE  (n * f - 1 - s) \div f = n - 1 - s \div f
  <1>1. PICK k \in Nat : k = s \div f /\ k * f <= s /\ s < (k + 1) * f
    BY QuotientBounds
  <1>2. n * f - 1 - s \in Nat
    OBVIOUS
  <1>3. (n - 1 - k) * f <= n * f - 1 - s /\ n * f - 1 - s < ((n - 1 - k) + 1) * f
    BY <1>1
  <1>4. (n * f - 1 - s) \div f = n - 1 - k
    BY <1>1, <1>2, <1>3, QuotientIs
  <1> QED
    BY <1>1, <1>4

\* A sample is among those of the pixel that holds it or, mirrored, its mirror
\* image is.
LEMMA SampleOfPixel ==
    ASSUME CellTypeOK, graphics, NEW r \in 0 .. SampleRows - 1, NEW c \in 0 .. SampleCols - 1
    PROVE  /\ r \in RowsOfPixel(PixelOf(Mirrored(r, SampleRows), SampleRows, PictureRows))
           /\ c \in ColsOfPixel(PixelOf(c, SampleCols, PictureCols))
  <1>1. /\ PictureRows \in Nat \ {0} /\ PictureRows <= SampleRows
        /\ PictureCols \in Nat \ {0} /\ PictureCols <= SampleCols
        /\ SampleRows \in Nat \ {0} /\ SampleCols \in Nat \ {0}
    BY CellSizes, DrawnSizes
  <1>2. Mirrored(r, SampleRows) \in 0 .. SampleRows - 1
        /\ Mirrored(Mirrored(r, SampleRows), SampleRows) = r
    BY <1>1, MirroredTwice
  <1>3. Mirrored(r, SampleRows) \in
          Bin(PixelOf(Mirrored(r, SampleRows), SampleRows, PictureRows), SampleRows, PictureRows)
    BY <1>1, <1>2, BinsDivide
  <1>4. c \in Bin(PixelOf(c, SampleCols, PictureCols), SampleCols, PictureCols)
    BY <1>1, BinsDivide
  <1> QED
    BY <1>2, <1>3, <1>4 DEF RowsOfPixel, ColsOfPixel

\* A sample whose pixel a cell touches is drawn there.
LEMMA TouchedIsDrawn ==
    ASSUME CellTypeOK, graphics, NEW p, NEW r \in 0 .. SampleRows - 1, NEW c \in 0 .. SampleCols - 1,
           PixelOf(Mirrored(r, SampleRows), SampleRows, PictureRows)
             \in Touches(p.y, Drawable.h, PictureRows),
           PixelOf(c, SampleCols, PictureCols) \in Touches(p.x, Drawable.w, PictureCols)
    PROVE  CellOfSample(r, c) \in DrawnAt(p)
  <1>1. /\ r \in UNION {RowsOfPixel(i) : i \in Touches(p.y, Drawable.h, PictureRows)}
        /\ c \in UNION {ColsOfPixel(i) : i \in Touches(p.x, Drawable.w, PictureCols)}
    BY SampleOfPixel
  <1>2. At(r, c) \in SamplesAt(p)
    BY <1>1 DEF SamplesAt
  <1>3. CellOfSample(At(r, c).row, At(r, c).col) \in DrawnAt(p)
    BY <1>2 DEF DrawnAt
  <1> QED
    BY <1>3 DEF At

\* The sample at a cell of the terminal stands for the cell that the hit test
\* finds there.
LEMMA SampleUnder ==
    ASSUME CellTypeOK, NEW p \in Places(Drawable)
    PROVE  /\ SampleAt(p) = At(SampleAt(p).row, SampleAt(p).col)
           /\ SampleAt(p).row \in 0 .. SampleRows - 1 /\ SampleAt(p).col \in 0 .. SampleCols - 1
           /\ CellOfSample(SampleAt(p).row, SampleAt(p).col) = CellUnder(p)
           /\ Mirrored(SampleAt(p).row, SampleRows) = Rescaled(p.y, Drawable.h, SampleRows)
           /\ SampleAt(p).col = Rescaled(p.x, Drawable.w, SampleCols)
           /\ Holds(image.window, CellUnder(p)) /\ CellUnder(p) \in [row : Int, col : Int]
  <1> DEFINE f  == image.factor
             R  == NRows
             C  == NCols
             sr == Rescaled(p.y, Drawable.h, R * f)
             sc == Rescaled(p.x, Drawable.w, C * f)
             kr == Rescaled(p.y, Drawable.h, R)
             kc == Rescaled(p.x, Drawable.w, C)
  <1>1. /\ f \in Nat \ {0} /\ R \in Nat \ {0} /\ C \in Nat \ {0}
        /\ R * f \in Nat \ {0} /\ C * f \in Nat \ {0}
        /\ SampleRows = R * f /\ SampleCols = C * f
    BY CellSizes DEF CellTypeOK, SampleRows, SampleCols
  <1>2. /\ Drawable.h \in Nat \ {0} /\ Drawable.w \in Nat \ {0}
        /\ p.y \in 0 .. Drawable.h - 1 /\ p.x \in 0 .. Drawable.w - 1
    BY DrawnSizes DEF Places
  <1>3. sr \in 0 .. R * f - 1 /\ sc \in 0 .. C * f - 1 /\ kr \in 0 .. R - 1 /\ kc \in 0 .. C - 1
    BY <1>1, <1>2, RescaledHolds
  <1>4. sr \div f = kr /\ sc \div f = kc
    <2>1. sr \div f = kr
      BY <1>1, <1>2, RefinedScale, ZenonT(30)
    <2>2. sc \div f = kc
      BY <1>1, <1>2, RefinedScale, ZenonT(30)
    <2> QED BY <2>1, <2>2
  <1>5. SampleAt(p) = At(Mirrored(sr, R * f), sc)
    BY <1>1 DEF SampleAt
  <1>6. /\ CellUnder(p) = At(image.window.r0 + Mirrored(kr, R), image.window.c0 + kc)
    BY DEF CellUnder
  <1> HIDE DEF sr, sc, kr, kc, R, C, f
  <1>7. Mirrored(sr, R * f) \div f = Mirrored(kr, R)
    <2>1. CASE plane.flip
      BY <2>1, <1>1, <1>3, <1>4, RefinedMirror DEF Mirrored
    <2>2. CASE ~plane.flip
      BY <2>2, <1>4 DEF Mirrored
    <2> QED
      BY <2>1, <2>2
  <1>8. CellOfSample(Mirrored(sr, R * f), sc) = CellUnder(p)
    BY <1>4, <1>6, <1>7 DEF CellOfSample, f
  <1>9. /\ Mirrored(sr, R * f) \in 0 .. R * f - 1
        /\ Mirrored(Mirrored(sr, R * f), R * f) = sr
        /\ Mirrored(kr, R) \in 0 .. R - 1
    BY <1>1, <1>3, MirroredTwice
  <1>10. Holds(image.window, CellUnder(p)) /\ CellUnder(p) \in [row : Int, col : Int]
    <2>1. /\ image.window.r0 \in Nat /\ image.window.c0 \in Nat
          /\ image.window.r1 \in Nat /\ image.window.c1 \in Nat
          /\ R = image.window.r1 - image.window.r0 /\ C = image.window.c1 - image.window.c0
      BY DEF CellTypeOK, WindowOK, NRows, NCols, R, C
    <2> QED
      BY <2>1, <1>3, <1>6, <1>9 DEF Holds, At
  <1> QED
    BY <1>1, <1>3, <1>5, <1>8, <1>9, <1>10 DEF At, sr, sc

\* What the hit test finds at a cell of the terminal is drawn there.
LEMMA UnderIsDrawn ==
    ASSUME CellTypeOK, UpToDate, NEW p \in Places(Drawable)
    PROVE  CellUnder(p) \in DrawnAt(p)
  <1>1. CASE ~graphics
    <2>1. SamplesAt(p) = {SampleAt(p)}
      BY <1>1 DEF SamplesAt
    <2> QED
      BY <2>1, SampleUnder DEF DrawnAt
  <1>2. CASE graphics
    <2>1. /\ PictureRows \in Nat \ {0} /\ PictureRows <= SampleRows
          /\ PictureCols \in Nat \ {0} /\ PictureCols <= SampleCols
          /\ SampleRows \in Nat \ {0} /\ SampleCols \in Nat \ {0}
          /\ Drawable.w \in Nat \ {0} /\ Drawable.h \in Nat \ {0}
          /\ PictureRows = SampleRows \/ Drawable.h <= SampleRows
          /\ PictureCols = SampleCols \/ Drawable.w <= SampleCols
      BY <1>2, CellSizes, DrawnSizes
    <2>2. p.x \in 0 .. Drawable.w - 1 /\ p.y \in 0 .. Drawable.h - 1
      BY DEF Places
    <2>3. /\ PixelOf(Rescaled(p.y, Drawable.h, SampleRows), SampleRows, PictureRows)
               \in Touches(p.y, Drawable.h, PictureRows)
          /\ PixelOf(Rescaled(p.x, Drawable.w, SampleCols), SampleCols, PictureCols)
               \in Touches(p.x, Drawable.w, PictureCols)
      BY <2>1, <2>2, ScaledIsTouched
    <2> DEFINE r == SampleAt(p).row
               c == SampleAt(p).col
    <2>4. /\ r \in 0 .. SampleRows - 1 /\ c \in 0 .. SampleCols - 1
          /\ CellOfSample(r, c) = CellUnder(p)
          /\ Mirrored(r, SampleRows) = Rescaled(p.y, Drawable.h, SampleRows)
          /\ c = Rescaled(p.x, Drawable.w, SampleCols)
      BY SampleUnder
    <2> HIDE DEF r, c
    <2>5. CellOfSample(r, c) \in DrawnAt(p)
      BY <1>2, <2>3, <2>4, TouchedIsDrawn
    <2> QED
      BY <2>4, <2>5
  <1> QED
    BY <1>1, <1>2 DEF CellTypeOK

\* The bins of a picture divide the samples.
LEMMA WholePicture ==
    ASSUME CellTypeOK PROVE PictureIsWhole
  <1> SUFFICES ASSUME graphics
               PROVE  /\ \A r \in 0 .. SampleRows - 1 :
                           Cardinality({i \in 0 .. PictureRows - 1 : r \in RowsOfPixel(i)}) = 1
                      /\ \A c \in 0 .. SampleCols - 1 :
                           Cardinality({i \in 0 .. PictureCols - 1 : c \in ColsOfPixel(i)}) = 1
    BY DEF PictureIsWhole
  <1>1. /\ PictureRows \in Nat \ {0} /\ PictureRows <= SampleRows
        /\ PictureCols \in Nat \ {0} /\ PictureCols <= SampleCols
        /\ SampleRows \in Nat \ {0} /\ SampleCols \in Nat \ {0}
    BY CellSizes, DrawnSizes
  <1>2. ASSUME NEW r \in 0 .. SampleRows - 1
        PROVE  Cardinality({i \in 0 .. PictureRows - 1 : r \in RowsOfPixel(i)}) = 1
    <2> DEFINE m == Mirrored(r, SampleRows)
               q == PixelOf(m, SampleRows, PictureRows)
    <2>1. m \in 0 .. SampleRows - 1 /\ Mirrored(m, SampleRows) = r
      BY <1>1, MirroredTwice
    <2>2. /\ q \in 0 .. PictureRows - 1
          /\ \A i \in 0 .. PictureRows - 1 : m \in Bin(i, SampleRows, PictureRows) <=> i = q
      BY <1>1, <2>1, BinsDivide
    <2>3. ASSUME NEW i \in 0 .. PictureRows - 1
          PROVE  r \in RowsOfPixel(i) <=> m \in Bin(i, SampleRows, PictureRows)
      <3>1. Bin(i, SampleRows, PictureRows) \subseteq Int
        BY DEF Bin
      <3>2. \A k \in Int : Mirrored(k, SampleRows) = r <=> k = m
        BY <1>1, CellSizes DEF Mirrored
      <3> QED
        BY <2>1, <3>1, <3>2 DEF RowsOfPixel
    <2> HIDE DEF m, q
    <2>4. {i \in 0 .. PictureRows - 1 : r \in RowsOfPixel(i)} = {q}
      BY <2>2, <2>3
    <2> QED
      BY <2>4, FS_Singleton
  <1>3. ASSUME NEW c \in 0 .. SampleCols - 1
        PROVE  Cardinality({i \in 0 .. PictureCols - 1 : c \in ColsOfPixel(i)}) = 1
    <2> DEFINE q == PixelOf(c, SampleCols, PictureCols)
    <2>1. /\ q \in 0 .. PictureCols - 1
          /\ \A i \in 0 .. PictureCols - 1 : c \in Bin(i, SampleCols, PictureCols) <=> i = q
      BY <1>1, BinsDivide
    <2> HIDE DEF q
    <2>2. {i \in 0 .. PictureCols - 1 : c \in ColsOfPixel(i)} = {q}
      BY <2>1 DEF ColsOfPixel
    <2> QED
      BY <2>2, FS_Singleton
  <1> QED
    BY <1>2, <1>3

\* The sample that stands for a cell is one of its samples.
LEMMA CentreOfCell ==
    ASSUME CellTypeOK, NEW s \in [row : Int, col : Int], Holds(image.window, s)
    PROVE  /\ CentreSample(s).row \in 0 .. SampleRows - 1
           /\ CentreSample(s).col \in 0 .. SampleCols - 1
           /\ CellOfSample(CentreSample(s).row, CentreSample(s).col) = s
  <1> DEFINE f == image.factor
             j == f \div 2
             kr == s.row - image.window.r0
             kc == s.col - image.window.c0
  <1>1. /\ f \in Nat \ {0} /\ kr \in 0 .. NRows - 1 /\ kc \in 0 .. NCols - 1
        /\ NRows \in Nat /\ NCols \in Nat
        /\ SampleRows = NRows * f /\ SampleCols = NCols * f
        /\ image.window.r0 \in Nat /\ image.window.c0 \in Nat
    BY CellSizes DEF CellTypeOK, WindowOK, Holds, NRows, NCols, SampleRows, SampleCols
  <1>2. j \in 0 .. f - 1
    BY <1>1
  <1>3. CentreSample(s).row = kr * f + j /\ CentreSample(s).col = kc * f + j
    BY DEF CentreSample, At
  <1>4. s = [row |-> image.window.r0 + kr, col |-> image.window.c0 + kc]
    BY <1>1
  <1> HIDE DEF f, j, kr, kc
  <1>5. (kr * f + j) \div f = kr /\ (kc * f + j) \div f = kc
    BY <1>1, <1>2, SampleOfCell
  <1>6. ASSUME NEW n \in Nat, NEW k \in 0 .. n - 1 PROVE k * f + j \in 0 .. n * f - 1
    <2>1. (k + 1) * f <= n * f
      BY <1>1, ProductsOrder
    <2>2. k * f \in Nat /\ (k + 1) * f = k * f + f /\ n * f \in Nat
      BY <1>1
    <2> QED
      BY <1>1, <1>2, <2>1, <2>2
  <1>7. kr * f + j \in 0 .. SampleRows - 1 /\ kc * f + j \in 0 .. SampleCols - 1
    BY <1>1, <1>6
  <1> QED
    BY <1>3, <1>4, <1>5, <1>7 DEF CellOfSample, At, f

\* The diamond of a point in the window stands before a cell that shows it.
LEMMA MarkerIsNear ==
    ASSUME CellTypeOK, UpToDate, NEW s \in [row : Int, col : Int], NEW p \in Markers(s)
    PROVE  p \in Places(Drawable) /\ \E q \in Beside(p) : s \in DrawnAt(q)
  <1>1. Holds(image.window, s)
    BY DEF Markers
  <1>2. CASE ~graphics
    <2>1. p \in Places(Drawable) /\ DrawnAt(p) = {s}
      BY <1>1, <1>2 DEF Markers
    <2>2. p \in Beside(p)
      BY <2>1 DEF Beside
    <2> QED
      BY <2>1, <2>2
  <1>3. CASE graphics
    <2> DEFINE r  == CentreSample(s).row
               c  == CentreSample(s).col
               m  == Mirrored(r, SampleRows)
               W  == Drawable.w
               H  == Drawable.h
               x  == Rescaled(c, SampleCols, W)
               y  == Rescaled(m, SampleRows, H)
               qr == PixelOf(m, SampleRows, PictureRows)
               qc == PixelOf(c, SampleCols, PictureCols)
    <2>1. p = [x |-> x, y |-> y]
      BY <1>1, <1>3 DEF Markers
    <2>2. /\ PictureRows \in Nat \ {0} /\ PictureRows <= SampleRows
          /\ PictureCols \in Nat \ {0} /\ PictureCols <= SampleCols
          /\ SampleRows \in Nat \ {0} /\ SampleCols \in Nat \ {0}
          /\ W \in Nat \ {0} /\ H \in Nat \ {0}
          /\ PictureRows = SampleRows \/ H <= SampleRows
          /\ PictureCols = SampleCols \/ W <= SampleCols
      BY <1>3, CellSizes, DrawnSizes
    <2>3. r \in 0 .. SampleRows - 1 /\ c \in 0 .. SampleCols - 1 /\ CellOfSample(r, c) = s
      BY <1>1, CentreOfCell
    <2> HIDE DEF r, c
    <2>4. m \in 0 .. SampleRows - 1
      BY <2>2, <2>3, MirroredTwice
    <2> HIDE DEF m, W, H
    <2>5. x \in 0 .. W - 1 /\ y \in 0 .. H - 1
      BY <2>2, <2>3, <2>4, RescaledHolds
    <2>6. \/ qr \in Touches(y, H, PictureRows)
          \/ PictureRows < SampleRows /\ y + 1 < H /\ qr \in Touches(y + 1, H, PictureRows)
      BY <2>2, <2>4, SampleIsNear
    <2>7. \/ qc \in Touches(x, W, PictureCols)
          \/ PictureCols < SampleCols /\ x + 1 < W /\ qc \in Touches(x + 1, W, PictureCols)
      BY <2>2, <2>3, SampleIsNear
    <2> HIDE DEF x, y, qr, qc
    <2>8. PICK v \in 0 .. H - 1 : /\ qr \in Touches(v, H, PictureRows)
                                  /\ v = y \/ (PictureRows < SampleRows /\ v = y + 1)
      <3>1. CASE qr \in Touches(y, H, PictureRows)
        BY <2>5, <3>1
      <3>2. CASE PictureRows < SampleRows /\ y + 1 < H /\ qr \in Touches(y + 1, H, PictureRows)
        <4>1. y + 1 \in 0 .. H - 1
          BY <2>2, <2>5, <3>2
        <4> QED
          BY <4>1, <3>2
      <3> QED
        BY <2>6, <3>1, <3>2
    <2>9. PICK u \in 0 .. W - 1 : /\ qc \in Touches(u, W, PictureCols)
                                  /\ u = x \/ (PictureCols < SampleCols /\ u = x + 1)
      <3>1. CASE qc \in Touches(x, W, PictureCols)
        BY <2>5, <3>1
      <3>2. CASE PictureCols < SampleCols /\ x + 1 < W /\ qc \in Touches(x + 1, W, PictureCols)
        <4>1. x + 1 \in 0 .. W - 1
          BY <2>2, <2>5, <3>2
        <4> QED
          BY <4>1, <3>2
      <3> QED
        BY <2>7, <3>1, <3>2
    <2> DEFINE q == [x |-> u, y |-> v]
    <2>10. p \in Places(Drawable) /\ q \in Places(Drawable)
      BY <2>1, <2>2, <2>5, <2>8, <2>9 DEF Places, W, H
    <2>11. q \in Beside(p)
      BY <2>1, <2>8, <2>9, <2>10 DEF Beside
    <2>12. q.y = v /\ q.x = u
      OBVIOUS
    <2> HIDE DEF q
    <2>13. /\ PixelOf(Mirrored(r, SampleRows), SampleRows, PictureRows)
                \in Touches(q.y, Drawable.h, PictureRows)
           /\ PixelOf(c, SampleCols, PictureCols) \in Touches(q.x, Drawable.w, PictureCols)
      BY <2>8, <2>9, <2>12 DEF qr, qc, m, W, H
    <2>14. CellOfSample(r, c) \in DrawnAt(q)
      BY <1>3, <2>3, <2>13, TouchedIsDrawn
    <2> QED
      BY <2>3, <2>10, <2>11, <2>14
  <1> QED
    BY <1>2, <1>3 DEF CellTypeOK

\* The property of the marker holds in every state of the invariant.
LEMMA MarkerHolds ==
    ASSUME CellInv PROVE MarkerOnItsPoint
  <1> SUFFICES ASSUME UpToDate, point # Nowhere
               PROVE  /\ \A p \in Markers(point) :
                           p \in Places(Drawable) /\ \E q \in Beside(p) : point \in DrawnAt(q)
                      /\ graphics /\ Holds(image.window, point) => Markers(point) # {}
                      /\ ~graphics /\ pointer # Nowhere /\ pointer.cell = point
                           => pointer.at \in Markers(point)
    BY DEF MarkerOnItsPoint
  <1>1. CellTypeOK /\ PointerMeant /\ point \in [row : Int, col : Int]
    BY DEF CellInv, CellTypeOK
  <1>2. \A p \in Markers(point) :
          p \in Places(Drawable) /\ \E q \in Beside(p) : point \in DrawnAt(q)
    BY <1>1, MarkerIsNear
  <1>3. graphics /\ Holds(image.window, point) => Markers(point) # {}
    BY DEF Markers
  <1>4. ASSUME ~graphics, pointer # Nowhere, pointer.cell = point
        PROVE  pointer.at \in Markers(point)
    <2> DEFINE p == pointer.at
    <2>1. CellUnder(p) = point
      BY <1>1, <1>4 DEF PointerMeant, Found
    <2>2. p \in Places(Drawable)
      BY <2>1 DEF CellUnder
    <2>3. Holds(image.window, point) /\ DrawnAt(p) = {point}
      <3>1. SamplesAt(p) = {SampleAt(p)}
        BY <1>4 DEF SamplesAt
      <3> QED
        BY <1>1, <2>1, <2>2, <3>1, SampleUnder DEF DrawnAt
    <2> QED
      BY <1>4, <2>2, <2>3 DEF Markers
  <1> QED
    BY <1>2, <1>3, <1>4

-----------------------------------------------------------------------------
\* The rectangle

\* Both ends of the rectangle are on the image, in order.
LEMMA EdgesInside ==
    ASSUME CellTypeOK, box # Nowhere
    PROVE  /\ Edges(box).left \in 0 .. Edges(box).right /\ Edges(box).right \in 0 .. Drawable.w - 1
           /\ Edges(box).top \in 0 .. Edges(box).bottom /\ Edges(box).bottom \in 0 .. Drawable.h - 1
  <1>1. /\ box.start.x \in Int /\ box.start.y \in Int /\ box.end.x \in Int /\ box.end.y \in Int
        /\ Drawable.w \in Nat \ {0} /\ Drawable.h \in Nat \ {0}
    BY DrawnSizes DEF CellTypeOK, Positions
  <1> DEFINE W == Drawable.w
             H == Drawable.h
             x(p) == Between(p.x, 0, W - 1)
             y(p) == Between(p.y, 0, H - 1)
  <1>2. /\ x(box.start) \in 0 .. W - 1 /\ x(box.end) \in 0 .. W - 1
        /\ y(box.start) \in 0 .. H - 1 /\ y(box.end) \in 0 .. H - 1
    BY <1>1 DEF Between, Higher, Lower
  <1>3. /\ Edges(box).left = Lower(x(box.start), x(box.end))
        /\ Edges(box).right = Higher(x(box.start), x(box.end))
        /\ Edges(box).top = Lower(y(box.start), y(box.end))
        /\ Edges(box).bottom = Higher(y(box.start), y(box.end))
    BY DEF Edges
  <1> HIDE DEF x, y, W, H
  <1> QED
    BY <1>1, <1>2, <1>3 DEF Higher, Lower, W, H

\* The rows covered by cells first .. last: not empty, all that lie under the
\* cells and none that they do not touch.
LEMMA CoveredHolds ==
    ASSUME NEW cells \in Nat \ {0}, NEW n \in Nat \ {0},
           NEW last \in 0 .. cells - 1, NEW first \in 0 .. last
    PROVE  LET c == Covered(first, last, cells, n)
           IN  /\ c.start \in 0 .. n - 1 /\ c.end \in 1 .. n /\ c.start < c.end
               /\ \A i \in 0 .. n - 1 :
                    /\ Inside(i, n, first, last, cells) => i \in c.start .. c.end - 1
                    /\ i \in c.start .. c.end - 1 => Under(i, n, first, last, cells)
  <1> DEFINE start == Rescaled(first, cells, n)
             next  == Rescaled(last + 1, cells, n)
             c     == Covered(first, last, cells, n)
  <1>1. first \in 0 .. cells - 1 /\ first \in Nat /\ last + 1 \in Nat
    OBVIOUS
  <1>2. start \in 0 .. n - 1 /\ start * cells <= first * n /\ first * n < (start + 1) * cells
    BY <1>1, RescaledHolds
  <1>3. next \in Nat /\ \A k \in Int : k <= next <=> k * cells <= (last + 1) * n
    BY <1>1, RescaledType, RescaledAtLeast
  <1>4. c.start = start /\ c.end = Lower(Higher(next, start + 1), n)
    BY DEF Covered
  <1> HIDE DEF start, next, c
  <1>5. c.start \in 0 .. n - 1 /\ c.end \in 1 .. n /\ c.start < c.end
    BY <1>2, <1>3, <1>4 DEF Lower, Higher
  <1>6. ASSUME NEW i \in 0 .. n - 1, Inside(i, n, first, last, cells)
        PROVE  i \in c.start .. c.end - 1
    <2>1. i * cells >= first * n /\ (i + 1) * cells <= (last + 1) * n
      BY <1>6 DEF Inside
    <2>2. i + 1 <= next
      BY <1>3, <2>1
    <2>3. start * cells < (i + 1) * cells
      <3>1. i * cells < (i + 1) * cells
        BY ProductsOrder
      <3>2. start * cells \in Int /\ i * cells \in Int /\ first * n \in Int /\ (i + 1) * cells \in Int
        BY <1>2
      <3>3. start * cells <= i * cells
        BY <1>2, <2>1, <3>2
      <3> QED
        BY <3>1, <3>2, <3>3
    <2>4. start < i + 1
      BY <1>2, <2>3, ProductsOrder
    <2> QED
      BY <1>2, <1>3, <1>4, <2>2, <2>4 DEF Lower, Higher
  <1>7. ASSUME NEW i \in 0 .. n - 1, i \in c.start .. c.end - 1
        PROVE  Under(i, n, first, last, cells)
    <2>1. start <= i /\ (i + 1 <= next \/ i = start)
      BY <1>2, <1>3, <1>4, <1>7 DEF Lower, Higher
    <2>2. (i + 1) * cells > first * n
      <3>1. (start + 1) * cells <= (i + 1) * cells
        BY <1>2, <2>1, ProductsOrder
      <3>2. (start + 1) * cells \in Int /\ (i + 1) * cells \in Int /\ first * n \in Int
        BY <1>2
      <3> QED
        BY <1>2, <3>1, <3>2
    <2>3. i * cells < (last + 1) * n
      <3>1. CASE i + 1 <= next
        <4>1. (i + 1) * cells <= (last + 1) * n
          BY <1>3, <3>1
        <4>2. i * cells < (i + 1) * cells
          BY ProductsOrder
        <4> QED
          BY <4>1, <4>2
      <3>2. CASE i = start
        <4>1. first * n < (last + 1) * n
          BY ProductsOrder
        <4>2. i * cells <= first * n
          BY <1>2, <3>2
        <4>3. i * cells \in Int /\ first * n \in Int /\ (last + 1) * n \in Int
          OBVIOUS
        <4> QED
          BY <4>1, <4>2, <4>3
      <3> QED
        BY <2>1, <3>1, <3>2
    <2> QED
      BY <2>2, <2>3 DEF Under
  <1> QED
    BY <1>5, <1>6, <1>7 DEF c

\* The window of a rectangle is one of the plane, and in the window on screen.
LEMMA BoxWindowOK ==
    ASSUME CellTypeOK, box # Nowhere
    PROVE  WindowOK(BoxWindow(box))
  <1> DEFINE w    == image.window
             rows == Covered(Edges(box).top, Edges(box).bottom, Drawable.h, NRows)
             cols == Covered(Edges(box).left, Edges(box).right, Drawable.w, NCols)
  <1>1. /\ rows.start \in 0 .. NRows - 1 /\ rows.end \in 1 .. NRows /\ rows.start < rows.end
        /\ cols.start \in 0 .. NCols - 1 /\ cols.end \in 1 .. NCols /\ cols.start < cols.end
    BY EdgesInside, CoveredHolds, CellSizes, DrawnSizes
  <1>2. BoxWindow(box) = Rect(w.r0 + IF plane.flip THEN NRows - rows.end ELSE rows.start,
                              w.r0 + IF plane.flip THEN NRows - rows.start ELSE rows.end,
                              w.c0 + cols.start, w.c0 + cols.end)
    BY DEF BoxWindow
  <1> HIDE DEF rows, cols
  <1>3. /\ w \in [r0 : Nat, r1 : Nat, c0 : Nat, c1 : Nat]
        /\ w.r1 <= plane.rows /\ w.c1 <= plane.cols
        /\ NRows = w.r1 - w.r0 /\ NCols = w.c1 - w.c0
        /\ plane.rows \in Nat /\ plane.cols \in Nat
    BY CellSizes DEF CellTypeOK, WindowOK, NRows, NCols
  <1> QED
    BY <1>1, <1>2, <1>3 DEF WindowOK, Rect

\* A rectangle zooms to the rows and columns under it.
LEMMA BoxIsZoomed ==
    ASSUME CellTypeOK, ReleaseBox
    PROVE  ZoomsToBox
  <1> DEFINE w    == image.window
             e    == Edges(box)
             rows == Covered(e.top, e.bottom, Drawable.h, NRows)
             cols == Covered(e.left, e.right, Drawable.w, NCols)
             z    == BoxWindow(box)
  <1>1. box # Nowhere /\ zoomed' = z
    BY DEF ReleaseBox
  <1>2. /\ NRows \in Nat \ {0} /\ NCols \in Nat \ {0}
        /\ Drawable.h \in Nat \ {0} /\ Drawable.w \in Nat \ {0}
        /\ e.top \in 0 .. e.bottom /\ e.bottom \in 0 .. Drawable.h - 1
        /\ e.left \in 0 .. e.right /\ e.right \in 0 .. Drawable.w - 1
    BY <1>1, EdgesInside, CellSizes, DrawnSizes
  <1>3. /\ rows.start \in 0 .. NRows - 1 /\ rows.end \in 1 .. NRows /\ rows.start < rows.end
        /\ \A i \in 0 .. NRows - 1 :
             /\ Inside(i, NRows, e.top, e.bottom, Drawable.h) => i \in rows.start .. rows.end - 1
             /\ i \in rows.start .. rows.end - 1 => Under(i, NRows, e.top, e.bottom, Drawable.h)
    BY <1>2, CoveredHolds
  <1>4. /\ cols.start \in 0 .. NCols - 1 /\ cols.end \in 1 .. NCols /\ cols.start < cols.end
        /\ \A i \in 0 .. NCols - 1 :
             /\ Inside(i, NCols, e.left, e.right, Drawable.w) => i \in cols.start .. cols.end - 1
             /\ i \in cols.start .. cols.end - 1 => Under(i, NCols, e.left, e.right, Drawable.w)
    BY <1>2, CoveredHolds
  <1>5. /\ z.r0 = w.r0 + IF plane.flip THEN NRows - rows.end ELSE rows.start
        /\ z.r1 = w.r0 + IF plane.flip THEN NRows - rows.start ELSE rows.end
        /\ z.c0 = w.c0 + cols.start /\ z.c1 = w.c0 + cols.end
    BY DEF BoxWindow, Rect
  <1>6. w.r0 \in Nat /\ w.c0 \in Nat
    BY DEF CellTypeOK, WindowOK
  <1> HIDE DEF e, rows, cols, z
  <1>7. /\ \A i \in 0 .. NRows - 1 :
             i \in rows.start .. rows.end - 1 <=> w.r0 + Mirrored(i, NRows) \in z.r0 .. z.r1 - 1
        /\ \A k \in z.r0 .. z.r1 - 1 :
             \E i \in rows.start .. rows.end - 1 : i \in 0 .. NRows - 1 /\ k = w.r0 + Mirrored(i, NRows)
    <2>1. CASE plane.flip
      <3>1. z.r0 = w.r0 + (NRows - rows.end) /\ z.r1 = w.r0 + (NRows - rows.start)
        BY <2>1, <1>5
      <3>2. \A i \in Int : Mirrored(i, NRows) = NRows - 1 - i
        BY <2>1 DEF Mirrored
      <3>3. ASSUME NEW k \in z.r0 .. z.r1 - 1
            PROVE  \E i \in rows.start .. rows.end - 1 :
                     i \in 0 .. NRows - 1 /\ k = w.r0 + Mirrored(i, NRows)
        <4>1. NRows - 1 - (k - w.r0) \in rows.start .. rows.end - 1
              /\ NRows - 1 - (k - w.r0) \in 0 .. NRows - 1
          BY <1>2, <1>3, <1>6, <3>1
        <4>2. k = w.r0 + Mirrored(NRows - 1 - (k - w.r0), NRows)
          BY <1>2, <1>6, <1>3, <3>1, <3>2, <4>1
        <4> QED
          BY <4>1, <4>2
      <3> QED
        BY <1>2, <1>3, <1>6, <3>1, <3>2, <3>3
    <2>2. CASE ~plane.flip
      <3>1. z.r0 = w.r0 + rows.start /\ z.r1 = w.r0 + rows.end
        BY <2>2, <1>5
      <3>2. \A i \in Int : Mirrored(i, NRows) = i
        BY <2>2 DEF Mirrored
      <3>3. ASSUME NEW k \in z.r0 .. z.r1 - 1
            PROVE  \E i \in rows.start .. rows.end - 1 :
                     i \in 0 .. NRows - 1 /\ k = w.r0 + Mirrored(i, NRows)
        <4>1. k - w.r0 \in rows.start .. rows.end - 1 /\ k - w.r0 \in 0 .. NRows - 1
              /\ k = w.r0 + Mirrored(k - w.r0, NRows)
          BY <1>2, <1>3, <1>6, <3>1, <3>2
        <4> QED
          BY <4>1
      <3> QED
        BY <1>2, <1>3, <1>6, <3>1, <3>2, <3>3
    <2> QED
      BY <2>1, <2>2
  <1>8. /\ RowsUnder(e, Inside) \subseteq z.r0 .. z.r1 - 1
        /\ z.r0 .. z.r1 - 1 \subseteq RowsUnder(e, Under)
        /\ z.r0 .. z.r1 - 1 # {}
    <2>1. RowsUnder(e, Inside) \subseteq z.r0 .. z.r1 - 1
      BY <1>3, <1>7 DEF RowsUnder
    <2>2. z.r0 .. z.r1 - 1 \subseteq RowsUnder(e, Under)
      BY <1>3, <1>7 DEF RowsUnder
    <2>3. z.r0 .. z.r1 - 1 # {}
      BY <1>3, <1>7
    <2> QED
      BY <2>1, <2>2, <2>3
  <1>9. /\ ColsUnder(e, Inside) \subseteq z.c0 .. z.c1 - 1
        /\ z.c0 .. z.c1 - 1 \subseteq ColsUnder(e, Under)
        /\ z.c0 .. z.c1 - 1 # {}
    <2>1. \A i \in 0 .. NCols - 1 :
             i \in cols.start .. cols.end - 1 <=> w.c0 + i \in z.c0 .. z.c1 - 1
      BY <1>2, <1>4, <1>5, <1>6
    <2>2. \A k \in z.c0 .. z.c1 - 1 :
             /\ k - w.c0 \in cols.start .. cols.end - 1 /\ k - w.c0 \in 0 .. NCols - 1
             /\ k = w.c0 + (k - w.c0)
      BY <1>2, <1>4, <1>5, <1>6
    <2>3. ColsUnder(e, Inside) \subseteq z.c0 .. z.c1 - 1
      BY <1>4, <2>1 DEF ColsUnder
    <2>4. z.c0 .. z.c1 - 1 \subseteq ColsUnder(e, Under)
      BY <1>4, <2>2 DEF ColsUnder
    <2>5. z.c0 .. z.c1 - 1 # {}
      BY <1>2, <1>4, <1>5, <1>6
    <2> QED
      BY <2>3, <2>4, <2>5
  <1> QED
    BY <1>1, <1>8, <1>9 DEF ZoomsToBox, e

-----------------------------------------------------------------------------
\* Steps

LEMMA InitCellInv == MapInit => CellInv
  <1> SUFFICES ASSUME MapInit PROVE CellInv
    OBVIOUS
  <1>1. WindowOK(image.window) /\ image.factor = 1
    <2>1. plane.rows \in Nat \ {0} /\ plane.cols \in Nat \ {0}
      BY PlaneAssumption DEF MapInit
    <2> QED
      BY <2>1 DEF MapInit, WindowOK, Whole, Rect
  <1>2. EncodedOK /\ PointerMeant
    BY DEF MapInit, EncodedOK, PointerMeant
  <1> QED
    BY <1>1, <1>2 DEF MapInit, CellInv, CellTypeOK

\* The picture to draw is determined by the image and the panel.
LEMMA PictureKept ==
    ASSUME UNCHANGED <<image, inner>>
    PROVE  PictureRows' = PictureRows /\ PictureCols' = PictureCols
  <1>1. SampleRows' = SampleRows /\ SampleCols' = SampleCols
    BY DEF NRows, NCols, SampleRows, SampleCols
  <1>2. PixelsHigh' = PixelsHigh /\ PixelsWide' = PixelsWide
    BY DEF PixelsHigh, PixelsWide
  <1> QED
    BY <1>1, <1>2 DEF RowsLimit, PictureRows, PictureCols

\* What the hit test finds is determined by the plane, the image, the panel
\* and the picture in it.
LEMMA FoundUnchanged ==
    ASSUME UNCHANGED <<plane, image, inner, graphics, encoded>> PROVE Found' = Found
  <1>1. NRows' = NRows /\ NCols' = NCols /\ SampleRows' = SampleRows /\ SampleCols' = SampleCols
    BY DEF NRows, NCols, SampleRows, SampleCols
  <1>2. PixelsHigh' = PixelsHigh /\ PixelsWide' = PixelsWide
    BY DEF PixelsHigh, PixelsWide
  <1>3. Drawable' = Drawable
    BY <1>1, <1>2 DEF Drawable, AreaOf
  <1>4. ASSUME NEW p PROVE CellUnder(p)' = CellUnder(p)
    BY <1>1, <1>3 DEF CellUnder, Places, Mirrored
  <1> QED BY <1>4 DEF Found

\* Every step keeps the types, and a pointer event is kept only as long as it
\* means the same cell.
LEMMA NextCellInv ==
    ASSUME CellInv, [MapNext]_cellVars PROVE CellInv' /\ [ZoomsToBox]_cellVars
  <1>0. CellTypeOK /\ PointerMeant
    BY DEF CellInv
  <1>1. /\ UNCHANGED <<plane, image, inner, graphics, encoded>> => EncodedOK'
        /\ Stale => EncodedOK'
    BY <1>0, PictureKept DEF Stale, CellTypeOK, EncodedOK
  <1>2. CASE ImageArrives
    <2>1. WindowOK(Whole) /\ plane.finer \in Nat \ {0}
      BY <1>0, CellSizes DEF WindowOK, Whole, Rect
    <2>2. image'.factor \in Nat \ {0} /\ WindowOK(image'.window)
      BY <1>0, <1>2, <2>1 DEF ImageArrives, CellTypeOK
    <2> QED
      BY <1>0, <1>1, <1>2, <2>2
         DEF ImageArrives, Forgotten, CellInv, CellTypeOK, PointerMeant, ZoomsToBox, WindowOK
  <1>9. CASE PictureEncoded
    <2>1. PictureRows' = PictureRows /\ PictureCols' = PictureCols
      BY <1>9, PictureKept DEF PictureEncoded
    <2>2. PictureRows \in Nat \ {0} /\ PictureCols \in Nat \ {0}
      BY <1>0, DrawnSizes, CellSizes
    <2>3. EncodedOK'
      BY <1>9, <2>1, <2>2 DEF PictureEncoded, Sized, EncodedOK
    <2> QED
      BY <1>0, <1>9, <2>3
         DEF PictureEncoded, Forgotten, CellInv, CellTypeOK, PointerMeant, ZoomsToBox, WindowOK
  <1>10. CASE PictureDropped
    <2>1. EncodedOK'
      BY <1>10 DEF PictureDropped, EncodedOK
    <2> QED
      BY <1>0, <1>10, <2>1
         DEF PictureDropped, Forgotten, CellInv, CellTypeOK, PointerMeant, ZoomsToBox, WindowOK
  <1>3. CASE ReleaseBox
    <2>1. WindowOK(zoomed') /\ ZoomsToBox
      BY <1>0, <1>1, <1>3, BoxWindowOK, BoxIsZoomed DEF ReleaseBox
    <2> QED
      BY <1>0, <1>1, <1>3, <2>1 DEF ReleaseBox, Forgotten, CellInv, CellTypeOK, PointerMeant, WindowOK
  <1>4. CASE ReleaseClick
    <2>1. box.end \in Positions
      BY <1>0, <1>4 DEF ReleaseClick, CellTypeOK
    <2>2. point' # Nowhere => point' \in [row : Int, col : Int]
      <3>1. CASE CellUnder(box.end) = Nowhere
        BY <1>0, <1>1, <1>4, <3>1 DEF ReleaseClick, CellTypeOK
      <3>2. CASE CellUnder(box.end) # Nowhere
        <4>1. box.end \in Places(Drawable)
          BY <3>2 DEF CellUnder
        <4>2. CellUnder(box.end) \in [row : Int, col : Int]
          BY <1>0, <4>1, SampleUnder
        <4>3. point' = CellUnder(box.end)
          BY <1>4, <3>2 DEF ReleaseClick
        <4> QED
          BY <4>2, <4>3
      <3> QED
        BY <3>1, <3>2
    <2>3. PointerMeant'
      BY <1>4, <2>1, FoundUnchanged DEF ReleaseClick, Pointed, PointerMeant, Found
    <2> QED
      BY <1>0, <1>1, <1>4, <2>2, <2>3 DEF ReleaseClick, CellInv, CellTypeOK, ZoomsToBox, WindowOK
  <1>5. CASE ShowWhole
    <2>1. PointerMeant'
      BY <1>0, <1>1, <1>5, FoundUnchanged DEF ShowWhole, PointerMeant
    <2> QED
      BY <1>0, <1>1, <1>5, <2>1 DEF ShowWhole, CellInv, CellTypeOK, ZoomsToBox, WindowOK
  <1>6. ASSUME NEW c \in Canvases, Resize(c) PROVE CellInv' /\ ZoomsToBox
    BY <1>0, <1>1, <1>6 DEF Resize, Forgotten, CellInv, CellTypeOK, PointerMeant, ZoomsToBox, WindowOK
  <1>7. ASSUME NEW p \in [x : 0 .. inner.w, y : 0 .. inner.h], Hover(p) \/ Drag(p) \/ Press(p)
        PROVE  CellInv' /\ ZoomsToBox
    <2>1. p \in Positions
      BY <1>0, CellSizes DEF Positions
    <2>2. CASE Hover(p)
      <3>1. PointerMeant'
        BY <2>1, <2>2, FoundUnchanged DEF Hover, Pointed, PointerMeant, Found
      <3> QED
        BY <1>0, <1>1, <2>2, <3>1 DEF Hover, CellInv, CellTypeOK, ZoomsToBox, WindowOK
    <2>3. CASE Drag(p)
      <3>1. PointerMeant'
        BY <1>0, <2>3, FoundUnchanged DEF Drag, PointerMeant
      <3>2. box' \in [start : Positions, end : Positions]
        BY <1>0, <2>1, <2>3 DEF Drag, CellTypeOK
      <3> QED
        BY <1>0, <1>1, <2>3, <3>1, <3>2 DEF Drag, CellInv, CellTypeOK, ZoomsToBox, WindowOK
    <2>4. CASE Press(p)
      BY <1>0, <1>1, <2>1, <2>4
         DEF Press, Forgotten, CellInv, CellTypeOK, PointerMeant, ZoomsToBox, WindowOK
    <2> QED
      BY <1>7, <2>2, <2>3, <2>4
  <1>8. CASE UNCHANGED cellVars
    <2>1. PointerMeant'
      BY <1>0, <1>1, <1>8, FoundUnchanged DEF cellVars, PointerMeant
    <2> QED
      BY <1>0, <1>1, <1>8, <2>1 DEF cellVars, CellInv, CellTypeOK, WindowOK
  <1> QED
    BY <1>2, <1>3, <1>4, <1>5, <1>6, <1>7, <1>8, <1>9, <1>10 DEF MapNext

\* Types of the map: windows lie in the plane and are not empty, and a pointer
\* event is remembered with what it meant over this image.
THEOREM MapTypeCorrect == CellSpec => []CellInv
  <1>1. CellInv /\ [MapNext]_cellVars => CellInv'
    BY NextCellInv
  <1> QED
    BY <1>1, InitCellInv, PTL DEF CellSpec

\* A click or a hover means data that is drawn under the pointer, for every size
\* of plane, panel and refinement.
THEOREM MapPointerOnItsCell == CellSpec => []PointerOnItsCell
  <1>1. CellInv => PointerOnItsCell
    <2> SUFFICES ASSUME CellInv, UpToDate, pointer # Nowhere, pointer.cell # Nowhere
                 PROVE  pointer.cell \in DrawnAt(pointer.at)
      BY DEF PointerOnItsCell
    <2>1. pointer.cell = CellUnder(pointer.at)
      BY DEF CellInv, PointerMeant, Found
    <2>2. pointer.at \in Places(Drawable)
      BY <2>1 DEF CellUnder
    <2> QED
      BY <2>1, <2>2, UnderIsDrawn DEF CellInv
  <1> QED
    BY <1>1, MapTypeCorrect, PTL

\* The diamond of a pinned point stands on the cell that shows it or just before.
THEOREM MapMarkerOnItsPoint == CellSpec => []MarkerOnItsPoint
  BY MarkerHolds, MapTypeCorrect, PTL

\* No sample is left out of a picture or counted twice.
THEOREM MapPictureIsWhole == CellSpec => []PictureIsWhole
  <1>1. CellInv => PictureIsWhole
    BY WholePicture DEF CellInv
  <1> QED
    BY <1>1, MapTypeCorrect, PTL

\* A rectangle zooms to exactly the rows and columns under it.
THEOREM MapZoomIsOfBox == CellSpec => ZoomIsOfBox
  <1>1. CellInv /\ [MapNext]_cellVars => [ZoomsToBox]_cellVars
    BY NextCellInv
  <1> QED
    BY <1>1, MapTypeCorrect, PTL DEF CellSpec, ZoomIsOfBox
=============================================================================
