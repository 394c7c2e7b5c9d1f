----------------------- MODULE BoundsResolutionProofs -----------------------
(***************************************************************************)
(* Proofs about BoundsResolution, CoordinateBounds and PlaneReads.         *)
(*                                                                         *)
(* The dialog and its resolvers, for every set of files and variables and  *)
(* every number of resolvers and generations.                              *)
(*                                                                         *)
(* IInv adds to the types that no request made since the last file switch  *)
(* carries a generation above the current one, and that such a request     *)
(* with the current generation is for the selected variable:               *)
(* select_variable draws a generation.  Of older requests nothing is said, *)
(* because the switch resets the counter.                                  *)
(*                                                                         *)
(* What a resolver answers, for every grid and every range of an           *)
(* assumption on their numbers: a window of samples within the range, or a *)
(* refusal that has a reason.                                              *)
(*                                                                         *)
(* The planes a reader is asked for, for every dataset: the slice held is  *)
(* of the view, cell by cell, as long as no two axes have one role         *)
(* (ReadsInv); its coordinates, those of a selected point and the curves  *)
(* of a map are of the same elements (PlotsInv).                           *)
(***************************************************************************)
EXTENDS BoundsResolution, CoordinateBounds, PlaneReads, Extrema, SequenceTheorems, FiniteSetTheorems, TLAPS

BoundsRequest == [generation : Nat, file : Files, variable : Variables, planes : Nat, draft : Nat,
            switch : Nat]

Typed ==
    /\ TypeOK
    /\ request \in Seq(BoundsRequest)
    /\ IsFiniteSet(pending)

CurrentIsOfSelection ==
    \A id \in Issued :
        /\ request[id].switch <= switches
        /\ request[id].switch = switches =>
             /\ request[id].generation <= generation
             /\ request[id].generation = generation =>
                  request[id].variable = variable /\ request[id].file = file

(* ----------------------------- type correctness ------------------------ *)

LEMMA InitTyped == Init => Typed
<1> SUFFICES ASSUME Init PROVE Typed
  OBVIOUS
<1>1. IsFiniteSet(pending) /\ Cardinality(pending) = 0
  BY FS_EmptySet DEF Init
<1> QED
  BY <1>1, BoundsAssumption DEF Init, Typed, TypeOK, Issued

\* A resolver's answer moves it from `pending` to the channel; a drained answer
\* leaves the channel; ApplyViewBounds adds one request and one resolver.
LEMMA NextTyped == Typed /\ [Next]_vars => Typed'
<1> SUFFICES ASSUME Typed, [Next]_vars PROVE Typed'
  OBVIOUS
<1> USE BoundsAssumption DEF Typed, Issued
<1>0. Len(request) \in Nat /\ DOMAIN request = 1..Len(request) /\ Len(channel) \in Nat
  BY LenProperties DEF TypeOK
<1>1. ASSUME NEW id \in Issued, Resolve(id) PROVE Typed'
  <2>1. id \in pending /\ pending' = pending \ {id}
    BY <1>1 DEF Resolve
  <2>2. IsFiniteSet(pending') /\ Cardinality(pending') = Cardinality(pending) - 1
    BY <2>1, FS_RemoveElement
  <2>3. PICK ok \in BOOLEAN : channel' = Append(channel, <<id, ok>>)
    BY <1>1 DEF Resolve
  <2>4. channel' \in Seq(Issued \X BOOLEAN) /\ Len(channel') = Len(channel) + 1
    BY <2>3 DEF TypeOK
  <2>5. Cardinality(pending) \in Nat
    BY FS_CardinalityType
  <2> QED
    BY <1>0, <1>1, <2>1, <2>2, <2>4, <2>5, SMTT(20) DEF Resolve, TypeOK
<1>2. CASE DrainBounds
  <2>1. channel # <<>> /\ channel' = Tail(channel)
    BY <1>2 DEF DrainBounds
  <2>2. /\ channel' \in Seq(Issued \X BOOLEAN)
        /\ Len(channel') = Len(channel) - 1
        /\ Head(channel) \in Issued \X BOOLEAN
    BY <2>1, HeadTailProperties DEF TypeOK
  <2>3. Head(channel)[1] \in Issued
    BY <2>2
  <2>4. /\ zoom' \in 0..Len(request)
        /\ draft' \in 0..drafts
        /\ overlay' \in {"none", "bounds", "palette"}
        /\ loads' \in 0..Len(request)
    BY <1>0, <1>2, <2>3, SMTT(30) DEF DrainBounds, TypeOK, LoadsAfterBounds
  <2>6. dismissed' \subseteq Issued
    BY <1>2 DEF DrainBounds, TypeOK, Awaited
  <2>5. Cardinality(pending) \in Nat
    BY FS_CardinalityType
  <2> QED
    BY <1>0, <1>2, <2>2, <2>4, <2>5, <2>6 DEF DrainBounds, TypeOK
<1>3. CASE ApplyViewBounds
  <2> DEFINE new == [generation |-> generation', file |-> file, variable |-> variable,
                     planes |-> planes, draft |-> draft, switch |-> switches]
             id == Len(request) + 1
  <2>1. request' = Append(request, new) /\ generation' = generation + 1
    BY <1>3 DEF ApplyViewBounds, NextBoundsGeneration
  <2>2. new \in BoundsRequest
    BY <2>1 DEF TypeOK, BoundsRequest
  <2>3. /\ request' \in Seq(BoundsRequest)
        /\ Len(request') = id
        /\ DOMAIN request' = 1..id
    BY <1>0, <2>1, <2>2
  <2>4. id \notin pending
    BY <1>0 DEF TypeOK
  <2>5. /\ IsFiniteSet(pending')
        /\ Cardinality(pending') = Cardinality(pending) + 1
        /\ pending' \subseteq 1..id
    <3>1. pending' = pending \cup {id}
      BY <1>3 DEF ApplyViewBounds
    <3>2. IsFiniteSet(pending') /\ Cardinality(pending') = Cardinality(pending) + 1
      BY <2>4, <3>1, FS_AddElement
    <3>3. pending \subseteq 1..Len(request)
      BY <1>0 DEF TypeOK
    <3>4. pending' \subseteq 1..id
      <4>1. \A x \in 1..Len(request) : x \in 1..id
        BY <1>0
      <4>2. id \in 1..id
        BY <1>0
      <4> QED
        BY <3>1, <3>3, <4>1, <4>2, Zenon
    <3> HIDE DEF id
    <3> QED
      BY <3>2, <3>4
  <2>6. channel' \in Seq((1..id) \X BOOLEAN)
    <3>1. (Issued \X BOOLEAN) \subseteq ((1..id) \X BOOLEAN)
      BY <1>0
    <3>2. channel' = channel /\ channel \in Seq(Issued \X BOOLEAN)
      BY <1>3 DEF ApplyViewBounds, Command, TypeOK
    <3>3. channel \in Seq((1..id) \X BOOLEAN)
      BY <3>1, <3>2, SeqMonotonic
    <3> QED
      BY <3>2, <3>3
  <2>7. Cardinality(pending) \in Nat
    BY FS_CardinalityType
  <2> QED
    BY <1>0, <1>3, <2>1, <2>3, <2>5, <2>6, <2>7 DEF ApplyViewBounds, Command, TypeOK
<1>4. CASE EndDrain
  <2>1. /\ UNCHANGED <<file, variable, planes, switches, request, pending, channel, dismissed>>
        /\ zoom' \in 0..Len(request) /\ loads' \in 0..Len(request)
        /\ ui' \in {"drain", "input"}
    BY <1>4 DEF EndDrain, Command, TypeOK
  <2>2. /\ drafts' \in 0..MaxResolvers /\ draft' \in 0..drafts'
        /\ generation' \in 0..MaxGeneration /\ overlay' \in {"none", "bounds", "palette"}
    BY <1>4 DEF EndDrain, Command, NextBoundsGeneration, TypeOK
  <2> QED
    BY <2>1, <2>2 DEF TypeOK
<1>8. CASE NoCommand
  <2>1. /\ UNCHANGED <<file, variable, planes, switches, request, pending, channel, dismissed>>
        /\ zoom' \in 0..Len(request) /\ loads' \in 0..Len(request)
        /\ ui' \in {"drain", "input"}
    BY <1>8 DEF NoCommand, Command, TypeOK
  <2>2. /\ drafts' \in 0..MaxResolvers /\ draft' \in 0..drafts'
        /\ generation' \in 0..MaxGeneration /\ overlay' \in {"none", "bounds", "palette"}
    BY <1>8 DEF NoCommand, Command, NextBoundsGeneration, TypeOK
  <2> QED
    BY <2>1, <2>2 DEF TypeOK
<1>9. CASE OpenViewBounds
  <2>1. /\ UNCHANGED <<file, variable, planes, switches, request, pending, channel, dismissed>>
        /\ zoom' \in 0..Len(request) /\ loads' \in 0..Len(request)
        /\ ui' \in {"drain", "input"}
    BY <1>9 DEF OpenViewBounds, Command, TypeOK
  <2>2. /\ drafts' \in 0..MaxResolvers /\ draft' \in 0..drafts'
        /\ generation' \in 0..MaxGeneration /\ overlay' \in {"none", "bounds", "palette"}
    BY <1>9 DEF OpenViewBounds, Command, NextBoundsGeneration, TypeOK
  <2> QED
    BY <2>1, <2>2 DEF TypeOK
<1>10. CASE CancelViewBounds
  <2>1. /\ UNCHANGED <<file, variable, planes, switches, request, pending, channel, dismissed>>
        /\ zoom' \in 0..Len(request) /\ loads' \in 0..Len(request)
        /\ ui' \in {"drain", "input"}
    BY <1>10 DEF CancelViewBounds, Command, TypeOK
  <2>2. /\ drafts' \in 0..MaxResolvers /\ draft' \in 0..drafts'
        /\ generation' \in 0..MaxGeneration /\ overlay' \in {"none", "bounds", "palette"}
    BY <1>10 DEF CancelViewBounds, Command, NextBoundsGeneration, TypeOK
  <2> QED
    BY <2>1, <2>2 DEF TypeOK
<1>5. CASE ClickOutside
  BY <1>5 DEF ClickOutside, Command, Awaited, TypeOK
<1>11. CASE OpenCommandPalette
  BY <1>11 DEF OpenCommandPalette, Command, Awaited, TypeOK
<1>6. CASE SelectVariable \/ ScrollBeneath
  BY <1>0, <1>6 DEF SelectVariable, ScrollBeneath, Command, NextBoundsGeneration, TypeOK
<1>12. CASE SetAxes
  BY <1>0, <1>12 DEF SetAxes, Command, NextBoundsGeneration, ZoomAfterAxes, TypeOK
<1>13. CASE SwitchFile
  BY <1>0, <1>13 DEF SwitchFile, Command, NextBoundsGeneration, ZoomAfterAxes, TypeOK
<1>7. CASE UNCHANGED vars
  BY <1>7 DEF vars, TypeOK
<1> QED
  BY <1>1, <1>2, <1>3, <1>4, <1>5, <1>6, <1>7, <1>8, <1>9, <1>10,
     <1>11, <1>12, <1>13 DEF Next, UI

LEMMA TypedInvariance == Spec => []Typed
  BY InitTyped, NextTyped, PTL DEF Spec

\* Type correctness, and every resolver answers at most once.
THEOREM BoundsTypeCorrect == Spec => []TypeOK
  BY TypedInvariance, PTL DEF Typed

(* ---------------------------- what is read ----------------------------- *)

\* A zoom that is set outside the dialog is the zoom of the last read.  Inside
\* the dialog the two agree as well, which is what makes the invariant inductive.
THEOREM BoundsZoomIsRead == Spec => []ZoomIsRead
<1> DEFINE Same == loads = zoom
<1>1. Init => Same
  BY DEF Init
<1>2. Typed /\ Same /\ [Next]_vars => Same'
  <2> SUFFICES ASSUME Typed, Same, [Next]_vars PROVE Same'
    OBVIOUS
  <2>1. CASE DrainBounds
    <3>1. Head(channel)[1] # 0
      <4>1. Head(channel) \in Issued \X BOOLEAN
        BY <2>1, HeadTailProperties DEF DrainBounds, Typed, TypeOK
      <4>2. Issued = 1..Len(request) /\ Len(request) \in Nat
        BY LenProperties DEF Typed, Issued
      <4> QED
        BY <4>1, <4>2
    <3> QED
      BY <2>1, <3>1 DEF DrainBounds, LoadsAfterBounds, Typed, TypeOK
  <2>2. CASE EndDrain \/ NoCommand \/ OpenViewBounds \/ ApplyViewBounds \/ CancelViewBounds
             \/ ClickOutside \/ OpenCommandPalette
    BY <2>2 DEF EndDrain, NoCommand, OpenViewBounds, ApplyViewBounds, CancelViewBounds,
       ClickOutside, OpenCommandPalette
  <2>3. CASE SelectVariable \/ ScrollBeneath \/ SetAxes \/ SwitchFile
    BY <2>3 DEF SelectVariable, ScrollBeneath, SetAxes, SwitchFile, ZoomAfterAxes
  <2>4. ASSUME NEW id \in Issued, Resolve(id) PROVE Same'
    BY <2>4 DEF Resolve
  <2>5. CASE UNCHANGED vars
    BY <2>5 DEF vars
  <2> QED
    BY <2>1, <2>2, <2>3, <2>4, <2>5 DEF Next, UI
<1>3. Same => ZoomIsRead
  BY DEF ZoomIsRead
<1> QED
  BY <1>1, <1>2, <1>3, TypedInvariance, PTL DEF Spec

(* -------------------------- what it applies to ------------------------- *)

LEMMA SelectionInvariance == Spec => [](CurrentIsOfSelection /\ ZoomIsOfSelection)
<1> DEFINE Inv == CurrentIsOfSelection /\ ZoomIsOfSelection
<1>1. Init => Inv
  BY DEF Init, CurrentIsOfSelection, ZoomIsOfSelection, Issued
<1>2. Typed /\ Inv /\ [Next]_vars => Inv'
  <2> SUFFICES ASSUME Typed, Inv, [Next]_vars PROVE Inv'
    OBVIOUS
  <2> USE DEF CurrentIsOfSelection, ZoomIsOfSelection
  <2>0. /\ Issued = 1..Len(request) /\ Len(request) \in Nat /\ generation \in Nat
        /\ zoom \in 0..Len(request) /\ switches \in Nat
        /\ \A id \in Issued : request[id] \in BoundsRequest
    BY LenProperties, ElementOfSeq DEF Typed, TypeOK, Issued
  <2>1. CASE DrainBounds
    <3>1. Head(channel)[1] \in Issued
      BY <2>1, HeadTailProperties DEF DrainBounds, Typed, TypeOK
    <3>2. UNCHANGED <<request, generation, variable, file, switches>>
      BY <2>1 DEF DrainBounds
    <3>3. zoom' = zoom \/ (zoom' = Head(channel)[1] /\ CurrentBounds(Head(channel)[1]))
      BY <2>1 DEF DrainBounds
    <3> QED
      BY <3>1, <3>2, <3>3 DEF CurrentBounds, Issued
  <2>2. CASE ApplyViewBounds
    <3> DEFINE new == [generation |-> generation', file |-> file, variable |-> variable,
                       planes |-> planes, draft |-> draft, switch |-> switches]
    <3>1. request' = Append(request, new) /\ generation' = generation + 1
      BY <2>2 DEF ApplyViewBounds, NextBoundsGeneration
    <3>2. Issued' = 1..(Len(request) + 1)
      BY <2>0, <3>1 DEF Typed, Issued
    <3>3. \A id \in Issued : request'[id] = request[id]
      BY <2>0, <3>1 DEF Typed
    <3>4. request'[Len(request) + 1] = new
      BY <2>0, <3>1 DEF Typed
    <3>5. UNCHANGED <<variable, file, zoom, switches>>
      BY <2>2 DEF ApplyViewBounds
    <3>6. \A id \in Issued : request[id].generation \in Nat /\ request[id].switch \in Nat
      BY <2>0 DEF BoundsRequest
    <3>7. CurrentIsOfSelection'
      BY <2>0, <3>1, <3>2, <3>3, <3>4, <3>5, <3>6
    <3>8. ZoomIsOfSelection'
      BY <2>0, <3>3, <3>5
    <3> QED
      BY <3>7, <3>8
  <2>3. CASE SelectVariable \/ ScrollBeneath \/ CancelViewBounds
    <3>1. \A id \in Issued : request[id].generation \in Nat
      BY <2>0 DEF BoundsRequest
    <3> QED
      BY <2>0, <2>3, <3>1 DEF SelectVariable, ScrollBeneath, CancelViewBounds, NextBoundsGeneration, Issued
  <2>4. CASE EndDrain \/ NoCommand \/ OpenViewBounds \/ ClickOutside \/ OpenCommandPalette
             \/ SetAxes
    BY <2>4 DEF EndDrain, NoCommand, OpenViewBounds, ClickOutside, OpenCommandPalette,
       SetAxes, ZoomAfterAxes, Issued
  <2>5. CASE SwitchFile
    <3>1. \A id \in Issued : request[id].switch \in Nat
      BY <2>0 DEF BoundsRequest
    <3>2. zoom' = 0 /\ switches' = switches + 1 /\ request' = request
      BY <2>5 DEF SwitchFile
    <3> QED
      BY <2>0, <3>1, <3>2 DEF Typed, TypeOK, Issued
  <2>6. ASSUME NEW id \in Issued, Resolve(id) PROVE Inv'
    BY <2>6 DEF Resolve, Issued
  <2>7. CASE UNCHANGED vars
    BY <2>7 DEF vars, Issued
  <2> QED
    BY <2>1, <2>2, <2>3, <2>4, <2>5, <2>6, <2>7 DEF Next, UI
<1> QED
  BY <1>1, <1>2, TypedInvariance, PTL DEF Spec

\* Between two file switches, resolved bounds are only ever applied to the
\* variable they were resolved for.
THEOREM BoundsZoomIsOfSelection == Spec => []ZoomIsOfSelection
  BY SelectionInvariance, PTL

(* ------------------------ which axes, which dialog ---------------------- *)

\* Each resolver answers once: its request is pending or one answer, not both.
AnswersOnce ==
    \A i \in 1..Len(channel) :
        /\ channel[i][1] \notin pending
        /\ \A j \in 1..Len(channel) : channel[i][1] = channel[j][1] => i = j

Unanswered == pending \cup {channel[i][1] : i \in 1..Len(channel)}

Due(id) ==
    /\ request[id].switch = switches
    /\ CurrentBounds(id)
    /\ id \notin dismissed

\* While an answer is wanted, the dialog it was asked from is still open and the
\* axes are those it was asked for: closing the dialog draws a generation or
\* dismisses the request, and the axes change only outside the dialog.
DueIsOfDialog ==
    \A id \in Unanswered :
        Due(id) => /\ overlay = "bounds"
                      /\ request[id].planes = planes /\ request[id].draft = draft

PlaneInv == CurrentIsOfSelection /\ AnswersOnce /\ DueIsOfDialog /\ ZoomIsOfPlane

\* The types of what Typed is about.
LEMMA PlainAnswers ==
    ASSUME Typed
    PROVE  /\ Len(request) \in Nat /\ Issued = 1..Len(request) /\ Len(channel) \in Nat
           /\ generation \in Nat /\ switches \in Nat /\ zoom \in 0..Len(request)
           /\ pending \subseteq Issued
           /\ channel \in Seq(Issued \X BOOLEAN)
           /\ \A i \in 1..Len(channel) : channel[i][1] \in Issued
           /\ \A id \in Issued : request[id].generation \in Nat /\ request[id].switch \in Nat
<1>1. channel \in Seq(Issued \X BOOLEAN)
  BY DEF Typed, TypeOK
<1>2. \A i \in 1..Len(channel) : channel[i][1] \in Issued
  BY <1>1, ElementOfSeq
<1>3. \A id \in Issued : request[id] \in BoundsRequest
  BY LenProperties, ElementOfSeq DEF Typed, Issued
<1>4. \A id \in Issued : request[id].generation \in Nat /\ request[id].switch \in Nat
  BY <1>3 DEF BoundsRequest
<1>5. Len(request) \in Nat /\ Issued = 1..Len(request) /\ Len(channel) \in Nat
  BY <1>1, LenProperties DEF Typed, Issued
<1>6. /\ generation \in Nat /\ switches \in Nat /\ zoom \in 0..Len(request)
      /\ pending \subseteq Issued
  BY BoundsAssumption DEF Typed, TypeOK
<1> QED
  BY <1>1, <1>2, <1>4, <1>5, <1>6

\* No step of the UI but an answer and a new request touches what is unanswered.
LEMMA SameUnanswered ==
    ASSUME AnswersOnce, UNCHANGED <<pending, channel>>
    PROVE  AnswersOnce' /\ Unanswered' = Unanswered
BY DEF AnswersOnce, Unanswered

\* Every step keeps the rectangle of a plane and the answer of its dialog.
LEMMA NextPlaneInv ==
    ASSUME Typed, PlaneInv, CurrentIsOfSelection', [Next]_vars
    PROVE  PlaneInv'
<1> USE DEF PlaneInv
<1>0. Unanswered \subseteq Issued
  BY PlainAnswers DEF Unanswered
<1>1. ASSUME NEW id \in Issued, Resolve(id) PROVE PlaneInv'
  <2>1. PICK ok \in BOOLEAN : channel' = Append(channel, <<id, ok>>)
    BY <1>1 DEF Resolve
  <2>2. id \in pending /\ pending' = pending \ {id}
    BY <1>1 DEF Resolve
  <2>3. /\ Len(channel') = Len(channel) + 1
        /\ \A i \in 1..Len(channel) : channel'[i] = channel[i]
        /\ channel'[Len(channel) + 1] = <<id, ok>>
    <3>1. <<id, ok>> \in Issued \X BOOLEAN
      BY <1>1
    <3> QED
      BY <2>1, <3>1, PlainAnswers, AppendProperties
  <2>4. AnswersOnce'
    <3>1. \A i \in 1..Len(channel') : i \in 1..Len(channel) \/ i = Len(channel) + 1
      BY <2>3, PlainAnswers
    <3>2. \A i \in 1..Len(channel) : channel'[i][1] = channel[i][1] /\ channel[i][1] # id
      BY <2>2, <2>3 DEF AnswersOnce
    <3>3. channel'[Len(channel) + 1][1] = id
      BY <2>3
    <3>4. ASSUME NEW i \in 1..Len(channel') PROVE channel'[i][1] \notin pending'
      BY <2>2, <3>1, <3>2, <3>3 DEF AnswersOnce
    <3>5. ASSUME NEW i \in 1..Len(channel'), NEW j \in 1..Len(channel'),
                 channel'[i][1] = channel'[j][1]
          PROVE  i = j
      BY <3>1, <3>2, <3>3, <3>5 DEF AnswersOnce
    <3> QED
      BY <3>4, <3>5 DEF AnswersOnce
  <2>5. Unanswered' \subseteq Unanswered
    <3>1. ASSUME NEW i \in 1..Len(channel') PROVE channel'[i][1] \in Unanswered
      <4>1. CASE i \in 1..Len(channel)
        <5>1. channel'[i][1] = channel[i][1]
          BY <2>3, <4>1
        <5> QED
          BY <4>1, <5>1 DEF Unanswered
      <4>2. CASE i = Len(channel) + 1
        <5>1. channel'[i][1] = id
          BY <2>3, <4>2
        <5> QED
          BY <2>2, <5>1 DEF Unanswered
      <4> QED
        BY <2>3, <4>1, <4>2, PlainAnswers
    <3>2. pending' \subseteq pending
      BY <2>2
    <3> QED
      BY <3>1, <3>2 DEF Unanswered
  <2>6. UNCHANGED <<request, switches, generation, dismissed, overlay, planes, draft, zoom>>
    BY <1>1 DEF Resolve
  <2> QED
    BY <2>4, <2>5, <2>6 DEF DueIsOfDialog, Due, CurrentBounds, ZoomIsOfPlane
<1>2. CASE DrainBounds
  <2> DEFINE id == Head(channel)[1]
             ok == Head(channel)[2]
  <2>1. /\ channel # <<>> /\ channel' = Tail(channel)
        /\ UNCHANGED <<request, switches, generation, planes, pending>>
    BY <1>2 DEF DrainBounds
  <2>2. /\ Len(channel) > 0 /\ Len(channel') = Len(channel) - 1
        /\ \A i \in 1..Len(channel') : channel'[i] = channel[i + 1]
        /\ Head(channel) = channel[1]
    BY <2>1, PlainAnswers, HeadTailProperties, EmptySeq
  <2>3. AnswersOnce'
    BY <2>1, <2>2, PlainAnswers DEF AnswersOnce
  <2>4. Unanswered' \subseteq Unanswered \ {id}
    BY <2>1, <2>2, PlainAnswers DEF AnswersOnce, Unanswered
  <2>5. id \in Unanswered
    BY <2>2, PlainAnswers DEF Unanswered
  <2>6. CASE ~CurrentBounds(id) \/ ~ok
    <3>1. UNCHANGED <<zoom, draft, overlay>> /\ dismissed \subseteq dismissed'
      BY <1>2, <2>6 DEF DrainBounds
    <3> QED
      BY <2>1, <2>3, <2>4, <3>1 DEF DueIsOfDialog, Due, CurrentBounds, ZoomIsOfPlane
  <2>7. CASE CurrentBounds(id) /\ ok
    <3>1. zoom' = id /\ dismissed' = dismissed \cup (Awaited \ {id})
      BY <1>2, <2>7 DEF DrainBounds
    <3>2. ASSUME NEW r \in Unanswered' PROVE ~Due(r)'
      <4>1. r \in Issued /\ r # id
        BY <1>0, <2>4
      <4>2. CurrentBounds(r)' => CurrentBounds(r)
        BY <2>1 DEF CurrentBounds
      <4> QED
        BY <3>1, <4>1, <4>2 DEF Due, Awaited
    <3>3. ZoomIsOfPlane'
      BY <2>1, <2>5, <2>7, <3>1 DEF ZoomIsOfPlane, DueIsOfDialog, Due
    <3> QED
      BY <2>3, <3>2, <3>3 DEF DueIsOfDialog
  <2> QED
    BY <2>6, <2>7
<1>3. CASE ApplyViewBounds
  <2> DEFINE new == [generation |-> generation', file |-> file, variable |-> variable,
                     planes |-> planes, draft |-> draft, switch |-> switches]
             last == Len(request) + 1
  <2>1. /\ request' = Append(request, new) /\ generation' = generation + 1
        /\ pending' = pending \cup {last}
        /\ overlay = "bounds"
        /\ UNCHANGED <<channel, overlay, planes, draft, zoom, switches, dismissed>>
    BY <1>3 DEF ApplyViewBounds, NextBoundsGeneration, Command
  <2>2. /\ \A id \in Issued : request'[id] = request[id]
        /\ request'[last] = new /\ last \notin Issued
    BY <2>1, PlainAnswers DEF Typed
  <2>3. AnswersOnce'
    BY <2>1, <2>2, PlainAnswers DEF AnswersOnce
  <2>4. Unanswered' = Unanswered \cup {last}
    BY <2>1 DEF Unanswered
  <2>5. ASSUME NEW id \in Unanswered PROVE ~Due(id)'
    <3>1. id \in Issued /\ request'[id] = request[id]
      BY <1>0, <2>2
    <3>2. request[id].switch = switches => request[id].generation <= generation
      BY <3>1 DEF CurrentIsOfSelection
    <3> QED
      BY <2>1, <3>1, <3>2, PlainAnswers DEF Due, CurrentBounds
  <2>6. request'[last].planes = planes' /\ request'[last].draft = draft' /\ overlay' = "bounds"
    BY <2>1, <2>2
  <2>7. DueIsOfDialog'
    BY <2>4, <2>5, <2>6 DEF DueIsOfDialog
  <2>8. ZoomIsOfPlane'
    BY <2>1, <2>2, PlainAnswers DEF ZoomIsOfPlane
  <2> QED
    BY <2>3, <2>7, <2>8
<1>4. CASE SelectVariable \/ ScrollBeneath \/ CancelViewBounds
  <2>1. /\ generation' = generation + 1
        /\ UNCHANGED <<request, switches, pending, channel, dismissed>>
        /\ zoom' = 0 \/ UNCHANGED <<zoom, planes>>
    BY <1>4 DEF SelectVariable, ScrollBeneath, CancelViewBounds, NextBoundsGeneration, Command
  <2>2. ASSUME NEW id \in Unanswered PROVE ~Due(id)'
    <3>1. id \in Issued
      BY <1>0
    <3>2. request[id].switch = switches => request[id].generation <= generation
      BY <3>1 DEF CurrentIsOfSelection
    <3> QED
      BY <2>1, <3>1, <3>2, PlainAnswers DEF Due, CurrentBounds
  <2>3. ZoomIsOfPlane'
    BY <2>1 DEF ZoomIsOfPlane
  <2> QED
    BY <2>1, <2>2, <2>3, SameUnanswered DEF DueIsOfDialog
<1>5. CASE ClickOutside \/ OpenCommandPalette
  <2>1. /\ dismissed' = dismissed \cup Awaited
        /\ UNCHANGED <<request, switches, generation, planes, zoom, pending, channel>>
    BY <1>5 DEF ClickOutside, OpenCommandPalette, Command
  <2>2. ASSUME NEW id \in Unanswered PROVE ~Due(id)'
    BY <1>0, <2>1 DEF Due, CurrentBounds, Awaited
  <2>3. ZoomIsOfPlane'
    BY <2>1 DEF ZoomIsOfPlane
  <2> QED
    BY <2>1, <2>2, <2>3, SameUnanswered DEF DueIsOfDialog
<1>6. CASE OpenViewBounds \/ SetAxes
  <2>1. /\ overlay # "bounds"
        /\ UNCHANGED <<request, switches, generation, dismissed, pending, channel>>
        /\ zoom' = 0 \/ UNCHANGED <<zoom, planes>>
    BY <1>6 DEF OpenViewBounds, SetAxes, ZoomAfterAxes, Command
  <2>2. ASSUME NEW id \in Unanswered PROVE ~Due(id)'
    BY <2>1 DEF DueIsOfDialog, Due, CurrentBounds
  <2>3. ZoomIsOfPlane'
    BY <2>1 DEF ZoomIsOfPlane
  <2> QED
    BY <2>1, <2>2, <2>3, SameUnanswered DEF DueIsOfDialog
<1>7. CASE SwitchFile
  <2>1. /\ switches' = switches + 1 /\ zoom' = 0
        /\ UNCHANGED <<request, pending, channel>>
    BY <1>7 DEF SwitchFile, Command
  <2>2. ASSUME NEW id \in Unanswered PROVE ~Due(id)'
    <3>1. request[id].switch <= switches /\ request[id].switch \in Nat
      BY <1>0, PlainAnswers DEF CurrentIsOfSelection
    <3> QED
      BY <2>1, <3>1, PlainAnswers DEF Due
  <2> QED
    BY <2>1, <2>2, SameUnanswered DEF DueIsOfDialog, ZoomIsOfPlane
<1>8. CASE EndDrain \/ NoCommand \/ UNCHANGED vars
  <2>1. UNCHANGED <<request, switches, generation, dismissed, overlay, planes, draft, zoom,
                    pending, channel>>
    BY <1>8 DEF EndDrain, NoCommand, vars
  <2> QED
    BY <2>1, SameUnanswered DEF DueIsOfDialog, Due, CurrentBounds, ZoomIsOfPlane
<1> QED
  BY <1>1, <1>2, <1>3, <1>4, <1>5, <1>6, <1>7, <1>8 DEF Next, UI

LEMMA PlaneInvariance == Spec => []PlaneInv
<1>1. Init => PlaneInv
  BY DEF Init, PlaneInv, CurrentIsOfSelection, AnswersOnce, DueIsOfDialog, Unanswered,
     ZoomIsOfPlane, Issued
<1>2. Typed /\ PlaneInv /\ CurrentIsOfSelection' /\ [Next]_vars => PlaneInv'
  BY NextPlaneInv
<1> QED
  BY <1>1, <1>2, TypedInvariance, SelectionInvariance, PTL DEF Spec

\* Unless its dialog was left by a click or covered, a zoom never lands on axes
\* it was not resolved for.
THEOREM BoundsZoomIsOfPlane == Spec => []ZoomIsOfPlane
  BY PlaneInvariance, PTL DEF PlaneInv

\* With the same exception, an answer closes only the dialog it was asked from.
THEOREM BoundsAnswerClosesItsDialog == Spec => AnswerClosesItsDialog
<1>1. ASSUME Typed, PlaneInv, DrainBounds, draft # 0, draft' = 0
      PROVE  LET id == Head(channel)[1]
             IN  \/ request[id].draft = draft
                 \/ request[id].switch # switches
                 \/ id \in dismissed
  <2> DEFINE id == Head(channel)[1]
  <2>1. CurrentBounds(id)
    BY <1>1 DEF DrainBounds
  <2>2. id \in Unanswered
    <3>1. channel # <<>>
      BY <1>1 DEF DrainBounds
    <3>2. 1 \in 1..Len(channel) /\ Head(channel) = channel[1]
      BY <1>1, <3>1, PlainAnswers, HeadTailProperties, EmptySeq
    <3> QED
      BY <3>2 DEF Unanswered
  <2> QED
    BY <1>1, <2>1, <2>2 DEF PlaneInv, DueIsOfDialog, Due
<1>2. Typed /\ PlaneInv /\ [Next]_vars
        => [DrainBounds /\ draft # 0 /\ draft' = 0 =>
              LET id == Head(channel)[1]
              IN  \/ request[id].draft = draft
                  \/ request[id].switch # switches
                  \/ id \in dismissed]_vars
  BY <1>1
<1> QED
  BY <1>2, TypedInvariance, PlaneInvariance, PTL DEF Spec, AnswerClosesItsDialog

(* ---------------------------- arithmetic of angles ---------------------- *)

\* Two angles are the same if they differ by whole turns.
Turns(a, b) == \E q \in Int : a - b = 360 * q

\* The remainder of a difference of angles is told by that of any angles equal to them.
LEMMA SameRemainder ==
    ASSUME NEW a \in Int, NEW b \in Int, NEW c \in Int, Turns(a, b + c), 0 <= c, c < 360
    PROVE  (a - b) % 360 = c
  BY DEF Turns

\* The remainder differs from the number by whole turns.
LEMMA RemainderTurns ==
    ASSUME NEW x \in Int
    PROVE  \E q \in Int : x = 360 * q + (x % 360)
<1>1. PICK q \in Int : q = x \div 360
  OBVIOUS
<1>2. 360 * q <= x /\ x < 360 * q + 360
  BY <1>1
<1>3. x % 360 = x - 360 * q
  BY <1>1, <1>2
<1>4. x = 360 * q + (x % 360)
  BY <1>3
<1> QED
  BY <1>4

InConvention(n, values) ==
    IF From0To360(values) THEN 0 <= n /\ n <= 360 ELSE -180 <= n /\ n <= 180

\* convert_longitude adds whole turns and arrives in the convention.
LEMMA ConvertedTurns ==
    ASSUME NEW v \in Int, NEW values
    PROVE  /\ Converted(v, From0To360(values)) \in Int /\ Turns(Converted(v, From0To360(values)), v)
           /\ InConvention(Converted(v, From0To360(values)), values)
<1>1. CASE From0To360(values) /\ v < 0
  <2> DEFINE rest == (v) % 360
  <2>1. v \in Int /\ rest \in 0 .. 359
    OBVIOUS
  <2>2. PICK q \in Int : v = 360 * q + rest
    BY <2>1, RemainderTurns
  <2>3. PICK c \in Int : c = Converted(v, From0To360(values)) /\ c = rest
    BY <1>1, <2>1 DEF Converted
  <2> HIDE DEF rest
  <2>4. c - v = 360 * (-q) /\ -q \in Int
    BY <2>1, <2>2, <2>3
  <2>5. Turns(c, v)
    BY <2>4 DEF Turns
  <2>6. 0 <= c /\ c <= 360
    BY <2>1, <2>3
  <2> QED
    BY <1>1, <2>3, <2>5, <2>6 DEF InConvention
<1>2. CASE From0To360(values) /\ v > 360
  <2> DEFINE rest == (v - 1) % 360
  <2>1. v - 1 \in Int /\ rest \in 0 .. 359
    OBVIOUS
  <2>2. PICK q \in Int : v - 1 = 360 * q + rest
    BY <2>1, RemainderTurns, ZenonT(30)
  <2>3. PICK c \in Int : c = Converted(v, From0To360(values)) /\ c = rest + 1
    BY <1>2, <2>1 DEF Converted
  <2> HIDE DEF rest
  <2>4. c - v = 360 * (-q) /\ -q \in Int
    BY <2>1, <2>2, <2>3
  <2>5. Turns(c, v)
    BY <2>4 DEF Turns
  <2>6. 0 <= c /\ c <= 360
    BY <2>1, <2>3
  <2> QED
    BY <1>2, <2>3, <2>5, <2>6 DEF InConvention
<1>3. CASE ~From0To360(values) /\ v < -180
  <2> DEFINE rest == (v + 180) % 360
  <2>1. v + 180 \in Int /\ rest \in 0 .. 359
    OBVIOUS
  <2>2. PICK q \in Int : v + 180 = 360 * q + rest
    BY <2>1, RemainderTurns
  <2>3. PICK c \in Int : c = Converted(v, From0To360(values)) /\ c = rest - 180
    BY <1>3, <2>1 DEF Converted
  <2> HIDE DEF rest
  <2>4. c - v = 360 * (-q) /\ -q \in Int
    BY <2>1, <2>2, <2>3
  <2>5. Turns(c, v)
    BY <2>4 DEF Turns
  <2>6. -180 <= c /\ c <= 180
    BY <2>1, <2>3
  <2> QED
    BY <1>3, <2>3, <2>5, <2>6 DEF InConvention
<1>4. CASE ~From0To360(values) /\ v > 180
  <2> DEFINE rest == (v - 181) % 360
  <2>1. v - 181 \in Int /\ rest \in 0 .. 359
    OBVIOUS
  <2>2. PICK q \in Int : v - 181 = 360 * q + rest
    BY <2>1, RemainderTurns, ZenonT(30)
  <2>3. PICK c \in Int : c = Converted(v, From0To360(values)) /\ c = rest - 179
    BY <1>4, <2>1 DEF Converted
  <2> HIDE DEF rest
  <2>4. c - v = 360 * (-q - 1) /\ -q - 1 \in Int
    BY <2>1, <2>2, <2>3
  <2>5. Turns(c, v)
    BY <2>4 DEF Turns
  <2>6. -180 <= c /\ c <= 180
    BY <2>1, <2>3
  <2> QED
    BY <1>4, <2>3, <2>5, <2>6 DEF InConvention
<1>5. CASE ~(From0To360(values) /\ v < 0) /\ ~(From0To360(values) /\ v > 360) /\ ~(~From0To360(values) /\ v < -180) /\ ~(~From0To360(values) /\ v > 180)
  <2>1. Converted(v, From0To360(values)) = v
    BY <1>5 DEF Converted
  <2>2. v - v = 360 * 0
    OBVIOUS
  <2> QED
    BY <2>1, <2>2, <1>5 DEF Turns, InConvention
<1> QED
  BY <1>1, <1>2, <1>3, <1>4, <1>5

\* Bounds that are on the globe are at most one turn away.
LEMMA ConvertedBound ==
    ASSUME NEW v \in Int, -180 <= v, v <= 360, NEW values
    PROVE  Converted(v, From0To360(values)) =
             IF From0To360(values) THEN IF v < 0 THEN v + 360 ELSE v
             ELSE IF v > 180 THEN v - 360 ELSE v
<1>1. CASE From0To360(values) /\ v < 0
  <2>1. v % 360 = v + 360
    <3>1. v = 360 * (-1) + (v + 360) /\ 0 <= v + 360 /\ v + 360 < 360
      BY <1>1
    <3> QED
      BY <3>1
  <2> QED
    BY <1>1, <2>1 DEF Converted
<1>2. CASE ~From0To360(values) /\ v > 180
  <2>1. (v - 181) % 360 = v - 181
    <3>1. 0 <= v - 181 /\ v - 181 < 360
      BY <1>2
    <3> QED
      BY <3>1
  <2> QED
    BY <1>2, <2>1 DEF Converted
<1>3. CASE ~(From0To360(values) /\ v < 0) /\ ~(~From0To360(values) /\ v > 180)
  <2>1. Converted(v, From0To360(values)) = v
    BY <1>3 DEF Converted
  <2> QED
    BY <2>1, <1>3
<1> QED
  BY <1>1, <1>2, <1>3

IsBounds(r) == r.min \in Int /\ r.max \in Int

OnGlobe(r) == IsBounds(r) /\ r.min <= r.max /\ -180 <= r.min /\ r.max <= 360

\* convert_range keeps the length of an interval that is shorter than a turn,
\* or empties it because the seam lies in it.
LEMMA ConvertedInterval ==
    ASSUME NEW r, OnGlobe(r), r.max - r.min < 360, NEW values,
           NEW i, i = ConvertedRange(r, From0To360(values))
    PROVE  /\ IsBounds(i) /\ Turns(i.min, r.min)
           /\ InConvention(i.min, values) /\ InConvention(i.max, values)
           /\ Ordered(i) => i.max - i.min = r.max - r.min
           /\ ~Ordered(i) => AcrossSeam(r, values)
<1> DEFINE low == Converted(r.min, From0To360(values))
           high == Converted(r.max, From0To360(values))
<1>1. low = IF From0To360(values) THEN IF r.min < 0 THEN r.min + 360 ELSE r.min
            ELSE IF r.min > 180 THEN r.min - 360 ELSE r.min
  BY ConvertedBound DEF OnGlobe, IsBounds
<1>2. high = IF From0To360(values) THEN IF r.max < 0 THEN r.max + 360 ELSE r.max
             ELSE IF r.max > 180 THEN r.max - 360 ELSE r.max
  BY ConvertedBound DEF OnGlobe, IsBounds
<1>3. /\ i.min = low
      /\ i.max = IF From0To360(values) /\ r.min < 0 /\ high = 0 THEN 360 ELSE high
  BY DEF ConvertedRange, OnGlobe, IsBounds
<1> HIDE DEF low, high
<1>4. r.min \in Int /\ r.max \in Int /\ r.min <= r.max /\ -180 <= r.min /\ r.max <= 360
  BY DEF OnGlobe, IsBounds
<1>5. \E q \in Int : i.min - r.min = 360 * q
  <2>1. i.min - r.min = 360 * 1 \/ i.min - r.min = 360 * 0 \/ i.min - r.min = 360 * (-1)
    BY <1>1, <1>3, <1>4
  <2> QED
    BY <2>1
<1>6. IsBounds(i)
  BY <1>1, <1>2, <1>3, <1>4 DEF IsBounds
<1>7. InConvention(i.min, values) /\ InConvention(i.max, values)
  BY <1>1, <1>2, <1>3, <1>4 DEF InConvention
<1>8. ASSUME i.min <= i.max PROVE i.max - i.min = r.max - r.min
  <2>1. CASE From0To360(values)
    BY <1>1, <1>2, <1>3, <1>4, <1>8, <2>1
  <2>2. CASE ~From0To360(values)
    BY <1>1, <1>2, <1>3, <1>4, <1>8, <2>2
  <2> QED
    BY <2>1, <2>2
<1>9. ASSUME ~(i.min <= i.max) PROVE AcrossSeam(r, values)
  <2>1. CASE From0To360(values)
    <3>1. r.min < 0 /\ 0 <= r.max
      BY <1>1, <1>2, <1>3, <1>4, <1>9, <2>1
    <3>2. 0 <= 0 - r.min /\ 0 - r.min < 360
      BY <1>4, <3>1
    <3>3. (0 - r.min) % 360 = 0 - r.min
      BY <1>4, <3>2
    <3> QED
      BY <1>4, <2>1, <3>1, <3>3 DEF AcrossSeam, Covers
  <2>2. CASE ~From0To360(values)
    <3>1. r.min <= 180 /\ 180 < r.max
      BY <1>1, <1>2, <1>3, <1>4, <1>9, <2>2
    <3>2. 0 <= 180 - r.min /\ 180 - r.min < 360
      BY <1>4, <3>1
    <3>3. (180 - r.min) % 360 = 180 - r.min
      BY <1>4, <3>2
    <3> QED
      BY <1>4, <2>2, <3>1, <3>3 DEF AcrossSeam, Covers
  <2> QED
    BY <2>1, <2>2
<1> QED
  BY <1>5, <1>6, <1>7, <1>8, <1>9 DEF Turns, Ordered
\* The reader of an interval and the user of it mean the same angles, but for
\* its two ends.
LEMMA WithinIsCovered ==
    ASSUME NEW r, OnGlobe(r), r.max - r.min <= 360, NEW values,
           NEW kind, kind = "lon", Ordered(Interval(r, kind, values)), NEW v \in Int, v # NoNumber
    PROVE  /\ Within(v, r, kind, values) => Covers(r, v, kind)
           /\ Inside(r, v, kind) => Within(v, r, kind, values)
<1>0. r.min \in Int /\ r.max \in Int /\ r.min <= r.max
  BY DEF OnGlobe, IsBounds
<1>1. PICK i : i = ConvertedRange(r, From0To360(values)) /\ i = Interval(r, kind, values)
  BY DEF Interval
<1>2. PICK n \in Int : /\ n = Converted(v, From0To360(values)) /\ Turns(n, v)
                       /\ InConvention(n, values)
  BY ConvertedTurns
<1>3. Within(v, r, kind, values) <=> i.min <= n /\ n <= i.max
  BY <1>1, <1>2 DEF Within
<1>4. PICK d \in 0 .. 359 : d = (v - r.min) % 360
  BY <1>0
<1>5. PICK k \in Int : v - r.min = 360 * k + d
  <2>1. v - r.min \in Int
    BY <1>0
  <2> QED
    BY <2>1, <1>4, RemainderTurns
<1>6. Covers(r, v, kind) <=> d <= r.max - r.min
  BY <1>4 DEF Covers
<1>7. Inside(r, v, kind) <=> d <= r.max - r.min /\ d # 0 /\ d # (r.max - r.min) % 360
  BY <1>4 DEF Inside, Covers
<1>8. CASE r.max - r.min = 360
  <2>1. i = IF From0To360(values) THEN [min |-> 0, max |-> 360] ELSE [min |-> -180, max |-> 180]
    BY <1>1, <1>8 DEF ConvertedRange
  <2>2. i.min <= n /\ n <= i.max
    BY <2>1, <1>2 DEF InConvention
  <2> QED
    BY <2>2, <1>3, <1>4, <1>6, <1>8
<1>9. CASE r.max - r.min < 360
  <2>1. /\ i.min \in Int /\ i.max \in Int /\ Turns(i.min, r.min)
        /\ InConvention(i.min, values) /\ InConvention(i.max, values)
        /\ i.max - i.min = r.max - r.min
    <3>1. Ordered(i)
      BY <1>1
    <3>2. /\ IsBounds(i) /\ Turns(i.min, r.min)
          /\ InConvention(i.min, values) /\ InConvention(i.max, values)
          /\ Ordered(i) => i.max - i.min = r.max - r.min
      BY <1>1, <1>9, ConvertedInterval
    <3> QED
      BY <3>1, <3>2 DEF IsBounds
  <2>2. PICK a \in Int, b \in Int : n - v = 360 * a /\ i.min - r.min = 360 * b
    BY <1>2, <2>1 DEF Turns
  <2>3. n - i.min = (n - v) + (v - r.min) - (i.min - r.min)
    BY <1>0, <2>1
  <2>4. PICK m \in Int : m = a + k - b
    OBVIOUS
  <2>5. n - i.min = 360 * m + d
    <3>1. n - i.min = 360 * a + (360 * k + d) - 360 * b
      BY <2>2, <2>3, <1>5
    <3> QED
      BY <3>1, <2>4
  <2>6. ASSUME i.min <= n, n <= i.max PROVE d <= r.max - r.min
    <3>1. m = 0
      BY <1>0, <1>4, <1>9, <2>1, <2>5, <2>6
    <3> QED
      BY <3>1, <1>0, <1>2, <1>4, <2>1, <2>5, <2>6
  <2>7. ASSUME d <= r.max - r.min, d # 0, d # (r.max - r.min) % 360 PROVE i.min <= n /\ n <= i.max
    <3>1. (r.max - r.min) % 360 = r.max - r.min
      BY <1>0, <1>9
    <3>2. i.max - i.min = r.max - r.min /\ 0 < d /\ d < r.max - r.min
      BY <1>0, <1>4, <2>1, <2>7, <3>1
    <3>3. m = 0
      <4>1. CASE From0To360(values)
        <5>1. 0 <= n /\ n <= 360 /\ 0 <= i.min /\ i.max <= 360
          BY <4>1, <1>2, <2>1 DEF InConvention
        <5> QED
          BY <5>1, <1>0, <1>2, <1>4, <2>1, <2>5, <3>2
      <4>2. CASE ~From0To360(values)
        <5>1. -180 <= n /\ n <= 180 /\ -180 <= i.min /\ i.max <= 180
          BY <4>2, <1>2, <2>1 DEF InConvention
        <5> QED
          BY <5>1, <1>0, <1>2, <1>4, <2>1, <2>5, <3>2
      <4> QED
        BY <4>1, <4>2
    <3> QED
      BY <3>2, <3>3, <1>0, <1>2, <1>4, <2>1, <2>5
  <2> QED
    BY <2>6, <2>7, <1>3, <1>6, <1>7
<1> QED
  BY <1>0, <1>8, <1>9
\* An interval that is accepted for an axis or a grid: what is taken lies in it
\* and what lies in it beyond doubt is taken.
LEMMA AcceptableIsRead ==
    ASSUME NEW r, IsBounds(r), NEW kind \in {"lon", "lat", "linear"}, NEW values,
           Acceptable(r, kind, values), NEW v \in Int, v # NoNumber
    PROVE  /\ Within(v, r, kind, values) => Covers(r, v, kind)
           /\ Inside(r, v, kind) => Within(v, r, kind, values)
<1>1. CASE kind = "lon"
  <2>1. OnGlobe(r) /\ r.max - r.min <= 360 /\ Ordered(Interval(r, kind, values))
    BY <1>1 DEF Acceptable, Ordered, Physical, OnGlobe
  <2> QED
    BY <2>1, <1>1, WithinIsCovered
<1>2. CASE kind # "lon"
  BY <1>2 DEF Within, Interval, Covers, Inside
<1> QED
  BY <1>1, <1>2

\* An interval that is not accepted is foolish or has the seam in it.
LEMMA RefusedInterval ==
    ASSUME NEW r, IsBounds(r), NEW kind \in {"lon", "lat", "linear"}, NEW values,
           ~Acceptable(r, kind, values)
    PROVE  Foolish(r, kind) \/ (kind = "lon" /\ AcrossSeam(r, values))
<1>1. ASSUME ~Foolish(r, kind) PROVE kind = "lon" /\ AcrossSeam(r, values)
  <2>1. Ordered(r) /\ Physical(r, kind) /\ (kind = "lon" => r.max - r.min <= 360)
    BY <1>1 DEF Foolish, Physical, IsBounds
  <2>2. ~Ordered(Interval(r, kind, values))
    BY <2>1 DEF Acceptable
  <2>3. kind = "lon"
    BY <2>1, <2>2 DEF Interval
  <2>4. OnGlobe(r)
    BY <2>1, <2>3 DEF OnGlobe, Ordered, Physical
  <2>5. PICK i : i = ConvertedRange(r, From0To360(values)) /\ i = Interval(r, kind, values)
    BY <2>3 DEF Interval
  <2>6. r.max - r.min # 360
    <3>1. r.max - r.min = 360 => i = IF From0To360(values) THEN [min |-> 0, max |-> 360]
                                                           ELSE [min |-> -180, max |-> 180]
      BY <2>5 DEF ConvertedRange
    <3> QED
      BY <3>1, <2>2, <2>5 DEF Ordered
  <2>7. r.max - r.min < 360
    BY <2>1, <2>3, <2>6 DEF IsBounds
  <2> QED
    BY <2>2, <2>3, <2>4, <2>5, <2>7, ConvertedInterval
<1> QED
  BY <1>1, Zenon

(* -------------------------------- extrema ------------------------------- *)

\* A span around a nonempty finite set of indices.
LEMMA SpanBounds ==
    ASSUME NEW S, S \subseteq Nat, IsFiniteSet(S), S # {}
    PROVE  /\ Span(S) \in [start : Nat, end : Nat]
           /\ {Span(S).start, Span(S).end - 1} \subseteq S
           /\ S \subseteq Span(S).start .. Span(S).end - 1
<1>1. Min(S) \in S /\ \A y \in S : Min(S) <= y
  <2>1. \E x \in S : \A y \in S : x <= y
    BY LeastNatural
  <2> QED
    BY <2>1 DEF Min
<1>2. Max(S) \in S /\ \A y \in S : Max(S) >= y
  <2> DEFINE f == [x \in S |-> x]
  <2>1. \A x \in S : f[x] \in Int
    OBVIOUS
  <2> HIDE DEF f
  <2>2. \E x \in S : \A y \in S : f[x] >= f[y]
    BY <2>1, FiniteMaximum
  <2>3. \E x \in S : \A y \in S : x >= y
    BY <2>2 DEF f
  <2> QED
    BY <2>3 DEF Max
<1>3. Min(S) \in Nat /\ Max(S) \in Nat
  BY <1>1, <1>2
<1>4. Span(S).start = Min(S) /\ Span(S).end = Max(S) + 1 /\ Span(S).end - 1 = Max(S)
  BY <1>3 DEF Span
<1>5. Span(S) \in [start : Nat, end : Nat]
  BY <1>3 DEF Span
<1>6. \A y \in S : y \in Min(S) .. Max(S)
  BY <1>1, <1>2, <1>3
<1> QED
  BY <1>1, <1>2, <1>4, <1>5, <1>6
Kinds == {"lon", "lat", "linear"}

\* the samples of an axis are some of its indices
LEMMA SamplesAreIndices ==
    ASSUME NEW axis, IsAxis(axis), NEW r, NEW kind
    PROVE  /\ Samples(axis, kind, r) \subseteq 0 .. axis.length - 1
           /\ Samples(axis, kind, r) \subseteq Nat
           /\ IsFiniteSet(Samples(axis, kind, r))
<1>1. Samples(axis, kind, r) \subseteq 0 .. axis.length - 1
  BY DEF Samples
<1>2. axis.length \in Nat
  BY DEF IsAxis
<1>3. IsFiniteSet(0 .. axis.length - 1)
  BY <1>2, FS_Interval
<1>4. 0 .. axis.length - 1 \subseteq Nat
  BY <1>2
<1> QED
  BY <1>1, <1>3, <1>4, FS_Subset

\* a sample that is taken has a coordinate between the bounds, and one with a
\* coordinate between them beyond doubt is taken
LEMMA SamplesAreOfBounds ==
    ASSUME NEW axis, IsAxis(axis), NEW r, IsBounds(r), NEW kind \in Kinds,
           axis.values = << >> \/ kind = axis.role,
           axis.values # << >> => Acceptable(r, kind, Numbers(axis))
    PROVE  /\ \A i \in Samples(axis, kind, r) : Covers(r, Coordinate(axis, i), Meant(axis))
           /\ Interior(axis, r) \subseteq Samples(axis, kind, r)
<1>1. CASE axis.values = << >>
  BY <1>1 DEF Samples, Coordinate, Meant, Covers, Inside, Interior, IsBounds
<1>2. CASE axis.values # << >>
  <2>1. /\ axis.length \in Nat /\ Len(axis.values) = axis.length
        /\ \A i \in 0 .. axis.length - 1 : axis.values[i + 1] \in Int \cup {NoNumber}
    BY <1>2 DEF IsAxis
  <2>2. Meant(axis) = kind
    BY <1>2 DEF Meant
  <2>3. ASSUME NEW i \in 0 .. axis.length - 1, NEW v, v = axis.values[i + 1], v # NoNumber
        PROVE  /\ v \in Int /\ Coordinate(axis, i) = v
               /\ Within(v, r, kind, Numbers(axis)) => Covers(r, v, kind)
               /\ Inside(r, v, kind) => Within(v, r, kind, Numbers(axis))
    <3>1. v \in Int
      BY <2>1, <2>3
    <3>2. Coordinate(axis, i) = v
      BY <1>2, <2>3 DEF Coordinate
    <3> QED
      BY <1>2, <2>3, <3>1, <3>2, AcceptableIsRead DEF Kinds
  <2>4. Samples(axis, kind, r) =
          {i \in 0 .. axis.length - 1 : Within(axis.values[i + 1], r, kind, Numbers(axis))}
    BY <1>2 DEF Samples
  <2>5. ASSUME NEW i \in Samples(axis, kind, r) PROVE Covers(r, Coordinate(axis, i), Meant(axis))
    <3>1. i \in 0 .. axis.length - 1 /\ Within(axis.values[i + 1], r, kind, Numbers(axis))
      BY <2>4
    <3>2. axis.values[i + 1] # NoNumber
      BY <3>1 DEF Within
    <3> QED
      BY <2>2, <2>3, <3>1, <3>2
  <2>6. ASSUME NEW i \in Interior(axis, r) PROVE i \in Samples(axis, kind, r)
    <3>1. /\ i \in 0 .. axis.length - 1 /\ Coordinate(axis, i) # NoNumber
          /\ Inside(r, Coordinate(axis, i), kind)
      BY <2>2 DEF Interior
    <3>2. Coordinate(axis, i) = axis.values[i + 1]
      BY <1>2 DEF Coordinate
    <3> QED
      BY <2>3, <2>4, <3>1, <3>2
  <2> QED
    BY <2>5, <2>6
<1> QED
  BY <1>1, <1>2

\* A range an axis accepts has samples on it.
LEMMA AcceptedSamples ==
    ASSUME NEW axis, IsAxis(axis), NEW r, IsBounds(r), NEW kind,
           AxisAccepts(axis, kind, r)
    PROVE  Samples(axis, kind, r) # {}
<1>1. CASE axis.values = << >>
  <2>1. r.min \in 0 .. axis.length - 1 /\ r.min <= r.max
    BY <1>1 DEF AxisAccepts, Ordered, IsBounds, IsAxis
  <2>2. r.min \in Samples(axis, kind, r)
    BY <1>1, <2>1 DEF Samples
  <2> QED
    BY <2>2
<1>2. CASE axis.values # << >>
  BY <1>2 DEF AxisAccepts
<1> QED
  BY <1>1, <1>2

\* The window of an accepted axis holds the samples of its range.
LEMMA AcceptedAxis ==
    ASSUME NEW axis, IsAxis(axis), NEW r, IsBounds(r), NEW kind \in Kinds,
           axis.values = << >> \/ kind = axis.role,
           AxisAccepts(axis, kind, r)
    PROVE  IsSpanOf(Span(Samples(axis, kind, r)), axis, r)
<1>1. Samples(axis, kind, r) # {}
  BY AcceptedSamples
<1>2. axis.values # << >> => Acceptable(r, kind, Numbers(axis))
  BY DEF AxisAccepts
<1>3. PICK span : span = Span(Samples(axis, kind, r))
  OBVIOUS
<1>4. /\ {span.start, span.end - 1} \subseteq Samples(axis, kind, r)
      /\ Samples(axis, kind, r) \subseteq span.start .. span.end - 1
  BY <1>1, <1>3, SamplesAreIndices, SpanBounds
<1>5. /\ \A i \in Samples(axis, kind, r) : Covers(r, Coordinate(axis, i), Meant(axis))
      /\ Interior(axis, r) \subseteq Samples(axis, kind, r)
  BY <1>2, SamplesAreOfBounds
<1> QED
  BY <1>3, <1>4, <1>5 DEF IsSpanOf, EdgesCovered, Cuts

\* An axis refuses a range for a reason: foolish, or nothing of the axis within.
LEMMA RefusedAxis ==
    ASSUME NEW axis, IsAxis(axis), NEW r, IsBounds(r), NEW kind \in Kinds,
           axis.values = << >> \/ kind = axis.role,
           ~AxisAccepts(axis, kind, r)
    PROVE  AxisRefuses(axis, r)
<1>1. CASE axis.values = << >>
  BY <1>1 DEF AxisAccepts, AxisRefuses, Foolish, IsBounds, IsAxis
<1>2. CASE axis.values # << >> /\ ~Acceptable(r, kind, Numbers(axis))
  <2>1. Meant(axis) = kind
    BY <1>2 DEF Meant
  <2>2. Foolish(r, kind) \/ (kind = "lon" /\ AcrossSeam(r, Numbers(axis)))
    BY <1>2, RefusedInterval DEF Kinds
  <2> QED
    BY <2>1, <2>2 DEF AxisRefuses
<1>3. CASE axis.values # << >> /\ Acceptable(r, kind, Numbers(axis))
  <2>1. Samples(axis, kind, r) = {}
    BY <1>3 DEF AxisAccepts
  <2>2. Interior(axis, r) \subseteq Samples(axis, kind, r)
    BY <1>3, SamplesAreOfBounds
  <2> QED
    BY <2>1, <2>2 DEF AxisRefuses
<1> QED
  BY <1>1, <1>2, <1>3
(* --------------------------- the 2-D coordinates ------------------------ *)

\* What is taken of 2-D coordinates lies between the bounds, and what lies
\* between them beyond doubt is taken.
LEMMA PointsAreOfBounds ==
    ASSUME grid \in Grids, grid.points # NoNumber, NEW r, IsBounds(r.x), IsBounds(r.y),
           Acceptable(r.x, "lon", Longitudes), Acceptable(r.y, "lat", Latitudes)
    PROVE  PointsInside(r) \subseteq PointsWithin(r) /\ PointsWithin(r) \subseteq PointsCovered(r)
<1>1. ASSUME NEW p \in DOMAIN grid.points, NEW lon, lon = grid.points[p].lon, lon # NoNumber
      PROVE  /\ lon \in Int
             /\ Within(lon, r.x, "lon", Longitudes) => Covers(r.x, lon, "lon")
             /\ Inside(r.x, lon, "lon") => Within(lon, r.x, "lon", Longitudes)
  <2>1. lon \in Int
    BY <1>1, GridAssumption
  <2>2. "lon" \in {"lon", "lat", "linear"}
    OBVIOUS
  <2> QED
    BY <1>1, <2>1, <2>2, AcceptableIsRead
<1>2. ASSUME NEW p \in DOMAIN grid.points, NEW lat, lat = grid.points[p].lat, lat # NoNumber
      PROVE  /\ lat \in Int
             /\ Within(lat, r.y, "lat", Latitudes) => Covers(r.y, lat, "lat")
             /\ Covers(r.y, lat, "lat") => Within(lat, r.y, "lat", Latitudes)
  <2>1. lat \in Int
    BY <1>2, GridAssumption
  <2>2. Within(lat, r.y, "lat", Latitudes) <=> r.y.min <= lat /\ lat <= r.y.max
    BY <1>2 DEF Within, Interval
  <2>3. Covers(r.y, lat, "lat") <=> r.y.min <= lat /\ lat <= r.y.max
    BY DEF Covers
  <2> QED
    BY <2>1, <2>2, <2>3
<1>3. ASSUME NEW p \in PointsWithin(r) PROVE p \in PointsCovered(r)
  <2>1. /\ p \in DOMAIN grid.points
        /\ Within(grid.points[p].lon, r.x, "lon", Longitudes)
        /\ Within(grid.points[p].lat, r.y, "lat", Latitudes)
    BY DEF PointsWithin
  <2>2. grid.points[p].lon # NoNumber /\ grid.points[p].lat # NoNumber
    BY <2>1 DEF Within
  <2> QED
    BY <1>1, <1>2, <2>1, <2>2 DEF PointsCovered
<1>4. ASSUME NEW p \in PointsInside(r) PROVE p \in PointsWithin(r)
  <2>1. /\ p \in DOMAIN grid.points
        /\ grid.points[p].lon # NoNumber /\ grid.points[p].lat # NoNumber
        /\ Covers(r.y, grid.points[p].lat, "lat")
        /\ Inside(r.x, grid.points[p].lon, "lon")
    BY DEF PointsInside, PointsCovered
  <2> QED
    BY <1>1, <1>2, <2>1 DEF PointsWithin
<1> QED
  BY <1>3, <1>4

\* the window of 2-D coordinates
LEMMA EnvelopeIsOfPoints ==
    ASSUME grid \in Grids, grid.points # NoNumber, NEW r, IsBounds(r.x), IsBounds(r.y),
           Acceptable(r.x, "lon", Longitudes), Acceptable(r.y, "lat", Latitudes),
           PointsWithin(r) # {}
    PROVE  /\ IsEnvelope(Envelope(r), r)
           /\ Envelope(r) \in [rows : [start : Nat, end : Nat], cols : [start : Nat, end : Nat]]
<1> DEFINE rows == {p[1] : p \in PointsWithin(r)}
           cols == {p[2] : p \in PointsWithin(r)}
<1>1. Envelope(r) = [rows |-> Span(rows), cols |-> Span(cols)]
  BY DEF Envelope
<1>2. IsFiniteSet(PointsWithin(r))
  <2>1. IsFiniteSet(DOMAIN grid.points)
    BY GridAssumption
  <2> QED
    BY <2>1, FS_Subset DEF PointsWithin
<1>3. rows \subseteq Nat /\ cols \subseteq Nat
  BY GridAssumption DEF PointsWithin
<1>4. IsFiniteSet(rows) /\ IsFiniteSet(cols)
  <2> DEFINE row == [p \in PointsWithin(r) |-> p[1]]
             col == [p \in PointsWithin(r) |-> p[2]]
  <2>1. row \in Surjection(PointsWithin(r), rows) /\ col \in Surjection(PointsWithin(r), cols)
    BY DEF Surjection
  <2> HIDE DEF row, col, rows, cols
  <2> QED
    BY <1>2, <2>1, FS_Surjection
<1>5. rows # {} /\ cols # {}
  OBVIOUS
<1>6. PointsInside(r) \subseteq PointsWithin(r) /\ PointsWithin(r) \subseteq PointsCovered(r)
  BY PointsAreOfBounds
<1>7. /\ \A p \in PointsInside(r) : p[1] \in rows /\ p[2] \in cols
      /\ rows \subseteq {p[1] : p \in PointsCovered(r)}
      /\ cols \subseteq {p[2] : p \in PointsCovered(r)}
  BY <1>6
<1> HIDE DEF rows, cols
<1>8. /\ Span(rows) \in [start : Nat, end : Nat]
      /\ {Span(rows).start, Span(rows).end - 1} \subseteq rows
      /\ rows \subseteq Span(rows).start .. Span(rows).end - 1
  BY <1>3, <1>4, <1>5, SpanBounds
<1>9. /\ Span(cols) \in [start : Nat, end : Nat]
      /\ {Span(cols).start, Span(cols).end - 1} \subseteq cols
      /\ cols \subseteq Span(cols).start .. Span(cols).end - 1
  BY <1>3, <1>4, <1>5, SpanBounds
<1>10. Envelope(r).rows = Span(rows) /\ Envelope(r).cols = Span(cols)
  BY <1>1
<1>11. ASSUME NEW p \in PointsInside(r)
       PROVE  Cuts(Envelope(r).rows, {p[1]}) /\ Cuts(Envelope(r).cols, {p[2]})
  BY <1>7, <1>8, <1>9, <1>10 DEF Cuts
<1>12. /\ {Envelope(r).rows.start, Envelope(r).rows.end - 1} \subseteq {p[1] : p \in PointsCovered(r)}
       /\ {Envelope(r).cols.start, Envelope(r).cols.end - 1} \subseteq {p[2] : p \in PointsCovered(r)}
  <2>1. {Span(rows).start, Span(rows).end - 1} \subseteq {p[1] : p \in PointsCovered(r)}
    BY <1>7, <1>8, Zenon
  <2>2. {Span(cols).start, Span(cols).end - 1} \subseteq {p[2] : p \in PointsCovered(r)}
    BY <1>7, <1>9, Zenon
  <2> QED
    BY <1>10, <2>1, <2>2
<1>13. IsEnvelope(Envelope(r), r)
  BY <1>11, <1>12 DEF IsEnvelope
<1> QED
  BY <1>1, <1>8, <1>9, <1>13

\* Two-dimensional coordinates refuse what is no range of degrees.
LEMMA RefusedPoints ==
    ASSUME grid \in Grids, grid.points # NoNumber, NEW r, IsBounds(r.x), IsBounds(r.y),
           Envelope(r) = Error
    PROVE  \/ Foolish(r.x, "lon") \/ Foolish(r.y, "lat")
           \/ AcrossSeam(r.x, Longitudes)
           \/ PointsInside(r) = {}
<1>1. "lon" \in {"lon", "lat", "linear"} /\ "lat" \in {"lon", "lat", "linear"} /\ "lat" # "lon"
  OBVIOUS
<1>2. CASE ~Acceptable(r.x, "lon", Longitudes)
  <2>1. Foolish(r.x, "lon") \/ ("lon" = "lon" /\ AcrossSeam(r.x, Longitudes))
    BY <1>1, <1>2, RefusedInterval
  <2> QED
    BY <2>1
<1>3. CASE ~Acceptable(r.y, "lat", Latitudes)
  <2>1. Foolish(r.y, "lat") \/ ("lat" = "lon" /\ AcrossSeam(r.y, Latitudes))
    BY <1>1, <1>3, RefusedInterval
  <2> QED
    BY <1>1, <2>1
<1>4. CASE /\ Acceptable(r.x, "lon", Longitudes) /\ Acceptable(r.y, "lat", Latitudes)
           /\ PointsWithin(r) # {}
  BY <1>4, EnvelopeIsOfPoints, ErrorAssumption
<1>5. CASE /\ Acceptable(r.x, "lon", Longitudes) /\ Acceptable(r.y, "lat", Latitudes)
           /\ PointsWithin(r) = {}
  BY <1>5, PointsAreOfBounds
<1> QED
  BY <1>2, <1>3, <1>4, <1>5
(* ------------------------------ the resolver ---------------------------- *)

Resolution == IF IsCurvilinear THEN Envelope(typed) ELSE Separate(typed)

\* the answer of the resolver is that of the bounds it was given
TypingInv ==
    /\ grid \in Grids
    /\ typed # NoNumber => typed \in Wanted
    /\ resolved # NoNumber => typed # NoNumber /\ resolved = Resolution

\* An answer changes with the grid or what was typed.
LEMMA SameAnswer ==
    ASSUME UNCHANGED <<grid, typed>>
    PROVE  Resolution' = Resolution
  BY DEF Resolution, IsCurvilinear, Envelope, Separate, PointsWithin, Longitudes, Latitudes

\* What was resolved is the answer for the grid and the ranges typed (TypingInv).
THEOREM TypingHolds == TypingSpec => []TypingInv
<1>1. TypingInit => TypingInv
  BY DEF TypingInit, TypingInv
<1>2. TypingInv /\ [TypingNext]_boundsVars => TypingInv'
  <2> SUFFICES ASSUME TypingInv, [TypingNext]_boundsVars PROVE TypingInv'
    OBVIOUS
  <2>1. CASE Type
    BY <2>1 DEF Type, TypingInv
  <2>2. CASE ResolveTyped
    <3>1. UNCHANGED <<grid, typed>> /\ typed # NoNumber /\ resolved' = Resolution
      BY <2>2 DEF ResolveTyped, Resolution
    <3>2. Resolution' = Resolution
      BY <3>1, SameAnswer
    <3> QED
      BY <3>1, <3>2 DEF TypingInv
  <2>3. CASE TypeAgain
    BY <2>3 DEF TypeAgain, TypingInv
  <2>4. CASE UNCHANGED boundsVars
    <3>1. UNCHANGED <<grid, typed>> /\ resolved' = resolved
      BY <2>4 DEF boundsVars
    <3>2. Resolution' = Resolution
      BY <3>1, SameAnswer
    <3> QED
      BY <3>1, <3>2 DEF TypingInv
  <2> QED
    BY <2>1, <2>2, <2>3, <2>4 DEF TypingNext
<1> QED
  BY <1>1, <1>2, PTL DEF TypingSpec

\* the axes of a grid have kinds, and a y axis is never taken for longitudes
LEMMA GridAxes ==
    ASSUME grid \in Grids
    PROVE  /\ IsAxis(grid.x) /\ IsAxis(grid.y)
           /\ Kind(grid.x, TRUE) \in Kinds /\ Kind(grid.y, FALSE) \in Kinds
           /\ ~Misjudged(grid.x, TRUE) => grid.x.values = << >> \/ Kind(grid.x, TRUE) = grid.x.role
           /\ ~Misjudged(grid.y, FALSE) => grid.y.values = << >> \/ Kind(grid.y, FALSE) = grid.y.role
  BY GridAssumption DEF Kind, Kinds, Misjudged

\* The window of typed bounds is the smallest one around the samples between
\* them, in either convention for longitudes: axis_index_range, convert_range
\* and curvilinear_index_bounds, for every grid and all bounds.
THEOREM WindowOfTypedBounds == TypingSpec => []WindowIsOfRegion
<1>1. TypingInv => WindowIsOfRegion
  <2> SUFFICES ASSUME TypingInv, resolved # NoNumber, resolved # Error
               PROVE  IF IsCurvilinear THEN IsEnvelope(resolved, typed)
                      ELSE /\ ~Misjudged(grid.x, TRUE) => IsSpanOf(resolved.cols, grid.x, typed.x)
                           /\ ~Misjudged(grid.y, FALSE) => IsSpanOf(resolved.rows, grid.y, typed.y)
    BY DEF WindowIsOfRegion
  <2>1. grid \in Grids /\ typed \in Wanted /\ resolved = Resolution
    BY DEF TypingInv
  <2>2. IsBounds(typed.x) /\ IsBounds(typed.y)
    BY <2>1, WantedAssumption DEF IsBounds
  <2>3. CASE IsCurvilinear
    <3>1. resolved = Envelope(typed) /\ grid.points # NoNumber
      BY <2>1, <2>3 DEF Resolution, IsCurvilinear
    <3>2. /\ Acceptable(typed.x, "lon", Longitudes) /\ Acceptable(typed.y, "lat", Latitudes)
          /\ PointsWithin(typed) # {}
      BY <3>1 DEF Envelope
    <3>3. IsEnvelope(resolved, typed)
      BY <2>1, <2>2, <3>1, <3>2, EnvelopeIsOfPoints
    <3> QED
      BY <2>3, <3>3
  <2>4. CASE ~IsCurvilinear
    <3> DEFINE kx == Kind(grid.x, TRUE)
               ky == Kind(grid.y, FALSE)
    <3>1. resolved = Separate(typed)
      BY <2>1, <2>4 DEF Resolution
    <3>2. /\ AxisAccepts(grid.x, kx, typed.x) /\ AxisAccepts(grid.y, ky, typed.y)
          /\ resolved = [rows |-> Span(Samples(grid.y, ky, typed.y)),
                         cols |-> Span(Samples(grid.x, kx, typed.x))]
      BY <3>1 DEF Separate
    <3>3. /\ IsAxis(grid.x) /\ IsAxis(grid.y) /\ kx \in Kinds /\ ky \in Kinds
          /\ ~Misjudged(grid.x, TRUE) => grid.x.values = << >> \/ kx = grid.x.role
          /\ ~Misjudged(grid.y, FALSE) => grid.y.values = << >> \/ ky = grid.y.role
      BY <2>1, GridAxes
    <3> HIDE DEF kx, ky
    <3>4. resolved.rows = Span(Samples(grid.y, ky, typed.y))
          /\ resolved.cols = Span(Samples(grid.x, kx, typed.x))
      BY <3>2
    <3>5. ~Misjudged(grid.x, TRUE) => IsSpanOf(resolved.cols, grid.x, typed.x)
      BY <2>2, <3>2, <3>3, <3>4, AcceptedAxis
    <3>6. ~Misjudged(grid.y, FALSE) => IsSpanOf(resolved.rows, grid.y, typed.y)
      BY <2>2, <3>2, <3>3, <3>4, AcceptedAxis
    <3> QED
      BY <2>4, <3>5, <3>6
  <2> QED
    BY <2>3, <2>4
<1> QED
  BY <1>1, TypingHolds, PTL

\* Bounds are refused only if they are out of order, beyond the globe or the
\* axis, wrap around the seam or have no sample between them.
THEOREM RefusalOfTypedBounds == TypingSpec => []RefusedForAReason
<1>1. TypingInv => RefusedForAReason
  <2> SUFFICES ASSUME TypingInv, resolved = Error
               PROVE  IF IsCurvilinear
                      THEN \/ Foolish(typed.x, "lon") \/ Foolish(typed.y, "lat")
                           \/ AcrossSeam(typed.x, Longitudes)
                           \/ PointsInside(typed) = {}
                      ELSE \/ AxisRefuses(grid.x, typed.x) \/ Misjudged(grid.x, TRUE)
                           \/ AxisRefuses(grid.y, typed.y) \/ Misjudged(grid.y, FALSE)
    BY DEF RefusedForAReason
  <2>1. grid \in Grids /\ typed \in Wanted /\ Error = Resolution
    BY ErrorAssumption DEF TypingInv
  <2>2. IsBounds(typed.x) /\ IsBounds(typed.y)
    BY <2>1, WantedAssumption DEF IsBounds
  <2>3. CASE IsCurvilinear
    <3>1. Envelope(typed) = Error /\ grid.points # NoNumber
      BY <2>1, <2>3 DEF Resolution, IsCurvilinear
    <3>2. \/ Foolish(typed.x, "lon") \/ Foolish(typed.y, "lat")
          \/ AcrossSeam(typed.x, Longitudes)
          \/ PointsInside(typed) = {}
      BY <2>1, <2>2, <3>1, RefusedPoints
    <3> QED
      BY <2>3, <3>2
  <2>4. CASE ~IsCurvilinear
    <3> DEFINE kx == Kind(grid.x, TRUE)
               ky == Kind(grid.y, FALSE)
    <3>1. Error = Separate(typed)
      BY <2>1, <2>4 DEF Resolution
    <3>2. /\ IsAxis(grid.x) /\ IsAxis(grid.y) /\ kx \in Kinds /\ ky \in Kinds
          /\ ~Misjudged(grid.x, TRUE) => grid.x.values = << >> \/ kx = grid.x.role
          /\ ~Misjudged(grid.y, FALSE) => grid.y.values = << >> \/ ky = grid.y.role
      BY <2>1, GridAxes
    <3>3. ~AxisAccepts(grid.x, kx, typed.x) \/ ~AxisAccepts(grid.y, ky, typed.y)
      <4> SUFFICES ASSUME AxisAccepts(grid.x, kx, typed.x), AxisAccepts(grid.y, ky, typed.y)
                   PROVE  FALSE
        OBVIOUS
      <4>1. Error = [rows |-> Span(Samples(grid.y, ky, typed.y)),
                     cols |-> Span(Samples(grid.x, kx, typed.x))]
        BY <3>1 DEF Separate
      <4> HIDE DEF kx, ky
      <4>2. Samples(grid.y, ky, typed.y) # {} /\ Samples(grid.x, kx, typed.x) # {}
        BY <2>2, <3>2, AcceptedSamples
      <4>3. /\ Span(Samples(grid.y, ky, typed.y)) \in [start : Nat, end : Nat]
            /\ Span(Samples(grid.x, kx, typed.x)) \in [start : Nat, end : Nat]
        BY <3>2, <4>2, SamplesAreIndices, SpanBounds
      <4> QED
        BY <4>1, <4>3, ErrorAssumption
    <3> HIDE DEF kx, ky
    <3>4. CASE ~AxisAccepts(grid.x, kx, typed.x)
      <4>1. Misjudged(grid.x, TRUE) \/ AxisRefuses(grid.x, typed.x)
        BY <2>2, <3>2, <3>4, RefusedAxis
      <4> QED
        BY <2>4, <4>1
    <3>5. CASE ~AxisAccepts(grid.y, ky, typed.y)
      <4>1. Misjudged(grid.y, FALSE) \/ AxisRefuses(grid.y, typed.y)
        BY <2>2, <3>2, <3>5, RefusedAxis
      <4> QED
        BY <2>4, <4>1
    <3> QED
      BY <3>3, <3>4, <3>5
  <2> QED
    BY <2>3, <2>4
<1> QED
  BY <1>1, TypingHolds, PTL

(* ------------------- planes, their reads and their cells ------------------- *)

Views == [x : Axes, y : Axes, time : Nat, depth : Nat, fixed : [Axes -> Nat],
          zoom : Rectangles \cup {Missing}]

Boxes == [top : Nat, bottom : Nat, left : Nat, right : Nat]

\* index.min(length.saturating_sub(1))
LEMMA AtMostIs ==
    ASSUME NEW n \in Nat, NEW length \in Nat
    PROVE  /\ AtMost(n, length) \in Nat
           /\ n = 0 \/ n < length => AtMost(n, length) = n
           /\ AtMost(n, length) = 0 \/ AtMost(n, length) < length
<1>1. Max({length - 1, 0}) = IF length = 0 THEN 0 ELSE length - 1
  BY DEF Max
<1>2. PICK m \in Nat : m = Max({length - 1, 0}) /\ m = IF length = 0 THEN 0 ELSE length - 1
  BY <1>1
<1>3. Min({n, m}) = IF n < m THEN n ELSE m
  BY DEF Min
<1>4. AtMost(n, length) = IF n < m THEN n ELSE m
  BY <1>2, <1>3 DEF AtMost
<1> QED
  BY <1>2, <1>4

\* a variable has two axes at least, with lengths and roles
LEMMA AxesOfData ==
    ASSUME data \in Datasets
    PROVE  /\ Rank \in Nat /\ Rank >= 2
           /\ Axes \subseteq Nat /\ 1 \in Axes /\ 2 \in Axes /\ Rank \in Axes /\ Rank - 1 \in Axes
           /\ \A i \in Axes : Length(i) \in Nat
<1>1. data.dims \in Seq(Dimensions) /\ Len(data.dims) >= 2
  BY DatasetAssumption
<1>2. Rank \in Nat /\ Rank >= 2
  BY <1>1 DEF Rank
<1>3. \A i \in Axes : Length(i) \in Nat
  <2>1. ASSUME NEW i \in Axes PROVE data.dims[i] \in Dimensions
    BY <1>1 DEF Axes, Rank
  <2> QED
    BY <2>1 DEF Length, Dimensions
<1> QED
  BY <1>2, <1>3 DEF Axes

\* With one axis of a role, its length is that of the role.
LEMMA OnlyOfRole ==
    ASSUME data \in Datasets, Unambiguous, NEW r \in {"time", "depth"}, NEW i \in Axes, Role(i) = r
    PROVE  WithRole(r) = {i} /\ LengthOf(r) = Length(i)
<1>1. WithRole(r) = {i}
  BY DEF WithRole, Unambiguous
<1>2. i \in Nat
  BY AxesOfData
<1>3. Min({i}) = i
  BY <1>2 DEF Min
<1> QED
  BY <1>1, <1>3 DEF LengthOf

Chosen(v) ==
    /\ v \in Views
    /\ v.time = 0 \/ v.time < LengthOf("time")
    /\ v.zoom # Missing => Fits(v.zoom, Full(v))

\* what is left by the clamps of load_selected
IsClamped(v) ==
    /\ Chosen(v)
    /\ \A i \in Axes : Held(v, i) => v.fixed[i] = 0 \/ v.fixed[i] < Length(i)
    /\ Role(v.x) # "depth" /\ Role(v.y) # "depth" => v.depth = 0 \/ v.depth < LengthOf("depth")

\* The index asked for of a dimension outside the plane is that of the view.
LEMMA FixedIsOfView ==
    ASSUME data \in Datasets, Unambiguous, NEW v, IsClamped(v), NEW p,
           NEW i \in Axes \ {v.x, v.y}
    PROVE  FixedAxes(v)[i] = Denoted(v, p)[i]
<1>1. v.time \in Nat /\ v.depth \in Nat /\ v.fixed[i] \in Nat /\ Length(i) \in Nat
      /\ v.x \in Axes /\ v.y \in Axes
  BY AxesOfData DEF IsClamped, Chosen, Views
<1>2. FixedAxes(v)[i] =
        AtMost(CASE Role(i) = "time" -> v.time [] Role(i) = "depth" -> v.depth [] OTHER -> v.fixed[i],
               Length(i))
  BY DEF FixedAxes
<1>3. Denoted(v, p)[i] = CASE Role(i) = "time" -> v.time
                           [] Role(i) = "depth" -> v.depth
                           [] OTHER -> v.fixed[i]
  BY DEF Denoted
<1>4. CASE Role(i) = "time"
  <2>1. LengthOf("time") = Length(i)
    BY <1>4, OnlyOfRole
  <2>2. v.time = 0 \/ v.time < Length(i)
    BY <2>1 DEF IsClamped, Chosen
  <2>3. AtMost(v.time, Length(i)) = v.time
    BY <1>1, <2>2, AtMostIs
  <2> QED
    BY <1>2, <1>3, <1>4, <2>3
<1>5. CASE Role(i) = "depth"
  <2>1. LengthOf("depth") = Length(i) /\ WithRole("depth") = {i}
    BY <1>5, OnlyOfRole
  <2>2. Role(v.x) # "depth" /\ Role(v.y) # "depth"
    BY <1>1, <2>1 DEF WithRole
  <2>3. v.depth = 0 \/ v.depth < Length(i)
    BY <2>1, <2>2 DEF IsClamped
  <2>4. AtMost(v.depth, Length(i)) = v.depth
    BY <1>1, <2>3, AtMostIs
  <2> QED
    BY <1>2, <1>3, <1>5, <2>4
<1>6. CASE Role(i) \notin {"time", "depth"}
  <2>1. v.fixed[i] = 0 \/ v.fixed[i] < Length(i)
    BY <1>6 DEF IsClamped, Held
  <2>2. AtMost(v.fixed[i], Length(i)) = v.fixed[i]
    BY <1>1, <2>1, AtMostIs
  <2> QED
    BY <1>2, <1>3, <1>6, <2>2
<1> QED
  BY <1>4, <1>5, <1>6

\* A request that names the rows and columns of the plane and fixes the others.
LEMMA ElementIsDenoted ==
    ASSUME data \in Datasets, Unambiguous, NEW v, IsClamped(v), NEW p, NEW rest,
           \A i \in Axes \ {v.x, v.y} : rest[i] = FixedAxes(v)[i]
    PROVE  Element(v.y, v.x, p, rest) = Denoted(v, p)
<1>1. ASSUME NEW i \in Axes PROVE Element(v.y, v.x, p, rest)[i] = Denoted(v, p)[i]
  <2>1. CASE i = v.y
    BY <2>1 DEF Element, Denoted
  <2>2. CASE i # v.y /\ i = v.x
    BY <2>2 DEF Element, Denoted
  <2>3. CASE i \notin {v.x, v.y}
    <3>1. Element(v.y, v.x, p, rest)[i] = rest[i]
      BY <2>3 DEF Element
    <3> QED
      BY <2>3, <3>1, FixedIsOfView
  <2> QED
    BY <2>1, <2>2, <2>3
<1> QED
  BY <1>1 DEF Element, Denoted
\* The cells of a window are pairs of numbers.
LEMMA CellsArePairs ==
    ASSUME NEW b \in Boxes, NEW p \in CellsOf(b)
    PROVE  /\ p = <<p[1], p[2]>> /\ p[1] \in Nat /\ p[2] \in Nat
           /\ p[1] < b.bottom /\ p[2] < b.right
  BY DEF CellsOf, Boxes

\* The answer to a request of load_selected, by format.
IsAnswer(v, b, cells) ==
    /\ data \in Datasets /\ Unambiguous /\ IsClamped(v)
    /\ b \in Boxes /\ Fits(b, Full(v))
    /\ cells = Cells(Request(v, b)) /\ cells # Missing
    /\ InOrder(<<v.y, v.x>>)

Right(v, b, cells) ==
    /\ v.x # v.y
    /\ cells = [p \in CellsOf(b) |-> Value(Denoted(v, p))]

\* What a request is made of.
LEMMA RequestFields ==
    ASSUME NEW v, NEW b
    PROVE  /\ Request(v, b).bounds = b /\ Request(v, b).row = v.y /\ Request(v, b).col = v.x
           /\ Request(v, b).time = v.time /\ Request(v, b).depth = v.depth
           /\ Request(v, b).fixed = FixedAxes(v)
  BY DEF Request

\* NetCDF-4 and MPAS: the element of the fixed indices
LEMMA StoredCells ==
    ASSUME NEW v, NEW b, NEW cells, IsAnswer(v, b, cells), data.format \in {"netcdf4", "mpas"}
    PROVE  Right(v, b, cells)
<1> DEFINE req == Request(v, b)
           rc == PlaneOf(req)
           rest == [i \in Axes \ {rc[1], rc[2]} |-> CHOOSE k \in Indices(req, i, rc) : TRUE]
<1>1. v \in Views /\ v.x \in Axes /\ v.y \in Axes
  BY DEF IsAnswer, IsClamped, Chosen, Views
<1>2. rc = <<v.y, v.x>> /\ (data.format = "netcdf4" => v.y < v.x)
  <2>1. CASE data.format = "netcdf4"
    <3>1. v.y # Missing
      BY <1>1, AxesOfData, MissingAssumption DEF IsAnswer
    <3>2. rc = <<v.y, v.x>>
      BY <2>1, <3>1, RequestFields DEF PlaneOf
    <3> QED
      BY <2>1, <3>2 DEF IsAnswer, InOrder
  <2>2. CASE data.format = "mpas"
    <3>1. <<v.y, v.x>> = PlaneOf([row |-> Missing])
      BY <2>2 DEF IsAnswer, InOrder
    <3>2. rc = PlaneOf([row |-> Missing])
      BY <2>2 DEF PlaneOf
    <3> QED
      BY <2>2, <3>1, <3>2
  <2> QED
    BY <2>1, <2>2
<1>3. /\ Readable(req, rc)
      /\ cells = [p \in CellsOf(b) |-> Element(rc[1], rc[2], Filled(b, rc, p), rest)]
  <2>1. Cells(req) =
          IF ~Readable(req, rc) THEN Missing
          ELSE [p \in CellsOf(req.bounds) |-> Element(rc[1], rc[2], Filled(req.bounds, rc, p), rest)]
    <3> HIDE DEF req
    <3> QED
      BY DEF Cells
  <2>2. req.bounds = b
    BY RequestFields
  <2>3. cells = Cells(req) /\ cells # Missing
    BY DEF IsAnswer
  <2> HIDE DEF req, rc, rest
  <2> QED
    BY <2>1, <2>2, <2>3
<1>4. v.x # v.y
  BY <1>2, <1>3 DEF Readable
<1>5. \A i \in Axes \ {v.x, v.y} : rest[i] = FixedAxes(v)[i]
  <2> SUFFICES ASSUME NEW i \in Axes \ {v.x, v.y} PROVE rest[i] = FixedAxes(v)[i]
    OBVIOUS
  <2>1. i \in DOMAIN req.fixed /\ req.fixed[i] = FixedAxes(v)[i]
    BY RequestFields DEF FixedAxes
  <2>2. Indices(req, i, rc) = {FixedAxes(v)[i]}
    BY <2>1 DEF Indices
  <2>3. (CHOOSE k \in {FixedAxes(v)[i]} : TRUE) = FixedAxes(v)[i]
    OBVIOUS
  <2>4. i \in Axes \ {rc[1], rc[2]}
    BY <1>2
  <2> QED
    BY <2>2, <2>3, <2>4
<1>6. ASSUME NEW p \in CellsOf(b) PROVE cells[p] = Value(Denoted(v, p))
  <2>1. Filled(b, rc, p) = p
    BY <1>2 DEF Filled
  <2>2. cells[p] = Element(v.y, v.x, p, rest)
    BY <1>2, <1>3, <2>1
  <2>3. Element(v.y, v.x, p, rest) = Denoted(v, p)
    <3> HIDE DEF rest
    <3> QED
      BY <1>5, ElementIsDenoted DEF IsAnswer
  <2> QED
    BY <2>2, <2>3 DEF Value
<1> QED
  BY <1>3, <1>4, <1>6 DEF Right

\* NetCDF-3: the element of the two indices
LEMMA NetCdf3Answer ==
    ASSUME NEW v, NEW b, NEW cells, IsAnswer(v, b, cells), data.format = "netcdf3"
    PROVE  Right(v, b, cells)
<1>1. v.y = 1 /\ v.x = 2
  BY DEF IsAnswer, InOrder, PlaneOf
<1>2. Rank = 2 /\ cells = [p \in CellsOf(b) |-> p]
  BY RequestFields DEF IsAnswer, Cells, NetCdf3Cells
<1>3. ASSUME NEW p \in CellsOf(b) PROVE p = Value(Denoted(v, p))
  <2>1. p = <<p[1], p[2]>>
    BY CellsArePairs DEF IsAnswer
  <2>2. Denoted(v, p) = <<p[1], p[2]>>
    <3>1. Axes = 1 .. 2
      BY <1>2 DEF Axes
    <3>2. Denoted(v, p) = [i \in 1 .. 2 |-> IF i = 1 THEN p[1] ELSE p[2]]
      BY <1>1, <3>1 DEF Denoted
    <3> QED
      BY <3>2
  <2> QED
    BY <2>1, <2>2 DEF Value
<1> QED
  BY <1>1, <1>2, <1>3 DEF Right

\* GRIB2: latitudes by longitudes
LEMMA Grib2Answer ==
    ASSUME NEW v, NEW b, NEW cells, IsAnswer(v, b, cells), data.format = "grib2"
    PROVE  Right(v, b, cells)
<1> DEFINE req == Request(v, b)
           rc == PlaneOf(req)
<1>1. v.x \in Axes /\ v.y \in Axes
  BY DEF IsAnswer, IsClamped, Chosen, Views
<1>2. data.dims[1].role = "lat" /\ data.dims[2].role = "lon" /\ Len(data.dims) = 2
  <2>1. <<data.dims[1].role, data.dims[2].role, Len(data.dims)>> = <<"lat", "lon", 2>>
    BY DatasetAssumption DEF IsAnswer
  <2> QED
    BY <2>1
<1>3. Axes = {1, 2} /\ WithRole("lat") = {1} /\ WithRole("lon") = {2}
  BY <1>2 DEF Axes, Rank, WithRole, Role
<1>4. Min({1}) = 1 /\ Min({2}) = 2
  BY DEF Min
<1>5. rc = <<1, 2>>
  BY <1>3, <1>4 DEF PlaneOf
<1>6. /\ v.y \in {Missing, 1} /\ v.x \in {Missing, 2}
      /\ cells = [p \in CellsOf(b) |-> Element(1, 2, p, [i \in Axes |-> 0])]
  BY <1>5, RequestFields DEF IsAnswer, Cells, Grib2Cells
<1>7. v.y = 1 /\ v.x = 2
  BY <1>1, <1>3, <1>6, MissingAssumption
<1>8. ASSUME NEW p \in CellsOf(b) PROVE cells[p] = Value(Denoted(v, p))
  <2>1. Element(1, 2, p, [i \in Axes |-> 0]) = Denoted(v, p)
    BY <1>3, <1>7 DEF Element, Denoted
  <2> QED
    BY <1>6, <2>1 DEF Value
<1> QED
  BY <1>6, <1>7, <1>8 DEF Right
\* Two axes after others.
LEMMA TwoMore ==
    ASSUME NEW s \in Seq(Nat), NEW a \in Nat, NEW c \in Nat, NEW t, t = s \o <<a, c>>
    PROVE  /\ DOMAIN t = 1 .. Len(s) + 2
           /\ \A i \in 1 .. Len(s) : t[i] = s[i]
           /\ t[Len(s) + 1] = a /\ t[Len(s) + 2] = c
<1>1. <<a, c>> \in Seq(Nat) /\ Len(<<a, c>>) = 2
  OBVIOUS
<1>2. DOMAIN t = 1 .. Len(s) + 2
  BY <1>1
<1>3. \A i \in 1 .. Len(s) + 2 : t[i] = IF i <= Len(s) THEN s[i] ELSE <<a, c>>[i - Len(s)]
  BY <1>1
<1> QED
  BY <1>2, <1>3

\* A manifest: the chunk that the element is in
LEMMA ChunkHoldsElement ==
    ASSUME data \in Datasets, data.format = "manifest", StepsAreChunks,
           NEW v, v.y = Rank - 1, v.x = Rank, v.time \in Nat, v.depth \in Nat,
           NEW req, req.time = v.time, Rank = 4 => req.depth = v.depth,
           NEW p, p = <<p[1], p[2]>>, p[1] \in Nat, p[2] \in Nat,
           p[1] < Length(Rank - 1), p[2] < Length(Rank)
    PROVE  InChunk(req, p) = Value(Denoted(v, p))
<1>1. Rank \in Nat /\ Rank >= 2
  BY AxesOfData
<1>2. /\ Rank <= 4
      /\ \A i \in 1 .. Rank - 2 : Role(i) = <<"time", "depth">>[i] /\ data.chunks[i] = 1
  BY DEF StepsAreChunks
<1>3. /\ Axes = 1 .. Rank
      /\ \A i \in Axes : data.chunks[i] \in Nat \ {0}
  BY DatasetAssumption DEF Axes, Rank
<1> DEFINE e == Denoted(v, p)
           key == ChunkKey(req, p)
<1>4. e = [i \in Axes |-> CASE i = Rank - 1 -> p[1]
                            [] i = Rank -> p[2]
                            [] OTHER -> IF i = 1 THEN v.time ELSE v.depth]
  <2>1. ASSUME NEW i \in Axes, i \notin {Rank - 1, Rank}
        PROVE  i \in {1, 2} /\ Role(i) = (IF i = 1 THEN "time" ELSE "depth")
    <3>1. i \in 1 .. Rank - 2 /\ i \in {1, 2}
      BY <1>1, <1>2, <1>3, <2>1
    <3> QED
      BY <1>2, <3>1
  <2> QED
    BY <2>1 DEF Denoted
<1>5. key = [i \in Axes |-> e[i] \div data.chunks[i]]
  <2> DEFINE at == CASE Rank = 2 -> p
                     [] Rank = 3 -> <<v.time>> \o p
                     [] OTHER -> <<v.time, v.depth>> \o p
  <2>1. Min({Rank, 4}) = Rank
    BY <1>1, <1>2 DEF Min
  <2>2. key = [i \in DOMAIN at |->
                 at[i] \div data.chunks[IF i < Rank - 1 THEN i ELSE Rank - (Rank - 1) - 1 + i]]
    <3>1. at = CASE Rank = 2 -> p
                 [] Rank = 3 -> <<req.time>> \o p
                 [] OTHER -> <<req.time, req.depth>> \o p
      <4>1. Rank = 2 \/ Rank = 3 \/ Rank = 4
        BY <1>1, <1>2
      <4> QED
        BY <4>1
    <3> HIDE DEF at
    <3> QED
      BY <2>1, <3>1 DEF ChunkKey
  <2>3. \E a, c \in Nat : p = <<a, c>>
    OBVIOUS
  <2>4. PICK a \in Nat, c \in Nat : p = <<a, c>>
    BY <2>3
  <2>5. DOMAIN at = Axes /\ \A i \in Axes : at[i] = e[i]
    <3>1. CASE Rank = 2
      <4>1. at = <<a, c>> /\ Axes = {1, 2}
        BY <1>3, <2>4, <3>1
      <4> QED
        BY <1>4, <2>4, <3>1, <4>1
    <3>2. CASE Rank = 3
      <4>1. at = <<v.time>> \o <<a, c>> /\ Axes = {1, 2, 3}
        BY <1>1, <1>3, <2>4, <3>2
      <4>2. <<v.time>> \in Seq(Nat) /\ Len(<<v.time>>) = 1
        BY <1>1
      <4> HIDE DEF at
      <4>3. DOMAIN at = 1 .. 3 /\ at[1] = v.time /\ at[2] = a /\ at[3] = c
        BY <4>1, <4>2, TwoMore
      <4> QED
        BY <1>4, <2>4, <3>2, <4>1, <4>3
    <3>3. CASE Rank = 4
      <4>1. at = <<v.time, v.depth>> \o <<a, c>> /\ Axes = {1, 2, 3, 4}
        BY <1>1, <1>3, <2>4, <3>3
      <4>2. <<v.time, v.depth>> \in Seq(Nat) /\ Len(<<v.time, v.depth>>) = 2
        BY <1>1
      <4> HIDE DEF at
      <4>3. DOMAIN at = 1 .. 4 /\ at[1] = v.time /\ at[2] = v.depth /\ at[3] = a /\ at[4] = c
        BY <4>1, <4>2, TwoMore
      <4> QED
        BY <1>4, <2>4, <3>3, <4>1, <4>3
    <3> QED
      BY <1>1, <1>2, <3>1, <3>2, <3>3, SMTT(20)
  <2> HIDE DEF at, key, e
  <2>6. \A i \in Axes : (IF i < Rank - 1 THEN i ELSE Rank - (Rank - 1) - 1 + i) = i
    BY <1>1, <1>3
  <2> QED
    BY <2>2, <2>5, <2>6
<1>6. Fetched(key) => Element(Rank - 1, Rank, p, [i \in Axes |-> key[i] * data.chunks[i]]) = e
  <2>1. ASSUME NEW i \in Axes, i \notin {Rank - 1, Rank}
        PROVE  key[i] * data.chunks[i] = e[i]
    <3>1. data.chunks[i] = 1 /\ e[i] \in Nat
      BY <1>1, <1>2, <1>3, <1>4, <2>1
    <3>2. key[i] = e[i] \div 1
      BY <1>5, <3>1
    <3>3. e[i] \div 1 = e[i]
      BY <3>1
    <3> QED
      BY <3>1, <3>2, <3>3
  <2> HIDE DEF key
  <2>2. ASSUME NEW i \in Axes
        PROVE  Element(Rank - 1, Rank, p, [j \in Axes |-> key[j] * data.chunks[j]])[i] = e[i]
    <3>1. CASE i \in {Rank - 1, Rank}
      BY <1>4, <3>1, <1>1 DEF Element
    <3>2. CASE i \notin {Rank - 1, Rank}
      BY <2>1, <3>2 DEF Element
    <3> QED
      BY <3>1, <3>2
  <2> QED
    BY <1>4, <2>2 DEF Element
<1>7. InChunk(req, p) = IF ~Fetched(key) THEN Missing
                        ELSE Element(Rank - 1, Rank, p, [i \in Axes |-> key[i] * data.chunks[i]])
  <2>1. ~(p[1] >= Length(Rank - 1)) /\ ~(p[2] >= Length(Rank))
    BY AxesOfData
  <2> QED
    BY <2>1 DEF InChunk
<1>8. Value(e) = IF Fetched(key) THEN e ELSE Missing
  BY <1>5 DEF Value
<1> QED
  BY <1>6, <1>7, <1>8

LEMMA ManifestAnswer ==
    ASSUME NEW v, NEW b, NEW cells, IsAnswer(v, b, cells), data.format = "manifest"
    PROVE  Right(v, b, cells)
<1> DEFINE req == Request(v, b)
<1>1. /\ v.x \in Axes /\ v.y \in Axes /\ v.time \in Nat /\ v.depth \in Nat
      /\ Rank \in Nat /\ Rank >= 2
  BY AxesOfData DEF IsAnswer, IsClamped, Chosen, Views
<1>2. v.y = Rank - 1 /\ v.x = Rank /\ StepsAreChunks
  <2>1. PlaneOf([row |-> Missing]) = <<Rank - 1, Rank>>
    BY DEF PlaneOf
  <2> QED
    BY <2>1 DEF IsAnswer, InOrder
<1>3. cells = [p \in CellsOf(b) |-> InChunk(req, p)]
  BY RequestFields DEF IsAnswer, Cells
<1>4. req.time = v.time /\ req.depth = v.depth
  BY RequestFields
<1>5. ASSUME NEW p \in CellsOf(b) PROVE InChunk(req, p) = Value(Denoted(v, p))
  <2>1. b.bottom <= Length(Rank - 1) /\ b.right <= Length(Rank)
    BY <1>2 DEF IsAnswer, Fits, Full, Whole, Box
  <2>2. Length(Rank - 1) \in Nat /\ Length(Rank) \in Nat
    BY AxesOfData DEF IsAnswer
  <2>3. b.bottom \in Nat /\ b.right \in Nat
    BY DEF IsAnswer, Boxes
  <2>4. /\ p = <<p[1], p[2]>> /\ p[1] \in Nat /\ p[2] \in Nat
        /\ p[1] < Length(Rank - 1) /\ p[2] < Length(Rank)
    BY <2>1, <2>2, <2>3, CellsArePairs DEF IsAnswer
  <2> HIDE DEF req
  <2> QED
    BY <1>1, <1>2, <1>4, <2>4, ChunkHoldsElement DEF IsAnswer
<1> QED
  BY <1>1, <1>2, <1>3, <1>5 DEF Right

\* Whatever the format, the answer is right.
LEMMA AnswerIsRight ==
    ASSUME NEW v, NEW b, NEW cells, IsAnswer(v, b, cells)
    PROVE  Right(v, b, cells)
<1>1. data.format \in {"netcdf4", "netcdf3", "mpas", "grib2", "manifest"}
  BY DatasetAssumption DEF IsAnswer
<1> QED
  BY <1>1, StoredCells, NetCdf3Answer, Grib2Answer, ManifestAnswer

(* ------------------------------- the commands --------------------------- *)

\* A finite set of axes has a first and a last one.
LEMMA LeastAndGreatest ==
    ASSUME NEW S, S \subseteq Nat, IsFiniteSet(S), S # {}
    PROVE  Min(S) \in S /\ Max(S) \in S
<1>1. Min(S) \in S
  <2>1. \E x \in S : \A y \in S : x <= y
    BY LeastNatural
  <2> QED
    BY <2>1 DEF Min
<1>2. Max(S) \in S
  <2> DEFINE f == [x \in S |-> x]
  <2>1. \A x \in S : f[x] \in Int
    OBVIOUS
  <2> HIDE DEF f
  <2>2. \E x \in S : \A y \in S : f[x] >= f[y]
    BY <2>1, FiniteMaximum
  <2>3. \E x \in S : \A y \in S : x >= y
    BY <2>2 DEF f
  <2> QED
    BY <2>3 DEF Max
<1> QED
  BY <1>1, <1>2

LEMMA AxesAreFinite ==
    ASSUME data \in Datasets, NEW S, S \subseteq Axes
    PROVE  /\ IsFiniteSet(S) /\ S \subseteq Nat
           /\ S # {} => Min(S) \in Axes /\ Max(S) \in Axes
           /\ LastOf(S) \in Axes
<1>1. Axes \subseteq Nat /\ Rank \in Nat /\ Rank \in Axes
  BY AxesOfData
<1>2. IsFiniteSet(1 .. Rank)
  BY <1>1, FS_Interval
<1>3. IsFiniteSet(S)
  BY <1>2, FS_Subset DEF Axes
<1>4. S # {} => Min(S) \in S /\ Max(S) \in S
  BY <1>1, <1>3, LeastAndGreatest
<1> QED
  BY <1>1, <1>3, <1>4 DEF LastOf

\* An axis that is not there counts as long as a scalar.
LEMMA LengthOfRole ==
    ASSUME data \in Datasets, NEW r
    PROVE  LengthOf(r) \in Nat
<1>1. WithRole(r) \subseteq Axes
  BY DEF WithRole
<1>2. WithRole(r) # {} => Min(WithRole(r)) \in Axes
  BY <1>1, AxesAreFinite
<1> QED
  BY <1>2, AxesOfData DEF LengthOf

\* the axes a variable opens with and those it is reset to are axes of it
LEMMA ChosenAxes ==
    ASSUME data \in Datasets
    PROVE  /\ DefaultAxes[1] \in Axes /\ DefaultAxes[2] \in Axes
           /\ ResetAxes[1] \in Axes /\ ResetAxes[2] \in Axes
<1>1. /\ Rank - 1 \in Axes /\ Rank \in Axes /\ 1 \in Axes /\ 2 \in Axes /\ 1 # 2
  BY AxesOfData
<1>2. \A r : WithRole(r) \subseteq Axes /\ Looking(r) \subseteq Axes
  BY DEF WithRole, Looking
<1>3. Lasting \subseteq Axes
  BY <1>2 DEF Lasting
<1>4. \A r : /\ WithRole(r) # {} => Min(WithRole(r)) \in Axes
             /\ Looking(r) # {} => Min(Looking(r)) \in Axes
  BY <1>2, AxesAreFinite
<1>5. LastOf(Lasting) \in Axes /\ IsFiniteSet(Lasting)
  BY <1>3, AxesAreFinite
<1>6. Min(Axes \ {LastOf(Lasting)}) \in Axes
  <2>1. Axes \ {LastOf(Lasting)} # {}
    BY <1>1
  <2> QED
    BY <2>1, AxesAreFinite
<1>7. ASSUME ~(Cardinality(Lasting) < 2)
      PROVE  /\ Max(Lasting) \in Axes /\ LastOf(Lasting) = Max(Lasting)
             /\ Max(Lasting \ {Max(Lasting)}) \in Axes
  <2>1. Cardinality(Lasting) \in Nat /\ Cardinality(Lasting) >= 2
    BY <1>5, <1>7, FS_CardinalityType
  <2>2. Lasting # {}
    BY <2>1, FS_EmptySet
  <2>3. LastOf(Lasting) = Max(Lasting)
    BY <2>2 DEF LastOf
  <2>4. Max(Lasting) \in Axes /\ Max(Lasting) \in Lasting
    BY <1>3, <2>2, AxesAreFinite, LeastAndGreatest
  <2> DEFINE m == Max(Lasting)
             rest == Lasting \ {m}
  <2> HIDE DEF m
  <2>5. Cardinality(rest) = Cardinality(Lasting) - 1
    BY <1>5, <2>4, FS_RemoveElement DEF m
  <2>6. rest # {}
    <3> HIDE DEF rest
    <3> QED
      BY <2>1, <2>5, FS_EmptySet
  <2>7. Max(rest) \in Axes
    BY <1>3, <2>6, AxesAreFinite
  <2> QED
    BY <2>3, <2>4, <2>7 DEF m
<1>8. ASSUME NEW row \in Axes, NEW col \in Axes
      PROVE  AxesByName(<<row, col>>)[1] \in Axes /\ AxesByName(<<row, col>>)[2] \in Axes
  <2>1. LastTwo(<<row, col>>)[1] \in Axes /\ LastTwo(<<row, col>>)[2] \in Axes
    BY <1>7 DEF LastTwo
  <2>2. Looking("y") # {} => Min(Looking("y")) \in Axes
    BY <1>4
  <2>3. Looking("x") # {} => Min(Looking("x")) \in Axes
    BY <1>4
  <2> QED
    BY <2>1, <2>2, <2>3 DEF AxesByName
<1>9. DefaultAxes[1] \in Axes /\ DefaultAxes[2] \in Axes
  <2>1. WithRole("lat") # {} => Min(WithRole("lat")) \in Axes
    BY <1>4
  <2>2. WithRole("lon") # {} => Min(WithRole("lon")) \in Axes
    BY <1>4
  <2> QED
    BY <1>1, <1>5, <1>8, <2>1, <2>2 DEF DefaultAxes
<1>10. ResetAxes[1] \in Axes /\ ResetAxes[2] \in Axes
  BY <1>5, <1>6, <1>8 DEF ResetAxes
<1> QED
  BY <1>9, <1>10

Loading(a) ==
    \E v, b : /\ a = [view |-> v, request |-> Request(v, b)]
              /\ IsClamped(v) /\ b \in Boxes /\ Fits(b, Full(v))

\* the slice on screen: Shows, and what its transposition needs
Sound(s) ==
    /\ s = [bounds |-> s.bounds, cells |-> s.cells, of |-> s.of, axes |-> s.axes,
            grid |-> s.grid, gridOf |-> s.gridOf]
    /\ s.of \in Views
    /\ Unambiguous /\ InOrder(s.axes) =>
         /\ s.of.x # s.of.y
         /\ DOMAIN s.cells \subseteq Nat \X Nat
         /\ Shows(s)

ReadsInv ==
    /\ data \in Datasets
    /\ \A v : plane = v => IsClamped(v)
    /\ \A a : asked = a /\ a # Missing => Loading(a)
    /\ \A s : held = s /\ s # Missing => Sound(s)

\* load_selected clamps the indices of the view and asks for it
LEMMA LoadIsLoading ==
    ASSUME data \in Datasets, NEW p, Chosen(p), Load(p)
    PROVE  /\ \A v : plane' = v => IsClamped(v)
           /\ \A a : asked' = a => Loading(a)
<1> DEFINE q == Clamped(p)
           levels == IF Role(p.x) = "depth" \/ Role(p.y) = "depth" THEN 1 ELSE LengthOf("depth")
           b == IF q.zoom = Missing THEN Full(q) ELSE q.zoom
<1>1. /\ p.x \in Axes /\ p.y \in Axes /\ p.time \in Nat /\ p.depth \in Nat
      /\ p.fixed \in [Axes -> Nat] /\ p.zoom \in Rectangles \cup {Missing}
      /\ p = [x |-> p.x, y |-> p.y, time |-> p.time, depth |-> p.depth, fixed |-> p.fixed, zoom |-> p.zoom]
  BY DEF Chosen, Views
<1>2. /\ q.x = p.x /\ q.y = p.y /\ q.time = p.time /\ q.zoom = p.zoom
      /\ q.depth = AtMost(p.depth, levels)
      /\ q.fixed = [i \in Axes |-> IF Held(p, i) THEN AtMost(p.fixed[i], Length(i)) ELSE 0]
      /\ q = [x |-> q.x, y |-> q.y, time |-> q.time, depth |-> q.depth, fixed |-> q.fixed, zoom |-> q.zoom]
  <2>1. q = [p EXCEPT !.depth = AtMost(@, levels),
                      !.fixed = [i \in Axes |-> IF Held(p, i) THEN AtMost(@[i], Length(i)) ELSE 0]]
    BY DEF Clamped
  <2> HIDE DEF q, levels
  <2>2. q = [x |-> p.x, y |-> p.y, time |-> p.time, depth |-> AtMost(p.depth, levels),
             fixed |-> [i \in Axes |-> IF Held(p, i) THEN AtMost(p.fixed[i], Length(i)) ELSE 0],
             zoom |-> p.zoom]
    BY <1>1, <2>1
  <2> QED
    BY <2>2
<1>3. levels \in Nat
  BY LengthOfRole
<1> HIDE DEF q, levels
<1>4. q.depth \in Nat /\ (q.depth = 0 \/ q.depth < levels)
  BY <1>1, <1>2, <1>3, AtMostIs
<1>5. ASSUME NEW i \in Axes
      PROVE  q.fixed[i] \in Nat /\ (q.fixed[i] = 0 \/ q.fixed[i] < Length(i))
  <2>1. Length(i) \in Nat /\ p.fixed[i] \in Nat
    BY <1>1, AxesOfData
  <2> QED
    BY <1>2, <2>1, AtMostIs
<1>6. q \in Views
  <2>1. q.fixed \in [Axes -> Nat]
    BY <1>2, <1>5
  <2> QED
    BY <1>1, <1>2, <1>4, <2>1 DEF Views
<1>7. Chosen(q)
  BY <1>2, <1>6 DEF Chosen, Full
<1>8. IsClamped(q)
  BY <1>2, <1>4, <1>5, <1>7 DEF IsClamped, levels
<1>9. b \in Boxes /\ Fits(b, Full(q))
  <2>1. CASE q.zoom = Missing
    <3>1. Length(q.x) \in Nat /\ Length(q.y) \in Nat
      BY <1>1, <1>2, AxesOfData
    <3> QED
      BY <2>1, <3>1 DEF Full, Whole, Box, Boxes, Fits
  <2>2. CASE q.zoom # Missing
    BY <1>1, <1>2, <1>7, <2>2, RectangleAssumption DEF Chosen, Boxes
  <2> QED
    BY <2>1, <2>2
<1>10. plane' = q /\ asked' = [view |-> q, request |-> Request(q, b)]
  BY DEF Load, q
<1> HIDE DEF b
<1> QED
  BY <1>7, <1>8, <1>9, <1>10 DEF Loading
\* load_selected after a command
LEMMA StepsLoad ==
    ASSUME ReadsInv, PlaneCommand
    PROVE  /\ \A v : plane' = v => IsClamped(v)
           /\ \A a : asked' = a /\ a # Missing => Loading(a)
<1>1. /\ data \in Datasets /\ IsClamped(plane) /\ Chosen(plane)
      /\ \A a : asked = a /\ a # Missing => Loading(a)
  BY DEF ReadsInv, IsClamped
<1>2. /\ plane.x \in Axes /\ plane.y \in Axes /\ plane.time \in Nat /\ plane.depth \in Nat
      /\ plane.fixed \in [Axes -> Nat] /\ plane.zoom \in Rectangles \cup {Missing}
      /\ plane.time = 0 \/ plane.time < LengthOf("time")
      /\ plane.zoom # Missing => Fits(plane.zoom, Full(plane))
      /\ plane = [x |-> plane.x, y |-> plane.y, time |-> plane.time, depth |-> plane.depth,
                  fixed |-> plane.fixed, zoom |-> plane.zoom]
  BY <1>1 DEF Chosen, Views
<1>3. LengthOf("time") \in Nat /\ LengthOf("depth") \in Nat
  BY <1>1, LengthOfRole
<1>4. ASSUME NEW x \in Axes, NEW y \in Axes, SetDisplayAxes(x, y)
      PROVE  \E p : Chosen(p) /\ Load(p)
  <2> DEFINE p == [plane EXCEPT !.x = x, !.y = y, !.zoom = Missing]
  <2>1. p = [x |-> x, y |-> y, time |-> plane.time, depth |-> plane.depth, fixed |-> plane.fixed,
             zoom |-> Missing]
    <3>1. p = [plane EXCEPT !.x = x, !.y = y, !.zoom = Missing]
      OBVIOUS
    <3> HIDE DEF p
    <3> QED
      BY <1>2, <3>1
  <2>2. Load(p)
    BY <1>4 DEF SetDisplayAxes
  <2> HIDE DEF p
  <2>3. Chosen(p)
    BY <1>2, <2>1 DEF Chosen, Views
  <2> QED
    BY <2>2, <2>3
<1>5. ASSUME StepTime PROVE \E p : Chosen(p) /\ Load(p)
  <2>1. PICK t \in 0 .. LengthOf("time") - 1 : Load([plane EXCEPT !.time = t])
    BY <1>5 DEF StepTime
  <2> DEFINE p == [plane EXCEPT !.time = t]
  <2>2. p = [x |-> plane.x, y |-> plane.y, time |-> t, depth |-> plane.depth, fixed |-> plane.fixed,
             zoom |-> plane.zoom]
    BY <1>2
  <2>3. Load(p)
    BY <2>1
  <2> HIDE DEF p
  <2>4. Chosen(p)
    BY <1>2, <1>3, <2>2 DEF Chosen, Views, Full
  <2> QED
    BY <2>3, <2>4
<1>6. ASSUME StepDepth PROVE \E p : Chosen(p) /\ Load(p)
  <2>1. PICK d \in 0 .. LengthOf("depth") - 1 : Load([plane EXCEPT !.depth = d])
    BY <1>6 DEF StepDepth
  <2> DEFINE p == [plane EXCEPT !.depth = d]
  <2>2. p = [x |-> plane.x, y |-> plane.y, time |-> plane.time, depth |-> d, fixed |-> plane.fixed,
             zoom |-> plane.zoom]
    BY <1>2
  <2>3. Load(p)
    BY <2>1
  <2> HIDE DEF p
  <2>4. Chosen(p)
    BY <1>2, <1>3, <2>2 DEF Chosen, Views, Full
  <2> QED
    BY <2>3, <2>4
<1>7. ASSUME MoveFixedDimension PROVE \E p : Chosen(p) /\ Load(p)
  <2>0. PICK i \in Axes : \E k \in 0 .. Length(i) - 1 : Load([plane EXCEPT !.fixed[i] = k])
    BY <1>7 DEF MoveFixedDimension
  <2>1. PICK k \in 0 .. Length(i) - 1 : Load([plane EXCEPT !.fixed[i] = k])
    BY <2>0
  <2>2. k \in Nat
    BY <1>1, AxesOfData
  <2> DEFINE p == [plane EXCEPT !.fixed[i] = k]
  <2>3. p = [x |-> plane.x, y |-> plane.y, time |-> plane.time, depth |-> plane.depth,
             fixed |-> [plane.fixed EXCEPT ![i] = k], zoom |-> plane.zoom]
    BY <1>2
  <2>4. Load(p)
    BY <2>1
  <2>5. [plane.fixed EXCEPT ![i] = k] \in [Axes -> Nat]
    BY <1>2, <2>2
  <2> HIDE DEF p
  <2>6. Chosen(p)
    BY <1>2, <2>3, <2>5 DEF Chosen, Views, Full
  <2> QED
    BY <2>4, <2>6
<1>8. ASSUME ZoomTo PROVE \E p : Chosen(p) /\ Load(p)
  <2>1. PICK b \in Rectangles \cup {Missing} :
          (b # Missing => Fits(b, Full(plane))) /\ Load([plane EXCEPT !.zoom = b])
    BY <1>8 DEF ZoomTo
  <2> DEFINE p == [plane EXCEPT !.zoom = b]
  <2>2. p = [x |-> plane.x, y |-> plane.y, time |-> plane.time, depth |-> plane.depth,
             fixed |-> plane.fixed, zoom |-> b]
    BY <1>2
  <2>3. Load(p)
    BY <2>1
  <2> HIDE DEF p
  <2>4. Chosen(p)
    BY <1>2, <2>1, <2>2 DEF Chosen, Views, Full
  <2> QED
    BY <2>3, <2>4
<1>9. ASSUME ResetVariableView PROVE \E p : Chosen(p) /\ Load(p)
  <2> DEFINE p == [x |-> ResetAxes[2], y |-> ResetAxes[1], time |-> 0, depth |-> 0,
                   fixed |-> [i \in Axes |-> 0], zoom |-> Missing]
  <2>1. ResetAxes[1] \in Axes /\ ResetAxes[2] \in Axes
    BY <1>1, ChosenAxes
  <2>2. Load(p)
    BY <1>9 DEF ResetVariableView
  <2>3. Chosen(p)
    BY <2>1 DEF Chosen, Views
  <2> QED
    BY <2>2, <2>3
<1>10. ASSUME NEW p, Chosen(p), Load(p)
       PROVE  /\ \A v : plane' = v => IsClamped(v)
              /\ \A a : asked' = a /\ a # Missing => Loading(a)
  BY <1>1, <1>10, LoadIsLoading
<1>11. CASE UNCHANGED <<plane, asked>>
  BY <1>1, <1>11
<1>12. Pin \/ Plot => UNCHANGED <<plane, asked>>
  BY DEF Pin, Plot
<1> QED
  BY <1>4, <1>5, <1>6, <1>7, <1>8, <1>9, <1>10, <1>11, <1>12 DEF PlaneCommand

(* Transposing a slice keeps its cells under the rows and columns they have. *)
LEMMA PermutedFields ==
    ASSUME NEW s, s = [bounds |-> s.bounds, cells |-> s.cells, of |-> s.of, axes |-> s.axes,
                       grid |-> s.grid, gridOf |-> s.gridOf],
           s.of \in Views
    PROVE  /\ Permuted(s) = [bounds |-> Permuted(s).bounds, cells |-> Permuted(s).cells,
                             of |-> Permuted(s).of, axes |-> Permuted(s).axes,
                             grid |-> Permuted(s).grid, gridOf |-> Permuted(s).gridOf]
           /\ Permuted(s).cells = Swapped(s.cells)
           /\ Permuted(s).axes = s.axes /\ Permuted(s).gridOf = s.gridOf
           /\ Permuted(s).bounds = Turned(s.bounds)
           /\ Permuted(s).grid =
                [which \in 1 .. 2 |-> IF s.grid[which] = Missing THEN Missing ELSE Swapped(s.grid[which])]
           /\ Permuted(s).of = [x |-> s.of.y, y |-> s.of.x, time |-> s.of.time, depth |-> s.of.depth,
                                fixed |-> s.of.fixed, zoom |-> s.of.zoom]
<1>1. PICK bounds, cells, of, axes, both, gridOf :
        /\ s = [bounds |-> bounds, cells |-> cells, of |-> of, axes |-> axes,
                grid |-> both, gridOf |-> gridOf]
        /\ of \in Views
  OBVIOUS
<1>2. of = [x |-> of.x, y |-> of.y, time |-> of.time, depth |-> of.depth,
            fixed |-> of.fixed, zoom |-> of.zoom]
  BY <1>1 DEF Views
<1> DEFINE turned == [of EXCEPT !.x = of.y, !.y = of.x]
           grids == [which \in 1 .. 2 |-> IF both[which] = Missing THEN Missing ELSE Swapped(both[which])]
<1>3. turned = [x |-> of.y, y |-> of.x, time |-> of.time, depth |-> of.depth,
                fixed |-> of.fixed, zoom |-> of.zoom]
  <2>1. turned = [of EXCEPT !.x = of.y, !.y = of.x]
    OBVIOUS
  <2> HIDE DEF turned
  <2> QED
    BY <1>2, <2>1
<1> DEFINE t == Permuted(s)
<1>4. t = [bounds |-> Turned(bounds), cells |-> Swapped(cells), of |-> turned, axes |-> axes,
           grid |-> grids, gridOf |-> gridOf]
  <2>1. t = [s EXCEPT !.bounds = Turned(bounds), !.cells = Swapped(cells), !.grid = grids, !.of = turned]
    BY <1>1 DEF Permuted
  <2> HIDE DEF t, turned, grids
  <2> QED
    BY <1>1, <2>1
<1> HIDE DEF t, turned, grids
<1>5. /\ t = [bounds |-> t.bounds, cells |-> t.cells, of |-> t.of, axes |-> t.axes,
              grid |-> t.grid, gridOf |-> t.gridOf]
      /\ t.cells = Swapped(s.cells) /\ t.axes = s.axes /\ t.of = turned
      /\ t.gridOf = s.gridOf /\ t.bounds = Turned(s.bounds) /\ t.grid = grids
      /\ both = s.grid /\ of = s.of
  BY <1>1, <1>4
<1> QED
  BY <1>1, <1>3, <1>5 DEF t, grids

\* Exchanging the axes of a view exchanges the places of a cell.
Exchanged(v, w) ==
    w = [x |-> v.y, y |-> v.x, time |-> v.time, depth |-> v.depth, fixed |-> v.fixed, zoom |-> v.zoom]

LEMMA SwappedDenotes ==
    ASSUME NEW v, NEW w, v.x # v.y, Exchanged(v, w), NEW p, NEW q, p[1] = q[2], p[2] = q[1]
    PROVE  Denoted(w, p) = Denoted(v, q)
<1>1. w.x = v.y /\ w.y = v.x /\ w.time = v.time /\ w.depth = v.depth /\ w.fixed = v.fixed
  BY DEF Exchanged
<1>2. ASSUME NEW i \in Axes PROVE Denoted(w, p)[i] = Denoted(v, q)[i]
  <2>1. CASE i = v.y
    BY <1>1, <2>1 DEF Denoted
  <2>2. CASE i = v.x
    BY <1>1, <2>2 DEF Denoted
  <2>3. CASE i \notin {v.x, v.y}
    BY <1>1, <2>3 DEF Denoted
  <2> QED
    BY <2>1, <2>2, <2>3
<1>3. \A a, u : DOMAIN Denoted(a, u) = Axes /\ Denoted(a, u) = [i \in Axes |-> Denoted(a, u)[i]]
  BY DEF Denoted
<1>4. Denoted(w, p) = [i \in Axes |-> Denoted(w, p)[i]] /\ Denoted(v, q) = [i \in Axes |-> Denoted(v, q)[i]]
  BY <1>3
<1> QED
  BY <1>2, <1>4

\* A cell of a transposed plane is the cell of the plane at the exchanged place.
LEMMA SwappedCells ==
    ASSUME NEW f, DOMAIN f \subseteq Nat \X Nat, NEW p \in DOMAIN Swapped(f)
    PROVE  \E q \in DOMAIN f : p = <<q[2], q[1]>> /\ p[1] = q[2] /\ p[2] = q[1] /\ Swapped(f)[p] = f[q]
<1>1. PICK q \in DOMAIN f : p = <<q[2], q[1]>>
  BY DEF Swapped
<1>2. q = <<q[1], q[2]>> /\ p[1] = q[2] /\ p[2] = q[1]
  BY <1>1
<1>3. Swapped(f)[p] = f[<<p[2], p[1]>>]
  BY DEF Swapped
<1>4. <<p[2], p[1]>> = q
  BY <1>2
<1> QED
  BY <1>1, <1>2, <1>3, <1>4

\* A plane whose axes are exchanged shows the same values.
LEMMA SwappedShows ==
    ASSUME NEW v, NEW w, NEW f, v.x # v.y, DOMAIN f \subseteq Nat \X Nat,
           \A p \in DOMAIN f : f[p] = Value(Denoted(v, p)), Exchanged(v, w)
    PROVE  /\ DOMAIN Swapped(f) \subseteq Nat \X Nat
           /\ \A p \in DOMAIN Swapped(f) : Swapped(f)[p] = Value(Denoted(w, p))
<1>1. DOMAIN Swapped(f) \subseteq Nat \X Nat
  BY DEF Swapped
<1>2. ASSUME NEW p \in DOMAIN Swapped(f) PROVE Swapped(f)[p] = Value(Denoted(w, p))
  <2>1. PICK q \in DOMAIN f : p[1] = q[2] /\ p[2] = q[1] /\ Swapped(f)[p] = f[q]
    BY SwappedCells
  <2>2. Denoted(w, p) = Denoted(v, q)
    BY <2>1, SwappedDenotes
  <2> QED
    BY <2>1, <2>2
<1> QED
  BY <1>1, <1>2

\* What apply_dimension_swap makes of a slice is sound.
LEMMA TransposedIsSound ==
    ASSUME data \in Datasets, NEW s, Sound(s)
    PROVE  Sound(Permuted(s))
<1> DEFINE t == Permuted(s)
<1>1. /\ t = [bounds |-> t.bounds, cells |-> t.cells, of |-> t.of, axes |-> t.axes,
              grid |-> t.grid, gridOf |-> t.gridOf]
      /\ t.cells = Swapped(s.cells) /\ t.axes = s.axes
      /\ t.of = [x |-> s.of.y, y |-> s.of.x, time |-> s.of.time, depth |-> s.of.depth,
                 fixed |-> s.of.fixed, zoom |-> s.of.zoom]
  BY PermutedFields DEF Sound
<1> HIDE DEF t
<1>2. s.of \in Views
  BY DEF Sound
<1>3. t.of \in Views /\ t.of.x = s.of.y /\ t.of.y = s.of.x
  BY <1>1, <1>2 DEF Views
<1>4. ASSUME Unambiguous, InOrder(t.axes)
      PROVE  t.of.x # t.of.y /\ DOMAIN t.cells \subseteq Nat \X Nat /\ Shows(t)
  <2>1. s.of.x # s.of.y /\ DOMAIN s.cells \subseteq Nat \X Nat /\ Shows(s)
    BY <1>1, <1>4 DEF Sound
  <2>2. \A p \in DOMAIN s.cells : s.cells[p] = Value(Denoted(s.of, p))
    BY <2>1 DEF Shows
  <2>3. DOMAIN t.cells \subseteq Nat \X Nat /\ \A p \in DOMAIN t.cells : t.cells[p] = Value(Denoted(t.of, p))
    BY <1>1, <2>1, <2>2, SwappedShows DEF Exchanged
  <2> QED
    BY <1>3, <2>1, <2>3 DEF Shows
<1>5. Sound(t)
  BY <1>1, <1>3, <1>4 DEF Sound
<1> QED
  BY <1>5 DEF t

\* No step leaves a slice that is not of its view.
LEMMA StepsKeepTheSlice ==
    ASSUME ReadsInv, PlaneCommand
    PROVE  \A s : held' = s /\ s # Missing => Sound(s)
<1>1. data \in Datasets /\ \A s : held = s /\ s # Missing => Sound(s)
  BY DEF ReadsInv
<1>2. CASE held' = held
  BY <1>1, <1>2
<1>3. CASE held # Missing /\ held' = Permuted(held)
  <2>1. Sound(held)
    BY <1>1, <1>3
  <2> QED
    BY <1>1, <1>3, <2>1, TransposedIsSound
<1>4. ASSUME NEW x \in Axes, NEW y \in Axes, SetDisplayAxes(x, y)
      PROVE  held' = held \/ (held # Missing /\ held' = Permuted(held))
  BY <1>4 DEF SetDisplayAxes
<1>5. StepTime \/ StepDepth \/ MoveFixedDimension \/ ZoomTo \/ ResetVariableView \/ Pin \/ Plot
        => held' = held
  BY DEF StepTime, StepDepth, MoveFixedDimension, ZoomTo, ResetVariableView, Pin, Plot
<1> QED
  BY <1>2, <1>3, <1>4, <1>5 DEF PlaneCommand

\* An answer of a reader is put on screen under the view it was asked for.
LEMMA AnswerIsSound ==
    ASSUME ReadsInv, Answer
    PROVE  \A s : held' = s /\ s # Missing => Sound(s)
<1>1. /\ data \in Datasets
      /\ \A s : held = s /\ s # Missing => Sound(s)
      /\ Loading(asked)
  BY DEF ReadsInv, Answer
<1>2. PICK v, b : /\ asked = [view |-> v, request |-> Request(v, b)]
                  /\ IsClamped(v) /\ b \in Boxes /\ Fits(b, Full(v))
  BY <1>1 DEF Loading
<1>3. asked.view = v /\ asked.request = Request(v, b)
  BY <1>2
<1> DEFINE cells == Cells(Request(v, b))
<1>4. CASE cells = Missing
  <2>1. held' = held
    BY <1>3, <1>4 DEF Answer
  <2> QED
    BY <1>1, <2>1
<1>5. CASE cells # Missing
  <2>1. PICK both, gridOf :
          held' = [bounds |-> b, cells |-> cells, of |-> v, axes |-> <<v.y, v.x>>,
                   grid |-> both, gridOf |-> gridOf]
    <3>1. held' = [bounds |-> Request(v, b).bounds, cells |-> cells, of |-> v,
                   axes |-> <<Request(v, b).row, Request(v, b).col>>,
                   grid |-> GridFor(gridCache, Request(v, b)).grid,
                   gridOf |-> GridFor(gridCache, Request(v, b)).axes]
      BY <1>3, <1>5 DEF Answer
    <3>2. Request(v, b).bounds = b /\ Request(v, b).row = v.y /\ Request(v, b).col = v.x
      BY RequestFields
    <3> HIDE DEF cells
    <3>3. held' = [bounds |-> b, cells |-> cells, of |-> v, axes |-> <<v.y, v.x>>,
                   grid |-> GridFor(gridCache, Request(v, b)).grid,
                   gridOf |-> GridFor(gridCache, Request(v, b)).axes]
      BY <3>1, <3>2
    <3> QED
      BY <3>3
  <2> HIDE DEF cells
  <2>2. ASSUME NEW s, s = [bounds |-> b, cells |-> cells, of |-> v, axes |-> <<v.y, v.x>>,
                           grid |-> both, gridOf |-> gridOf]
        PROVE  Sound(s)
    <3>0. s.bounds = b /\ s.cells = cells /\ s.of = v /\ s.axes = <<v.y, v.x>>
          /\ s.grid = both /\ s.gridOf = gridOf
      BY <2>2
    <3>1. /\ s = [bounds |-> s.bounds, cells |-> s.cells, of |-> s.of, axes |-> s.axes,
                  grid |-> s.grid, gridOf |-> s.gridOf]
          /\ s.cells = cells /\ s.of = v /\ s.axes = <<v.y, v.x>>
      BY <2>2, <3>0
    <3>2. s.of \in Views
      BY <1>2, <3>1 DEF IsClamped, Chosen
    <3>3. ASSUME Unambiguous, InOrder(s.axes)
          PROVE  s.of.x # s.of.y /\ DOMAIN s.cells \subseteq Nat \X Nat /\ Shows(s)
      <4>1. IsAnswer(v, b, cells)
        BY <1>1, <1>2, <1>5, <3>1, <3>3 DEF IsAnswer, cells
      <4>2. v.x # v.y /\ cells = [p \in CellsOf(b) |-> Value(Denoted(v, p))]
        BY <4>1, AnswerIsRight DEF Right
      <4>3. CellsOf(b) \subseteq Nat \X Nat
        BY <1>2 DEF CellsOf, Boxes
      <4> QED
        BY <3>1, <4>2, <4>3 DEF Shows
    <3> QED
      BY <3>1, <3>2, <3>3 DEF Sound
  <2> QED
    BY <2>1, <2>2
<1> QED
  BY <1>4, <1>5

(* A step leaves the file and its variable: what is true of a view, a read or a *)
(* slice stays true.                                                            *)
LEMMA SameData ==
    ASSUME data' = data
    PROVE  /\ \A v : IsClamped(v)' <=> IsClamped(v)
           /\ \A a : Loading(a)' <=> Loading(a)
           /\ \A s : Sound(s)' <=> Sound(s)
  BY DEF Chosen, Loading, Sound, IsClamped, Held, Request, FixedAxes, Full, Whole, LengthOf,
         Shows, Denoted, Value, Fetched, Listed, Role, Rank, Axes, Length, InOrder, PlaneOf,
         SpatialAxes, StepsAreChunks, WithRole, Named, NamedRole, Token, FirstOf, Unambiguous, Views

LEMMA InitReadsInv == PlaneInit => ReadsInv
<1> SUFFICES ASSUME PlaneInit PROVE ReadsInv
  OBVIOUS
<1> DEFINE opened == [x |-> DefaultAxes[2], y |-> DefaultAxes[1], time |-> 0, depth |-> 0,
                      fixed |-> [i \in Axes |-> 0], zoom |-> Missing]
<1>1. /\ data \in Datasets /\ plane = opened /\ held = Missing
      /\ asked = [view |-> opened, request |-> Request(opened, Full(opened))]
  BY DEF PlaneInit
<1>2. DefaultAxes[1] \in Axes /\ DefaultAxes[2] \in Axes
  BY <1>1, ChosenAxes
<1>3. opened \in Views /\ opened.time = 0 /\ opened.depth = 0 /\ opened.zoom = Missing
      /\ opened.fixed = [i \in Axes |-> 0] /\ opened.x \in Axes /\ opened.y \in Axes
  BY <1>2 DEF Views
<1> HIDE DEF opened
<1>4. Chosen(opened) /\ IsClamped(opened)
  BY <1>3 DEF Chosen, IsClamped
<1>5. Full(opened) \in Boxes /\ Fits(Full(opened), Full(opened))
  <2>1. Length(opened.x) \in Nat /\ Length(opened.y) \in Nat
    BY <1>1, <1>3, AxesOfData
  <2> QED
    BY <2>1 DEF Full, Whole, Box, Boxes, Fits
<1>6. Loading(asked)
  BY <1>1, <1>4, <1>5 DEF Loading
<1> QED
  BY <1>1, <1>4, <1>6 DEF ReadsInv

LEMMA NextReadsInv == ReadsInv /\ [PlaneNext]_planeVars => ReadsInv'
<1> SUFFICES ASSUME ReadsInv, [PlaneNext]_planeVars PROVE ReadsInv'
  OBVIOUS
<1>1. data' = data
  BY DEF PlaneNext, PlaneCommand, SetDisplayAxes, StepTime, StepDepth, MoveFixedDimension, ZoomTo,
         ResetVariableView, Pin, Plot, Press, Answer, planeVars
<1>2. ASSUME /\ \A v : plane' = v => IsClamped(v)
             /\ \A a : asked' = a /\ a # Missing => Loading(a)
             /\ \A s : held' = s /\ s # Missing => Sound(s)
      PROVE  ReadsInv'
  <2>1. data' \in Datasets
    BY <1>1 DEF ReadsInv
  <2> QED
    BY <1>1, <1>2, <2>1, SameData DEF ReadsInv
<1>3. CASE PlaneCommand
  BY <1>2, <1>3, StepsLoad, StepsKeepTheSlice
<1>4. CASE Answer
  <2>1. plane' = plane /\ asked' = Missing
    BY <1>4 DEF Answer
  <2>2. \A v : plane' = v => IsClamped(v)
    BY <2>1 DEF ReadsInv
  <2> QED
    BY <1>2, <1>4, <2>1, <2>2, AnswerIsSound
<1>5. CASE UNCHANGED planeVars
  <2>1. plane' = plane /\ asked' = asked /\ held' = held
    BY <1>5 DEF planeVars
  <2> QED
    BY <1>2, <2>1 DEF ReadsInv
<1> QED
  BY <1>3, <1>4, <1>5 DEF PlaneNext

\* Whatever variable is opened and whatever is asked of it, the view names
\* indices within its axes, the read in flight asks for what the view names, and
\* the slice on screen is what it was asked for (load_selected and its answers).
THEOREM ReadsHold == PlaneSpec => []ReadsInv
<1>1. PlaneInit => ReadsInv
  BY InitReadsInv
<1>2. ReadsInv /\ [PlaneNext]_planeVars => ReadsInv'
  BY NextReadsInv
<1> QED
  BY <1>1, <1>2, PTL DEF PlaneSpec

\* Along the axes that are read as asked, every cell on screen is the element
\* of the variable that its row, its column, the time, the level and the fixed
\* indices name: for variables of any rank, roles, lengths and chunks, any
\* windows and any number of commands and answers.
THEOREM PlaneOfView == PlaneSpec => []PlaneInOrderIsOfView
<1>1. ReadsInv => PlaneInOrderIsOfView
  BY DEF ReadsInv, Sound, PlaneInOrderIsOfView
<1> QED
  BY <1>1, ReadsHold, PTL

(* ------------------- coordinates of planes and of points ------------------ *)

\* The variables whose coordinates are stored along their rows and columns, a
\* grid of two dimensions in the order the reader takes them for a point.
CoordinatesTold ==
    data.coords.kind # "none" =>
      /\ data.coords.dims = DefaultAxes /\ DefaultAxes[1] # DefaultAxes[2]
      /\ data.coords.kind = "axes" \/ PlaneOf([row |-> Missing]) = DefaultAxes

\* The values g of the window b are those stored for the elements under view v.
Gives(which, g, b, v) ==
    DOMAIN g = CellsOf(b) /\ \A p \in CellsOf(b) : g[p] = Stored(which, Denoted(v, p))

\* a grid of coordinate_grid_cache: that of its window and axes
KeptGrid(c) ==
    c = [bounds |-> c.bounds, axes |-> c.axes,
         grid |-> [which \in 1 .. 2 |-> Coordinates(which, c.axes, c.bounds)]]

\* the slice on screen: within the view, with the coordinates stored for it
Placed(s) ==
    /\ s.bounds \in Boxes /\ Fits(s.bounds, Full(s.of))
    /\ s.of.x \in Axes /\ s.of.y \in Axes
    /\ DOMAIN s.cells = CellsOf(s.bounds)
    /\ data.coords.kind = "none" => \A which \in 1 .. 2 : s.grid[which] = Missing
    /\ CoordinatesTold /\ data.coords.kind # "none" /\ s.axes = DefaultAxes /\ s.gridOf = s.axes =>
         /\ s.of.x # s.of.y
         /\ \A which \in 1 .. 2 : s.grid[which] # Missing => Gives(which, s.grid[which], s.bounds, s.of)

\* the selected point: a cell of its plane, with the coordinates stored for it
Marked(m) ==
    /\ m.at \in Nat \X Nat
    /\ m.on[1] \in Axes /\ m.on[2] \in Axes
    /\ m.at[1] < Length(m.on[1]) /\ m.at[2] < Length(m.on[2])
    /\ CoordinatesTold /\ m.on = DefaultAxes =>
         \A which \in 1 .. 2 : m.coordinates[which] # Missing =>
           \A v : v.y = m.on[1] /\ v.x = m.on[2] =>
             m.coordinates[which] = Stored(which, Denoted(v, m.at))

\* What read_coordinate_plane gives of a window is what the file stores for it.
LEMMA CoordinatesAreStored ==
    ASSUME data \in Datasets, CoordinatesTold, data.coords.kind # "none", NEW which \in 1 .. 2,
           NEW rc, data.coords.kind = "axes" \/ rc = DefaultAxes,
           NEW b \in Boxes, Coordinates(which, rc, b) # Missing,
           NEW v, v.y = DefaultAxes[1], v.x = DefaultAxes[2]
    PROVE  Gives(which, Coordinates(which, rc, b), b, v)
<1> DEFINE c == Coordinates(which, rc, b)
<1>1. data.coords.dims = DefaultAxes /\ v.x # v.y /\ v.x \in Axes /\ v.y \in Axes
  BY ChosenAxes DEF CoordinatesTold
<1>2. ASSUME NEW p \in CellsOf(b)
      PROVE  /\ p = <<p[1], p[2]>>
             /\ Denoted(v, p)[data.coords.dims[1]] = p[1]
             /\ Denoted(v, p)[data.coords.dims[2]] = p[2]
  <2>1. p = <<p[1], p[2]>>
    BY CellsArePairs
  <2>2. Denoted(v, p)[v.y] = p[1]
    BY <1>1 DEF Denoted
  <2>3. Denoted(v, p)[v.x] = p[2]
    BY <1>1 DEF Denoted
  <2> QED
    BY <1>1, <2>1, <2>2, <2>3
<1>3. CASE data.coords.kind = "axes"
  <2>1. c = [p \in CellsOf(b) |-> <<p[which]>>]
    BY <1>3 DEF Coordinates
  <2> HIDE DEF c
  <2>2. ASSUME NEW p \in CellsOf(b) PROVE c[p] = Stored(which, Denoted(v, p))
    <3>1. Stored(which, Denoted(v, p)) = <<Denoted(v, p)[data.coords.dims[which]]>>
      BY <1>3 DEF Stored
    <3>2. Denoted(v, p)[data.coords.dims[which]] = p[which]
      BY <1>2
    <3> QED
      BY <2>1, <3>1, <3>2
  <2> QED
    BY <2>1, <2>2 DEF Gives, c
<1>4. CASE data.coords.kind # "axes"
  <2>1. c = [p \in CellsOf(b) |-> p]
    BY <1>1, <1>4 DEF Coordinates
  <2> HIDE DEF c
  <2>2. ASSUME NEW p \in CellsOf(b) PROVE c[p] = Stored(which, Denoted(v, p))
    <3>1. Stored(which, Denoted(v, p)) =
            <<Denoted(v, p)[data.coords.dims[1]], Denoted(v, p)[data.coords.dims[2]]>>
      BY <1>4 DEF Stored
    <3> QED
      BY <1>2, <2>1, <3>1
  <2> QED
    BY <2>1, <2>2 DEF Gives, c
<1> QED
  BY <1>3, <1>4

\* The cells of an answer are those of the window.
LEMMA CellsOfAnswer ==
    ASSUME NEW req, Cells(req) # Missing
    PROVE  DOMAIN Cells(req) = CellsOf(req.bounds)
<1>1. CASE data.format = "netcdf3"
  BY <1>1 DEF Cells, NetCdf3Cells
<1>2. CASE data.format = "grib2"
  BY <1>2 DEF Cells, Grib2Cells
<1>3. CASE data.format = "manifest"
  BY <1>3 DEF Cells
<1>4. CASE data.format \notin {"netcdf3", "grib2", "manifest"}
  BY <1>4 DEF Cells
<1> QED
  BY <1>1, <1>2, <1>3, <1>4

\* A grid kept or read is that of its window and axes.
LEMMA GridIsOfAxes ==
    ASSUME NEW cache, cache # Missing => KeptGrid(cache), NEW req
    PROVE  KeptGrid(GridFor(cache, req)) /\ GridFor(cache, req).bounds = req.bounds
<1>1. CASE data.format = "netcdf4" /\ cache # Missing /\ cache.bounds = req.bounds
  BY <1>1 DEF GridFor
<1>2. CASE ~(data.format = "netcdf4" /\ cache # Missing /\ cache.bounds = req.bounds)
  <2> DEFINE rc == PlaneOf(req)
             both == [which \in 1 .. 2 |-> Coordinates(which, rc, req.bounds)]
  <2>1. GridFor(cache, req) = [bounds |-> req.bounds, axes |-> rc, grid |-> both]
    BY <1>2 DEF GridFor
  <2>2. GridFor(cache, req).bounds = req.bounds /\ GridFor(cache, req).axes = rc
    BY <2>1
  <2> QED
    BY <2>1, <2>2 DEF KeptGrid
<1> QED
  BY <1>1, <1>2

\* The same of the grid kept after a read.
LEMMA CacheIsOfAxes ==
    ASSUME NEW cache, cache # Missing => KeptGrid(cache), NEW req, CacheAfter(cache, req) # Missing
    PROVE  KeptGrid(CacheAfter(cache, req))
  BY GridIsOfAxes DEF CacheAfter

\* An answer is put on screen with the coordinates stored for its elements.
LEMMA AnswerIsPlaced ==
    ASSUME ReadsInv, Answer, \A c : gridCache = c /\ c # Missing => KeptGrid(c),
           \A s : held = s /\ s # Missing => Placed(s)
    PROVE  /\ \A s : held' = s /\ s # Missing => Placed(s)
           /\ \A c : gridCache' = c /\ c # Missing => KeptGrid(c)
<1>1. data \in Datasets /\ Loading(asked)
  BY DEF ReadsInv, Answer
<1>2. PICK v, b : /\ asked = [view |-> v, request |-> Request(v, b)]
                  /\ IsClamped(v) /\ b \in Boxes /\ Fits(b, Full(v))
  BY <1>1 DEF Loading
<1>3. asked.view = v /\ asked.request = Request(v, b)
  BY <1>2
<1>4. v.x \in Axes /\ v.y \in Axes
  BY <1>2 DEF IsClamped, Chosen, Views
<1> DEFINE req == Request(v, b)
           cells == Cells(req)
           kept == GridFor(gridCache, req)
<1>5. req.bounds = b /\ req.row = v.y /\ req.col = v.x
  BY RequestFields
<1>6. KeptGrid(kept) /\ kept.bounds = b
  BY <1>5, GridIsOfAxes
<1>7. \A c : gridCache' = c /\ c # Missing => KeptGrid(c)
  <2> DEFINE cache == CacheAfter(gridCache, req)
  <2>1. gridCache' \in {cache, CacheAfter(cache, Request(v, Full(v)))}
    BY <1>3 DEF Answer
  <2>2. cache # Missing => KeptGrid(cache)
    BY CacheIsOfAxes
  <2> HIDE DEF cache
  <2>3. \A c : c = CacheAfter(cache, Request(v, Full(v))) /\ c # Missing => KeptGrid(c)
    BY <2>2, CacheIsOfAxes
  <2> QED
    BY <2>1, <2>2, <2>3
<1>8. CASE cells = Missing
  <2>1. held' = held
    BY <1>3, <1>8 DEF Answer
  <2>2. \A s : held' = s /\ s # Missing => Placed(s)
    BY <2>1
  <2> QED
    BY <2>2, <1>7
<1>9. CASE cells # Missing
  <2>1. held' = [bounds |-> b, cells |-> cells, of |-> v, axes |-> <<v.y, v.x>>,
                 grid |-> kept.grid, gridOf |-> kept.axes]
    <3>1. held' = [bounds |-> req.bounds, cells |-> cells, of |-> v, axes |-> <<req.row, req.col>>,
                   grid |-> kept.grid, gridOf |-> kept.axes]
      BY <1>3, <1>9 DEF Answer
    <3> HIDE DEF req, cells, kept
    <3> QED
      BY <1>5, <3>1
  <2>2. DOMAIN cells = CellsOf(b)
    BY <1>5, <1>9, CellsOfAnswer
  <2> HIDE DEF req, cells
  <2>3. ASSUME NEW s, s = [bounds |-> b, cells |-> cells, of |-> v, axes |-> <<v.y, v.x>>,
                           grid |-> kept.grid, gridOf |-> kept.axes]
        PROVE  Placed(s)
    <3>1. s.bounds = b /\ s.cells = cells /\ s.of = v /\ s.axes = <<v.y, v.x>>
          /\ s.grid = kept.grid /\ s.gridOf = kept.axes
      BY <2>3
    <3>2. ASSUME CoordinatesTold, data.coords.kind # "none", s.axes = DefaultAxes, s.gridOf = s.axes
          PROVE  /\ s.of.x # s.of.y
                 /\ \A which \in 1 .. 2 :
                      s.grid[which] # Missing => Gives(which, s.grid[which], s.bounds, s.of)
      <4>1. v.y = DefaultAxes[1] /\ v.x = DefaultAxes[2] /\ v.x # v.y /\ kept.axes = DefaultAxes
        BY <3>1, <3>2 DEF CoordinatesTold
      <4>2. kept.grid = [which \in 1 .. 2 |-> Coordinates(which, kept.axes, b)]
        BY <1>6 DEF KeptGrid
      <4> HIDE DEF kept
      <4>3. ASSUME NEW which \in 1 .. 2, s.grid[which] # Missing
            PROVE  Gives(which, s.grid[which], s.bounds, s.of)
        <5>1. s.grid[which] = Coordinates(which, DefaultAxes, b)
          BY <3>1, <4>1, <4>2
        <5>2. Gives(which, Coordinates(which, DefaultAxes, b), b, v)
          BY <1>1, <1>2, <3>2, <4>1, <4>3, <5>1, CoordinatesAreStored
        <5> QED
          BY <3>1, <5>1, <5>2
      <4> QED
        BY <3>1, <4>1, <4>3
    <3>3. data.coords.kind = "none" => \A which \in 1 .. 2 : s.grid[which] = Missing
      <4>1. kept.grid = [which \in 1 .. 2 |-> Coordinates(which, kept.axes, b)]
        BY <1>6 DEF KeptGrid
      <4> HIDE DEF kept
      <4> QED
        BY <3>1, <4>1 DEF Coordinates
    <3> QED
      BY <1>2, <1>4, <2>2, <3>1, <3>2, <3>3 DEF Placed
  <2>4. \A s : held' = s /\ s # Missing => Placed(s)
    BY <2>1, <2>3
  <2> QED
    BY <2>4, <1>7
<1> QED
  BY <1>8, <1>9

\* Transposing a slice transposes its coordinates with it.
LEMMA TransposedIsPlaced ==
    ASSUME data \in Datasets, NEW s, Sound(s), Placed(s)
    PROVE  Placed(Permuted(s))
<1> DEFINE t == Permuted(s)
<1>1. /\ t.bounds = Turned(s.bounds) /\ t.cells = Swapped(s.cells) /\ t.axes = s.axes
      /\ t.gridOf = s.gridOf
      /\ t.grid = [which \in 1 .. 2 |-> IF s.grid[which] = Missing THEN Missing ELSE Swapped(s.grid[which])]
      /\ Exchanged(s.of, t.of)
  BY PermutedFields DEF Sound, Exchanged
<1> HIDE DEF t
<1>2. t.of.x = s.of.y /\ t.of.y = s.of.x /\ t.of.x \in Axes /\ t.of.y \in Axes
  BY <1>1 DEF Exchanged, Placed
<1>3. s.bounds \in Boxes /\ Fits(s.bounds, Full(s.of)) /\ DOMAIN s.cells = CellsOf(s.bounds)
  BY DEF Placed
<1>4. t.bounds \in Boxes /\ Fits(t.bounds, Full(t.of))
  <2>1. /\ t.bounds.top = s.bounds.left /\ t.bounds.bottom = s.bounds.right
        /\ t.bounds.left = s.bounds.top /\ t.bounds.right = s.bounds.bottom
        /\ t.bounds \in Boxes
    BY <1>1, <1>3 DEF Turned, Box, Boxes
  <2> QED
    BY <1>2, <1>3, <2>1 DEF Fits, Full, Whole, Box
<1>5. CellsOf(s.bounds) \subseteq Nat \X Nat
  BY <1>3 DEF CellsOf, Boxes
<1>6. ASSUME NEW f, DOMAIN f = CellsOf(s.bounds)
      PROVE  DOMAIN Swapped(f) = CellsOf(t.bounds)
  <2>1. DOMAIN Swapped(f) = {<<q[2], q[1]>> : q \in CellsOf(s.bounds)}
    BY <1>6 DEF Swapped
  <2>2. CellsOf(s.bounds) = (s.bounds.top .. s.bounds.bottom - 1) \X (s.bounds.left .. s.bounds.right - 1)
    BY DEF CellsOf
  <2>3. CellsOf(t.bounds) = (s.bounds.left .. s.bounds.right - 1) \X (s.bounds.top .. s.bounds.bottom - 1)
    BY <1>1 DEF CellsOf, Turned, Box
  <2>4. \A A, B : {<<q[2], q[1]>> : q \in A \X B} = B \X A
    <3> SUFFICES ASSUME NEW A, NEW B PROVE {<<q[2], q[1]>> : q \in A \X B} = B \X A
      OBVIOUS
    <3>1. {<<q[2], q[1]>> : q \in A \X B} \subseteq B \X A
      OBVIOUS
    <3>2. ASSUME NEW u \in B \X A PROVE u \in {<<q[2], q[1]>> : q \in A \X B}
      <4>1. <<u[2], u[1]>> \in A \X B /\ u = <<u[1], u[2]>>
        OBVIOUS
      <4>2. u = <<(<<u[2], u[1]>>)[2], (<<u[2], u[1]>>)[1]>>
        BY <4>1
      <4> QED
        BY <4>1, <4>2
    <3> QED
      BY <3>1, <3>2
  <2> QED
    BY <2>1, <2>2, <2>3, <2>4
<1>7. ASSUME CoordinatesTold, data.coords.kind # "none", t.axes = DefaultAxes, t.gridOf = t.axes
      PROVE  /\ t.of.x # t.of.y
             /\ \A which \in 1 .. 2 :
                  t.grid[which] # Missing => Gives(which, t.grid[which], t.bounds, t.of)
  <2>1. /\ s.of.x # s.of.y
        /\ \A which \in 1 .. 2 :
             s.grid[which] # Missing => Gives(which, s.grid[which], s.bounds, s.of)
    BY <1>1, <1>7 DEF Placed
  <2>2. ASSUME NEW which \in 1 .. 2, t.grid[which] # Missing
        PROVE  Gives(which, t.grid[which], t.bounds, t.of)
    <3> DEFINE f == s.grid[which]
    <3>1. t.grid[which] = Swapped(f) /\ f # Missing
      BY <1>1, <2>2
    <3>2. DOMAIN f = CellsOf(s.bounds) /\ \A q \in CellsOf(s.bounds) : f[q] = Stored(which, Denoted(s.of, q))
      BY <2>1, <3>1 DEF Gives
    <3> HIDE DEF f
    <3>3. DOMAIN Swapped(f) = CellsOf(t.bounds)
      BY <1>6, <3>2
    <3>4. ASSUME NEW p \in CellsOf(t.bounds) PROVE Swapped(f)[p] = Stored(which, Denoted(t.of, p))
      <4>1. PICK q \in DOMAIN f : p[1] = q[2] /\ p[2] = q[1] /\ Swapped(f)[p] = f[q]
        BY <1>5, <3>2, <3>3, SwappedCells
      <4>2. Denoted(t.of, p) = Denoted(s.of, q)
        BY <1>1, <2>1, <4>1, SwappedDenotes
      <4> QED
        BY <3>2, <4>1, <4>2
    <3> QED
      BY <3>1, <3>3, <3>4 DEF Gives
  <2> QED
    BY <1>2, <2>1, <2>2
<1>8. DOMAIN t.cells = CellsOf(t.bounds)
  BY <1>1, <1>3, <1>6
<1>9. data.coords.kind = "none" => \A which \in 1 .. 2 : t.grid[which] = Missing
  BY <1>1 DEF Placed
<1>10. Placed(t)
  BY <1>2, <1>4, <1>7, <1>8, <1>9 DEF Placed
<1> QED
  BY <1>10 DEF t

\* A click on the map pins a cell of the plane with the coordinates stored for it.
LEMMA PinIsMarked ==
    ASSUME ReadsInv, Pin, \A s : held = s /\ s # Missing => Placed(s)
    PROVE  \A m : pinned' = m => Marked(m)
<1>1. data \in Datasets /\ held # Missing /\ Placed(held)
  BY DEF ReadsInv, Pin
<1>2. PICK p \in CellsOf(held.bounds) :
        pinned' = [at |-> p, on |-> <<held.of.y, held.of.x>>, coordinates |-> PointCoordinates(p)]
  BY DEF Pin
<1>3. /\ held.bounds \in Boxes /\ Fits(held.bounds, Full(held.of))
      /\ held.of.x \in Axes /\ held.of.y \in Axes
  BY <1>1 DEF Placed
<1>4. /\ p = <<p[1], p[2]>> /\ p[1] \in Nat /\ p[2] \in Nat
      /\ p[1] < held.bounds.bottom /\ p[2] < held.bounds.right
  BY <1>3, CellsArePairs
<1>5. p[1] < Length(held.of.y) /\ p[2] < Length(held.of.x)
  <2>1. held.bounds.bottom <= Length(held.of.y) /\ held.bounds.right <= Length(held.of.x)
    BY <1>3 DEF Fits, Full, Whole, Box
  <2>2. Length(held.of.y) \in Nat /\ Length(held.of.x) \in Nat
    BY <1>1, <1>3, AxesOfData
  <2>3. held.bounds.bottom \in Nat /\ held.bounds.right \in Nat
    BY <1>3 DEF Boxes
  <2> QED
    BY <1>4, <2>1, <2>2, <2>3
<1>6. OneCell(p) \in Boxes /\ p \in CellsOf(OneCell(p))
  <2>1. OneCell(p) \in Boxes /\ CellsOf(OneCell(p)) = (p[1] .. p[1] + 1 - 1) \X (p[2] .. p[2] + 1 - 1)
    BY <1>4 DEF OneCell, Box, Boxes, CellsOf
  <2>2. p[1] \in p[1] .. p[1] + 1 - 1 /\ p[2] \in p[2] .. p[2] + 1 - 1
    BY <1>4
  <2>3. <<p[1], p[2]>> \in CellsOf(OneCell(p))
    BY <2>1, <2>2
  <2> QED
    BY <1>4, <2>1, <2>3
<1> DEFINE rc == PlaneOf([row |-> Missing])
<1>7. ASSUME CoordinatesTold, NEW which \in 1 .. 2, PointCoordinates(p)[which] # Missing,
             NEW v, v.y = DefaultAxes[1], v.x = DefaultAxes[2]
      PROVE  PointCoordinates(p)[which] = Stored(which, Denoted(v, p))
  <2> DEFINE c == Coordinates(which, rc, OneCell(p))
  <2>1. c # Missing /\ PointCoordinates(p)[which] = c[p]
    BY <1>7 DEF PointCoordinates
  <2>2. data.coords.kind # "none"
    BY <2>1 DEF Coordinates
  <2>3. data.coords.kind = "axes" \/ rc = DefaultAxes
    BY <1>7, <2>2 DEF CoordinatesTold
  <2>4. Gives(which, c, OneCell(p), v)
    <3> HIDE DEF rc
    <3> QED
      BY <1>1, <1>6, <1>7, <2>1, <2>2, <2>3, CoordinatesAreStored
  <2> QED
    BY <1>6, <2>1, <2>4 DEF Gives
<1>8. ASSUME NEW m, m = [at |-> p, on |-> <<held.of.y, held.of.x>>, coordinates |-> PointCoordinates(p)]
      PROVE  Marked(m)
  <2>1. /\ m.at = p /\ m.on[1] = held.of.y /\ m.on[2] = held.of.x /\ m.coordinates = PointCoordinates(p)
    BY <1>8
  <2>2. p \in Nat \X Nat
    BY <1>4
  <2>3. ASSUME CoordinatesTold, m.on = DefaultAxes, NEW which \in 1 .. 2, m.coordinates[which] # Missing,
               NEW v, v.y = m.on[1], v.x = m.on[2]
        PROVE  m.coordinates[which] = Stored(which, Denoted(v, m.at))
    BY <1>7, <2>1, <2>3
  <2> QED
    BY <1>3, <1>5, <2>1, <2>2, <2>3 DEF Marked
<1> QED
  BY <1>2, <1>8

(* ----------------------------- plots of a map ---------------------------- *)

\* What a plot takes for granted of a map: one time and one level at most, no
\* dimension without elements, and that the reader, which is not told the axes,
\* goes by the same roles as the view; NetCDF-3 reads two dimensions only.
Told ==
    /\ Unambiguous
    /\ \A i \in Axes : Length(i) > 0
    /\ PlaneOf([row |-> Missing]) = DefaultAxes
    /\ data.format = "netcdf4" =>
         \A i \in Axes \ {DefaultAxes[1], DefaultAxes[2]} : RoleRead(i, DefaultAxes) = Role(i)
    /\ data.format = "netcdf3" => Rank = 2
PlotsTold == Geographic([y |-> DefaultAxes[1], x |-> DefaultAxes[2]]) => Told

\* None is no plane of cells.
NoneIsNoPlane == \A S, F : Missing # [p \in S |-> F[p]]

\* the plane of a map
OnMap ==
    /\ data \in Datasets /\ IsClamped(plane) /\ Geographic(plane)
    /\ StepsAreChunks /\ PlotsTold /\ NoneIsNoPlane

\* The axes of a map are its latitudes and its longitudes.
LEMMA MapAxes ==
    ASSUME OnMap
    PROVE  /\ Told
           /\ plane.x \in Axes /\ plane.y \in Axes /\ plane.x # plane.y
           /\ DefaultAxes = <<plane.y, plane.x>> /\ Spatial = <<plane.y, plane.x>>
           /\ PlaneOf([row |-> Missing]) = <<plane.y, plane.x>>
           /\ Role(plane.y) = "lat" /\ Role(plane.x) = "lon"
           /\ \A i \in Axes \ {plane.x, plane.y} : Role(i) \in {"time", "depth"}
           /\ \A i \in Axes : Length(i) \in Nat /\ Length(i) > 0
           /\ plane.time \in Nat /\ plane.depth \in Nat
<1>1. /\ <<plane.y, plane.x>> = DefaultAxes /\ Role(plane.y) = "lat" /\ Role(plane.x) = "lon"
      /\ \A i \in Axes \ {plane.x, plane.y} : Role(i) \in {"time", "depth"}
      /\ data \in Datasets
  BY DEF OnMap, Geographic
<1>2. plane.x \in Axes /\ plane.y \in Axes /\ plane.time \in Nat /\ plane.depth \in Nat
  BY DEF OnMap, IsClamped, Chosen, Views
<1>3. Geographic([y |-> DefaultAxes[1], x |-> DefaultAxes[2]])
  <2>1. DefaultAxes[1] = plane.y /\ DefaultAxes[2] = plane.x
    BY <1>1
  <2> QED
    BY <1>1, <2>1 DEF Geographic
<1>4. Told
  BY <1>3 DEF OnMap, PlotsTold
<1>5. Spatial = DefaultAxes
  <2>1. WithRole("lat") # {} /\ WithRole("lon") # {}
    BY <1>1, <1>2 DEF WithRole
  <2> QED
    BY <2>1 DEF Spatial, DefaultAxes, FirstOf
<1>6. \A i \in Axes : Length(i) \in Nat
  BY <1>1, AxesOfData
<1> QED
  BY <1>1, <1>2, <1>4, <1>5, <1>6 DEF Told

\* The indices of a map outside its plane: the time and the level of the view.
LEMMA MapIndex ==
    ASSUME OnMap, NEW i \in Axes \ {plane.x, plane.y}
    PROVE  /\ \A p : Denoted(plane, p)[i] = IF Role(i) = "time" THEN plane.time ELSE plane.depth
           /\ Role(i) = "time" => plane.time < Length(i)
           /\ Role(i) = "depth" => plane.depth < Length(i) /\ AtMost(plane.depth, LeadingDepth) = plane.depth
<1>1. /\ plane.x \in Axes /\ plane.y \in Axes /\ Role(plane.y) = "lat" /\ Role(plane.x) = "lon"
      /\ Spatial = <<plane.y, plane.x>>
      /\ \A j \in Axes \ {plane.x, plane.y} : Role(j) \in {"time", "depth"}
      /\ Length(i) \in Nat /\ Length(i) > 0 /\ plane.time \in Nat /\ plane.depth \in Nat
      /\ Unambiguous
  BY MapAxes DEF Told
<1>2. data \in Datasets /\ IsClamped(plane)
  BY DEF OnMap
<1>3. \A p : Denoted(plane, p)[i] = IF Role(i) = "time" THEN plane.time ELSE plane.depth
  BY <1>1 DEF Denoted
<1>4. ASSUME Role(i) = "time" PROVE plane.time < Length(i)
  <2>1. LengthOf("time") = Length(i)
    BY <1>1, <1>2, <1>4, OnlyOfRole
  <2>2. plane.time = 0 \/ plane.time < LengthOf("time")
    BY <1>2 DEF IsClamped, Chosen
  <2> QED
    BY <1>1, <2>1, <2>2
<1>5. ASSUME Role(i) = "depth" PROVE plane.depth < Length(i) /\ AtMost(plane.depth, LeadingDepth) = plane.depth
  <2>1. LengthOf("depth") = Length(i) /\ WithRole("depth") = {i}
    BY <1>1, <1>2, <1>5, OnlyOfRole
  <2>2. plane.depth = 0 \/ plane.depth < LengthOf("depth")
    BY <1>1, <1>2 DEF IsClamped
  <2>3. LeadingDepth = Length(i)
    <3> DEFINE deep == {j \in Axes \ {Spatial[1], Spatial[2]} : LeadingRole(j) = "depth"}
    <3>1. deep = {i}
      <4>1. \A j \in Axes \ {plane.x, plane.y} : LeadingRole(j) = Role(j)
        BY <1>1 DEF LeadingRole
      <4>2. \A j \in Axes : Role(j) = "depth" => j = i
        BY <2>1 DEF WithRole
      <4> QED
        BY <1>1, <1>5, <4>1, <4>2
    <3>2. i \in Nat
      BY <1>2, AxesOfData
    <3>3. Max({i}) = i
      BY <3>2 DEF Max
    <3>4. LeadingDepth = IF deep = {} THEN 1 ELSE Length(Max(deep))
      BY DEF LeadingDepth
    <3> HIDE DEF deep
    <3> QED
      BY <3>1, <3>3, <3>4
  <2> QED
    BY <1>1, <2>1, <2>2, <2>3, AtMostIs
<1> QED
  BY <1>3, <1>4, <1>5

\* A read without axes and with the time and the level of the view, cell by cell.
LEMMA PlainReads ==
    ASSUME OnMap, NEW b \in Boxes, Fits(b, Full(plane))
    PROVE  Cells(Plain(plane.time, b)) =
             [p \in CellsOf(b) |-> Value(Denoted(plane, Filled(b, <<plane.y, plane.x>>, p)))]
<1> DEFINE depth == AtMost(plane.depth, LeadingDepth)
           req == Plain(plane.time, b)
           y == plane.y
           x == plane.x
<1>1. /\ Told /\ y \in Axes /\ x \in Axes /\ x # y
      /\ DefaultAxes = <<y, x>> /\ PlaneOf([row |-> Missing]) = <<y, x>>
      /\ \A i \in Axes \ {x, y} : Role(i) \in {"time", "depth"}
      /\ \A i \in Axes : Length(i) \in Nat
      /\ plane.time \in Nat /\ plane.depth \in Nat
  BY MapAxes
<1>2. /\ req.bounds = b /\ req.time = plane.time /\ req.depth = depth
      /\ req.row = Missing /\ req.col = Missing /\ req.fixed = << >>
  BY DEF Plain
<1>3. data \in Datasets /\ StepsAreChunks
  BY DEF OnMap
<1>4. Fits(b, Whole(y, x))
  BY DEF Full
<1>5. PlaneOf(req) = <<y, x>>
  BY <1>1, <1>2 DEF PlaneOf
<1>6. ASSUME NEW p \in CellsOf(b)
      PROVE  /\ p = <<p[1], p[2]>> /\ p[1] \in Nat /\ p[2] \in Nat
             /\ p[1] < Length(y) /\ p[2] < Length(x)
  <2>1. /\ p = <<p[1], p[2]>> /\ p[1] \in Nat /\ p[2] \in Nat /\ p[1] < b.bottom /\ p[2] < b.right
    BY CellsArePairs
  <2>2. b.bottom <= Length(y) /\ b.right <= Length(x)
    BY <1>4 DEF Fits, Whole, Box
  <2>3. b.bottom \in Nat /\ b.right \in Nat /\ Length(y) \in Nat /\ Length(x) \in Nat
    BY <1>1 DEF Boxes
  <2> QED
    BY <2>1, <2>2, <2>3
<1> HIDE DEF req, y, x
<1>7. CASE data.format \in {"netcdf4", "mpas"}
  <2> DEFINE rc == PlaneOf(req)
             rest == [i \in Axes \ {rc[1], rc[2]} |-> CHOOSE k \in Indices(req, i, rc) : TRUE]
  <2>1. rc[1] = y /\ rc[2] = x
    BY <1>5
  <2>2. ASSUME NEW i \in Axes \ {rc[1], rc[2]}
        PROVE  /\ \A p : Indices(req, i, rc) = {Denoted(plane, p)[i]}
               /\ \A p : Denoted(plane, p)[i] < Length(i)
    <3>1. RoleRead(i, rc) = Role(i)
      <4>1. CASE data.format = "netcdf4"
        <5>1. i \in Axes \ {DefaultAxes[1], DefaultAxes[2]} /\ rc = DefaultAxes
          BY <1>1, <1>5, <2>1
        <5> HIDE DEF rc
        <5> QED
          BY <1>1, <4>1, <5>1 DEF Told
      <4>2. CASE data.format = "mpas"
        BY <4>2 DEF RoleRead
      <4> QED
        BY <1>7, <4>1, <4>2
    <3>2. i \notin DOMAIN req.fixed
      BY <1>2
    <3>3. i \in Axes \ {plane.x, plane.y}
      BY <2>1 DEF x, y
    <3>4. Role(i) \in {"time", "depth"}
      BY <1>1, <2>1
    <3>5. Indices(req, i, rc) = IF Role(i) = "time" THEN {plane.time} ELSE {depth}
      <4> HIDE DEF rc
      <4> QED
        BY <1>2, <3>1, <3>2, <3>4 DEF Indices
    <3> QED
      BY <3>3, <3>4, <3>5, MapIndex
  <2> HIDE DEF rc
  <2>3. Readable(req, rc)
    <3>1. \A i \in Axes \ {rc[1], rc[2]} : \E k \in Indices(req, i, rc) : k < Length(i)
      BY <2>2
    <3> QED
      BY <1>1, <1>2, <1>4, <2>1, <3>1 DEF Readable
  <2>4. Cells(req) = [p \in CellsOf(b) |-> Element(rc[1], rc[2], Filled(b, rc, p), rest)]
    BY <1>2, <1>7, <2>3 DEF Cells, rc
  <2>5. ASSUME NEW p PROVE Element(rc[1], rc[2], p, rest) = Denoted(plane, p)
    <3>1. ASSUME NEW i \in Axes PROVE Element(rc[1], rc[2], p, rest)[i] = Denoted(plane, p)[i]
      <4>1. CASE i = y
        BY <1>1, <2>1, <4>1 DEF Element, Denoted, x, y
      <4>2. CASE i # y /\ i = x
        BY <2>1, <4>2 DEF Element, Denoted, x, y
      <4>3. CASE i \notin {x, y}
        <5>1. Element(rc[1], rc[2], p, rest)[i] = CHOOSE k \in Indices(req, i, rc) : TRUE
          BY <2>1, <4>3 DEF Element
        <5>2. Indices(req, i, rc) = {Denoted(plane, p)[i]}
          BY <2>1, <2>2, <4>3
        <5>3. \A e : (CHOOSE k \in {e} : TRUE) = e
          OBVIOUS
        <5> QED
          BY <5>1, <5>2, <5>3
      <4> QED
        BY <4>1, <4>2, <4>3
    <3> HIDE DEF rest
    <3> QED
      BY <3>1 DEF Element, Denoted
  <2>6. \A e : Value(e) = e
    BY <1>7 DEF Value
  <2> HIDE DEF rest
  <2>7. rc = <<plane.y, plane.x>>
    BY <1>5 DEF rc, x, y
  <2> QED
    BY <2>4, <2>5, <2>6, <2>7 DEF req
<1>8. CASE data.format \in {"netcdf3", "grib2", "manifest"}
  <2>1. \A p : Filled(b, <<plane.y, plane.x>>, p) = p
    BY <1>8 DEF Filled
  <2>2. ASSUME NEW p \in CellsOf(b), Rank = 2, y = 1, x = 2 PROVE p = Denoted(plane, p)
    <3>1. Denoted(plane, p) = [i \in 1 .. 2 |-> IF i = 1 THEN p[1] ELSE p[2]]
      BY <2>2 DEF Denoted, Axes, x, y
    <3>2. [i \in 1 .. 2 |-> IF i = 1 THEN p[1] ELSE p[2]] = <<p[1], p[2]>>
      OBVIOUS
    <3> QED
      BY <1>6, <3>1, <3>2
  <2>3. CASE data.format = "netcdf3"
    <3>1. y = 1 /\ x = 2 /\ Rank = 2
      BY <1>1, <2>3 DEF Told, PlaneOf
    <3>2. Cells(req) = [p \in CellsOf(b) |-> p]
      BY <1>2, <1>4, <2>3, <3>1 DEF Cells, NetCdf3Cells
    <3>3. \A e : Value(e) = e
      BY <2>3 DEF Value
    <3> QED
      BY <2>1, <2>2, <3>1, <3>2, <3>3 DEF req
  <2>4. CASE data.format = "grib2"
    <3>1. data.dims[1].role = "lat" /\ data.dims[2].role = "lon" /\ Len(data.dims) = 2
      <4>1. <<data.dims[1].role, data.dims[2].role, Len(data.dims)>> = <<"lat", "lon", 2>>
        BY <1>3, <2>4, DatasetAssumption
      <4> QED
        BY <4>1
    <3>2. Axes = {1, 2}
      BY <3>1 DEF Axes, Rank
    <3>3. Cells(req) = [p \in CellsOf(b) |-> Element(y, x, p, [i \in Axes |-> 0])]
      BY <1>2, <1>4, <1>5, <2>4 DEF Cells, Grib2Cells
    <3>4. ASSUME NEW p PROVE Element(y, x, p, [i \in Axes |-> 0]) = Denoted(plane, p)
      BY <1>1, <3>2 DEF Element, Denoted, x, y
    <3>5. \A e : Value(e) = e
      BY <2>4 DEF Value
    <3> QED
      BY <2>1, <3>3, <3>4, <3>5 DEF req
  <2>5. CASE data.format = "manifest"
    <3>1. y = Rank - 1 /\ x = Rank
      BY <1>1, <2>5 DEF PlaneOf
    <3>2. Cells(req) = [p \in CellsOf(b) |-> InChunk(req, p)]
      BY <1>2, <2>5 DEF Cells
    <3>3. Rank = 4 => req.depth = plane.depth
      <4> SUFFICES ASSUME Rank = 4 PROVE depth = plane.depth
        BY <1>2
      <4>1. Role(2) = "depth"
        BY <1>3, <2>5 DEF StepsAreChunks
      <4>2. 2 \in Axes \ {plane.x, plane.y}
        BY <3>1 DEF Axes, x, y
      <4> QED
        BY <4>1, <4>2, MapIndex
    <3>4. ASSUME NEW p \in CellsOf(b) PROVE InChunk(req, p) = Value(Denoted(plane, p))
      <4>1. /\ p = <<p[1], p[2]>> /\ p[1] \in Nat /\ p[2] \in Nat
            /\ p[1] < Length(Rank - 1) /\ p[2] < Length(Rank)
        BY <1>6, <3>1
      <4>2. plane.y = Rank - 1 /\ plane.x = Rank
        BY <3>1 DEF x, y
      <4> QED
        BY <1>1, <1>2, <1>3, <2>5, <3>3, <4>1, <4>2, ChunkHoldsElement
    <3> QED
      BY <2>1, <3>2, <3>4 DEF req
  <2> QED
    BY <1>8, <2>3, <2>4, <2>5
<1>9. data.format \in {"netcdf4", "netcdf3", "mpas", "grib2", "manifest"}
  BY <1>3, DatasetAssumption
<1> QED
  BY <1>7, <1>8, <1>9 DEF req

\* In a window of one row or of one column the values come in order.
LEMMA FilledLine ==
    ASSUME NEW b \in Boxes, NEW rc, NEW p \in CellsOf(b),
           b.right = b.left + 1 /\ p[1] - b.top < b.bottom - b.top
    PROVE  Filled(b, rc, p) = p
<1>1. /\ p = <<p[1], p[2]>> /\ p[1] \in Nat /\ p[2] = b.left
      /\ b.top \in Nat /\ b.bottom \in Nat /\ b.left \in Nat /\ b.right \in Nat
      /\ b.top <= p[1] /\ p[1] < b.bottom
  <2>1. b.top \in Nat /\ b.bottom \in Nat /\ b.left \in Nat /\ b.right \in Nat
    BY DEF Boxes
  <2>2. p[1] \in b.top .. b.bottom - 1 /\ p[2] \in b.left .. b.right - 1 /\ p = <<p[1], p[2]>>
    BY DEF CellsOf
  <2> QED
    BY <2>1, <2>2
<1> DEFINE rows == b.bottom - b.top
           nth == (p[1] - b.top) * (b.right - b.left) + p[2] - b.left
<1>2. nth = p[1] - b.top
  BY <1>1
<1>3. nth % rows = p[1] - b.top /\ nth \div rows = 0
  <2> DEFINE n == p[1] - b.top
  <2>1. n \in Nat /\ rows \in Nat \ {0} /\ n < rows
    BY <1>1
  <2> HIDE DEF n, rows
  <2>2. n % rows = n /\ n \div rows = 0
    BY <2>1
  <2> QED
    BY <1>2, <2>2 DEF n
<1>4. <<b.top + (nth % rows), b.left + (nth \div rows)>> = p
  <2> HIDE DEF nth, rows
  <2> QED
    BY <1>1, <1>3
<1> HIDE DEF nth, rows
<1> QED
  BY <1>4 DEF Filled, nth, rows

\* the row r and the column c of the n-th value of a window, counted by columns
NthIs(rows, cols, r, c, i, j, n) ==
    i < rows /\ j < cols /\ n = i * cols + j /\ n % rows = r /\ n \div rows = c

\* Every row and column is counted.
LEMMA Counted ==
    ASSUME NEW rows \in Nat, NEW cols \in Nat, NEW r \in Nat, NEW c \in Nat, r < rows, c < cols
    PROVE  \E i, j, n \in Nat : NthIs(rows, cols, r, c, i, j, n)
<1> DEFINE n == c * rows + r
           i == n \div cols
           j == n % cols
<1>1. rows \in Nat \ {0} /\ cols \in Nat \ {0} /\ n \in Nat
  OBVIOUS
<1>2. (c + 1) * rows = c * rows + rows /\ c * rows <= n /\ n < (c + 1) * rows
  <2> DEFINE m == c * rows
  <2>1. m \in Nat /\ (c + 1) * rows = m + rows
    OBVIOUS
  <2> HIDE DEF m
  <2> QED
    BY <2>1 DEF m
<1> HIDE DEF n
<1>3. n \div rows = c
  BY <1>1, <1>2, QuotientIs
<1>4. n % rows = r
  <2>1. n = rows * (n \div rows) + (n % rows) /\ n % rows \in Nat
    BY <1>1
  <2>2. rows * c = c * rows
    OBVIOUS
  <2> DEFINE m == c * rows
  <2>3. m \in Nat /\ n = m + r /\ n = m + (n % rows)
    BY <1>3, <2>1, <2>2 DEF n
  <2> HIDE DEF m
  <2> QED
    BY <2>1, <2>3
<1>5. n = cols * i + j /\ i \in Nat /\ j \in Nat /\ j < cols
  BY <1>1
<1>6. i * cols + j = n
  <2>1. cols * i = i * cols
    BY <1>5
  <2> QED
    BY <1>5, <2>1
<1>7. i < rows
  <2>1. (c + 1) * rows <= cols * rows
    BY <1>1, ProductsOrder
  <2>2. cols * rows = rows * cols
    OBVIOUS
  <2>3. i * cols <= n /\ n < rows * cols
    <3> DEFINE a == i * cols
               d == rows * cols
               e == (c + 1) * rows
    <3>1. a \in Nat /\ d \in Nat /\ e \in Nat /\ a + j = n /\ n < e /\ e <= d
      BY <1>2, <1>5, <1>6, <2>1, <2>2
    <3> HIDE DEF a, d, e
    <3>2. a <= n /\ n < d
      BY <1>1, <1>5, <3>1
    <3> QED
      BY <3>2 DEF a, d
  <2>4. i * cols < rows * cols
    <3> DEFINE a == i * cols
               d == rows * cols
    <3>1. a \in Nat /\ d \in Nat /\ a <= n /\ n < d
      BY <1>5, <2>3
    <3> HIDE DEF a, d
    <3>2. a < d
      BY <1>1, <3>1
    <3> QED
      BY <3>2 DEF a, d
  <2> QED
    BY <1>1, <1>5, <2>4, ProductsOrder
<1> HIDE DEF i, j
<1> QED
  BY <1>1, <1>3, <1>4, <1>5, <1>6, <1>7 DEF NthIs

\* Whatever their order, the values of a window are all of its values.
LEMMA FilledCells ==
    ASSUME NEW b \in Boxes, NEW rc
    PROVE  {Filled(b, rc, p) : p \in CellsOf(b)} = CellsOf(b)
<1>1. b.top \in Nat /\ b.bottom \in Nat /\ b.left \in Nat /\ b.right \in Nat
  BY DEF Boxes
<1>2. CASE data.format # "netcdf4" \/ rc[1] < rc[2]
  <2>1. \A p : Filled(b, rc, p) = p
    BY <1>2 DEF Filled
  <2> QED
    BY <2>1
<1>3. CASE ~(data.format # "netcdf4" \/ rc[1] < rc[2])
  <2> DEFINE rows == b.bottom - b.top
             cols == b.right - b.left
             Nth(p) == (p[1] - b.top) * cols + p[2] - b.left
  <2>1. \A p : Filled(b, rc, p) = <<b.top + (Nth(p) % rows), b.left + (Nth(p) \div rows)>>
    BY <1>3 DEF Filled
  <2>2. rows \in Int /\ cols \in Int
    BY <1>1
  <2>3. ASSUME NEW p \in CellsOf(b) PROVE Filled(b, rc, p) \in CellsOf(b)
    <3>1. p[1] \in b.top .. b.bottom - 1 /\ p[2] \in b.left .. b.right - 1
      BY DEF CellsOf
    <3> DEFINE i == p[1] - b.top
               j == p[2] - b.left
               n == i * cols + j
    <3>2. i \in Nat /\ j \in Nat /\ i < rows /\ j < cols /\ rows \in Nat \ {0} /\ cols \in Nat \ {0}
      BY <1>1, <3>1
    <3>3. Nth(p) = n
      <4> DEFINE m == i * cols
      <4>1. m \in Int /\ p[2] \in Int /\ b.left \in Int
        BY <1>1, <2>2, <3>1, <3>2
      <4> HIDE DEF m
      <4>2. m + p[2] - b.left = m + (p[2] - b.left)
        BY <4>1
      <4> QED
        BY <4>2 DEF m
    <3> HIDE DEF i, j, rows, cols, Nth
    <3>4. n \in Nat /\ n < cols * rows
      <4>1. (i + 1) * cols <= rows * cols
        BY <3>2, ProductsOrder
      <4>2. (i + 1) * cols = i * cols + cols /\ rows * cols = cols * rows
        BY <3>2
      <4> DEFINE m == i * cols
                 d == cols * rows
      <4>3. m \in Nat /\ d \in Nat /\ m + cols <= d
        BY <3>2, <4>1, <4>2
      <4> HIDE DEF m, d
      <4>4. m + j \in Nat /\ m + j < d
        BY <3>2, <4>3
      <4> QED
        BY <4>4 DEF m, d
    <3> HIDE DEF n
    <3>5. n % rows \in 0 .. rows - 1
      BY <3>2, <3>4
    <3>6. n \div rows \in 0 .. cols - 1
      <4>1. n \div rows \in Nat
        BY <3>2, <3>4
      <4>2. ~(cols <= n \div rows)
        <5> DEFINE d == cols * rows
        <5>1. d \in Nat /\ n < d
          BY <3>2, <3>4
        <5>2. cols <= n \div rows <=> d <= n
          BY <3>2, <3>4, QuotientAtLeast
        <5> HIDE DEF d
        <5> QED
          BY <3>4, <5>1, <5>2
      <4> QED
        BY <3>2, <4>1, <4>2
    <3>7. b.top + (n % rows) \in b.top .. b.bottom - 1 /\ b.left + (n \div rows) \in b.left .. b.right - 1
      BY <1>1, <3>5, <3>6 DEF rows, cols
    <3>8. Filled(b, rc, p) = <<b.top + (n % rows), b.left + (n \div rows)>>
      BY <2>1, <3>3
    <3> QED
      BY <3>7, <3>8 DEF CellsOf
  <2>4. ASSUME NEW q \in CellsOf(b) PROVE \E p \in CellsOf(b) : Filled(b, rc, p) = q
    <3>1. /\ q[1] \in b.top .. b.bottom - 1 /\ q[2] \in b.left .. b.right - 1
          /\ q = <<q[1], q[2]>>
      BY DEF CellsOf
    <3> DEFINE r == q[1] - b.top
               c == q[2] - b.left
    <3>2. r \in Nat /\ c \in Nat /\ r < rows /\ c < cols /\ rows \in Nat /\ cols \in Nat
      BY <1>1, <3>1
    <3> HIDE DEF r, c, rows, cols, Nth
    <3>a. \E i, j, n \in Nat : NthIs(rows, cols, r, c, i, j, n)
      BY <3>2, Counted
    <3>b. PICK i, j, n \in Nat : NthIs(rows, cols, r, c, i, j, n)
      BY <3>a
    <3>3. i < rows /\ j < cols /\ n = i * cols + j /\ n % rows = r /\ n \div rows = c
      BY <3>b DEF NthIs
    <3> DEFINE p == <<b.top + i, b.left + j>>
    <3>4. b.top + i \in b.top .. b.bottom - 1 /\ b.left + j \in b.left .. b.right - 1
      BY <1>1, <3>3 DEF rows, cols
    <3>5. p \in CellsOf(b)
      BY <3>4 DEF CellsOf
    <3>6. Nth(p) = n
      <4> DEFINE m == i * cols
      <4>1. m \in Int
        BY <3>2, <3>3
      <4>2. p[1] - b.top = i /\ p[2] = b.left + j
        BY <1>1
      <4>3. Nth(p) = m + p[2] - b.left
        BY <4>2 DEF Nth
      <4> HIDE DEF m
      <4>4. m + (b.left + j) - b.left = m + j
        BY <1>1, <4>1
      <4> QED
        BY <3>3, <4>2, <4>3, <4>4 DEF m
    <3> HIDE DEF p
    <3>7. Filled(b, rc, p) = <<b.top + r, b.left + c>>
      BY <2>1, <3>3, <3>6
    <3>8. b.top + r = q[1] /\ b.left + c = q[2]
      BY <1>1, <3>1 DEF r, c
    <3> QED
      BY <3>1, <3>5, <3>7, <3>8
  <2> QED
    BY <2>3, <2>4
<1> QED
  BY <1>2, <1>3

\* The index of the time is one of the steps of a plot.
LEMMA StepOfMap ==
    ASSUME OnMap
    PROVE  plane.time \in 0 .. LengthOf("time") - 1
<1>1. data \in Datasets /\ IsClamped(plane) /\ plane.time \in Nat /\ \A i \in Axes : Length(i) > 0
  BY MapAxes DEF OnMap
<1>2. plane.time = 0 \/ plane.time < LengthOf("time")
  BY <1>1 DEF IsClamped, Chosen
<1>3. LengthOf("time") \in Nat /\ LengthOf("time") > 0
  <2>1. WithRole("time") \subseteq Axes
    BY DEF WithRole
  <2>2. WithRole("time") # {} => Min(WithRole("time")) \in Axes
    BY <1>1, <2>1, AxesAreFinite
  <2>3. LengthOf("time") \in Nat
    BY <1>1, LengthOfRole
  <2> QED
    BY <1>1, <2>2, <2>3 DEF LengthOf
<1> QED
  BY <1>1, <1>2, <1>3

\* A cell is a window of its own.
LEMMA CellIsWindow ==
    ASSUME NEW p, p = <<p[1], p[2]>>, p[1] \in Nat, p[2] \in Nat
    PROVE  /\ OneCell(p) \in Boxes /\ p \in CellsOf(OneCell(p))
           /\ \A row, col : p[1] < Length(row) /\ p[2] < Length(col) /\ Length(row) \in Nat /\ Length(col) \in Nat
                => Fits(OneCell(p), Whole(row, col))
           /\ \A rc : Filled(OneCell(p), rc, p) = p
<1>1. OneCell(p) = [top |-> p[1], bottom |-> p[1] + 1, left |-> p[2], right |-> p[2] + 1]
  BY DEF OneCell, Box
<1>2. OneCell(p) \in Boxes
  BY <1>1 DEF Boxes
<1>3. p \in CellsOf(OneCell(p))
  <2>1. CellsOf(OneCell(p)) = (p[1] .. p[1] + 1 - 1) \X (p[2] .. p[2] + 1 - 1)
    BY <1>1 DEF CellsOf
  <2>2. p[1] \in p[1] .. p[1] + 1 - 1 /\ p[2] \in p[2] .. p[2] + 1 - 1
    OBVIOUS
  <2>3. <<p[1], p[2]>> \in CellsOf(OneCell(p))
    BY <2>1, <2>2
  <2> QED
    BY <2>3
<1>4. \A row, col : p[1] < Length(row) /\ p[2] < Length(col) /\ Length(row) \in Nat /\ Length(col) \in Nat
        => Fits(OneCell(p), Whole(row, col))
  BY <1>1 DEF Fits, Whole, Box
<1>5. ASSUME NEW rc PROVE Filled(OneCell(p), rc, p) = p
  <2>1. OneCell(p).right = OneCell(p).left + 1 /\ p[1] - OneCell(p).top < OneCell(p).bottom - OneCell(p).top
    BY <1>1
  <2> QED
    BY <1>2, <1>3, <2>1, FilledLine
<1> QED
  BY <1>2, <1>3, <1>4, <1>5

\* compute_time_series at the time on screen
LEMMA SeriesPasses ==
    ASSUME OnMap, NEW p, p = <<p[1], p[2]>>, p[1] \in Nat, p[2] \in Nat,
           p[1] < Length(plane.y), p[2] < Length(plane.x)
    PROVE  TimeSeries(p)[plane.time] = Value(Denoted(plane, p))
<1> DEFINE b == OneCell(p)
           read == Cells(Plain(plane.time, b))
           F == [q \in CellsOf(b) |-> Value(Denoted(plane, Filled(b, <<plane.y, plane.x>>, q)))]
<1>1. /\ Spatial[1] = plane.y /\ Spatial[2] = plane.x
      /\ Length(plane.y) \in Nat /\ Length(plane.x) \in Nat
  BY MapAxes
<1>2. /\ b \in Boxes /\ p \in CellsOf(b) /\ Fits(b, Whole(plane.y, plane.x))
      /\ Filled(b, <<plane.y, plane.x>>, p) = p
  BY <1>1, CellIsWindow
<1>3. read = F
  BY <1>2, PlainReads DEF Full
<1>4. F # Missing
  <2>1. F = [q \in CellsOf(b) |-> F[q]]
    OBVIOUS
  <2> QED
    BY <2>1 DEF OnMap, NoneIsNoPlane
<1>5. F[p] = Value(Denoted(plane, p))
  BY <1>2
<1>6. TimeSeries(p)[plane.time] =
        IF ~Fits(b, Whole(Spatial[1], Spatial[2])) THEN Missing ELSE OneOf(read, p)
  BY StepOfMap DEF TimeSeries
<1> HIDE DEF read, F, b
<1> QED
  BY <1>1, <1>2, <1>3, <1>4, <1>5, <1>6 DEF OneOf

\* load_domain_summary at the time on screen
LEMMA SummaryPasses ==
    ASSUME OnMap
    PROVE  DomainSummary[plane.time] =
             {Value(Denoted(plane, p)) :
                p \in CellsOf(IF plane.zoom = Missing THEN Full(plane) ELSE plane.zoom)}
<1> DEFINE b == IF plane.zoom = Missing THEN Full(plane) ELSE plane.zoom
           read == Cells(Plain(plane.time, b))
           rc == <<plane.y, plane.x>>
           F == [q \in CellsOf(b) |-> Value(Denoted(plane, Filled(b, rc, q)))]
<1>1. /\ Spatial[1] = plane.y /\ Spatial[2] = plane.x
      /\ Length(plane.y) \in Nat /\ Length(plane.x) \in Nat
      /\ Length(plane.y) > 0 /\ Length(plane.x) > 0
  BY MapAxes
<1>2. plane.zoom \in Rectangles \cup {Missing} /\ (plane.zoom # Missing => Fits(plane.zoom, Full(plane)))
  BY DEF OnMap, IsClamped, Chosen, Views
<1>3. /\ b \in Boxes /\ Fits(b, Full(plane))
      /\ b = [top |-> b.top, bottom |-> b.bottom, left |-> b.left, right |-> b.right]
      /\ b.top < b.bottom /\ b.left < b.right
  <2>1. CASE plane.zoom = Missing
    BY <1>1, <2>1 DEF Full, Whole, Box, Boxes, Fits
  <2>2. CASE plane.zoom # Missing
    BY <1>2, <2>2, RectangleAssumption DEF Boxes
  <2> QED
    BY <2>1, <2>2
<1>4. Domain = b
  <2> DEFINE whole == Whole(plane.y, plane.x)
  <2>1. whole.bottom = Length(plane.y) /\ whole.right = Length(plane.x)
        /\ Full(plane) = whole
    BY DEF Whole, Box, Full
  <2>2. Domain = Box(AtMost(b.top, whole.bottom), Min({b.bottom, whole.bottom}),
                     AtMost(b.left, whole.right), Min({b.right, whole.right}))
    BY <1>1, <2>1 DEF Domain
  <2> HIDE DEF b, whole
  <2>3. b.top \in Nat /\ b.bottom \in Nat /\ b.left \in Nat /\ b.right \in Nat
        /\ b.bottom <= whole.bottom /\ b.right <= whole.right
    BY <1>3, <2>1 DEF Boxes, Fits
  <2>4. whole.bottom \in Nat /\ whole.right \in Nat
    BY <1>1, <2>1
  <2>5. AtMost(b.top, whole.bottom) = b.top /\ AtMost(b.left, whole.right) = b.left
    BY <1>3, <2>3, <2>4, AtMostIs
  <2>6. Min({b.bottom, whole.bottom}) = b.bottom
    BY <2>3, <2>4 DEF Min
  <2>7. Min({b.right, whole.right}) = b.right
    BY <2>3, <2>4 DEF Min
  <2> QED
    BY <1>3, <2>2, <2>5, <2>6, <2>7 DEF Box
<1> HIDE DEF b
<1>5. read = F
  BY <1>3, PlainReads
<1>6. F # Missing
  <2>1. F = [q \in CellsOf(b) |-> F[q]]
    OBVIOUS
  <2> QED
    BY <2>1 DEF OnMap, NoneIsNoPlane
<1>7. DomainSummary[plane.time] = IF read = Missing THEN Missing ELSE {read[p] : p \in DOMAIN read}
  BY <1>4, StepOfMap DEF DomainSummary
<1>8. DomainSummary[plane.time] = {F[p] : p \in CellsOf(b)}
  <2>1. DOMAIN F = CellsOf(b)
    OBVIOUS
  <2> HIDE DEF F, read
  <2> QED
    BY <1>5, <1>6, <1>7, <2>1
<1>9. {F[p] : p \in CellsOf(b)} = {Value(Denoted(plane, p)) : p \in CellsOf(b)}
  <2>1. {Filled(b, rc, p) : p \in CellsOf(b)} = CellsOf(b)
    BY <1>3, FilledCells
  <2>2. ASSUME NEW p \in CellsOf(b)
        PROVE  Filled(b, rc, p) \in CellsOf(b) /\ F[p] = Value(Denoted(plane, Filled(b, rc, p)))
    BY <2>1
  <2>3. ASSUME NEW q \in CellsOf(b) PROVE \E p \in CellsOf(b) : F[p] = Value(Denoted(plane, q))
    <3>1. PICK p \in CellsOf(b) : Filled(b, rc, p) = q
      BY <2>1
    <3> QED
      BY <2>2, <3>1
  <2> HIDE DEF F, rc
  <2> QED
    BY <2>2, <2>3
<1> QED
  BY <1>8, <1>9 DEF b

\* dimension_index_for_plot gives the indices of the element under a cell.
LEMMA PlotIndex ==
    ASSUME OnMap, NEW p, p = <<p[1], p[2]>>, p[1] \in Nat, p[2] \in Nat,
           p[1] < Length(plane.y), p[2] < Length(plane.x), NEW i \in Axes
    PROVE  /\ Denoted(plane, p)[i] \in Nat /\ Denoted(plane, p)[i] < Length(i)
           /\ DimensionIndex(i, p, plane.time, AtMost(plane.depth, LeadingDepth)) = Denoted(plane, p)[i]
<1> DEFINE e == Denoted(plane, p)
           depth == AtMost(plane.depth, LeadingDepth)
<1>1. /\ plane.x \in Axes /\ plane.y \in Axes /\ plane.x # plane.y
      /\ Role(plane.y) = "lat" /\ Role(plane.x) = "lon"
      /\ \A j \in Axes \ {plane.x, plane.y} : Role(j) \in {"time", "depth"}
      /\ Length(i) \in Nat /\ plane.time \in Nat /\ plane.depth \in Nat
  BY MapAxes
<1>2. CASE i = plane.y
  <2>1. e[i] = p[1]
    BY <1>1, <1>2 DEF Denoted
  <2>2. DimensionIndex(i, p, plane.time, depth) = AtMost(p[1], Length(i))
    BY <1>1, <1>2 DEF DimensionIndex
  <2>3. AtMost(p[1], Length(i)) = p[1]
    BY <1>1, <1>2, AtMostIs
  <2> QED
    BY <1>2, <2>1, <2>2, <2>3
<1>3. CASE i = plane.x
  <2>1. e[i] = p[2]
    BY <1>1, <1>3 DEF Denoted
  <2>2. DimensionIndex(i, p, plane.time, depth) = AtMost(p[2], Length(i))
    BY <1>1, <1>3 DEF DimensionIndex
  <2>3. AtMost(p[2], Length(i)) = p[2]
    BY <1>1, <1>3, AtMostIs
  <2> QED
    BY <1>3, <2>1, <2>2, <2>3
<1>4. CASE i \notin {plane.x, plane.y}
  <2>1. /\ e[i] = IF Role(i) = "time" THEN plane.time ELSE plane.depth
        /\ Role(i) = "time" => plane.time < Length(i)
        /\ Role(i) = "depth" => plane.depth < Length(i) /\ depth = plane.depth
    BY <1>4, MapIndex
  <2>2. Role(i) \in {"time", "depth"}
    BY <1>1, <1>4
  <2> HIDE DEF depth, e
  <2>3. CASE Role(i) = "time"
    <3>1. DimensionIndex(i, p, plane.time, depth) = AtMost(plane.time, Length(i))
      BY <2>3 DEF DimensionIndex
    <3>2. AtMost(plane.time, Length(i)) = plane.time
      BY <1>1, <2>1, <2>3, AtMostIs
    <3> QED
      BY <1>1, <2>1, <2>3, <3>1, <3>2 DEF depth, e
  <2>4. CASE Role(i) = "depth"
    <3>1. DimensionIndex(i, p, plane.time, depth) = AtMost(plane.depth, Length(i))
      BY <2>1, <2>4 DEF DimensionIndex
    <3>2. AtMost(plane.depth, Length(i)) = plane.depth
      BY <1>1, <2>1, <2>4, AtMostIs
    <3> QED
      BY <1>1, <2>1, <2>4, <3>1, <3>2 DEF depth, e
  <2> QED
    BY <2>2, <2>3, <2>4
<1> QED
  BY <1>2, <1>3, <1>4

\* the other axis of the plane of a section
LEMMA AcrossIs ==
    ASSUME OnMap, NEW d \in Axes
    PROVE  Across(d) \in {plane.x, plane.y} \ {d}
<1>1. plane.x \in Axes /\ plane.y \in Axes /\ plane.x # plane.y /\ data \in Datasets
  BY MapAxes DEF OnMap
<1> DEFINE S == {plane.x, plane.y} \ {d}
<1>2. S # {} /\ S \subseteq Axes
  BY <1>1
<1>3. IsFiniteSet(S) /\ S \subseteq Nat
  BY <1>1, <1>2, AxesAreFinite
<1> HIDE DEF S
<1>4. Min(S) \in S
  BY <1>2, <1>3, LeastAndGreatest
<1>5. Across(d) = Min(S)
  BY <1>2 DEF Across, FirstOf, S
<1> QED
  BY <1>4, <1>5 DEF S

\* The request of a section of any format but GRIB2.
LEMMA SectionFields ==
    ASSUME OnMap, NEW p, p = <<p[1], p[2]>>, p[1] \in Nat, p[2] \in Nat,
           p[1] < Length(plane.y), p[2] < Length(plane.x), NEW d \in Axes, data.format # "grib2",
           NEW f, f = Across(d), NEW e, e = Denoted(plane, p), NEW req, req = SectionRequest(d, p)
    PROVE  /\ req.bounds = [top |-> 0, bottom |-> Length(d), left |-> e[f], right |-> e[f] + 1]
           /\ req.row = d /\ req.col = f /\ req.time = plane.time
           /\ req.depth = AtMost(plane.depth, LeadingDepth)
           /\ DOMAIN req.fixed = Axes \ {d, f} /\ \A i \in Axes \ {d, f} : req.fixed[i] = e[i]
           /\ <<e[d], e[f]>> \in CellsOf(req.bounds) /\ req.bounds \in Boxes
           /\ Fits(req.bounds, Whole(d, f))
           /\ \A rc : Filled(req.bounds, rc, <<e[d], e[f]>>) = <<e[d], e[f]>>
<1> DEFINE depth == AtMost(plane.depth, LeadingDepth)
           Index(i) == DimensionIndex(i, p, plane.time, depth)
           b == Box(0, Length(d), Index(f), Index(f) + 1)
<1>1. \A i \in Axes : e[i] \in Nat /\ e[i] < Length(i) /\ Index(i) = e[i] /\ Length(i) \in Nat
  BY PlotIndex, MapAxes
<1>2. f \in Axes /\ f # d
  BY AcrossIs, MapAxes
<1>3. req = [bounds |-> b, time |-> plane.time, depth |-> depth, row |-> d, col |-> f,
             fixed |-> [i \in Axes \ {d, f} |-> Index(i)]]
  BY DEF SectionRequest
<1> HIDE DEF depth, Index
<1>4. b = [top |-> 0, bottom |-> Length(d), left |-> e[f], right |-> e[f] + 1]
  BY <1>1, <1>2 DEF Box
<1> HIDE DEF b
<1>5. /\ req.bounds = b /\ req.row = d /\ req.col = f /\ req.time = plane.time /\ req.depth = depth
      /\ req.fixed = [i \in Axes \ {d, f} |-> Index(i)]
  BY <1>3
<1>6. b \in Boxes /\ Fits(b, Whole(d, f))
  BY <1>1, <1>2, <1>4 DEF Boxes, Fits, Whole, Box
<1>7. <<e[d], e[f]>> \in CellsOf(b)
  <2>1. CellsOf(b) = (0 .. Length(d) - 1) \X (e[f] .. e[f] + 1 - 1)
    <3>1. b.top = 0 /\ b.bottom = Length(d) /\ b.left = e[f] /\ b.right = e[f] + 1
      BY <1>4
    <3>2. \A c : \A n, m \in Nat :
            c.top = 0 /\ c.bottom = n /\ c.left = m /\ c.right = m + 1
              => CellsOf(c) = (0 .. n - 1) \X (m .. m + 1 - 1)
      BY DEF CellsOf
    <3> HIDE DEF b
    <3> QED
      BY <1>1, <1>2, <3>1, <3>2
  <2>2. e[d] \in 0 .. Length(d) - 1 /\ e[f] \in e[f] .. e[f] + 1 - 1
    BY <1>1, <1>2
  <2> QED
    BY <2>1, <2>2
<1>8. ASSUME NEW rc PROVE Filled(b, rc, <<e[d], e[f]>>) = <<e[d], e[f]>>
  <2>1. b.right = b.left + 1 /\ e[d] - b.top < b.bottom - b.top
    BY <1>1, <1>2, <1>4
  <2> DEFINE q == <<e[d], e[f]>>
  <2>2. q[1] = e[d] /\ q \in CellsOf(b)
    BY <1>7
  <2> HIDE DEF q
  <2> QED
    BY <1>6, <2>1, <2>2, FilledLine DEF q
<1>9. /\ req.bounds = [top |-> 0, bottom |-> Length(d), left |-> e[f], right |-> e[f] + 1]
      /\ req.row = d /\ req.col = f /\ req.time = plane.time
      /\ req.depth = AtMost(plane.depth, LeadingDepth)
  BY <1>4, <1>5 DEF depth
<1>10. DOMAIN req.fixed = Axes \ {d, f} /\ \A i \in Axes \ {d, f} : req.fixed[i] = e[i]
  BY <1>1, <1>5
<1>11. /\ <<e[d], e[f]>> \in CellsOf(req.bounds) /\ req.bounds \in Boxes
       /\ Fits(req.bounds, Whole(d, f))
  BY <1>5, <1>6, <1>7
<1>12. \A rc : Filled(req.bounds, rc, <<e[d], e[f]>>) = <<e[d], e[f]>>
  BY <1>5, <1>8
<1> QED
  BY <1>9, <1>10, <1>11, <1>12

\* What a reader gives for the cell of a section that the pinned point is in.
LEMMA SectionCell ==
    ASSUME OnMap, NEW p, p = <<p[1], p[2]>>, p[1] \in Nat, p[2] \in Nat,
           p[1] < Length(plane.y), p[2] < Length(plane.x), NEW d \in Axes, data.format # "grib2",
           SectionIsRead(d), NEW f, f = Across(d), NEW e, e = Denoted(plane, p)
    PROVE  /\ Cells(SectionRequest(d, p)) # Missing
           /\ Cells(SectionRequest(d, p))[<<e[d], e[f]>>] = Value(e)
           /\ SectionRequest(d, p).bounds = [top |-> 0, bottom |-> Length(d), left |-> e[f], right |-> e[f] + 1]
<1> DEFINE y == plane.y
           x == plane.x
           q == <<e[d], e[f]>>
<1>1. /\ Told /\ y \in Axes /\ x \in Axes /\ x # y /\ DefaultAxes = <<y, x>>
      /\ PlaneOf([row |-> Missing]) = <<y, x>>
      /\ Role(y) = "lat" /\ Role(x) = "lon"
      /\ \A i \in Axes \ {x, y} : Role(i) \in {"time", "depth"}
      /\ \A i \in Axes : Length(i) \in Nat
      /\ plane.time \in Nat /\ plane.depth \in Nat
  BY MapAxes
<1>2. data \in Datasets /\ StepsAreChunks /\ NoneIsNoPlane
  BY DEF OnMap
<1>3. f \in Axes /\ f # d /\ f \in {x, y}
  BY <1>1, AcrossIs
<1>4. PICK req : req = SectionRequest(d, p)
  OBVIOUS
<1>5. PICK b : b = req.bounds
  OBVIOUS
<1>6. /\ b = [top |-> 0, bottom |-> Length(d), left |-> e[f], right |-> e[f] + 1]
      /\ req.row = d /\ req.col = f /\ req.time = plane.time
      /\ req.depth = AtMost(plane.depth, LeadingDepth)
      /\ DOMAIN req.fixed = Axes \ {d, f} /\ \A i \in Axes \ {d, f} : req.fixed[i] = e[i]
      /\ q \in CellsOf(b) /\ b \in Boxes /\ Fits(b, Whole(d, f))
      /\ \A rc : Filled(b, rc, q) = q
  BY <1>4, <1>5, SectionFields
<1>7. \A i \in Axes : e[i] \in Nat /\ e[i] < Length(i)
  BY PlotIndex
<1>8. data.format # "netcdf4" => d = y /\ f = x
  <2>1. data.format # "netcdf4" => Role(d) = "lat"
    BY DEF SectionIsRead
  <2> QED
    BY <1>1, <1>3, <2>1
<1>9. e = [i \in Axes |-> e[i]] /\ e[y] = p[1] /\ e[x] = p[2]
  BY <1>1 DEF Denoted
<1> HIDE DEF y, x, q
<1>10. ASSUME NEW F, Cells(req) = [r \in CellsOf(b) |-> F[r]], F[q] = Value(e)
       PROVE  Cells(req) # Missing /\ Cells(req)[q] = Value(e)
  BY <1>2, <1>6, <1>10 DEF NoneIsNoPlane
<1>11. ASSUME data.format \in {"netcdf4", "mpas"}
       PROVE  Cells(req) # Missing /\ Cells(req)[q] = Value(e)
  <2> DEFINE rc == PlaneOf(req)
             rest == [i \in Axes \ {rc[1], rc[2]} |-> CHOOSE k \in Indices(req, i, rc) : TRUE]
             F == [r \in CellsOf(b) |-> Element(rc[1], rc[2], Filled(b, rc, r), rest)]
  <2>1. rc = <<d, f>>
    <3>1. CASE data.format = "netcdf4"
      <4>1. req.row # Missing
        BY <1>2, <1>6, AxesOfData, MissingAssumption
      <4> QED
        BY <1>6, <3>1, <4>1 DEF PlaneOf
    <3>2. CASE data.format = "mpas"
      <4>1. rc = PlaneOf([row |-> Missing])
        BY <3>2 DEF PlaneOf
      <4> QED
        BY <1>1, <1>8, <3>2, <4>1
    <3> QED
      BY <1>11, <3>1, <3>2
  <2> HIDE DEF rc
  <2>2. rc[1] = d /\ rc[2] = f
    BY <2>1
  <2>3. \A i \in Axes \ {rc[1], rc[2]} : Indices(req, i, rc) = {e[i]}
    BY <1>6, <2>2 DEF Indices
  <2>4. Readable(req, rc)
    BY <1>3, <1>5, <1>6, <1>7, <2>2, <2>3 DEF Readable
  <2>5. Cells(req) = F
    BY <1>5, <1>11, <2>4 DEF Cells, rc
  <2>6. Element(rc[1], rc[2], q, rest) = e
    <3>1. ASSUME NEW i \in Axes PROVE Element(rc[1], rc[2], q, rest)[i] = e[i]
      <4>1. CASE i = d
        BY <1>3, <2>2, <4>1 DEF Element, q
      <4>2. CASE i = f
        BY <1>3, <2>2, <4>2 DEF Element, q
      <4>3. CASE i \notin {d, f}
        <5>1. Element(rc[1], rc[2], q, rest)[i] = CHOOSE k \in Indices(req, i, rc) : TRUE
          BY <2>2, <4>3 DEF Element
        <5>2. Indices(req, i, rc) = {e[i]}
          BY <2>2, <2>3, <4>3
        <5>3. \A a : (CHOOSE k \in {a} : TRUE) = a
          OBVIOUS
        <5> QED
          BY <5>1, <5>2, <5>3
      <4> QED
        BY <4>1, <4>2, <4>3
    <3>2. Element(rc[1], rc[2], q, rest) = [i \in Axes |-> Element(rc[1], rc[2], q, rest)[i]]
      BY DEF Element
    <3> HIDE DEF rest
    <3> QED
      BY <1>9, <3>1, <3>2
  <2> HIDE DEF rest
  <2>7. F[q] = Value(e)
    BY <1>6, <1>11, <2>6 DEF Value
  <2>8. F = [r \in CellsOf(b) |-> F[r]]
    OBVIOUS
  <2> HIDE DEF F
  <2> QED
    BY <1>10, <2>5, <2>7, <2>8
<1>12. ASSUME data.format = "netcdf3"
       PROVE  Cells(req) # Missing /\ Cells(req)[q] = Value(e)
  <2> DEFINE F == [r \in CellsOf(b) |-> r]
  <2>1. y = 1 /\ x = 2 /\ Rank = 2
    BY <1>1, <1>12 DEF Told, PlaneOf
  <2>2. Cells(req) = F
    BY <1>5, <1>6, <1>8, <1>12, <2>1 DEF Cells, NetCdf3Cells
  <2>3. e = <<e[1], e[2]>>
    <3>1. Axes = 1 .. 2
      BY <2>1 DEF Axes
    <3> QED
      BY <1>9, <3>1
  <2>4. F[q] = Value(e)
    BY <1>6, <1>8, <1>12, <2>1, <2>3 DEF Value, q
  <2>5. F = [r \in CellsOf(b) |-> F[r]]
    OBVIOUS
  <2> HIDE DEF F
  <2> QED
    BY <1>10, <2>2, <2>4, <2>5
<1>13. ASSUME data.format = "manifest"
       PROVE  Cells(req) # Missing /\ Cells(req)[q] = Value(e)
  <2> DEFINE F == [r \in CellsOf(b) |-> InChunk(req, r)]
  <2>1. y = Rank - 1 /\ x = Rank
    BY <1>1, <1>13 DEF PlaneOf
  <2>2. Cells(req) = F
    BY <1>5, <1>13 DEF Cells
  <2>3. Rank = 4 => req.depth = plane.depth
    <3> SUFFICES ASSUME Rank = 4 PROVE AtMost(plane.depth, LeadingDepth) = plane.depth
      BY <1>6
    <3>1. Role(2) = "depth"
      BY <1>2, <1>13 DEF StepsAreChunks
    <3>2. 2 \in Axes \ {plane.x, plane.y}
      BY <2>1 DEF Axes, x, y
    <3> QED
      BY <3>1, <3>2, MapIndex
  <2>4. q = p
    BY <1>8, <1>9, <1>13 DEF q
  <2>5. p[1] < Length(Rank - 1) /\ p[2] < Length(Rank) /\ plane.y = Rank - 1 /\ plane.x = Rank
    BY <2>1 DEF x, y
  <2>6. InChunk(req, p) = Value(Denoted(plane, p))
    BY <1>1, <1>2, <1>6, <1>13, <2>3, <2>5, ChunkHoldsElement
  <2>7. F[q] = Value(e)
    BY <1>6, <2>4, <2>6
  <2>8. F = [r \in CellsOf(b) |-> F[r]]
    OBVIOUS
  <2> HIDE DEF F
  <2> QED
    BY <1>10, <2>2, <2>7, <2>8
<1>14. data.format \in {"netcdf4", "netcdf3", "mpas", "grib2", "manifest"}
  BY <1>2, DatasetAssumption
<1> QED
  BY <1>4, <1>5, <1>6, <1>11, <1>12, <1>13, <1>14 DEF q

\* The same of GRIB2, which is asked for the whole of a latitude or a longitude.
LEMMA Grib2Section ==
    ASSUME OnMap, NEW p, p = <<p[1], p[2]>>, p[1] \in Nat, p[2] \in Nat,
           p[1] < Length(plane.y), p[2] < Length(plane.x), NEW d \in Axes, data.format = "grib2",
           NEW b, b = SectionRequest(d, p).bounds
    PROVE  /\ Cells(SectionRequest(d, p)) # Missing
           /\ Cells(SectionRequest(d, p))[p] = Denoted(plane, p)
           /\ d = plane.y => Role(d) = "lat" /\ b.bottom = Length(d) /\ b.left = p[2]
           /\ d # plane.y => d = plane.x /\ Role(d) # "lat" /\ b.right = Length(d) /\ b.top = p[1]
<1> DEFINE y == plane.y
           x == plane.x
           req == SectionRequest(d, p)
           low == Box(0, Length(y), p[2], p[2] + 1)
           flat == Box(p[1], p[1] + 1, 0, Length(x))
<1>1. /\ y \in Axes /\ x \in Axes /\ x # y /\ Spatial[1] = y /\ Spatial[2] = x
      /\ PlaneOf([row |-> Missing]) = <<y, x>>
      /\ Role(y) = "lat" /\ Role(x) = "lon"
      /\ Length(x) \in Nat /\ Length(y) \in Nat
  BY MapAxes
<1>2. data \in Datasets /\ NoneIsNoPlane
  BY DEF OnMap
<1>3. Axes = {1, 2}
  <2>1. <<data.dims[1].role, data.dims[2].role, Len(data.dims)>> = <<"lat", "lon", 2>>
    BY <1>2, DatasetAssumption
  <2>2. Len(data.dims) = 2
    BY <2>1
  <2> QED
    BY <2>2 DEF Axes, Rank
<1>4. d = y \/ d = x
  BY <1>1, <1>3
<1>5. /\ req.bounds = IF Role(d) = "lat" THEN low ELSE flat
      /\ req.row = y /\ req.col = x
  BY <1>1 DEF SectionRequest
<1> HIDE DEF req, y, x
<1>6. b = IF d = y THEN low ELSE flat
  BY <1>1, <1>4, <1>5 DEF req
<1>7. PlaneOf(req) = <<y, x>>
  BY <1>1 DEF PlaneOf
<1>8. Fits(b, Whole(y, x)) /\ p \in CellsOf(b)
  <2>1. p[1] < Length(y) /\ p[2] < Length(x)
    BY DEF x, y
  <2>2. Fits(low, Whole(y, x)) /\ Fits(flat, Whole(y, x))
    BY <1>1, <2>1 DEF Fits, Whole, Box
  <2>3. p \in CellsOf(low)
    <3>1. CellsOf(low) = (0 .. Length(y) - 1) \X (p[2] .. p[2] + 1 - 1)
      BY DEF CellsOf, Box
    <3>2. p[1] \in 0 .. Length(y) - 1 /\ p[2] \in p[2] .. p[2] + 1 - 1
      BY <1>1, <2>1
    <3>3. <<p[1], p[2]>> \in CellsOf(low)
      BY <3>1, <3>2
    <3> QED
      BY <3>3
  <2>4. p \in CellsOf(flat)
    <3>1. CellsOf(flat) = (p[1] .. p[1] + 1 - 1) \X (0 .. Length(x) - 1)
      BY DEF CellsOf, Box
    <3>2. p[1] \in p[1] .. p[1] + 1 - 1 /\ p[2] \in 0 .. Length(x) - 1
      BY <1>1, <2>1
    <3>3. <<p[1], p[2]>> \in CellsOf(flat)
      BY <3>1, <3>2
    <3> QED
      BY <3>3
  <2> QED
    BY <1>6, <2>2, <2>3, <2>4
<1> DEFINE F == [r \in CellsOf(b) |-> Element(y, x, r, [i \in Axes |-> 0])]
<1>9. Cells(req) = F
  <2>1. req.bounds = b
    BY DEF req
  <2> QED
    BY <1>5, <1>7, <1>8, <2>1 DEF Cells, Grib2Cells
<1>10. Cells(req) # Missing
  <2>1. F = [r \in CellsOf(b) |-> F[r]]
    OBVIOUS
  <2> HIDE DEF F
  <2> QED
    BY <1>2, <1>9, <2>1 DEF NoneIsNoPlane
<1>11. F[p] = Denoted(plane, p)
  <2>1. Element(y, x, p, [i \in Axes |-> 0]) = Denoted(plane, p)
    BY <1>1, <1>3 DEF Element, Denoted, x, y
  <2> QED
    BY <1>8, <2>1
<1>12. /\ d = y => Role(d) = "lat" /\ b.bottom = Length(d) /\ b.left = p[2]
       /\ d # y => d = x /\ Role(d) # "lat" /\ b.right = Length(d) /\ b.top = p[1]
  BY <1>1, <1>4, <1>6 DEF Box
<1> HIDE DEF F
<1> QED
  BY <1>9, <1>10, <1>11, <1>12 DEF req, x, y

\* cross_section_series at the place of the pinned point
LEMMA SectionPasses ==
    ASSUME OnMap, NEW p, p = <<p[1], p[2]>>, p[1] \in Nat, p[2] \in Nat,
           p[1] < Length(plane.y), p[2] < Length(plane.x), NEW d \in Axes, SectionIsRead(d)
    PROVE  CrossSection(d, p)[Denoted(plane, p)[d]] = Value(Denoted(plane, p))
<1> DEFINE e == Denoted(plane, p)
           f == Across(d)
           read == Cells(SectionRequest(d, p))
           at == SectionRequest(d, p).bounds
           count == IF data.format = "grib2" /\ Role(d) # "lat" THEN at.right ELSE at.bottom
           lies == ~Fits(OneCell(p), Whole(Spatial[1], Spatial[2]))
<1>1. CrossSection(d, p) =
        [n \in 0 .. count - 1 |->
           IF read = Missing \/ lies THEN Missing
           ELSE IF data.format = "grib2" /\ Role(d) # "lat" THEN read[<<at.top, n>>]
           ELSE read[<<n, at.left>>]]
  BY DEF CrossSection
<1>2. ~lies
  <2>1. Spatial[1] = plane.y /\ Spatial[2] = plane.x /\ Length(plane.y) \in Nat /\ Length(plane.x) \in Nat
    BY MapAxes
  <2> QED
    BY <2>1, CellIsWindow
<1>3. e[d] \in Nat /\ e[d] < Length(d) /\ Length(d) \in Nat
  BY PlotIndex, MapAxes
<1>4. e[plane.y] = p[1] /\ e[plane.x] = p[2]
  BY MapAxes DEF Denoted
<1>5. CASE data.format = "grib2"
  <2>1. /\ read # Missing /\ read[p] = e
        /\ d = plane.y => Role(d) = "lat" /\ at.bottom = Length(d) /\ at.left = p[2]
        /\ d # plane.y => d = plane.x /\ Role(d) # "lat" /\ at.right = Length(d) /\ at.top = p[1]
    BY <1>5, Grib2Section
  <2>2. Value(e) = e
    BY <1>5 DEF Value
  <2> HIDE DEF lies, read, at, e
  <2>3. CASE d = plane.y
    <3>1. count = Length(d) /\ e[d] \in 0 .. count - 1
      BY <1>3, <2>1, <2>3
    <3>2. CrossSection(d, p)[e[d]] = read[<<e[d], at.left>>]
      BY <1>1, <1>2, <2>1, <2>3, <3>1
    <3> QED
      BY <1>4, <2>1, <2>2, <2>3, <3>2 DEF e
  <2>4. CASE d # plane.y
    <3>1. count = Length(d) /\ e[d] \in 0 .. count - 1
      BY <1>3, <1>5, <2>1, <2>4
    <3>2. CrossSection(d, p)[e[d]] = read[<<at.top, e[d]>>]
      BY <1>1, <1>2, <1>5, <2>1, <2>4, <3>1
    <3> QED
      BY <1>4, <2>1, <2>2, <2>4, <3>2 DEF e
  <2> QED
    BY <2>3, <2>4
<1>6. CASE data.format # "grib2"
  <2>1. /\ read # Missing /\ read[<<e[d], e[f]>>] = Value(e)
        /\ at = [top |-> 0, bottom |-> Length(d), left |-> e[f], right |-> e[f] + 1]
    BY <1>6, SectionCell
  <2>3. at.bottom = Length(d) /\ at.left = e[f]
    BY <2>1
  <2>4. count = Length(d) /\ e[d] \in 0 .. count - 1
    <3>1. count = at.bottom
      BY <1>6
    <3> HIDE DEF at, e, count
    <3> QED
      BY <1>3, <2>3, <3>1
  <2> HIDE DEF lies, read, at, e, f
  <2>5. CrossSection(d, p)[e[d]] = read[<<e[d], at.left>>]
    BY <1>1, <1>2, <1>6, <2>1, <2>4
  <2> QED
    BY <2>1, <2>3, <2>5 DEF e
<1> QED
  BY <1>5, <1>6

\* PlotReadsTheCell of the curve c
Through(c) ==
    Geographic(c.of) /\ c.on = DefaultAxes /\ StepsAreChunks =>
      CASE c.kind = "time" -> c.samples[c.of.time] = Value(Denoted(c.of, c.at))
        [] c.kind = "section" ->
             LET cell == Denoted(c.of, c.at)
             IN  SectionIsRead(c.along) => c.samples[cell[c.along]] = Value(cell)
        [] OTHER ->
             c.samples[c.of.time] =
               {Value(Denoted(c.of, p)) : p \in CellsOf(IF c.of.zoom = Missing THEN Full(c.of) ELSE c.of.zoom)}

\* the inductive invariant of coordinates and plots
PlotsInv ==
    /\ ReadsInv
    /\ \A c : gridCache = c /\ c # Missing => KeptGrid(c)
    /\ \A s : held = s /\ s # Missing => Placed(s)
    /\ \A m : pinned = m /\ m # Missing => Marked(m)
    /\ PlotsTold /\ NoneIsNoPlane => \A c : curve = c /\ c # Missing => Through(c)

\* A plot on a map reads the element under the cell.
LEMMA PlotPasses ==
    ASSUME PlotsInv, PlotsTold, NoneIsNoPlane, Plot
    PROVE  \A c : curve' = c => Through(c)
<1>1. data \in Datasets /\ IsClamped(plane)
  BY DEF PlotsInv, ReadsInv
<1>2. ASSUME Geographic(plane), StepsAreChunks PROVE OnMap /\ DefaultAxes = <<plane.y, plane.x>>
  BY <1>1, <1>2 DEF OnMap, Geographic
<1>3. ASSUME pinned # Missing, Geographic(plane), pinned.on = DefaultAxes, StepsAreChunks, NEW p, p = pinned.at
      PROVE  p = <<p[1], p[2]>> /\ p[1] \in Nat /\ p[2] \in Nat
             /\ p[1] < Length(plane.y) /\ p[2] < Length(plane.x)
  <2>1. Marked(pinned)
    BY <1>3 DEF PlotsInv
  <2> QED
    BY <1>2, <1>3, <2>1 DEF Marked
<1>4. CASE pinned = Missing /\ curve' = [kind |-> "domain", on |-> DefaultAxes, samples |-> DomainSummary, of |-> plane]
  <2> SUFFICES ASSUME NEW c, c = [kind |-> "domain", on |-> DefaultAxes, samples |-> DomainSummary, of |-> plane],
                      Geographic(c.of), c.on = DefaultAxes, StepsAreChunks
               PROVE  c.samples[c.of.time] =
                        {Value(Denoted(c.of, p)) :
                           p \in CellsOf(IF c.of.zoom = Missing THEN Full(c.of) ELSE c.of.zoom)}
    BY <1>4 DEF Through
  <2>1. c.samples = DomainSummary /\ c.of = plane
    OBVIOUS
  <2>2. OnMap
    BY <1>2, <2>1
  <2> QED
    BY <2>1, <2>2, SummaryPasses
<1>5. CASE pinned # Missing /\ curve' = [kind |-> "time", at |-> pinned.at, on |-> pinned.on, of |-> plane,
                                         samples |-> TimeSeries(pinned.at)]
  <2> SUFFICES ASSUME NEW c, c = [kind |-> "time", at |-> pinned.at, on |-> pinned.on, of |-> plane,
                                  samples |-> TimeSeries(pinned.at)],
                      Geographic(c.of), c.on = DefaultAxes, StepsAreChunks
               PROVE  c.samples[c.of.time] = Value(Denoted(c.of, c.at))
    BY <1>5 DEF Through
  <2>1. c.samples = TimeSeries(c.at) /\ c.of = plane /\ c.at = pinned.at /\ c.on = pinned.on
    OBVIOUS
  <2>2. PICK p : p = c.at
    OBVIOUS
  <2>3. OnMap
    BY <1>2, <2>1
  <2>4. p = <<p[1], p[2]>> /\ p[1] \in Nat /\ p[2] \in Nat
        /\ p[1] < Length(plane.y) /\ p[2] < Length(plane.x)
    BY <1>3, <1>5, <2>1, <2>2
  <2>5. TimeSeries(p)[plane.time] = Value(Denoted(plane, p))
    BY <2>3, <2>4, SeriesPasses
  <2> QED
    BY <2>1, <2>2, <2>5
<1>6. CASE pinned # Missing /\ \E d \in Axes :
             curve' = [kind |-> "section", along |-> d, at |-> pinned.at, on |-> pinned.on,
                       of |-> plane, samples |-> CrossSection(d, pinned.at)]
  <2>1. PICK d \in Axes :
          curve' = [kind |-> "section", along |-> d, at |-> pinned.at, on |-> pinned.on,
                    of |-> plane, samples |-> CrossSection(d, pinned.at)]
    BY <1>6
  <2> SUFFICES ASSUME NEW c, c = [kind |-> "section", along |-> d, at |-> pinned.at, on |-> pinned.on,
                                  of |-> plane, samples |-> CrossSection(d, pinned.at)],
                      Geographic(c.of), c.on = DefaultAxes, StepsAreChunks, SectionIsRead(c.along)
               PROVE  c.samples[Denoted(c.of, c.at)[c.along]] = Value(Denoted(c.of, c.at))
    BY <2>1 DEF Through
  <2>2. c.samples = CrossSection(d, c.at) /\ c.of = plane /\ c.at = pinned.at /\ c.on = pinned.on /\ c.along = d
    OBVIOUS
  <2>3. PICK p : p = c.at
    OBVIOUS
  <2>4. OnMap
    BY <1>2, <2>2
  <2>5. p = <<p[1], p[2]>> /\ p[1] \in Nat /\ p[2] \in Nat
        /\ p[1] < Length(plane.y) /\ p[2] < Length(plane.x)
    BY <1>3, <1>6, <2>2, <2>3
  <2>6. CrossSection(d, p)[Denoted(plane, p)[d]] = Value(Denoted(plane, p))
    BY <2>2, <2>4, <2>5, SectionPasses
  <2> QED
    BY <2>2, <2>3, <2>6
<1> QED
  BY <1>4, <1>5, <1>6 DEF Plot

\* What is true of a kept grid, a slice, a point or a curve stays true.
LEMMA SamePlots ==
    ASSUME data' = data
    PROVE  /\ CoordinatesTold' <=> CoordinatesTold
           /\ PlotsTold' <=> PlotsTold
           /\ \A c : KeptGrid(c)' <=> KeptGrid(c)
           /\ \A s : Placed(s)' <=> Placed(s)
           /\ \A m : Marked(m)' <=> Marked(m)
           /\ \A c : Through(c)' <=> Through(c)
<1>1. /\ Axes' = Axes /\ Rank' = Rank /\ DefaultAxes' = DefaultAxes
      /\ PlaneOf([row |-> Missing])' = PlaneOf([row |-> Missing])
      /\ \A i : Length(i)' = Length(i) /\ Role(i)' = Role(i)
      /\ StepsAreChunks' <=> StepsAreChunks
      /\ Unambiguous' <=> Unambiguous
  BY DEF DefaultAxes, AxesByName, LastTwo, LastOf, Lasting, Looking, WithRole, Role, Axes, Rank, Length,
         PlaneOf, SpatialAxes, Named, NamedRole, Token, FirstOf, StepsAreChunks, Unambiguous
<1>2. \A v, p : Denoted(v, p)' = Denoted(v, p)
  BY <1>1 DEF Denoted
<1>3. \A e : Value(e)' = Value(e)
  BY DEF Value, Fetched, Listed, Length, Axes, Rank
<1>4. \A which, e : Stored(which, e)' = Stored(which, e)
  BY DEF Stored
<1>5. \A v : Full(v)' = Full(v) /\ (Geographic(v)' <=> Geographic(v))
  BY <1>1 DEF Full, Whole, Geographic
<1>6. CoordinatesTold' <=> CoordinatesTold
  BY <1>1 DEF CoordinatesTold
<1>7. PlotsTold' <=> PlotsTold
  <2>1. \A i, rc : RoleRead(i, rc)' = RoleRead(i, rc)
    BY DEF RoleRead, Inferred, NamedRole, Role
  <2>2. Told' <=> Told
    BY <1>1, <2>1 DEF Told
  <2> QED
    BY <1>1, <1>5, <2>2 DEF PlotsTold
<1>8. \A c : KeptGrid(c)' <=> KeptGrid(c)
  <2>1. \A which, rc, b : Coordinates(which, rc, b)' = Coordinates(which, rc, b)
    BY <1>1 DEF Coordinates
  <2> QED
    BY <2>1 DEF KeptGrid
<1>9. \A s : Placed(s)' <=> Placed(s)
  BY <1>1, <1>2, <1>4, <1>5, <1>6 DEF Placed, Gives
<1>10. \A m : Marked(m)' <=> Marked(m)
  BY <1>1, <1>2, <1>4, <1>6 DEF Marked
<1>11. \A c : Through(c)' <=> Through(c)
  <2>1. \A d : SectionIsRead(d)' <=> SectionIsRead(d)
    BY <1>1 DEF SectionIsRead
  <2> QED
    BY <1>1, <1>2, <1>3, <1>5, <2>1 DEF Through
<1> QED
  BY <1>6, <1>7, <1>8, <1>9, <1>10, <1>11

\* A variable is opened with nothing on screen.
LEMMA InitPlotsInv == PlaneInit => PlotsInv
  BY InitReadsInv DEF PlaneInit, PlotsInv

\* A command or an answer leaves them in place.
LEMMA NextPlotsInv == PlotsInv /\ [PlaneNext]_planeVars => PlotsInv'
<1> SUFFICES ASSUME PlotsInv, [PlaneNext]_planeVars PROVE PlotsInv'
  OBVIOUS
<1>1. data' = data
  BY DEF PlaneNext, PlaneCommand, SetDisplayAxes, StepTime, StepDepth, MoveFixedDimension, ZoomTo,
         ResetVariableView, Pin, Plot, Press, Answer, planeVars
<1>2. /\ ReadsInv /\ data \in Datasets
      /\ \A c : gridCache = c /\ c # Missing => KeptGrid(c)
      /\ \A s : held = s /\ s # Missing => Sound(s) /\ Placed(s)
      /\ \A m : pinned = m /\ m # Missing => Marked(m)
      /\ PlotsTold /\ NoneIsNoPlane => \A c : curve = c /\ c # Missing => Through(c)
  BY DEF PlotsInv, ReadsInv
<1>3. ReadsInv'
  BY <1>2, NextReadsInv
<1>4. ASSUME /\ \A c : gridCache' = c /\ c # Missing => KeptGrid(c)
             /\ \A s : held' = s /\ s # Missing => Placed(s)
             /\ \A m : pinned' = m /\ m # Missing => Marked(m)
             /\ PlotsTold /\ NoneIsNoPlane => \A c : curve' = c /\ c # Missing => Through(c)
      PROVE  PlotsInv'
  BY <1>1, <1>3, <1>4, SamePlots DEF PlotsInv
<1>5. ASSUME NEW x \in Axes, NEW y \in Axes, SetDisplayAxes(x, y) PROVE PlotsInv'
  <2>1. /\ gridCache' = gridCache /\ pinned' = Missing /\ curve' = Missing
        /\ held' = held \/ (held # Missing /\ held' = Permuted(held))
    BY <1>5 DEF SetDisplayAxes, Press
  <2>2. held # Missing => Placed(Permuted(held))
    BY <1>2, TransposedIsPlaced
  <2>3. \A s : held' = s /\ s # Missing => Placed(s)
    BY <1>2, <2>1, <2>2
  <2> QED
    BY <1>2, <1>4, <2>1, <2>3
<1>6. CASE StepTime \/ StepDepth \/ MoveFixedDimension \/ ZoomTo \/ UNCHANGED planeVars
  <2>1. gridCache' = gridCache /\ held' = held /\ pinned' = pinned /\ curve' = curve
    BY <1>6 DEF StepTime, StepDepth, MoveFixedDimension, ZoomTo, Press, planeVars
  <2> QED
    BY <1>2, <1>4, <2>1
<1>7. CASE ResetVariableView
  <2>1. gridCache' = gridCache /\ held' = held /\ pinned' = Missing /\ curve' = Missing
    BY <1>7 DEF ResetVariableView, Press
  <2> QED
    BY <1>2, <1>4, <2>1
<1>8. CASE Pin
  <2>1. gridCache' = gridCache /\ held' = held /\ curve' = Missing
    BY <1>8 DEF Pin, Press
  <2>2. \A m : pinned' = m => Marked(m)
    BY <1>2, <1>8, PinIsMarked
  <2> QED
    BY <1>2, <1>4, <2>1, <2>2
<1>9. CASE Plot
  <2>1. gridCache' = gridCache /\ held' = held /\ pinned' = pinned
    BY <1>9 DEF Plot, Press
  <2>2. PlotsTold /\ NoneIsNoPlane => \A c : curve' = c => Through(c)
    BY <1>9, PlotPasses
  <2> QED
    BY <1>2, <1>4, <2>1, <2>2
<1>10. CASE Answer
  <2>1. pinned' = pinned /\ curve' = curve
    BY <1>10 DEF Answer
  <2>2. /\ \A s : held' = s /\ s # Missing => Placed(s)
        /\ \A c : gridCache' = c /\ c # Missing => KeptGrid(c)
    BY <1>2, <1>10, AnswerIsPlaced
  <2> QED
    BY <1>2, <1>4, <2>1, <2>2
<1> QED
  BY <1>5, <1>6, <1>7, <1>8, <1>9, <1>10 DEF PlaneNext, PlaneCommand

\* With every step of PlaneSpec the cached grid, the slice, the selected point and
\* the curve stay as the lemmas above describe them.
THEOREM PlotsHold == PlaneSpec => []PlotsInv
<1>1. PlaneInit => PlotsInv
  BY InitPlotsInv
<1>2. PlotsInv /\ [PlaneNext]_planeVars => PlotsInv'
  BY NextPlotsInv
<1> QED
  BY <1>1, <1>2, PTL DEF PlaneSpec

\* The variable of a view is never another.
LEMMA StaysTold ==
    ASSUME [PlaneNext]_planeVars
    PROVE  (CoordinatesTold => CoordinatesTold') /\ (PlotsTold => PlotsTold')
<1>1. data' = data
  BY DEF PlaneNext, PlaneCommand, SetDisplayAxes, StepTime, StepDepth, MoveFixedDimension, ZoomTo,
         ResetVariableView, Pin, Plot, Press, Answer, planeVars
<1> QED
  BY <1>1, SamePlots

\* The latitudes and longitudes given with a slice of the default axes, and with a
\* point selected on one, are those the file stores for its elements: for every
\* variable whose coordinates are stored along its rows and columns, whatever
\* windows coordinate_grid_cache was filled with.
THEOREM CoordinatesOfView == PlaneSpec /\ CoordinatesTold => []CoordinatesOfPlane
<1>1. CoordinatesTold /\ [PlaneNext]_planeVars => CoordinatesTold'
  BY StaysTold
<1>2. PlotsInv /\ CoordinatesTold => CoordinatesOfPlane
  <2> SUFFICES ASSUME PlotsInv, CoordinatesTold PROVE CoordinatesOfPlane
    OBVIOUS
  <2>1. ASSUME held # Missing, held.axes = DefaultAxes, held.gridOf = held.axes, NEW which \in 1 .. 2,
               held.grid[which] # Missing, NEW p \in DOMAIN held.cells
        PROVE  held.grid[which][p] = Stored(which, Denoted(held.of, p))
    <3>1. Placed(held) /\ data.coords.kind # "none"
      BY <2>1 DEF PlotsInv, Placed
    <3> QED
      BY <2>1, <3>1 DEF Placed, Gives
  <2>2. ASSUME pinned # Missing, pinned.on = DefaultAxes, NEW which \in 1 .. 2, pinned.coordinates[which] # Missing
        PROVE  pinned.coordinates[which] =
                 Stored(which, Denoted([plane EXCEPT !.y = pinned.on[1], !.x = pinned.on[2]], pinned.at))
    <3> DEFINE v == [plane EXCEPT !.y = pinned.on[1], !.x = pinned.on[2]]
    <3>1. v.y = pinned.on[1] /\ v.x = pinned.on[2]
      <4>1. plane \in Views
        BY DEF PlotsInv, ReadsInv, IsClamped, Chosen
      <4> QED
        BY <4>1 DEF Views
    <3> HIDE DEF v
    <3>2. Marked(pinned)
      BY <2>2 DEF PlotsInv
    <3>3. pinned.coordinates[which] = Stored(which, Denoted(v, pinned.at))
      BY <2>2, <3>1, <3>2 DEF Marked
    <3> QED
      BY <3>3 DEF v
  <2> QED
    BY <2>1, <2>2 DEF CoordinatesOfPlane
<1> QED
  BY <1>1, <1>2, PlotsHold, PTL DEF PlaneSpec

\* On a map the time series and the sections of a selected point pass through the
\* element on screen and the summary of the domain is of the elements on screen
\* (compute_time_series, cross_section_series, load_domain_summary), for every
\* variable whose axes the plots, which are not told them, take for the same roles.
THEOREM PlotsPassThroughTheCell ==
    ASSUME NoneIsNoPlane
    PROVE  PlaneSpec /\ PlotsTold => []PlotReadsTheCell
<1>1. PlotsTold /\ [PlaneNext]_planeVars => PlotsTold'
  BY StaysTold
<1>2. PlotsInv /\ PlotsTold => PlotReadsTheCell
  BY DEF PlotsInv, Through, PlotReadsTheCell
<1> QED
  BY <1>1, <1>2, PlotsHold, PTL DEF PlaneSpec

=============================================================================
