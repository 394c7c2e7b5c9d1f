------------------------- MODULE RemoteReadProofs -------------------------
(* Proofs about RemoteRead for any number of readers, messages, attempts    *)
(* and channel capacity.                                                    *)
EXTENDS RemoteRead, FiniteSetTheorems, TLAPS

(* No read is in the channel twice.                                         *)
QueuedOnce ==
    \A i, j \in 1 .. Len(jobs) : jobs[i] = jobs[j] => i = j

(* A read sleeps only when an attempt is left: without it Retry could leave *)
(* the budget that ReadTypeOK states.                                           *)
WithinBudget == job.phase = "backoff" => MayRetry(job.attempt)

(* A reader waits exactly while its read is in one place: that it is in the *)
(* channel only once is needed to see it leave the channel when it is taken.*)
Backed ==
    /\ ReadTypeOK
    /\ QueuedOnce
    /\ WithinBudget
    /\ WaitingIsBacked

-----------------------------------------------------------------------------
\* The job and the channel.

LEMMA JobFields ==
    ASSUME ReadTypeOK
    PROVE  /\ job.phase = "idle" <=> job = Idle
           /\ job # Idle => job.reader \in Readers /\ job.attempt \in Attempts
           /\ job.phase = "body" => job.version \in Versions
  BY DEF ReadTypeOK, JobStates, Idle, Polling, Receiving

LEMMA JobTypes ==
    ASSUME NEW r \in Readers, NEW a \in Attempts
    PROVE  /\ Idle \in JobStates
           /\ Polling(r, a, "request") \in JobStates
           /\ Polling(r, a, "backoff") \in JobStates
           /\ \A v \in Versions : Receiving(r, a, v) \in JobStates
  BY DEF JobStates

LEMMA JobReaders ==
    ASSUME NEW r, NEW a, NEW v
    PROVE  /\ Polling(r, a, "request") # Idle /\ Polling(r, a, "request").reader = r
           /\ Polling(r, a, "backoff") # Idle /\ Polling(r, a, "backoff").reader = r
           /\ Receiving(r, a, v) # Idle /\ Receiving(r, a, v).reader = r
           /\ Receiving(r, a, v).version = v
           /\ Receiving(r, a, v).phase = "body"
           /\ Polling(r, a, "request").phase = "request"
           /\ Polling(r, a, "backoff").phase = "backoff"
  BY DEF Polling, Receiving, Idle

LEMMA ReplyTypes ==
    /\ Failed \in Replies /\ Cancelled \in Replies
    /\ \A v \in Versions : Ok(v) \in Replies
    /\ Failed # NoReply /\ Cancelled # NoReply
    /\ \A v : Ok(v) # NoReply /\ Ok(v) # Cancelled /\ Ok(v).version = v
    /\ Failed # Cancelled /\ NoReply # Cancelled
    /\ \A a \in Replies : a.kind = "ok" => a.version \in Versions /\ a = Ok(a.version)
    /\ NoReply.kind = "none" /\ \A v : Ok(v).kind = "ok"
  <1>1. /\ Failed \in Replies /\ Cancelled \in Replies
        /\ \A v \in Versions : Ok(v) \in Replies
    BY DEF Replies
  <1>2. /\ Failed.kind = "failed" /\ Cancelled.kind = "cancelled"
        /\ NoReply.kind = "none" /\ \A v : Ok(v).kind = "ok" /\ Ok(v).version = v
    BY DEF Failed, Cancelled, Ok, NoReply
  <1>3. \A a \in Replies : a.kind = "ok" => \E v \in Versions : a = Ok(v)
    BY <1>2 DEF Replies
  <1> QED BY <1>1, <1>2, <1>3

LEMMA SubmittedQueue ==
    ASSUME ReadTypeOK, QueuedOnce, NEW r \in Readers, ~Queued(r),
           jobs' = Append(jobs, r), Len(jobs) < QueueSize
    PROVE  /\ jobs' \in Seq(Readers) /\ Len(jobs') <= QueueSize
           /\ QueuedOnce'
           /\ \A q : Queued(q)' <=> Queued(q) \/ q = r
  <1>1. /\ jobs \in Seq(Readers) /\ Len(jobs) \in Nat
        /\ jobs' \in Seq(Readers) /\ Len(jobs') = Len(jobs) + 1
        /\ \A i \in 1 .. Len(jobs) : jobs'[i] = jobs[i]
        /\ jobs'[Len(jobs) + 1] = r
    BY DEF ReadTypeOK
  <1>2. \A q : Queued(q)' <=> Queued(q) \/ q = r
    BY <1>1 DEF Queued
  <1>3. QueuedOnce'
    BY <1>1 DEF QueuedOnce, Queued
  <1> QED BY <1>1, <1>2, <1>3, PolicyAssumption

LEMMA TakenQueue ==
    ASSUME ReadTypeOK, QueuedOnce, jobs # << >>, jobs' = Tail(jobs)
    PROVE  /\ jobs' \in Seq(Readers) /\ Len(jobs') <= QueueSize
           /\ QueuedOnce'
           /\ Head(jobs) \in Readers /\ Queued(Head(jobs))
           /\ \A q : Queued(q)' <=> Queued(q) /\ q # Head(jobs)
  <1>1. /\ jobs \in Seq(Readers) /\ Len(jobs) \in Nat /\ Len(jobs) >= 1
        /\ jobs' \in Seq(Readers) /\ Len(jobs') = Len(jobs) - 1
        /\ \A i \in 1 .. Len(jobs') : jobs'[i] = jobs[i + 1]
        /\ Head(jobs) = jobs[1] /\ jobs[1] \in Readers
    BY DEF ReadTypeOK
  <1>2. QueuedOnce'
    BY <1>1 DEF QueuedOnce
  <1>3. Queued(Head(jobs))
    BY <1>1 DEF Queued
  <1>4. ASSUME NEW q, Queued(q)'
        PROVE  Queued(q) /\ q # Head(jobs)
    <2>1. PICK i \in 1 .. Len(jobs') : jobs'[i] = q
      BY <1>4 DEF Queued
    <2>2. i + 1 \in 1 .. Len(jobs) /\ jobs[i + 1] = q /\ i + 1 # 1
      BY <1>1, <2>1
    <2> QED BY <1>1, <2>2 DEF Queued, QueuedOnce
  <1>5. ASSUME NEW q, Queued(q), q # Head(jobs)
        PROVE  Queued(q)'
    <2>1. PICK i \in 1 .. Len(jobs) : jobs[i] = q
      BY <1>5 DEF Queued
    <2>2. i - 1 \in 1 .. Len(jobs') /\ jobs'[i - 1] = q
      BY <1>1, <1>5, <2>1
    <2> QED BY <2>2 DEF Queued
  <1> QED BY <1>1, <1>2, <1>3, <1>4, <1>5, PolicyAssumption DEF ReadTypeOK

\* Once the job is answered, its reader has a reply and nothing runs.
LEMMA Answered ==
    ASSUME Backed, job # Idle, UNCHANGED <<object, jobs, readerVars>>,
           NEW a \in Replies, Answer(job.reader, a)
    PROVE  Backed'
  <1> USE DEF Backed
  <1>1. job.reader \in Readers
    BY JobFields
  <1>2. a # NoReply
    BY ReplyTypes DEF Replies
  <1>3. /\ job' = Idle /\ jobs' = jobs /\ pc' = pc
        /\ reply' = [reply EXCEPT ![job.reader] = a]
    BY DEF Answer, readerVars
  <1>4. ReadTypeOK'
    <2>1. reply' \in [Readers -> Replies \cup {NoReply}]
      BY <1>1, <1>3 DEF ReadTypeOK
    <2>2. Idle \in JobStates
      BY DEF JobStates
    <2> QED BY <1>3, <2>1, <2>2 DEF ReadTypeOK, readerVars
  <1>5. \A q \in Readers : /\ Queued(q)' <=> Queued(q)
                           /\ ~Running(q)'
                           /\ Replied(q)' <=> Replied(q) \/ Running(q)
    BY <1>1, <1>2, <1>3 DEF Queued, Running, Replied, ReadTypeOK
  <1>6. WaitingIsBacked'
    BY <1>3, <1>5 DEF WaitingIsBacked
  <1>7. WithinBudget'
    BY <1>3 DEF WithinBudget, Idle
  <1> QED BY <1>3, <1>4, <1>6, <1>7 DEF QueuedOnce

\* A step of the running job that leaves it running.
LEMMA StillRunning ==
    ASSUME Backed, job # Idle, UNCHANGED <<object, jobs, reply, readerVars>>,
           job' \in JobStates, job' # Idle, job'.reader = job.reader,
           WithinBudget'
    PROVE  Backed'
  <1>1. ReadTypeOK' /\ QueuedOnce'
    BY DEF Backed, ReadTypeOK, QueuedOnce, readerVars
  <1>2. \A q : /\ Queued(q)' <=> Queued(q)
               /\ Running(q)' <=> Running(q)
               /\ Replied(q)' <=> Replied(q)
    BY DEF Queued, Running, Replied
  <1> QED BY <1>1, <1>2 DEF Backed, WaitingIsBacked, readerVars

LEMMA JobThreadBacked == Backed /\ JobThread => Backed'
  <1> SUFFICES ASSUME Backed, JobThread PROVE Backed'
    OBVIOUS
  <1> USE DEF Backed
  <1>1. CASE TakeJob
    <2> DEFINE h == Head(jobs)
    <2>1. /\ job = Idle /\ job' = Polling(h, 0, "request") /\ reply' = reply
          /\ pc' = pc /\ jobs # << >> /\ jobs' = Tail(jobs)
      BY <1>1 DEF TakeJob, readerVars
    <2>2. /\ jobs' \in Seq(Readers) /\ Len(jobs') <= QueueSize
          /\ QueuedOnce'
          /\ h \in Readers /\ Queued(h)
          /\ \A q : Queued(q)' <=> Queued(q) /\ q # h
      BY <2>1, TakenQueue
    <2>3. job' \in JobStates
      <3>1. 0 \in Attempts
        BY PolicyAssumption DEF Attempts
      <3> QED BY <2>1, <2>2, <3>1, JobTypes
    <2>4. ReadTypeOK'
      BY <1>1, <2>2, <2>3 DEF ReadTypeOK, TakeJob, readerVars
    <2>5. \A q : /\ Running(q)' <=> q = h
                 /\ ~Running(q)
                 /\ Replied(q)' <=> Replied(q)
      BY <2>1, JobReaders DEF Running, Replied
    <2>6. WaitingIsBacked'
      BY <2>1, <2>2, <2>5 DEF WaitingIsBacked
    <2>7. WithinBudget'
      BY <2>1, JobReaders DEF WithinBudget
    <2> QED BY <2>2, <2>4, <2>6, <2>7
  <1>2. ASSUME NEW v \in Served, Respond(v) PROVE Backed'
    <2>1. job # Idle /\ job.reader \in Readers /\ job.attempt \in Attempts /\ v \in Versions
      BY <1>2, JobFields, BoundsAssumption DEF Respond, Idle, Served, Versions, ReadTypeOK
    <2>2. CASE MatchesIdentity(v)
      <3>1. job' = Receiving(job.reader, job.attempt, v)
        BY <1>2, <2>2 DEF Respond
      <3>2. job' \in JobStates
        BY <2>1, <3>1, JobTypes DEF ReadTypeOK
      <3>3. WithinBudget'
        BY <3>1, JobReaders DEF WithinBudget
      <3> QED BY <1>2, <2>1, <2>2, <3>1, <3>2, <3>3, JobReaders, StillRunning
              DEF Respond
    <2>3. CASE ~MatchesIdentity(v)
      BY <1>2, <2>1, <2>3, Answered, ReplyTypes DEF Respond
    <2> QED BY <2>2, <2>3
  <1>3. CASE TransientError
    <2>1. job # Idle /\ job.reader \in Readers /\ job.attempt \in Attempts
      BY <1>3, JobFields DEF TransientError, Idle
    <2>2. CASE MayRetry(job.attempt)
      <3>1. job' = Polling(job.reader, job.attempt, "backoff")
        BY <1>3, <2>2 DEF TransientError
      <3>2. job' \in JobStates
        BY <2>1, <3>1, JobTypes
      <3>3. WithinBudget'
        <4>1. job'.attempt = job.attempt
          BY <3>1 DEF Polling
        <4> QED BY <2>2, <4>1 DEF WithinBudget, MayRetry
      <3> QED BY <1>3, <2>1, <2>2, <3>1, <3>2, <3>3, JobReaders, StillRunning
              DEF TransientError
    <2>3. CASE ~MayRetry(job.attempt)
      BY <1>3, <2>1, <2>3, Answered, ReplyTypes DEF TransientError
    <2> QED BY <2>2, <2>3
  <1>4. CASE PermanentError
    BY <1>4, JobFields, Answered, ReplyTypes DEF PermanentError, Idle
  <1>5. CASE Retry
    <2>1. job # Idle /\ job.reader \in Readers /\ job.attempt \in Attempts
      BY <1>5, JobFields DEF Retry, Idle
    <2>2. job' = Polling(job.reader, job.attempt + 1, "request")
      BY <1>5 DEF Retry
    <2>3. job.attempt + 1 \in Attempts
      BY <1>5, <2>1, PolicyAssumption DEF Retry, WithinBudget, MayRetry, Attempts
    <2>4. job' \in JobStates
      BY <2>1, <2>2, <2>3, JobTypes
    <2>5. WithinBudget'
      BY <2>2, JobReaders DEF WithinBudget
    <2> QED BY <1>5, <2>1, <2>2, <2>4, <2>5, JobReaders, StillRunning DEF Retry
  <1>6. CASE Body
    BY <1>6, JobFields, Answered, ReplyTypes DEF Body, Idle
  <1>7. CASE BodyError
    BY <1>7, JobFields, Answered, ReplyTypes DEF BodyError, Idle
  <1>8. CASE Abort
    BY <1>8, Answered, ReplyTypes DEF Abort
  <1> QED BY <1>1, <1>2, <1>3, <1>4, <1>5, <1>6, <1>7, <1>8 DEF JobThread

-----------------------------------------------------------------------------
\* The readers.

LEMMA InitBacked == ReadInit => Backed
  <1> SUFFICES ASSUME ReadInit PROVE Backed
    OBVIOUS
  <1>1. ReadTypeOK
    <2>1. jobs \in Seq(Readers) /\ Len(jobs) = 0
      BY DEF ReadInit
    <2>2. 0 \in Versions /\ 0 \in 0 .. MaxReads /\ 0 <= QueueSize
      BY PolicyAssumption, BoundsAssumption DEF Versions
    <2>3. job \in JobStates
      BY DEF ReadInit, JobStates
    <2>4. decoder \in [Messages -> Decoders] /\ reply \in [Readers -> Replies \cup {NoReply}]
      <3>1. NotFetched \in Decoders /\ Fetched(0) \in Decoders
        BY <2>2 DEF Decoders
      <3> QED BY <3>1 DEF ReadInit
    <2> QED BY <2>1, <2>2, <2>3, <2>4 DEF ReadInit, ReadTypeOK
  <1>2. QueuedOnce /\ \A r : ~Queued(r)
    BY DEF ReadInit, QueuedOnce, Queued
  <1>3. WithinBudget /\ \A r : ~Running(r)
    BY DEF ReadInit, WithinBudget, Running, Idle
  <1>4. WaitingIsBacked
    BY <1>2, <1>3 DEF ReadInit, WaitingIsBacked, Replied
  <1> QED BY <1>1, <1>2, <1>3, <1>4 DEF Backed

\* A step that moves one reader, not to or from its wait.
LEMMA ReaderMoves ==
    ASSUME Backed, ReadTypeOK', NEW r \in Readers,
           pc[r] # "waiting", pc'[r] # "waiting",
           \A q \in Readers \ {r} : pc'[q] = pc[q],
           UNCHANGED <<reply, jobs, job>>
    PROVE  Backed'
  <1>1. \A q : /\ Queued(q)' <=> Queued(q)
               /\ Running(q)' <=> Running(q)
               /\ Replied(q)' <=> Replied(q)
    BY DEF Queued, Running, Replied
  <1>2. QueuedOnce' /\ WithinBudget'
    BY DEF Backed, QueuedOnce, WithinBudget
  <1>3. WaitingIsBacked'
    BY <1>1 DEF Backed, WaitingIsBacked
  <1> QED BY <1>2, <1>3 DEF Backed

\* A step in which a waiting reader takes its answer.
LEMMA ReplyTaken ==
    ASSUME Backed, ReadTypeOK', NEW r \in Readers,
           reply[r] # NoReply, pc' \in [Readers -> {"idle", "decode"} \cup {pc[q] : q \in Readers}],
           pc'[r] # "waiting",
           \A q \in Readers \ {r} : pc'[q] = pc[q],
           reply' = [reply EXCEPT ![r] = NoReply],
           UNCHANGED <<jobs, job>>
    PROVE  Backed'
  <1>1. reply'[r] = NoReply /\ \A q \in Readers \ {r} : reply'[q] = reply[q]
    BY DEF Backed, ReadTypeOK
  <1>2. \A q : /\ Queued(q)' <=> Queued(q)
               /\ Running(q)' <=> Running(q)
    BY DEF Queued, Running
  <1>3. /\ ~Replied(r)' /\ Replied(r)
        /\ \A q \in Readers \ {r} : Replied(q)' <=> Replied(q)
    BY <1>1 DEF Replied
  <1>4. QueuedOnce' /\ WithinBudget'
    BY DEF Backed, QueuedOnce, WithinBudget
  <1>5. WaitingIsBacked'
    BY <1>2, <1>3 DEF Backed, WaitingIsBacked
  <1> QED BY <1>4, <1>5 DEF Backed

LEMMA StoredType ==
    ASSUME ReadTypeOK, NEW m \in Messages, NEW v \in Versions
    PROVE  Stored(m, v) \in Decoders
  BY DEF ReadTypeOK, Stored, Decoders

LEMMA StartBacked ==
    ASSUME Backed, NEW r \in Readers, NEW m \in Messages,
           NEW t \in {"absent", "clear"}, Start(r, m, t)
    PROVE  Backed'
  <1>1. ReadTypeOK'
    BY BoundsAssumption DEF Backed, ReadTypeOK, Start
  <1>2. /\ pc[r] # "waiting" /\ pc'[r] # "waiting"
        /\ \A q \in Readers \ {r} : pc'[q] = pc[q]
        /\ UNCHANGED <<reply, jobs, job>>
    BY DEF Backed, ReadTypeOK, Start
  <1> QED BY <1>1, <1>2, ReaderMoves

LEMMA ReaderBacked ==
    ASSUME Backed, NEW r \in Readers, Reader(r)
    PROVE  Backed'
  <1> USE DEF Backed
  <1>1. CASE Submit(r)
    <2>1. ~Queued(r) /\ ~Running(r) /\ ~Replied(r)
      BY <1>1 DEF Submit, WaitingIsBacked
    <2>2. /\ jobs' \in Seq(Readers) /\ Len(jobs') <= QueueSize
          /\ QueuedOnce'
          /\ \A q : Queued(q)' <=> Queued(q) \/ q = r
      BY <1>1, <2>1, SubmittedQueue DEF Submit
    <2>3. ReadTypeOK'
      BY <1>1, <2>2 DEF ReadTypeOK, Submit
    <2>4. /\ pc'[r] = "waiting"
          /\ \A q \in Readers \ {r} : pc'[q] = pc[q]
      BY <1>1 DEF Submit, ReadTypeOK
    <2>5. \A q : (Running(q)' <=> Running(q)) /\ (Replied(q)' <=> Replied(q))
      BY <1>1 DEF Submit, Running, Replied
    <2>6. WaitingIsBacked'
      BY <2>1, <2>2, <2>4, <2>5 DEF WaitingIsBacked
    <2>7. WithinBudget'
      BY <1>1 DEF Submit, WithinBudget
    <2> QED BY <2>2, <2>3, <2>6, <2>7
  <1>2. CASE Refuse(r)
    <2>1. ReadTypeOK'
      BY <1>2 DEF ReadTypeOK, Refuse
    <2> QED BY <1>2, <2>1, ReaderMoves DEF Refuse, ReadTypeOK
  <1>3. CASE Receive(r)
    <2>1. reply[r] # NoReply /\ reply[r].version \in Versions
      BY <1>3, ReplyTypes DEF Receive, ReadTypeOK
    <2>2. message[r] \in Messages
      BY DEF ReadTypeOK
    <2>3. decoder' \in [Messages -> Decoders]
      BY <1>3, <2>1, <2>2, StoredType DEF Receive, ReadTypeOK
    <2>4. ReadTypeOK'
      BY <1>3, <2>3 DEF ReadTypeOK, Receive
    <2> QED BY <1>3, <2>1, <2>4, ReplyTaken, ZenonT(30) DEF Receive, ReadTypeOK
  <1>4. CASE GiveUp(r)
    <2>1. ReadTypeOK'
      BY <1>4 DEF ReadTypeOK, GiveUp
    <2> QED BY <1>4, <2>1, ReplyTaken, ZenonT(30) DEF GiveUp, ReadTypeOK
  <1>5. CASE Decode(r)
    <2>1. ReadTypeOK'
      BY <1>5 DEF ReadTypeOK, Decode
    <2> QED BY <1>5, <2>1, ReaderMoves DEF Decode, ReadTypeOK
  <1> QED BY <1>1, <1>2, <1>3, <1>4, <1>5 DEF Reader

LEMMA UntouchedBacked ==
    ASSUME Backed, ReadTypeOK', UNCHANGED <<pc, reply, jobs, job>>
    PROVE  Backed'
  BY DEF Backed, QueuedOnce, WithinBudget, WaitingIsBacked, Queued, Running, Replied

LEMMA NextBacked == Backed /\ [ReadNext]_remoteVars => Backed'
  <1> SUFFICES ASSUME Backed, [ReadNext]_remoteVars PROVE Backed'
    OBVIOUS
  <1>1. ASSUME NEW r \in Readers, Cancel(r)
        PROVE  Backed'
    <2>1. ReadTypeOK'
      BY <1>1 DEF Backed, ReadTypeOK, Cancel
    <2> QED BY <1>1, <2>1, UntouchedBacked DEF Cancel
  <1>2. CASE Rewrite
    <2>1. ReadTypeOK'
      BY <1>2, BoundsAssumption DEF Backed, ReadTypeOK, Rewrite, Versions, readerVars
    <2> QED BY <1>2, <2>1, UntouchedBacked DEF Rewrite, readerVars
  <1>3. CASE UNCHANGED remoteVars
    <2>1. ReadTypeOK'
      BY <1>3 DEF Backed, ReadTypeOK, remoteVars
    <2> QED BY <1>3, <2>1, UntouchedBacked DEF remoteVars
  <1> QED BY <1>1, <1>2, <1>3, StartBacked, ReaderBacked, JobThreadBacked DEF ReadNext

\* A reader that waits is backed by one place its read is in (Backed).
THEOREM BackedHolds == ReadSpec => []Backed
  BY InitBacked, NextBacked, PTL DEF ReadSpec

(* Types, the retry budget and the capacity of the channel.                 *)
THEOREM RemoteTypeCorrect == ReadSpec => []ReadTypeOK
  BY BackedHolds, PTL DEF Backed

(* A reader blocked in recv always has its read queued, running or answered,*)
(* in one place only.                                                       *)
THEOREM RemoteWaitingIsBacked == ReadSpec => []WaitingIsBacked
  BY BackedHolds, PTL DEF Backed

-----------------------------------------------------------------------------
\* What readers see of the object.

(* Bytes of another version are nowhere on the way to a decoder.            *)
FromOpened ==
    /\ OpenedVersionOnly
    /\ job.phase = "body" => job.version \in Accepted
    /\ \A r \in Readers : reply[r].kind = "ok" => reply[r].version \in Accepted

LEMMA FromOpenedAnswer ==
    ASSUME ReadTypeOK, FromOpened, job # Idle, NEW a \in Replies,
           a.kind = "ok" => a.version \in Accepted,
           Answer(job.reader, a), UNCHANGED decoder
    PROVE  FromOpened'
  <1>1. job.reader \in Readers
    BY JobFields
  <1>2. /\ job' = Idle
        /\ reply'[job.reader] = a
        /\ \A r \in Readers \ {job.reader} : reply'[r] = reply[r]
    BY <1>1 DEF Answer, ReadTypeOK
  <1>3. \A r \in Readers : reply'[r].kind = "ok" => reply'[r].version \in Accepted
    BY <1>2 DEF FromOpened
  <1> QED BY <1>2, <1>3 DEF FromOpened, OpenedVersionOnly, Idle

LEMMA FromOpenedJob ==
    ASSUME ReadTypeOK, FromOpened, JobThread
    PROVE  FromOpened'
  <1>1. CASE TakeJob
    BY <1>1, JobReaders DEF TakeJob, FromOpened, OpenedVersionOnly, readerVars
  <1>2. ASSUME NEW v \in Served, Respond(v) PROVE FromOpened'
    <2>1. job # Idle
      BY <1>2, JobFields DEF Respond, Idle
    <2>2. CASE MatchesIdentity(v)
      <3>1. job' = Receiving(job.reader, job.attempt, v) /\ v \in Accepted
        BY <1>2, <2>2 DEF Respond, MatchesIdentity
      <3> QED BY <1>2, <2>2, <3>1, JobReaders
              DEF Respond, FromOpened, OpenedVersionOnly, readerVars
    <2>3. CASE ~MatchesIdentity(v)
      <3>1. Failed.kind # "ok"
        BY DEF Failed
      <3> QED BY <1>2, <2>1, <2>3, <3>1, ReplyTypes, FromOpenedAnswer
              DEF Respond, readerVars
    <2> QED BY <2>2, <2>3
  <1>3. CASE TransientError
    <2>1. job # Idle /\ Failed.kind # "ok"
      BY <1>3, JobFields DEF TransientError, Idle, Failed
    <2>2. CASE MayRetry(job.attempt)
      BY <1>3, <2>2, JobReaders
      DEF TransientError, FromOpened, OpenedVersionOnly, readerVars
    <2>3. CASE ~MayRetry(job.attempt)
      BY <1>3, <2>1, <2>3, ReplyTypes, FromOpenedAnswer
      DEF TransientError, readerVars
    <2> QED BY <2>2, <2>3
  <1>4. CASE PermanentError
    <2>1. job # Idle /\ Failed.kind # "ok"
      BY <1>4, JobFields DEF PermanentError, Idle, Failed
    <2> QED BY <1>4, <2>1, ReplyTypes, FromOpenedAnswer DEF PermanentError, readerVars
  <1>5. CASE Retry
    BY <1>5, JobReaders DEF Retry, FromOpened, OpenedVersionOnly, readerVars, Polling
  <1>6. CASE Body
    <2>1. job # Idle /\ job.version \in Accepted /\ Ok(job.version).version \in Accepted
      BY <1>6, JobFields, ReplyTypes DEF Body, Idle, FromOpened
    <2>2. Ok(job.version) \in Replies
      BY <1>6, JobFields, ReplyTypes DEF Body
    <2> QED BY <1>6, <2>1, <2>2, FromOpenedAnswer DEF Body, readerVars
  <1>7. CASE BodyError
    <2>1. job # Idle /\ Failed.kind # "ok"
      BY <1>7, JobFields DEF BodyError, Idle, Failed
    <2> QED BY <1>7, <2>1, ReplyTypes, FromOpenedAnswer DEF BodyError, readerVars
  <1>8. CASE Abort
    <2>1. Cancelled.kind # "ok"
      BY DEF Cancelled
    <2> QED BY <1>8, <2>1, ReplyTypes, FromOpenedAnswer DEF Abort, readerVars
  <1> QED BY <1>1, <1>2, <1>3, <1>4, <1>5, <1>6, <1>7, <1>8 DEF JobThread

LEMMA FromOpenedReader ==
    ASSUME ReadTypeOK, FromOpened, NEW r \in Readers, Reader(r)
    PROVE  FromOpened'
  <1>1. CASE Receive(r)
    <2>1. message[r] \in Messages /\ reply[r].version \in Accepted
      BY <1>1 DEF ReadTypeOK, Receive, FromOpened
    <2>2. Stored(message[r], reply[r].version) \in
            {NotFetched} \cup {Fetched(v) : v \in Accepted}
      BY <2>1 DEF Stored, FromOpened, OpenedVersionOnly
    <2>3. OpenedVersionOnly'
      BY <1>1, <2>1, <2>2 DEF Receive, ReadTypeOK, FromOpened, OpenedVersionOnly
    <2>4. \A q \in Readers : reply'[q] = NoReply \/ reply'[q] = reply[q]
      BY <1>1 DEF Receive, ReadTypeOK
    <2>5. \A q \in Readers : reply'[q].kind = "ok" => reply'[q].version \in Accepted
      BY <2>4, ReplyTypes DEF FromOpened
    <2> QED BY <1>1, <2>3, <2>5 DEF Receive, FromOpened
  <1>2. CASE GiveUp(r)
    <2>1. \A q \in Readers : reply'[q] = NoReply \/ reply'[q] = reply[q]
      BY <1>2 DEF GiveUp, ReadTypeOK
    <2>2. \A q \in Readers : reply'[q].kind = "ok" => reply'[q].version \in Accepted
      BY <2>1, ReplyTypes DEF FromOpened
    <2> QED BY <1>2, <2>2 DEF GiveUp, FromOpened, OpenedVersionOnly
  <1>3. CASE Submit(r) \/ Refuse(r) \/ Decode(r)
    BY <1>3 DEF Submit, Refuse, Decode, FromOpened, OpenedVersionOnly
  <1> QED BY <1>1, <1>2, <1>3 DEF Reader

(* Every message shown comes from the object that was opened, or from a     *)
(* version its identity cannot tell from it: read_range rejects any other.  *)
THEOREM RemoteOpenedVersionOnly == ReadSpec => []OpenedVersionOnly
  <1>1. ReadInit => FromOpened
    BY ReplyTypes DEF ReadInit, FromOpened, OpenedVersionOnly, Accepted, Idle
  <1>2. ReadTypeOK /\ FromOpened /\ [ReadNext]_remoteVars => FromOpened'
    <2> SUFFICES ASSUME ReadTypeOK, FromOpened, [ReadNext]_remoteVars PROVE FromOpened'
      OBVIOUS
    <2>1. ASSUME NEW r \in Readers, NEW m \in Messages,
                 NEW t \in {"absent", "clear"}, Start(r, m, t)
          PROVE  FromOpened'
      BY <2>1 DEF Start, FromOpened, OpenedVersionOnly
    <2>2. ASSUME NEW r \in Readers, Cancel(r)
          PROVE  FromOpened'
      BY <2>2 DEF Cancel, FromOpened, OpenedVersionOnly
    <2>3. CASE Rewrite \/ UNCHANGED remoteVars
      BY <2>3 DEF Rewrite, remoteVars, readerVars, FromOpened, OpenedVersionOnly
    <2> QED BY <2>1, <2>2, <2>3, FromOpenedReader, FromOpenedJob DEF ReadNext
  <1> QED BY <1>1, <1>2, RemoteTypeCorrect, PTL DEF ReadSpec, FromOpened

LEMMA DecoderKept ==
    ASSUME ReadTypeOK, [ReadNext]_remoteVars
    PROVE  \A m \in Messages : decoder[m] # NotFetched => decoder'[m] = decoder[m]
  <1>1. ASSUME NEW r \in Readers, Receive(r)
        PROVE  \A m \in Messages : decoder[m] # NotFetched => decoder'[m] = decoder[m]
    BY <1>1 DEF Receive, ReadTypeOK, Stored
  <1>2. CASE UNCHANGED decoder
    BY <1>2
  <1>3. JobThread => UNCHANGED decoder
    BY DEF JobThread, TakeJob, Respond, TransientError, PermanentError, Retry,
           Body, BodyError, Abort, readerVars
  <1>4. \A r \in Readers : Reader(r) \/ Cancel(r) => Receive(r) \/ UNCHANGED decoder
    BY DEF Reader, Submit, Refuse, GiveUp, Decode, Cancel
  <1>5. \A r \in Readers, m \in Messages, t \in {"absent", "clear"} : Start(r, m, t) => UNCHANGED decoder
    BY DEF Start
  <1>6. Rewrite \/ UNCHANGED remoteVars => UNCHANGED decoder
    BY DEF Rewrite, remoteVars, readerVars
  <1> QED BY <1>1, <1>2, <1>3, <1>4, <1>5, <1>6 DEF ReadNext

(* A message already decoded keeps its decoder, however many readers        *)
(* fetched it at once: all of them work on the same data.                   *)
THEOREM RemoteDecoderStays == ReadSpec => DecoderStays
  <1>1. ReadTypeOK /\ [ReadNext]_remoteVars
          => [\A m \in Messages :
                decoder[m] # NotFetched => decoder'[m] = decoder[m]]_remoteVars
    BY DecoderKept
  <1> QED BY <1>1, RemoteTypeCorrect, PTL DEF ReadSpec, DecoderStays

LEMMA DecodedStep ==
    ASSUME ReadTypeOK, ReadTypeOK', DecodedBeforeUse, [ReadNext]_remoteVars
    PROVE  DecodedBeforeUse'
  <1>1. \A m \in Messages : decoder[m] # NotFetched => decoder'[m] # NotFetched
    BY DecoderKept
  <1>2. CASE UNCHANGED <<pc, message>>
    BY <1>1, <1>2 DEF DecodedBeforeUse, ReadTypeOK
  <1>3. ASSUME NEW r \in Readers, NEW m \in Messages, NEW t, Start(r, m, t)
        PROVE  DecodedBeforeUse'
    BY <1>3 DEF Start, DecodedBeforeUse, ReadTypeOK
  <1>4. ASSUME NEW r \in Readers, Receive(r)
        PROVE  DecodedBeforeUse'
    <2>1. message[r] \in Messages /\ decoder'[message[r]] # NotFetched
      BY <1>4 DEF Receive, ReadTypeOK, Stored, NotFetched, Fetched
    <2>2. \A q \in Readers : pc'[q] = "decode" => q = r \/ pc[q] = "decode"
      BY <1>4 DEF Receive, ReadTypeOK
    <2> QED BY <1>1, <1>4, <2>1, <2>2 DEF Receive, DecodedBeforeUse, ReadTypeOK
  <1>5. ASSUME NEW r \in Readers,
               Submit(r) \/ Refuse(r) \/ GiveUp(r) \/ Decode(r)
        PROVE  DecodedBeforeUse'
    <2>1. \A q \in Readers : pc'[q] = "decode" => pc[q] = "decode"
      BY <1>5 DEF Submit, Refuse, GiveUp, Decode, ReadTypeOK
    <2>2. message' = message
      BY <1>5 DEF Submit, Refuse, GiveUp, Decode
    <2> QED BY <1>1, <2>1, <2>2 DEF DecodedBeforeUse, ReadTypeOK
  <1>6. JobThread \/ Rewrite \/ UNCHANGED remoteVars => UNCHANGED <<pc, message>>
    BY DEF JobThread, TakeJob, Respond, TransientError, PermanentError, Retry,
           Body, BodyError, Abort, Rewrite, readerVars, remoteVars
  <1>7. \A r \in Readers : Cancel(r) => UNCHANGED <<pc, message>>
    BY DEF Cancel
  <1> QED BY <1>2, <1>3, <1>4, <1>5, <1>6, <1>7 DEF ReadNext, Reader

(* The error "message was not decoded" of with_decoder_cancelled is never   *)
(* reached: a reader in its callback finds the message decoded.             *)
THEOREM RemoteDecodedBeforeUse == ReadSpec => []DecodedBeforeUse
  <1>1. ReadInit => DecodedBeforeUse
    BY DEF ReadInit, DecodedBeforeUse
  <1>2. ReadTypeOK /\ ReadTypeOK' /\ DecodedBeforeUse /\ [ReadNext]_remoteVars => DecodedBeforeUse'
    BY DecodedStep
  <1> QED BY <1>1, <1>2, RemoteTypeCorrect, PTL DEF ReadSpec

LEMMA CancelledAnswer ==
    ASSUME ReadTypeOK, CancelledByOwner, job # Idle, NEW a,
           a = Cancelled => token[job.reader] = "set",
           Answer(job.reader, a), UNCHANGED token
    PROVE  CancelledByOwner'
  <1>1. job.reader \in Readers
    BY JobFields
  <1> QED BY <1>1 DEF Answer, CancelledByOwner, ReadTypeOK

LEMMA CancelledStep ==
    ASSUME Backed, CancelledByOwner, [ReadNext]_remoteVars
    PROVE  CancelledByOwner'
  <1> USE DEF Backed
  <1>1. CASE UNCHANGED <<reply, token>>
    BY <1>1 DEF CancelledByOwner
  <1>2. ASSUME NEW r \in Readers, NEW m \in Messages, NEW t, Start(r, m, t)
        PROVE  CancelledByOwner'
    <2>1. reply[r] # Cancelled
      BY <1>2, ReplyTypes DEF Start, WaitingIsBacked, Replied
    <2> QED BY <1>2, <2>1 DEF Start, CancelledByOwner, ReadTypeOK
  <1>3. ASSUME NEW r \in Readers, Receive(r) \/ GiveUp(r)
        PROVE  CancelledByOwner'
    <2>1. \A q \in Readers : reply'[q] = NoReply \/ reply'[q] = reply[q]
      BY <1>3 DEF Receive, GiveUp, ReadTypeOK
    <2>2. token' = token
      BY <1>3 DEF Receive, GiveUp
    <2> QED BY <2>1, <2>2, ReplyTypes DEF CancelledByOwner
  <1>4. ASSUME NEW r \in Readers, Cancel(r)
        PROVE  CancelledByOwner'
    BY <1>4 DEF Cancel, CancelledByOwner, ReadTypeOK
  <1>5. CASE JobThread
    <2>1. CASE UNCHANGED <<reply, token>>
      BY <2>1, <1>1
    <2>2. CASE Abort
      BY <2>2, CancelledAnswer DEF Abort, TokenSet, readerVars
    <2>3. CASE ~UNCHANGED <<reply, token>> /\ ~Abort
      <3>1. /\ job # Idle /\ UNCHANGED token
            /\ Answer(job.reader, Failed) \/ Answer(job.reader, Ok(job.version))
        BY <1>5, <2>3, JobFields
        DEF JobThread, TakeJob, Respond, TransientError, PermanentError, Retry,
            Body, BodyError, readerVars, Idle
      <3> QED BY <3>1, CancelledAnswer, ReplyTypes
    <2> QED BY <2>1, <2>2, <2>3
  <1>6. \A r \in Readers : Submit(r) \/ Refuse(r) \/ Decode(r) => UNCHANGED <<reply, token>>
    BY DEF Submit, Refuse, Decode
  <1>7. Rewrite \/ UNCHANGED remoteVars => UNCHANGED <<reply, token>>
    BY DEF Rewrite, remoteVars, readerVars
  <1> QED BY <1>1, <1>2, <1>3, <1>4, <1>5, <1>6, <1>7 DEF ReadNext, Reader

(* A read is reported cancelled only if its own token was set, although all *)
(* reads share the job thread that selects on the tokens.                   *)
THEOREM RemoteCancelledByOwner == ReadSpec => []CancelledByOwner
  <1>1. ReadInit => CancelledByOwner
    BY ReplyTypes DEF ReadInit, CancelledByOwner
  <1>2. Backed /\ CancelledByOwner /\ [ReadNext]_remoteVars => CancelledByOwner'
    BY CancelledStep
  <1> QED BY <1>1, <1>2, BackedHolds, PTL DEF ReadSpec

LEMMA PlacesCount ==
    ASSUME NEW n \in Nat
    PROVE  IsFiniteSet(1 .. n) /\ Cardinality(1 .. n) = n
  <1>1. 1 \in Int /\ n \in Int
    OBVIOUS
  <1>2. /\ IsFiniteSet(1 .. n)
        /\ Cardinality(1 .. n) = IF 1 > n THEN 0 ELSE n - 1 + 1
    BY <1>1, FS_Interval, Zenon
  <1>3. (IF 1 > n THEN 0 ELSE n - 1 + 1) = n
    OBVIOUS
  <1> QED BY <1>2, <1>3

(* A read is refused only when as many other reads are queued as the        *)
(* channel holds (32 in the code), each of a reader still waiting for it;   *)
(* so no read is refused when there are no more readers than that.          *)
THEOREM RemoteRefusedOnlyByWaiting == ReadSpec => []RefusedOnlyByWaiting
  <1>1. Backed => RefusedOnlyByWaiting
    <2> DEFINE W == {q \in Readers : pc[q] = "waiting" /\ reply[q] = NoReply}
               places == 1 .. Len(jobs)
    <2> SUFFICES ASSUME Backed, Len(jobs) = QueueSize, ~(Cardinality(W) >= QueueSize)
                 PROVE  FALSE
      BY DEF RefusedOnlyByWaiting
    <2>1. Len(jobs) \in Nat /\ QueueSize \in Nat /\ jobs \in [places -> Readers]
      BY PolicyAssumption DEF Backed, ReadTypeOK
    <2>2. \A i \in places : pc[jobs[i]] = "waiting" /\ reply[jobs[i]] = NoReply
      BY <2>1 DEF Backed, WaitingIsBacked, Queued, Replied
    <2>3. jobs \in [places -> W]
      BY <2>1, <2>2
    <2>4. IsFiniteSet(W) /\ Cardinality(W) \in Nat
      <3>1. W \subseteq Readers
        OBVIOUS
      <3> HIDE DEF W
      <3> QED BY <3>1, ReadersAssumption, FS_Subset, FS_CardinalityType
    <2>5. IsFiniteSet(places) /\ Cardinality(places) = Len(jobs)
      BY <2>1, PlacesCount
    <2>6. Cardinality(W) < Cardinality(places)
      BY <2>1, <2>4, <2>5
    <2>7. \E i, j \in places : i # j /\ jobs[i] = jobs[j]
      <3> HIDE DEF places, W
      <3> QED BY <2>3, <2>4, <2>5, <2>6, FS_PigeonHole
    <2> QED BY <2>7 DEF Backed, QueuedOnce
  <1> QED BY <1>1, BackedHolds, PTL
=============================================================================
