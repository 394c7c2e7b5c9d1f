----------------------------- MODULE RemoteRead -----------------------------
(* Reading GRIB2 messages of one remote object: reader threads              *)
(* (data/remote_grib2.rs), the bounded job channel and the one job thread   *)
(* of StorageRuntime (storage/mod.rs), and the attempts of                  *)
(* RemoteStore::read_range (storage/object_store.rs).  Readers share the    *)
(* decoder each message is decoded into at most once.                       *)
(* A version of the object stands for its bytes; the source was opened on   *)
(* version 0.  Transfer statistics and the request log are left out, and so *)
(* is a panic of the job thread, which drops every result channel.          *)
EXTENDS Naturals, Sequences, FiniteSets

CONSTANTS Readers,      \* threads that read slices, series or coordinates
          Messages,     \* the messages of the opened object
          First,        \* the one open_remote decodes for its metadata
          QueueSize,    \* capacity of the job channel, 32 in the code
          MaxAttempts,  \* RangePolicy::max_attempts, 3 in the code
          MaxReads,     \* bound: how many reads are started
          MaxRewrites,  \* bound: how often the provider's object changes
          Undetected    \* the versions matches_meta cannot tell from 0: same
                        \* size, and the provider gave no etag and no version

ASSUME ReadersAssumption == IsFiniteSet(Readers)
ASSUME FirstAssumption == First \in Messages
ASSUME PolicyAssumption ==
    QueueSize \in Nat \ {0} /\ MaxAttempts \in Nat \ {0}
ASSUME BoundsAssumption == MaxReads \in Nat /\ MaxRewrites \in Nat
ASSUME UndetectedAssumption == Undetected \subseteq 1 .. MaxRewrites

Versions == 0 .. MaxRewrites
Accepted == {0} \cup Undetected

NotFetched == [bytes |-> "none"]
Fetched(v) == [bytes |-> "whole", version |-> v]
Decoders   == {NotFetched} \cup {Fetched(v) : v \in Versions}

NoReply   == [kind |-> "none"]
Failed    == [kind |-> "failed"]
Cancelled == [kind |-> "cancelled"]
Ok(v)     == [kind |-> "ok", version |-> v]
Replies   == {Failed, Cancelled} \cup {Ok(v) : v \in Versions}

VARIABLES object,    \* the version the provider holds now
          decoder,   \* message |-> RemoteMessage::source
          pc,        \* reader |-> where it is in with_decoder_cancelled
          message,   \* reader |-> the message it reads
          token,     \* reader |-> its cancellation flag, "absent" if it has none
          reply,     \* reader |-> what its result channel holds
          jobs,      \* the job channel: readers whose reads are queued
          job,       \* the read the job thread is polling
          reads      \* reads started so far

remoteVars == <<object, decoder, pc, message, token, reply, jobs, job, reads>>

Idle == [phase |-> "idle"]
Polling(r, attempt, phase) ==
    [phase |-> phase, reader |-> r, attempt |-> attempt]
Receiving(r, attempt, v) ==
    [phase |-> "body", reader |-> r, attempt |-> attempt, version |-> v]

Attempts == 0 .. MaxAttempts - 1

JobStates ==
    {Idle}
    \cup {Polling(r, a, p) : r \in Readers, a \in Attempts,
                             p \in {"request", "backoff"}}
    \cup {Receiving(r, a, v) : r \in Readers, a \in Attempts, v \in Versions}

ReadInit ==
    /\ object = 0
    /\ decoder = [m \in Messages |-> IF m = First THEN Fetched(0) ELSE NotFetched]
    /\ pc = [r \in Readers |-> "idle"]
    /\ message \in [Readers -> Messages]
    /\ token = [r \in Readers |-> "absent"]
    /\ reply = [r \in Readers |-> NoReply]
    /\ jobs = << >>
    /\ job = Idle
    /\ reads = 0

-----------------------------------------------------------------------------
\* The reader: with_decoder_cancelled, and a holder of its token.

(* The message is looked up under its mutex; the mutex is released before   *)
(* the bytes are fetched, so several readers may find it missing.           *)
Start(r, m, t) ==
    /\ pc[r] = "idle"
    /\ reads < MaxReads
    /\ reads' = reads + 1
    /\ message' = [message EXCEPT ![r] = m]
    /\ token' = [token EXCEPT ![r] = t]
    /\ pc' = [pc EXCEPT ![r] = IF decoder[m] = NotFetched THEN "fetch" ELSE "decode"]
    /\ UNCHANGED <<object, decoder, reply, jobs, job>>

\* try_send succeeds
Submit(r) ==
    /\ pc[r] = "fetch"
    /\ Len(jobs) < QueueSize
    /\ jobs' = Append(jobs, r)
    /\ pc' = [pc EXCEPT ![r] = "waiting"]
    /\ UNCHANGED <<object, decoder, message, token, reply, job, reads>>

\* the channel is full: the read fails with WorkerStopped
Refuse(r) ==
    /\ pc[r] = "fetch"
    /\ Len(jobs) = QueueSize
    /\ pc' = [pc EXCEPT ![r] = "idle"]
    /\ UNCHANGED <<object, decoder, message, token, reply, jobs, job, reads>>

\* the owner of a newer read sets the flag of this one
Cancel(r) ==
    /\ pc[r] # "idle"
    /\ token[r] = "clear"
    /\ token' = [token EXCEPT ![r] = "set"]
    /\ UNCHANGED <<object, decoder, pc, message, reply, jobs, job, reads>>

\* Mutant: a reader that lost the race overwrites the shared decoder.
StoredAlways(m, v) == Fetched(v)

\* what the message holds once a reader stores version v: the first one stays
Stored(m, v) == IF decoder[m] = NotFetched THEN Fetched(v) ELSE decoder[m]

\* the bytes arrive and decode
Receive(r) ==
    /\ pc[r] = "waiting"
    /\ reply[r].kind = "ok"
    /\ decoder' = [decoder EXCEPT ![message[r]] =
                     Stored(message[r], reply[r].version)]
    /\ pc' = [pc EXCEPT ![r] = "decode"]
    /\ reply' = [reply EXCEPT ![r] = NoReply]
    /\ UNCHANGED <<object, message, token, jobs, job, reads>>

\* the read failed or was cancelled, or its bytes do not decode
GiveUp(r) ==
    /\ pc[r] = "waiting"
    /\ reply[r] # NoReply
    /\ pc' = [pc EXCEPT ![r] = "idle"]
    /\ reply' = [reply EXCEPT ![r] = NoReply]
    /\ UNCHANGED <<object, decoder, message, token, jobs, job, reads>>

\* the callback runs on the shared decoder
Decode(r) ==
    /\ pc[r] = "decode"
    /\ pc' = [pc EXCEPT ![r] = "idle"]
    /\ UNCHANGED <<object, decoder, message, token, reply, jobs, job, reads>>

Reader(r) == Submit(r) \/ Refuse(r) \/ Receive(r) \/ GiveUp(r) \/ Decode(r)

-----------------------------------------------------------------------------
\* The job thread: it blocks on one future at a time.

readerVars == <<decoder, pc, message, token, reads>>

\* Mutant: the sender is dropped without an answer.
AnswerNobody(r, answer) == reply' = reply /\ job' = Idle

\* the future is done: its value goes to the reader's result channel
Answer(r, answer) ==
    /\ reply' = [reply EXCEPT ![r] = answer]
    /\ job' = Idle

\* Mutant: the job stays in the channel.
TakeJobAgain ==
    /\ job = Idle
    /\ jobs # << >>
    /\ job' = Polling(Head(jobs), 0, "request")
    /\ UNCHANGED <<object, jobs, reply, readerVars>>

TakeJob ==
    /\ job = Idle
    /\ jobs # << >>
    /\ job' = Polling(Head(jobs), 0, "request")
    /\ jobs' = Tail(jobs)
    /\ UNCHANGED <<object, reply, readerVars>>

\* Mutant: an object without its etag is compared by nothing.
MatchesAnything(v) == TRUE

\* the conditional request and ObjectIdentity::matches_meta
MatchesIdentity(v) == v \in Accepted

\* what an answer may be of: a provider that keeps versions still has the one
\* the request names (with_version), others the object they hold now
Served == {0, object}

\* the provider answers
Respond(v) ==
    /\ job.phase = "request"
    /\ IF MatchesIdentity(v)
       THEN /\ job' = Receiving(job.reader, job.attempt, v)
            /\ UNCHANGED reply
       ELSE Answer(job.reader, Failed)
    /\ UNCHANGED <<object, jobs, readerVars>>

MayRetry(attempt) == attempt + 1 < MaxAttempts

\* a retryable error or the request timeout
TransientError ==
    /\ job.phase = "request"
    /\ IF MayRetry(job.attempt)
       THEN /\ job' = Polling(job.reader, job.attempt, "backoff")
            /\ UNCHANGED reply
       ELSE Answer(job.reader, Failed)
    /\ UNCHANGED <<object, jobs, readerVars>>

\* an error is_retryable_message does not recognise, or another range than asked for
PermanentError ==
    /\ job.phase = "request"
    /\ Answer(job.reader, Failed)
    /\ UNCHANGED <<object, jobs, readerVars>>

\* Mutant: a retry does not count as an attempt.
RetryUncounted ==
    /\ job.phase = "backoff"
    /\ job' = Polling(job.reader, job.attempt, "request")
    /\ UNCHANGED <<object, jobs, reply, readerVars>>

\* the sleep of retry_delay ends
Retry ==
    /\ job.phase = "backoff"
    /\ job' = Polling(job.reader, job.attempt + 1, "request")
    /\ UNCHANGED <<object, jobs, reply, readerVars>>

\* the body arrives whole
Body ==
    /\ job.phase = "body"
    /\ Answer(job.reader, Ok(job.version))
    /\ UNCHANGED <<object, jobs, readerVars>>

\* the body fails, is short or times out: it is not asked for again
BodyError ==
    /\ job.phase = "body"
    /\ Answer(job.reader, Failed)
    /\ UNCHANGED <<object, jobs, readerVars>>

TokenSet(r) == token[r] = "set"

\* wait_for_cancellation wins the select: the future is dropped
Abort ==
    /\ job # Idle
    /\ TokenSet(job.reader)
    /\ Answer(job.reader, Cancelled)
    /\ UNCHANGED <<object, jobs, readerVars>>

JobThread ==
    \/ TakeJob \/ (\E v \in Served : Respond(v))
    \/ TransientError \/ PermanentError \/ Retry
    \/ Body \/ BodyError \/ Abort

\* somebody replaces the object at the provider
Rewrite ==
    /\ object < MaxRewrites
    /\ object' = object + 1
    /\ UNCHANGED <<reply, jobs, job, readerVars>>

ReadNext ==
    \/ \E r \in Readers, m \in Messages, t \in {"absent", "clear"} : Start(r, m, t)
    \/ \E r \in Readers : Reader(r) \/ Cancel(r)
    \/ JobThread
    \/ Rewrite

(* Reader threads run; the job thread polls, and every wait of read_range   *)
(* is bounded by a timeout, so its current job always takes another step.   *)
Fairness == WF_remoteVars(JobThread) /\ \A r \in Readers : WF_remoteVars(Reader(r))

ReadSpec == ReadInit /\ [][ReadNext]_remoteVars /\ Fairness

-----------------------------------------------------------------------------
(* Types; the attempt number stays within the retry budget and the channel  *)
(* within its capacity.                                                     *)
ReadTypeOK ==
    /\ object \in Versions
    /\ decoder \in [Messages -> Decoders]
    /\ pc \in [Readers -> {"idle", "fetch", "waiting", "decode"}]
    /\ message \in [Readers -> Messages]
    /\ token \in [Readers -> {"absent", "clear", "set"}]
    /\ reply \in [Readers -> Replies \cup {NoReply}]
    /\ jobs \in Seq(Readers) /\ Len(jobs) <= QueueSize
    /\ job \in JobStates
    /\ reads \in 0 .. MaxReads

Queued(r)  == \E i \in 1 .. Len(jobs) : jobs[i] = r
Running(r) == job # Idle /\ job.reader = r
Replied(r) == reply[r] # NoReply

(* A reader blocked in recv always has its read somewhere: queued, running  *)
(* or answered, and in one of these places only.  With none the thread      *)
(* would block forever (submit, submit_cancellable, receive).               *)
WaitingIsBacked ==
    \A r \in Readers :
      /\ pc[r] = "waiting" <=> Queued(r) \/ Running(r) \/ Replied(r)
      /\ ~(Queued(r) /\ Running(r)) /\ ~(Queued(r) /\ Replied(r))
      /\ ~(Running(r) /\ Replied(r))

(* Every message shown comes from the object that was opened, whatever is   *)
(* written over it meanwhile, but for the versions its identity cannot tell *)
(* from the opened one (read_range, matches_meta).                          *)
OpenedVersionOnly ==
    \A m \in Messages : decoder[m] \in {NotFetched} \cup {Fetched(v) : v \in Accepted}

(* A reader in its callback finds the message decoded: it locks the cell    *)
(* again after storing, and no reader empties it meanwhile.                 *)
DecodedBeforeUse ==
    \A r \in Readers : pc[r] = "decode" => decoder[message[r]] # NotFetched

(* A read is reported cancelled only if its own token was set, not the one  *)
(* of another read the same job thread serves.                              *)
CancelledByOwner ==
    \A r \in Readers : reply[r] = Cancelled => token[r] = "set"

(* A message already decoded keeps its decoder: readers that fetched it     *)
(* twice drop the second copy, so all of them see the same data.            *)
DecoderStays ==
    [][\A m \in Messages : decoder[m] # NotFetched => decoder'[m] = decoder[m]]_remoteVars

(* A read is refused only when the channel is filled by reads that other    *)
(* readers still wait for: no answered or abandoned read takes a place, so  *)
(* with no more readers than places none is refused (submit, spawn).        *)
RefusedOnlyByWaiting ==
    \A r \in Readers :
      pc[r] = "fetch" /\ Len(jobs) = QueueSize =>
        Cardinality({q \in Readers : pc[q] = "waiting" /\ reply[q] = NoReply}) >= QueueSize

(* Every read ends, served, failed, refused or cancelled, although all of   *)
(* them go through the one job thread and each may be retried.              *)
ReadsEnd == \A r \in Readers : []<>(pc[r] = "idle")
=============================================================================
