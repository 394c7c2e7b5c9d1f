------------------------------ MODULE PagedReads ------------------------------
(* Reading a large remote NetCDF-4 object through pages: the opening loop   *)
(* of data/remote_netcdf4.rs, whose metadata window doubles until it        *)
(* parses, and RemoteByteSource::read of data/remote_hdf5.rs, which looks   *)
(* the covering pages up in the range cache, releases the cache while it    *)
(* fetches them, and stores what it fetched.  All reads go through the one  *)
(* job thread of StorageRuntime (storage/mod.rs).  Offsets are positions in *)
(* the object and an answer is the interval [from, to) of the object whose  *)
(* bytes it holds.  Whether the parser understands a window is a free       *)
(* choice; attempts and versions of the object are in RemoteRead.           *)
EXTENDS RangeCache, Sequences

CONSTANTS PageReaders,        \* threads that read through the source
          Opener,         \* the one that opens it
          ObjectSize,     \* ObjectIdentity::size
          PageSize,       \* HDF5_PAGE_SIZE
          MaxRequest,     \* RangePolicy::max_request_bytes
          InitialWindow,  \* INITIAL_METADATA_WINDOW_BYTES
          MaxWindow,      \* MAX_METADATA_WINDOW_BYTES
          MaxWord,        \* u64::MAX
          PageQueueSize,      \* capacity of the job channel
          KeyOf,          \* <<start, end>> |-> the cache key of these pages
          MaxAsks,        \* bound: reads asked for besides the windows
          Nobody          \* no read is waiting for the provider

ASSUME PageAssumption ==
    /\ PageSize \in Nat \ {0} /\ ObjectSize \in Nat /\ MaxRequest \in Nat
    /\ MaxWord \in Nat /\ ObjectSize <= MaxWord
ASSUME WindowAssumption ==
    InitialWindow \in Nat \ {0} /\ MaxWindow \in Nat /\ InitialWindow <= MaxWindow
ASSUME OpenerAssumption == Opener \in PageReaders /\ Nobody \notin PageReaders
ASSUME AsksAssumption == PageQueueSize \in Nat \ {0} /\ MaxAsks \in Nat

VARIABLES stage,     \* "closed", "opening", "open" or "failed"
          metaWindow,    \* the metadata window that is read and parsed
          wanted,    \* reader |-> the read it waits for, or NoRead
          answer,    \* reader |-> what its result channel holds
          queue,     \* the job channel: readers whose reads are queued
          fetching,  \* the reader whose pages the job thread fetches
          asks       \* reads asked for so far, windows left out

readVars == <<stage, metaWindow, wanted, answer, queue, fetching, asks>>
pageVars == <<vars, readVars>>

Smaller(a, b) == IF a <= b THEN a ELSE b
Interval(lo, hi) == [from |-> lo, to |-> hi]
Reads    == [offset : 0 .. MaxWord, length : 0 .. MaxWord]
NoRead   == [offset |-> 0, length |-> MaxWord + 1]
NoAnswer == Interval(1, 0)
FailedAnswer   == Interval(2, 0)
Panicked == Interval(3, 0)

\* checked_add and ByteRange::new
Readable(q) == q.offset + q.length <= ObjectSize

(* The whole pages around a read, cut at the end of the object.  div_ceil   *)
(* and a multiplication that saturates at the width of the word.            *)
Pages(q) ==
    LET last == (q.offset + q.length + PageSize - 1) \div PageSize
    IN  Interval((q.offset \div PageSize) * PageSize,
                 Smaller(Smaller(last * PageSize, MaxWord), ObjectSize))

Key(pages) == KeyOf[<<pages.from, pages.to>>]

ASSUME KeyAssumption ==
    \A q \in Reads : q.length # 0 /\ Readable(q) => Key(Pages(q)) \in Blocks

\* Mutant: the slice of the pages starts at the offset in the object.
SliceAtOffset(pages, q) == Interval(pages.from + q.offset, pages.from + q.offset + q.length)

(* bytes.slice(start..end): the part of the pages the read asked for.  It   *)
(* panics on an end behind the block.                                       *)
Slice(pages, q) ==
    LET start == q.offset - pages.from
        end   == start + q.length
    IN  IF end > pages.to - pages.from THEN Panicked
        ELSE Interval(pages.from + start, pages.from + end)

Fits(pages) == pages.to - pages.from <= MaxRequest

PagesInit ==
    /\ Init
    /\ stage = "opening"
    /\ metaWindow = Smaller(InitialWindow, ObjectSize)
    /\ wanted = [r \in PageReaders |-> NoRead]
    /\ answer = [r \in PageReaders |-> NoAnswer]
    /\ queue = << >>
    /\ fetching = Nobody
    /\ asks = 0

-----------------------------------------------------------------------------
\* The readers: BlockingRemoteByteSource::read submits and blocks.

Unasked(r) == wanted[r] = NoRead

WindowRead == [offset |-> 0, length |-> metaWindow]

\* the channel takes the job, or try_send fails and the read with it
SubmitPages(r, q) ==
    /\ wanted' = [wanted EXCEPT ![r] = q]
    /\ IF Len(queue) < PageQueueSize
       THEN queue' = Append(queue, r) /\ UNCHANGED answer
       ELSE answer' = [answer EXCEPT ![r] = FailedAnswer] /\ UNCHANGED queue

\* a chunk, or a part of the metadata behind the window
AskChunk(r, q) ==
    /\ Unasked(r)
    /\ stage = "open" \/ (stage = "opening" /\ r = Opener /\ q # WindowRead)
    /\ asks < MaxAsks
    /\ asks' = asks + 1
    /\ SubmitPages(r, q)
    /\ UNCHANGED <<vars, stage, metaWindow, fetching>>

HasWindow == wanted[Opener] = WindowRead /\ answer[Opener] # NoAnswer

\* the reader takes what it waited for
Take(r) ==
    /\ ~Unasked(r)
    /\ answer[r] # NoAnswer
    /\ ~(stage = "opening" /\ HasWindow /\ r = Opener)
    /\ wanted' = [wanted EXCEPT ![r] = NoRead]
    /\ answer' = [answer EXCEPT ![r] = NoAnswer]
    /\ UNCHANGED <<vars, stage, metaWindow, queue, fetching, asks>>

\* one turn of the loop asks for the window; its answer ends the wait below
AskWindow ==
    /\ stage = "opening"
    /\ Unasked(Opener)
    /\ SubmitPages(Opener, WindowRead)
    /\ UNCHANGED <<vars, stage, metaWindow, fetching, asks>>

Settle(s) ==
    /\ stage' = s
    /\ wanted' = [wanted EXCEPT ![Opener] = NoRead]
    /\ answer' = [answer EXCEPT ![Opener] = NoAnswer]
    /\ UNCHANGED <<vars, queue, fetching, asks>>

\* the window parses
SourceOpened ==
    /\ stage = "opening" /\ HasWindow /\ answer[Opener] # FailedAnswer
    /\ Settle("open")
    /\ UNCHANGED metaWindow

\* the range failed, no window parses, or the user gives up at the progress
\* report that each turn of the loop begins with
OpeningFailed ==
    /\ stage = "opening"
    /\ HasWindow \/ Unasked(Opener)
    /\ Settle("failed")
    /\ UNCHANGED metaWindow

\* Mutant: the window is cut at its limit before it is doubled.
LargerCutFirst == Smaller(Smaller(metaWindow, MaxWindow \div 2), ObjectSize)

\* the next window, doubled and cut at the limit and at the object
Larger == Smaller(Smaller(metaWindow * 2, MaxWindow), ObjectSize)

\* the window does not parse and a larger one may
Enlarge ==
    /\ stage = "opening" /\ HasWindow /\ answer[Opener] # FailedAnswer
    /\ metaWindow < MaxWindow /\ metaWindow < ObjectSize
    /\ metaWindow' = Larger
    /\ Settle("opening")

-----------------------------------------------------------------------------
\* The job thread: RemoteByteSource::read, one read at a time.

Head1 == Head(queue)

AnswerHead(a) ==
    /\ answer' = [answer EXCEPT ![Head1] = a]
    /\ queue' = Tail(queue)
    /\ UNCHANGED <<stage, metaWindow, wanted, fetching, asks>>

Ready == fetching = Nobody /\ queue # << >>

Missing(q) == Readable(q) /\ Key(Pages(q)) \notin Cached

\* a read of nothing needs no pages, wherever it is
ServeEmpty ==
    /\ Ready
    /\ LET q == wanted[Head1] IN
         q.length = 0 /\ AnswerHead(Interval(q.offset, q.offset))
    /\ UNCHANGED vars

\* the read overflows, ends behind the object or needs too many pages
ServeInvalid ==
    /\ Ready
    /\ LET q == wanted[Head1] IN
         /\ q.length # 0
         /\ \/ ~Readable(q)
            \/ Missing(q) /\ ~Fits(Pages(q))
    /\ AnswerHead(FailedAnswer)
    /\ UNCHANGED vars

\* the pages are cached as one block
ServeCached ==
    /\ Ready
    /\ LET q == wanted[Head1] IN
         /\ q.length # 0 /\ Readable(q)
         /\ Hit(Key(Pages(q)))
         /\ AnswerHead(Slice(Pages(q), q))

\* the cache is released and the pages are requested
StartFetch ==
    /\ Ready
    /\ LET q == wanted[Head1] IN
         q.length # 0 /\ Missing(q) /\ Fits(Pages(q))
    /\ fetching' = Head1
    /\ queue' = Tail(queue)
    /\ UNCHANGED <<vars, stage, metaWindow, wanted, answer, asks>>

\* the block is stored; what insert says of a block too large is ignored
Store(k) == Insert(k, "metadata") \/ (Refused(k) /\ UNCHANGED vars)

EndFetch(a) ==
    /\ answer' = [answer EXCEPT ![fetching] = a]
    /\ fetching' = Nobody
    /\ UNCHANGED <<stage, metaWindow, wanted, queue, asks>>

FetchOk ==
    /\ fetching # Nobody
    /\ LET q == wanted[fetching] IN
         Store(Key(Pages(q))) /\ EndFetch(Slice(Pages(q), q))

FetchFailed ==
    /\ fetching # Nobody
    /\ EndFetch(FailedAnswer)
    /\ UNCHANGED vars

Opening == AskWindow \/ SourceOpened \/ OpeningFailed \/ Enlarge

PageJob ==
    \/ ServeEmpty \/ ServeInvalid \/ ServeCached \/ StartFetch
    \/ FetchOk \/ FetchFailed

PagesNext ==
    \/ \E r \in PageReaders, q \in Reads : AskChunk(r, q)
    \/ \E r \in PageReaders : Take(r)
    \/ Opening
    \/ PageJob

(* The job thread polls and its requests time out; a thread blocked on its  *)
(* result runs when it is there; the opening loop waits for nothing else.   *)
PagesFairness ==
    /\ WF_pageVars(PageJob) /\ WF_pageVars(Opening)
    /\ \A r \in PageReaders : WF_pageVars(Take(r))

PagesSpec == PagesInit /\ [][PagesNext]_pageVars /\ PagesFairness

-----------------------------------------------------------------------------
(* What a reader gets is exactly the interval of the object it asked for,   *)
(* whether its pages were cached under the range of another read, fetched,  *)
(* or cut at the end of the object (RemoteByteSource::read).                *)
AnswerIsAsked ==
    \A r \in PageReaders :
      answer[r] \notin {NoAnswer, FailedAnswer} =>
        answer[r] = Interval(wanted[r].offset, wanted[r].offset + wanted[r].length)

(* Opening ends, although a window that does not parse is read again as a   *)
(* larger one: the window grows until it is the largest one or the whole    *)
(* object (open_remote_with_progress).                                      *)
OpeningEnds == []<>(stage # "opening")
=============================================================================
