----------------------------- MODULE MCLaunches -----------------------------
(* Starting, sessions and storage, as a sum: a behaviour either launches    *)
(* the program (Launches), reads messages of a remote object (RemoteRead),  *)
(* or uses the range cache (PagedReads), and the other parts stay as they   *)
(* began.                                                                   *)
(* Launches: two files.  The first has a field "a" of 3 by 2 cells, the     *)
(* second has it too and a smaller field "b", whose formula "d" has the     *)
(* plane of "b".  In both, "a" is the initial variable.  The canvas has     *)
(* fewer rows than "a" and more columns.                                    *)
(* RemoteRead: readers and messages are model values; m1 is decoded when    *)
(* the object is opened.  The readers are alike, but ReadsEnd forbids a     *)
(* symmetry set.                                                            *)
(* PagedReads: with no source open, the operations of the cache are called  *)
(* in every order on four blocks of two objects: any of the first three     *)
(* fit, not all of them, and the fourth no cache of this size can take.     *)
(* Else a remote object of five bytes is opened and read in pages of two,   *)
(* of which a request takes four bytes at most and the cache holds four.    *)
EXTENDS Launches, RemoteRead, PagedReads, FiniteSetsExt

CONSTANTS r1, r2, r3, m1, m2

ThreeReaders == {r1, r2, r3}
TwoReaders   == {r1, r2}
TwoMessages  == {m1, m2}

MCFiles == 1 .. 2
MCHas == << {"a"}, {"a", "b"} >>
MCPreference == [a |-> 3, b |-> 2, d |-> 1]

View(f, x, turned) == [file |-> f, variable |-> x, turned |-> turned]
MCViews ==
    {View(1, "a", t) : t \in BOOLEAN}
      \cup {View(2, x, t) : x \in {"a", "b", "d"}, t \in BOOLEAN}
MCVariableOf == [v \in MCViews |-> v.variable]
MCFileOf == [v \in MCViews |-> v.file]
MCDefaults == {v \in MCViews : ~v.turned}
\* the names of the dimensions of "b" suggest other axes than their roles
MCNamed == [v \in MCViews |-> [v EXCEPT !.turned = (v.variable = "b")]]
MCFrames == [v \in MCViews |-> {u \in MCViews : /\ u.variable = v.variable /\ u.turned = v.turned
                                                /\ u.file # v.file}]
MCTransposed == [v \in MCViews |-> [v EXCEPT !.turned = ~@]]
Size(v) == IF v.variable = "a" THEN <<3, 2>> ELSE <<2, 1>>
MCRows == [v \in MCViews |-> IF v.turned THEN Size(v)[2] ELSE Size(v)[1]]
MCCols == [v \in MCViews |-> IF v.turned THEN Size(v)[1] ELSE Size(v)[2]]
MCFlipped == {v \in MCViews : v.variable = "a"}

MCPointers == {<<0, 0>>, <<1, 1>>}

MCMaxCommands == <<4, 2>>
MCLabellings == {{}, {2}}

PageRanges == << <<0, 2>>, <<0, 4>>, <<0, 5>>, <<2, 4>>, <<2, 5>>, <<4, 5>> >>
MCKeyOf == [p \in {PageRanges[i] : i \in 1 .. 6} |->
              CHOOSE i \in 1 .. 6 : PageRanges[i] = p]

MCBlocks == 1 .. 8
MCIdentities == {"first", "second"}
MCIdentityOf == [k \in MCBlocks |-> IF k < 7 THEN "first" ELSE "second"]
Length == [k \in MCBlocks |->
             CASE k = 7 -> 2 [] k = 8 -> 5
               [] OTHER -> PageRanges[k][2] - PageRanges[k][1]]
MCBytes == [S \in SUBSET MCBlocks |-> MapThenSumSet(LAMBDA k : Length[k], S)]

Called == {1, 6, 7, 8}

VARIABLE part

sumVars == <<launchVars, remoteVars, pageVars, part>>

NoLaunch == LaunchInit /\ labelled = {}
NoReads  == ReadInit /\ message = [r \in Readers |-> m1]

\* The cache before any source is open.
NoSource ==
    /\ Init
    /\ stage = "closed" /\ metaWindow = 0 /\ queue = << >> /\ asks = 0
    /\ wanted = [r \in PageReaders |-> NoRead]
    /\ answer = [r \in PageReaders |-> NoAnswer]
    /\ fetching = Nobody

SumInit ==
    \/ part = "launches" /\ LaunchInit /\ NoReads /\ NoSource
    \/ part = "reads" /\ ReadInit /\ NoLaunch /\ NoSource
    \/ part = "pages" /\ (PagesInit \/ NoSource) /\ NoLaunch /\ NoReads

CacheCall ==
    /\ stage = "closed"
    /\ \/ \E k \in Called, c \in Categories : Insert(k, c)
       \/ \E k \in Called : Hit(k)
       \/ \E i \in Identities : InvalidateIdentity(i)
    /\ UNCHANGED readVars

Sessions(A) == part = "launches" /\ A /\ UNCHANGED <<remoteVars, pageVars, part>>
Remote(A)   == part = "reads" /\ A /\ UNCHANGED <<launchVars, pageVars, part>>
Paged(A)    == part = "pages" /\ A /\ UNCHANGED <<launchVars, remoteVars, part>>

SumNext ==
    Sessions(LaunchNext) \/ Remote(ReadNext) \/ Paged(CacheCall \/ PagesNext)

SumFairness ==
    /\ \A f \in Files : WF_sumVars(Sessions(Loader(f)))
    /\ WF_sumVars(Sessions(OpenView))
    /\ WF_sumVars(Sessions(EndLoading /\ Finished /\ Opened = {}))
    /\ WF_sumVars(Remote(JobThread))
    /\ \A r \in Readers : WF_sumVars(Remote(Reader(r)))
    /\ WF_sumVars(Paged(PageJob))
    /\ WF_sumVars(Paged(Opening)) /\ \A r \in PageReaders : WF_sumVars(Paged(Take(r)))

SumSpec == SumInit /\ [][SumNext]_sumVars /\ SumFairness
=============================================================================
