----------------------------- MODULE PinFrontEnd -----------------------------
(***************************************************************************)
(* The Pin front end (PinInstrument.cpp and Simulation.cpp), an earlier    *)
(* collector: Pin calls it back in the thread that executes an annotation  *)
(* or an instruction, and when threads start and finish.  All threads      *)
(* share one CostPackage under one read-write lock.  Starting and          *)
(* finishing a thread take it for writing; everything else takes it for    *)
(* reading, also what changes the shared state.                            *)
(*                                                                         *)
(* A callback that reads before it writes is two steps: it enters, locks   *)
(* and reads the shared words it will change, and it leaves, writes them   *)
(* back and unlocks.  Between the two, other readers may do the same.      *)
(* Those are the outcomes of the data races: an update is lost or it is    *)
(* not.  A vector<bool> is one word.  A block seen for the first time also *)
(* makes the map of blocks and the vectors of their costs grow, which may  *)
(* move them: who uses them meanwhile uses freed storage, or writes to a   *)
(* copy that nobody reads.                                                 *)
(***************************************************************************)
EXTENDS Integers, SequencesExt, FiniteSetsExt, TLC

CONSTANTS
  Threads,        \* THREADIDs: Pin counts them from 0, the main thread
  Bbls,           \* hashes of the annotated blocks
  NoThread,       \* the writer of a lock that is not held for writing
  MaxDepth,       \* bound: annotations a thread has open
  MaxCallbacks    \* bound: annotations begun, calls for ROIs and instructions

ASSUME ThreadAssumption ==
  /\ Threads \in SUBSET Nat /\ IsFiniteSet(Threads) /\ NoThread \notin Threads
  /\ 0 \in Threads /\ \A t \in Threads : 0 .. t \subseteq Threads

ASSUME BoundAssumption ==
  MaxDepth \in Nat /\ MaxCallbacks \in Nat

VARIABLES
  options,        \* the command line: enableroi(), enableroidecision(), enableglobalbbl()
  pc,             \* where each thread is: outside the tool, or in which callback
  seen,           \* what a thread in a callback has read
  readers, writer,            \* _thread_count_rwmutex
  thread_count,               \* _thread_count
  scope,                      \* _thread_bbl_scope, a stack of ids for each slot
  in_roi, in_roidecision,     \* _thread_in_roi, _thread_in_roidecision
  bbl_hash, bbl_size,         \* _bbl_hash, _bbl_size
  bbl_parallelizable,         \* _bbl_parallelizable, by id
  in_omp_parallel,            \* _in_omp_parallel
  roi_decision,               \* _roi_decision, by id
  enter_roi_cnt, exit_roi_cnt,  \* _enter_roi_cnt, _exit_roi_cnt
  instruction_cost,           \* _bbl_instruction_cost of a unit latency, by id
  charged,        \* history: what InstructionCount has added up, by id
  failed,         \* an assertion failed, or storage was used out of bounds or when freed
  open,           \* history: the annotations each thread has open
  inside,         \* history: the kinds of ROI each thread is inside
  overlapped,     \* history: the kinds of callbacks that two threads were in at once, and
                  \* "growth" if a new block met a charge
  overtaken,      \* history: a thread started before one with a smaller id
  callbacks       \* counted for the bound

lockVars == <<pc, seen, readers, writer>>
threadVars == <<thread_count, scope>>
bblVars == <<bbl_hash, bbl_size, bbl_parallelizable, in_omp_parallel, roi_decision>>
roiVars == <<in_roi, in_roidecision, enter_roi_cnt, exit_roi_cnt>>
history == <<open, inside, overlapped, overtaken>>
costVars == <<instruction_cost, charged>>
vars == <<options, lockVars, threadVars, bblVars, roiVars, costVars, failed,
          history, callbacks>>

GLOBAL_BBLID == 0
Regions == {"roi", "decision"}   \* DoAtROI..., DoAtROIDecision...
Annotating == {"head", "tail"}
Marking == {"begin", "end"}
Observing == {"counting", "caching"}
Reading == Annotating \cup Marking \cup Observing
Writing == {"starting", "finishing"}
Running == {"running"} \cup Reading \cup {"finishing"}

Nothing == [kind |-> "nothing"]
Live == {t \in Threads : pc[t] \in Running}

-----------------------------------------------------------------------------
(* The lock. *)

MutCanWrite == writer = NoThread
CanWrite == readers = {} /\ writer = NoThread
CanRead == writer = NoThread

WriteLock(t, at) ==
  /\ CanWrite
  /\ writer' = t
  /\ pc' = [pc EXCEPT ![t] = at]
  /\ UNCHANGED <<seen, readers>>

WriteUnlock(t, at) ==
  /\ writer' = NoThread
  /\ pc' = [pc EXCEPT ![t] = at]
  /\ UNCHANGED <<seen, readers>>

ReadLock(t, at, read) ==
  /\ CanRead
  /\ readers' = readers \cup {t}
  /\ pc' = [pc EXCEPT ![t] = at]
  /\ seen' = [seen EXCEPT ![t] = read]
  /\ UNCHANGED writer

ReadUnlock(t) ==
  /\ readers' = readers \ {t}
  /\ pc' = [pc EXCEPT ![t] = "running"]
  /\ seen' = [seen EXCEPT ![t] = Nothing]
  /\ UNCHANGED writer

-----------------------------------------------------------------------------
(* Threads. *)

\* A thread is created by one that runs; 0 by the process.
ThreadStartLock(t) ==
  /\ ~failed /\ pc[t] = "none"
  /\ t = 0 \/ Live # {}
  /\ WriteLock(t, "starting")
  /\ UNCHANGED <<options, threadVars, bblVars, roiVars, costVars, failed, history, callbacks>>

\* The slot is pushed at the end of the vectors, whatever the thread's id.
ThreadStart(t) ==
  /\ pc[t] = "starting"
  /\ WriteUnlock(t, "running")
  /\ scope' = Append(scope, <<GLOBAL_BBLID>>)
  /\ in_roi' = Append(in_roi, ~options.roi)
  /\ in_roidecision' = Append(in_roidecision, ~options.decision)
  /\ thread_count' = thread_count + 1
  /\ overtaken' = (overtaken \/ \E u \in Threads : u < t /\ pc[u] = "none")
  /\ UNCHANGED <<options, bblVars, enter_roi_cnt, exit_roi_cnt, costVars, failed,
                 open, inside, overlapped, callbacks>>

ThreadFinishLock(t) ==
  /\ ~failed /\ pc[t] = "running"
  /\ WriteLock(t, "finishing")
  /\ UNCHANGED <<options, threadVars, bblVars, roiVars, costVars, failed, history, callbacks>>

ThreadFinish(t) ==
  /\ pc[t] = "finishing"
  /\ WriteUnlock(t, "finished")
  /\ thread_count' = thread_count - 1
  /\ UNCHANGED <<options, scope, bblVars, roiVars, costVars, failed, history, callbacks>>

-----------------------------------------------------------------------------
(* Callbacks of a thread that runs. *)

HasSlot(t) == t + 1 \in DOMAIN scope

\* A thread in initializeNewBBL, and one that indexes the vectors it extends.
Grows(t) == pc[t] = "head" /\ ~seen[t].known
IsCharged(t) ==
  /\ pc[t] \in Observing /\ seen[t].charges
  /\ seen[t].bbl # GLOBAL_BBLID \/ options.global

GrowthMeetsCharge == \E t, u \in Threads : Grows(t) /\ IsCharged(u)

\* Indexing a vector by a thread whose slot does not exist yet is undefined.
OutOfBounds(t) ==
  /\ ~failed /\ pc[t] = "running" /\ CanRead
  /\ ~HasSlot(t)
  /\ failed' = TRUE
  /\ UNCHANGED <<options, lockVars, threadVars, bblVars, roiVars, costVars, history,
                 callbacks>>

Enter(t, callback, read) ==
  /\ ~failed /\ pc[t] = "running" /\ HasSlot(t)
  /\ ReadLock(t, callback, read)
  /\ UNCHANGED <<options, threadVars, bblVars, roiVars, costVars, failed, open, inside,
                 overtaken>>
  /\ overlapped' = overlapped
       \cup {k \in {read.kind} : callback \notin Observing
                                 /\ \E u \in Threads \ {t} : seen[u].kind = k}
       \cup {k \in {"growth"} : GrowthMeetsCharge'}

AnnotationEnter(t, callback, b, isomp) ==
  Enter(t, callback, [kind |-> "annotation", bbl |-> b, isomp |-> isomp,
                      known |-> b \in DOMAIN bbl_hash, size |-> bbl_size,
                      omp |-> in_omp_parallel])

Count ==
  /\ callbacks < MaxCallbacks
  /\ callbacks' = callbacks + 1

HeadEnter(t) ==
  /\ Len(open[t]) < MaxDepth
  /\ Count
  /\ \E b \in Bbls, isomp \in BOOLEAN : AnnotationEnter(t, "head", b, isomp)

\* The program's calls nest: the block that ends is the one begun last.
TailEnter(t) ==
  /\ open[t] # << >>
  /\ AnnotationEnter(t, "tail", Last(open[t]).bbl, Last(open[t]).isomp)
  /\ UNCHANGED callbacks

\* initializeNewBBL, if the block was not found
MutIdOf(t) == IF seen[t].known THEN bbl_hash[seen[t].bbl] ELSE seen[t].size + 1
IdOf(t) == IF seen[t].known THEN bbl_hash[seen[t].bbl] ELSE seen[t].size

AddBbl(t) ==
  IF seen[t].known THEN UNCHANGED <<bbl_hash, bbl_size>>
  ELSE /\ bbl_hash' = [b \in (DOMAIN bbl_hash) \cup {seen[t].bbl} |->
                         IF b = seen[t].bbl THEN seen[t].size ELSE bbl_hash[b]]
       /\ bbl_size' = seen[t].size + 1

Parallel(t, omp, id) ==
  \/ omp > 0 \/ t = 1
  \/ options.decision /\ in_roidecision[t + 1]
  \/ IF id \in DOMAIN bbl_parallelizable THEN bbl_parallelizable[id] ELSE options.roi

MutOmpAfter(t, change) == in_omp_parallel
OmpAfter(t, change) == IF seen[t].isomp THEN seen[t].omp + change ELSE in_omp_parallel

DoAtAnnotationHead(t) ==
  LET id == IdOf(t)
      omp == OmpAfter(t, 1)
  IN /\ pc[t] = "head"
     /\ AddBbl(t)
     /\ in_omp_parallel' = omp
     /\ bbl_parallelizable' = [i \in (DOMAIN bbl_parallelizable) \cup {id} |->
                                 IF i = id THEN Parallel(t, omp, id) ELSE bbl_parallelizable[i]]
     /\ roi_decision' = IF options.decision /\ in_roidecision[t + 1]
                        THEN roi_decision \cup {id} ELSE roi_decision
     /\ scope' = [scope EXCEPT ![t + 1] = Append(@, id)]
     /\ open' = [open EXCEPT ![t] = Append(@, [bbl |-> seen[t].bbl, isomp |-> seen[t].isomp])]
     /\ ReadUnlock(t)
     /\ UNCHANGED <<options, thread_count, roiVars, costVars, failed, inside, overlapped,
                    overtaken, callbacks>>

\* The assertion that the block on top is the one that ends; pop.
DoAtAnnotationTail(t) ==
  /\ pc[t] = "tail"
  /\ in_omp_parallel' = OmpAfter(t, -1)
  /\ failed' = (failed \/ Last(scope[t + 1]) # bbl_hash[seen[t].bbl])
  /\ scope' = [scope EXCEPT ![t + 1] = Front(@)]
  /\ open' = [open EXCEPT ![t] = Front(@)]
  /\ ReadUnlock(t)
  /\ UNCHANGED <<options, thread_count, bbl_hash, bbl_size, bbl_parallelizable, roi_decision,
                 roiVars, costVars, inside, overlapped, overtaken, callbacks>>

\* initializeNewBBL extends _bbl_hash, which other annotations search, and the
\* vectors that a charged reference indexes: used while they move, they may also
\* end the program.
GrowthRace(t) ==
  /\ Grows(t)
  /\ \E u \in Threads \ {t} : pc[u] \in Annotating \/ IsCharged(u)
  /\ failed' = TRUE
  /\ UNCHANGED <<options, lockVars, threadVars, bblVars, roiVars, costVars, history,
                 callbacks>>

-----------------------------------------------------------------------------
(* The two kinds of region of interest. *)

Word(region) == IF region = "roi" THEN in_roi ELSE in_roidecision

RoiEnter(t) ==
  /\ Count
  /\ \E region \in Regions, callback \in Marking :
       Enter(t, callback, [kind |-> region, word |-> Word(region),
                           enter |-> enter_roi_cnt, exit |-> exit_roi_cnt])

MutWritten(t, isBegin) == [i \in DOMAIN seen[t].word |-> isBegin]
Written(t, isBegin) == [seen[t].word EXCEPT ![t + 1] = isBegin]

Mark(t, callback, region) ==
  /\ pc[t] = callback /\ seen[t].kind = region
  /\ inside' = [inside EXCEPT ![t] = IF callback = "begin" THEN @ \cup {region}
                                     ELSE @ \ {region}]
  /\ ReadUnlock(t)
  /\ UNCHANGED <<options, threadVars, bblVars, costVars, failed, open, overlapped,
                 overtaken, callbacks>>

\* DoAtROIHead, DoAtROITail
DoAtROI(t, callback) ==
  /\ Mark(t, callback, "roi")
  /\ in_roi' = IF options.roi THEN Written(t, callback = "begin") ELSE in_roi
  /\ UNCHANGED <<in_roidecision, enter_roi_cnt, exit_roi_cnt>>

\* DoAtROIDecisionHead, DoAtROIDecisionTail
DoAtROIDecision(t, callback) ==
  LET was == seen[t].word[t + 1]
  IN /\ Mark(t, callback, "decision")
     /\ in_roidecision' = IF options.decision THEN Written(t, callback = "begin")
                          ELSE in_roidecision
     /\ enter_roi_cnt' = IF options.decision /\ callback = "begin" /\ ~was
                         THEN seen[t].enter + 1 ELSE enter_roi_cnt
     /\ exit_roi_cnt' = IF options.decision /\ callback = "end" /\ was
                        THEN seen[t].exit + 1 ELSE exit_roi_cnt
     /\ UNCHANGED in_roi

-----------------------------------------------------------------------------
(* Instructions: InstructionCount, InstrCacheRef and DataCacheRef. *)

InRoi(t) == in_roi[t + 1] \/ options.decision

MutIsObserved(t) == (thread_count = 1 /\ t = 0) \/ (thread_count >= 2 /\ t >= 1)
IsObserved(t) == (thread_count = 1 /\ t = 0) \/ (thread_count >= 2 /\ t = 1)

CostIn(costs, id) == IF id \in DOMAIN costs THEN costs[id] ELSE 0

ReferenceEnter(t) ==
  LET id == Last(scope[t + 1])
  IN /\ Count
     /\ \E callback \in Observing :
          Enter(t, callback, [kind |-> "reference", bbl |-> id,
                              charges |-> InRoi(t) /\ IsObserved(t), count |-> thread_count,
                              cost |-> CostIn(instruction_cost, id), size |-> bbl_size,
                              growing |-> \E u \in Threads : Grows(u)])

\* A block was new to another thread since this one entered: the vectors may have
\* been copied between its reading of a cost and its writing.
GrewBeside(t) ==
  seen[t].growing \/ seen[t].size # bbl_size \/ \E u \in Threads : Grows(u)

\* One thread is charged for all: the latency times _thread_count.
Charge(t) ==
  LET id == seen[t].bbl
  IN /\ charged' = (id :> CostIn(charged, id) + thread_count) @@ charged
     /\ \/ instruction_cost' = (id :> seen[t].cost + thread_count) @@ instruction_cost
        \/ GrewBeside(t) /\ UNCHANGED instruction_cost

InstructionCount(t) ==
  /\ pc[t] = "counting"
  /\ IF IsCharged(t) THEN Charge(t) ELSE UNCHANGED costVars
  /\ ReadUnlock(t)
  /\ UNCHANGED <<options, threadVars, bblVars, roiVars, failed, history, callbacks>>

\* What a charged reference does to the caches is the module Storage.
CacheRef(t) ==
  /\ pc[t] = "caching"
  /\ ReadUnlock(t)
  /\ UNCHANGED <<options, threadVars, bblVars, roiVars, costVars, failed, history,
                 callbacks>>

-----------------------------------------------------------------------------
Init ==
  /\ options \in [roi : BOOLEAN, decision : BOOLEAN, global : BOOLEAN]
  /\ pc = [t \in Threads |-> "none"]
  /\ seen = [t \in Threads |-> Nothing]
  /\ readers = {} /\ writer = NoThread
  /\ thread_count = 0
  /\ scope = << >> /\ in_roi = << >> /\ in_roidecision = << >>
  /\ bbl_hash = << >>
  /\ bbl_size = 1
  /\ bbl_parallelizable = (GLOBAL_BBLID :> options.roi)
  /\ in_omp_parallel = 0
  /\ roi_decision = {}
  /\ enter_roi_cnt = 0 /\ exit_roi_cnt = 0
  /\ instruction_cost = << >> /\ charged = << >>
  /\ failed = FALSE
  /\ open = [t \in Threads |-> << >>]
  /\ inside = [t \in Threads |-> {}]
  /\ overlapped = {} /\ overtaken = FALSE
  /\ callbacks = 0

ThreadStep(t) ==
  \/ ThreadStartLock(t) \/ ThreadStart(t)
  \/ ThreadFinishLock(t) \/ ThreadFinish(t)

\* HandleMagic, by the operation of the control word
HandleMagic(t) ==
  \/ HeadEnter(t) \/ DoAtAnnotationHead(t) \/ GrowthRace(t)
  \/ TailEnter(t) \/ DoAtAnnotationTail(t)
  \/ RoiEnter(t)
  \/ \E callback \in Marking : DoAtROI(t, callback) \/ DoAtROIDecision(t, callback)

InstructionStep(t) == ReferenceEnter(t) \/ InstructionCount(t) \/ CacheRef(t)

Next == \E t \in Threads :
          ThreadStep(t) \/ OutOfBounds(t) \/ HandleMagic(t) \/ InstructionStep(t)

Spec == Init /\ [][Next]_vars

-----------------------------------------------------------------------------
(* Properties *)

Charging == {t \in Threads : seen[t].kind = "reference" /\ seen[t].charges}

\* One thread at a time is charged, although any number of them may hold the lock
\* for reading: _thread_count decides which one, and cannot change meanwhile
\* (Simulation.cpp:45-46, 146-147).  The caches are this thread's alone; the vectors
\* of costs are not, initializeNewBBL extends them in any thread.
OneThreadIsCharged == \A t, u \in Charging : t = u

\* The thread that is charged for all runs itself, and is charged for as many
\* threads as run (Simulation.cpp:75-76).
ChargeCountsLiveThreads ==
  \A t \in Charging : t \in Live /\ thread_count = Cardinality(Live) /\ seen[t].count = thread_count

\* Slots are pushed in the order in which threads take the lock and indexed by
\* their ids; initializeNewBBL extends the map and the vectors of blocks under a
\* lock for reading (PinInstrument.cpp:86-93, 376-389, CostPackage.cpp:24-56), and a
\* charged reference indexes those vectors (Simulation.cpp:62, 86, Storage.cpp:192,
\* 201).  The tool is lost only if a thread overtook another one's start, two
\* annotations met, or a new block met a charge.
FailsOnlyAfterRace == failed => overtaken \/ "annotation" \in overlapped \/ "growth" \in overlapped

\* No charge is lost and none is made twice, although the costs are read and written
\* back under a lock for reading, unless the vectors grew beside a charge
\* (Simulation.cpp:44-86, CostPackage.cpp:33-38).
ChargesAreKept == "growth" \notin overlapped => instruction_cost = charged

\* The parallel regions that are open: a thread and a position in its calls.
OpenRegions == UNION {{t} \X {i \in DOMAIN open[t] : open[t][i].isomp} : t \in Threads}

\* Without such a meeting the shared words say what the threads' own calls say:
\* the depth of parallel regions, the ids of blocks and the stacks made of them
\* (PinInstrument.cpp:88-115, 142-157).
AnnotationsFollowCalls ==
  "annotation" \notin overlapped =>
    /\ in_omp_parallel = Cardinality(OpenRegions)
    /\ \A b, c \in DOMAIN bbl_hash : bbl_hash[b] = bbl_hash[c] => b = c
    /\ \A t \in Threads : HasSlot(t) /\ pc[t] \in Running =>
         scope[t + 1] = <<GLOBAL_BBLID>> \o [i \in DOMAIN open[t] |-> bbl_hash[open[t][i].bbl]]

\* A thread's flag follows its own calls unless two such calls met: the flags of
\* all threads are bits of one word (PinInstrument.cpp:165-206).
RoiFollowsCalls ==
  /\ options.roi /\ "roi" \notin overlapped =>
       \A t \in Threads : HasSlot(t) => in_roi[t + 1] = ("roi" \in inside[t])
  /\ options.decision /\ "decision" \notin overlapped =>
       /\ \A t \in Threads : HasSlot(t) => in_roidecision[t + 1] = ("decision" \in inside[t])
       /\ enter_roi_cnt - exit_roi_cnt = Cardinality({t \in Threads : "decision" \in inside[t]})
=============================================================================
