------------------------- MODULE PinFrontEnd_proofs -------------------------
(***************************************************************************)
(* Proofs about PinFrontEnd, for any number of threads and blocks.  First  *)
(* which thread is charged, and for how many: the lock for reading does    *)
(* not keep callbacks apart, but it keeps _thread_count from changing      *)
(* while a callback is on its way, and that count names the one thread     *)
(* whose callbacks use caches and costs.  Then what becomes of its charges *)
(* when a new block makes the vectors of costs grow, of the regions of     *)
(* interest and of the annotations.                                        *)
(***************************************************************************)
EXTENDS PinFrontEnd, FiniteSetTheorems, TLAPS

Places == {"none", "running", "finished"} \cup Reading \cup Writing

-----------------------------------------------------------------------------
(* The invariant. *)

LockTypeOK ==
  /\ pc \in [Threads -> Places]
  /\ DOMAIN seen = Threads

\* A thread holds the lock for reading exactly when it is in a callback, and for
\* writing when it starts or finishes; only a callback has read anything.
LockFollowsPlaces ==
  /\ readers = {t \in Threads : pc[t] \in Reading}
  /\ \A t \in Threads : pc[t] \in Writing => writer = t
  /\ writer # NoThread => readers = {}
  /\ \A t \in Threads : pc[t] \notin Reading => seen[t].kind = "nothing"

CountIsLive == thread_count = Cardinality(Live)

ChargesAreCurrent == \A t \in Charging : IsObserved(t) /\ seen[t].count = thread_count

ChargeInv == LockTypeOK /\ LockFollowsPlaces /\ CountIsLive /\ ChargesAreCurrent

\* A thread is in one place at a time, and those that run are the ones the lock
\* for reading is open to, those in a callback and those about to finish.
LEMMA PlacesAreApart ==
  /\ Reading \cap Writing = {}
  /\ \A at \in Reading : at \in Running /\ at \notin {"none", "running", "finished"}
  /\ \A at \in Writing : at \notin {"none", "running", "finished"}
  /\ "running" \in Running /\ "finishing" \in Running
  /\ "none" \notin Running /\ "starting" \notin Running /\ "finished" \notin Running
BY DEF Reading, Writing, Running, Annotating, Marking, Observing

\* Threads are finitely many, and so are those that run.
LEMMA LiveFinite == IsFiniteSet(Live) /\ Cardinality(Live) \in Nat
<1>1. IsFiniteSet(Live)
  BY ThreadAssumption, FS_Subset DEF Live
<1> QED
  BY <1>1, FS_CardinalityType

\* The lock is free and no thread runs at first.
LEMMA ChargeInit == Init => ChargeInv
<1> SUFFICES ASSUME Init PROVE ChargeInv
  OBVIOUS
<1>1. Live = {}
  BY PlacesAreApart DEF Init, Live
<1>2. LockTypeOK
  BY DEF Init, LockTypeOK, Places
<1>3. LockFollowsPlaces
  BY PlacesAreApart DEF Init, LockFollowsPlaces, Nothing
<1>4. CountIsLive
  BY <1>1, FS_EmptySet DEF Init, CountIsLive
<1>5. ChargesAreCurrent
  BY DEF Init, ChargesAreCurrent, Charging, Nothing
<1> QED
  BY <1>2, <1>3, <1>4, <1>5 DEF ChargeInv

-----------------------------------------------------------------------------
(* What each operation of the lock keeps. *)

\* Taking the lock for writing waits for the callbacks on their way.
LEMMA WriteLockKeeps ==
  ASSUME ChargeInv, NEW t \in Threads, NEW at \in Writing, WriteLock(t, at),
         pc[t] \in {"none", "running"}, pc[t] \in Running <=> at \in Running,
         UNCHANGED thread_count
  PROVE  ChargeInv'
<1> USE PlacesAreApart DEF ChargeInv
<1>1. LockTypeOK'
  BY DEF LockTypeOK, WriteLock, Places
<1>2. LockFollowsPlaces'
  BY ThreadAssumption DEF LockTypeOK, LockFollowsPlaces, WriteLock, CanWrite
<1>3. Live' = Live
  BY DEF LockTypeOK, WriteLock, Live
<1>4. CountIsLive'
  BY <1>3 DEF CountIsLive
<1>5. ChargesAreCurrent'
  BY DEF ChargesAreCurrent, Charging, WriteLock, IsObserved
<1> QED
  BY <1>1, <1>2, <1>4, <1>5

\* A callback that enters reads the count that holds until it leaves.
LEMMA ReadLockKeeps ==
  ASSUME ChargeInv, NEW t \in Threads, NEW at \in Reading, NEW read, ReadLock(t, at, read),
         pc[t] = "running", UNCHANGED thread_count,
         read.kind = "reference" /\ read.charges => IsObserved(t) /\ read.count = thread_count
  PROVE  ChargeInv'
<1> USE PlacesAreApart DEF ChargeInv
<1>1. LockTypeOK'
  BY DEF LockTypeOK, ReadLock, Places
<1>2. LockFollowsPlaces'
  BY DEF LockTypeOK, LockFollowsPlaces, ReadLock, CanRead
<1>3. Live' = Live
  BY DEF LockTypeOK, ReadLock, Live
<1>4. CountIsLive'
  BY <1>3 DEF CountIsLive
<1>5. ChargesAreCurrent'
  BY DEF LockTypeOK, ChargesAreCurrent, Charging, ReadLock, IsObserved
<1> QED
  BY <1>1, <1>2, <1>4, <1>5

\* A callback that leaves forgets what it read.
LEMMA ReadUnlockKeeps ==
  ASSUME ChargeInv, NEW t \in Threads, ReadUnlock(t), pc[t] \in Reading, UNCHANGED thread_count
  PROVE  ChargeInv'
<1> USE PlacesAreApart DEF ChargeInv
<1>1. LockTypeOK'
  BY DEF LockTypeOK, ReadUnlock, Places
<1>2. LockFollowsPlaces'
  BY DEF LockTypeOK, LockFollowsPlaces, ReadUnlock, Nothing
<1>3. Live' = Live
  BY DEF LockTypeOK, ReadUnlock, Live
<1>4. CountIsLive'
  BY <1>3 DEF CountIsLive
<1>5. ChargesAreCurrent'
  BY DEF LockTypeOK, ChargesAreCurrent, Charging, ReadUnlock, IsObserved, Nothing
<1> QED
  BY <1>1, <1>2, <1>4, <1>5

\* A thread that holds the lock for writing may change the count: no callback is
\* on its way, so none charges.
LEMMA WriteUnlockKeeps ==
  ASSUME ChargeInv, NEW t \in Threads, NEW at \in {"running", "finished"}, WriteUnlock(t, at),
         pc[t] \in Writing, thread_count' = Cardinality(Live')
  PROVE  ChargeInv'
<1> USE PlacesAreApart DEF ChargeInv
<1>1. writer = t /\ readers = {}
  BY ThreadAssumption DEF LockFollowsPlaces
<1>2. LockTypeOK'
  BY DEF LockTypeOK, WriteUnlock, Places
<1>3. LockFollowsPlaces'
  BY <1>1, ThreadAssumption DEF LockTypeOK, LockFollowsPlaces, WriteUnlock
<1>4. CountIsLive'
  BY DEF CountIsLive
<1>5. \A u \in Threads : seen[u].kind = "nothing"
  BY <1>1 DEF LockFollowsPlaces
<1>6. ChargesAreCurrent'
  BY <1>5 DEF ChargesAreCurrent, Charging, WriteUnlock
<1> QED
  BY <1>2, <1>3, <1>4, <1>6

\* What neither locks nor counts keeps everything.
LEMMA OtherStepsKeep ==
  ASSUME ChargeInv, UNCHANGED <<lockVars, thread_count>>
  PROVE  ChargeInv'
BY DEF ChargeInv, LockTypeOK, LockFollowsPlaces, CountIsLive, ChargesAreCurrent, Charging,
       IsObserved, Live, lockVars

-----------------------------------------------------------------------------
(* The actions. *)

\* A thread that starts joins those that run, and is counted
\* (PinInstrument.cpp:437-473).
LEMMA StartKeeps ==
  ASSUME ChargeInv, NEW t \in Threads, ThreadStart(t)
  PROVE  ChargeInv'
<1> USE PlacesAreApart
<1>1. WriteUnlock(t, "running") /\ pc[t] = "starting" /\ thread_count' = thread_count + 1
  BY DEF ThreadStart
<1>2. Live' = Live \cup {t} /\ t \notin Live
  BY <1>1 DEF ChargeInv, LockTypeOK, WriteUnlock, Live
<1>3. Cardinality(Live') = Cardinality(Live) + 1
  BY <1>2, LiveFinite, FS_AddElement
<1>4. pc[t] \in Writing
  BY <1>1 DEF Writing
<1> QED
  BY <1>1, <1>3, <1>4, WriteUnlockKeeps DEF ChargeInv, CountIsLive

\* A thread that finishes leaves those that run, and the count
\* (PinInstrument.cpp:475-489).
LEMMA FinishKeeps ==
  ASSUME ChargeInv, NEW t \in Threads, ThreadFinish(t)
  PROVE  ChargeInv'
<1> USE PlacesAreApart
<1>1. WriteUnlock(t, "finished") /\ pc[t] = "finishing" /\ thread_count' = thread_count - 1
  BY DEF ThreadFinish
<1>2. Live' = Live \ {t} /\ t \in Live
  BY <1>1 DEF ChargeInv, LockTypeOK, WriteUnlock, Live
<1>3. Cardinality(Live') = Cardinality(Live) - 1
  BY <1>2, LiveFinite, FS_RemoveElement
<1>4. pc[t] \in Writing
  BY <1>1 DEF Writing
<1> QED
  BY <1>1, <1>3, <1>4, WriteUnlockKeeps DEF ChargeInv, CountIsLive

\* A callback that enters keeps the invariant, if what it read of the count is
\* what the test of Simulation.cpp:45-46 saw.
LEMMA EnterKeeps ==
  ASSUME ChargeInv, NEW t \in Threads, NEW at \in Reading, NEW read, Enter(t, at, read),
         read.kind = "reference" /\ read.charges => IsObserved(t) /\ read.count = thread_count
  PROVE  ChargeInv'
<1>1. ReadLock(t, at, read) /\ pc[t] = "running" /\ UNCHANGED thread_count
  BY DEF Enter, threadVars
<1> QED
  BY <1>1, ReadLockKeeps

\* The callbacks of annotations and of the two kinds of region read nothing of
\* the count (PinInstrument.cpp:83-187).
LEMMA MagicEnterKeeps ==
  ASSUME ChargeInv, NEW t \in Threads, HeadEnter(t) \/ TailEnter(t) \/ RoiEnter(t)
  PROVE  ChargeInv'
<1>1. ASSUME NEW callback \in Annotating, NEW b, NEW isomp, AnnotationEnter(t, callback, b, isomp)
      PROVE  ChargeInv'
  BY <1>1, EnterKeeps DEF AnnotationEnter, Reading
<1>2. CASE HeadEnter(t)
  BY <1>1, <1>2 DEF HeadEnter, Annotating
<1>3. CASE TailEnter(t)
  BY <1>1, <1>3 DEF TailEnter, Annotating
<1>4. CASE RoiEnter(t)
  <2>1. PICK region \in Regions, callback \in Marking :
          Enter(t, callback, [kind |-> region, word |-> Word(region),
                              enter |-> enter_roi_cnt, exit |-> exit_roi_cnt])
    BY <1>4 DEF RoiEnter
  <2> QED
    BY <2>1, EnterKeeps DEF Reading, Regions
<1> QED
  BY <1>2, <1>3, <1>4

\* The callbacks of instructions charge only in the thread that the count names
\* (Simulation.cpp:38-46, 158-167, 176-185).
LEMMA ReferenceEnterKeeps ==
  ASSUME ChargeInv, NEW t \in Threads, ReferenceEnter(t)
  PROVE  ChargeInv'
<1>1. PICK callback \in Observing : \E read :
        /\ Enter(t, callback, read) /\ read.kind = "reference"
        /\ read.charges = (InRoi(t) /\ IsObserved(t)) /\ read.count = thread_count
  BY DEF ReferenceEnter
<1>2. PICK read :
        /\ Enter(t, callback, read) /\ read.kind = "reference"
        /\ read.charges = (InRoi(t) /\ IsObserved(t)) /\ read.count = thread_count
  BY <1>1
<1> QED
  BY <1>2, EnterKeeps DEF Reading

\* Every callback that leaves unlocks, whatever else it changes.
LEMMA LeaveKeeps ==
  ASSUME ChargeInv, NEW t \in Threads,
         \/ DoAtAnnotationHead(t) \/ DoAtAnnotationTail(t)
         \/ \E callback \in Marking : DoAtROI(t, callback) \/ DoAtROIDecision(t, callback)
         \/ InstructionCount(t) \/ CacheRef(t)
  PROVE  ChargeInv'
<1>1. ReadUnlock(t) /\ pc[t] \in Reading /\ UNCHANGED thread_count
  BY DEF DoAtAnnotationHead, DoAtAnnotationTail, DoAtROI, DoAtROIDecision, Mark,
         InstructionCount, CacheRef, threadVars, Reading, Annotating, Marking, Observing
<1> QED
  BY <1>1, ReadUnlockKeeps

\* A thread that waits to start or to finish takes the lock.
LEMMA LockKeeps ==
  ASSUME ChargeInv, NEW t \in Threads, ThreadStartLock(t) \/ ThreadFinishLock(t)
  PROVE  ChargeInv'
<1>1. CASE ThreadStartLock(t)
  BY <1>1, WriteLockKeeps, PlacesAreApart DEF ThreadStartLock, threadVars, Writing
<1>2. CASE ThreadFinishLock(t)
  BY <1>2, WriteLockKeeps, PlacesAreApart DEF ThreadFinishLock, threadVars, Writing
<1> QED
  BY <1>1, <1>2

\* Every callback keeps the lock and the thread that is charged.
LEMMA ChargeStep == ChargeInv /\ [Next]_vars => ChargeInv'
<1> SUFFICES ASSUME ChargeInv, [Next]_vars PROVE ChargeInv'
  OBVIOUS
<1>1. ASSUME NEW t \in Threads, ThreadStep(t) PROVE ChargeInv'
  BY <1>1, LockKeeps, StartKeeps, FinishKeeps DEF ThreadStep
<1>2. ASSUME NEW t \in Threads, OutOfBounds(t) \/ GrowthRace(t) PROVE ChargeInv'
  BY <1>2, OtherStepsKeep DEF OutOfBounds, GrowthRace, threadVars
<1>3. ASSUME NEW t \in Threads, HandleMagic(t) PROVE ChargeInv'
  BY <1>3, <1>2, MagicEnterKeeps, LeaveKeeps DEF HandleMagic
<1>4. ASSUME NEW t \in Threads, InstructionStep(t) PROVE ChargeInv'
  BY <1>4, ReferenceEnterKeeps, LeaveKeeps DEF InstructionStep
<1>5. CASE UNCHANGED vars
  BY <1>5, OtherStepsKeep DEF vars, threadVars
<1> QED
  BY <1>1, <1>2, <1>3, <1>4, <1>5 DEF Next

-----------------------------------------------------------------------------
(* What follows. *)

\* The inductive invariant of the lock and the count of threads.
THEOREM ChargeInvariant == Spec => []ChargeInv
BY ChargeInit, ChargeStep, PTL DEF Spec

\* The count of threads names one thread.
LEMMA OneIsCharged == ChargeInv => OneThreadIsCharged
<1> SUFFICES ASSUME ChargeInv, NEW t \in Charging, NEW u \in Charging PROVE t = u
  BY DEF OneThreadIsCharged
<1>1. IsObserved(t) /\ IsObserved(u)
  BY DEF ChargeInv, ChargesAreCurrent
<1>2. thread_count \in Nat
  BY LiveFinite DEF ChargeInv, CountIsLive
<1> QED
  BY <1>1, <1>2 DEF IsObserved

\* One thread at a time is charged, whoever holds the lock for reading
\* (Simulation.cpp:45-46, 146-147).
THEOREM OneThreadTheorem == Spec => []OneThreadIsCharged
BY OneIsCharged, ChargeInvariant, PTL

\* The thread charged runs, and is charged for as many threads as run
\* (Simulation.cpp:75-79).
THEOREM LiveThreadsTheorem == Spec => []ChargeCountsLiveThreads
<1>1. ChargeInv => ChargeCountsLiveThreads
  <2> SUFFICES ASSUME ChargeInv, NEW t \in Charging
               PROVE  t \in Live /\ thread_count = Cardinality(Live) /\ seen[t].count = thread_count
    BY DEF ChargeCountsLiveThreads
  <2>1. t \in Threads /\ seen[t].kind # "nothing"
    BY DEF Charging
  <2>2. pc[t] \in Reading
    BY <2>1 DEF ChargeInv, LockFollowsPlaces
  <2> QED
    BY <2>1, <2>2, PlacesAreApart DEF ChargeInv, CountIsLive, ChargesAreCurrent, Live
<1> QED
  BY <1>1, ChargeInvariant, PTL

-----------------------------------------------------------------------------
(***************************************************************************)
(* The charges: what the one charged thread has read of a cost stays       *)
(* current until it writes it back, for no other thread is charged, unless *)
(* the vectors of costs grow meanwhile, which is remembered.               *)
(***************************************************************************)

Grown == "growth" \in overlapped

GrowthIsRemembered == GrowthMeetsCharge => Grown

CostIsCurrent(t) ==
  /\ seen[t].cost = CostIn(instruction_cost, seen[t].bbl)
  /\ seen[t].size = bbl_size /\ ~seen[t].growing

CostInv ==
  /\ \A t \in Threads : pc[t] \in Observing => seen[t].kind = "reference"
  /\ GrowthIsRemembered
  /\ ~Grown => \A t \in Threads : IsCharged(t) => CostIsCurrent(t)
  /\ ChargesAreKept

\* Nothing is charged at first.
LEMMA CostInit == Init => CostInv
<1> SUFFICES ASSUME Init PROVE CostInv
  OBVIOUS
<1>1. \A t \in Threads : pc[t] = "none"
  BY DEF Init
<1>2. \A t \in Threads : pc[t] \notin Observing /\ ~IsCharged(t)
  BY <1>1 DEF Observing, IsCharged
<1> QED
  BY <1>2 DEF Init, CostInv, GrowthIsRemembered, GrowthMeetsCharge, ChargesAreKept

\* A step that leaves the costs alone, and the callbacks under way that matter to
\* them, keeps the charges.
LEMMA QuietKeepsCosts ==
  ASSUME CostInv,
         UNCHANGED <<options, overlapped, instruction_cost, charged, bbl_size>>,
         \A t \in Threads : pc'[t] \in Observing \cup {"head"} =>
                              pc'[t] = pc[t] /\ seen'[t] = seen[t]
  PROVE  CostInv'
<1>1. ASSUME NEW t \in Threads
      PROVE  /\ pc'[t] \in Observing => pc[t] \in Observing /\ seen'[t] = seen[t]
             /\ Grows(t)' => Grows(t)
             /\ IsCharged(t)' => IsCharged(t) /\ seen'[t] = seen[t]
  BY DEF Grows, IsCharged
<1>2. \A t \in Threads : pc'[t] \in Observing => seen'[t].kind = "reference"
  BY <1>1 DEF CostInv
<1>3. (Grown' <=> Grown) /\ ChargesAreKept'
  BY DEF CostInv, Grown, ChargesAreKept
<1>4. GrowthIsRemembered'
  BY <1>1, <1>3 DEF CostInv, GrowthIsRemembered, GrowthMeetsCharge
<1>5. ASSUME ~Grown', NEW t \in Threads, IsCharged(t)' PROVE CostIsCurrent(t)'
  BY <1>1, <1>3, <1>5 DEF CostInv, CostIsCurrent, CostIn
<1> QED
  BY <1>2, <1>3, <1>4, <1>5 DEF CostInv

\* A callback that enters reads a cost that is current, unless a new block is on its
\* way into the vectors.
LEMMA EnterKeepsCosts ==
  ASSUME CostInv, ChargeInv, NEW t \in Threads, NEW at, NEW read, Enter(t, at, read),
         at \in Observing =>
           /\ read.kind = "reference" /\ read.size = bbl_size
           /\ read.cost = CostIn(instruction_cost, read.bbl)
           /\ read.growing = \E u \in Threads : Grows(u)
  PROVE  CostInv'
<1>1. /\ pc[t] = "running" /\ pc' = [pc EXCEPT ![t] = at] /\ seen' = [seen EXCEPT ![t] = read]
      /\ DOMAIN pc = Threads /\ DOMAIN seen = Threads
      /\ UNCHANGED <<options, instruction_cost, charged, bbl_size>>
      /\ overlapped \subseteq overlapped' /\ (GrowthMeetsCharge' => "growth" \in overlapped')
  BY DEF Enter, ReadLock, bblVars, costVars, ChargeInv, LockTypeOK
<1>2. GrowthIsRemembered' /\ (Grown => Grown')
  BY <1>1 DEF GrowthIsRemembered, Grown
<1>3. ChargesAreKept'
  BY <1>1 DEF CostInv, ChargesAreKept
<1>4. \A u \in Threads \ {t} : pc'[u] = pc[u] /\ seen'[u] = seen[u]
  BY <1>1
<1>5. pc'[t] = at /\ seen'[t] = read
  BY <1>1
<1>6. \A u \in Threads : pc'[u] \in Observing => seen'[u].kind = "reference"
  BY <1>4, <1>5 DEF CostInv
<1>7. ASSUME ~Grown', NEW u \in Threads, IsCharged(u)' PROVE CostIsCurrent(u)'
  <2>1. CASE u = t
    <3>1. at \in Observing
      BY <1>5, <1>7, <2>1 DEF IsCharged
    <3>2. ASSUME NEW v \in Threads, Grows(v) PROVE FALSE
      <4>1. v # t
        BY <1>1, <3>2 DEF Grows
      <4>2. Grows(v)'
        BY <1>4, <3>2, <4>1 DEF Grows
      <4>3. GrowthMeetsCharge'
        BY <1>7, <4>2 DEF GrowthMeetsCharge
      <4> QED
        BY <1>1, <1>7, <4>3 DEF Grown
    <3> QED
      BY <1>1, <1>5, <2>1, <3>1, <3>2 DEF CostIsCurrent, CostIn
  <2>2. CASE u # t
    <3>1. seen'[u] = seen[u] /\ IsCharged(u) /\ ~Grown
      BY <1>1, <1>2, <1>4, <1>7, <2>2 DEF IsCharged
    <3> QED
      BY <1>1, <3>1 DEF CostInv, CostIsCurrent, CostIn
  <2> QED
    BY <2>1, <2>2
<1> QED
  BY <1>2, <1>3, <1>6, <1>7 DEF CostInv

\* Every callback that enters reads like that.
LEMMA EnteringKeepsCosts ==
  ASSUME CostInv, ChargeInv, NEW t \in Threads,
         HeadEnter(t) \/ TailEnter(t) \/ RoiEnter(t) \/ ReferenceEnter(t)
  PROVE  CostInv'
<1>1. ASSUME NEW callback, callback \notin Observing, NEW read, Enter(t, callback, read)
      PROVE  CostInv'
  BY <1>1, EnterKeepsCosts
<1>2. CASE HeadEnter(t) \/ TailEnter(t)
  <2>1. PICK callback \in Annotating : \E read : Enter(t, callback, read)
    BY <1>2 DEF HeadEnter, TailEnter, AnnotationEnter, Annotating
  <2> QED
    BY <1>1, <2>1 DEF Annotating, Observing
<1>3. CASE RoiEnter(t)
  <2>1. PICK callback \in Marking : \E read : Enter(t, callback, read)
    BY <1>3 DEF RoiEnter
  <2> QED
    BY <1>1, <2>1 DEF Marking, Observing
<1>4. CASE ReferenceEnter(t)
  <2>1. PICK id, grows : id = Last(scope[t + 1]) /\ grows = \E u \in Threads : Grows(u)
    OBVIOUS
  <2>2. PICK read :
          read = [kind |-> "reference", bbl |-> id,
                  charges |-> InRoi(t) /\ IsObserved(t), count |-> thread_count,
                  cost |-> CostIn(instruction_cost, id), size |-> bbl_size, growing |-> grows]
    OBVIOUS
  <2>3. PICK callback \in Observing : Enter(t, callback, read)
    BY <1>4, <2>1, <2>2 DEF ReferenceEnter
  <2>4. /\ read.kind = "reference" /\ read.size = bbl_size /\ read.growing = grows
        /\ read.cost = CostIn(instruction_cost, read.bbl)
    BY <2>2
  <2> QED
    BY <2>1, <2>3, <2>4, EnterKeepsCosts
<1> QED
  BY <1>2, <1>3, <1>4

\* A block that is new makes the vectors grow, but not beside a charge that is not
\* remembered.
LEMMA HeadKeepsCosts ==
  ASSUME CostInv, ChargeInv, NEW t \in Threads, DoAtAnnotationHead(t)
  PROVE  CostInv'
<1>1. /\ pc[t] = "head" /\ AddBbl(t)
      /\ pc' = [pc EXCEPT ![t] = "running"] /\ seen' = [seen EXCEPT ![t] = Nothing]
      /\ DOMAIN pc = Threads /\ DOMAIN seen = Threads
      /\ UNCHANGED <<options, overlapped, instruction_cost, charged>>
  BY DEF DoAtAnnotationHead, ReadUnlock, costVars, ChargeInv, LockTypeOK
<1>2. \A u \in Threads : pc'[u] \in Observing \cup {"head"} =>
                           pc'[u] = pc[u] /\ seen'[u] = seen[u]
  BY <1>1 DEF Observing
<1>3. CASE ~Grows(t)
  <2>1. bbl_size' = bbl_size
    BY <1>1, <1>3 DEF Grows, AddBbl
  <2> QED
    BY <1>1, <1>2, <2>1, QuietKeepsCosts
<1>4. CASE Grows(t)
  <2>1. ASSUME NEW u \in Threads
        PROVE  /\ pc'[u] \in Observing => pc[u] \in Observing /\ seen'[u] = seen[u]
               /\ Grows(u)' => Grows(u)
               /\ IsCharged(u)' => IsCharged(u)
    BY <1>1, <1>2 DEF Grows, IsCharged
  <2>2. (Grown' <=> Grown) /\ ChargesAreKept'
    BY <1>1 DEF CostInv, Grown, ChargesAreKept
  <2>3. GrowthIsRemembered'
    BY <2>1, <2>2 DEF CostInv, GrowthIsRemembered, GrowthMeetsCharge
  <2>4. ASSUME NEW u \in Threads, IsCharged(u)' PROVE Grown'
    BY <1>4, <2>1, <2>2, <2>4 DEF CostInv, GrowthIsRemembered, GrowthMeetsCharge
  <2>5. \A u \in Threads : pc'[u] \in Observing => seen'[u].kind = "reference"
    BY <2>1 DEF CostInv
  <2> QED
    BY <2>2, <2>3, <2>4, <2>5 DEF CostInv
<1> QED
  BY <1>3, <1>4

\* The charged thread writes back what nobody else has changed.
LEMMA CountKeepsCosts ==
  ASSUME CostInv, ChargeInv, NEW t \in Threads, InstructionCount(t)
  PROVE  CostInv'
<1>1. /\ pc[t] = "counting"
      /\ pc' = [pc EXCEPT ![t] = "running"] /\ seen' = [seen EXCEPT ![t] = Nothing]
      /\ DOMAIN pc = Threads /\ DOMAIN seen = Threads
      /\ UNCHANGED <<options, overlapped, bbl_size>>
  BY DEF InstructionCount, ReadUnlock, bblVars, history, ChargeInv, LockTypeOK
<1>2. \A u \in Threads : pc'[u] \in Observing \cup {"head"} =>
                           pc'[u] = pc[u] /\ seen'[u] = seen[u] /\ u # t
  BY <1>1 DEF Observing
<1>3. CASE ~IsCharged(t)
  <2>1. UNCHANGED <<instruction_cost, charged>>
    BY <1>3 DEF InstructionCount, costVars
  <2> QED
    BY <1>1, <1>2, <2>1, QuietKeepsCosts
<1>4. CASE IsCharged(t)
  <2>1. ASSUME NEW u \in Threads
        PROVE  /\ pc'[u] \in Observing => pc[u] \in Observing /\ seen'[u] = seen[u]
               /\ Grows(u)' => Grows(u)
               /\ IsCharged(u)' => IsCharged(u) /\ u # t
    BY <1>1, <1>2 DEF Grows, IsCharged
  <2>2. Grown' <=> Grown
    BY <1>1 DEF Grown
  <2>3. GrowthIsRemembered'
    BY <2>1, <2>2 DEF CostInv, GrowthIsRemembered, GrowthMeetsCharge
  <2>4. ASSUME NEW u \in Threads, IsCharged(u)' PROVE FALSE
    <3>1. IsCharged(u) /\ u # t
      BY <2>1, <2>4
    <3>2. u \in Charging /\ t \in Charging
      BY <1>4, <3>1 DEF CostInv, IsCharged, Charging
    <3> QED
      BY <3>1, <3>2, OneIsCharged DEF OneThreadIsCharged
  <2>5. ASSUME ~Grown PROVE instruction_cost' = charged'
    <3>1. instruction_cost = charged /\ CostIsCurrent(t)
      BY <1>4, <2>5 DEF CostInv, ChargesAreKept, Grown
    <3>2. ~GrewBeside(t)
      <4>1. \A u \in Threads : ~Grows(u)
        BY <1>4, <2>5 DEF CostInv, GrowthIsRemembered, GrowthMeetsCharge
      <4> QED
        BY <3>1, <4>1 DEF GrewBeside, CostIsCurrent
    <3>3. Charge(t)
      BY <1>4 DEF InstructionCount
    <3>4. /\ charged' = (seen[t].bbl :> CostIn(charged, seen[t].bbl) + thread_count) @@ charged
          /\ instruction_cost' = (seen[t].bbl :> seen[t].cost + thread_count) @@ instruction_cost
      BY <3>2, <3>3 DEF Charge
    <3> QED
      BY <3>1, <3>4 DEF CostIsCurrent
  <2>6. ChargesAreKept'
    BY <2>2, <2>5 DEF ChargesAreKept, Grown
  <2>7. \A u \in Threads : pc'[u] \in Observing => seen'[u].kind = "reference"
    BY <2>1 DEF CostInv
  <2> QED
    BY <2>3, <2>4, <2>6, <2>7 DEF CostInv
<1> QED
  BY <1>3, <1>4

\* Every other callback that leaves has not touched the costs.
LEMMA OtherLeavesKeepCosts ==
  ASSUME CostInv, ChargeInv, NEW t \in Threads,
         \/ DoAtAnnotationTail(t) \/ CacheRef(t)
         \/ \E callback \in Marking : DoAtROI(t, callback) \/ DoAtROIDecision(t, callback)
  PROVE  CostInv'
<1>1. /\ pc' = [pc EXCEPT ![t] = "running"] /\ seen' = [seen EXCEPT ![t] = Nothing]
      /\ DOMAIN pc = Threads /\ DOMAIN seen = Threads
      /\ UNCHANGED <<options, overlapped, instruction_cost, charged, bbl_size>>
  BY DEF DoAtAnnotationTail, CacheRef, DoAtROI, DoAtROIDecision, Mark, ReadUnlock, bblVars,
         costVars, history, ChargeInv, LockTypeOK
<1>2. \A u \in Threads : pc'[u] \in Observing \cup {"head"} =>
                           pc'[u] = pc[u] /\ seen'[u] = seen[u]
  BY <1>1 DEF Observing
<1> QED
  BY <1>1, <1>2, QuietKeepsCosts

\* Threads that start and finish touch no cost, and neither do failures.
LEMMA OthersKeepCosts ==
  ASSUME CostInv, ChargeInv, NEW t \in Threads,
         ThreadStep(t) \/ OutOfBounds(t) \/ GrowthRace(t)
  PROVE  CostInv'
<1>1. CASE OutOfBounds(t) \/ GrowthRace(t)
  BY <1>1, QuietKeepsCosts DEF OutOfBounds, GrowthRace, lockVars, bblVars, costVars, history
<1>2. CASE ThreadStep(t)
  <2>1. /\ UNCHANGED <<options, overlapped, instruction_cost, charged, bbl_size, seen>>
        /\ \E at : pc' = [pc EXCEPT ![t] = at] /\ at \notin Observing \cup {"head"}
    BY <1>2 DEF ThreadStep, ThreadStartLock, ThreadStart, ThreadFinishLock, ThreadFinish,
                WriteLock, WriteUnlock, bblVars, costVars, history, Observing
  <2>2. DOMAIN pc = Threads
    BY DEF ChargeInv, LockTypeOK
  <2> QED
    BY <2>1, <2>2, QuietKeepsCosts
<1> QED
  BY <1>1, <1>2

\* Every step keeps the charges.
LEMMA CostStep == CostInv /\ ChargeInv /\ [Next]_vars => CostInv'
<1> SUFFICES ASSUME CostInv, ChargeInv, [Next]_vars PROVE CostInv'
  OBVIOUS
<1>1. ASSUME NEW t \in Threads, ThreadStep(t) \/ OutOfBounds(t) PROVE CostInv'
  BY <1>1, OthersKeepCosts
<1>2. ASSUME NEW t \in Threads, HandleMagic(t) PROVE CostInv'
  BY <1>2, EnteringKeepsCosts, HeadKeepsCosts, OtherLeavesKeepCosts, OthersKeepCosts
  DEF HandleMagic
<1>3. ASSUME NEW t \in Threads, InstructionStep(t) PROVE CostInv'
  BY <1>3, EnteringKeepsCosts, CountKeepsCosts, OtherLeavesKeepCosts DEF InstructionStep
<1>4. CASE UNCHANGED vars
  BY <1>4, QuietKeepsCosts DEF vars, lockVars, bblVars, costVars, history
<1> QED
  BY <1>1, <1>2, <1>3, <1>4 DEF Next

\* The inductive invariant of the charges.
THEOREM CostInvariant == Spec => []CostInv
BY CostInit, CostStep, ChargeInvariant, PTL DEF Spec

\* Until a new block meets a charge, the costs are what InstructionCount has added up
\* (Simulation.cpp:44-86, CostPackage.cpp:33-38).
THEOREM ChargesTheorem == Spec => []ChargesAreKept
<1>1. CostInv => ChargesAreKept
  BY DEF CostInv
<1> QED
  BY <1>1, CostInvariant, PTL

-----------------------------------------------------------------------------
(***************************************************************************)
(* The regions of interest: a thread's flag says whether it is inside one, *)
(* although the flags of all threads are bits of one word that callbacks   *)
(* write back while they hold a lock for reading.                          *)
(*                                                                         *)
(* What a callback has read stays current until it writes, unless another  *)
(* callback of the same kind entered meanwhile, which is remembered, or a  *)
(* thread started, which waits for the lock.                               *)
(***************************************************************************)

(* The vectors with a slot for each thread. *)

Values(s) == {s[i] : i \in DOMAIN s}
IsVector(s) == s \in Seq(Values(s))

\* x is s with e at i
Differs(x, s, i, e) == \A j \in 1 .. Len(s) : x[j] = IF j = i THEN e ELSE s[j]

\* A thread that starts lengthens a vector by a slot of its own.
LEMMA AppendVector ==
  ASSUME NEW s, IsVector(s), NEW e
  PROVE  /\ IsVector(Append(s, e)) /\ Len(Append(s, e)) = Len(s) + 1
         /\ Append(s, e)[Len(s) + 1] = e /\ \A i \in 1 .. Len(s) : Append(s, e)[i] = s[i]
<1> DEFINE V == Values(s) \cup {e}
           a == Append(s, e)
<1>1. s \in Seq(V) /\ e \in V
  BY DEF IsVector
<1> HIDE DEF V
<1>2. /\ a \in Seq(V) /\ Len(a) = Len(s) + 1 /\ Len(s) \in Nat
      /\ a[Len(s) + 1] = e /\ \A i \in 1 .. Len(s) : a[i] = s[i]
  BY <1>1
<1> HIDE DEF a
<1>3. a \in [1 .. Len(a) -> Values(a)]
  BY <1>2 DEF Values
<1>4. a \in Seq(Values(a))
  BY <1>2, <1>3
<1> QED
  BY <1>2, <1>4 DEF IsVector, a

\* A function on 1 .. n is a vector of that length.
LEMMA FunctionIsVector ==
  ASSUME NEW n \in Nat, NEW x, DOMAIN x = 1 .. n, x \in [1 .. n -> Values(x)]
  PROVE  IsVector(x) /\ Len(x) = n
<1>1. x \in Seq(Values(x)) /\ Len(x) = n
  OBVIOUS
<1> QED
  BY <1>1 DEF IsVector

\* A vector with one element replaced is a vector that differs only there.
LEMMA ExceptVector ==
  ASSUME NEW s, IsVector(s), NEW i, NEW e, NEW x, x = [s EXCEPT ![i] = e]
  PROVE  IsVector(x) /\ Len(x) = Len(s) /\ Differs(x, s, i, e)
<1>1. s \in Seq(Values(s)) /\ Len(s) \in Nat /\ DOMAIN s = 1 .. Len(s)
  BY DEF IsVector
<1>2. DOMAIN x = 1 .. Len(s) /\ x \in [1 .. Len(s) -> Values(x)]
  BY <1>1 DEF Values
<1>3. \A j \in 1 .. Len(s) : x[j] = IF j = i THEN e ELSE s[j]
  BY <1>1
<1>4. IsVector(x) /\ Len(x) = Len(s)
  BY <1>1, <1>2, FunctionIsVector
<1> QED
  BY <1>3, <1>4 DEF Differs

-----------------------------------------------------------------------------
(* The invariant. *)

SlotsOK == IsVector(scope)

CallsOK ==
  /\ options \in [roi : BOOLEAN, decision : BOOLEAN, global : BOOLEAN]
  /\ inside \in [Threads -> SUBSET Regions]
  /\ \A t \in Threads : ~HasSlot(t) => inside[t] = {}
  /\ \A t \in Threads : seen[t].kind \in Regions => HasSlot(t)

On(region) == IF region = "roi" THEN options.roi ELSE options.decision

\* A thread inside a callback of a region is the only one, and what it has read of
\* the flags is what they are.
FlagsFollow(region) ==
  On(region) /\ region \notin overlapped =>
    /\ IsVector(Word(region)) /\ Len(Word(region)) = Len(scope)
    /\ \A t \in Threads : HasSlot(t) => Word(region)[t + 1] = (region \in inside[t])
    /\ \A t \in Threads : seen[t].kind = region => seen[t].word = Word(region)
    /\ \A t, u \in Threads : seen[t].kind = region /\ seen[u].kind = region => t = u

Inside(region) == {t \in Threads : region \in inside[t]}

CountsFollow ==
  On("decision") /\ "decision" \notin overlapped =>
    /\ enter_roi_cnt \in Int /\ exit_roi_cnt \in Int
    /\ enter_roi_cnt - exit_roi_cnt = Cardinality(Inside("decision"))
    /\ \A t \in Threads : seen[t].kind = "decision" =>
         seen[t].enter = enter_roi_cnt /\ seen[t].exit = exit_roi_cnt

RegionInv ==
  SlotsOK /\ CallsOK /\ FlagsFollow("roi") /\ FlagsFollow("decision") /\ CountsFollow

\* A thread has a slot if the vector is long enough.
LEMMA SlotFacts ==
  ASSUME SlotsOK, NEW t \in Threads
  PROVE  /\ t + 1 \in Nat /\ t + 1 >= 1 /\ Len(scope) \in Nat
         /\ HasSlot(t) <=> t + 1 <= Len(scope)
<1>1. t \in Nat
  BY ThreadAssumption
<1>2. DOMAIN scope = 1 .. Len(scope) /\ Len(scope) \in Nat
  BY DEF SlotsOK, IsVector
<1> QED
  BY <1>1, <1>2 DEF HasSlot

\* No region is open and every word is empty before the first callback.
LEMMA RegionInit == Init => RegionInv
<1> SUFFICES ASSUME Init PROVE RegionInv
  OBVIOUS
<1>1. IsVector(<< >>)
  BY DEF IsVector
<1>2. SlotsOK
  BY <1>1 DEF Init, SlotsOK
<1>3. \A t \in Threads : seen[t].kind = "nothing" /\ inside[t] = {} /\ ~HasSlot(t)
  BY DEF Init, Nothing, HasSlot
<1>4. CallsOK
  <2>1. options \in [roi : BOOLEAN, decision : BOOLEAN, global : BOOLEAN]
    BY DEF Init
  <2>2. inside \in [Threads -> SUBSET Regions]
    BY DEF Init
  <2>3. "nothing" \notin Regions
    BY DEF Regions
  <2> QED
    BY <1>3, <2>1, <2>2, <2>3 DEF CallsOK
<1>5. FlagsFollow("roi") /\ FlagsFollow("decision")
  <2>1. Word("roi") = << >> /\ Word("decision") = << >> /\ scope = << >>
    BY DEF Init, Word
  <2> QED
    BY <1>1, <1>3, <2>1 DEF FlagsFollow
<1>6. Inside("decision") = {}
  BY <1>3 DEF Inside
<1>7. CountsFollow
  <2>1. enter_roi_cnt = 0 /\ exit_roi_cnt = 0
    BY DEF Init
  <2>2. Cardinality(Inside("decision")) = 0
    BY <1>6, FS_EmptySet
  <2> QED
    BY <1>3, <2>1, <2>2 DEF CountsFollow
<1> QED
  BY <1>2, <1>4, <1>5, <1>7 DEF RegionInv

-----------------------------------------------------------------------------
(* Callbacks that enter and leave. *)

\* A callback that enters reads what is current, and is alone in its kind or
\* remembered.
LEMMA EnterKeepsRegions ==
  ASSUME RegionInv, ChargeInv, NEW t \in Threads, NEW at, NEW read, Enter(t, at, read),
         read.kind \in Regions =>
           /\ at \notin Observing /\ read.word = Word(read.kind)
           /\ read.enter = enter_roi_cnt /\ read.exit = exit_roi_cnt
  PROVE  RegionInv'
<1>1. /\ seen' = [seen EXCEPT ![t] = read] /\ DOMAIN seen = Threads /\ HasSlot(t)
      /\ UNCHANGED <<options, scope, in_roi, in_roidecision, enter_roi_cnt, exit_roi_cnt, inside>>
  BY DEF Enter, ReadLock, threadVars, roiVars, ChargeInv, LockTypeOK
<1>2. /\ overlapped \subseteq overlapped'
      /\ at \notin Observing /\ (\E u \in Threads \ {t} : seen[u].kind = read.kind)
           => read.kind \in overlapped'
  BY DEF Enter
<1>3. SlotsOK'
  BY <1>1 DEF RegionInv, SlotsOK, IsVector, Values
<1>4. CallsOK'
  BY <1>1 DEF RegionInv, CallsOK, HasSlot
<1>5. ASSUME NEW r \in Regions, FlagsFollow(r) PROVE FlagsFollow(r)'
  <2> SUFFICES ASSUME On(r), r \notin overlapped'
               PROVE  /\ IsVector(Word(r)) /\ Len(Word(r)) = Len(scope)
                      /\ \A u \in Threads : HasSlot(u) => Word(r)[u + 1] = (r \in inside[u])
                      /\ \A u \in Threads : seen'[u].kind = r => seen'[u].word = Word(r)
                      /\ \A u, v \in Threads : seen'[u].kind = r /\ seen'[v].kind = r => u = v
    BY <1>1 DEF FlagsFollow, On, Word, HasSlot, IsVector, Values
  <2>1. /\ IsVector(Word(r)) /\ Len(Word(r)) = Len(scope)
        /\ \A u \in Threads : HasSlot(u) => Word(r)[u + 1] = (r \in inside[u])
        /\ \A u \in Threads : seen[u].kind = r => seen[u].word = Word(r)
        /\ \A u, v \in Threads : seen[u].kind = r /\ seen[v].kind = r => u = v
    BY <1>2, <1>5 DEF FlagsFollow
  <2>2. CASE read.kind = r
    <3>1. \A u \in Threads \ {t} : seen[u].kind # r
      BY <1>2, <2>2
    <3> QED
      BY <1>1, <2>1, <2>2, <3>1
  <2>3. CASE read.kind # r
    BY <1>1, <2>1, <2>3
  <2> QED
    BY <2>2, <2>3
<1>6. CountsFollow'
  <2>1. Inside("decision")' = Inside("decision")
    BY <1>1 DEF Inside
  <2>2. "decision" \in Regions
    BY DEF Regions
  <2>3. On("decision")' = On("decision")
    BY <1>1 DEF On
  <2> QED
    BY <1>1, <1>2, <2>1, <2>2, <2>3 DEF RegionInv, CountsFollow
<1> QED
  BY <1>3, <1>4, <1>5, <1>6 DEF RegionInv, Regions

\* A callback that leaves the flags alone forgets what it read.
LEMMA LeaveKeepsRegions ==
  ASSUME RegionInv, ChargeInv, NEW t \in Threads, ReadUnlock(t),
         UNCHANGED <<options, roiVars, inside, overlapped>>,
         IsVector(scope'), Len(scope') = Len(scope)
  PROVE  RegionInv'
<1>1. /\ seen' = [seen EXCEPT ![t] = Nothing] /\ DOMAIN seen = Threads
      /\ UNCHANGED <<options, in_roi, in_roidecision, enter_roi_cnt, exit_roi_cnt, inside, overlapped>>
  BY DEF ReadUnlock, roiVars, ChargeInv, LockTypeOK
<1>2. SlotsOK'
  BY <1>1 DEF RegionInv, SlotsOK, IsVector, Values
<1>3. \A u \in Threads : HasSlot(u)' <=> HasSlot(u)
  BY <1>2 DEF RegionInv, SlotsOK, IsVector, HasSlot
<1>4. Nothing.kind \notin Regions /\ \A r \in Regions : Nothing.kind # r
  BY DEF Nothing, Regions
<1>5. CallsOK'
  BY <1>1, <1>3, <1>4 DEF RegionInv, CallsOK
<1>6. ASSUME NEW r \in Regions, FlagsFollow(r) PROVE FlagsFollow(r)'
  <2>1. On(r)' = On(r) /\ Word(r)' = Word(r) /\ (IsVector(Word(r))' <=> IsVector(Word(r)))
    BY <1>1 DEF On, Word, IsVector, Values
  <2> QED
    BY <1>1, <1>3, <1>4, <1>6, <2>1 DEF FlagsFollow
<1>7. CountsFollow'
  <2>1. Inside("decision")' = Inside("decision") /\ On("decision")' = On("decision")
    BY <1>1 DEF Inside, On
  <2>2. "decision" \in Regions
    BY DEF Regions
  <2> QED
    BY <1>1, <1>4, <2>1, <2>2 DEF RegionInv, CountsFollow
<1> QED
  BY <1>2, <1>5, <1>6, <1>7 DEF RegionInv, Regions

\* Steps outside callbacks change neither what is read nor what is written.
LEMMA OtherKeepsRegions ==
  ASSUME RegionInv, UNCHANGED <<options, seen, scope, roiVars, inside, overlapped>>
  PROVE  RegionInv'
<1>1. UNCHANGED <<options, seen, scope, in_roi, in_roidecision, enter_roi_cnt, exit_roi_cnt,
                  inside, overlapped>>
  BY DEF roiVars
<1>2. SlotsOK'
  BY <1>1 DEF RegionInv, SlotsOK, IsVector, Values
<1>3. CallsOK'
  BY <1>1 DEF RegionInv, CallsOK, HasSlot
<1>4. ASSUME NEW r \in Regions, FlagsFollow(r) PROVE FlagsFollow(r)'
  BY <1>1, <1>4 DEF FlagsFollow, On, Word, HasSlot, IsVector, Values
<1>5. CountsFollow'
  BY <1>1 DEF RegionInv, CountsFollow, On, Inside
<1> QED
  BY <1>2, <1>3, <1>4, <1>5 DEF RegionInv, Regions

-----------------------------------------------------------------------------
(* The callbacks of regions. *)

\* What a callback of a region writes back differs from the flags in its own only.
LEMMA MarkKeepsFlags ==
  ASSUME RegionInv, ChargeInv, NEW t \in Threads, NEW callback \in Marking, NEW region \in Regions,
         Mark(t, callback, region),
         On(region) => Word(region)' = Written(t, callback = "begin"),
         \A r \in Regions \ {region} : Word(r)' = Word(r)
  PROVE  SlotsOK' /\ CallsOK' /\ FlagsFollow("roi")' /\ FlagsFollow("decision")'
<1>1. /\ seen' = [seen EXCEPT ![t] = Nothing] /\ DOMAIN seen = Threads
      /\ inside \in [Threads -> SUBSET Regions]
      /\ inside' = [inside EXCEPT ![t] = IF callback = "begin" THEN @ \cup {region}
                                         ELSE @ \ {region}]
      /\ seen[t].kind = region /\ HasSlot(t)
      /\ UNCHANGED <<options, scope, overlapped>>
  BY DEF Mark, ReadUnlock, threadVars, ChargeInv, LockTypeOK, RegionInv, CallsOK
<1>2. \A r \in Regions : Nothing.kind # r
  BY DEF Nothing, Regions
<1>3. SlotsOK'
  BY <1>1 DEF RegionInv, SlotsOK, IsVector, Values
<1>4. \A u : HasSlot(u)' <=> HasSlot(u)
  BY <1>1 DEF HasSlot
<1>5. CallsOK'
  <2>1. inside' \in [Threads -> SUBSET Regions]
    BY <1>1
  <2> QED
    BY <1>1, <1>2, <1>4, <2>1 DEF RegionInv, CallsOK
<1>6. ASSUME NEW r \in Regions, FlagsFollow(r) PROVE FlagsFollow(r)'
  <2> SUFFICES ASSUME On(r), r \notin overlapped
               PROVE  /\ IsVector(Word(r)') /\ Len(Word(r)') = Len(scope)
                      /\ \A u \in Threads : HasSlot(u) => Word(r)'[u + 1] = (r \in inside'[u])
                      /\ \A u \in Threads : seen'[u].kind = r => seen'[u].word = Word(r)'
                      /\ \A u, v \in Threads : seen'[u].kind = r /\ seen'[v].kind = r => u = v
    BY <1>1, <1>4 DEF FlagsFollow, On, IsVector, Values
  <2>1. /\ IsVector(Word(r)) /\ Len(Word(r)) = Len(scope)
        /\ \A u \in Threads : HasSlot(u) => Word(r)[u + 1] = (r \in inside[u])
        /\ \A u \in Threads : seen[u].kind = r => seen[u].word = Word(r)
        /\ \A u, v \in Threads : seen[u].kind = r /\ seen[v].kind = r => u = v
    BY <1>6 DEF FlagsFollow
  <2>2. CASE r = region
    <3>1. PICK w, x, i, e : w = Word(r) /\ x = Word(r)' /\ i = t + 1 /\ e = (callback = "begin")
      OBVIOUS
    <3>2. /\ IsVector(Word(r)') /\ Len(Word(r)') = Len(Word(r))
          /\ \A j \in 1 .. Len(Word(r)) :
               Word(r)'[j] = IF j = t + 1 THEN callback = "begin" ELSE Word(r)[j]
      <4>1. x = [w EXCEPT ![i] = e]
        BY <1>1, <2>1, <2>2, <3>1 DEF Written
      <4>2. IsVector(w)
        BY <2>1, <3>1
      <4>3. IsVector(x) /\ Len(x) = Len(w) /\ Differs(x, w, i, e)
        BY <4>1, <4>2, ExceptVector, ZenonT(60)
      <4> QED
        BY <3>1, <4>3 DEF Differs
    <3>3. ASSUME NEW u \in Threads, HasSlot(u) PROVE Word(r)'[u + 1] = (r \in inside'[u])
      <4>1. u + 1 \in 1 .. Len(Word(r)) /\ (u + 1 = t + 1 => u = t)
        BY <2>1, <3>3, SlotFacts, ThreadAssumption DEF RegionInv
      <4>2. CASE u = t
        <5>1. Word(r)'[u + 1] = (callback = "begin")
          BY <3>2, <4>1, <4>2
        <5>2. inside'[u] = IF callback = "begin" THEN inside[u] \cup {r} ELSE inside[u] \ {r}
          BY <1>1, <2>2, <4>2
        <5> QED
          BY <5>1, <5>2
      <4>3. CASE u # t
        BY <1>1, <2>1, <3>2, <3>3, <4>1, <4>3
      <4> QED
        BY <4>2, <4>3
    <3>4. \A u \in Threads : seen'[u].kind # r
      BY <1>1, <1>2, <2>1, <2>2
    <3> QED
      BY <2>1, <3>2, <3>3, <3>4
  <2>3. CASE r # region
    <3>1. Word(r)' = Word(r) /\ \A u \in Threads : r \in inside'[u] <=> r \in inside[u]
      BY <1>1, <2>3
    <3>2. \A u \in Threads : seen'[u].kind = r => seen'[u] = seen[u]
      BY <1>1, <1>2
    <3>3. \A u \in Threads : HasSlot(u) => Word(r)'[u + 1] = (r \in inside'[u])
      BY <2>1, <3>1
    <3> QED
      BY <2>1, <3>1, <3>2, <3>3
  <2> QED
    BY <2>2, <2>3
<1> QED
  BY <1>3, <1>5, <1>6 DEF RegionInv, Regions

\* The threads inside a region are finitely many.
LEMMA InsideFinite ==
  ASSUME NEW region
  PROVE  IsFiniteSet(Inside(region)) /\ Cardinality(Inside(region)) \in Nat
<1>1. IsFiniteSet(Inside(region))
  BY ThreadAssumption, FS_Subset DEF Inside
<1> QED
  BY <1>1, FS_CardinalityType

\* The write of a ROI flag changes the flag of its thread and no other.
LEMMA RoiKeepsRegions ==
  ASSUME RegionInv, ChargeInv, NEW t \in Threads, NEW callback \in Marking, DoAtROI(t, callback)
  PROVE  RegionInv'
<1>1. /\ Mark(t, callback, "roi") /\ UNCHANGED <<in_roidecision, enter_roi_cnt, exit_roi_cnt>>
      /\ On("roi") => Word("roi")' = Written(t, callback = "begin")
      /\ \A r \in Regions \ {"roi"} : Word(r)' = Word(r)
  BY DEF DoAtROI, On, Word, Regions
<1>2. SlotsOK' /\ CallsOK' /\ FlagsFollow("roi")' /\ FlagsFollow("decision")'
  BY <1>1, MarkKeepsFlags DEF Regions
<1>3. CountsFollow'
  <2>1. /\ seen' = [seen EXCEPT ![t] = Nothing] /\ DOMAIN seen = Threads
        /\ inside \in [Threads -> SUBSET Regions]
        /\ inside' = [inside EXCEPT ![t] = IF callback = "begin" THEN @ \cup {"roi"}
                                           ELSE @ \ {"roi"}]
        /\ UNCHANGED <<options, overlapped>>
    BY <1>1 DEF Mark, ReadUnlock, ChargeInv, LockTypeOK, RegionInv, CallsOK
  <2>2. Inside("decision")' = Inside("decision") /\ On("decision")' = On("decision")
    BY <2>1 DEF Inside, On
  <2>3. Nothing.kind # "decision"
    BY DEF Nothing
  <2> QED
    BY <1>1, <2>1, <2>2, <2>3 DEF RegionInv, CountsFollow
<1> QED
  BY <1>2, <1>3 DEF RegionInv

\* The counts of calls change when the flag does, and so does the set of threads
\* inside a region.
LEMMA RoiDecisionKeepsRegions ==
  ASSUME RegionInv, ChargeInv, NEW t \in Threads, NEW callback \in Marking,
         DoAtROIDecision(t, callback)
  PROVE  RegionInv'
<1>1. /\ Mark(t, callback, "decision")
      /\ On("decision") => Word("decision")' = Written(t, callback = "begin")
      /\ \A r \in Regions \ {"decision"} : Word(r)' = Word(r)
  BY DEF DoAtROIDecision, On, Word, Regions
<1>2. SlotsOK' /\ CallsOK' /\ FlagsFollow("roi")' /\ FlagsFollow("decision")'
  BY <1>1, MarkKeepsFlags DEF Regions
<1>3. CountsFollow'
  <2>1. /\ seen' = [seen EXCEPT ![t] = Nothing] /\ DOMAIN seen = Threads
        /\ inside \in [Threads -> SUBSET Regions]
        /\ inside' = [inside EXCEPT ![t] = IF callback = "begin" THEN @ \cup {"decision"}
                                           ELSE @ \ {"decision"}]
        /\ seen[t].kind = "decision" /\ HasSlot(t)
        /\ UNCHANGED <<options, overlapped>>
    BY <1>1 DEF Mark, ReadUnlock, ChargeInv, LockTypeOK, RegionInv, CallsOK, Regions
  <2> SUFFICES ASSUME On("decision"), "decision" \notin overlapped
               PROVE  /\ enter_roi_cnt' \in Int /\ exit_roi_cnt' \in Int
                      /\ enter_roi_cnt' - exit_roi_cnt' = Cardinality(Inside("decision")')
                      /\ \A u \in Threads : seen'[u].kind # "decision"
    BY <2>1 DEF CountsFollow, On
  <2>2. /\ seen[t].enter = enter_roi_cnt /\ seen[t].exit = exit_roi_cnt
        /\ enter_roi_cnt \in Int /\ exit_roi_cnt \in Int
        /\ enter_roi_cnt - exit_roi_cnt = Cardinality(Inside("decision"))
    BY <2>1 DEF RegionInv, CountsFollow
  <2>3. seen[t].word[t + 1] = ("decision" \in inside[t])
    BY <2>1 DEF RegionInv, FlagsFollow
  <2>4. /\ seen[t].word[t + 1] <=> t \in Inside("decision")
        /\ IsFiniteSet(Inside("decision")) /\ Cardinality(Inside("decision")) \in Nat
    BY <2>3, InsideFinite DEF Inside
  <2>5. \A u \in Threads : seen'[u].kind # "decision"
    <3>1. \A u \in Threads : seen[u].kind = "decision" => u = t
      BY <2>1 DEF RegionInv, FlagsFollow
    <3> QED
      BY <2>1, <3>1 DEF Nothing
  <2>6. CASE callback = "begin"
    <3>1. Inside("decision")' = Inside("decision") \cup {t}
      BY <2>1, <2>6 DEF Inside
    <3>2. /\ enter_roi_cnt' = IF t \in Inside("decision") THEN enter_roi_cnt
                              ELSE enter_roi_cnt + 1
          /\ exit_roi_cnt' = exit_roi_cnt
      BY <2>2, <2>4, <2>6 DEF DoAtROIDecision, On
    <3>3. Cardinality(Inside("decision") \cup {t})
            = IF t \in Inside("decision") THEN Cardinality(Inside("decision"))
              ELSE Cardinality(Inside("decision")) + 1
      BY <2>4, FS_AddElement
    <3>4. Cardinality(Inside("decision")')
            = IF t \in Inside("decision") THEN Cardinality(Inside("decision"))
              ELSE Cardinality(Inside("decision")) + 1
      BY <3>1, <3>3
    <3>5. enter_roi_cnt' \in Int /\ exit_roi_cnt' \in Int
      BY <2>2, <3>2
    <3>6. enter_roi_cnt' - exit_roi_cnt' = Cardinality(Inside("decision")')
      BY <2>2, <2>4, <3>2, <3>4
    <3> QED
      BY <2>5, <3>5, <3>6
  <2>7. CASE callback = "end"
    <3>1. Inside("decision")' = Inside("decision") \ {t}
      BY <2>1, <2>7 DEF Inside
    <3>2. /\ exit_roi_cnt' = IF t \in Inside("decision") THEN exit_roi_cnt + 1
                             ELSE exit_roi_cnt
          /\ enter_roi_cnt' = enter_roi_cnt
      BY <2>2, <2>4, <2>7 DEF DoAtROIDecision, On
    <3>3. Cardinality(Inside("decision") \ {t})
            = IF t \in Inside("decision") THEN Cardinality(Inside("decision")) - 1
              ELSE Cardinality(Inside("decision"))
      BY <2>4, FS_RemoveElement
    <3>4. Cardinality(Inside("decision")')
            = IF t \in Inside("decision") THEN Cardinality(Inside("decision")) - 1
              ELSE Cardinality(Inside("decision"))
      BY <3>1, <3>3
    <3>5. enter_roi_cnt' \in Int /\ exit_roi_cnt' \in Int
      BY <2>2, <3>2
    <3>6. enter_roi_cnt' - exit_roi_cnt' = Cardinality(Inside("decision")')
      BY <2>2, <2>4, <3>2, <3>4
    <3> QED
      BY <2>5, <3>5, <3>6
  <2> QED
    BY <2>6, <2>7 DEF Marking
<1> QED
  BY <1>2, <1>3 DEF RegionInv

-----------------------------------------------------------------------------
(* Threads, annotations and instructions. *)

\* A thread that starts is alone, and the slot it pushes is that of a thread which
\* has not called yet.
LEMMA StartKeepsRegions ==
  ASSUME RegionInv, ChargeInv, NEW t \in Threads, ThreadStart(t)
  PROVE  RegionInv'
<1>1. /\ UNCHANGED <<options, seen, enter_roi_cnt, exit_roi_cnt, inside, overlapped>>
      /\ scope' = Append(scope, <<GLOBAL_BBLID>>)
      /\ in_roi' = Append(in_roi, ~options.roi)
      /\ in_roidecision' = Append(in_roidecision, ~options.decision)
  BY DEF ThreadStart, WriteUnlock
<1>2. \A u \in Threads : seen[u].kind = "nothing"
  <2>1. writer = t /\ writer # NoThread
    BY ThreadAssumption DEF ThreadStart, ChargeInv, LockFollowsPlaces, Writing
  <2>2. \A u \in Threads : pc[u] \notin Reading
    BY <2>1 DEF ChargeInv, LockFollowsPlaces
  <2> QED
    BY <2>2 DEF ChargeInv, LockFollowsPlaces
<1>3. \A u \in Threads, r \in Regions : seen[u].kind # r
  BY <1>2 DEF Regions
<1>4. IsVector(scope') /\ Len(scope') = Len(scope) + 1
  BY <1>1, AppendVector DEF RegionInv, SlotsOK
<1>5. SlotsOK'
  BY <1>4 DEF SlotsOK, IsVector, Values
<1>6. \A u \in Threads : /\ HasSlot(u) <=> u + 1 <= Len(scope)
                         /\ HasSlot(u)' <=> u + 1 <= Len(scope) + 1
                         /\ u + 1 \in Nat /\ u + 1 >= 1 /\ Len(scope) \in Nat
  <2> SUFFICES ASSUME NEW u \in Threads
               PROVE  /\ HasSlot(u) <=> u + 1 <= Len(scope)
                      /\ HasSlot(u)' <=> u + 1 <= Len(scope) + 1
                      /\ u + 1 \in Nat /\ u + 1 >= 1 /\ Len(scope) \in Nat
    OBVIOUS
  <2>1. /\ u + 1 \in Nat /\ u + 1 >= 1 /\ Len(scope) \in Nat
        /\ HasSlot(u) <=> u + 1 <= Len(scope)
    BY SlotFacts DEF RegionInv
  <2>2. DOMAIN scope' = 1 .. Len(scope')
    BY <1>4 DEF IsVector
  <2> QED
    BY <1>4, <2>1, <2>2 DEF HasSlot
<1>7. CallsOK'
  BY <1>1, <1>3, <1>6 DEF RegionInv, CallsOK
<1>8. ASSUME NEW r \in Regions, FlagsFollow(r) PROVE FlagsFollow(r)'
  <2> SUFFICES ASSUME On(r), r \notin overlapped
               PROVE  /\ IsVector(Word(r)') /\ Len(Word(r)') = Len(scope')
                      /\ \A u \in Threads : HasSlot(u)' => Word(r)'[u + 1] = (r \in inside'[u])
    BY <1>1, <1>3 DEF FlagsFollow, On, IsVector, Values
  <2>1. /\ IsVector(Word(r)) /\ Len(Word(r)) = Len(scope)
        /\ \A u \in Threads : HasSlot(u) => Word(r)[u + 1] = (r \in inside[u])
    BY <1>8 DEF FlagsFollow
  <2>2. PICK w, x, e : w = Word(r) /\ x = Word(r)' /\ e = FALSE
    OBVIOUS
  <2>3. x = Append(w, e)
    BY <1>1, <2>2 DEF Word, On, Regions
  <2>4. /\ IsVector(x) /\ Len(x) = Len(w) + 1
        /\ x[Len(w) + 1] = e /\ \A i \in 1 .. Len(w) : x[i] = w[i]
    BY <2>1, <2>2, <2>3, AppendVector
  <2>5. ASSUME NEW u \in Threads, HasSlot(u)' PROVE Word(r)'[u + 1] = (r \in inside'[u])
    <3>1. CASE HasSlot(u)
      <4>1. u + 1 \in 1 .. Len(w)
        BY <1>6, <2>1, <2>2, <3>1
      <4>2. Word(r)'[u + 1] = Word(r)[u + 1]
        BY <2>2, <2>4, <4>1
      <4> QED
        BY <1>1, <2>1, <3>1, <4>2
    <3>2. CASE ~HasSlot(u)
      <4>1. u + 1 = Len(w) + 1
        BY <1>6, <2>1, <2>2, <2>5, <3>2
      <4>2. Word(r)'[u + 1] = FALSE
        BY <2>2, <2>4, <4>1
      <4>3. inside[u] = {}
        BY <3>2 DEF RegionInv, CallsOK
      <4>4. (r \in inside'[u]) = FALSE
        BY <1>1, <4>3
      <4> QED
        BY <4>2, <4>4
    <3> QED
      BY <3>1, <3>2
  <2> QED
    BY <1>4, <2>1, <2>2, <2>4, <2>5
<1>9. CountsFollow'
  <2>1. Inside("decision")' = Inside("decision") /\ On("decision")' = On("decision")
    BY <1>1 DEF Inside, On
  <2> QED
    BY <1>1, <2>1 DEF RegionInv, CountsFollow
<1> QED
  BY <1>5, <1>7, <1>8, <1>9 DEF RegionInv, Regions

\* Annotations change the stack in a slot, and instructions not even that.
LEMMA OtherLeavesKeepRegions ==
  ASSUME RegionInv, ChargeInv, NEW t \in Threads,
         \/ DoAtAnnotationHead(t) \/ DoAtAnnotationTail(t)
         \/ InstructionCount(t) \/ CacheRef(t)
  PROVE  RegionInv'
<1>1. ReadUnlock(t) /\ UNCHANGED <<options, roiVars, inside, overlapped>>
  BY DEF DoAtAnnotationHead, DoAtAnnotationTail, InstructionCount, CacheRef, history
<1>2. IsVector(scope)
  BY DEF RegionInv, SlotsOK
<1>3. CASE \E e : scope' = [scope EXCEPT ![t + 1] = e]
  <2>1. PICK i, e : scope' = [scope EXCEPT ![i] = e]
    BY <1>3
  <2>2. IsVector(scope') /\ Len(scope') = Len(scope)
    BY <1>2, <2>1, ExceptVector
  <2> QED
    BY <1>1, <2>2, LeaveKeepsRegions
<1>4. CASE scope' = scope
  <2>1. IsVector(scope') /\ Len(scope') = Len(scope)
    BY <1>2, <1>4
  <2> QED
    BY <1>1, <2>1, LeaveKeepsRegions
<1>5. DoAtAnnotationHead(t) => scope' = [scope EXCEPT ![t + 1] = Append(scope[t + 1], IdOf(t))]
  BY DEF DoAtAnnotationHead
<1>6. DoAtAnnotationTail(t) => scope' = [scope EXCEPT ![t + 1] = Front(scope[t + 1])]
  BY DEF DoAtAnnotationTail
<1>7. InstructionCount(t) \/ CacheRef(t) => scope' = scope
  BY DEF InstructionCount, CacheRef, threadVars
<1> QED
  BY <1>3, <1>4, <1>5, <1>6, <1>7

\* A callback that takes the lock for reading changes no flag and no count.
LEMMA EnteringKeepsRegions ==
  ASSUME RegionInv, ChargeInv, NEW t \in Threads,
         HeadEnter(t) \/ TailEnter(t) \/ RoiEnter(t) \/ ReferenceEnter(t)
  PROVE  RegionInv'
<1>1. ASSUME NEW callback, NEW b, NEW isomp, AnnotationEnter(t, callback, b, isomp)
      PROVE  RegionInv'
  <2>1. PICK read : Enter(t, callback, read) /\ read.kind = "annotation"
    BY <1>1 DEF AnnotationEnter
  <2>2. read.kind \notin Regions
    BY <2>1 DEF Regions
  <2> QED
    BY <2>1, <2>2, EnterKeepsRegions
<1>2. CASE HeadEnter(t) \/ TailEnter(t)
  BY <1>1, <1>2 DEF HeadEnter, TailEnter
<1>3. CASE RoiEnter(t)
  <2>1. PICK region \in Regions, callback \in Marking :
          Enter(t, callback, [kind |-> region, word |-> Word(region),
                              enter |-> enter_roi_cnt, exit |-> exit_roi_cnt])
    BY <1>3 DEF RoiEnter
  <2>2. PICK read : /\ Enter(t, callback, read) /\ read.kind = region
                    /\ read.word = Word(region)
                    /\ read.enter = enter_roi_cnt /\ read.exit = exit_roi_cnt
    BY <2>1
  <2>3. callback \notin Observing
    BY DEF Marking, Observing
  <2> QED
    BY <2>2, <2>3, EnterKeepsRegions
<1>4. CASE ReferenceEnter(t)
  <2>1. PICK callback, read : Enter(t, callback, read) /\ read.kind = "reference"
    BY <1>4 DEF ReferenceEnter
  <2>2. read.kind \notin Regions
    BY <2>1 DEF Regions
  <2> QED
    BY <2>1, <2>2, EnterKeepsRegions
<1> QED
  BY <1>2, <1>3, <1>4

\* Every callback keeps what the flags say of the calls.
LEMMA RegionStep == RegionInv /\ ChargeInv /\ [Next]_vars => RegionInv'
<1> SUFFICES ASSUME RegionInv, ChargeInv, [Next]_vars PROVE RegionInv'
  OBVIOUS
<1>1. ASSUME NEW t \in Threads, ThreadStep(t) PROVE RegionInv'
  <2>1. CASE ThreadStartLock(t) \/ ThreadFinishLock(t) \/ ThreadFinish(t)
    BY <2>1, OtherKeepsRegions
    DEF ThreadStartLock, ThreadFinishLock, ThreadFinish, WriteLock, WriteUnlock, threadVars, history
  <2> QED
    BY <1>1, <2>1, StartKeepsRegions DEF ThreadStep
<1>2. ASSUME NEW t \in Threads, OutOfBounds(t) \/ GrowthRace(t) PROVE RegionInv'
  BY <1>2, OtherKeepsRegions DEF OutOfBounds, GrowthRace, lockVars, threadVars, history
<1>3. ASSUME NEW t \in Threads, HandleMagic(t) PROVE RegionInv'
  BY <1>3, <1>2, EnteringKeepsRegions, OtherLeavesKeepRegions, RoiKeepsRegions,
     RoiDecisionKeepsRegions DEF HandleMagic
<1>4. ASSUME NEW t \in Threads, InstructionStep(t) PROVE RegionInv'
  BY <1>4, EnteringKeepsRegions, OtherLeavesKeepRegions DEF InstructionStep
<1>5. CASE UNCHANGED vars
  BY <1>5, OtherKeepsRegions DEF vars, lockVars, threadVars, history
<1> QED
  BY <1>1, <1>2, <1>3, <1>4, <1>5 DEF Next

-----------------------------------------------------------------------------
(* What follows. *)

\* The inductive invariant of the regions.
THEOREM RegionInvariant == Spec => []RegionInv
BY RegionInit, RegionStep, ChargeInvariant, PTL DEF Spec

\* A thread's flags and the counts of calls follow the threads' own calls unless
\* two such calls met (PinInstrument.cpp:165-206).
THEOREM RoiTheorem == Spec => []RoiFollowsCalls
<1>1. RegionInv => RoiFollowsCalls
  BY DEF RegionInv, FlagsFollow, CountsFollow, RoiFollowsCalls, On, Word, Inside
<1> QED
  BY <1>1, RegionInvariant, PTL

-----------------------------------------------------------------------------
(***************************************************************************)
(* The annotations: the stacks in the slots, the ids and the depth of      *)
(* parallel regions follow the calls, and nothing fails, unless two        *)
(* annotations met or a thread overtook another one's start.               *)
(***************************************************************************)

Calls == [bbl : Bbls, isomp : BOOLEAN]

-----------------------------------------------------------------------------
(* The stack of ids that a sequence of calls stands for. *)

StackOf(calls, ids) == <<GLOBAL_BBLID>> \o [i \in DOMAIN calls |-> ids[calls[i].bbl]]

\* ids gives a number to each block of the calls
Known(calls, ids) == \A i \in DOMAIN calls : ids[calls[i].bbl] \in Nat

\* It is a sequence of ids, one longer than the calls.
LEMMA StackFacts ==
  ASSUME NEW calls \in Seq(Calls), NEW ids, Known(calls, ids)
  PROVE  /\ StackOf(calls, ids) \in Seq(Nat)
         /\ Len(StackOf(calls, ids)) = Len(calls) + 1
         /\ StackOf(calls, ids)[1] = GLOBAL_BBLID
         /\ \A i \in 1 .. Len(calls) : StackOf(calls, ids)[i + 1] = ids[calls[i].bbl]
<1> DEFINE s == [i \in DOMAIN calls |-> ids[calls[i].bbl]]
<1>1. DOMAIN calls = 1 .. Len(calls) /\ Len(calls) \in Nat
  OBVIOUS
<1>2. s \in [1 .. Len(calls) -> Nat]
  BY <1>1 DEF Known
<1>3. s \in Seq(Nat) /\ Len(s) = Len(calls)
  BY <1>1, <1>2
<1>4. <<GLOBAL_BBLID>> \in Seq(Nat) /\ Len(<<GLOBAL_BBLID>>) = 1
      /\ <<GLOBAL_BBLID>>[1] = GLOBAL_BBLID
  BY DEF GLOBAL_BBLID
<1>5. \A i \in 1 .. Len(calls) : s[i] = ids[calls[i].bbl]
  BY <1>1
<1> HIDE DEF s
<1>6. /\ <<GLOBAL_BBLID>> \o s \in Seq(Nat)
      /\ Len(<<GLOBAL_BBLID>> \o s) = Len(calls) + 1
      /\ (<<GLOBAL_BBLID>> \o s)[1] = GLOBAL_BBLID
      /\ \A i \in 1 .. Len(calls) : (<<GLOBAL_BBLID>> \o s)[i + 1] = s[i]
  BY <1>1, <1>3, <1>4
<1> QED
  BY <1>5, <1>6 DEF StackOf, s

\* The stack depends on the ids of the blocks called only.
LEMMA StackKeeps ==
  ASSUME NEW calls, NEW ids, NEW new, \A i \in DOMAIN calls : new[calls[i].bbl] = ids[calls[i].bbl]
  PROVE  StackOf(calls, new) = StackOf(calls, ids)
BY DEF StackOf

\* A call puts its id on the stack.
LEMMA StackPush ==
  ASSUME NEW calls \in Seq(Calls), NEW call \in Calls, NEW ids, Known(Append(calls, call), ids)
  PROVE  StackOf(Append(calls, call), ids) = Append(StackOf(calls, ids), ids[call.bbl])
<1> DEFINE more == Append(calls, call)
           s == StackOf(calls, ids)
           e == ids[call.bbl]
<1>1. /\ more \in Seq(Calls) /\ Len(more) = Len(calls) + 1 /\ Len(calls) \in Nat
      /\ more[Len(calls) + 1] = call /\ \A i \in 1 .. Len(calls) : more[i] = calls[i]
      /\ DOMAIN calls = 1 .. Len(calls) /\ DOMAIN more = 1 .. Len(calls) + 1
  OBVIOUS
<1>2. Known(calls, ids) /\ e \in Nat
  BY <1>1 DEF Known
<1>3. /\ s \in Seq(Nat) /\ Len(s) = Len(calls) + 1 /\ s[1] = GLOBAL_BBLID
      /\ \A i \in 1 .. Len(calls) : s[i + 1] = ids[calls[i].bbl]
  BY <1>2, StackFacts
<1>4. /\ StackOf(more, ids) \in Seq(Nat) /\ Len(StackOf(more, ids)) = Len(calls) + 2
      /\ StackOf(more, ids)[1] = GLOBAL_BBLID
      /\ \A i \in 1 .. Len(calls) + 1 : StackOf(more, ids)[i + 1] = ids[more[i].bbl]
  <2> HIDE DEF more
  <2>1. /\ StackOf(more, ids) \in Seq(Nat) /\ Len(StackOf(more, ids)) = Len(more) + 1
        /\ StackOf(more, ids)[1] = GLOBAL_BBLID
        /\ \A i \in 1 .. Len(more) : StackOf(more, ids)[i + 1] = ids[more[i].bbl]
    BY <1>1, StackFacts DEF more
  <2> QED
    BY <1>1, <2>1
<1> HIDE DEF more, s, e
<1>5. /\ Append(s, e) \in Seq(Nat) /\ Len(Append(s, e)) = Len(calls) + 2
      /\ Append(s, e)[Len(calls) + 2] = e
      /\ \A j \in 1 .. Len(calls) + 1 : Append(s, e)[j] = s[j]
  BY <1>1, <1>2, <1>3
<1>6. ASSUME NEW j \in 1 .. Len(calls) + 2 PROVE StackOf(more, ids)[j] = Append(s, e)[j]
  <2>1. CASE j = 1
    BY <1>1, <1>3, <1>4, <1>5, <2>1
  <2>2. CASE j = Len(calls) + 2
    <3>1. StackOf(more, ids)[Len(calls) + 1 + 1] = ids[more[Len(calls) + 1].bbl]
      BY <1>1, <1>4
    <3>2. Len(calls) + 1 + 1 = j
      BY <1>1, <2>2
    <3> QED
      BY <1>1, <1>5, <2>2, <3>1, <3>2 DEF e
  <2>3. CASE j # 1 /\ j # Len(calls) + 2
    <3>1. PICK i \in 1 .. Len(calls) : j = i + 1
      BY <1>1, <2>3
    <3>2. StackOf(more, ids)[i + 1] = ids[more[i].bbl] /\ more[i] = calls[i]
      <4>1. i \in 1 .. Len(calls) + 1
        BY <1>1
      <4> QED
        BY <1>1, <1>4, <4>1
    <3>3. s[i + 1] = ids[calls[i].bbl] /\ i + 1 \in 1 .. Len(calls) + 1
      BY <1>1, <1>3
    <3> QED
      BY <1>5, <3>1, <3>2, <3>3
  <2> QED
    BY <2>1, <2>2, <2>3
<1>7. StackOf(more, ids) = Append(s, e)
  BY <1>1, <1>4, <1>5, <1>6
<1> QED
  BY <1>7 DEF more, s, e

\* Taking the last call off takes its id off the stack.
LEMMA StackPop ==
  ASSUME NEW calls \in Seq(Calls), NEW ids, Known(calls, ids), calls # << >>
  PROVE  /\ Last(StackOf(calls, ids)) = ids[Last(calls).bbl]
         /\ Front(StackOf(calls, ids)) = StackOf(Front(calls), ids)
<1> DEFINE s == StackOf(calls, ids)
           f == Front(calls)
<1>1. /\ Len(calls) \in Nat /\ Len(calls) >= 1
      /\ f \in Seq(Calls) /\ Len(f) = Len(calls) - 1
      /\ \A i \in 1 .. Len(calls) - 1 : f[i] = calls[i]
      /\ DOMAIN calls = 1 .. Len(calls) /\ DOMAIN f = 1 .. Len(calls) - 1
  <2>1. Len(calls) \in Nat /\ DOMAIN calls = 1 .. Len(calls)
    OBVIOUS
  <2>2. Len(calls) # 0
    BY <2>1
  <2>3. Len(calls) - 1 \in 0 .. Len(calls)
    BY <2>1, <2>2
  <2>4. /\ f \in Seq(Calls) /\ Len(f) = Len(calls) - 1
        /\ \A i \in 1 .. Len(calls) - 1 : f[i] = calls[i]
    BY <2>1, <2>3 DEF Front
  <2> QED
    BY <2>1, <2>2, <2>4
<1>2. Known(f, ids)
  BY <1>1 DEF Known
<1>3. /\ s \in Seq(Nat) /\ Len(s) = Len(calls) + 1 /\ s[1] = GLOBAL_BBLID
      /\ \A i \in 1 .. Len(calls) : s[i + 1] = ids[calls[i].bbl]
  BY StackFacts
<1>4. /\ StackOf(f, ids) \in Seq(Nat) /\ Len(StackOf(f, ids)) = Len(calls)
      /\ StackOf(f, ids)[1] = GLOBAL_BBLID
      /\ \A i \in 1 .. Len(calls) - 1 : StackOf(f, ids)[i + 1] = ids[f[i].bbl]
  <2> HIDE DEF f
  <2>1. /\ StackOf(f, ids) \in Seq(Nat) /\ Len(StackOf(f, ids)) = Len(f) + 1
        /\ StackOf(f, ids)[1] = GLOBAL_BBLID
        /\ \A i \in 1 .. Len(f) : StackOf(f, ids)[i + 1] = ids[f[i].bbl]
    BY <1>1, <1>2, StackFacts
  <2> QED
    BY <1>1, <2>1
<1> HIDE DEF s, f
<1>5. /\ Front(s) \in Seq(Nat) /\ Len(Front(s)) = Len(calls)
      /\ \A j \in 1 .. Len(calls) : Front(s)[j] = s[j]
      /\ Last(s) = s[Len(calls) + 1]
  BY <1>1, <1>3 DEF Front, Last
<1>6. ASSUME NEW j \in 1 .. Len(calls) PROVE Front(s)[j] = StackOf(f, ids)[j]
  <2>1. CASE j = 1
    BY <1>1, <1>3, <1>4, <1>5, <2>1
  <2>2. CASE j # 1
    <3>1. PICK i \in 1 .. Len(calls) - 1 : j = i + 1
      BY <1>1, <2>2
    <3>2. StackOf(f, ids)[i + 1] = ids[f[i].bbl] /\ f[i] = calls[i]
      BY <1>1, <1>4
    <3>3. s[i + 1] = ids[calls[i].bbl]
      <4>1. i \in 1 .. Len(calls)
        BY <1>1
      <4> QED
        BY <1>3, <4>1
    <3>4. Front(s)[j] = s[j]
      BY <1>5
    <3> QED
      BY <3>1, <3>2, <3>3, <3>4
  <2> QED
    BY <2>1, <2>2
<1>7. Front(s) = StackOf(f, ids)
  BY <1>1, <1>4, <1>5, <1>6
<1>8. Last(s) = ids[Last(calls).bbl]
  BY <1>1, <1>3, <1>5 DEF Last
<1> QED
  BY <1>7, <1>8 DEF s, f

\* The stack of no calls is the global region.
LEMMA StackEmpty == ASSUME NEW ids PROVE StackOf(<< >>, ids) = <<GLOBAL_BBLID>>
<1>1. << >> \in Seq(Calls) /\ Known(<< >>, ids) /\ Len(<< >>) = 0
  BY DEF Known
<1>2. /\ StackOf(<< >>, ids) \in Seq(Nat) /\ Len(StackOf(<< >>, ids)) = 0 + 1
      /\ StackOf(<< >>, ids)[1] = GLOBAL_BBLID
  BY <1>1, StackFacts
<1> HIDE DEF StackOf
<1>3. <<GLOBAL_BBLID>> \in Seq(Nat) /\ Len(<<GLOBAL_BBLID>>) = 1
      /\ <<GLOBAL_BBLID>>[1] = GLOBAL_BBLID
  BY DEF GLOBAL_BBLID
<1> QED
  BY <1>2, <1>3

-----------------------------------------------------------------------------
(* The invariant. *)

Met == "annotation" \in overlapped
Call(t) == [bbl |-> seen[t].bbl, isomp |-> seen[t].isomp]
Before == {"none", "starting"}

\* A thread in a callback of an annotation has read which; at the end of a block it
\* is the one begun last.
CallTypes ==
  /\ open \in [Threads -> Seq(Calls)]
  /\ \A t \in Threads : ~HasSlot(t) => open[t] = << >>
  /\ \A t \in Threads : pc[t] \in Annotating =>
       seen[t].kind = "annotation" /\ Call(t) \in Calls /\ HasSlot(t)
  /\ \A t \in Threads : pc[t] = "tail" => open[t] # << >> /\ Call(t) = Last(open[t])

\* If threads start in the order of their ids, each has its own slot from then on.
SlotsFollowStarts ==
  ~overtaken => \A t \in Threads : HasSlot(t) <=> pc[t] \notin Before

\* What the one thread in a callback of an annotation has read is still so.
ReadsAreCurrent ==
  ~Met => \A t \in Threads : seen[t].kind = "annotation" =>
            /\ \A u \in Threads : seen[u].kind = "annotation" => u = t
            /\ seen[t].known = (seen[t].bbl \in DOMAIN bbl_hash)
            /\ seen[t].size = bbl_size /\ seen[t].omp = in_omp_parallel

IdsAreOwn ==
  ~Met =>
    /\ bbl_size \in Nat /\ bbl_hash \in [DOMAIN bbl_hash -> Nat]
    /\ \A b \in DOMAIN bbl_hash : bbl_hash[b] < bbl_size
    /\ \A b, c \in DOMAIN bbl_hash : bbl_hash[b] = bbl_hash[c] => b = c

StacksFollow ==
  ~Met => \A t \in Threads :
            /\ \A i \in DOMAIN open[t] : open[t][i].bbl \in DOMAIN bbl_hash
            /\ HasSlot(t) => scope[t + 1] = StackOf(open[t], bbl_hash)

DepthFollows ==
  ~Met => /\ IsFiniteSet(OpenRegions)
          /\ in_omp_parallel \in Int /\ in_omp_parallel = Cardinality(OpenRegions)

CallInv ==
  CallTypes /\ SlotsFollowStarts /\ ReadsAreCurrent /\ IdsAreOwn /\ StacksFollow
    /\ DepthFollows /\ FailsOnlyAfterRace

\* No call is open before the first callback.
LEMMA CallInit == Init => CallInv
<1> SUFFICES ASSUME Init PROVE CallInv
  OBVIOUS
<1>1. \A t \in Threads : /\ open[t] = << >> /\ pc[t] = "none" /\ seen[t].kind = "nothing"
                         /\ ~HasSlot(t)
  BY DEF Init, Nothing, HasSlot
<1>2. CallTypes
  <2>1. << >> \in Seq(Calls)
    OBVIOUS
  <2> QED
    BY <1>1, <2>1 DEF Init, CallTypes, Annotating
<1>3. SlotsFollowStarts
  BY <1>1 DEF SlotsFollowStarts, Before
<1>4. ReadsAreCurrent
  BY <1>1 DEF ReadsAreCurrent
<1>5. IdsAreOwn
  BY DEF Init, IdsAreOwn
<1>6. StacksFollow
  BY <1>1 DEF StacksFollow
<1>7. DepthFollows
  <2>1. OpenRegions = {}
    BY <1>1 DEF OpenRegions
  <2> QED
    BY <2>1, FS_EmptySet DEF Init, DepthFollows
<1>8. FailsOnlyAfterRace
  BY DEF Init, FailsOnlyAfterRace
<1> QED
  BY <1>2, <1>3, <1>4, <1>5, <1>6, <1>7, <1>8 DEF CallInv

-----------------------------------------------------------------------------
(* Steps outside annotations. *)

\* A step that leaves stacks, ids and depth alone keeps what they say of the calls.
LEMMA QuietKeepsCalls ==
  ASSUME CallInv,
         UNCHANGED <<scope, open, bbl_hash, bbl_size, in_omp_parallel, overtaken>>,
         \A t \in Threads : pc'[t] \in Annotating => pc'[t] = pc[t] /\ seen'[t] = seen[t],
         \A t \in Threads : seen'[t].kind = "annotation" => seen'[t] = seen[t],
         \A t \in Threads : pc'[t] \in Before <=> pc[t] \in Before,
         overlapped \subseteq overlapped',
         failed' => failed \/ overtaken \/ Met' \/ Grown'
  PROVE  CallInv'
<1>1. \A t : HasSlot(t)' <=> HasSlot(t)
  BY DEF HasSlot
<1>2. Met => Met'
  BY DEF Met
<1>3. CallTypes'
  BY <1>1 DEF CallInv, CallTypes, Annotating, Call
<1>4. SlotsFollowStarts'
  BY <1>1 DEF CallInv, SlotsFollowStarts
<1>5. ReadsAreCurrent'
  BY <1>2 DEF CallInv, ReadsAreCurrent
<1>6. IdsAreOwn'
  BY <1>2 DEF CallInv, IdsAreOwn
<1>7. StacksFollow'
  BY <1>1, <1>2 DEF CallInv, StacksFollow, StackOf
<1>8. DepthFollows'
  BY <1>2 DEF CallInv, DepthFollows, OpenRegions
<1>9. FailsOnlyAfterRace'
  BY <1>2 DEF CallInv, FailsOnlyAfterRace, Met, Grown
<1> QED
  BY <1>3, <1>4, <1>5, <1>6, <1>7, <1>8, <1>9 DEF CallInv

\* Waiting for the lock and finishing a thread leave the calls alone.
LEMMA CallLocksKeep ==
  ASSUME CallInv, ChargeInv, NEW t \in Threads,
         ThreadStartLock(t) \/ ThreadFinishLock(t) \/ ThreadFinish(t)
  PROVE  CallInv'
<1>1. /\ UNCHANGED <<seen, scope, open, bbl_hash, bbl_size, in_omp_parallel, overtaken,
                     overlapped, failed>>
      /\ \E at : pc' = [pc EXCEPT ![t] = at] /\ at \notin Annotating /\ (at \in Before <=> pc[t] \in Before)
  BY DEF ThreadStartLock, ThreadFinishLock, ThreadFinish, WriteLock, WriteUnlock, threadVars,
         bblVars, history, Annotating, Before
<1>2. DOMAIN pc = Threads
  BY DEF ChargeInv, LockTypeOK
<1> QED
  BY <1>1, <1>2, QuietKeepsCalls

\* A thread that leaves its slot's bounds was overtaken, or it would have one; a new
\* block that does harm has met an annotation or a charge.
LEMMA CallFailuresKeep ==
  ASSUME CallInv, ChargeInv, CostInv, NEW t \in Threads, OutOfBounds(t) \/ GrowthRace(t)
  PROVE  CallInv'
<1>1. UNCHANGED <<pc, seen, scope, open, bbl_hash, bbl_size, in_omp_parallel, overtaken, overlapped>>
  BY DEF OutOfBounds, GrowthRace, lockVars, threadVars, bblVars, history
<1>2. CASE OutOfBounds(t)
  <2>1. overtaken
    BY <1>2 DEF OutOfBounds, CallInv, SlotsFollowStarts, Before
  <2> QED
    BY <1>1, <2>1, QuietKeepsCalls
<1>3. CASE GrowthRace(t)
  <2>1. PICK u \in Threads \ {t} : pc[u] \in Annotating \/ IsCharged(u)
    BY <1>3 DEF GrowthRace
  <2>2. ASSUME pc[u] \in Annotating PROVE Met'
    <3>1. seen[t].kind = "annotation" /\ seen[u].kind = "annotation"
      BY <1>3, <2>2 DEF GrowthRace, Grows, CallInv, CallTypes, Annotating
    <3>2. Met
      BY <2>1, <3>1 DEF CallInv, ReadsAreCurrent
    <3> QED
      BY <1>1, <3>2 DEF Met
  <2>3. ASSUME IsCharged(u) PROVE Grown'
    <3>1. Grown
      BY <1>3, <2>3 DEF GrowthRace, CostInv, GrowthIsRemembered, GrowthMeetsCharge
    <3> QED
      BY <1>1, <3>1 DEF Grown
  <2>4. Met' \/ Grown'
    BY <2>1, <2>2, <2>3
  <2> QED
    BY <1>1, <2>4, QuietKeepsCalls
<1> QED
  BY <1>2, <1>3

\* Calls for regions and callbacks of instructions.
LEMMA CallOthersKeep ==
  ASSUME CallInv, ChargeInv, NEW t \in Threads,
         \/ RoiEnter(t) \/ ReferenceEnter(t) \/ InstructionCount(t) \/ CacheRef(t)
         \/ \E callback \in Marking : DoAtROI(t, callback) \/ DoAtROIDecision(t, callback)
  PROVE  CallInv'
<1>1. DOMAIN pc = Threads /\ DOMAIN seen = Threads
  BY DEF ChargeInv, LockTypeOK
<1>2. ASSUME NEW callback, callback \in Marking \cup Observing,
             NEW read, read.kind # "annotation", Enter(t, callback, read)
      PROVE  CallInv'
  <2>1. /\ pc[t] = "running" /\ pc' = [pc EXCEPT ![t] = callback]
        /\ seen' = [seen EXCEPT ![t] = read]
        /\ UNCHANGED <<scope, open, bbl_hash, bbl_size, in_omp_parallel, overtaken, failed>>
        /\ overlapped \subseteq overlapped'
    BY <1>2 DEF Enter, ReadLock, threadVars, bblVars
  <2>2. callback \notin Annotating /\ callback \notin Before /\ pc[t] \notin Before
    BY <1>2, <2>1 DEF Marking, Observing, Annotating, Before
  <2> QED
    BY <1>1, <1>2, <2>1, <2>2, QuietKeepsCalls
<1>3. ASSUME ReadUnlock(t), pc[t] \in Marking \cup Observing,
             UNCHANGED <<scope, open, bbl_hash, bbl_size, in_omp_parallel, overtaken, overlapped,
                         failed>>
      PROVE  CallInv'
  <2>1. /\ pc' = [pc EXCEPT ![t] = "running"] /\ seen' = [seen EXCEPT ![t] = Nothing]
        /\ Nothing.kind # "annotation"
    BY <1>3 DEF ReadUnlock, Nothing
  <2>2. "running" \notin Annotating /\ "running" \notin Before /\ pc[t] \notin Before
    BY <1>3 DEF Marking, Observing, Annotating, Before
  <2> QED
    BY <1>1, <1>3, <2>1, <2>2, QuietKeepsCalls
<1>4. CASE RoiEnter(t)
  <2>1. PICK region \in Regions, callback \in Marking :
          Enter(t, callback, [kind |-> region, word |-> Word(region),
                              enter |-> enter_roi_cnt, exit |-> exit_roi_cnt])
    BY <1>4 DEF RoiEnter
  <2>2. PICK read : Enter(t, callback, read) /\ read.kind = region
    BY <2>1
  <2>3. read.kind # "annotation"
    BY <2>2 DEF Regions
  <2> QED
    BY <1>2, <2>2, <2>3
<1>5. CASE ReferenceEnter(t)
  <2>1. \E callback \in Observing : \E read :
          Enter(t, callback, read) /\ read.kind = "reference"
    BY <1>5 DEF ReferenceEnter
  <2>2. PICK callback \in Observing : \E read :
          Enter(t, callback, read) /\ read.kind = "reference"
    BY <2>1
  <2>3. PICK read : Enter(t, callback, read) /\ read.kind = "reference"
    BY <2>2
  <2>4. read.kind # "annotation"
    BY <2>3
  <2> QED
    BY <1>2, <2>3, <2>4
<1>6. CASE InstructionCount(t) \/ CacheRef(t)
  BY <1>3, <1>6 DEF InstructionCount, CacheRef, threadVars, bblVars, history, Observing
<1>7. ASSUME NEW callback \in Marking, DoAtROI(t, callback) \/ DoAtROIDecision(t, callback)
      PROVE  CallInv'
  BY <1>3, <1>7 DEF DoAtROI, DoAtROIDecision, Mark, threadVars, bblVars
<1> QED
  BY <1>4, <1>5, <1>6, <1>7

\* The thread that starts is the only one that holds the lock. If all with smaller
\* ids have started, its slot is at its id.
LEMMA CallStartKeeps ==
  ASSUME CallInv, ChargeInv, RegionInv, NEW t \in Threads, ThreadStart(t)
  PROVE  CallInv'
<1>1. /\ UNCHANGED <<seen, open, bbl_hash, bbl_size, in_omp_parallel, overlapped, failed>>
      /\ scope' = Append(scope, <<GLOBAL_BBLID>>)
      /\ overtaken' = (overtaken \/ \E u \in Threads : u < t /\ pc[u] = "none")
      /\ pc[t] = "starting" /\ pc' = [pc EXCEPT ![t] = "running"] /\ DOMAIN pc = Threads
  BY DEF ThreadStart, WriteUnlock, bblVars, ChargeInv, LockTypeOK
<1>2. /\ IsVector(scope') /\ Len(scope') = Len(scope) + 1
      /\ scope'[Len(scope) + 1] = <<GLOBAL_BBLID>>
      /\ \A i \in 1 .. Len(scope) : scope'[i] = scope[i]
  BY <1>1, AppendVector DEF RegionInv, SlotsOK
<1>3. ASSUME NEW u \in Threads
      PROVE  /\ HasSlot(u) <=> u + 1 <= Len(scope)
             /\ HasSlot(u)' <=> u + 1 <= Len(scope) + 1
             /\ u \in Nat /\ Len(scope) \in Nat
  <2>1. u + 1 \in Nat /\ u + 1 >= 1 /\ Len(scope) \in Nat /\ (HasSlot(u) <=> u + 1 <= Len(scope))
    BY SlotFacts DEF RegionInv
  <2>2. DOMAIN scope' = 1 .. Len(scope')
    BY <1>2 DEF IsVector
  <2>3. HasSlot(u)' <=> u + 1 \in 1 .. Len(scope) + 1
    BY <1>2, <2>2 DEF HasSlot
  <2>4. u + 1 \in 1 .. Len(scope) + 1 <=> u + 1 <= Len(scope) + 1
    BY <2>1
  <2>5. u \in Nat
    BY ThreadAssumption
  <2> QED
    BY <2>1, <2>3, <2>4, <2>5
<1>4. CallTypes'
  BY <1>1, <1>3 DEF CallInv, CallTypes, Annotating, Call
<1>5. SlotsFollowStarts'
  <2> SUFFICES ASSUME ~overtaken, \A u \in Threads : u < t => pc[u] # "none"
               PROVE  \A u \in Threads : HasSlot(u)' <=> pc'[u] \notin Before
    BY <1>1 DEF SlotsFollowStarts
  <2>1. \A u \in Threads : HasSlot(u) <=> pc[u] \notin Before
    BY DEF CallInv, SlotsFollowStarts
  <2>2. \A u \in Threads : pc[u] = "starting" => u = t
    BY <1>1 DEF ChargeInv, LockFollowsPlaces, Writing
  <2>3. \A u \in Threads : u < t => HasSlot(u)
    BY <1>3, <2>1, <2>2 DEF Before
  <2>4. ~HasSlot(t)
    BY <1>1, <2>1 DEF Before
  <2>5. t = Len(scope)
    <3>1. t >= Len(scope)
      BY <1>3, <2>4
    <3>2. CASE t = 0
      BY <1>3, <3>1, <3>2
    <3>3. CASE t # 0
      <4>1. t - 1 \in 0 .. t /\ t - 1 < t
        BY <1>3, <3>3
      <4>2. t - 1 \in Threads
        BY <4>1, ThreadAssumption
      <4>3. t - 1 + 1 <= Len(scope)
        BY <1>3, <2>3, <4>1, <4>2
      <4> QED
        BY <1>3, <3>1, <4>3
    <3> QED
      BY <3>2, <3>3
  <2>6. ASSUME NEW u \in Threads PROVE HasSlot(u)' <=> pc'[u] \notin Before
    <3>1. HasSlot(u)' <=> HasSlot(u) \/ u = t
      BY <1>3, <2>5
    <3> QED
      BY <1>1, <2>1, <3>1 DEF Before
  <2> QED
    BY <2>6
<1>6. ReadsAreCurrent' /\ IdsAreOwn'
  BY <1>1 DEF CallInv, ReadsAreCurrent, IdsAreOwn, Met
<1>7. StacksFollow'
  <2> SUFFICES ASSUME ~Met, NEW u \in Threads
               PROVE  /\ \A i \in DOMAIN open[u] : open[u][i].bbl \in DOMAIN bbl_hash
                      /\ HasSlot(u)' => scope'[u + 1] = StackOf(open[u], bbl_hash)
    BY <1>1 DEF StacksFollow, Met, StackOf
  <2>1. /\ \A i \in DOMAIN open[u] : open[u][i].bbl \in DOMAIN bbl_hash
        /\ HasSlot(u) => scope[u + 1] = StackOf(open[u], bbl_hash)
    BY DEF CallInv, StacksFollow
  <2>2. CASE HasSlot(u)
    BY <1>2, <1>3, <2>1, <2>2
  <2>3. CASE ~HasSlot(u) /\ HasSlot(u)'
    <3>1. u + 1 = Len(scope) + 1
      BY <1>3, <2>3
    <3>2. open[u] = << >>
      BY <2>3 DEF CallInv, CallTypes
    <3> QED
      BY <1>2, <2>1, <3>1, <3>2, StackEmpty
  <2> QED
    BY <2>1, <2>2, <2>3
<1>8. DepthFollows'
  BY <1>1 DEF CallInv, DepthFollows, OpenRegions, Met
<1>9. FailsOnlyAfterRace'
  BY <1>1 DEF CallInv, FailsOnlyAfterRace
<1> QED
  BY <1>4, <1>5, <1>6, <1>7, <1>8, <1>9 DEF CallInv

-----------------------------------------------------------------------------
(* Annotations. *)

\* An annotation that begins or ends has only read what it will write.
LEMMA CallEnterKeeps ==
  ASSUME CallInv, ChargeInv, NEW t \in Threads, HeadEnter(t) \/ TailEnter(t)
  PROVE  CallInv'
<1>1. PICK callback \in Annotating, call \in Calls :
        /\ AnnotationEnter(t, callback, call.bbl, call.isomp)
        /\ callback = "tail" => open[t] # << >> /\ call = Last(open[t])
  <2>1. CASE HeadEnter(t)
    <3>1. PICK b \in Bbls, isomp \in BOOLEAN : AnnotationEnter(t, "head", b, isomp)
      BY <2>1 DEF HeadEnter
    <3>2. PICK call : call = [bbl |-> b, isomp |-> isomp]
      OBVIOUS
    <3>3. call \in Calls /\ call.bbl = b /\ call.isomp = isomp
      BY <3>2 DEF Calls
    <3> QED
      BY <3>1, <3>3 DEF Annotating
  <2>2. CASE TailEnter(t)
    <3>1. /\ open[t] # << >> /\ open[t] \in Seq(Calls)
          /\ AnnotationEnter(t, "tail", Last(open[t]).bbl, Last(open[t]).isomp)
      BY <2>2 DEF TailEnter, CallInv, CallTypes
    <3>2. Last(open[t]) \in Calls
      BY <3>1 DEF Last
    <3> QED
      BY <3>1, <3>2 DEF Annotating
  <2> QED
    BY <2>1, <2>2
<1>2. DOMAIN pc = Threads /\ DOMAIN seen = Threads
  BY DEF ChargeInv, LockTypeOK
<1>3. /\ pc[t] = "running" /\ pc' = [pc EXCEPT ![t] = callback] /\ HasSlot(t)
      /\ seen' = [seen EXCEPT ![t] =
                   [kind |-> "annotation", bbl |-> call.bbl, isomp |-> call.isomp,
                    known |-> call.bbl \in DOMAIN bbl_hash, size |-> bbl_size,
                    omp |-> in_omp_parallel]]
      /\ UNCHANGED <<scope, open, bbl_hash, bbl_size, in_omp_parallel, overtaken, failed>>
      /\ overlapped \subseteq overlapped'
      /\ (\E u \in Threads \ {t} : seen[u].kind = "annotation") => Met'
  BY <1>1 DEF AnnotationEnter, Enter, ReadLock, threadVars, bblVars, Met, Observing, Annotating
<1>4. /\ seen'[t].kind = "annotation" /\ Call(t)' = call
      /\ seen'[t].known = (call.bbl \in DOMAIN bbl_hash) /\ seen'[t].bbl = call.bbl
      /\ seen'[t].size = bbl_size /\ seen'[t].omp = in_omp_parallel
  BY <1>2, <1>3 DEF Call, Calls
<1>5. \A u \in Threads \ {t} : pc'[u] = pc[u] /\ seen'[u] = seen[u]
  BY <1>2, <1>3
<1>6. (\A u : HasSlot(u)' <=> HasSlot(u)) /\ (Met => Met')
  BY <1>3 DEF HasSlot, Met
<1>7. CallTypes'
  <2> SUFFICES ASSUME NEW u \in Threads
               PROVE  /\ ~HasSlot(u) => open[u] = << >>
                      /\ pc'[u] \in Annotating =>
                           seen'[u].kind = "annotation" /\ Call(u)' \in Calls /\ HasSlot(u)
                      /\ pc'[u] = "tail" => open[u] # << >> /\ Call(u)' = Last(open[u])
    BY <1>3, <1>6 DEF CallInv, CallTypes
  <2>1. CASE u = t
    BY <1>1, <1>2, <1>3, <1>4, <2>1
  <2>2. CASE u # t
    <3>1. Call(u)' = Call(u)
      BY <1>5, <2>2 DEF Call
    <3> QED
      BY <1>5, <2>2, <3>1 DEF CallInv, CallTypes
  <2>3. ~HasSlot(u) => open[u] = << >>
    BY DEF CallInv, CallTypes
  <2> QED
    BY <2>1, <2>2, <2>3
<1>8. SlotsFollowStarts'
  <2>1. callback \notin Before /\ pc[t] \notin Before
    BY <1>3 DEF Before, Annotating
  <2>2. \A u \in Threads : pc'[u] \in Before <=> pc[u] \in Before
    BY <1>2, <1>3, <2>1
  <2> QED
    BY <1>3, <1>6, <2>2 DEF CallInv, SlotsFollowStarts
<1>9. ReadsAreCurrent'
  <2> SUFFICES ASSUME ~Met', NEW u \in Threads, seen'[u].kind = "annotation"
               PROVE  /\ \A v \in Threads : seen'[v].kind = "annotation" => v = u
                      /\ seen'[u].known = (seen'[u].bbl \in DOMAIN bbl_hash)
                      /\ seen'[u].size = bbl_size /\ seen'[u].omp = in_omp_parallel
    BY <1>3 DEF ReadsAreCurrent
  <2>1. u = t /\ \A v \in Threads : seen'[v].kind = "annotation" => v = t
    BY <1>3, <1>5
  <2> QED
    BY <1>4, <2>1
<1>10. IdsAreOwn' /\ StacksFollow' /\ DepthFollows'
  <2>1. IdsAreOwn'
    BY <1>3, <1>6 DEF CallInv, IdsAreOwn
  <2>2. StacksFollow'
    BY <1>3, <1>6 DEF CallInv, StacksFollow, StackOf
  <2>3. DepthFollows'
    BY <1>3, <1>6 DEF CallInv, DepthFollows, OpenRegions
  <2> QED
    BY <2>1, <2>2, <2>3
<1>11. FailsOnlyAfterRace'
  BY <1>3, <1>6 DEF CallInv, FailsOnlyAfterRace, Met
<1> QED
  BY <1>7, <1>8, <1>9, <1>10, <1>11 DEF CallInv

\* What leaving the callback of an annotation keeps, whatever it writes.
LEMMA CallLeaveFacts ==
  ASSUME CallInv, ChargeInv, NEW t \in Threads, pc[t] \in Annotating, ReadUnlock(t),
         NEW stack, scope' = [scope EXCEPT ![t + 1] = stack],
         NEW calls \in Seq(Calls), open' = [open EXCEPT ![t] = calls],
         UNCHANGED <<overlapped, overtaken>>
  PROVE  /\ CallTypes' /\ SlotsFollowStarts' /\ ReadsAreCurrent'
         /\ \A u \in Threads : HasSlot(u)' <=> HasSlot(u)
         /\ open'[t] = calls
         /\ \A u \in Threads \ {t} : open'[u] = open[u]
<1>1. /\ pc' = [pc EXCEPT ![t] = "running"] /\ seen' = [seen EXCEPT ![t] = Nothing]
      /\ DOMAIN pc = Threads /\ DOMAIN seen = Threads
      /\ open \in [Threads -> Seq(Calls)] /\ HasSlot(t) /\ seen[t].kind = "annotation"
  BY DEF ReadUnlock, ChargeInv, LockTypeOK, CallInv, CallTypes
<1>2. \A u : HasSlot(u)' <=> HasSlot(u)
  BY DEF HasSlot
<1>3. /\ open' \in [Threads -> Seq(Calls)]
      /\ open'[t] = calls /\ \A u \in Threads \ {t} : open'[u] = open[u]
  BY <1>1
<1>4. /\ pc'[t] = "running" /\ seen'[t].kind = "nothing"
      /\ \A u \in Threads \ {t} : pc'[u] = pc[u] /\ seen'[u] = seen[u]
  BY <1>1 DEF Nothing
<1>5. CallTypes'
  <2> SUFFICES ASSUME NEW u \in Threads
               PROVE  /\ ~HasSlot(u) => open'[u] = << >>
                      /\ pc'[u] \in Annotating =>
                           seen'[u].kind = "annotation" /\ Call(u)' \in Calls /\ HasSlot(u)
                      /\ pc'[u] = "tail" => open'[u] # << >> /\ Call(u)' = Last(open'[u])
    BY <1>2, <1>3 DEF CallTypes
  <2>1. CASE u = t
    BY <1>1, <1>4, <2>1 DEF Annotating
  <2>2. CASE u # t
    <3>1. Call(u)' = Call(u)
      BY <1>4, <2>2 DEF Call
    <3> QED
      BY <1>3, <1>4, <2>2, <3>1 DEF CallInv, CallTypes
  <2> QED
    BY <2>1, <2>2
<1>6. SlotsFollowStarts'
  <2>1. \A u \in Threads : pc'[u] \in Before <=> pc[u] \in Before
    BY <1>1 DEF Before, Annotating
  <2> QED
    BY <1>2, <2>1 DEF CallInv, SlotsFollowStarts
<1>7. ReadsAreCurrent'
  <2>1. ~Met' => \A u \in Threads : seen'[u].kind # "annotation"
    BY <1>1, <1>4 DEF CallInv, ReadsAreCurrent, Met
  <2> QED
    BY <2>1 DEF ReadsAreCurrent
<1> QED
  BY <1>2, <1>3, <1>5, <1>6, <1>7

\* An open region is a pair of a thread and the place of a call of a parallel region.
LEMMA RegionPairs ==
  \A x : x \in OpenRegions <=>
    \E t \in Threads : \E i \in DOMAIN open[t] : open[t][i].isomp /\ x = <<t, i>>
BY DEF OpenRegions

\* A block begun adds a pair if it is of a parallel region, and a block that ends
\* takes it away.
LEMMA RegionPushed ==
  ASSUME CallTypes, NEW t \in Threads, NEW call \in Calls,
         open'[t] = Append(open[t], call), \A u \in Threads \ {t} : open'[u] = open[u]
  PROVE  /\ call.isomp => OpenRegions' = OpenRegions \cup {<<t, Len(open[t]) + 1>>}
         /\ ~call.isomp => OpenRegions' = OpenRegions
         /\ <<t, Len(open[t]) + 1>> \notin OpenRegions
<1> DEFINE n == Len(open[t])
<1>1. /\ n \in Nat /\ DOMAIN open[t] = 1 .. n /\ DOMAIN open'[t] = 1 .. n + 1
      /\ open'[t][n + 1] = call /\ \A i \in 1 .. n : open'[t][i] = open[t][i]
  BY DEF CallTypes
<1> HIDE DEF n
<1>2. \A x : x \in OpenRegions' <=>
        \E u \in Threads : \E i \in DOMAIN open'[u] : open'[u][i].isomp /\ x = <<u, i>>
  BY DEF OpenRegions
<1>3. \A i \in 1 .. n + 1 : i = n + 1 \/ i \in 1 .. n
  BY <1>1
<1>4. n + 1 \in 1 .. n + 1 /\ n + 1 \notin 1 .. n /\ \A i \in 1 .. n : i \in 1 .. n + 1
  BY <1>1
<1>5. <<t, n + 1>> \notin OpenRegions
  BY <1>1, <1>4, RegionPairs
<1>6. \A x : x \in OpenRegions' <=> x \in OpenRegions \/ (call.isomp /\ x = <<t, n + 1>>)
  <2>1. ASSUME NEW u \in Threads, NEW i \in DOMAIN open'[u], open'[u][i].isomp
        PROVE  <<u, i>> \in OpenRegions \/ (call.isomp /\ <<u, i>> = <<t, n + 1>>)
    BY <1>1, <1>3, <2>1, RegionPairs
  <2>2. ASSUME NEW u \in Threads, NEW i \in DOMAIN open[u], open[u][i].isomp
        PROVE  i \in DOMAIN open'[u] /\ open'[u][i].isomp
    BY <1>1, <1>4, <2>2
  <2>3. call.isomp => n + 1 \in DOMAIN open'[t] /\ open'[t][n + 1].isomp
    BY <1>1, <1>4
  <2> QED
    BY <1>2, <2>1, <2>2, <2>3, RegionPairs
<1>7. /\ call.isomp => OpenRegions' = OpenRegions \cup {<<t, n + 1>>}
      /\ ~call.isomp => OpenRegions' = OpenRegions
  BY <1>6
<1> QED
  BY <1>5, <1>7 DEF n

\* A call that ends takes its region from the open ones, if it was parallel.
LEMMA RegionPopped ==
  ASSUME CallTypes, NEW t \in Threads, open[t] # << >>,
         open'[t] = Front(open[t]), \A u \in Threads \ {t} : open'[u] = open[u]
  PROVE  /\ Last(open[t]).isomp => /\ OpenRegions' = OpenRegions \ {<<t, Len(open[t])>>}
                                   /\ <<t, Len(open[t])>> \in OpenRegions
         /\ ~Last(open[t]).isomp => OpenRegions' = OpenRegions
<1> DEFINE n == Len(open[t])
           call == Last(open[t])
<1>1. /\ n \in Nat /\ n # 0 /\ DOMAIN open[t] = 1 .. n /\ DOMAIN open'[t] = 1 .. n - 1
      /\ open[t][n] = call /\ \A i \in 1 .. n - 1 : open'[t][i] = open[t][i]
  <2>1. open[t] \in Seq(Calls) /\ n \in Nat /\ n # 0 /\ DOMAIN open[t] = 1 .. n
    BY DEF CallTypes
  <2>2. n - 1 \in 0 .. n
    BY <2>1
  <2> QED
    BY <2>1, <2>2 DEF Front, Last
<1> HIDE DEF n, call
<1>2. \A x : x \in OpenRegions' <=>
        \E u \in Threads : \E i \in DOMAIN open'[u] : open'[u][i].isomp /\ x = <<u, i>>
  BY DEF OpenRegions
<1>3. \A i \in 1 .. n : i = n \/ i \in 1 .. n - 1
  BY <1>1
<1>4. n \in 1 .. n /\ n \notin 1 .. n - 1 /\ \A i \in 1 .. n - 1 : i \in 1 .. n
  BY <1>1
<1>5. call.isomp => <<t, n>> \in OpenRegions
  BY <1>1, <1>4, RegionPairs
<1>6. ~call.isomp => <<t, n>> \notin OpenRegions
  BY <1>1, RegionPairs
<1>7. \A x : x \in OpenRegions' <=> x \in OpenRegions /\ x # <<t, n>>
  <2>1. ASSUME NEW u \in Threads, NEW i \in DOMAIN open'[u], open'[u][i].isomp
        PROVE  <<u, i>> \in OpenRegions /\ <<u, i>> # <<t, n>>
    BY <1>1, <1>4, <2>1, RegionPairs
  <2>2. ASSUME NEW u \in Threads, NEW i \in DOMAIN open[u], open[u][i].isomp, <<u, i>> # <<t, n>>
        PROVE  i \in DOMAIN open'[u] /\ open'[u][i].isomp
    BY <1>1, <1>3, <2>2
  <2> QED
    BY <1>2, <2>1, <2>2, RegionPairs
<1>8. /\ call.isomp => OpenRegions' = OpenRegions \ {<<t, n>>}
      /\ ~call.isomp => OpenRegions' = OpenRegions
  BY <1>6, <1>7
<1> QED
  BY <1>5, <1>8 DEF n, call

\* A block begun is given the next id unless it has one, and its id is pushed.
LEMMA HeadKeeps ==
  ASSUME CallInv, ChargeInv, RegionInv, NEW t \in Threads, DoAtAnnotationHead(t)
  PROVE  CallInv'
<1> DEFINE call == Call(t)
           id == IdOf(t)
<1>1. /\ pc[t] \in Annotating /\ ReadUnlock(t) /\ AddBbl(t)
      /\ in_omp_parallel' = OmpAfter(t, 1)
      /\ scope' = [scope EXCEPT ![t + 1] = Append(scope[t + 1], id)]
      /\ open' = [open EXCEPT ![t] = Append(open[t], call)]
      /\ UNCHANGED <<failed, overlapped, overtaken>>
  BY DEF DoAtAnnotationHead, Annotating, Call
<1>2. /\ call \in Calls /\ call.bbl = seen[t].bbl /\ call.isomp = seen[t].isomp
      /\ HasSlot(t) /\ seen[t].kind = "annotation"
      /\ open \in [Threads -> Seq(Calls)]
  BY <1>1 DEF CallInv, CallTypes, Call
<1>3. Append(open[t], call) \in Seq(Calls)
  BY <1>2
<1>4. /\ CallTypes' /\ SlotsFollowStarts' /\ ReadsAreCurrent'
      /\ \A u \in Threads : HasSlot(u)' <=> HasSlot(u)
      /\ open'[t] = Append(open[t], call)
      /\ \A u \in Threads \ {t} : open'[u] = open[u]
  <2> HIDE DEF call, id
  <2> QED
    BY <1>1, <1>3, CallLeaveFacts
<1>5. Met' <=> Met
  BY <1>1 DEF Met
<1>6. ASSUME ~Met
      PROVE  /\ bbl_size' \in Nat /\ bbl_hash' \in [DOMAIN bbl_hash' -> Nat]
             /\ \A b \in DOMAIN bbl_hash' : bbl_hash'[b] < bbl_size'
             /\ \A b, c \in DOMAIN bbl_hash' : bbl_hash'[b] = bbl_hash'[c] => b = c
             /\ \A b \in DOMAIN bbl_hash : b \in DOMAIN bbl_hash' /\ bbl_hash'[b] = bbl_hash[b]
             /\ call.bbl \in DOMAIN bbl_hash' /\ bbl_hash'[call.bbl] = id
  <2>1. /\ seen[t].known = (call.bbl \in DOMAIN bbl_hash) /\ seen[t].size = bbl_size
        /\ bbl_size \in Nat /\ bbl_hash \in [DOMAIN bbl_hash -> Nat]
        /\ \A b \in DOMAIN bbl_hash : bbl_hash[b] < bbl_size
        /\ \A b, c \in DOMAIN bbl_hash : bbl_hash[b] = bbl_hash[c] => b = c
    BY <1>2, <1>6 DEF CallInv, ReadsAreCurrent, IdsAreOwn
  <2>2. CASE call.bbl \in DOMAIN bbl_hash
    BY <1>1, <1>2, <2>1, <2>2 DEF AddBbl, IdOf
  <2>3. CASE call.bbl \notin DOMAIN bbl_hash
    <3>1. /\ bbl_hash' = [b \in (DOMAIN bbl_hash) \cup {call.bbl} |->
                            IF b = call.bbl THEN bbl_size ELSE bbl_hash[b]]
          /\ bbl_size' = bbl_size + 1 /\ id = bbl_size
      BY <1>1, <1>2, <2>1, <2>3 DEF AddBbl, IdOf
    <3>2. /\ DOMAIN bbl_hash' = (DOMAIN bbl_hash) \cup {call.bbl}
          /\ bbl_hash'[call.bbl] = bbl_size
          /\ \A b \in DOMAIN bbl_hash : bbl_hash'[b] = bbl_hash[b] /\ bbl_hash[b] \in Nat
      BY <2>1, <2>3, <3>1
    <3>3. bbl_hash' \in [DOMAIN bbl_hash' -> Nat]
      BY <2>1, <3>1, <3>2
    <3>4. \A b \in DOMAIN bbl_hash' : bbl_hash'[b] < bbl_size'
      BY <2>1, <3>1, <3>2
    <3>5. \A b, c \in DOMAIN bbl_hash' : bbl_hash'[b] = bbl_hash'[c] => b = c
      BY <2>1, <3>2
    <3> QED
      BY <2>1, <3>1, <3>2, <3>3, <3>4, <3>5
  <2> QED
    BY <2>2, <2>3
<1>7. IdsAreOwn'
  BY <1>5, <1>6 DEF IdsAreOwn
<1>8. StacksFollow'
  <2> SUFFICES ASSUME ~Met, NEW u \in Threads
               PROVE  /\ \A i \in DOMAIN open'[u] : open'[u][i].bbl \in DOMAIN bbl_hash'
                      /\ HasSlot(u) => scope'[u + 1] = StackOf(open'[u], bbl_hash')
    BY <1>4, <1>5 DEF StacksFollow, StackOf
  <2>1. /\ \A i \in DOMAIN open[u] : open[u][i].bbl \in DOMAIN bbl_hash
        /\ HasSlot(u) => scope[u + 1] = StackOf(open[u], bbl_hash)
    BY DEF CallInv, StacksFollow
  <2>2. HasSlot(u) => u + 1 \in DOMAIN scope /\ (u + 1 = t + 1 => u = t)
    BY ThreadAssumption DEF HasSlot
  <2>3. StackOf(open[u], bbl_hash') = StackOf(open[u], bbl_hash)
    BY <1>6, <2>1, StackKeeps
  <2>4. CASE u = t
    <3>1. \A i \in DOMAIN open'[t] : open'[t][i] = call \/ \E j \in DOMAIN open[t] : open'[t][i] = open[t][j]
      <4>1. /\ DOMAIN open[t] = 1 .. Len(open[t]) /\ Len(open[t]) \in Nat
            /\ DOMAIN open'[t] = 1 .. Len(open[t]) + 1 /\ open'[t][Len(open[t]) + 1] = call
            /\ \A i \in 1 .. Len(open[t]) : open'[t][i] = open[t][i]
        BY <1>2, <1>3, <1>4
      <4> QED
        BY <4>1
    <3>2. \A i \in DOMAIN open'[t] : open'[t][i].bbl \in DOMAIN bbl_hash'
      BY <1>6, <2>1, <2>4, <3>1
    <3>3. Known(Append(open[t], call), bbl_hash')
      BY <1>4, <1>6, <3>2 DEF Known
    <3>4. open[t] \in Seq(Calls) /\ call \in Calls
      BY <1>2
    <3>5. StackOf(Append(open[t], call), bbl_hash') = Append(StackOf(open[t], bbl_hash'), bbl_hash'[call.bbl])
      <4> HIDE DEF call
      <4> QED
        BY <3>3, <3>4, StackPush
    <3>6. scope'[t + 1] = Append(scope[t + 1], id)
      BY <1>1, <1>2 DEF HasSlot
    <3>7. scope'[t + 1] = StackOf(open'[t], bbl_hash')
      <4>1. scope[t + 1] = StackOf(open[t], bbl_hash')
        BY <1>2, <2>1, <2>3, <2>4
      <4>2. bbl_hash'[call.bbl] = id
        BY <1>6
      <4>3. StackOf(open'[t], bbl_hash') = Append(StackOf(open[t], bbl_hash'), id)
        BY <1>4, <3>5, <4>2
      <4> QED
        BY <3>6, <4>1, <4>3
    <3> QED
      BY <2>4, <3>2, <3>7
  <2>5. CASE u # t
    <3>1. HasSlot(u) => scope'[u + 1] = scope[u + 1]
      BY <1>1, <2>2, <2>5
    <3> QED
      BY <1>4, <1>6, <2>1, <2>3, <2>5, <3>1
  <2> QED
    BY <2>4, <2>5
<1>9. DepthFollows'
  <2> SUFFICES ASSUME ~Met
               PROVE  /\ IsFiniteSet(OpenRegions') /\ in_omp_parallel' \in Int
                      /\ in_omp_parallel' = Cardinality(OpenRegions')
    BY <1>5 DEF DepthFollows
  <2>1. /\ IsFiniteSet(OpenRegions) /\ in_omp_parallel \in Int
        /\ in_omp_parallel = Cardinality(OpenRegions) /\ seen[t].omp = in_omp_parallel
    BY <1>2 DEF CallInv, DepthFollows, ReadsAreCurrent
  <2>2. /\ call.isomp => OpenRegions' = OpenRegions \cup {<<t, Len(open[t]) + 1>>}
        /\ ~call.isomp => OpenRegions' = OpenRegions
        /\ <<t, Len(open[t]) + 1>> \notin OpenRegions
    <3> HIDE DEF call
    <3> QED
      BY <1>2, <1>4, RegionPushed DEF CallInv
  <2>3. CASE call.isomp
    <3>1. in_omp_parallel' = in_omp_parallel + 1
      BY <1>1, <1>2, <2>1, <2>3 DEF OmpAfter
    <3>2. /\ IsFiniteSet(OpenRegions \cup {<<t, Len(open[t]) + 1>>})
          /\ Cardinality(OpenRegions \cup {<<t, Len(open[t]) + 1>>}) = Cardinality(OpenRegions) + 1
      BY <2>1, <2>2, FS_AddElement
    <3>3. OpenRegions' = OpenRegions \cup {<<t, Len(open[t]) + 1>>}
      BY <2>2, <2>3
    <3>4. IsFiniteSet(OpenRegions') /\ Cardinality(OpenRegions') = Cardinality(OpenRegions) + 1
      BY <3>2, <3>3
    <3> QED
      BY <2>1, <3>1, <3>4
  <2>4. CASE ~call.isomp
    BY <1>1, <1>2, <2>1, <2>2, <2>4 DEF OmpAfter
  <2> QED
    BY <2>3, <2>4
<1>10. FailsOnlyAfterRace'
  BY <1>1 DEF CallInv, FailsOnlyAfterRace
<1> QED
  BY <1>4, <1>7, <1>8, <1>9, <1>10 DEF CallInv

\* The block that ends is the one on top, so the assertion holds; its id is popped.
LEMMA TailKeeps ==
  ASSUME CallInv, ChargeInv, RegionInv, NEW t \in Threads, DoAtAnnotationTail(t)
  PROVE  CallInv'
<1> DEFINE call == Last(open[t])
<1>1. /\ pc[t] = "tail" /\ pc[t] \in Annotating /\ ReadUnlock(t)
      /\ in_omp_parallel' = OmpAfter(t, -1)
      /\ failed' = (failed \/ Last(scope[t + 1]) # bbl_hash[seen[t].bbl])
      /\ scope' = [scope EXCEPT ![t + 1] = Front(scope[t + 1])]
      /\ open' = [open EXCEPT ![t] = Front(open[t])]
      /\ UNCHANGED <<bbl_hash, bbl_size, overlapped, overtaken>>
  BY DEF DoAtAnnotationTail, Annotating
<1>2. /\ open[t] # << >> /\ call.bbl = seen[t].bbl /\ call.isomp = seen[t].isomp
      /\ HasSlot(t) /\ seen[t].kind = "annotation"
      /\ open \in [Threads -> Seq(Calls)] /\ open[t] \in Seq(Calls)
  BY <1>1 DEF CallInv, CallTypes, Call
<1>3. /\ Len(open[t]) \in Nat /\ Len(open[t]) # 0 /\ DOMAIN open[t] = 1 .. Len(open[t])
      /\ Front(open[t]) \in Seq(Calls)
      /\ DOMAIN Front(open[t]) = 1 .. Len(open[t]) - 1
      /\ \A i \in 1 .. Len(open[t]) - 1 : Front(open[t])[i] = open[t][i]
  <2>1. Len(open[t]) \in Nat /\ Len(open[t]) # 0 /\ DOMAIN open[t] = 1 .. Len(open[t])
    BY <1>2
  <2>2. Len(open[t]) - 1 \in 0 .. Len(open[t])
    BY <2>1
  <2> QED
    BY <1>2, <2>1, <2>2 DEF Front
<1>4. /\ CallTypes' /\ SlotsFollowStarts' /\ ReadsAreCurrent'
      /\ \A u \in Threads : HasSlot(u)' <=> HasSlot(u)
      /\ open'[t] = Front(open[t])
      /\ \A u \in Threads \ {t} : open'[u] = open[u]
  BY <1>1, <1>3, CallLeaveFacts
<1>5. Met' <=> Met
  BY <1>1 DEF Met
<1>6. IdsAreOwn'
  BY <1>1, <1>5 DEF CallInv, IdsAreOwn
<1>7. ASSUME ~Met
      PROVE  /\ Last(scope[t + 1]) = bbl_hash[call.bbl]
             /\ Front(scope[t + 1]) = StackOf(Front(open[t]), bbl_hash)
  <2>1. /\ \A i \in DOMAIN open[t] : open[t][i].bbl \in DOMAIN bbl_hash
        /\ scope[t + 1] = StackOf(open[t], bbl_hash)
        /\ bbl_hash \in [DOMAIN bbl_hash -> Nat]
    BY <1>2, <1>7 DEF CallInv, StacksFollow, IdsAreOwn
  <2>2. PICK o, ids : o = open[t] /\ ids = bbl_hash
    OBVIOUS
  <2>3. o \in Seq(Calls) /\ o # << >> /\ Known(o, ids)
    BY <1>2, <2>1, <2>2 DEF Known
  <2>4. /\ Last(StackOf(o, ids)) = ids[Last(o).bbl]
        /\ Front(StackOf(o, ids)) = StackOf(Front(o), ids)
    BY <2>3, StackPop
  <2> QED
    BY <2>1, <2>2, <2>4
<1>8. StacksFollow'
  <2> SUFFICES ASSUME ~Met, NEW u \in Threads
               PROVE  /\ \A i \in DOMAIN open'[u] : open'[u][i].bbl \in DOMAIN bbl_hash'
                      /\ HasSlot(u) => scope'[u + 1] = StackOf(open'[u], bbl_hash')
    BY <1>4, <1>5 DEF StacksFollow, StackOf
  <2>1. /\ \A i \in DOMAIN open[u] : open[u][i].bbl \in DOMAIN bbl_hash
        /\ HasSlot(u) => scope[u + 1] = StackOf(open[u], bbl_hash)
    BY DEF CallInv, StacksFollow
  <2>2. HasSlot(u) => u + 1 \in DOMAIN scope /\ (u + 1 = t + 1 => u = t)
    BY ThreadAssumption DEF HasSlot
  <2>3. CASE u = t
    <3>1. \A i \in DOMAIN open'[t] : open'[t][i].bbl \in DOMAIN bbl_hash'
      BY <1>1, <1>3, <1>4, <2>1, <2>3
    <3>2. scope'[t + 1] = Front(scope[t + 1])
      BY <1>1, <1>2 DEF HasSlot
    <3> QED
      BY <1>1, <1>4, <1>7, <2>3, <3>1, <3>2
  <2>4. CASE u # t
    <3>1. HasSlot(u) => scope'[u + 1] = scope[u + 1]
      BY <1>1, <2>2, <2>4
    <3> QED
      BY <1>1, <1>4, <2>1, <2>4, <3>1
  <2> QED
    BY <2>3, <2>4
<1>9. DepthFollows'
  <2> SUFFICES ASSUME ~Met
               PROVE  /\ IsFiniteSet(OpenRegions') /\ in_omp_parallel' \in Int
                      /\ in_omp_parallel' = Cardinality(OpenRegions')
    BY <1>5 DEF DepthFollows
  <2>1. /\ IsFiniteSet(OpenRegions) /\ in_omp_parallel \in Int
        /\ in_omp_parallel = Cardinality(OpenRegions) /\ seen[t].omp = in_omp_parallel
    BY <1>2 DEF CallInv, DepthFollows, ReadsAreCurrent
  <2>2. /\ call.isomp => /\ OpenRegions' = OpenRegions \ {<<t, Len(open[t])>>}
                         /\ <<t, Len(open[t])>> \in OpenRegions
        /\ ~call.isomp => OpenRegions' = OpenRegions
    <3> HIDE DEF call
    <3> QED
      BY <1>2, <1>4, RegionPopped DEF CallInv, call
  <2>3. CASE call.isomp
    <3>1. in_omp_parallel' = in_omp_parallel - 1
      BY <1>1, <1>2, <2>1, <2>3 DEF OmpAfter
    <3>2. /\ IsFiniteSet(OpenRegions \ {<<t, Len(open[t])>>})
          /\ Cardinality(OpenRegions \ {<<t, Len(open[t])>>}) = Cardinality(OpenRegions) - 1
      BY <2>1, <2>2, <2>3, FS_RemoveElement
    <3>3. OpenRegions' = OpenRegions \ {<<t, Len(open[t])>>}
      BY <2>2, <2>3
    <3>4. IsFiniteSet(OpenRegions') /\ Cardinality(OpenRegions') = Cardinality(OpenRegions) - 1
      BY <3>2, <3>3
    <3> QED
      BY <2>1, <3>1, <3>4
  <2>4. CASE ~call.isomp
    BY <1>1, <1>2, <2>1, <2>2, <2>4 DEF OmpAfter
  <2> QED
    BY <2>3, <2>4
<1>10. FailsOnlyAfterRace'
  BY <1>1, <1>2, <1>7 DEF CallInv, FailsOnlyAfterRace, Met
<1> QED
  BY <1>4, <1>6, <1>8, <1>9, <1>10 DEF CallInv

\* Every callback keeps the stacks, the ids and the depth in line with the calls.
LEMMA CallStep == CallInv /\ ChargeInv /\ CostInv /\ RegionInv /\ [Next]_vars => CallInv'
<1> SUFFICES ASSUME CallInv, ChargeInv, CostInv, RegionInv, [Next]_vars PROVE CallInv'
  OBVIOUS
<1>1. ASSUME NEW t \in Threads, ThreadStep(t) PROVE CallInv'
  BY <1>1, CallLocksKeep, CallStartKeeps DEF ThreadStep
<1>2. ASSUME NEW t \in Threads, OutOfBounds(t) PROVE CallInv'
  BY <1>2, CallFailuresKeep
<1>3. ASSUME NEW t \in Threads, HandleMagic(t) PROVE CallInv'
  BY <1>3, CallEnterKeeps, HeadKeeps, TailKeeps, CallFailuresKeep, CallOthersKeep DEF HandleMagic
<1>4. ASSUME NEW t \in Threads, InstructionStep(t) PROVE CallInv'
  BY <1>4, CallOthersKeep DEF InstructionStep
<1>5. CASE UNCHANGED vars
  BY <1>5, QuietKeepsCalls DEF vars, lockVars, threadVars, bblVars, history
<1> QED
  BY <1>1, <1>2, <1>3, <1>4, <1>5 DEF Next

-----------------------------------------------------------------------------
(* What follows. *)

\* The inductive invariant of the annotations.
THEOREM CallInvariant == Spec => []CallInv
BY CallInit, CallStep, RegionInvariant, ChargeInvariant, CostInvariant, PTL DEF Spec

\* No vector is left, no storage used that has moved and no assertion fails before a
\* thread overtakes another one's start, two annotations meet or a new block meets a
\* charge (PinInstrument.cpp:86-157, 376-389, CostPackage.cpp:24-56).
THEOREM FailuresTheorem == Spec => []FailsOnlyAfterRace
BY CallInvariant, PTL DEF CallInv

\* Until two annotations meet, the depth of parallel regions is the number of those
\* open, blocks have ids of their own and every slot holds the ids of the calls that
\* its thread has open (PinInstrument.cpp:88-115, 142-157).
THEOREM AnnotationsTheorem == Spec => []AnnotationsFollowCalls
<1>1. CallInv => AnnotationsFollowCalls
  BY DEF CallInv, IdsAreOwn, StacksFollow, DepthFollows, AnnotationsFollowCalls, StackOf, Met
<1> QED
  BY <1>1, CallInvariant, PTL
=============================================================================
