-------------------------- MODULE ThreadStats_proofs --------------------------
(***************************************************************************)
(* Proofs about the collector and the report that is made of it, for any   *)
(* number of threads, blocks and tags, any bounds, addresses and choice of *)
(* the blocks that are offloaded: the types of the collector's state, its  *)
(* stacks, the path of switches and the trie, which counts the segments of *)
(* the lines' accesses, and the blocks and counters that are reported.     *)
(***************************************************************************)
EXTENDS ProfileReport, FiniteSums, FiniteSetTheorems, SequenceTheorems, TLAPS

\* A push can be read back and a pop undoes it: the two stacks of a ThreadStats
\* are vectors used through back(), push_back() and pop_back().
LEMMA PushFacts ==
  ASSUME NEW S, NEW s \in Seq(S), NEW e \in S
  PROVE  /\ Append(s, e) \in Seq(S)
         /\ Len(Append(s, e)) = Len(s) + 1
         /\ Top(Append(s, e)) = e
         /\ \A i \in 1 .. Len(s) : Append(s, e)[i] = s[i]
BY DEF Top

\* pop_back() drops the last element of a nonempty vector and nothing else.
LEMMA PopFacts ==
  ASSUME NEW S, NEW s \in Seq(S)
  PROVE  /\ Pop(s) \in Seq(S)
         /\ Len(s) > 0 => Len(Pop(s)) = Len(s) - 1
         /\ \A i \in 1 .. Len(s) - 1 : Pop(s)[i] = s[i]
<1> DEFINE n == Len(s) - 1
<1>1. n \in Int /\ \A i \in 1 .. n : s[i] \in S
  OBVIOUS
<1>2. Len(s) > 0 => n >= 0
  OBVIOUS
<1>3. Pop(s) = SubSeq(s, 1, n) /\ Len(s) - 1 = n
  BY DEF Pop
<1> HIDE DEF n
<1>4. /\ SubSeq(s, 1, n) \in Seq(S)
      /\ Len(SubSeq(s, 1, n)) = IF 1 <= n THEN n - 1 + 1 ELSE 0
      /\ \A i \in 1 .. n - 1 + 1 : SubSeq(s, 1, n)[i] = s[1 + i - 1]
  BY <1>1, SubSeqProperties
<1>5. \A i \in 1 .. n : SubSeq(s, 1, n)[i] = s[i]
  <2> SUFFICES ASSUME NEW i \in 1 .. n PROVE SubSeq(s, 1, n)[i] = s[i]
    OBVIOUS
  <2>1. i \in 1 .. n - 1 + 1 /\ 1 + i - 1 = i
    BY <1>1
  <2> QED
    BY <1>4, <2>1
<1>6. Len(s) > 0 => Len(SubSeq(s, 1, n)) = n
  BY <1>1, <1>2, <1>4
<1> QED
  BY <1>3, <1>4, <1>5, <1>6

\* A counter in a table of counters is a counter after it is incremented.
LEMMA BumpFacts ==
  ASSUME NEW A, NEW B, NEW f \in [A -> [B -> Nat]], NEW a \in A, NEW b \in B
  PROVE  [f EXCEPT ![a][b] = @ + 1] \in [A -> [B -> Nat]]
OBVIOUS

-----------------------------------------------------------------------------
(* Type correctness of the state that calls change. *)

\* BBLStart keeps the stack of blocks and the switch counts typed: the block it
\* counts a switch from is one that was started, or the placeholder.
LEMMA EnterBblTypes ==
  ASSUME CallTypeOK, NEW t \in Threads, NEW h \in Bbls, EnterBbl(t, h)
  PROVE  /\ stack' \in [Threads -> Seq(Hashes)]
         /\ last' \in [Threads -> Hashes \cup {Phantom}]
         /\ matrix' \in [Threads -> [(Hashes \cup {Phantom}) \X Hashes -> Nat]]
         /\ total' \in [Threads -> [Hashes \cup {Phantom} -> Nat]]
         /\ starts' \in [Threads -> [Hashes -> Nat]]
<1>1. h \in Hashes
  BY DEF Hashes
<1>2. last[t] \in Hashes \cup {Phantom}
  BY DEF CallTypeOK
<1>3. stack' \in [Threads -> Seq(Hashes)]
  <2>1. Append(stack[t], h) \in Seq(Hashes)
    BY <1>1, PushFacts DEF CallTypeOK
  <2> QED
    BY <2>1 DEF CallTypeOK, EnterBbl
<1>4. last' \in [Threads -> Hashes \cup {Phantom}]
  BY <1>1 DEF CallTypeOK, EnterBbl
<1>5. matrix' \in [Threads -> [(Hashes \cup {Phantom}) \X Hashes -> Nat]]
  <2>1. <<last[t], h>> \in (Hashes \cup {Phantom}) \X Hashes
    BY <1>1, <1>2
  <2> QED
    BY <2>1, BumpFacts DEF CallTypeOK, EnterBbl, SwitchFrom
<1>6. total' \in [Threads -> [Hashes \cup {Phantom} -> Nat]]
  BY <1>2, BumpFacts DEF CallTypeOK, EnterBbl, SwitchFrom
<1>7. starts' \in [Threads -> [Hashes -> Nat]]
  BY <1>1, BumpFacts DEF CallTypeOK, EnterBbl
<1> QED
  BY <1>3, <1>4, <1>5, <1>6, <1>7

\* BBLEnd leaves a stack of blocks, shorter by one or as it was.
LEMMA LeaveBblTypes ==
  ASSUME CallTypeOK, NEW t \in Threads, NEW h \in Bbls, LeaveBbl(t, h)
  PROVE  stack' \in [Threads -> Seq(Hashes)] /\ aborted' \in BOOLEAN
<1>1. Pop(stack[t]) \in Seq(Hashes)
  BY PopFacts DEF CallTypeOK
<1> QED
  BY <1>1 DEF CallTypeOK, LeaveBbl

\* The two crossing counts of Stats.h:239-246 only grow.
LEMMA CountSwitchTypes ==
  ASSUME CallTypeOK, NEW t \in Threads, NEW from, NEW to, CountSwitch(t, from, to)
  PROVE  cpu2pim' \in [Threads -> Nat] /\ pim2cpu' \in [Threads -> Nat]
<1>1. cpu2pim' \in [Threads -> Nat]
  BY DEF CallTypeOK, CountSwitch
<1>2. pim2cpu' \in [Threads -> Nat]
  BY DEF CallTypeOK, CountSwitch
<1> QED
  BY <1>1, <1>2

\* Every call but those of the four annotations leaves callVars alone.
LEMMA OtherSteps ==
  ASSUME NEW t \in Threads, TickStep(t) \/ ReuseStep(t)
  PROVE  UNCHANGED <<callVars, aborted>>
BY DEF TickStep, ReuseStep, AddTimeInstruction, AddMemory, AddCPUTime, AddOffloadingTime,
       InsertSegOnHit, SplitSegOnMiss

\* What the constructor sets up (Stats.h:129-151) is typed.
LEMMA CallTypeInit == Init => CallTypeOK
<1> SUFFICES ASSUME Init PROVE CallTypeOK
  OBVIOUS
<1>1. usingPim \in [Threads -> Seq(BOOLEAN)] /\ stack \in [Threads -> Seq(Hashes)]
  BY DEF Init, Hashes
<1>2. last \in [Threads -> Hashes \cup {Phantom}] /\ aborted \in BOOLEAN
  BY DEF Init
<1>3. matrix \in [Threads -> [(Hashes \cup {Phantom}) \X Hashes -> Nat]]
  BY DEF Init
<1>4. total \in [Threads -> [Hashes \cup {Phantom} -> Nat]] /\ starts \in [Threads -> [Hashes -> Nat]]
  BY DEF Init
<1>5. cpu2pim \in [Threads -> Nat] /\ pim2cpu \in [Threads -> Nat]
  BY DEF Init
<1> QED
  BY <1>1, <1>2, <1>3, <1>4, <1>5 DEF CallTypeOK

\* Every call of the collector keeps the state of the annotations typed.
LEMMA CallTypeStep == CallTypeOK /\ [Next]_vars => CallTypeOK'
<1> SUFFICES ASSUME CallTypeOK, [Next]_vars PROVE CallTypeOK'
  OBVIOUS
<1>1. ASSUME NEW t \in Threads, NEW h \in Bbls, BBLStart(t, h) PROVE CallTypeOK'
  BY <1>1, EnterBblTypes DEF BBLStart, CallTypeOK
<1>2. ASSUME NEW t \in Threads, NEW h \in Bbls, BBLEnd(t, h) PROVE CallTypeOK'
  <2>1. LeaveBbl(t, h) /\ UNCHANGED <<usingPim, cpu2pim, pim2cpu>>
    BY <1>2 DEF BBLEnd
  <2> QED
    BY <2>1, LeaveBblTypes DEF LeaveBbl, CallTypeOK
<1>3. ASSUME NEW t \in Threads, NEW h \in Bbls, NEW site \in Sites, OffloadStart(t, h, site)
      PROVE  CallTypeOK'
  <2>1. usingPim' \in [Threads -> Seq(BOOLEAN)]
    <3>1. Append(usingPim[t], site = "PIM") \in Seq(BOOLEAN)
      BY PushFacts DEF CallTypeOK
    <3> QED
      BY <1>3, <3>1 DEF OffloadStart, CallTypeOK
  <2>2. cpu2pim' \in [Threads -> Nat] /\ pim2cpu' \in [Threads -> Nat]
    BY <1>3, CountSwitchTypes DEF OffloadStart
  <2>3. EnterBbl(t, h) /\ aborted' = aborted
    BY <1>3 DEF OffloadStart
  <2> QED
    BY <2>1, <2>2, <2>3, EnterBblTypes DEF CallTypeOK
<1>4. ASSUME NEW t \in Threads, NEW h \in Bbls, NEW site \in Sites, OffloadEnd(t, h, site)
      PROVE  CallTypeOK'
  <2>1. CASE Top(usingPim[t]) # (site = "PIM")
    BY <1>4, <2>1 DEF OffloadEnd, CallTypeOK, callVars
  <2>2. CASE ~(Top(usingPim[t]) # (site = "PIM"))
    <3>1. /\ usingPim' = [usingPim EXCEPT ![t] = Pop(@)]
          /\ \E after \in SiteAfterEnd(t) : CountSwitch(t, Top(usingPim[t]), after)
          /\ LeaveBbl(t, h)
      BY <1>4, <2>2 DEF OffloadEnd
    <3>2. Pop(usingPim[t]) \in Seq(BOOLEAN)
      BY PopFacts DEF CallTypeOK
    <3>3. usingPim' \in [Threads -> Seq(BOOLEAN)]
      BY <3>1, <3>2 DEF CallTypeOK
    <3>4. cpu2pim' \in [Threads -> Nat] /\ pim2cpu' \in [Threads -> Nat]
      BY <3>1, CountSwitchTypes
    <3>5. stack' \in [Threads -> Seq(Hashes)] /\ aborted' \in BOOLEAN
      BY <3>1, LeaveBblTypes
    <3> QED
      BY <3>1, <3>3, <3>4, <3>5 DEF LeaveBbl, CallTypeOK
  <2> QED
    BY <2>1, <2>2
<1>5. ASSUME NEW t \in Threads, TickStep(t) \/ ReuseStep(t) PROVE CallTypeOK'
  BY <1>5, OtherSteps DEF CallTypeOK, callVars
<1>6. CASE UNCHANGED vars
  BY <1>6 DEF vars, callVars, CallTypeOK
<1> QED
  BY <1>1, <1>2, <1>3, <1>4, <1>5, <1>6 DEF Next, CallStep

\* The stacks, the switch counts and the crossing counts of Stats.h:100-126 keep
\* their types in every step.
THEOREM CallTypeInvariant == Spec => []CallTypeOK
BY CallTypeInit, CallTypeStep, PTL DEF Spec

-----------------------------------------------------------------------------
(***************************************************************************)
(* The two stacks.  A block may be left only when it is on top, and the    *)
(* region outside main, which no annotation names, is at the bottom: it is *)
(* never left, so m_current_bblstats never runs empty, and m_using_pim,    *)
(* which has a site for each offloaded block on that stack, does so only   *)
(* in a call that aborts.                                                  *)
(***************************************************************************)
BottomStays == \A t \in Threads : Len(stack[t]) >= 1 /\ stack[t][1] = GLOBAL_BBLHASH

StackInv == CallTypeOK /\ BottomStays /\ SiteStackFollowsBlocks /\ CrossingsMatchSite

\* A stack of blocks has finitely many offloaded ones.
LEMMA OffloadedFinite ==
  ASSUME NEW s \in Seq(Hashes)
  PROVE  IsFiniteSet(OffloadedIn(s)) /\ Cardinality(OffloadedIn(s)) \in Nat
<1>1. OffloadedIn(s) \in SUBSET (1 .. Len(s))
  BY DEF OffloadedIn
<1>2. IsFiniteSet(1 .. Len(s))
  BY FS_Interval
<1>3. IsFiniteSet(OffloadedIn(s))
  BY <1>1, <1>2, FS_Subset
<1> QED
  BY <1>3, FS_CardinalityType

\* Starting a block adds one offloaded block to the stack if it is offloaded.
LEMMA OffloadedPush ==
  ASSUME NEW s \in Seq(Hashes), NEW h \in Hashes
  PROVE  Cardinality(OffloadedIn(Append(s, h)))
           = Cardinality(OffloadedIn(s)) + IF h \in Offloaded THEN 1 ELSE 0
<1> DEFINE n == Len(s) + 1
<1>1. /\ n \in Nat /\ n \notin DOMAIN s
      /\ DOMAIN Append(s, h) = (DOMAIN s) \cup {n}
      /\ Append(s, h)[n] = h
      /\ \A i \in DOMAIN s : Append(s, h)[i] = s[i]
  OBVIOUS
<1> HIDE DEF n
<1>2. n \notin OffloadedIn(s)
  BY <1>1 DEF OffloadedIn
<1>3. IsFiniteSet(OffloadedIn(s)) /\ Cardinality(OffloadedIn(s)) \in Nat
  BY OffloadedFinite
<1>4. CASE h \in Offloaded
  <2>1. OffloadedIn(Append(s, h)) = OffloadedIn(s) \cup {n}
    BY <1>1, <1>4 DEF OffloadedIn
  <2>2. Cardinality(OffloadedIn(s) \cup {n}) = Cardinality(OffloadedIn(s)) + 1
    BY <1>2, <1>3, FS_AddElement
  <2> QED
    BY <1>4, <2>1, <2>2
<1>5. CASE h \notin Offloaded
  <2>1. OffloadedIn(Append(s, h)) = OffloadedIn(s)
    BY <1>1, <1>5 DEF OffloadedIn
  <2> QED
    BY <1>3, <1>5, <2>1
<1> QED
  BY <1>4, <1>5

\* Leaving a block takes one offloaded block off the stack if it was offloaded.
LEMMA OffloadedPop ==
  ASSUME NEW s \in Seq(Hashes), Len(s) > 0
  PROVE  Cardinality(OffloadedIn(s))
           = Cardinality(OffloadedIn(Pop(s))) + IF Top(s) \in Offloaded THEN 1 ELSE 0
<1>1. Pop(s) \in Seq(Hashes) /\ Top(s) \in Hashes
  BY PopFacts DEF Top
<1>2. s = Append(Pop(s), Top(s))
  <2>1. Len(Pop(s)) = Len(s) - 1 /\ \A i \in 1 .. Len(s) - 1 : Pop(s)[i] = s[i]
    BY PopFacts
  <2> QED
    BY <1>1, <2>1 DEF Top
<1> QED
  BY <1>1, <1>2, OffloadedPush

\* What push and pop on the stack of blocks do to its bottom, its length and the
\* number of offloaded blocks on it.
LEMMA EnterBblStack ==
  ASSUME CallTypeOK, BottomStays, NEW t \in Threads, NEW h \in Bbls, EnterBbl(t, h)
  PROVE  /\ BottomStays'
         /\ Cardinality(OffloadedIn(stack'[t]))
              = Cardinality(OffloadedIn(stack[t])) + IF h \in Offloaded THEN 1 ELSE 0
         /\ \A u \in Threads \ {t} : stack'[u] = stack[u]
<1>1. stack'[t] = Append(stack[t], h) /\ \A u \in Threads \ {t} : stack'[u] = stack[u]
  BY DEF EnterBbl, CallTypeOK
<1>2. stack[t] \in Seq(Hashes) /\ h \in Hashes
  BY DEF CallTypeOK, Hashes
<1>3. Len(stack'[t]) = Len(stack[t]) + 1 /\ stack'[t][1] = stack[t][1]
  BY <1>1, <1>2, PushFacts DEF BottomStays
<1>4. Cardinality(OffloadedIn(stack'[t]))
        = Cardinality(OffloadedIn(stack[t])) + IF h \in Offloaded THEN 1 ELSE 0
  BY <1>1, <1>2, OffloadedPush
<1> QED
  BY <1>1, <1>2, <1>3, <1>4 DEF BottomStays

\* BBLEnd pops only a block that an annotation named, so never the bottom of the
\* stack, the region outside main.
LEMMA LeaveBblStack ==
  ASSUME CallTypeOK, BottomStays, NEW t \in Threads, NEW h \in Bbls, LeaveBbl(t, h)
  PROVE  /\ BottomStays'
         /\ ~aborted' =>
              Cardinality(OffloadedIn(stack[t]))
                = Cardinality(OffloadedIn(stack'[t])) + IF h \in Offloaded THEN 1 ELSE 0
         /\ \A u \in Threads \ {t} : stack'[u] = stack[u]
<1>1. stack[t] \in Seq(Hashes) /\ Len(stack[t]) \in Nat
  BY DEF CallTypeOK
<1>2. \A u \in Threads \ {t} : stack'[u] = stack[u]
  BY DEF LeaveBbl, CallTypeOK
<1>3. CASE h # GetCurrent(t)
  <2>1. aborted' /\ stack'[t] = stack[t]
    BY <1>3 DEF LeaveBbl, CallTypeOK
  <2> QED
    BY <1>2, <2>1 DEF BottomStays
<1>4. CASE h = GetCurrent(t)
  <2>1. stack'[t] = Pop(stack[t])
    BY <1>4 DEF LeaveBbl, CallTypeOK
  <2>2. h # GLOBAL_BBLHASH
    BY HashAssumption
  <2>3. Len(stack[t]) >= 2
    BY <1>1, <1>4, <2>2 DEF BottomStays, GetCurrent, Top
  <2>4. Len(stack'[t]) = Len(stack[t]) - 1 /\ stack'[t][1] = stack[t][1]
    BY <1>1, <2>1, <2>3, PopFacts
  <2>5. Top(stack[t]) = h /\ Len(stack[t]) > 0
    BY <1>1, <1>4, <2>3 DEF GetCurrent
  <2>6. Cardinality(OffloadedIn(stack[t]))
          = Cardinality(OffloadedIn(stack'[t])) + IF h \in Offloaded THEN 1 ELSE 0
    BY <1>1, <2>1, <2>5, OffloadedPop
  <2> QED
    BY <1>1, <1>2, <2>3, <2>4, <2>6 DEF BottomStays
<1> QED
  BY <1>3, <1>4

\* Counting a switch keeps the difference of the two crossing counts equal to
\* the site, whatever the sites are.
LEMMA CountSwitchDifference ==
  ASSUME CallTypeOK, NEW t \in Threads, NEW from \in BOOLEAN, NEW to \in BOOLEAN,
         CountSwitch(t, from, to),
         cpu2pim[t] - pim2cpu[t] = IF from THEN 1 ELSE 0
  PROVE  /\ cpu2pim'[t] - pim2cpu'[t] = IF to THEN 1 ELSE 0
         /\ \A u \in Threads \ {t} : cpu2pim'[u] = cpu2pim[u] /\ pim2cpu'[u] = pim2cpu[u]
<1>1. cpu2pim[t] \in Nat /\ pim2cpu[t] \in Nat
  BY DEF CallTypeOK
<1>2. /\ cpu2pim'[t] = cpu2pim[t] + (IF ~from /\ to THEN 1 ELSE 0)
      /\ pim2cpu'[t] = pim2cpu[t] + (IF from /\ ~to THEN 1 ELSE 0)
  BY DEF CountSwitch, CallTypeOK
<1>3. \A u \in Threads \ {t} : cpu2pim'[u] = cpu2pim[u] /\ pim2cpu'[u] = pim2cpu[u]
  BY DEF CountSwitch, CallTypeOK
<1> QED
  BY <1>1, <1>2, <1>3

\* A call that counts the switch to the site it leaves on top of m_using_pim
\* keeps the crossing counts of every thread in agreement with its site.
LEMMA CrossingStep ==
  ASSUME CallTypeOK, CrossingsMatchSite, ~aborted, NEW t \in Threads,
         Len(usingPim[t]) >= 1, NEW to \in BOOLEAN,
         CountSwitch(t, Top(usingPim[t]), to), Top(usingPim'[t]) = to,
         \A u \in Threads \ {t} : usingPim'[u] = usingPim[u]
  PROVE  CrossingsMatchSite'
<1>1. Top(usingPim[t]) \in BOOLEAN
  BY DEF Top, CallTypeOK
<1>2. \A u \in Threads : cpu2pim[u] - pim2cpu[u] = IF Top(usingPim[u]) THEN 1 ELSE 0
  BY DEF CrossingsMatchSite
<1>3. /\ cpu2pim'[t] - pim2cpu'[t] = IF to THEN 1 ELSE 0
      /\ \A u \in Threads \ {t} : cpu2pim'[u] = cpu2pim[u] /\ pim2cpu'[u] = pim2cpu[u]
  BY <1>1, <1>2, CountSwitchDifference
<1> SUFFICES ASSUME NEW u \in Threads
             PROVE  cpu2pim'[u] - pim2cpu'[u] = IF Top(usingPim'[u]) THEN 1 ELSE 0
  BY DEF CrossingsMatchSite
<1>4. CASE u = t
  BY <1>3, <1>4
<1>5. CASE u # t
  <2>1. usingPim'[u] = usingPim[u] /\ cpu2pim'[u] = cpu2pim[u] /\ pim2cpu'[u] = pim2cpu[u]
    BY <1>3, <1>5
  <2> QED
    BY <1>2, <2>1 DEF Top
<1> QED
  BY <1>4, <1>5

\* A call changes the stacks of its own thread only: the others keep agreeing.
LEMMA SiteStackStep ==
  ASSUME SiteStackFollowsBlocks, ~aborted, NEW t \in Threads,
         \A u \in Threads \ {t} : stack'[u] = stack[u] /\ usingPim'[u] = usingPim[u],
         ~aborted' => Len(usingPim'[t]) = 1 + Cardinality(OffloadedIn(stack'[t]))
  PROVE  SiteStackFollowsBlocks'
<1> SUFFICES ASSUME NEW u \in Threads, ~aborted'
             PROVE  Len(usingPim'[u]) = 1 + Cardinality(OffloadedIn(stack'[u]))
  BY DEF SiteStackFollowsBlocks
<1>1. CASE u = t
  BY <1>1
<1>2. CASE u # t
  <2>1. stack'[u] = stack[u] /\ usingPim'[u] = usingPim[u]
    BY <1>2
  <2>2. Len(usingPim[u]) = 1 + Cardinality(OffloadedIn(stack[u]))
    BY DEF SiteStackFollowsBlocks
  <2> QED
    BY <2>1, <2>2
<1> QED
  BY <1>1, <1>2

\* An OffloadEnd that does not abort leaves the site stack nonempty, and counts
\* against the site that is then on top.
LEMMA OffloadEndSite ==
  ASSUME StackInv, NEW t \in Threads, NEW h \in Bbls, NEW site \in Sites,
         OffloadEnd(t, h, site), ~aborted'
  PROVE  /\ LeaveBbl(t, h)
         /\ Len(usingPim[t]) >= 2
         /\ usingPim'[t] = Pop(usingPim[t])
         /\ \A u \in Threads \ {t} : usingPim'[u] = usingPim[u]
         /\ CountSwitch(t, Top(usingPim[t]), Top(usingPim'[t]))
<1>1. /\ usingPim' = [usingPim EXCEPT ![t] = Pop(@)]
      /\ \E after \in SiteAfterEnd(t) : CountSwitch(t, Top(usingPim[t]), after)
      /\ LeaveBbl(t, h)
  BY DEF OffloadEnd
<1>2. /\ usingPim'[t] = Pop(usingPim[t])
      /\ \A u \in Threads \ {t} : usingPim'[u] = usingPim[u]
  BY <1>1 DEF StackInv, CallTypeOK
<1>3. Len(usingPim[t]) >= 2 /\ Len(usingPim[t]) # 1
  <2>1. Cardinality(OffloadedIn(stack[t])) = Cardinality(OffloadedIn(stack'[t])) + 1
    BY <1>1, LeaveBblStack DEF OffloadEnd, StackInv
  <2>2. Cardinality(OffloadedIn(stack'[t])) \in Nat
    <3>1. stack' \in [Threads -> Seq(Hashes)]
      BY <1>1, LeaveBblTypes DEF StackInv
    <3> QED
      BY <3>1, OffloadedFinite
  <2>3. Len(usingPim[t]) = 1 + Cardinality(OffloadedIn(stack[t]))
    BY DEF OffloadEnd, StackInv, SiteStackFollowsBlocks
  <2> QED
    BY <2>1, <2>2, <2>3
<1>4. SiteAfterEnd(t) = {Top(usingPim'[t])}
  BY <1>2, <1>3, Zenon DEF SiteAfterEnd
<1> QED
  BY <1>1, <1>2, <1>3, <1>4

\* The region outside main is never left; outside aborted processes the site
\* stack follows the offloaded blocks on the stack of blocks, and crossings tell
\* the site.
THEOREM StackInvariant == Spec => []StackInv
<1>1. Init => StackInv
  <2> SUFFICES ASSUME Init PROVE BottomStays /\ SiteStackFollowsBlocks /\ CrossingsMatchSite
    BY CallTypeInit DEF StackInv
  <2>1. \A t \in Threads : /\ stack[t] = <<GLOBAL_BBLHASH>> /\ usingPim[t] = <<FALSE>>
                           /\ cpu2pim[t] = 0 /\ pim2cpu[t] = 0
    BY DEF Init
  <2>2. \A t \in Threads : Len(stack[t]) = 1 /\ stack[t][1] = GLOBAL_BBLHASH
    <3>1. Len(<<GLOBAL_BBLHASH>>) = 1 /\ <<GLOBAL_BBLHASH>>[1] = GLOBAL_BBLHASH
      OBVIOUS
    <3> QED
      BY <2>1, <3>1, Zenon
  <2>3. BottomStays
    BY <2>2 DEF BottomStays
  <2>4. Len(<<FALSE>>) = 1 /\ ~Top(<<FALSE>>)
    BY DEF Top
  <2>5. SiteStackFollowsBlocks
    <3> SUFFICES ASSUME NEW t \in Threads
                 PROVE  Len(usingPim[t]) = 1 + Cardinality(OffloadedIn(stack[t]))
      BY DEF SiteStackFollowsBlocks
    <3>1. Len(usingPim[t]) = 1
      BY <2>1, <2>4, Zenon
    <3>2. OffloadedIn(stack[t]) = {}
      <4>1. GLOBAL_BBLHASH \notin Offloaded
        BY HashAssumption, OffloadedAssumption
      <4>2. stack[t] \in Seq(Hashes) /\ DOMAIN stack[t] = {1}
        BY CallTypeInit, <2>2 DEF CallTypeOK
      <4> QED
        BY <2>2, <4>1, <4>2 DEF OffloadedIn
    <3> QED
      BY <3>1, <3>2, FS_EmptySet
  <2>6. CrossingsMatchSite
    <3> SUFFICES ASSUME NEW t \in Threads
                 PROVE  cpu2pim[t] - pim2cpu[t] = IF Top(usingPim[t]) THEN 1 ELSE 0
      BY DEF CrossingsMatchSite
    <3>1. ~Top(usingPim[t])
      BY <2>1, <2>4, Zenon
    <3>2. cpu2pim[t] - pim2cpu[t] = 0
      <4>1. cpu2pim[t] = 0 /\ pim2cpu[t] = 0
        BY <2>1, Zenon
      <4> QED
        BY <4>1
    <3> QED
      BY <3>1, <3>2, Zenon
  <2> QED
    BY <2>3, <2>5, <2>6
<1>2. StackInv /\ [Next]_vars => StackInv'
  <2> SUFFICES ASSUME StackInv, [Next]_vars
               PROVE  BottomStays' /\ SiteStackFollowsBlocks' /\ CrossingsMatchSite'
    BY CallTypeStep DEF StackInv
  <2> USE DEF StackInv
  <2>0. \A u \in Threads : Cardinality(OffloadedIn(stack[u])) \in Nat
    BY OffloadedFinite DEF CallTypeOK
  <2>1. ASSUME NEW t \in Threads, NEW h \in Bbls, BBLStart(t, h)
        PROVE  BottomStays' /\ SiteStackFollowsBlocks' /\ CrossingsMatchSite'
    <3>1. /\ ~aborted /\ h \notin Offloaded /\ EnterBbl(t, h)
          /\ UNCHANGED <<usingPim, cpu2pim, pim2cpu, aborted>>
      BY <2>1 DEF BBLStart
    <3>2. BottomStays' /\ \A u \in Threads \ {t} : stack'[u] = stack[u]
      BY <3>1, EnterBblStack
    <3>3. Cardinality(OffloadedIn(stack'[t])) = Cardinality(OffloadedIn(stack[t])) + 0
      BY <3>1, EnterBblStack
    <3>4. Len(usingPim'[t]) = 1 + Cardinality(OffloadedIn(stack'[t]))
      BY <2>0, <3>1, <3>3 DEF SiteStackFollowsBlocks
    <3>5. SiteStackFollowsBlocks'
      BY <3>1, <3>2, <3>4, SiteStackStep
    <3> QED
      BY <3>1, <3>2, <3>5 DEF CrossingsMatchSite
  <2>2. ASSUME NEW t \in Threads, NEW h \in Bbls, BBLEnd(t, h)
        PROVE  BottomStays' /\ SiteStackFollowsBlocks' /\ CrossingsMatchSite'
    <3>1. /\ ~aborted /\ h \notin Offloaded /\ LeaveBbl(t, h)
          /\ UNCHANGED <<usingPim, cpu2pim, pim2cpu>>
      BY <2>2 DEF BBLEnd
    <3>2. BottomStays' /\ \A u \in Threads \ {t} : stack'[u] = stack[u]
      BY <3>1, LeaveBblStack
    <3>3. ~aborted' => Cardinality(OffloadedIn(stack[t])) = Cardinality(OffloadedIn(stack'[t])) + 0
      BY <3>1, LeaveBblStack
    <3>4. Cardinality(OffloadedIn(stack'[t])) \in Nat
      BY <3>1, LeaveBblTypes, OffloadedFinite
    <3>5. ~aborted' => Len(usingPim'[t]) = 1 + Cardinality(OffloadedIn(stack'[t]))
      BY <3>1, <3>3, <3>4 DEF SiteStackFollowsBlocks
    <3>6. SiteStackFollowsBlocks'
      BY <3>1, <3>2, <3>5, SiteStackStep
    <3> QED
      BY <3>1, <3>2, <3>6 DEF CrossingsMatchSite
  <2>3. ASSUME NEW t \in Threads, NEW h \in Bbls, NEW site \in Sites, OffloadStart(t, h, site)
        PROVE  BottomStays' /\ SiteStackFollowsBlocks' /\ CrossingsMatchSite'
    <3> DEFINE to == (site = "PIM")
    <3>1. /\ ~aborted /\ h \in Offloaded /\ aborted' = aborted
          /\ CountSwitch(t, Top(usingPim[t]), to) /\ EnterBbl(t, h)
      BY <2>3 DEF OffloadStart
    <3>2. /\ usingPim'[t] = Append(usingPim[t], to)
          /\ \A u \in Threads \ {t} : usingPim'[u] = usingPim[u]
      BY <2>3 DEF OffloadStart, CallTypeOK
    <3>3. Len(usingPim'[t]) = Len(usingPim[t]) + 1 /\ Top(usingPim'[t]) = to
      <4>1. usingPim[t] \in Seq(BOOLEAN) /\ to \in BOOLEAN
        BY DEF CallTypeOK
      <4> HIDE DEF to
      <4>2. Len(Append(usingPim[t], to)) = Len(usingPim[t]) + 1
        BY <4>1, PushFacts
      <4>3. Top(Append(usingPim[t], to)) = to
        BY <4>1, PushFacts
      <4> QED
        BY <3>2, <4>2, <4>3, Zenon
    <3>4. BottomStays' /\ \A u \in Threads \ {t} : stack'[u] = stack[u]
      BY <3>1, EnterBblStack
    <3>5. Cardinality(OffloadedIn(stack'[t])) = Cardinality(OffloadedIn(stack[t])) + 1
      BY <3>1, EnterBblStack
    <3>6. Len(usingPim[t]) = 1 + Cardinality(OffloadedIn(stack[t])) /\ Len(usingPim[t]) >= 1
      BY <2>0, <3>1 DEF SiteStackFollowsBlocks
    <3>7. Len(usingPim'[t]) = 1 + Cardinality(OffloadedIn(stack'[t]))
      BY <2>0, <3>3, <3>5, <3>6
    <3>8. SiteStackFollowsBlocks'
      BY <3>1, <3>2, <3>4, <3>7, SiteStackStep
    <3>9. CrossingsMatchSite'
      BY <3>1, <3>2, <3>3, <3>6, CrossingStep
    <3> QED
      BY <3>4, <3>8, <3>9
  <2>4. ASSUME NEW t \in Threads, NEW h \in Bbls, NEW site \in Sites, OffloadEnd(t, h, site)
        PROVE  BottomStays' /\ SiteStackFollowsBlocks' /\ CrossingsMatchSite'
    <3>1. CASE Top(usingPim[t]) # (site = "PIM")
      BY <2>4, <3>1 DEF OffloadEnd, callVars, BottomStays, SiteStackFollowsBlocks, CrossingsMatchSite
    <3>2. CASE aborted' /\ LeaveBbl(t, h)
      BY <3>2, LeaveBblStack DEF SiteStackFollowsBlocks, CrossingsMatchSite
    <3>3. CASE ~aborted'
      <4>1. /\ LeaveBbl(t, h) /\ Len(usingPim[t]) >= 2
            /\ usingPim'[t] = Pop(usingPim[t])
            /\ \A u \in Threads \ {t} : usingPim'[u] = usingPim[u]
            /\ CountSwitch(t, Top(usingPim[t]), Top(usingPim'[t]))
        BY <2>4, <3>3, OffloadEndSite
      <4>2. ~aborted /\ h \in Offloaded
        BY <2>4 DEF OffloadEnd
      <4>3. /\ usingPim'[t] \in Seq(BOOLEAN)
            /\ Len(usingPim'[t]) = Len(usingPim[t]) - 1 /\ Len(usingPim'[t]) >= 1
        BY <4>1, PopFacts DEF CallTypeOK
      <4>4. BottomStays' /\ \A u \in Threads \ {t} : stack'[u] = stack[u]
        BY <4>1, LeaveBblStack
      <4>5. Cardinality(OffloadedIn(stack[t])) = Cardinality(OffloadedIn(stack'[t])) + 1
        BY <3>3, <4>1, <4>2, LeaveBblStack
      <4>6. Cardinality(OffloadedIn(stack'[t])) \in Nat
        BY <4>1, LeaveBblTypes, OffloadedFinite
      <4>7. Len(usingPim[t]) = 1 + Cardinality(OffloadedIn(stack[t]))
        BY <4>2 DEF SiteStackFollowsBlocks
      <4>8. Len(usingPim'[t]) = 1 + Cardinality(OffloadedIn(stack'[t]))
        BY <4>3, <4>5, <4>6, <4>7
      <4>9. SiteStackFollowsBlocks'
        BY <4>1, <4>2, <4>4, <4>8, SiteStackStep
      <4>10. Top(usingPim'[t]) \in BOOLEAN
        BY <4>3 DEF Top
      <4>11. CrossingsMatchSite'
        BY <4>1, <4>2, <4>10, CrossingStep
      <4> QED
        BY <4>4, <4>9, <4>11
    <3> QED
      BY <2>4, <3>1, <3>2, <3>3 DEF OffloadEnd
  <2>5. ASSUME NEW t \in Threads, TickStep(t) \/ ReuseStep(t)
        PROVE  BottomStays' /\ SiteStackFollowsBlocks' /\ CrossingsMatchSite'
    BY <2>5, OtherSteps DEF callVars, BottomStays, SiteStackFollowsBlocks, CrossingsMatchSite
  <2>6. CASE UNCHANGED vars
    BY <2>6 DEF vars, callVars, BottomStays, SiteStackFollowsBlocks, CrossingsMatchSite
  <2> QED
    BY <2>1, <2>2, <2>3, <2>4, <2>5, <2>6 DEF Next, CallStep
<1> QED
  BY <1>1, <1>2, PTL DEF Spec

\* Outside aborted processes the stack of sites holds one site for each offloaded
\* block under execution, and the first (Stats.h:233-270).
THEOREM SiteStackTheorem == Spec => []SiteStackFollowsBlocks
BY StackInvariant, PTL DEF StackInv

\* Switches to the PIM exceed switches back by one while the thread is on the
\* PIM and by none while it is on the CPU (Stats.h:239-246, 263-268).
THEOREM CrossingsTheorem == Spec => []CrossingsMatchSite
BY StackInvariant, PTL DEF StackInv

-----------------------------------------------------------------------------
(***************************************************************************)
(* Every block on the stack has an entry in m_bbl_hash2stats: BBLStart adds *)
(* one before it pushes, and nothing removes an entry.                     *)
(***************************************************************************)
BlocksKnown == DOMAIN stats = Threads /\ OpenBlocksAreKnown
KnownInv == StackInv /\ BlocksKnown

\* No step but the start of a block changes which blocks have counters.
LEMMA OtherStepsKeepDomains ==
  ASSUME NEW t \in Threads, DOMAIN stats = Threads, TickStep(t) \/ ReuseStep(t)
  PROVE  DOMAIN stats' = Threads /\ \A u \in Threads : DOMAIN stats'[u] = DOMAIN stats[u]
<1>1. CASE ReuseStep(t)
  BY <1>1 DEF ReuseStep, InsertSegOnHit, SplitSegOnMiss, tickVars
<1>2. CASE TickStep(t)
  BY <1>2 DEF TickStep, AddTimeInstruction, AddMemory, AddCPUTime, AddOffloadingTime, Charge
<1> QED
  BY <1>1, <1>2

\* BBLStart gives the block it pushes its counters.
LEMMA EnterBblKnown ==
  ASSUME KnownInv, NEW t \in Threads, NEW h \in Bbls, EnterBbl(t, h)
  PROVE  /\ DOMAIN stats' = Threads
         /\ \A u \in Threads : Range(stack'[u]) \subseteq DOMAIN stats'[u]
<1>1. /\ DOMAIN stats' = Threads
      /\ \A u \in Threads \ {t} : stats'[u] = stats[u]
      /\ stats'[t] = IF h \in DOMAIN stats[t] THEN stats[t] ELSE With(stats[t], h, ZeroStats)
  BY DEF EnterBbl, KnownInv, BlocksKnown
<1>2. DOMAIN stats'[t] = DOMAIN stats[t] \cup {h}
  BY <1>1 DEF With
<1>3. stack'[t] = Append(stack[t], h) /\ \A u \in Threads \ {t} : stack'[u] = stack[u]
  BY DEF EnterBbl, KnownInv, BlocksKnown, StackInv, CallTypeOK
<1>4. Range(stack'[t]) \subseteq Range(stack[t]) \cup {h}
  <2>1. stack[t] \in Seq(Hashes)
    BY DEF KnownInv, BlocksKnown, StackInv, CallTypeOK
  <2> QED
    BY <1>3, <2>1 DEF Range
<1> QED
  BY <1>1, <1>2, <1>3, <1>4 DEF KnownInv, BlocksKnown, OpenBlocksAreKnown

\* BBLEnd takes nothing out of the counters and pushes nothing.
LEMMA LeaveBblKnown ==
  ASSUME KnownInv, NEW t \in Threads, NEW h \in Bbls, LeaveBbl(t, h)
  PROVE  /\ stats' = stats
         /\ \A u \in Threads : Range(stack'[u]) \subseteq Range(stack[u])
<1>1. stack[t] \in Seq(Hashes) /\ Len(stack[t]) \in Nat /\ Len(stack[t]) > 0
  BY DEF KnownInv, BlocksKnown, StackInv, CallTypeOK, BottomStays
<1>2. Range(Pop(stack[t])) \subseteq Range(stack[t])
  <2>1. /\ Pop(stack[t]) \in Seq(Hashes)
        /\ Len(Pop(stack[t])) = Len(stack[t]) - 1
        /\ \A i \in 1 .. Len(stack[t]) - 1 : Pop(stack[t])[i] = stack[t][i]
    BY <1>1, PopFacts
  <2> QED
    BY <1>1, <2>1 DEF Range
<1> QED
  BY <1>2 DEF LeaveBbl, tickVars, KnownInv, BlocksKnown, StackInv, CallTypeOK

\* Every block under execution has counters, at any time.
THEOREM KnownInvariant == Spec => []KnownInv
<1>1. Init => BlocksKnown
  <2> SUFFICES ASSUME Init PROVE BlocksKnown
    OBVIOUS
  <2>1. DOMAIN stats = Threads
    BY DEF Init
  <2>2. \A t \in Threads : stack[t] = <<GLOBAL_BBLHASH>> /\ DOMAIN stats[t] = {GLOBAL_BBLHASH}
    BY DEF Init
  <2>3. Len(<<GLOBAL_BBLHASH>>) = 1 /\ <<GLOBAL_BBLHASH>>[1] = GLOBAL_BBLHASH /\ 1 >= 1
    OBVIOUS
  <2>4. Range(<<GLOBAL_BBLHASH>>) = {GLOBAL_BBLHASH}
    BY DEF Range
  <2> QED
    <3>1. \A t \in Threads : Range(stack[t]) \subseteq DOMAIN stats[t]
      BY <2>2, <2>4, Zenon
    <3>2. \A t \in Threads : Len(stack[t]) >= 1 /\ stack[t][1] = GLOBAL_BBLHASH
      BY <2>2, <2>3, Zenon
    <3> QED
      BY <2>1, <3>1, <3>2, Zenon DEF BlocksKnown, OpenBlocksAreKnown
<1>2. KnownInv /\ StackInv' /\ [Next]_vars => BlocksKnown'
  <2> SUFFICES ASSUME KnownInv, StackInv', [Next]_vars
               PROVE  /\ DOMAIN stats' = Threads
                      /\ \A u \in Threads : Range(stack'[u]) \subseteq DOMAIN stats'[u]
    BY DEF StackInv, BottomStays, BlocksKnown, OpenBlocksAreKnown
  <2> DEFINE Goal == /\ DOMAIN stats' = Threads
                     /\ \A u \in Threads : Range(stack'[u]) \subseteq DOMAIN stats'[u]
  <2>1. ASSUME NEW t \in Threads, NEW h \in Bbls, EnterBbl(t, h) PROVE Goal
    BY <2>1, EnterBblKnown
  <2>2. ASSUME NEW t \in Threads, NEW h \in Bbls, LeaveBbl(t, h) PROVE Goal
    BY <2>2, LeaveBblKnown DEF KnownInv, BlocksKnown, OpenBlocksAreKnown
  <2>3. CASE UNCHANGED <<stack, stats>>
    BY <2>3 DEF KnownInv, BlocksKnown, OpenBlocksAreKnown
  <2>4. ASSUME NEW t \in Threads, TickStep(t) \/ ReuseStep(t) PROVE Goal
    BY <2>4, OtherSteps, OtherStepsKeepDomains DEF callVars, KnownInv, BlocksKnown, OpenBlocksAreKnown
  <2>5. ASSUME NEW t \in Threads, CallStep(t) PROVE Goal
    BY <2>1, <2>2, <2>3, <2>5
       DEF CallStep, BBLStart, BBLEnd, OffloadStart, OffloadEnd, callVars, tickVars
  <2>6. CASE UNCHANGED vars
    BY <2>3, <2>6 DEF vars, callVars, tickVars
  <2> QED
    BY <2>4, <2>5, <2>6 DEF Next
<1> QED
  BY <1>1, <1>2, StackInvariant, PTL DEF Spec, KnownInv

\* The blocks under execution have counters, so Charge never misses, and the
\* outermost one is the region outside main.
THEOREM OpenBlocksTheorem == Spec => []OpenBlocksAreKnown
BY KnownInvariant, PTL DEF KnownInv, BlocksKnown

-----------------------------------------------------------------------------
(***************************************************************************)
(* The path of switches: last_begin_bblstats is always the block that was  *)
(* started last, and no block is switched from twice for one start.        *)
(***************************************************************************)
\* BBLStart counts one switch out of the block started before, whichever it is.
LEMMA EnterBblTotals ==
  ASSUME CallTypeOK, TotalsFollowStarts, NEW t \in Threads, NEW h \in Bbls, EnterBbl(t, h)
  PROVE  TotalsFollowStarts'
<1>1. h \in Hashes /\ h # Phantom /\ last[t] \in Hashes \cup {Phantom} /\ Phantom \notin Hashes
  BY HashAssumption DEF CallTypeOK, Hashes, Phantom, GLOBAL_BBLHASH
<1>2. /\ last'[t] = h
      /\ total'[t] = [total[t] EXCEPT ![last[t]] = @ + 1]
      /\ starts'[t] = [starts[t] EXCEPT ![h] = @ + 1]
      /\ \A u \in Threads \ {t} : last'[u] = last[u] /\ total'[u] = total[u] /\ starts'[u] = starts[u]
  BY DEF EnterBbl, CallTypeOK, SwitchFrom
<1>3. total[t] \in [Hashes \cup {Phantom} -> Nat] /\ starts[t] \in [Hashes -> Nat]
  BY DEF CallTypeOK
<1>4. \A g \in Hashes : total'[t][g] + (IF g = last'[t] THEN 1 ELSE 0) = starts'[t][g]
  <2> SUFFICES ASSUME NEW g \in Hashes
               PROVE  total'[t][g] + (IF g = h THEN 1 ELSE 0) = starts'[t][g]
    BY <1>2
  <2>1. total'[t][g] = total[t][g] + (IF g = last[t] THEN 1 ELSE 0)
    BY <1>1, <1>2, <1>3
  <2>2. starts'[t][g] = starts[t][g] + (IF g = h THEN 1 ELSE 0)
    BY <1>2, <1>3
  <2>3. total[t][g] + (IF g = last[t] THEN 1 ELSE 0) = starts[t][g]
    BY DEF TotalsFollowStarts
  <2> QED
    BY <2>1, <2>2, <2>3
<1>5. total'[t][Phantom] = 1 /\ last'[t] # Phantom
  <2>1. total'[t][Phantom] = total[t][Phantom] + (IF Phantom = last[t] THEN 1 ELSE 0)
    BY <1>1, <1>2, <1>3
  <2> QED
    BY <1>1, <1>2, <2>1 DEF TotalsFollowStarts
<1> SUFFICES ASSUME NEW u \in Threads, u # t
             PROVE  /\ \A g \in Hashes :
                         total'[u][g] + (IF g = last'[u] THEN 1 ELSE 0) = starts'[u][g]
                    /\ total'[u][Phantom] = IF last'[u] = Phantom THEN 0 ELSE 1
  BY <1>4, <1>5, Zenon DEF TotalsFollowStarts
<1> QED
  BY <1>2 DEF TotalsFollowStarts

\* Every block is left as often as it is entered, but for the last one.
THEOREM TotalsTheorem == Spec => []TotalsFollowStarts
<1>1. Init => TotalsFollowStarts
  BY HashAssumption DEF Init, TotalsFollowStarts, Hashes, Phantom, GLOBAL_BBLHASH
<1>2. CallTypeOK /\ TotalsFollowStarts /\ [Next]_vars => TotalsFollowStarts'
  <2> SUFFICES ASSUME CallTypeOK, TotalsFollowStarts, [Next]_vars PROVE TotalsFollowStarts'
    OBVIOUS
  <2>1. CASE UNCHANGED <<last, total, starts>>
    BY <2>1 DEF TotalsFollowStarts
  <2>2. ASSUME NEW t \in Threads, CallStep(t) PROVE TotalsFollowStarts'
    BY <2>1, <2>2, EnterBblTotals
       DEF CallStep, BBLStart, BBLEnd, OffloadStart, OffloadEnd, LeaveBbl, callVars
  <2>3. ASSUME NEW t \in Threads, TickStep(t) \/ ReuseStep(t) PROVE TotalsFollowStarts'
    BY <2>1, <2>3, OtherSteps DEF callVars
  <2>4. CASE UNCHANGED vars
    BY <2>1, <2>4 DEF vars, callVars
  <2> QED
    BY <2>2, <2>3, <2>4 DEF Next
<1> QED
  BY <1>1, <1>2, CallTypeInvariant, PTL DEF Spec

-----------------------------------------------------------------------------
(***************************************************************************)
(* The rows and the columns of the switch counts: a switch from l to h is  *)
(* one more in row l and in column h, and in no other.                     *)
(***************************************************************************)
Row(t, f) == [h \in Hashes |-> matrix[t][<<f, h>>]]
Column(t, h) == [f \in Hashes \cup {Phantom} |-> matrix[t][<<f, h>>]]

RowsFollowTotals == \A t \in Threads : \A f \in Hashes \cup {Phantom} : SumFunction(Row(t, f)) = total[t][f]
ColumnsFollowStarts == \A t \in Threads : \A h \in Hashes : SumFunction(Column(t, h)) = starts[t][h]

\* There are finitely many blocks.
LEMMA HashesAreFinite == IsFiniteSet(Hashes) /\ IsFiniteSet(Hashes \cup {Phantom})
<1>1. IsFiniteSet(Hashes)
  BY HashAssumption, FS_AddElement DEF Hashes
<1> QED
  BY <1>1, FS_AddElement

\* The sum of a function over a set with one value counted up.
LEMMA SumBump ==
  ASSUME NEW S, IsFiniteSet(S), NEW f \in [S -> Nat], NEW g \in [S -> Nat], NEW e \in S,
         g[e] = f[e] + 1, \A x \in S \ {e} : g[x] = f[x]
  PROVE  SumFunction(g) = SumFunction(f) + 1
<1>1. \A x \in S : f[x] \in Int /\ g[x] \in Int
  OBVIOUS
<1>2. SumFunctionOnSet(g, S) = SumFunctionOnSet(f, S) + (g[e] - f[e])
  BY <1>1, SumChange
<1>3. SumFunctionOnSet(f, S) \in Int
  BY <1>1, SumInt
<1> QED
  BY <1>1, <1>2, <1>3 DEF SumFunction

\* Rows and columns are functions to numbers.
LEMMA RowTypes ==
  ASSUME CallTypeOK, NEW t \in Threads
  PROVE  /\ \A f \in Hashes \cup {Phantom} : Row(t, f) \in [Hashes -> Nat]
         /\ \A h \in Hashes : Column(t, h) \in [Hashes \cup {Phantom} -> Nat]
BY DEF CallTypeOK, Row, Column

\* The start of a block counts one switch, in the row of the block started before
\* and in its own column.
LEMMA EnterBblSums ==
  ASSUME CallTypeOK, CallTypeOK', RowsFollowTotals, ColumnsFollowStarts,
         NEW t \in Threads, NEW h \in Bbls, EnterBbl(t, h)
  PROVE  RowsFollowTotals' /\ ColumnsFollowStarts'
<1> DEFINE l == last[t]
<1>1. h \in Hashes /\ l \in Hashes \cup {Phantom}
  BY DEF CallTypeOK, Hashes
<1>2. /\ matrix'[t] = [matrix[t] EXCEPT ![<<l, h>>] = @ + 1]
      /\ total'[t] = [total[t] EXCEPT ![l] = @ + 1]
      /\ starts'[t] = [starts[t] EXCEPT ![h] = @ + 1]
      /\ \A u \in Threads \ {t} : matrix'[u] = matrix[u] /\ total'[u] = total[u] /\ starts'[u] = starts[u]
  BY DEF EnterBbl, CallTypeOK, SwitchFrom
<1>3. /\ matrix[t] \in [(Hashes \cup {Phantom}) \X Hashes -> Nat]
      /\ total[t] \in [Hashes \cup {Phantom} -> Nat] /\ starts[t] \in [Hashes -> Nat]
  BY DEF CallTypeOK
<1> HIDE DEF l
<1>4. \A f \in Hashes \cup {Phantom}, g \in Hashes :
        matrix'[t][<<f, g>>] = IF f = l /\ g = h THEN matrix[t][<<f, g>>] + 1 ELSE matrix[t][<<f, g>>]
  BY <1>1, <1>2, <1>3
<1>5. ASSUME NEW f \in Hashes \cup {Phantom}
      PROVE  SumFunction(Row(t, f)') = total'[t][f]
  <2>1. Row(t, f) \in [Hashes -> Nat] /\ Row(t, f)' \in [Hashes -> Nat]
    <3>1. matrix'[t] \in [(Hashes \cup {Phantom}) \X Hashes -> Nat]
      BY DEF CallTypeOK
    <3> QED
      BY <1>3, <3>1 DEF Row
  <2>2. CASE f = l
    <3>1. Row(t, f)'[h] = Row(t, f)[h] + 1 /\ \A g \in Hashes \ {h} : Row(t, f)'[g] = Row(t, f)[g]
      BY <1>1, <1>4, <2>2 DEF Row
    <3>2. PICK old, new : old = Row(t, f) /\ new = Row(t, f)'
      OBVIOUS
    <3>3. SumFunction(new) = SumFunction(old) + 1
      BY <1>1, <2>1, <3>1, <3>2, HashesAreFinite, SumBump
    <3> QED
      BY <1>1, <1>2, <1>3, <2>2, <3>2, <3>3 DEF RowsFollowTotals
  <2>3. CASE f # l
    <3>1. Row(t, f)' = Row(t, f)
      BY <1>4, <2>3 DEF Row
    <3>2. total'[t][f] = total[t][f]
      BY <1>1, <1>2, <1>3, <2>3
    <3> QED
      BY <3>1, <3>2 DEF RowsFollowTotals
  <2> QED
    BY <2>2, <2>3
<1>6. ASSUME NEW g \in Hashes
      PROVE  SumFunction(Column(t, g)') = starts'[t][g]
  <2>1. Column(t, g) \in [Hashes \cup {Phantom} -> Nat] /\ Column(t, g)' \in [Hashes \cup {Phantom} -> Nat]
    <3>1. matrix'[t] \in [(Hashes \cup {Phantom}) \X Hashes -> Nat]
      BY DEF CallTypeOK
    <3> QED
      BY <1>3, <3>1 DEF Column
  <2>2. CASE g = h
    <3>1. /\ Column(t, g)'[l] = Column(t, g)[l] + 1
          /\ \A f \in (Hashes \cup {Phantom}) \ {l} : Column(t, g)'[f] = Column(t, g)[f]
      BY <1>1, <1>4, <2>2 DEF Column
    <3>2. PICK old, new : old = Column(t, g) /\ new = Column(t, g)'
      OBVIOUS
    <3>3. SumFunction(new) = SumFunction(old) + 1
      BY <1>1, <2>1, <3>1, <3>2, HashesAreFinite, SumBump
    <3> QED
      BY <1>1, <1>2, <1>3, <2>2, <3>2, <3>3 DEF ColumnsFollowStarts
  <2>3. CASE g # h
    <3>1. Column(t, g)' = Column(t, g)
      BY <1>4, <2>3 DEF Column
    <3>2. starts'[t][g] = starts[t][g]
      BY <1>1, <1>2, <1>3, <2>3
    <3> QED
      BY <3>1, <3>2 DEF ColumnsFollowStarts
  <2> QED
    BY <2>2, <2>3
<1>7. ASSUME NEW u \in Threads, u # t
      PROVE  /\ \A f \in Hashes \cup {Phantom} : SumFunction(Row(u, f)') = total'[u][f]
             /\ \A g \in Hashes : SumFunction(Column(u, g)') = starts'[u][g]
  <2>1. matrix'[u] = matrix[u] /\ total'[u] = total[u] /\ starts'[u] = starts[u]
    BY <1>2, <1>7
  <2>2. \A f : Row(u, f)' = Row(u, f)
    BY <2>1 DEF Row
  <2>3. \A g : Column(u, g)' = Column(u, g)
    BY <2>1 DEF Column
  <2> QED
    BY <2>1, <2>2, <2>3 DEF RowsFollowTotals, ColumnsFollowStarts
<1>8. RowsFollowTotals'
  BY <1>5, <1>7 DEF RowsFollowTotals
<1>9. ColumnsFollowStarts'
  BY <1>6, <1>7 DEF ColumnsFollowStarts
<1> QED
  BY <1>8, <1>9

\* Nothing has been counted at first.
LEMMA SumsInit == Init => RowsFollowTotals /\ ColumnsFollowStarts
<1> SUFFICES ASSUME Init, NEW t \in Threads
             PROVE  /\ \A f \in Hashes \cup {Phantom} : SumFunction(Row(t, f)) = total[t][f]
                    /\ \A h \in Hashes : SumFunction(Column(t, h)) = starts[t][h]
  BY DEF RowsFollowTotals, ColumnsFollowStarts
<1>1. matrix[t] = [e \in (Hashes \cup {Phantom}) \X Hashes |-> 0]
      /\ total[t] = [h \in Hashes \cup {Phantom} |-> 0] /\ starts[t] = [h \in Hashes |-> 0]
  BY DEF Init
<1>2. ASSUME NEW f \in Hashes \cup {Phantom} PROVE SumFunction(Row(t, f)) = 0
  <2>1. DOMAIN Row(t, f) = Hashes /\ \A h \in Hashes : Row(t, f)[h] = 0
    BY <1>1 DEF Row
  <2> QED
    BY <2>1, HashesAreFinite, SumZero DEF SumFunction
<1>3. ASSUME NEW h \in Hashes PROVE SumFunction(Column(t, h)) = 0
  <2>1. /\ DOMAIN Column(t, h) = Hashes \cup {Phantom}
        /\ \A f \in Hashes \cup {Phantom} : Column(t, h)[f] = 0
    BY <1>1 DEF Column
  <2> QED
    BY <2>1, HashesAreFinite, SumZero DEF SumFunction
<1> QED
  BY <1>1, <1>2, <1>3

\* The switch counts are the edges of one path through the blocks started: rows
\* sum to the totals, columns to the starts, and the path never breaks, for any
\* number of blocks and whatever the thread does (Stats.h:216).
THEOREM PathTheorem == Spec => []SwitchCountsFollowOnePath
<1> DEFINE Sums == RowsFollowTotals /\ ColumnsFollowStarts
<1>1. CallTypeOK /\ CallTypeOK' /\ Sums /\ [Next]_vars => Sums'
  <2> SUFFICES ASSUME CallTypeOK, CallTypeOK', Sums, [Next]_vars PROVE Sums'
    OBVIOUS
  <2>1. CASE UNCHANGED <<matrix, total, starts>>
    BY <2>1 DEF RowsFollowTotals, ColumnsFollowStarts, Row, Column
  <2>2. ASSUME NEW t \in Threads, CallStep(t) PROVE Sums'
    BY <2>1, <2>2, EnterBblSums
       DEF CallStep, BBLStart, BBLEnd, OffloadStart, OffloadEnd, LeaveBbl, callVars
  <2>3. ASSUME NEW t \in Threads, TickStep(t) \/ ReuseStep(t) PROVE Sums'
    BY <2>1, <2>3, OtherSteps DEF callVars
  <2>4. CASE UNCHANGED vars
    BY <2>1, <2>4 DEF vars, callVars
  <2> QED
    BY <2>2, <2>3, <2>4 DEF Next
<1>2. TotalsFollowStarts /\ Sums => SwitchCountsFollowOnePath
  BY DEF SwitchCountsFollowOnePath, RowsFollowTotals, ColumnsFollowStarts, Row, Column
<1>3. Init => Sums
  BY SumsInit
<1> HIDE DEF Sums
<1> QED
  BY <1>1, <1>2, <1>3, TotalsTheorem, CallTypeInvariant, PTL DEF Spec

-----------------------------------------------------------------------------
(* The counters. *)

TickInv == TickTypeOK /\ DOMAIN stats = Threads /\ DOMAIN pimTime = Threads

\* The counters of a block are counters after one is counted up.
LEMMA CountersGrow ==
  ASSUME NEW A, NEW f, DOMAIN f = A, \A h \in A : f[h] \in Counters, NEW b \in A,
         NEW c \in Counters
  PROVE  LET g == [f EXCEPT ![b] = c]
         IN DOMAIN g = A /\ \A h \in A : g[h] \in Counters
OBVIOUS

\* A tick counts up one or two of the counters of a block.
LEMMA CountersTick ==
  ASSUME NEW c \in Counters
  PROVE  /\ [c EXCEPT !.time = @ + 1, !.instr = @ + 1] \in Counters
         /\ [c EXCEPT !["mem"] = @ + 1] \in Counters
         /\ [c EXCEPT !["cpu"] = @ + 1] \in Counters
<1>1. PICK d : d = [c EXCEPT !.time = @ + 1]
  OBVIOUS
<1>2. d \in Counters /\ d.instr = c.instr
  BY <1>1 DEF Counters
<1>3. [d EXCEPT !.instr = @ + 1] \in Counters
  BY <1>2 DEF Counters
<1>4. [c EXCEPT !.time = @ + 1, !.instr = @ + 1] = [d EXCEPT !.instr = @ + 1]
  BY <1>1, <1>2 DEF Counters
<1>5. [c EXCEPT !["mem"] = @ + 1] \in Counters /\ [c EXCEPT !["cpu"] = @ + 1] \in Counters
  BY DEF Counters
<1> QED
  BY <1>3, <1>4, <1>5

\* What a tick adds it adds to the block on top of the stack, which is known.
LEMMA TickKeeps ==
  ASSUME KnownInv, TickInv, NEW t \in Threads, TickStep(t)
  PROVE  TickInv'
<1> DEFINE b == GetCurrent(t)
           c == stats[t][b]
<1>1. b \in DOMAIN stats[t] /\ DOMAIN stats[t] \subseteq Hashes /\ c \in Counters
  <2>1. stack[t] \in Seq(Hashes) /\ Len(stack[t]) >= 1
    BY DEF KnownInv, StackInv, CallTypeOK, BottomStays
  <2>2. b \in Range(stack[t])
    BY <2>1 DEF GetCurrent, Top, Range
  <2> QED
    BY <2>2 DEF KnownInv, BlocksKnown, OpenBlocksAreKnown, TickInv, TickTypeOK
<1>2. pimTime[t] + 1 \in Nat
  BY DEF TickInv, TickTypeOK
<1>3. CASE UNCHANGED stats /\ pimTime' = [pimTime EXCEPT ![t] = @ + 1]
  BY <1>2, <1>3 DEF TickInv, TickTypeOK
<1>4. ASSUME NEW d \in Counters, stats' = [stats EXCEPT ![t] = [@ EXCEPT ![b] = d]],
             UNCHANGED pimTime
      PROVE  TickInv'
  <2>1. stats'[t] = [stats[t] EXCEPT ![b] = d] /\ DOMAIN stats' = Threads
        /\ \A u \in Threads \ {t} : stats'[u] = stats[u]
    BY <1>4 DEF TickInv
  <2>2. DOMAIN stats'[t] = DOMAIN stats[t] /\ \A h \in DOMAIN stats[t] : stats'[t][h] \in Counters
    BY <1>1, <2>1 DEF TickInv, TickTypeOK
  <2> QED
    BY <1>1, <1>4, <2>1, <2>2 DEF TickInv, TickTypeOK
<1>5. CASE AddTimeInstruction(t, 1, 1)
  <2>1. [c EXCEPT !.time = @ + 1, !.instr = @ + 1] \in Counters
    BY <1>1, CountersTick
  <2>2. stats' = [stats EXCEPT ![t] = [@ EXCEPT ![b] = [c EXCEPT !.time = @ + 1, !.instr = @ + 1]]]
    BY <1>1, <1>5 DEF AddTimeInstruction, TickInv
  <2> QED
    BY <1>4, <1>5, <2>1, <2>2 DEF AddTimeInstruction
<1>6. CASE AddMemory(t, 1)
  <2>1. [c EXCEPT !["mem"] = @ + 1] \in Counters
    BY <1>1, CountersTick
  <2>2. stats' = [stats EXCEPT ![t] = [@ EXCEPT ![b] = [c EXCEPT !["mem"] = @ + 1]]]
    BY <1>1, <1>6 DEF AddMemory, Charge, TickInv
  <2> QED
    BY <1>4, <1>6, <2>1, <2>2 DEF AddMemory
<1>7. CASE AddCPUTime(t, 1)
  <2>1. [c EXCEPT !["cpu"] = @ + 1] \in Counters
    BY <1>1, CountersTick
  <2>2. stats' = [stats EXCEPT ![t] = [@ EXCEPT ![b] = [c EXCEPT !["cpu"] = @ + 1]]]
    BY <1>1, <1>7 DEF AddCPUTime, Charge, TickInv
  <2> QED
    BY <1>4, <1>7, <2>1, <2>2 DEF AddCPUTime
<1>8. CASE AddOffloadingTime(t, 1)
  BY <1>3, <1>8 DEF AddOffloadingTime
<1> QED
  BY <1>5, <1>6, <1>7, <1>8 DEF TickStep

\* A block that is started for the first time starts with zeros.
LEMMA EnterBblCounters ==
  ASSUME TickInv, NEW t \in Threads, NEW h \in Bbls, EnterBbl(t, h)
  PROVE  TickInv'
<1>1. h \in Hashes /\ ZeroStats \in Counters
  BY DEF Hashes, ZeroStats, Counters
<1>2. /\ DOMAIN stats' = Threads /\ pimTime' = pimTime
      /\ \A u \in Threads \ {t} : stats'[u] = stats[u]
      /\ stats'[t] = IF h \in DOMAIN stats[t] THEN stats[t] ELSE With(stats[t], h, ZeroStats)
  BY DEF EnterBbl, TickInv
<1>3. DOMAIN stats[t] \subseteq Hashes /\ \A g \in DOMAIN stats[t] : stats[t][g] \in Counters
  BY DEF TickInv, TickTypeOK
<1>4. DOMAIN stats'[t] \subseteq Hashes /\ \A g \in DOMAIN stats'[t] : stats'[t][g] \in Counters
  BY <1>1, <1>2, <1>3 DEF With
<1> QED
  BY <1>2, <1>4 DEF TickInv, TickTypeOK

\* The counters of the blocks and of the PIM keep their types.
THEOREM TickInvariant == Spec => []TickInv
<1>1. Init => TickInv
  <2> SUFFICES ASSUME Init PROVE TickInv
    OBVIOUS
  <2>1. ZeroStats \in Counters
    BY DEF ZeroStats, Counters
  <2>2. stats = [t \in Threads |-> [h \in {GLOBAL_BBLHASH} |-> ZeroStats]] /\ pimTime = [t \in Threads |-> 0]
    BY DEF Init
  <2> QED
    BY <2>1, <2>2 DEF TickInv, TickTypeOK, Hashes
<1>2. KnownInv /\ TickInv /\ [Next]_vars => TickInv'
  <2> SUFFICES ASSUME KnownInv, TickInv, [Next]_vars PROVE TickInv'
    OBVIOUS
  <2>1. CASE UNCHANGED tickVars
    BY <2>1 DEF TickInv, TickTypeOK, tickVars
  <2>2. ASSUME NEW t \in Threads, CallStep(t) PROVE TickInv'
    BY <2>1, <2>2, EnterBblCounters
       DEF CallStep, BBLStart, BBLEnd, OffloadStart, OffloadEnd, LeaveBbl, tickVars
  <2>3. ASSUME NEW t \in Threads, TickStep(t) PROVE TickInv'
    BY <2>3, TickKeeps
  <2>4. ASSUME NEW t \in Threads, ReuseStep(t) PROVE TickInv'
    BY <2>1, <2>4 DEF ReuseStep, InsertSegOnHit, SplitSegOnMiss
  <2>5. CASE UNCHANGED vars
    BY <2>1, <2>5 DEF vars
  <2> QED
    BY <2>2, <2>3, <2>4, <2>5 DEF Next
<1> QED
  BY <1>1, <1>2, KnownInvariant, PTL DEF Spec

-----------------------------------------------------------------------------
(***************************************************************************)
(* The reuse trie, for any addresses of the blocks: a leaf is listed once, *)
(* and nothing hangs below it.  A leaf's path is a rising sequence of      *)
(* blocks and then the head once more, which is one of them.  So the path  *)
(* does not rise at its end, and no other path, which may fail to rise at  *)
(* its own end only, runs through it.                                      *)
(***************************************************************************)
(* The path of a segment. *)

Rising(s, n) == RisesBy(Address, s, n)

\* No two blocks share an address.
LEMMA AddressFacts ==
  \A g, h \in Hashes : Address[g] \in Nat /\ (Address[g] = Address[h] => g = h)
BY AddressAssumption DEF Hashes

\* The trie counts the blocks of a segment as everyone does.
LEMMA TrieCardinality == \A S : Trie!Cardinality(S) = Cardinality(S)
BY DEF Trie!Cardinality, Cardinality

\* The set of a segment, as the trie walks it.
LEMMA SortedFacts ==
  ASSUME NEW S \in SUBSET Hashes, IsFiniteSet(S)
  PROVE  /\ Trie!Sorted(S) \in [1 .. Cardinality(S) -> S]
         /\ Rising(Trie!Sorted(S), Cardinality(S))
         /\ \A x \in S : \E i \in 1 .. Cardinality(S) : Trie!Sorted(S)[i] = x
<1>1. Ranks(Address, S)
  BY AddressFacts DEF Ranks
<1>2. PICK n, s : n = Cardinality(S) /\ s = Trie!Sorted(S)
  OBVIOUS
<1>3. s = CHOOSE f \in [1 .. n -> S] : \A i, j \in DOMAIN f : i < j => Address[f[i]] < Address[f[j]]
  BY <1>2, TrieCardinality DEF Trie!Sorted, Trie!RankBelow
<1>4. PICK f \in [1 .. n -> S] : RisesBy(Address, f, n)
  BY <1>1, <1>2, SortedExists
<1>5. \A i, j \in DOMAIN f : i < j => Address[f[i]] < Address[f[j]]
  BY <1>4 DEF RisesBy
<1>6. s \in [1 .. n -> S] /\ \A i, j \in DOMAIN s : i < j => Address[s[i]] < Address[s[j]]
  BY <1>3, <1>5
<1>7. s \in [1 .. n -> S] /\ RisesBy(Address, s, n)
  BY <1>6 DEF RisesBy
<1>8. s \in [1 .. Cardinality(S) -> S] /\ RisesBy(Address, s, Cardinality(S))
  BY <1>2, <1>7
<1>9. \A x \in S : \E i \in 1 .. Cardinality(S) : s[i] = x
  BY <1>1, <1>8, SortedHasAll
<1> QED
  BY <1>2, <1>8, <1>9 DEF Rising

-----------------------------------------------------------------------------
(* What the trie and _leaves look like. *)

Rest(p) == Len(p) - 1

\* The path of a recorded segment: it rises to the last but one element, and the
\* last one is in it already.
IsLeafPath(p) ==
  /\ p \in Seq(Hashes) /\ Len(p) >= 2
  /\ Rising(p, Rest(p))
  /\ \E k \in 1 .. Rest(p) : p[Len(p)] = p[k]

StartsWith(p, node) ==
  /\ Len(node) <= Len(p)
  /\ \A i \in 1 .. Len(node) : node[i] = p[i]

\* Every node is on the way to a leaf, and each leaf is listed once.
TrieOK(rt, lvs) ==
  /\ DOMAIN rt.count \subseteq rt.nodes
  /\ \A p \in DOMAIN rt.count : IsLeafPath(p)
  /\ \A node \in rt.nodes :
       node \in Seq(Hashes) /\ (node = << >> \/ \E p \in DOMAIN rt.count : StartsWith(p, node))
  /\ lvs \in Seq(Seq(Hashes))
  /\ \A i, j \in DOMAIN lvs : lvs[i] = lvs[j] => i = j
  /\ Range(lvs) = DOMAIN rt.count

SegOK(seg) ==
  /\ seg \in Trie!Segment /\ IsFiniteSet(seg.set)
  /\ seg.set # {} => seg.head \in seg.set

\* No leaf lies on the way to another one.
LEMMA LeavesAreApart ==
  ASSUME NEW p, NEW q, IsLeafPath(p), IsLeafPath(q), StartsWith(q, p)
  PROVE  p = q
<1>1. p \in Seq(Hashes) /\ q \in Seq(Hashes) /\ Len(p) \in Nat /\ Len(q) \in Nat
  BY DEF IsLeafPath
<1>2. Len(p) = Len(q)
  <2> SUFFICES ASSUME Len(p) < Len(q) PROVE FALSE
    BY <1>1 DEF StartsWith
  <2>1. PICK k \in 1 .. Rest(p) : p[Len(p)] = p[k]
    BY DEF IsLeafPath
  <2>2. k < Len(p) /\ k \in 1 .. Rest(q) /\ Len(p) \in 1 .. Rest(q)
    BY <1>1, <2>1 DEF Rest, IsLeafPath
  <2>3. Address[q[k]] < Address[q[Len(p)]]
    BY <2>2 DEF IsLeafPath, Rising, RisesBy
  <2>4. q[k] = q[Len(p)] /\ q[k] \in Hashes
    BY <1>1, <2>1, <2>2 DEF StartsWith, Rest
  <2> QED
    BY <2>3, <2>4, AddressFacts
<1> QED
  BY <1>1, <1>2 DEF StartsWith

\* What UpdateTrie writes for a segment has the form of a leaf's path.
LEMMA LeafPathFacts ==
  ASSUME NEW seg, SegOK(seg), Trie!Recorded(seg)
  PROVE  IsLeafPath(Trie!LeafPath(seg))
<1> DEFINE n == Cardinality(seg.set)
           s == Trie!Sorted(seg.set)
           p == Trie!LeafPath(seg)
<1> USE DEF Trie!Segment
<1>1. n \in Nat /\ n > 1
  BY TrieCardinality, FS_CardinalityType DEF SegOK, Trie!Recorded
<1>2. /\ s \in [1 .. n -> seg.set] /\ Rising(s, n)
      /\ \A x \in seg.set : \E i \in 1 .. n : s[i] = x
  BY SortedFacts DEF SegOK
<1>3. seg.head \in seg.set /\ seg.set \subseteq Hashes
  BY <1>1, FS_EmptySet DEF SegOK
<1>4. p = Append(s, seg.head)
  BY DEF Trie!LeafPath
<1> HIDE DEF n, s, p
<1>5. s \in Seq(Hashes) /\ Len(s) = n
  BY <1>1, <1>2, <1>3
<1>6. p \in Seq(Hashes) /\ Len(p) = n + 1 /\ p[n + 1] = seg.head /\ \A i \in 1 .. n : p[i] = s[i]
  BY <1>1, <1>3, <1>4, <1>5
<1>7. Rest(p) = n
  BY <1>1, <1>6 DEF Rest
<1>8. Rising(p, n)
  BY <1>2, <1>6 DEF Rising, RisesBy
<1>9. PICK k \in 1 .. n : s[k] = seg.head
  BY <1>2, <1>3
<1>10. p[Len(p)] = p[k]
  BY <1>6, <1>9
<1> QED
  BY <1>1, <1>6, <1>7, <1>8, <1>9, <1>10 DEF IsLeafPath, p

\* The nodes on the way to a path are its beginnings.
LEMMA PrefixFacts ==
  ASSUME NEW p \in Seq(Hashes), NEW node \in Trie!Prefixes(p)
  PROVE  node \in Seq(Hashes) /\ StartsWith(p, node)
<1>1. PICK l \in 0 .. Len(p) : node = SubSeq(p, 1, l)
  BY DEF Trie!Prefixes
<1>2. Len(node) = l /\ \A i \in 1 .. l : node[i] = p[i]
  BY <1>1
<1>3. node \in Seq(Hashes)
  BY <1>1
<1> QED
  BY <1>1, <1>2, <1>3 DEF StartsWith

\* A path is on the way to itself.
LEMMA PathIsPrefix ==
  ASSUME NEW p \in Seq(Hashes)
  PROVE  p \in Trie!Prefixes(p)
<1>1. p = SubSeq(p, 1, Len(p)) /\ Len(p) \in 0 .. Len(p)
  OBVIOUS
<1> QED
  BY <1>1 DEF Trie!Prefixes

\* UpdateTrie adds the path's leaf if it is not there, and then _leaves grows.
LEMMA SplitKeepsTrie ==
  ASSUME NEW rt, NEW lvs, TrieOK(rt, lvs), NEW seg, SegOK(seg)
  PROVE  TrieOK(Trie!UpdateTrie(rt, seg),
                IF Trie!NewLeaf(rt, seg) THEN Append(lvs, Trie!LeafPath(seg)) ELSE lvs)
<1>1. CASE ~Trie!Recorded(seg)
  BY <1>1 DEF Trie!UpdateTrie, Trie!NewLeaf
<1>2. CASE Trie!Recorded(seg)
  <2> DEFINE p == Trie!LeafPath(seg)
             new == Trie!UpdateTrie(rt, seg)
             grown == IF Trie!NewLeaf(rt, seg) THEN Append(lvs, p) ELSE lvs
  <2>1. IsLeafPath(p)
    BY <1>2, LeafPathFacts
  <2>2. new.nodes = rt.nodes \cup Trie!Prefixes(p) /\ DOMAIN new.count = DOMAIN rt.count \cup {p}
    BY <1>2 DEF Trie!UpdateTrie
  <2>3. p \in Seq(Hashes) /\ p # << >>
    BY <2>1 DEF IsLeafPath
  <2>4. grown = IF p \notin rt.nodes THEN Append(lvs, p) ELSE lvs
    BY <1>2 DEF Trie!NewLeaf
  <2>5. p \in rt.nodes => p \in DOMAIN rt.count
    <3> SUFFICES ASSUME p \in rt.nodes PROVE p \in DOMAIN rt.count
      OBVIOUS
    <3>1. PICK q \in DOMAIN rt.count : StartsWith(q, p)
      BY <2>3 DEF TrieOK
    <3> QED
      BY <2>1, <3>1, LeavesAreApart DEF TrieOK
  <2> HIDE DEF p, new, grown
  <2>6. DOMAIN new.count \subseteq new.nodes
    BY <2>2, <2>3, PathIsPrefix DEF TrieOK
  <2>7. \A q \in DOMAIN new.count : IsLeafPath(q)
    BY <2>1, <2>2 DEF TrieOK
  <2>8. \A node \in new.nodes :
          node \in Seq(Hashes) /\ (node = << >> \/ \E q \in DOMAIN new.count : StartsWith(q, node))
    BY <2>2, <2>3, PrefixFacts DEF TrieOK
  <2>9. /\ grown \in Seq(Seq(Hashes))
        /\ \A i, j \in DOMAIN grown : grown[i] = grown[j] => i = j
        /\ Range(grown) = DOMAIN new.count
    <3>1. CASE p \in rt.nodes
      <4>1. grown = lvs /\ DOMAIN new.count = DOMAIN rt.count
        BY <2>2, <2>4, <2>5, <3>1
      <4> QED
        BY <4>1 DEF TrieOK
    <3>2. CASE p \notin rt.nodes
      <4>1. lvs \in Seq(Seq(Hashes)) /\ grown = Append(lvs, p) /\ p \notin Range(lvs)
        BY <2>4, <3>2 DEF TrieOK
      <4>2. /\ grown \in Seq(Seq(Hashes)) /\ DOMAIN grown = 1 .. Len(lvs) + 1
            /\ grown[Len(lvs) + 1] = p /\ \A i \in 1 .. Len(lvs) : grown[i] = lvs[i]
        BY <2>3, <4>1
      <4>3. DOMAIN lvs = 1 .. Len(lvs) /\ Len(lvs) \in Nat
        BY <4>1
      <4>4. \A i, j \in DOMAIN grown : grown[i] = grown[j] => i = j
        BY <4>1, <4>2, <4>3 DEF TrieOK, Range
      <4>5. Range(grown) = Range(lvs) \cup {p}
        <5>1. \A i \in DOMAIN grown : i = Len(lvs) + 1 \/ i \in DOMAIN lvs
          BY <4>2, <4>3
        <5>2. Len(lvs) + 1 \in DOMAIN grown /\ DOMAIN lvs \subseteq DOMAIN grown
          BY <4>2, <4>3
        <5> QED
          BY <4>2, <4>3, <5>1, <5>2 DEF Range
      <4> QED
        BY <2>2, <4>2, <4>4, <4>5 DEF TrieOK
    <3> QED
      BY <3>1, <3>2
  <2> QED
    BY <2>6, <2>7, <2>8, <2>9 DEF TrieOK, new, grown, p
<1> QED
  BY <1>1, <1>2

-----------------------------------------------------------------------------
(* The invariant. *)

ReuseInv ==
  /\ DOMAIN segs = Threads /\ DOMAIN root = Threads /\ DOMAIN leaves = Threads
  /\ \A t \in Threads : TrieOK(root[t], leaves[t])
  /\ \A t \in Threads : DOMAIN segs[t] \subseteq Tags
  /\ \A t \in Threads : \A tag \in DOMAIN segs[t] : SegOK(segs[t][tag])

\* A segment's head is the block it was given first, also when clear() has left a
\* stale one behind.
LEMMA SegmentFacts ==
  /\ SegOK(Trie!NewSegment)
  /\ \A seg : SegOK(seg) => SegOK(Trie!SegClear(seg))
  /\ \A seg, e : SegOK(seg) /\ e \in Hashes => SegOK(Trie!SegInsert(seg, e))
<1>1. SegOK(Trie!NewSegment)
  BY FS_EmptySet DEF SegOK, Trie!NewSegment, Trie!Segment
<1>2. ASSUME NEW seg, SegOK(seg) PROVE SegOK(Trie!SegClear(seg))
  BY <1>2, FS_EmptySet DEF SegOK, Trie!SegClear, Trie!Segment
<1>3. ASSUME NEW seg, NEW e \in Hashes, SegOK(seg) PROVE SegOK(Trie!SegInsert(seg, e))
  <2>1. IsFiniteSet(seg.set \cup {e})
    BY <1>3, FS_AddElement DEF SegOK
  <2> QED
    BY <1>3, <2>1 DEF SegOK, Trie!SegInsert, Trie!Segment
<1> QED
  BY <1>1, <1>2, <1>3

\* What is above the bottom of the stack was started, so every access is that of
\* a block.
LEMMA CurrentIsBlock ==
  ASSUME StackInv, NEW t \in Threads
  PROVE  GetCurrent(t) \in Hashes
BY DEF StackInv, CallTypeOK, BottomStays, GetCurrent, Top

\* The segment of a line is well formed, be it new or open.
LEMMA SegmentOfFacts ==
  ASSUME ReuseInv, NEW t \in Threads, NEW tag
  PROVE  SegOK(SegmentOf(t, tag))
BY SegmentFacts DEF ReuseInv, SegmentOf

\* UpdateTrie of one thread's trie leaves those of the others alone.
LEMMA SplitKeeps ==
  ASSUME ReuseInv, NEW t \in Threads, NEW seg, SegOK(seg), SplitInto(t, seg)
  PROVE  /\ DOMAIN root' = Threads /\ DOMAIN leaves' = Threads
         /\ \A u \in Threads : TrieOK(root'[u], leaves'[u])
<1>1. /\ root'[t] = Trie!UpdateTrie(root[t], seg)
      /\ leaves'[t] = IF Trie!NewLeaf(root[t], seg)
                      THEN Append(leaves[t], Trie!LeafPath(seg)) ELSE leaves[t]
      /\ \A u \in Threads \ {t} : root'[u] = root[u] /\ leaves'[u] = leaves[u]
      /\ DOMAIN root' = Threads /\ DOMAIN leaves' = Threads
  BY DEF SplitInto, ReuseInv
<1>2. TrieOK(root'[t], leaves'[t])
  BY <1>1, SplitKeepsTrie DEF ReuseInv
<1> QED
  BY <1>1, <1>2 DEF ReuseInv

\* A hit extends the segment of its line; a store records it and starts another
\* (Stats.h:291-317).
LEMMA HitKeeps ==
  ASSUME StackInv, ReuseInv, NEW t \in Threads, NEW tag \in Tags, NEW is_store \in BOOLEAN,
         InsertSegOnHit(t, tag, is_store)
  PROVE  ReuseInv'
<1> DEFINE bbl == GetCurrent(t)
           seg == Trie!SegInsert(SegmentOf(t, tag), bbl)
           next == IF is_store THEN SegmentAfterStore(seg, bbl) ELSE seg
<1>1. SegOK(seg)
  BY CurrentIsBlock, SegmentOfFacts, SegmentFacts
<1>2. SegOK(SegmentAfterStore(seg, bbl))
  BY <1>1, CurrentIsBlock, SegmentFacts DEF SegmentAfterStore
<1>3. segs' = [segs EXCEPT ![t] = With(@, tag, next)]
  BY DEF InsertSegOnHit
<1>4. is_store => SplitInto(t, seg)
  BY DEF InsertSegOnHit
<1>5. ~is_store => UNCHANGED <<root, leaves>>
  BY DEF InsertSegOnHit
<1> HIDE DEF seg, bbl
<1>6. SegOK(next)
  BY <1>1, <1>2
<1> HIDE DEF next
<1>7. /\ DOMAIN root' = Threads /\ DOMAIN leaves' = Threads
      /\ \A u \in Threads : TrieOK(root'[u], leaves'[u])
  <2>1. CASE is_store
    BY <1>1, <1>4, <2>1, SplitKeeps
  <2>2. CASE ~is_store
    BY <1>5, <2>2 DEF ReuseInv
  <2> QED
    BY <2>1, <2>2
<1>8. /\ DOMAIN segs' = Threads /\ \A u \in Threads : DOMAIN segs'[u] \subseteq Tags
      /\ \A u \in Threads : \A g \in DOMAIN segs'[u] : SegOK(segs'[u][g])
  BY <1>3, <1>6 DEF ReuseInv, With
<1> QED
  BY <1>7, <1>8 DEF ReuseInv

\* A miss records the segment of its line and clears it (Stats.h:319-328).
LEMMA MissKeeps ==
  ASSUME ReuseInv, NEW t \in Threads, NEW tag \in Tags, SplitSegOnMiss(t, tag)
  PROVE  ReuseInv'
<1>1. CASE tag \in DOMAIN segs[t]
  <2>1. SegOK(segs[t][tag]) /\ SegOK(SegmentAfterMiss(segs[t][tag]))
    BY <1>1, SegmentFacts DEF ReuseInv, SegmentAfterMiss
  <2>2. SplitInto(t, segs[t][tag]) /\ segs' = [segs EXCEPT ![t][tag] = SegmentAfterMiss(@)]
    BY <1>1 DEF SplitSegOnMiss
  <2>3. /\ DOMAIN root' = Threads /\ DOMAIN leaves' = Threads
        /\ \A u \in Threads : TrieOK(root'[u], leaves'[u])
    BY <2>1, <2>2, SplitKeeps
  <2>4. /\ DOMAIN segs' = Threads /\ \A u \in Threads : DOMAIN segs'[u] \subseteq Tags
        /\ \A u \in Threads : \A g \in DOMAIN segs'[u] : SegOK(segs'[u][g])
    BY <1>1, <2>1, <2>2 DEF ReuseInv
  <2> QED
    BY <2>3, <2>4 DEF ReuseInv
<1>2. CASE tag \notin DOMAIN segs[t]
  BY <1>2 DEF SplitSegOnMiss, ReuseInv
<1> QED
  BY <1>1, <1>2

\* The trie starts with its root, which no leaf is.
LEMMA ReuseInit == Init => ReuseInv
<1> SUFFICES ASSUME Init PROVE ReuseInv
  OBVIOUS
<1>1. \A t \in Threads : root[t] = [nodes |-> {<< >>}, count |-> << >>] /\ leaves[t] = << >>
  BY DEF Init, Trie!EmptyRoot
<1>2. ASSUME NEW t \in Threads PROVE TrieOK(root[t], leaves[t])
  <2>1. root[t].nodes = {<< >>} /\ root[t].count = << >> /\ leaves[t] = << >>
    BY <1>1
  <2>2. << >> \in Seq(Hashes) /\ << >> \in Seq(Seq(Hashes)) /\ DOMAIN << >> = {}
    OBVIOUS
  <2>3. Range(leaves[t]) = {} /\ DOMAIN leaves[t] = {} /\ DOMAIN root[t].count = {}
    BY <2>1, <2>2 DEF Range
  <2> QED
    BY <2>1, <2>2, <2>3 DEF TrieOK
<1> QED
  BY <1>2 DEF Init, ReuseInv

\* Only accesses touch segments and tries.
LEMMA ReuseStepKeeps == StackInv /\ ReuseInv /\ [Next]_vars => ReuseInv'
<1> SUFFICES ASSUME StackInv, ReuseInv, [Next]_vars PROVE ReuseInv'
  OBVIOUS
<1>1. CASE UNCHANGED reuseVars
  BY <1>1 DEF reuseVars, ReuseInv
<1>2. ASSUME NEW t \in Threads, CallStep(t) PROVE UNCHANGED reuseVars
  BY <1>2 DEF CallStep, BBLStart, BBLEnd, OffloadStart, OffloadEnd
<1>3. ASSUME NEW t \in Threads, TickStep(t) PROVE UNCHANGED reuseVars
  BY <1>3 DEF TickStep, AddTimeInstruction, AddMemory, AddCPUTime, AddOffloadingTime
<1>4. ASSUME NEW t \in Threads, ReuseStep(t) PROVE ReuseInv'
  BY <1>4, HitKeeps, MissKeeps DEF ReuseStep
<1>5. UNCHANGED vars => UNCHANGED reuseVars
  BY DEF vars
<1> QED
  BY <1>1, <1>2, <1>3, <1>4, <1>5 DEF Next

\* Every node of a collector's trie is on the way to a leaf, no leaf is on the way
\* to another one, and _leaves has each of them once.
THEOREM ReuseInvariant == Spec => []ReuseInv
<1>1. StackInv /\ ReuseInv /\ [Next]_vars => ReuseInv'
  BY ReuseStepKeeps
<1> QED
  BY <1>1, ReuseInit, StackInvariant, PTL DEF Spec

\* DeleteTrie, which does not look below a leaf, frees every node, and
\* PrintAllSegments prints no segment twice (DataReuse.h:376-384, 392-398).
THEOREM LeavesTheorem == Spec => []LeavesAreListedOnce
<1>1. ReuseInv => LeavesAreListedOnce
  <2> SUFFICES ASSUME ReuseInv, NEW t \in Threads,
                      NEW leaf \in Range(leaves[t]), NEW node \in root[t].nodes,
                      Trie!IsStrictPrefix(leaf, node)
               PROVE  FALSE
    BY DEF LeavesAreListedOnce, ReuseInv, TrieOK
  <2>1. TrieOK(root[t], leaves[t]) /\ IsLeafPath(leaf)
    BY DEF ReuseInv, TrieOK
  <2>2. leaf \in Seq(Hashes) /\ Len(leaf) >= 2 /\ node \in Seq(Hashes)
    BY <2>1 DEF TrieOK, IsLeafPath
  <2>3. leaf # node /\ StartsWith(node, leaf)
    BY <2>2 DEF Trie!IsStrictPrefix, Trie!IsPrefix, StartsWith
  <2>4. Len(leaf) < Len(node)
    BY <2>2, <2>3 DEF StartsWith
  <2>5. PICK q \in DOMAIN root[t].count : StartsWith(q, node)
    BY <2>1, <2>2, <2>4 DEF TrieOK
  <2>6. IsLeafPath(q) /\ Len(q) \in Nat
    <3>1. IsLeafPath(q)
      BY <2>1, <2>5 DEF TrieOK
    <3> QED
      BY <3>1 DEF IsLeafPath
  <2>7. Len(leaf) < Len(q)
    BY <2>2, <2>4, <2>5, <2>6 DEF StartsWith
  <2>8. \A i \in 1 .. Len(leaf) : i \in 1 .. Len(node) /\ leaf[i] = node[i]
    BY <2>2, <2>3 DEF StartsWith
  <2>9. StartsWith(q, leaf)
    BY <2>2, <2>5, <2>7, <2>8 DEF StartsWith
  <2> QED
    BY <2>1, <2>6, <2>7, <2>9, LeavesAreApart
<1> QED
  BY <1>1, ReuseInvariant, PTL

\* Segments and tries keep their types.
THEOREM ReuseTypeTheorem == Spec => []ReuseTypeOK
<1>1. ReuseInv => ReuseTypeOK
  <2> SUFFICES ASSUME ReuseInv, NEW t \in Threads
               PROVE  /\ DOMAIN segs[t] \subseteq Tags
                      /\ \A tag \in DOMAIN segs[t] : segs[t][tag] \in Trie!Segment
                      /\ \A path \in root[t].nodes : Range(path) \subseteq Hashes
                      /\ Range(leaves[t]) \subseteq root[t].nodes
    BY DEF ReuseTypeOK
  <2>1. TrieOK(root[t], leaves[t])
    BY DEF ReuseInv
  <2>2. \A path \in root[t].nodes : path \in Seq(Hashes)
    BY <2>1 DEF TrieOK
  <2>3. \A path \in root[t].nodes : Range(path) \subseteq Hashes
    BY <2>2 DEF Range
  <2>4. Range(leaves[t]) \subseteq root[t].nodes
    BY <2>1 DEF TrieOK
  <2>5. /\ DOMAIN segs[t] \subseteq Tags
        /\ \A tag \in DOMAIN segs[t] : segs[t][tag] \in Trie!Segment
    BY DEF ReuseInv, SegOK
  <2> QED
    BY <2>3, <2>4, <2>5
<1> QED
  BY <1>1, ReuseInvariant, PTL

\* Every variable of the collector keeps its type, whatever is called.
THEOREM TypeTheorem == Spec => []TypeOK
BY CallTypeInvariant, TickInvariant, ReuseTypeTheorem, PTL DEF TypeOK, TickInv

-----------------------------------------------------------------------------
(***************************************************************************)
(* The refinement: the trie counts the segments of the chains.  A line has *)
(* one segment open, the accesses since the last cut; a store or a miss    *)
(* cuts it off, and of a chain that grows no earlier cut changes.  A leaf  *)
(* stands for one segment, by its path, so its count is the number of cuts *)
(* that closed that segment, whichever lines they were on.                 *)
(***************************************************************************)
(* One chain. *)

\* An instance of ReuseChains has names of its own for the library's operators.
LEMMA ChainOperators ==
  /\ \A f, S : Chains!SumFunctionOnSet(f, S) = SumFunctionOnSet(f, S)
  /\ \A S : Chains!Min(S) = Min(S) /\ Chains!Max(S) = Max(S)
  /\ \A S : Chains!Cardinality(S) = Cardinality(S)
<1>1. \A f, S : Chains!SumFunctionOnSet(f, S) = SumFunctionOnSet(f, S)
  BY DEF Chains!SumFunctionOnSet, SumFunctionOnSet, Chains!FoldFunctionOnSet,
         FoldFunctionOnSet, Chains!MapThenFoldSet, MapThenFoldSet
<1>2. \A S : Chains!Min(S) = Min(S) /\ Chains!Max(S) = Max(S)
  BY DEF Chains!Min, Min, Chains!Max, Max
<1>3. \A S : Chains!Cardinality(S) = Cardinality(S)
  BY DEF Chains!Cardinality, Cardinality
<1> QED
  BY <1>1, <1>2, <1>3

Event == Chains!Access

\* The accesses of the segment that is still open.
OpenAt(c) == {k \in 1 .. Len(c) : c[k].op # "miss" /\ \A m \in k + 1 .. Len(c) : c[m].op = "load"}

\* The collector's segment of a line is the open one of its chain.
IsOpen(seg, c) ==
  /\ seg.count = 1 /\ seg.set = {c[k].bbl : k \in OpenAt(c)}
  /\ \A k \in OpenAt(c) : (\A j \in OpenAt(c) : k <= j) => seg.head = c[k].bbl

\* d is c with one access more, the n-th.
Longer(c, e, d, n) ==
  /\ n \in Nat \ {0} /\ d \in Seq(Event) /\ Len(d) = n /\ Len(c) = n - 1 /\ d[n] = e
  /\ \A k \in 1 .. n - 1 : d[k] = c[k]
  /\ OpenAt(c) \subseteq 1 .. n - 1
  /\ OpenAt(d) = (IF e.op = "load" THEN OpenAt(c) ELSE {})
                   \cup (IF e.op = "miss" THEN {} ELSE {n})

\* One access more extends the open segment, or ends it.
LEMMA OpenGrows ==
  ASSUME NEW c \in Seq(Event), NEW e \in Event, NEW d, d = Append(c, e), NEW n, n = Len(c) + 1
  PROVE  Longer(c, e, d, n)
<1>1. /\ n \in Nat \ {0} /\ d \in Seq(Event) /\ Len(d) = n /\ Len(c) = n - 1 /\ d[n] = e
      /\ \A k \in 1 .. n - 1 : d[k] = c[k]
  OBVIOUS
<1>2. OpenAt(c) \subseteq 1 .. n - 1
  BY DEF OpenAt
<1>3. ASSUME NEW k \in 1 .. n - 1
      PROVE  k \in OpenAt(d) <=> e.op = "load" /\ k \in OpenAt(c)
  <2>1. k \in OpenAt(d) <=> d[k].op # "miss" /\ \A m \in k + 1 .. n : d[m].op = "load"
    BY <1>1 DEF OpenAt
  <2>2. k \in OpenAt(c) <=> c[k].op # "miss" /\ \A m \in k + 1 .. n - 1 : c[m].op = "load"
    BY <1>1 DEF OpenAt
  <2>3. (\A m \in k + 1 .. n : d[m].op = "load")
          <=> e.op = "load" /\ \A m \in k + 1 .. n - 1 : c[m].op = "load"
    <3>1. \A m \in k + 1 .. n : m = n \/ m \in k + 1 .. n - 1
      BY <1>1
    <3>2. n \in k + 1 .. n /\ \A m \in k + 1 .. n - 1 : m \in k + 1 .. n /\ d[m] = c[m]
      BY <1>1
    <3> QED
      BY <1>1, <3>1, <3>2
  <2> QED
    BY <1>1, <2>1, <2>2, <2>3
<1>4. n \in OpenAt(d) <=> e.op # "miss"
  BY <1>1 DEF OpenAt
<1>5. \A k \in OpenAt(d) : k = n \/ k \in 1 .. n - 1
  BY <1>1 DEF OpenAt
<1> QED
  BY <1>1, <1>2, <1>3, <1>4, <1>5 DEF Longer

\* What InsertSegOnHit and SplitSegOnMiss make of the segment of a line.
After(seg, e) ==
  IF e.op = "load" THEN Trie!SegInsert(seg, e.bbl)
  ELSE IF e.op = "store" THEN SegmentAfterStore(Trie!SegInsert(seg, e.bbl), e.bbl)
  ELSE SegmentAfterMiss(seg)

\* The segment of a line stays the open one of its chain (Stats.h:291-328).
LEMMA OpenKeeps ==
  ASSUME NEW c \in Seq(Event), NEW e \in Event, NEW seg \in Trie!Segment, IsOpen(seg, c)
  PROVE  IsOpen(After(seg, e), Append(c, e))
<1>1. PICK d : d = Append(c, e)
  OBVIOUS
<1>2. PICK n : n = Len(c) + 1
  OBVIOUS
<1>3. /\ n \in Nat \ {0} /\ d \in Seq(Event) /\ Len(d) = n /\ d[n] = e
      /\ \A k \in 1 .. n - 1 : d[k] = c[k]
      /\ OpenAt(c) \subseteq 1 .. n - 1
      /\ OpenAt(d) = (IF e.op = "load" THEN OpenAt(c) ELSE {})
                       \cup (IF e.op = "miss" THEN {} ELSE {n})
  <2>1. Longer(c, e, d, n)
    BY <1>1, <1>2, OpenGrows
  <2> QED
    BY <2>1 DEF Longer
<1>4. e.op \in {"load", "store", "miss"}
  BY DEF Event, Chains!Access, Chains!Op
<1>5. PICK new : new = After(seg, e)
  OBVIOUS
<1>6. seg.count = 1 /\ seg.set = {c[k].bbl : k \in OpenAt(c)}
  BY DEF IsOpen
<1>7. CASE e.op = "load"
  <2>1. /\ new.count = 1 /\ new.set = seg.set \cup {e.bbl}
        /\ new.head = IF seg.set = {} THEN e.bbl ELSE seg.head
    BY <1>5, <1>6, <1>7 DEF After, Trie!SegInsert, Trie!Segment
  <2>2. OpenAt(d) = OpenAt(c) \cup {n}
    BY <1>3, <1>7
  <2>3. new.set = {d[k].bbl : k \in OpenAt(d)}
    BY <1>3, <1>6, <2>1, <2>2
  <2>4. ASSUME NEW k \in OpenAt(d), \A j \in OpenAt(d) : k <= j PROVE new.head = d[k].bbl
    <3>1. CASE OpenAt(c) = {}
      BY <1>3, <1>6, <2>1, <2>2, <3>1
    <3>2. CASE OpenAt(c) # {}
      <4>1. PICK j \in OpenAt(c) : TRUE
        BY <3>2
      <4>2. k <= j /\ j \in 1 .. n - 1 /\ (k = n \/ k \in OpenAt(c))
        BY <1>3, <2>2, <2>4, <4>1
      <4>3. k \in OpenAt(c) /\ \A i \in OpenAt(c) : k <= i
        BY <1>3, <2>2, <2>4, <4>2
      <4>4. seg.head = c[k].bbl
        BY <4>3 DEF IsOpen
      <4>5. seg.set # {}
        BY <1>6, <4>1
      <4>6. d[k] = c[k]
        BY <1>3, <4>3
      <4> QED
        BY <2>1, <4>4, <4>5, <4>6
    <3> QED
      BY <3>1, <3>2
  <2> QED
    BY <1>1, <1>5, <2>1, <2>3, <2>4 DEF IsOpen
<1>8. CASE e.op = "store"
  <2>1. new.count = 1 /\ new.set = {e.bbl} /\ new.head = e.bbl
    BY <1>5, <1>8 DEF After, SegmentAfterStore, Trie!SegClear, Trie!SegInsert, Trie!Segment
  <2>2. OpenAt(d) = {n}
    BY <1>3, <1>8
  <2> QED
    BY <1>1, <1>3, <1>5, <2>1, <2>2 DEF IsOpen
<1>9. CASE e.op = "miss"
  <2>1. new.count = 1 /\ new.set = {}
    BY <1>5, <1>9 DEF After, SegmentAfterMiss, Trie!SegClear, Trie!Segment
  <2>2. OpenAt(d) = {}
    BY <1>3, <1>9
  <2> QED
    BY <1>1, <1>5, <2>1, <2>2 DEF IsOpen
<1> QED
  BY <1>4, <1>7, <1>8, <1>9

\* The segment that is closed when an access of the kind e ends the open one.
Closed(seg, e) == IF e.op = "store" THEN Trie!SegInsert(seg, e.bbl) ELSE seg

\* A chain that is one access longer: what was cut stays, and a store or miss
\* cuts off the segment that was open.
CutsGrew(c, d, n, closed) ==
  /\ n \notin Chains!CutsOf(c)
  /\ \A i \in Chains!CutsOf(c) : Chains!SegmentAt(d, i) = Chains!SegmentAt(c, i)
  /\ Chains!CutsOf(d) = Chains!CutsOf(c) \cup
       (IF d[n].op # "load" /\ Trie!Recorded(closed) THEN {n} ELSE {})
  /\ d[n].op # "load" =>
       /\ Chains!SegmentAt(d, n).set = closed.set
       /\ closed.set # {} => Chains!SegmentAt(d, n).head = closed.head

\* Accesses stand for one thread each, so that each segment weighs one.
LEMMA WeightIsOne ==
  ASSUME NEW c \in Seq(Event), NEW i \in 1 .. Len(c)
  PROVE  Chains!WeightAt(c, i) = 1
<1>1. \A k \in Chains!MembersAt(c, i) : c[k].weight = 1
  <2>1. \A k \in 1 .. i : c[k] \in Event
    OBVIOUS
  <2>2. \A k \in 1 .. i : c[k].weight = 1
    BY <2>1 DEF Event, Chains!Access
  <2> QED
    BY <2>2 DEF Chains!MembersAt
<1>2. {1} \cup {c[k].weight : k \in Chains!MembersAt(c, i)} = {1}
  BY <1>1
<1>3. Max({1}) = 1
  BY DEF Max
<1> QED
  BY <1>2, <1>3, ChainOperators DEF Chains!WeightAt

\* What a cut closes is what the collector has for the line (Stats.h:291-328).
LEMMA CutsGrow ==
  ASSUME NEW c \in Seq(Event), NEW e \in Event, NEW seg \in Trie!Segment, IsOpen(seg, c),
         NEW d, d = Append(c, e), NEW n, n = Len(c) + 1
  PROVE  CutsGrew(c, d, n, Closed(seg, e))
<1>1. /\ n \in Nat \ {0} /\ d \in Seq(Event) /\ Len(d) = n /\ Len(c) = n - 1 /\ d[n] = e
      /\ \A k \in 1 .. n - 1 : d[k] = c[k]
      /\ OpenAt(c) \subseteq 1 .. n - 1
  <2>1. Longer(c, e, d, n)
    BY OpenGrows
  <2> QED
    BY <2>1 DEF Longer
<1>2. \A i \in Chains!CutsOf(c) : i \in 1 .. n - 1
  BY <1>1 DEF Chains!CutsOf
<1>3. ASSUME NEW i \in 1 .. n - 1
      PROVE  Chains!MembersAt(d, i) = Chains!MembersAt(c, i)
             /\ Chains!SegmentAt(d, i) = Chains!SegmentAt(c, i)
  <2>1. \A k \in 1 .. i : d[k] = c[k] /\ \A m \in k + 1 .. i - 1 : d[m] = c[m]
    BY <1>1
  <2>2. Chains!MembersAt(d, i) = Chains!MembersAt(c, i)
    BY <2>1 DEF Chains!MembersAt
  <2>3. \A k \in Chains!MembersAt(c, i) : d[k] = c[k]
    BY <2>1 DEF Chains!MembersAt
  <2>4. {d[k].bbl : k \in Chains!MembersAt(d, i)} = {c[k].bbl : k \in Chains!MembersAt(c, i)}
    BY <2>2, <2>3
  <2>5. Chains!MembersAt(c, i) # {} =>
          d[Min(Chains!MembersAt(d, i))] = c[Min(Chains!MembersAt(c, i))]
    <3> SUFFICES ASSUME Chains!MembersAt(c, i) # {}
                 PROVE  d[Min(Chains!MembersAt(d, i))] = c[Min(Chains!MembersAt(c, i))]
      OBVIOUS
    <3>1. Chains!MembersAt(c, i) \subseteq 1 .. i
      BY DEF Chains!MembersAt
    <3>2. IsFiniteSet(1 .. i)
      BY FS_Interval
    <3>3. IsFiniteSet(Chains!MembersAt(c, i)) /\ Chains!MembersAt(c, i) \in SUBSET Int
      BY <3>1, <3>2, FS_Subset
    <3>4. Min(Chains!MembersAt(c, i)) \in Chains!MembersAt(c, i)
      BY <3>3, LeastAndGreatest
    <3> QED
      BY <2>2, <2>3, <3>4
  <2> QED
    BY <2>2, <2>4, <2>5, ChainOperators DEF Chains!SegmentAt
<1>4. Chains!MembersAt(d, n) = OpenAt(c) \cup (IF e.op = "miss" THEN {} ELSE {n})
  <2>1. ASSUME NEW k \in 1 .. n - 1 PROVE k \in Chains!MembersAt(d, n) <=> k \in OpenAt(c)
    <3>1. k \in Chains!MembersAt(d, n)
            <=> d[k].op # "miss" /\ \A m \in k + 1 .. n - 1 : d[m].op = "load"
      BY <1>1 DEF Chains!MembersAt
    <3>2. k \in OpenAt(c) <=> c[k].op # "miss" /\ \A m \in k + 1 .. n - 1 : c[m].op = "load"
      BY <1>1 DEF OpenAt
    <3>3. d[k] = c[k] /\ \A m \in k + 1 .. n - 1 : d[m] = c[m]
      BY <1>1
    <3> QED
      BY <3>1, <3>2, <3>3
  <2>2. n \in Chains!MembersAt(d, n) <=> e.op # "miss"
    BY <1>1 DEF Chains!MembersAt
  <2>3. \A k \in Chains!MembersAt(d, n) : k = n \/ k \in 1 .. n - 1
    BY <1>1 DEF Chains!MembersAt
  <2> QED
    BY <1>1, <2>1, <2>2, <2>3
<1>5. seg.set = {c[k].bbl : k \in OpenAt(c)}
  BY DEF IsOpen
<1>6. PICK closed : closed = Closed(seg, e)
  OBVIOUS
<1>7. ASSUME e.op # "load"
      PROVE  /\ Chains!SegmentAt(d, n).set = closed.set
             /\ closed.set # {} => Chains!SegmentAt(d, n).head = closed.head
  <2>1. PICK members : members = Chains!MembersAt(d, n)
    OBVIOUS
  <2>2. /\ Chains!SegmentAt(d, n).set = {d[k].bbl : k \in members}
        /\ members # {} => Chains!SegmentAt(d, n).head = d[Min(members)].bbl
    BY <2>1, ChainOperators DEF Chains!SegmentAt
  <2>3. e.op \in {"store", "miss"}
    BY <1>7 DEF Event, Chains!Access, Chains!Op
  <2>4. ASSUME members # {} PROVE Min(members) \in members /\ \A k \in members : Min(members) <= k
    <3>1. members \in SUBSET 1 .. n
      BY <2>1 DEF Chains!MembersAt
    <3>2. IsFiniteSet(1 .. n) /\ 1 .. n \subseteq Int
      <4>1. 1 \in Int /\ n \in Int
        BY <1>1
      <4> QED
        BY <4>1, FS_Interval
    <3>3. IsFiniteSet(members) /\ members \in SUBSET Int
      BY <3>1, <3>2, FS_Subset
    <3> QED
      BY <2>4, <3>3, LeastAndGreatest
  <2>5. OpenAt(c) # {} => \E k \in OpenAt(c) : \A j \in OpenAt(c) : k <= j
    <3>1. IsFiniteSet(1 .. n - 1) /\ 1 .. n - 1 \subseteq Int
      <4>1. 1 \in Int /\ n - 1 \in Int
        BY <1>1
      <4> QED
        BY <4>1, FS_Interval
    <3>2. IsFiniteSet(OpenAt(c)) /\ OpenAt(c) \in SUBSET Int
      BY <1>1, <3>1, FS_Subset
    <3> QED
      BY <3>2, LeastAndGreatest
  <2>6. ASSUME OpenAt(c) # {}
        PROVE  Chains!SegmentAt(d, n).head = seg.head
    <3>1. PICK k \in OpenAt(c) : \A j \in OpenAt(c) : k <= j
      BY <2>5, <2>6
    <3>2. members # {} /\ \A j \in members : j = n \/ j \in OpenAt(c)
      BY <1>4, <2>1, <2>6
    <3>3. Min(members) <= k /\ k \in 1 .. n - 1 /\ k \in members
      BY <1>1, <1>4, <2>1, <2>4, <3>1, <3>2
    <3>4. Min(members) \in OpenAt(c) /\ Min(members) = k
      BY <1>1, <2>4, <3>1, <3>2, <3>3
    <3>5. seg.head = c[k].bbl /\ d[k] = c[k]
      BY <1>1, <3>1, <3>3 DEF IsOpen
    <3> QED
      BY <2>2, <3>2, <3>4, <3>5
  <2>7. CASE e.op = "store"
    <3>1. closed.set = seg.set \cup {e.bbl} /\ closed.head = IF seg.set = {} THEN e.bbl ELSE seg.head
      BY <1>6, <2>7 DEF Closed, Trie!SegInsert, Trie!Segment
    <3>2. members = OpenAt(c) \cup {n}
      BY <1>4, <2>1, <2>7
    <3>3. {d[k].bbl : k \in members} = closed.set
      BY <1>1, <1>5, <3>1, <3>2
    <3>4. OpenAt(c) = {} => Min(members) = n
      BY <2>4, <3>2
    <3>5. (seg.set = {}) <=> (OpenAt(c) = {})
      BY <1>5
    <3>6. Chains!SegmentAt(d, n).head = closed.head
      <4>1. CASE OpenAt(c) = {}
        BY <1>1, <2>2, <3>1, <3>2, <3>4, <3>5, <4>1
      <4>2. CASE OpenAt(c) # {}
        BY <2>6, <3>1, <3>5, <4>2
      <4> QED
        BY <4>1, <4>2
    <3> QED
      BY <2>2, <3>3, <3>6
  <2>8. CASE e.op = "miss"
    <3>1. closed = seg /\ members = OpenAt(c)
      BY <1>4, <1>6, <2>1, <2>8 DEF Closed
    <3>2. {d[k].bbl : k \in members} = closed.set
      BY <1>1, <1>5, <3>1
    <3>3. closed.set # {} => OpenAt(c) # {}
      BY <1>5, <3>1
    <3> QED
      BY <2>2, <2>6, <3>1, <3>2, <3>3
  <2> QED
    BY <2>3, <2>7, <2>8
<1>8. Chains!CutsOf(d) = Chains!CutsOf(c) \cup (IF d[n].op # "load" /\ Trie!Recorded(closed) THEN {n} ELSE {})
  <2>1. ASSUME NEW i \in 1 .. n - 1 PROVE i \in Chains!CutsOf(d) <=> i \in Chains!CutsOf(c)
    <3>1. Chains!SegmentAt(d, i) = Chains!SegmentAt(c, i) /\ d[i] = c[i]
      BY <1>1, <1>3
    <3> QED
      BY <1>1, <3>1 DEF Chains!CutsOf
  <2>2. n \in Chains!CutsOf(d) <=> d[n].op # "load" /\ Trie!Recorded(closed)
    <3>1. n \in Chains!CutsOf(d)
            <=> d[n].op # "load" /\ Cardinality(Chains!SegmentAt(d, n).set) > 1
      BY <1>1, ChainOperators DEF Chains!CutsOf
    <3>2. Trie!Recorded(closed) <=> Cardinality(closed.set) > 1
      BY TrieCardinality DEF Trie!Recorded
    <3> QED
      BY <1>1, <1>7, <3>1, <3>2
  <2>3. \A i \in Chains!CutsOf(d) : i = n \/ i \in 1 .. n - 1
    BY <1>1 DEF Chains!CutsOf
  <2> QED
    BY <1>2, <2>1, <2>2, <2>3
<1>9. n \notin Chains!CutsOf(c)
  BY <1>1, <1>2
<1> QED
  BY <1>1, <1>2, <1>3, <1>6, <1>7, <1>8, <1>9 DEF CutsGrew

-----------------------------------------------------------------------------
(* All chains of a thread, and its trie. *)

\* The path that the trie has for the segment closed by a cut.
CutPath(chains, cut) == Trie!LeafPath(Chains!SegmentCut(chains, cut))

WeightOf(chains) ==
  [cut \in Chains!Cuts(chains) |-> Chains!WeightAt(chains[cut[1]], cut[2])]

\* The trie has the path of every segment closed, with the weights of its cuts.
CountsOK(rt, chains) ==
  /\ IsFiniteSet(Chains!Cuts(chains))
  /\ DOMAIN rt.count = {CutPath(chains, cut) : cut \in Chains!Cuts(chains)}
  /\ \A p \in DOMAIN rt.count :
       rt.count[p] = SumFunctionOnSet(WeightOf(chains),
                                      {cut \in Chains!Cuts(chains) : CutPath(chains, cut) = p})

\* What an access adds to the cuts of a thread's chains: the cut at, if it ends
\* the open segment, closed, and that is to be recorded.
CutsGo(chains, new, at, ends, closed) ==
  /\ at \notin Chains!Cuts(chains)
  /\ \A cut \in Chains!Cuts(chains) :
       Chains!SegmentCut(new, cut) = Chains!SegmentCut(chains, cut) /\ WeightOf(chains)[cut] = 1
  /\ \A cut \in Chains!Cuts(new) : WeightOf(new)[cut] = 1
  /\ ~ends \/ ~Trie!Recorded(closed) => Chains!Cuts(new) = Chains!Cuts(chains)
  /\ ends /\ Trie!Recorded(closed) =>
       /\ Chains!Cuts(new) = Chains!Cuts(chains) \cup {at}
       /\ Chains!SegmentCut(new, at).set = closed.set
       /\ closed.set # {} => Chains!SegmentCut(new, at).head = closed.head

\* The chains of the other lines stay as they were cut (Stats.h:291-328).
LEMMA LineCuts ==
  ASSUME NEW chains \in [Tags -> Seq(Event)], NEW g \in Tags, NEW e \in Event,
         NEW seg \in Trie!Segment, IsOpen(seg, chains[g]),
         NEW new, new = [chains EXCEPT ![g] = Append(@, e)],
         NEW n, n = Len(chains[g]) + 1, NEW closed, closed = Closed(seg, e)
  PROVE  CutsGo(chains, new, <<g, n>>, e.op # "load", closed)
<1>1. PICK c \in Seq(Event) : c = chains[g]
  OBVIOUS
<1>2. PICK d : d = Append(c, e)
  OBVIOUS
<1>3. d \in Seq(Event) /\ n = Len(c) + 1 /\ d[n] = e
  BY <1>1, <1>2
<1>4. new \in [Tags -> Seq(Event)] /\ new[g] = d /\ \A h \in Tags : h # g => new[h] = chains[h]
  BY <1>1, <1>2, <1>3
<1>5. CutsGrew(c, d, n, closed)
  BY <1>1, <1>2, <1>3, CutsGrow
<1>6. \A cut : cut \in Chains!Cuts(chains)
                 <=> \E h \in Tags : \E i \in Chains!CutsOf(chains[h]) : cut = <<h, i>>
  BY DEF Chains!Cuts
<1>7. \A cut : cut \in Chains!Cuts(new)
                 <=> \E h \in Tags : \E i \in Chains!CutsOf(new[h]) : cut = <<h, i>>
  BY DEF Chains!Cuts
<1>8. <<g, n>> \notin Chains!Cuts(chains)
  BY <1>1, <1>5, <1>6 DEF CutsGrew
<1>9. ASSUME NEW cut \in Chains!Cuts(chains)
      PROVE  Chains!SegmentCut(new, cut) = Chains!SegmentCut(chains, cut) /\ WeightOf(chains)[cut] = 1
  <2>0. PICK h \in Tags : \E i \in Chains!CutsOf(chains[h]) : cut = <<h, i>>
    BY <1>6
  <2>1. PICK i \in Chains!CutsOf(chains[h]) : cut = <<h, i>>
    BY <2>0
  <2>2. cut[1] = h /\ cut[2] = i
    BY <2>1
  <2>3. Chains!SegmentAt(new[h], i) = Chains!SegmentAt(chains[h], i)
    BY <1>1, <1>4, <1>5, <2>1 DEF CutsGrew
  <2>4. chains[h] \in Seq(Event) /\ i \in 1 .. Len(chains[h])
    BY <2>1 DEF Chains!CutsOf
  <2>5. Chains!WeightAt(chains[h], i) = 1
    BY <2>4, WeightIsOne
  <2> QED
    BY <2>2, <2>3, <2>5 DEF Chains!SegmentCut, WeightOf
<1>10. ASSUME NEW cut \in Chains!Cuts(new) PROVE WeightOf(new)[cut] = 1
  <2>0. PICK h \in Tags : \E i \in Chains!CutsOf(new[h]) : cut = <<h, i>>
    BY <1>7
  <2>1. PICK i \in Chains!CutsOf(new[h]) : cut = <<h, i>>
    BY <2>0
  <2>2. cut[1] = h /\ cut[2] = i
    BY <2>1
  <2>3. new[h] \in Seq(Event) /\ i \in 1 .. Len(new[h])
    BY <1>4, <2>1 DEF Chains!CutsOf
  <2>4. Chains!WeightAt(new[h], i) = 1
    BY <2>3, WeightIsOne
  <2> QED
    BY <2>2, <2>4 DEF WeightOf
<1>11. e.op = "load" \/ ~Trie!Recorded(closed) => Chains!Cuts(new) = Chains!Cuts(chains)
  <2> SUFFICES ASSUME e.op = "load" \/ ~Trie!Recorded(closed)
               PROVE  Chains!Cuts(new) = Chains!Cuts(chains)
    OBVIOUS
  <2>1. \A h \in Tags : Chains!CutsOf(new[h]) = Chains!CutsOf(chains[h])
    BY <1>1, <1>3, <1>4, <1>5 DEF CutsGrew
  <2> QED
    BY <2>1, <1>6, <1>7
<1>12. ASSUME e.op # "load", Trie!Recorded(closed)
       PROVE  /\ Chains!Cuts(new) = Chains!Cuts(chains) \cup {<<g, n>>}
              /\ Chains!SegmentCut(new, <<g, n>>).set = closed.set
              /\ closed.set # {} => Chains!SegmentCut(new, <<g, n>>).head = closed.head
  <2>1. /\ \A h \in Tags : h # g => Chains!CutsOf(new[h]) = Chains!CutsOf(chains[h])
        /\ Chains!CutsOf(new[g]) = Chains!CutsOf(chains[g]) \cup {n}
    BY <1>1, <1>3, <1>4, <1>5, <1>12 DEF CutsGrew
  <2>2. Chains!Cuts(new) = Chains!Cuts(chains) \cup {<<g, n>>}
    <3>1. <<g, n>> \in Chains!Cuts(new)
      BY <2>1, <1>7
    <3>2. \A cut \in Chains!Cuts(chains) : cut \in Chains!Cuts(new)
      BY <2>1, <1>6, <1>7
    <3>3. \A cut \in Chains!Cuts(new) : cut = <<g, n>> \/ cut \in Chains!Cuts(chains)
      BY <2>1, <1>6, <1>7
    <3> QED
      BY <3>1, <3>2, <3>3
  <2>3. Chains!SegmentCut(new, <<g, n>>) = Chains!SegmentAt(d, n)
    BY <1>4 DEF Chains!SegmentCut
  <2> QED
    BY <1>3, <1>5, <1>12, <2>2, <2>3 DEF CutsGrew
<1> QED
  BY <1>8, <1>9, <1>10, <1>11, <1>12 DEF CutsGo

\* UpdateTrie counts the segment that the cut closes (DataReuse.h:353-388).
LEMMA CountsGrow ==
  ASSUME NEW rt, NEW chains, CountsOK(rt, chains),
         NEW new, NEW at, NEW ends \in BOOLEAN, NEW closed, CutsGo(chains, new, at, ends, closed),
         SegOK(closed), closed.count = 1,
         NEW nrt, nrt = IF ends THEN Trie!UpdateTrie(rt, closed) ELSE rt
  PROVE  CountsOK(nrt, new)
<1>1. PICK cuts : cuts = Chains!Cuts(chains)
  OBVIOUS
<1>2. PICK more : more = Chains!Cuts(new)
  OBVIOUS
<1>3. PICK f : f = WeightOf(chains)
  OBVIOUS
<1>4. PICK h : h = WeightOf(new)
  OBVIOUS
<1>5. /\ at \notin cuts
      /\ \A cut \in cuts : CutPath(new, cut) = CutPath(chains, cut) /\ f[cut] = 1
      /\ \A cut \in more : h[cut] = 1
  BY <1>1, <1>2, <1>3, <1>4 DEF CutsGo, CutPath
<1>6. /\ IsFiniteSet(cuts)
      /\ DOMAIN rt.count = {CutPath(chains, cut) : cut \in cuts}
      /\ \A p \in DOMAIN rt.count :
           rt.count[p] = SumFunctionOnSet(f, {cut \in cuts : CutPath(chains, cut) = p})
  BY <1>1, <1>3 DEF CountsOK
<1>7. ASSUME NEW p, more = cuts \/ more = cuts \cup {at}
      PROVE  SumFunctionOnSet(h, {cut \in cuts : CutPath(new, cut) = p})
               = SumFunctionOnSet(f, {cut \in cuts : CutPath(chains, cut) = p})
  <2>1. PICK S : S = {cut \in cuts : CutPath(chains, cut) = p}
    OBVIOUS
  <2>2. {cut \in cuts : CutPath(new, cut) = p} = S
    BY <1>5, <2>1
  <2>3. IsFiniteSet(S)
    BY <1>6, <2>1, FS_Subset
  <2>4. \A cut \in S : f[cut] \in Int /\ h[cut] = f[cut]
    BY <1>5, <1>7, <2>1
  <2>5. SumFunctionOnSet(h, S) = SumFunctionOnSet(f, S)
    BY <2>3, <2>4, SumSame
  <2> QED
    BY <2>1, <2>2, <2>5
<1>8. CASE ~ends \/ ~Trie!Recorded(closed)
  <2>1. more = cuts
    BY <1>1, <1>2, <1>8 DEF CutsGo
  <2>2. nrt = rt
    BY <1>8 DEF Trie!UpdateTrie
  <2>3. {CutPath(new, cut) : cut \in more} = {CutPath(chains, cut) : cut \in cuts}
    BY <1>5, <2>1
  <2>4. ASSUME NEW p \in DOMAIN nrt.count
        PROVE  nrt.count[p] = SumFunctionOnSet(h, {cut \in more : CutPath(new, cut) = p})
    BY <1>6, <1>7, <2>1, <2>2
  <2> QED
    BY <1>2, <1>4, <1>6, <2>1, <2>2, <2>3, <2>4 DEF CountsOK
<1>9. CASE ends /\ Trie!Recorded(closed)
  <2>1. /\ more = cuts \cup {at} /\ Chains!SegmentCut(new, at).set = closed.set
        /\ closed.set # {} => Chains!SegmentCut(new, at).head = closed.head
    BY <1>1, <1>2, <1>9 DEF CutsGo
  <2>2. PICK q : q = Trie!LeafPath(closed)
    OBVIOUS
  <2>3. CutPath(new, at) = q
    <3>1. closed.set # {}
      BY <1>9, TrieCardinality, FS_EmptySet DEF Trie!Recorded
    <3> QED
      BY <2>1, <2>2, <3>1 DEF CutPath, Trie!LeafPath
  <2>4. /\ DOMAIN nrt.count = DOMAIN rt.count \cup {q}
        /\ \A p \in DOMAIN nrt.count :
             nrt.count[p] = Trie!LeafCount(rt, p) + IF p = q THEN 1 ELSE 0
    BY <1>9, <2>2 DEF Trie!UpdateTrie
  <2>5. IsFiniteSet(more)
    BY <1>6, <2>1, FS_AddElement
  <2>6. DOMAIN nrt.count = {CutPath(new, cut) : cut \in more}
    <3>1. \A cut \in cuts : CutPath(new, cut) \in DOMAIN rt.count
      BY <1>5, <1>6
    <3>2. \A p \in DOMAIN rt.count : \E cut \in cuts : p = CutPath(new, cut)
      BY <1>5, <1>6
    <3> QED
      BY <2>1, <2>3, <2>4, <3>1, <3>2
  <2>7. ASSUME NEW p \in DOMAIN nrt.count
        PROVE  nrt.count[p] = SumFunctionOnSet(h, {cut \in more : CutPath(new, cut) = p})
    <3>1. PICK S : S = {cut \in cuts : CutPath(new, cut) = p}
      OBVIOUS
    <3>0. PICK T : T = {cut \in more : CutPath(new, cut) = p}
      OBVIOUS
    <3>2. IsFiniteSet(S) /\ at \notin S
      BY <1>5, <1>6, <3>1, FS_Subset
    <3>3. SumFunctionOnSet(h, S) = Trie!LeafCount(rt, p)
      <4>1. SumFunctionOnSet(h, S) = SumFunctionOnSet(f, {cut \in cuts : CutPath(chains, cut) = p})
        BY <1>7, <2>1, <3>1
      <4>2. CASE p \in DOMAIN rt.count
        BY <1>6, <4>1, <4>2 DEF Trie!LeafCount
      <4>3. CASE p \notin DOMAIN rt.count
        <5>1. S = {}
          BY <1>5, <1>6, <3>1, <4>3
        <5> QED
          BY <4>3, <5>1, SumEmpty DEF Trie!LeafCount
      <4> QED
        BY <4>2, <4>3
    <3>4. \A cut \in S \cup {at} : h[cut] = 1 /\ h[cut] \in Int
      BY <1>5, <2>1, <3>1
    <3>5. SumFunctionOnSet(h, S) \in Int
      BY <3>2, <3>4, SumInt
    <3>6. CASE p = q
      <4>1. T = S \cup {at}
        BY <1>5, <2>1, <2>3, <3>0, <3>1, <3>6
      <4>2. SumFunctionOnSet(h, S \cup {at}) = h[at] + SumFunctionOnSet(h, S)
        BY <3>2, <3>4, SumWith
      <4>3. h[at] = 1 /\ nrt.count[p] = Trie!LeafCount(rt, p) + 1
        BY <2>4, <3>4, <3>6
      <4>4. nrt.count[p] = SumFunctionOnSet(h, T)
        BY <3>3, <3>5, <4>1, <4>2, <4>3
      <4> QED
        BY <3>0, <4>4
    <3>7. CASE p # q
      <4>1. T = S
        BY <1>5, <2>1, <2>3, <3>0, <3>1, <3>7
      <4>2. nrt.count[p] = Trie!LeafCount(rt, p) + 0
        BY <2>4, <3>7
      <4>3. nrt.count[p] = SumFunctionOnSet(h, T)
        BY <3>3, <3>5, <4>1, <4>2
      <4> QED
        BY <3>0, <4>3
    <3> QED
      BY <3>6, <3>7
  <2> QED
    BY <1>2, <1>4, <2>5, <2>6, <2>7 DEF CountsOK
<1> QED
  BY <1>8, <1>9

\* The path of a leaf is the segment, its set in order and its head once more.
LEMMA PathSegment ==
  ASSUME NEW S \in SUBSET Hashes, NEW h \in S, NEW p, p = Append(Trie!Sorted(S), h)
  PROVE  Top(p) = h /\ Range(p) = S
<1>1. IsFiniteSet(S)
  BY HashesAreFinite, FS_Subset
<1>2. PICK n \in Nat : n = Cardinality(S)
  BY <1>1, FS_CardinalityType
<1>3. PICK s : s = Trie!Sorted(S)
  OBVIOUS
<1>4. s \in [1 .. n -> S] /\ \A x \in S : \E i \in 1 .. n : s[i] = x
  BY <1>1, <1>2, <1>3, SortedFacts
<1>5. s \in Seq(S) /\ Len(s) = n /\ p = Append(s, h)
  BY <1>3, <1>4
<1>6. Len(p) = n + 1 /\ p[n + 1] = h /\ DOMAIN p = 1 .. n + 1 /\ \A i \in 1 .. n : p[i] = s[i]
  BY <1>5
<1>7. Top(p) = h
  BY <1>6 DEF Top
<1>8. \A i \in 1 .. n + 1 : p[i] \in S
  <2>1. \A i \in 1 .. n + 1 : i = n + 1 \/ i \in 1 .. n
    OBVIOUS
  <2> QED
    BY <1>4, <1>6, <2>1
<1>9. \A x \in S : \E i \in 1 .. n + 1 : p[i] = x
  <2>1. 1 .. n \subseteq 1 .. n + 1
    OBVIOUS
  <2> QED
    BY <1>4, <1>6, <2>1
<1> QED
  BY <1>6, <1>7, <1>8, <1>9 DEF Range

\* A cut closes a segment of two blocks or more of its line, the head among them.
LEMMA CutSegments ==
  ASSUME NEW chains \in [Tags -> Seq(Event)], NEW cut \in Chains!Cuts(chains),
         NEW s, s = Chains!SegmentCut(chains, cut)
  PROVE  /\ s = [head |-> s.head, set |-> s.set] /\ s.set \in SUBSET Hashes /\ s.head \in s.set
         /\ WeightOf(chains)[cut] = 1
         /\ Cardinality(s.set) > 1
         /\ \A b \in s.set : \E g \in Tags : \E k \in 1 .. Len(chains[g]) : chains[g][k].bbl = b
<1>1. PICK g \in Tags : \E i \in Chains!CutsOf(chains[g]) : cut = <<g, i>>
  BY DEF Chains!Cuts
<1>2. PICK i \in Chains!CutsOf(chains[g]) : cut = <<g, i>>
  BY <1>1
<1>3. PICK c \in Seq(Event) : c = chains[g]
  OBVIOUS
<1>4. s = Chains!SegmentAt(c, i)
  BY <1>2, <1>3 DEF Chains!SegmentCut
<1>5. i \in 1 .. Len(c) /\ Cardinality(s.set) > 1
  BY <1>2, <1>3, <1>4, ChainOperators DEF Chains!CutsOf
<1>6. PICK members : members = Chains!MembersAt(c, i)
  OBVIOUS
<1>7. s = [head |-> IF members = {} THEN 0 ELSE c[Min(members)].bbl, set |-> {c[k].bbl : k \in members}]
  BY <1>4, <1>6, ChainOperators DEF Chains!SegmentAt
<1>8. members \subseteq 1 .. Len(c)
  BY <1>5, <1>6 DEF Chains!MembersAt
<1>9. members # {}
  <2>1. s.set # {}
    <3>1. PICK S : S = s.set
      OBVIOUS
    <3>2. Cardinality(S) # 0
      BY <1>5, <3>1
    <3>3. S # {}
      BY <3>2, FS_EmptySet, Zenon
    <3> QED
      BY <3>1, <3>3
  <2> QED
    BY <1>7, <2>1
<1>10. Min(members) \in members
  <2>1. 1 \in Int /\ Len(c) \in Int /\ 1 .. Len(c) \subseteq Int
    OBVIOUS
  <2>2. IsFiniteSet(1 .. Len(c))
    BY <2>1, FS_Interval
  <2>3. IsFiniteSet(members) /\ members \in SUBSET Int
    BY <1>8, <2>1, <2>2, FS_Subset
  <2> QED
    BY <1>9, <2>3, LeastAndGreatest
<1>11. \A k \in members : c[k].bbl \in Hashes
  <2>1. \A k \in 1 .. Len(c) : c[k] \in Event
    OBVIOUS
  <2>2. \A k \in 1 .. Len(c) : c[k].bbl \in Hashes
    BY <2>1 DEF Event, Chains!Access
  <2> QED
    BY <1>8, <2>2
<1>12. WeightOf(chains)[cut] = 1
  <2>1. Chains!WeightAt(c, i) = 1
    BY <1>5, WeightIsOne
  <2>2. cut[1] = g /\ cut[2] = i
    BY <1>2
  <2> QED
    BY <1>3, <2>1, <2>2 DEF WeightOf
<1>13. \A b \in s.set : \E k \in 1 .. Len(chains[g]) : chains[g][k].bbl = b
  BY <1>3, <1>7, <1>8
<1>14. \A b \in s.set : \E h \in Tags : \E k \in 1 .. Len(chains[h]) : chains[h][k].bbl = b
  BY <1>13
<1>15. s = [head |-> s.head, set |-> s.set] /\ s.set \in SUBSET Hashes /\ s.head \in s.set
  BY <1>7, <1>9, <1>10, <1>11
<1> QED
  BY <1>5, <1>12, <1>14, <1>15

\* The segment that a leaf's path stands for.
SegmentOfPath(p) == [head |-> Top(p), set |-> Range(p)]

\* What the leaves P of a trie say of each segment.
ExportOf(rt, P) ==
  [s \in {SegmentOfPath(p) : p \in P} |->
     SumFunctionOnSet(rt.count, {p \in P : SegmentOfPath(p) = s})]

\* The leaves say of each segment how often it was closed.
LEMMA ExportsCuts ==
  ASSUME NEW chains \in [Tags -> Seq(Event)], NEW rt, CountsOK(rt, chains),
         NEW P, P = DOMAIN rt.count
  PROVE  ExportOf(rt, P) = Chains!SegmentsOf(chains)
<1>1. PICK cuts : cuts = Chains!Cuts(chains)
  OBVIOUS
<1>2. PICK f : f = WeightOf(chains)
  OBVIOUS
<1>3. /\ P = {CutPath(chains, cut) : cut \in cuts}
      /\ \A p \in P : rt.count[p] = SumFunctionOnSet(f, {cut \in cuts : CutPath(chains, cut) = p})
  BY <1>1, <1>2 DEF CountsOK
<1>4. \A cut \in cuts : SegmentOfPath(CutPath(chains, cut)) = Chains!SegmentCut(chains, cut)
  <2> SUFFICES ASSUME NEW cut \in cuts
               PROVE  SegmentOfPath(CutPath(chains, cut)) = Chains!SegmentCut(chains, cut)
    OBVIOUS
  <2>1. PICK s : s = Chains!SegmentCut(chains, cut)
    OBVIOUS
  <2>2. s = [head |-> s.head, set |-> s.set] /\ s.set \in SUBSET Hashes /\ s.head \in s.set
    BY <1>1, <2>1, CutSegments
  <2>3. PICK p : p = Append(Trie!Sorted(s.set), s.head)
    OBVIOUS
  <2>4. Top(p) = s.head /\ Range(p) = s.set
    BY <2>2, <2>3, PathSegment
  <2>5. CutPath(chains, cut) = p
    BY <2>1, <2>3 DEF CutPath, Trie!LeafPath
  <2> QED
    BY <2>1, <2>2, <2>4, <2>5 DEF SegmentOfPath
<1>5. PICK D : D = {Chains!SegmentCut(chains, cut) : cut \in cuts}
  OBVIOUS
<1>6. {SegmentOfPath(p) : p \in P} = D
  BY <1>3, <1>4, <1>5
<1>7. ASSUME NEW s \in D
      PROVE  SumFunctionOnSet(rt.count, {p \in P : SegmentOfPath(p) = s})
               = SumFunctionOnSet(f, {cut \in cuts : Chains!SegmentCut(chains, cut) = s})
  <2>1. PICK cut \in cuts : s = Chains!SegmentCut(chains, cut)
    BY <1>5
  <2>2. PICK q : q = CutPath(chains, cut)
    OBVIOUS
  <2>3. q \in P /\ SegmentOfPath(q) = s
    BY <1>3, <1>4, <2>1, <2>2
  <2>4. \A other \in cuts : CutPath(chains, other) = q <=> Chains!SegmentCut(chains, other) = s
    BY <1>4, <2>1, <2>2, <2>3 DEF CutPath
  <2>5. {p \in P : SegmentOfPath(p) = s} = {q}
    BY <1>3, <1>4, <2>3, <2>4
  <2>6. rt.count[q] = SumFunctionOnSet(f, {c \in cuts : CutPath(chains, c) = q})
    BY <1>3, <2>3
  <2>7. {c \in cuts : CutPath(chains, c) = q} = {c \in cuts : Chains!SegmentCut(chains, c) = s}
    BY <2>4
  <2>8. SumFunctionOnSet(rt.count, {q}) = rt.count[q]
    <3>1. PICK S : S = {c \in cuts : CutPath(chains, c) = q}
      OBVIOUS
    <3>2. IsFiniteSet(S)
      BY <1>1, <3>1, FS_Subset DEF CountsOK
    <3>3. \A c \in S : f[c] \in Int
      BY <1>1, <1>2, <3>1, CutSegments
    <3>4. rt.count[q] \in Int
      BY <2>6, <3>1, <3>2, <3>3, SumInt
    <3>5. IsFiniteSet({}) /\ q \notin {} /\ \A x \in {} \cup {q} : rt.count[x] \in Int
      BY <3>4, FS_EmptySet
    <3>6. SumFunctionOnSet(rt.count, {} \cup {q}) = rt.count[q] + SumFunctionOnSet(rt.count, {})
      BY <3>5, SumWith
    <3>7. {} \cup {q} = {q}
      OBVIOUS
    <3> QED
      BY <3>4, <3>6, <3>7, SumEmpty
  <2> QED
    BY <2>5, <2>6, <2>7, <2>8
<1>8. Chains!SegmentsOf(chains)
        = [s \in D |-> SumFunctionOnSet(f, {cut \in cuts : Chains!SegmentCut(chains, cut) = s})]
  BY <1>1, <1>2, <1>5, ChainOperators DEF Chains!SegmentsOf, WeightOf
<1> QED
  BY <1>6, <1>7, <1>8 DEF ExportOf

-----------------------------------------------------------------------------
(* The invariant and the refinement. *)

ChainInv ==
  /\ chain \in [Threads -> [Tags -> Seq(Event)]]
  /\ \A t \in Threads : \A g \in Tags : IsOpen(SegmentOf(t, g), chain[t][g])
  /\ \A t \in Threads : CountsOK(root[t], chain[t])

\* Nothing is cut in empty chains.
LEMMA ChainInit == Init => ChainInv
<1> SUFFICES ASSUME Init PROVE ChainInv
  OBVIOUS
<1>1. chain = [t \in Threads |-> [g \in Tags |-> << >>]] /\ << >> \in Seq(Event)
  BY DEF Init
<1>2. OpenAt(<< >>) = {} /\ Chains!CutsOf(<< >>) = {}
  BY DEF OpenAt, Chains!CutsOf
<1>3. ASSUME NEW t \in Threads, NEW g \in Tags PROVE IsOpen(SegmentOf(t, g), chain[t][g])
  <2>1. SegmentOf(t, g) = Trie!NewSegment /\ chain[t][g] = << >>
    BY <1>1 DEF Init, SegmentOf
  <2> QED
    BY <1>2, <2>1 DEF IsOpen, Trie!NewSegment
<1>4. ASSUME NEW t \in Threads PROVE CountsOK(root[t], chain[t])
  <2>1. Chains!Cuts(chain[t]) = {}
    BY <1>1, <1>2 DEF Chains!Cuts
  <2>2. DOMAIN root[t].count = {}
    BY DEF Init, Trie!EmptyRoot
  <2> QED
    BY <2>1, <2>2, FS_EmptySet DEF CountsOK
<1> QED
  BY <1>1, <1>3, <1>4 DEF ChainInv

\* One access: what the collector does is what a cut of the chain does.
LEMMA AccessCounts ==
  ASSUME ReuseInv, ChainInv, NEW t \in Threads, NEW g \in Tags, NEW e \in Event,
         NEW closed, closed = Closed(SegmentOf(t, g), e), SegOK(closed),
         chain' = [chain EXCEPT ![t][g] = Append(@, e)],
         SegmentOf(t, g)' = After(SegmentOf(t, g), e),
         \A u \in Threads : \A h \in Tags :
           (u # t \/ h # g) => SegmentOf(u, h)' = SegmentOf(u, h),
         \A u \in Threads : root'[u] = IF u = t /\ e.op # "load"
                                      THEN Trie!UpdateTrie(root[u], closed) ELSE root[u]
  PROVE  ChainInv'
<1>1. PICK seg : seg = SegmentOf(t, g)
  OBVIOUS
<1>2. seg \in Trie!Segment /\ IsOpen(seg, chain[t][g])
  BY <1>1, SegmentOfFacts DEF ChainInv, SegOK
<1>3. PICK chains : chains = chain[t]
  OBVIOUS
<1>4. PICK new : new = chain'[t]
  OBVIOUS
<1>5. PICK n : n = Len(chains[g]) + 1
  OBVIOUS
<1>6. /\ chains \in [Tags -> Seq(Event)] /\ new = [chains EXCEPT ![g] = Append(@, e)]
      /\ chain' \in [Threads -> [Tags -> Seq(Event)]]
      /\ \A u \in Threads \ {t} : chain'[u] = chain[u]
  BY <1>3, <1>4 DEF ChainInv
<1>7. CutsGo(chains, new, <<g, n>>, e.op # "load", closed)
  BY <1>1, <1>2, <1>3, <1>5, <1>6, LineCuts
<1>8. closed.count = 1
  BY <1>1, <1>2 DEF Closed, IsOpen, Trie!SegInsert, Trie!Segment
<1>9. CountsOK(root'[t], new)
  <2>1. CountsOK(root[t], chains)
    BY <1>3 DEF ChainInv
  <2>2. PICK ends \in BOOLEAN : ends = (e.op # "load")
    OBVIOUS
  <2>3. root'[t] = IF ends THEN Trie!UpdateTrie(root[t], closed) ELSE root[t]
    BY <2>2 DEF ReuseInv
  <2>4. CutsGo(chains, new, <<g, n>>, ends, closed)
    BY <1>7, <2>2
  <2> QED
    BY <1>8, <2>1, <2>3, <2>4, CountsGrow
<1>10. IsOpen(SegmentOf(t, g)', chain'[t][g])
  <2>1. chains[g] \in Seq(Event) /\ chain'[t][g] = Append(chains[g], e)
    BY <1>4, <1>6
  <2>2. IsOpen(After(seg, e), Append(chains[g], e))
    BY <1>2, <1>3, <2>1, OpenKeeps
  <2> QED
    BY <1>1, <2>1, <2>2
<1>11. ASSUME NEW u \in Threads, NEW h \in Tags PROVE IsOpen(SegmentOf(u, h)', chain'[u][h])
  <2>1. CASE u = t /\ h = g
    BY <1>10, <2>1
  <2>2. CASE u # t \/ h # g
    <3>1. SegmentOf(u, h)' = SegmentOf(u, h) /\ IsOpen(SegmentOf(u, h), chain[u][h])
      BY <2>2 DEF ChainInv
    <3>2. chain'[u][h] = chain[u][h]
      BY <1>3, <1>4, <1>6, <2>2
    <3> QED
      BY <3>1, <3>2
  <2> QED
    BY <2>1, <2>2
<1>12. ASSUME NEW u \in Threads PROVE CountsOK(root'[u], chain'[u])
  <2>1. CASE u = t
    BY <1>4, <1>9, <2>1
  <2>2. CASE u # t
    <3>1. root'[u] = root[u] /\ chain'[u] = chain[u]
      BY <1>6, <2>2 DEF ReuseInv
    <3> QED
      BY <3>1 DEF ChainInv
  <2> QED
    BY <2>1, <2>2
<1> QED
  BY <1>6, <1>11, <1>12 DEF ChainInv

\* An access is an event of its line's chain.
LEMMA ObservedEvent ==
  ASSUME StackInv, NEW t \in Threads, NEW op \in Chains!Op
  PROVE  [bbl |-> GetCurrent(t), op |-> op, weight |-> 1] \in Event
BY CurrentIsBlock DEF Event, Chains!Access

\* What a hit makes of the segment of its line is what follows in the chain
\* (Stats.h:291-317).
LEMMA HitCounts ==
  ASSUME StackInv, ReuseInv, ChainInv, NEW t \in Threads, NEW tag \in Tags,
         NEW is_store \in BOOLEAN, InsertSegOnHit(t, tag, is_store)
  PROVE  ChainInv'
<1>1. PICK bbl \in Hashes : bbl = GetCurrent(t)
  BY CurrentIsBlock
<1>2. PICK op \in Chains!Op : op = IF is_store THEN "store" ELSE "load"
  BY DEF Chains!Op
<1>3. PICK e \in Event : e = [bbl |-> bbl, op |-> op, weight |-> 1]
  BY <1>1, <1>2, ObservedEvent
<1>4. PICK old : old = SegmentOf(t, tag)
  OBVIOUS
<1>5. PICK seg : seg = Trie!SegInsert(old, bbl)
  OBVIOUS
<1>6. SegOK(old) /\ SegOK(seg)
  BY <1>1, <1>4, <1>5, SegmentOfFacts, SegmentFacts
<1>7. PICK next : next = IF is_store THEN SegmentAfterStore(seg, bbl) ELSE seg
  OBVIOUS
<1>8. next = After(old, e)
  BY <1>2, <1>3, <1>5, <1>7 DEF After
<1>9. PICK closed : closed = Closed(old, e)
  OBVIOUS
<1>10. SegOK(closed) /\ (is_store => closed = seg)
  BY <1>2, <1>3, <1>5, <1>6, <1>9 DEF Closed
<1>11. segs' = [segs EXCEPT ![t] = With(@, tag, next)]
  BY <1>1, <1>4, <1>5, <1>7 DEF InsertSegOnHit
<1>12. chain' = [chain EXCEPT ![t][tag] = Append(@, e)]
  BY <1>1, <1>2, <1>3 DEF InsertSegOnHit, Observe
<1>13. \A u \in Threads : root'[u] = IF u = t /\ e.op # "load"
                                    THEN Trie!UpdateTrie(root[u], closed) ELSE root[u]
  <2>1. CASE is_store
    <3>1. SplitInto(t, seg)
      BY <1>1, <1>4, <1>5, <2>1 DEF InsertSegOnHit
    <3>2. e.op # "load"
      BY <1>2, <1>3, <2>1
    <3> QED
      BY <1>10, <2>1, <3>1, <3>2 DEF SplitInto, ReuseInv
  <2>2. CASE ~is_store
    <3>1. root' = root /\ e.op = "load"
      BY <1>2, <1>3, <2>2 DEF InsertSegOnHit
    <3> QED
      BY <3>1 DEF ReuseInv
  <2> QED
    BY <2>1, <2>2
<1>14. SegmentOf(t, tag)' = After(SegmentOf(t, tag), e)
  <2>1. segs'[t] = With(segs[t], tag, next)
    BY <1>11 DEF ReuseInv
  <2>2. tag \in DOMAIN segs'[t] /\ segs'[t][tag] = next
    BY <2>1 DEF With
  <2> QED
    BY <1>4, <1>8, <2>2 DEF SegmentOf
<1>15. \A u \in Threads : \A h \in Tags :
         (u # t \/ h # tag) => SegmentOf(u, h)' = SegmentOf(u, h)
  <2> SUFFICES ASSUME NEW u \in Threads, NEW h \in Tags, u # t \/ h # tag
               PROVE  SegmentOf(u, h)' = SegmentOf(u, h)
    OBVIOUS
  <2>1. CASE u # t
    <3>1. segs'[u] = segs[u]
      BY <1>11, <2>1 DEF ReuseInv
    <3> QED
      BY <3>1 DEF SegmentOf
  <2>2. CASE u = t /\ h # tag
    <3>1. segs'[t] = With(segs[t], tag, next)
      BY <1>11 DEF ReuseInv
    <3>2. (h \in DOMAIN segs'[t] <=> h \in DOMAIN segs[t])
            /\ (h \in DOMAIN segs[t] => segs'[t][h] = segs[t][h])
      BY <2>2, <3>1 DEF With
    <3> QED
      BY <2>2, <3>2 DEF SegmentOf
  <2> QED
    BY <2>1, <2>2
<1>16. closed = Closed(SegmentOf(t, tag), e) /\ SegOK(closed)
  BY <1>4, <1>9, <1>10
<1> QED
  BY <1>12, <1>13, <1>14, <1>15, <1>16, AccessCounts

\* What a miss makes of the segment of its line is what follows in the chain; a
\* line without a segment has nothing to close (Stats.h:319-328).
LEMMA MissCounts ==
  ASSUME StackInv, ReuseInv, ChainInv, NEW t \in Threads, NEW tag \in Tags,
         SplitSegOnMiss(t, tag)
  PROVE  ChainInv'
<1>1. PICK e \in Event : e = [bbl |-> GetCurrent(t), op |-> "miss", weight |-> 1]
  BY ObservedEvent DEF Chains!Op
<1>2. PICK old : old = SegmentOf(t, tag)
  OBVIOUS
<1>3. SegOK(old) /\ old = Closed(SegmentOf(t, tag), e) /\ e.op = "miss"
  BY <1>1, <1>2, SegmentOfFacts DEF Closed
<1>4. chain' = [chain EXCEPT ![t][tag] = Append(@, e)]
  BY <1>1 DEF SplitSegOnMiss, Observe
<1>5. \A u \in Threads : root'[u] = IF u = t /\ e.op # "load"
                                   THEN Trie!UpdateTrie(root[u], old) ELSE root[u]
  <2>1. CASE tag \in DOMAIN segs[t]
    <3>1. SplitInto(t, segs[t][tag]) /\ old = segs[t][tag]
      BY <1>2, <2>1 DEF SplitSegOnMiss, SegmentOf
    <3> QED
      BY <1>3, <3>1 DEF SplitInto, ReuseInv
  <2>2. CASE tag \notin DOMAIN segs[t]
    <3>1. root' = root /\ old = Trie!NewSegment
      BY <1>2, <2>2 DEF SplitSegOnMiss, SegmentOf
    <3>2. ~Trie!Recorded(old)
      BY <3>1, TrieCardinality, FS_EmptySet DEF Trie!Recorded, Trie!NewSegment
    <3>3. Trie!UpdateTrie(root[t], old) = root[t]
      BY <3>2 DEF Trie!UpdateTrie
    <3> QED
      BY <1>3, <3>1, <3>3 DEF ReuseInv
  <2> QED
    BY <2>1, <2>2
<1>6. SegmentOf(t, tag)' = After(SegmentOf(t, tag), e)
  <2>1. After(old, e) = SegmentAfterMiss(old)
    BY <1>3 DEF After
  <2>2. CASE tag \in DOMAIN segs[t]
    <3>1. segs' = [segs EXCEPT ![t][tag] = SegmentAfterMiss(@)] /\ old = segs[t][tag]
      BY <1>2, <2>2 DEF SplitSegOnMiss, SegmentOf
    <3>2. tag \in DOMAIN segs'[t] /\ segs'[t][tag] = SegmentAfterMiss(old)
      BY <2>2, <3>1 DEF ReuseInv
    <3> QED
      BY <1>2, <2>1, <3>2 DEF SegmentOf
  <2>3. CASE tag \notin DOMAIN segs[t]
    <3>1. segs' = segs /\ old = Trie!NewSegment
      BY <1>2, <2>3 DEF SplitSegOnMiss, SegmentOf
    <3>2. SegmentAfterMiss(old) = old
      <4>1. old.set = {} /\ old.count = 1
        BY <3>1 DEF Trie!NewSegment
      <4>2. old \in [head : Hashes \cup {NoHead}, set : SUBSET Hashes, count : Nat]
        BY <1>3 DEF SegOK, Trie!Segment
      <4>3. [old EXCEPT !.set = {}, !.count = 1] = old
        BY <4>1, <4>2
      <4> QED
        BY <4>3 DEF SegmentAfterMiss, Trie!SegClear
    <3>3. SegmentOf(t, tag)' = old
      BY <1>2, <3>1 DEF SegmentOf
    <3> QED
      BY <1>2, <2>1, <3>2, <3>3
  <2> QED
    BY <2>2, <2>3
<1>7. \A u \in Threads : \A h \in Tags :
        (u # t \/ h # tag) => SegmentOf(u, h)' = SegmentOf(u, h)
  <2> SUFFICES ASSUME NEW u \in Threads, NEW h \in Tags, u # t \/ h # tag
               PROVE  SegmentOf(u, h)' = SegmentOf(u, h)
    OBVIOUS
  <2>1. CASE tag \in DOMAIN segs[t]
    <3>1. segs' = [segs EXCEPT ![t][tag] = SegmentAfterMiss(@)]
      BY <2>1 DEF SplitSegOnMiss
    <3>2. (h \in DOMAIN segs'[u] <=> h \in DOMAIN segs[u])
            /\ (h \in DOMAIN segs[u] => segs'[u][h] = segs[u][h])
      BY <3>1 DEF ReuseInv
    <3> QED
      BY <3>2 DEF SegmentOf
  <2>2. CASE tag \notin DOMAIN segs[t]
    BY <2>2 DEF SplitSegOnMiss, SegmentOf
  <2> QED
    BY <2>1, <2>2
<1>8. SegmentOf(t, tag)' = After(SegmentOf(t, tag), e) /\ e.op # "load"
  BY <1>3, <1>6
<1> QED
  BY <1>3, <1>4, <1>5, <1>6, <1>7, AccessCounts

\* Only accesses touch the chains.
LEMMA ChainStep == StackInv /\ ReuseInv /\ ChainInv /\ [Next]_vars => ChainInv'
<1> SUFFICES ASSUME StackInv, ReuseInv, ChainInv, [Next]_vars PROVE ChainInv'
  OBVIOUS
<1>1. CASE UNCHANGED reuseVars
  BY <1>1 DEF reuseVars, ChainInv, SegmentOf
<1>2. ASSUME NEW t \in Threads, CallStep(t) PROVE UNCHANGED reuseVars
  BY <1>2 DEF CallStep, BBLStart, BBLEnd, OffloadStart, OffloadEnd
<1>3. ASSUME NEW t \in Threads, TickStep(t) PROVE UNCHANGED reuseVars
  BY <1>3 DEF TickStep, AddTimeInstruction, AddMemory, AddCPUTime, AddOffloadingTime
<1>4. ASSUME NEW t \in Threads, ReuseStep(t) PROVE ChainInv'
  BY <1>4, HitCounts, MissCounts DEF ReuseStep
<1>5. UNCHANGED vars => UNCHANGED reuseVars
  BY DEF vars
<1> QED
  BY <1>1, <1>2, <1>3, <1>4, <1>5 DEF Next

\* The segment that a thread holds for a line is the one its chain has open, and
\* its trie has counted each segment that was closed.
THEOREM ChainInvariant == Spec => []ChainInv
<1>1. StackInv /\ ReuseInv /\ ChainInv /\ [Next]_vars => ChainInv'
  BY ChainStep
<1> QED
  BY <1>1, ChainInit, StackInvariant, ReuseInvariant, PTL DEF Spec

\* The leaves of a thread's trie say what its chains were cut into.
ExportsOK == \A t \in Threads : Exported(t) = Chains!SegmentsOf(chain[t])

\* The leaves that are listed are the nodes that count.
LEMMA ExportsAreCuts == ReuseInv /\ ChainInv => ExportsOK
<1> SUFFICES ASSUME ReuseInv, ChainInv, NEW t \in Threads
             PROVE  Exported(t) = Chains!SegmentsOf(chain[t])
  BY DEF ExportsOK
<1>1. PICK rt : rt = root[t]
  OBVIOUS
<1>2. PICK chains \in [Tags -> Seq(Event)] : chains = chain[t]
  BY DEF ChainInv
<1>3. PICK P : P = Range(leaves[t])
  OBVIOUS
<1>4. CountsOK(rt, chains) /\ P = DOMAIN rt.count
  BY <1>1, <1>2, <1>3 DEF ChainInv, ReuseInv, TrieOK
<1>5. Exported(t) = ExportOf(rt, P)
  BY <1>1, <1>3 DEF Exported, ExportOf, SegmentOfPath
<1>6. ExportOf(rt, P) = Chains!SegmentsOf(chains)
  BY <1>4, ExportsCuts
<1> QED
  BY <1>2, <1>5, <1>6

\* Nothing is exported before the first access.
LEMMA ChainsInit == Init => Chains!Init
<1> SUFFICES ASSUME Init PROVE Chains!Init
  OBVIOUS
<1>1. \A t \in Threads : Exported(t) = << >>
  <2> SUFFICES ASSUME NEW t \in Threads PROVE Exported(t) = << >>
    OBVIOUS
  <2>1. Range(leaves[t]) = {}
    BY DEF Init, Range
  <2> QED
    BY <2>1 DEF Exported
<1>2. [t \in Threads |-> Exported(t)] = [t \in Threads |-> << >>]
  BY <1>1
<1> QED
  BY <1>2 DEF Init, Chains!Init

\* An access of a thread to a line is a Touch of that line.
LEMMA AccessTouches ==
  ASSUME ChainInv, ExportsOK, ExportsOK', NEW t \in Threads, NEW tag \in Tags, NEW e \in Event,
         chain' = [chain EXCEPT ![t][tag] = Append(@, e)]
  PROVE  Chains!Touch(t, {tag})
<1>1. PICK c \in Seq(Event) : c = chain[t][tag]
  BY DEF ChainInv
<1>2. /\ chain \in [Threads -> [Tags -> Seq(Event)]] /\ chain'[t][tag] = Append(c, e)
      /\ \A u \in Threads \ {t} : chain'[u] = chain[u]
  BY <1>1 DEF ChainInv
<1>3. Chains!Extends(chain[t][tag], chain'[t][tag])
  <2>1. PICK d : d = Append(c, e)
    OBVIOUS
  <2>2. /\ d \in Seq(Event) /\ Len(d) = Len(c) + 1 /\ SubSeq(d, 1, Len(d) - 1) = c
        /\ d[Len(d)] = e
    BY <2>1
  <2>3. Chains!Front(d) = c /\ Chains!Last(d) = e
    BY <2>2 DEF Chains!Front, Chains!Last
  <2> QED
    BY <1>1, <1>2, <2>1, <2>2, <2>3 DEF Chains!Extends, Event
<1>4. chain' = [chain EXCEPT ![t] =
                  [g \in Tags |-> IF g \in {tag} THEN chain'[t][g] ELSE @[g]]]
  BY <1>1, <1>2
<1>5. [u \in Threads |-> Exported(u)]'
        = [[u \in Threads |-> Exported(u)] EXCEPT ![t] = Chains!SegmentsOf(chain'[t])]
  <2>1. \A u \in Threads : Exported(u)' = Chains!SegmentsOf(chain'[u])
    BY DEF ExportsOK
  <2>2. \A u \in Threads \ {t} : Exported(u)' = Exported(u)
    BY <1>2, <2>1 DEF ExportsOK
  <2> QED
    BY <2>1, <2>2
<1> QED
  BY <1>3, <1>4, <1>5 DEF Chains!Touch

\* Every step is an access or leaves chains and tries alone.
LEMMA ChainsStep ==
  StackInv /\ ChainInv /\ ExportsOK /\ ExportsOK' /\ [Next]_vars
    => [Chains!Next]_<<chain, [t \in Threads |-> Exported(t)]>>
<1> SUFFICES ASSUME StackInv, ChainInv, ExportsOK, ExportsOK', [Next]_vars
             PROVE  [Chains!Next]_<<chain, [t \in Threads |-> Exported(t)]>>
  OBVIOUS
<1>1. ASSUME UNCHANGED reuseVars
      PROVE  UNCHANGED <<chain, [t \in Threads |-> Exported(t)]>>
  BY <1>1 DEF reuseVars, Exported
<1>2. ASSUME NEW t \in Threads, CallStep(t) PROVE UNCHANGED reuseVars
  BY <1>2 DEF CallStep, BBLStart, BBLEnd, OffloadStart, OffloadEnd
<1>3. ASSUME NEW t \in Threads, TickStep(t) PROVE UNCHANGED reuseVars
  BY <1>3 DEF TickStep, AddTimeInstruction, AddMemory, AddCPUTime, AddOffloadingTime
<1>4. ASSUME NEW t \in Threads, ReuseStep(t) PROVE Chains!Next
  <2>1. PICK tag \in Tags : (\E is_store \in BOOLEAN : InsertSegOnHit(t, tag, is_store))
                              \/ SplitSegOnMiss(t, tag)
    BY <1>4 DEF ReuseStep
  <2>2. \E e \in Event : chain' = [chain EXCEPT ![t][tag] = Append(@, e)]
    <3>1. \A op \in Chains!Op : [bbl |-> GetCurrent(t), op |-> op, weight |-> 1] \in Event
      BY ObservedEvent
    <3>2. ASSUME NEW is_store \in BOOLEAN, InsertSegOnHit(t, tag, is_store)
          PROVE  \E e \in Event : chain' = [chain EXCEPT ![t][tag] = Append(@, e)]
      <4>1. PICK op \in Chains!Op : op = IF is_store THEN "store" ELSE "load"
        BY DEF Chains!Op
      <4> QED
        BY <3>1, <3>2, <4>1 DEF InsertSegOnHit, Observe
    <3>3. ASSUME SplitSegOnMiss(t, tag)
          PROVE  \E e \in Event : chain' = [chain EXCEPT ![t][tag] = Append(@, e)]
      <4>1. "miss" \in Chains!Op
        BY DEF Chains!Op
      <4> QED
        BY <3>1, <3>3, <4>1 DEF SplitSegOnMiss, Observe
    <3> QED
      BY <2>1, <3>2, <3>3
  <2>3. Chains!Touch(t, {tag})
    BY <2>2, AccessTouches
  <2>4. {tag} \in (SUBSET Tags) \ {{}}
    OBVIOUS
  <2> QED
    BY <2>3, <2>4 DEF Chains!Next
<1>5. UNCHANGED vars => UNCHANGED reuseVars
  BY DEF vars
<1> QED
  BY <1>1, <1>2, <1>3, <1>4, <1>5 DEF Next

\* The trie, its leaf list and the open segments count the reuse segments of the
\* chains: nothing is lost, counted twice or given the wrong head, whatever the
\* order of the pointers (DataReuse.h:326-337).
THEOREM RefinementTheorem == Spec => ImplementsReuseChains
<1>1. StackInv /\ ChainInv /\ ExportsOK /\ ExportsOK' /\ [Next]_vars
        => [Chains!Next]_<<chain, [t \in Threads |-> Exported(t)]>>
  BY ChainsStep
<1>2. ReuseInv /\ ChainInv => ExportsOK
  BY ExportsAreCuts
<1> QED
  BY <1>1, <1>2, ChainsInit, StackInvariant, ReuseInvariant, ChainInvariant, PTL
     DEF Spec, ImplementsReuseChains, Chains!Spec

-----------------------------------------------------------------------------
(* The report. *)

\* Whatever the report does, the collectors are those of ThreadStats.
THEOREM ReportsCollectors == ReportSpec => Spec
<1>1. ReportInit => Init
  BY DEF ReportInit
<1>2. [ReportNext]_<<collectorVars, reportVars>> => [Next]_vars
  BY DEF ReportNext, Run, MergeStatsMap, AssignBBLID, ParseSection, collectorVars
<1> QED
  BY <1>1, <1>2, PTL DEF ReportSpec, Spec

\* The blocks and counters of a thread.
ChargedInv ==
  /\ DOMAIN stats = Threads
  /\ \A t \in Threads : DOMAIN stats[t] \subseteq Hashes
  /\ \A t \in Threads : \A h \in DOMAIN stats[t] : stats[t][h] \in Counters

\* The merged map has the blocks of the threads merged, with what they charged,
\* and the program has ended when there is one.
MergeInv ==
  /\ merged \subseteq Threads
  /\ DOMAIN statsmap = UNION {DOMAIN stats[t] : t \in merged}
  /\ \A h \in Hashes : At(statsmap, h, Zero) = Charged(h, merged)

\* The ids a thread was given are the positions in the merged map, which is complete.
IdInv ==
  /\ numbered \subseteq Threads /\ (numbered # {} => merged = Threads)
  /\ DOMAIN bblid = Threads /\ \A t \in Threads : DOMAIN bblid[t] = Hashes
  /\ \A t \in numbered : \A h \in DOMAIN stats[t] : bblid[t][h] = GeneratedId(h)

\* What the solver should have of a block once the sections of some threads are read.
Line(h, threads) ==
  [id |-> GeneratedId(h), instr |-> Charged(h, threads).instr, mem |-> Charged(h, threads).mem,
   time |-> [u \in Threads |-> IF u \in threads THEN At(stats[u], h, ZeroStats).time ELSE 0]]

\* The solver has the blocks of the sections it read, each with its line.
ReadInv ==
  /\ read \subseteq Threads /\ (read # {} => numbered = Threads)
  /\ DOMAIN solverStats = UNION {DOMAIN stats[t] : t \in read}
  /\ \A h \in DOMAIN solverStats : solverStats[h] = Line(h, read)

ReportInv == MergeInv /\ IdInv /\ ReadInv

\* A thread that never executed a block charged it nothing.
LEMMA ChargedTypes ==
  ASSUME ChargedInv, NEW t \in Threads, NEW h
  PROVE  At(stats[t], h, ZeroStats) \in Counters
<1>1. ZeroStats \in Counters
  BY DEF ZeroStats, Counters
<1> QED
  BY <1>1 DEF At, ChargedInv

\* No thread charged nothing.
LEMMA ChargedNothing == \A h : Charged(h, {}) = Zero
<1> SUFFICES ASSUME NEW h PROVE Charged(h, {}) = Zero
  OBVIOUS
<1>1. ASSUME NEW f, DOMAIN f = {} PROVE SumFunction(f) = 0
  BY <1>1, SumEmpty DEF SumFunction
<1>2. DOMAIN [t \in {} |-> At(stats[t], h, ZeroStats).time] = {}
  OBVIOUS
<1>3. DOMAIN [t \in {} |-> At(stats[t], h, ZeroStats).instr] = {}
  OBVIOUS
<1>4. DOMAIN [t \in {} |-> At(stats[t], h, ZeroStats).mem] = {}
  OBVIOUS
<1> QED
  BY <1>1, <1>2, <1>3, <1>4 DEF Charged, Zero

\* A sum over threads takes one thread more.
LEMMA SumGrows ==
  ASSUME NEW S \in SUBSET Threads, NEW t \in Threads \ S, NEW f, \A u \in Threads : f[u] \in Nat
  PROVE  /\ SumFunction([u \in S \cup {t} |-> f[u]]) = SumFunction([u \in S |-> f[u]]) + f[t]
         /\ SumFunction([u \in S |-> f[u]]) \in Nat
<1> DEFINE g == [u \in S \cup {t} |-> f[u]]
           k == [u \in S |-> f[u]]
<1>1. IsFiniteSet(S) /\ IsFiniteSet(S \cup {t})
  BY ThreadsAssumption, FS_Subset, FS_AddElement
<1>2. /\ DOMAIN g = S \cup {t} /\ DOMAIN k = S /\ g[t] = f[t] /\ (S \cup {t}) \ {t} = S
      /\ \A u \in S : g[u] = k[u] /\ k[u] \in Nat
      /\ \A u \in S \cup {t} : g[u] \in Int
  OBVIOUS
<1> HIDE DEF g, k
<1>3. SumFunctionOnSet(g, S \cup {t}) = g[t] + SumFunctionOnSet(g, S)
  <2>1. SumFunctionOnSet(g, S \cup {t}) = g[t] + SumFunctionOnSet(g, (S \cup {t}) \ {t})
    BY <1>1, <1>2, SumRemove
  <2> QED
    BY <1>2, <2>1
<1>4. SumFunctionOnSet(g, S) = SumFunctionOnSet(k, S)
  BY <1>1, <1>2, SumSame
<1>5. SumFunctionOnSet(k, S) \in Nat
  BY <1>1, <1>2, SumNat
<1>6. SumFunction(g) = SumFunctionOnSet(g, S \cup {t}) /\ SumFunction(k) = SumFunctionOnSet(k, S)
  BY <1>2 DEF SumFunction
<1>7. SumFunction(g) = SumFunction(k) + f[t] /\ SumFunction(k) \in Nat
  BY <1>2, <1>3, <1>4, <1>5, <1>6
<1> QED
  BY <1>7 DEF g, k

\* So does what was charged.
LEMMA ChargedGrows ==
  ASSUME ChargedInv, NEW S \in SUBSET Threads, NEW t \in Threads \ S, NEW h
  PROVE  LET line == At(stats[t], h, ZeroStats)
         IN /\ Charged(h, S \cup {t}) = AddCounters(Charged(h, S), line)
            /\ Charged(h, S).instr \in Nat /\ Charged(h, S).mem \in Nat /\ Charged(h, S).time \in Nat
<1>1. \A u \in Threads : At(stats[u], h, ZeroStats) \in Counters
  BY ChargedTypes
<1> DEFINE time == [u \in Threads |-> At(stats[u], h, ZeroStats).time]
           instr == [u \in Threads |-> At(stats[u], h, ZeroStats).instr]
           mem == [u \in Threads |-> At(stats[u], h, ZeroStats).mem]
<1>2. \A u \in Threads : time[u] \in Nat /\ instr[u] \in Nat /\ mem[u] \in Nat
  BY <1>1 DEF Counters
<1>3. \A T \in SUBSET Threads :
        Charged(h, T) = [time |-> SumFunction([u \in T |-> time[u]]),
                         instr |-> SumFunction([u \in T |-> instr[u]]),
                         mem |-> SumFunction([u \in T |-> mem[u]])]
  <2> SUFFICES ASSUME NEW T \in SUBSET Threads
               PROVE  Charged(h, T) = [time |-> SumFunction([u \in T |-> time[u]]),
                                       instr |-> SumFunction([u \in T |-> instr[u]]),
                                       mem |-> SumFunction([u \in T |-> mem[u]])]
    OBVIOUS
  <2>1. /\ [u \in T |-> time[u]] = [u \in T |-> At(stats[u], h, ZeroStats).time]
        /\ [u \in T |-> instr[u]] = [u \in T |-> At(stats[u], h, ZeroStats).instr]
        /\ [u \in T |-> mem[u]] = [u \in T |-> At(stats[u], h, ZeroStats).mem]
    OBVIOUS
  <2> HIDE DEF time, instr, mem
  <2> QED
    BY <2>1 DEF Charged
<1>4. /\ time[t] = At(stats[t], h, ZeroStats).time
      /\ instr[t] = At(stats[t], h, ZeroStats).instr
      /\ mem[t] = At(stats[t], h, ZeroStats).mem
  OBVIOUS
<1> HIDE DEF time, instr, mem
<1>5. S \cup {t} \in SUBSET Threads
  OBVIOUS
<1>6. /\ SumFunction([u \in S \cup {t} |-> time[u]]) = SumFunction([u \in S |-> time[u]]) + time[t]
      /\ SumFunction([u \in S |-> time[u]]) \in Nat
  BY <1>2, SumGrows
<1>7. /\ SumFunction([u \in S \cup {t} |-> instr[u]]) = SumFunction([u \in S |-> instr[u]]) + instr[t]
      /\ SumFunction([u \in S |-> instr[u]]) \in Nat
  BY <1>2, SumGrows
<1>8. /\ SumFunction([u \in S \cup {t} |-> mem[u]]) = SumFunction([u \in S |-> mem[u]]) + mem[t]
      /\ SumFunction([u \in S |-> mem[u]]) \in Nat
  BY <1>2, SumGrows
<1> QED
  BY <1>3, <1>4, <1>5, <1>6, <1>7, <1>8 DEF AddCounters

\* While nothing is merged the program runs and nothing is reported.
LEMMA RunKeeps ==
  ASSUME ReportInv, merged = {}, UNCHANGED reportVars
  PROVE  ReportInv'
<1>1. numbered = {} \/ Threads = {}
  BY DEF ReportInv, IdInv
<1>2. numbered = {} /\ read = {}
  BY <1>1 DEF ReportInv, IdInv, ReadInv
<1>3. UNCHANGED <<merged, statsmap, bblid, numbered, read, solverStats>>
  BY DEF reportVars, mergeVars, solverVars
<1>4. DOMAIN statsmap = {} /\ DOMAIN solverStats = {}
  BY <1>2 DEF ReportInv, MergeInv, ReadInv
<1>5. (\A h : Charged(h, {}) = Zero)'
  BY ChargedNothing, PTL
<1>6. \A h : At(statsmap, h, Zero)' = Zero
  BY <1>3, <1>4 DEF At
<1>7. MergeInv'
  BY <1>3, <1>4, <1>5, <1>6 DEF ReportInv, MergeInv
<1>8. IdInv'
  BY <1>2, <1>3 DEF ReportInv, IdInv
<1>9. ReadInv'
  BY <1>2, <1>3, <1>4 DEF ReportInv, ReadInv
<1> QED
  BY <1>7, <1>8, <1>9 DEF ReportInv

\* A thread's counters are added to those merged before.
LEMMA MergeKeeps ==
  ASSUME ReportInv, ChargedInv, NEW t \in Threads, MergeStatsMap(t)
  PROVE  ReportInv'
<1>1. t \notin merged /\ merged \subseteq Threads /\ numbered = {} /\ read = {}
  BY DEF ReportInv, MergeInv, IdInv, ReadInv, MergeStatsMap
<1>2. /\ UNCHANGED <<stats, bblid, numbered, read, solverStats>>
      /\ merged' = merged \cup {t} /\ statsmap' = MergedMap(t)
  BY DEF MergeStatsMap, collectorVars, vars, tickVars, solverVars
<1>3. DOMAIN statsmap' = UNION {DOMAIN stats[u] : u \in merged'}
  <2>1. DOMAIN statsmap' = DOMAIN statsmap \cup DOMAIN stats[t]
    BY <1>2 DEF MergedMap
  <2>2. DOMAIN statsmap = UNION {DOMAIN stats[u] : u \in merged}
    BY DEF ReportInv, MergeInv
  <2> QED
    BY <1>2, <2>1, <2>2
<1>4. ASSUME NEW h \in Hashes PROVE At(statsmap', h, Zero) = Charged(h, merged \cup {t})
  <2>1. Charged(h, merged \cup {t}) = AddCounters(Charged(h, merged), At(stats[t], h, ZeroStats))
    BY <1>1, ChargedGrows
  <2>2. At(statsmap, h, Zero) = Charged(h, merged)
    BY DEF ReportInv, MergeInv
  <2>3. AddCounters(Charged(h, merged), At(stats[t], h, ZeroStats))
          = AddCounters(At(statsmap, h, Zero), At(stats[t], h, Zero))
    BY <2>2 DEF AddCounters, At, Zero, ZeroStats
  <2>4. CASE h \in DOMAIN statsmap \cup DOMAIN stats[t]
    BY <1>2, <2>1, <2>3, <2>4 DEF MergedMap, At
  <2>5. CASE h \notin DOMAIN statsmap \cup DOMAIN stats[t]
    <3>1. At(statsmap', h, Zero) = Zero /\ At(statsmap, h, Zero) = Zero /\ At(stats[t], h, Zero) = Zero
      BY <1>2, <2>5 DEF MergedMap, At
    <3>2. AddCounters(Zero, Zero) = Zero
      BY DEF AddCounters, Zero
    <3> QED
      BY <2>1, <2>3, <3>1, <3>2
  <2> QED
    BY <2>4, <2>5
<1>5. MergeInv'
  <2>1. ASSUME NEW h \in Hashes PROVE At(statsmap, h, Zero)' = Charged(h, merged)'
    BY <1>2, <1>4 DEF Charged, At
  <2> QED
    BY <1>1, <1>2, <1>3, <2>1 DEF MergeInv
<1>6. IdInv' /\ ReadInv'
  BY <1>1, <1>2 DEF ReportInv, IdInv, ReadInv
<1> QED
  BY <1>5, <1>6 DEF ReportInv

\* The thread gets the ids of the merged map.
LEMMA AssignKeeps ==
  ASSUME ReportInv, ChargedInv, NEW t \in Threads, AssignBBLID(t)
  PROVE  ReportInv'
<1>1. /\ UNCHANGED <<stats, merged, statsmap, read, solverStats>>
      /\ merged = Threads /\ t \notin numbered /\ numbered' = numbered \cup {t}
      /\ bblid' = [bblid EXCEPT ![t] =
                     [h \in Hashes |-> IF h \in DOMAIN stats[t] THEN AssignedId(t, h) ELSE @[h]]]
  BY DEF AssignBBLID, collectorVars, vars, tickVars, mergeVars, solverVars
<1>2. \A h : GeneratedId(h)' = GeneratedId(h)
  BY <1>1 DEF GeneratedId
<1>3. read = {}
  BY <1>1 DEF ReportInv, ReadInv
<1>4. MergeInv'
  <2>1. \A h : Charged(h, merged)' = Charged(h, merged)
    BY <1>1 DEF Charged
  <2> QED
    BY <1>1, <2>1 DEF ReportInv, MergeInv, At
<1>5. IdInv'
  <2>1. DOMAIN bblid' = Threads /\ \A u \in Threads : DOMAIN bblid'[u] = Hashes
    BY <1>1 DEF ReportInv, IdInv
  <2>2. \A u \in numbered : bblid'[u] = bblid[u]
    BY <1>1 DEF ReportInv, IdInv
  <2>3. \A h \in DOMAIN stats[t] : bblid'[t][h] = GeneratedId(h)
    BY <1>1 DEF ReportInv, IdInv, AssignedId, ChargedInv
  <2> QED
    BY <1>1, <1>2, <2>1, <2>2, <2>3 DEF ReportInv, IdInv
<1>6. ReadInv'
  BY <1>1, <1>3 DEF ReportInv, ReadInv
<1> QED
  BY <1>4, <1>5, <1>6 DEF ReportInv

\* A line of a section makes the entry of its block or is added to it.
LEMMA LineGrows ==
  ASSUME ReportInv, ChargedInv, numbered = Threads,
         NEW t \in Threads \ read, NEW h \in DOMAIN stats[t]
  PROVE  /\ h \in DOMAIN solverStats => MergeLine(solverStats[h], t, h) = Line(h, read \cup {t})
         /\ h \notin DOMAIN solverStats => NewThreadRunStats(t, h) = Line(h, read \cup {t})
<1> DEFINE line == stats[t][h]
           time(S) == [u \in Threads |-> IF u \in S THEN At(stats[u], h, ZeroStats).time ELSE 0]
<1>1. At(stats[t], h, ZeroStats) = line /\ line \in Counters
  BY DEF At, ChargedInv
<1>2. /\ Charged(h, read \cup {t}) = AddCounters(Charged(h, read), line)
      /\ Charged(h, read).instr \in Nat /\ Charged(h, read).mem \in Nat
  <2>1. read \in SUBSET Threads
    BY DEF ReportInv, ReadInv
  <2> QED
    BY <1>1, <2>1, ChargedGrows
<1>3. /\ Charged(h, read \cup {t}).instr = Charged(h, read).instr + line.instr
      /\ Charged(h, read \cup {t}).mem = Charged(h, read).mem + line.mem
  BY <1>2 DEF AddCounters
<1>4. Line(h, read \cup {t}) =
        [id |-> GeneratedId(h), instr |-> Charged(h, read).instr + line.instr,
         mem |-> Charged(h, read).mem + line.mem, time |-> time(read \cup {t})]
  BY <1>3 DEF Line
<1>5. ASSUME h \in DOMAIN solverStats
      PROVE  MergeLine(solverStats[h], t, h) = Line(h, read \cup {t})
  <2>1. solverStats[h] = [id |-> GeneratedId(h), instr |-> Charged(h, read).instr,
                          mem |-> Charged(h, read).mem, time |-> time(read)]
    BY <1>5 DEF ReportInv, ReadInv, Line
  <2>2. [time(read) EXCEPT ![t] = line.time] = time(read \cup {t})
    BY <1>1
  <2> HIDE DEF line, time
  <2>3. MergeLine(solverStats[h], t, h) =
          [id |-> GeneratedId(h), instr |-> Charged(h, read).instr + line.instr,
           mem |-> Charged(h, read).mem + line.mem, time |-> [time(read) EXCEPT ![t] = line.time]]
    BY <2>1 DEF MergeLine, line
  <2> QED
    BY <1>4, <2>2, <2>3
<1>6. ASSUME h \notin DOMAIN solverStats
      PROVE  NewThreadRunStats(t, h) = Line(h, read \cup {t})
  <2>1. \A u \in read : h \notin DOMAIN stats[u]
    BY <1>6 DEF ReportInv, ReadInv
  <2>2. \A u \in read : At(stats[u], h, ZeroStats) = ZeroStats
    BY <2>1 DEF At
  <2>3. Charged(h, read) = Zero
    <3>1. ASSUME NEW f, \A u \in read : f[u] = 0, DOMAIN f = read PROVE SumFunction(f) = 0
      <4>1. IsFiniteSet(read)
        BY ThreadsAssumption, FS_Subset DEF ReportInv, ReadInv
      <4> QED
        BY <3>1, <4>1, SumZero DEF SumFunction
    <3> DEFINE f1 == [u \in read |-> At(stats[u], h, ZeroStats).time]
               f2 == [u \in read |-> At(stats[u], h, ZeroStats).instr]
               f3 == [u \in read |-> At(stats[u], h, ZeroStats).mem]
    <3>2. /\ \A u \in read : f1[u] = 0 /\ f2[u] = 0 /\ f3[u] = 0
          /\ DOMAIN f1 = read /\ DOMAIN f2 = read /\ DOMAIN f3 = read
      BY <2>2 DEF ZeroStats
    <3> HIDE DEF f1, f2, f3
    <3>3. SumFunction(f1) = 0 /\ SumFunction(f2) = 0 /\ SumFunction(f3) = 0
      BY <3>1, <3>2
    <3> QED
      BY <3>3 DEF Charged, Zero, f1, f2, f3
  <2>4. [u \in Threads |-> IF u = t THEN line.time ELSE 0] = time(read \cup {t})
    BY <1>1, <2>2 DEF ZeroStats
  <2>5. PrintedId(t, h) = GeneratedId(h)
    BY HashAssumption DEF PrintedId, Phantom, GLOBAL_BBLHASH, Hashes, ReportInv, IdInv, ChargedInv
  <2>6. line.instr \in Nat /\ line.mem \in Nat
    BY <1>1 DEF Counters
  <2> HIDE DEF line, time
  <2>7. NewThreadRunStats(t, h) = [id |-> GeneratedId(h), instr |-> line.instr, mem |-> line.mem,
                                   time |-> time(read \cup {t})]
    BY <2>4, <2>5 DEF NewThreadRunStats, line
  <2>8. 0 + line.instr = line.instr /\ 0 + line.mem = line.mem
    BY <2>6
  <2> QED
    BY <1>4, <2>3, <2>7, <2>8 DEF Zero
<1> QED
  BY <1>5, <1>6

\* One more section is read.
LEMMA ParseKeeps ==
  ASSUME ReportInv, ChargedInv, NEW t \in Threads, ParseSection(t)
  PROVE  ReportInv'
<1>1. /\ UNCHANGED <<stats, merged, statsmap, bblid, numbered>>
      /\ numbered = Threads /\ t \notin read /\ read' = read \cup {t} /\ ParseStats(t)
  BY DEF ParseSection, collectorVars, vars, tickVars, mergeVars
<1>2. /\ \A h : GeneratedId(h)' = GeneratedId(h)
      /\ \A h, S : Charged(h, S)' = Charged(h, S)
  BY <1>1 DEF GeneratedId, Charged
<1>3. \A h, S : Line(h, S)' = Line(h, S)
  BY <1>1, <1>2 DEF Line
<1>4. MergeInv' /\ IdInv'
  BY <1>1, <1>2 DEF ReportInv, MergeInv, IdInv, At
<1>5. DOMAIN solverStats = UNION {DOMAIN stats[u] : u \in read}
  BY DEF ReportInv, ReadInv
<1>6. DOMAIN solverStats' = DOMAIN solverStats \cup DOMAIN stats[t]
  BY <1>1 DEF ParseStats
<1>7. ASSUME NEW h \in DOMAIN solverStats' PROVE solverStats'[h] = Line(h, read \cup {t})
  <2>1. CASE h \in DOMAIN stats[t]
    <3>1. solverStats'[h] = IF h \in DOMAIN solverStats THEN MergeLine(solverStats[h], t, h)
                            ELSE NewThreadRunStats(t, h)
      BY <1>1, <1>6, <2>1 DEF ParseStats
    <3> QED
      BY <1>1, <2>1, <3>1, LineGrows
  <2>2. CASE h \notin DOMAIN stats[t]
    <3>1. h \in DOMAIN solverStats /\ solverStats'[h] = solverStats[h] /\ solverStats[h] = Line(h, read)
      BY <1>1, <1>6, <2>2 DEF ParseStats, ReportInv, ReadInv
    <3>2. At(stats[t], h, ZeroStats) = ZeroStats
      BY <2>2 DEF At
    <3>3. /\ Charged(h, read \cup {t}) = AddCounters(Charged(h, read), ZeroStats)
          /\ Charged(h, read).instr \in Nat /\ Charged(h, read).mem \in Nat
      <4>1. read \in SUBSET Threads
        BY DEF ReportInv, ReadInv
      <4> QED
        BY <1>1, <3>2, <4>1, ChargedGrows
    <3>4. /\ Charged(h, read \cup {t}).instr = Charged(h, read).instr
          /\ Charged(h, read \cup {t}).mem = Charged(h, read).mem
      BY <3>3 DEF AddCounters, ZeroStats
    <3>5. [u \in Threads |-> IF u \in read \cup {t} THEN At(stats[u], h, ZeroStats).time ELSE 0]
            = [u \in Threads |-> IF u \in read THEN At(stats[u], h, ZeroStats).time ELSE 0]
      BY <3>2 DEF ZeroStats
    <3> QED
      BY <3>1, <3>4, <3>5 DEF Line
  <2> QED
    BY <2>1, <2>2
<1>8. ReadInv'
  <2>1. DOMAIN solverStats' = UNION {DOMAIN stats[u] : u \in read \cup {t}}
    BY <1>5, <1>6
  <2>2. \A h \in DOMAIN solverStats' : solverStats'[h] = Line(h, read)'
    BY <1>1, <1>3, <1>7
  <2> QED
    BY <1>1, <2>1, <2>2 DEF ReportInv, ReadInv
<1> QED
  BY <1>4, <1>8 DEF ReportInv

\* The blocks and counters of every thread are those of the collectors' types.
LEMMA TickIsCharged == TickInv => ChargedInv
BY DEF TickInv, TickTypeOK, ChargedInv

\* In every reachable state of the report the merged map has what the threads
\* merged charged, ids are positions in it, and the solver has what the sections
\* it read say (Stats.h:331-371, CostSolver.cpp:158-247).
THEOREM ReportInvariant == ReportSpec => []ReportInv
<1>1. ReportInit => ReportInv
  <2> SUFFICES ASSUME ReportInit PROVE ReportInv
    OBVIOUS
  <2>1. /\ merged = {} /\ statsmap = << >> /\ numbered = {} /\ read = {} /\ solverStats = << >>
        /\ bblid = [t \in Threads |-> [h \in Hashes |-> GLOBAL_BBLID]]
    BY DEF ReportInit
  <2>2. DOMAIN statsmap = {} /\ DOMAIN solverStats = {}
    BY <2>1
  <2>3. MergeInv
    BY <2>1, <2>2, ChargedNothing DEF MergeInv, At
  <2>4. IdInv /\ ReadInv
    BY <2>1, <2>2 DEF IdInv, ReadInv
  <2> QED
    BY <2>3, <2>4 DEF ReportInv
<1>2. ChargedInv /\ ReportInv /\ [ReportNext]_<<collectorVars, reportVars>> => ReportInv'
  <2> SUFFICES ASSUME ChargedInv, ReportInv, [ReportNext]_<<collectorVars, reportVars>>
               PROVE  ReportInv'
    OBVIOUS
  <2>1. CASE Run
    BY <2>1, RunKeeps DEF Run
  <2>2. ASSUME NEW t \in Threads, MergeStatsMap(t) \/ AssignBBLID(t) \/ ParseSection(t)
        PROVE  ReportInv'
    BY <2>2, MergeKeeps, AssignKeeps, ParseKeeps
  <2>3. CASE UNCHANGED <<collectorVars, reportVars>>
    <3>1. UNCHANGED <<stats, merged, statsmap, bblid, numbered, read, solverStats>>
      BY <2>3 DEF collectorVars, vars, tickVars, reportVars, mergeVars, solverVars
    <3>2. /\ \A h : GeneratedId(h)' = GeneratedId(h)
          /\ \A h, S : Charged(h, S)' = Charged(h, S)
      BY <3>1 DEF GeneratedId, Charged
    <3>3. \A h, S : Line(h, S)' = Line(h, S)
      BY <3>1, <3>2 DEF Line
    <3> QED
      BY <3>1, <3>2, <3>3 DEF ReportInv, MergeInv, IdInv, ReadInv, At
  <2> QED
    BY <2>1, <2>2, <2>3 DEF ReportNext
<1>3. ReportSpec => []ChargedInv
  BY ReportsCollectors, TickInvariant, TickIsCharged, PTL
<1> QED
  BY <1>1, <1>2, <1>3, PTL DEF ReportSpec

\* The id of a block, read from the reuse file, is its position among the sorted
\* statistics (CostSolver.cpp:91-107, 1413-1416).
THEOREM IdTheorem == ReportSpec => []IdIsSortedPosition
<1>1. ReportInv => IdIsSortedPosition
  <2> SUFFICES ASSUME ReportInv, read = Threads, NEW h \in DOMAIN solverStats
               PROVE  solverStats[h].id = Cardinality({g \in DOMAIN solverStats : g < h})
    BY DEF IdIsSortedPosition, AllRead
  <2>1. merged = Threads
    BY DEF ReportInv, ReadInv, IdInv
  <2>2. DOMAIN solverStats = DOMAIN statsmap
    BY <2>1 DEF ReportInv, ReadInv, MergeInv
  <2>3. solverStats[h].id = GeneratedId(h)
    <3>1. solverStats[h] = Line(h, read)
      BY DEF ReportInv, ReadInv
    <3>2. Line(h, read).id = GeneratedId(h)
      BY DEF Line
    <3> QED
      BY <3>1, <3>2
  <2> QED
    BY <2>2, <2>3 DEF GeneratedId
<1> QED
  BY <1>1, ReportInvariant, PTL

\* Nothing a collector charged is lost on the way to the solver (Stats.h:331-345,
\* CostSolver.h:48-57, CostSolver.cpp:186-194).
THEOREM ConservedTheorem == ReportSpec => []CountersAreConserved
<1>1. ReportInv /\ ChargedInv => CountersAreConserved
  <2> SUFFICES ASSUME ReportInv, ChargedInv PROVE CountersAreConserved
    OBVIOUS
  <2>1. merged = Threads => \A h \in Hashes : At(statsmap, h, Zero) = Charged(h, Threads)
    BY DEF ReportInv, MergeInv
  <2>2. ASSUME read = Threads, NEW h \in DOMAIN statsmap
        PROVE  /\ solverStats[h].instr = statsmap[h].instr
               /\ solverStats[h].mem = statsmap[h].mem
               /\ SumFunction(solverStats[h].time) = statsmap[h].time
    <3>1. merged = Threads /\ DOMAIN statsmap \subseteq Hashes
      BY <2>2 DEF ReportInv, ReadInv, IdInv, MergeInv, ChargedInv
    <3>2. h \in DOMAIN solverStats
      BY <2>2, <3>1 DEF ReportInv, ReadInv, MergeInv
    <3>3. solverStats[h] = Line(h, Threads)
      BY <2>2, <3>2 DEF ReportInv, ReadInv
    <3>4. statsmap[h] = Charged(h, Threads)
      BY <2>1, <3>1 DEF At
    <3>5. /\ Line(h, Threads).instr = Charged(h, Threads).instr
          /\ Line(h, Threads).mem = Charged(h, Threads).mem
          /\ SumFunction(Line(h, Threads).time) = Charged(h, Threads).time
      <4>1. [u \in Threads |-> IF u \in Threads THEN At(stats[u], h, ZeroStats).time ELSE 0]
              = [u \in Threads |-> At(stats[u], h, ZeroStats).time]
        OBVIOUS
      <4> QED
        BY <4>1 DEF Line, Charged
    <3> QED
      BY <3>3, <3>4, <3>5
  <2> QED
    BY <2>1, <2>2 DEF CountersAreConserved, AllRead
<1>2. ReportSpec => []ChargedInv
  BY ReportsCollectors, TickInvariant, TickIsCharged, PTL
<1> QED
  BY <1>1, <1>2, ReportInvariant, PTL

-----------------------------------------------------------------------------
(***************************************************************************)
(* The switch rows.  Every start of a block is one entry of its thread's   *)
(* matrix more, so the entries of a section are as many as the starts.  No *)
(* two rows of a section have one id, since GLOBAL_BBLID is the phantom's  *)
(* and that of the region outside main, which is never left.               *)
(***************************************************************************)

\* Only blocks are started, and have counters from then on; each start is one
\* switch.
StartedInv ==
  /\ DOMAIN stats = Threads
  /\ \A t \in Threads : GLOBAL_BBLHASH \in DOMAIN stats[t] /\ DOMAIN stats[t] \subseteq Hashes
  /\ \A t \in Threads : \A h \in Hashes : starts[t][h] > 0 => h \in Bbls /\ h \in DOMAIN stats[t]
  /\ \A t \in Threads : SumFunction(matrix[t]) = SumFunction(starts[t])

\* The start of a block is counted once among the starts and once in the matrix.
LEMMA EnterBblStarted ==
  ASSUME CallTypeOK, CallTypeOK', StartedInv, NEW t \in Threads, NEW h \in Bbls, EnterBbl(t, h)
  PROVE  StartedInv'
<1>1. PICK l \in Hashes \cup {Phantom} : l = last[t]
  BY DEF CallTypeOK
<1>2. h \in Hashes
  BY DEF Hashes
<1>3. /\ DOMAIN stats' = Threads
      /\ DOMAIN stats'[t] = DOMAIN stats[t] \cup {h}
      /\ \A u \in Threads \ {t} : stats'[u] = stats[u]
  BY DEF EnterBbl, StartedInv, With
<1>4. /\ matrix'[t] = [matrix[t] EXCEPT ![<<l, h>>] = @ + 1]
      /\ starts'[t] = [starts[t] EXCEPT ![h] = @ + 1]
      /\ \A u \in Threads \ {t} : matrix'[u] = matrix[u] /\ starts'[u] = starts[u]
  BY <1>1 DEF EnterBbl, CallTypeOK, SwitchFrom
<1>5. PICK M : M = (Hashes \cup {Phantom}) \X Hashes
  OBVIOUS
<1>6. /\ matrix[t] \in [M -> Nat] /\ matrix'[t] \in [M -> Nat] /\ IsFiniteSet(M)
      /\ starts[t] \in [Hashes -> Nat] /\ starts'[t] \in [Hashes -> Nat]
  BY <1>5, HashesAreFinite, FS_Product DEF CallTypeOK
<1>7. \A g \in Hashes : starts'[t][g] > 0 => g \in Bbls /\ g \in DOMAIN stats'[t]
  <2> SUFFICES ASSUME NEW g \in Hashes, starts'[t][g] > 0
               PROVE  g \in Bbls /\ g \in DOMAIN stats'[t]
    OBVIOUS
  <2>1. CASE g = h
    BY <1>3, <2>1
  <2>2. CASE g # h
    <3>1. starts[t][g] > 0
      BY <1>2, <1>4, <1>6, <2>2
    <3> QED
      BY <1>3, <3>1 DEF StartedInv
  <2> QED
    BY <2>1, <2>2
<1>8. SumFunction(matrix'[t]) = SumFunction(matrix[t]) + 1
  <2>1. <<l, h>> \in M
    BY <1>2, <1>5
  <2>2. matrix'[t][<<l, h>>] = matrix[t][<<l, h>>] + 1
          /\ \A e \in M \ {<<l, h>>} : matrix'[t][e] = matrix[t][e]
    BY <1>4, <1>6, <2>1
  <2>3. PICK f \in [M -> Nat], g \in [M -> Nat] : f = matrix[t] /\ g = matrix'[t]
    BY <1>6
  <2> QED
    BY <1>6, <2>1, <2>2, <2>3, SumBump
<1>9. SumFunction(starts'[t]) = SumFunction(starts[t]) + 1
  <2>1. starts'[t][h] = starts[t][h] + 1 /\ \A e \in Hashes \ {h} : starts'[t][e] = starts[t][e]
    BY <1>2, <1>4, <1>6
  <2>2. PICK f \in [Hashes -> Nat], g \in [Hashes -> Nat] : f = starts[t] /\ g = starts'[t]
    BY <1>6
  <2> QED
    BY <1>2, <2>1, <2>2, HashesAreFinite, SumBump
<1>10. \A u \in Threads : GLOBAL_BBLHASH \in DOMAIN stats'[u] /\ DOMAIN stats'[u] \subseteq Hashes
  BY <1>2, <1>3 DEF StartedInv
<1>11. \A u \in Threads : SumFunction(matrix'[u]) = SumFunction(starts'[u])
  <2>1. SumFunction(matrix[t]) = SumFunction(starts[t])
    BY DEF StartedInv
  <2>2. SumFunction(matrix'[t]) = SumFunction(starts'[t])
    BY <1>8, <1>9, <2>1
  <2>3. \A u \in Threads \ {t} : SumFunction(matrix'[u]) = SumFunction(starts'[u])
    BY <1>4 DEF StartedInv
  <2> QED
    BY <2>2, <2>3
<1>12. \A u \in Threads : \A g \in Hashes :
         starts'[u][g] > 0 => g \in Bbls /\ g \in DOMAIN stats'[u]
  BY <1>3, <1>4, <1>7 DEF StartedInv
<1> QED
  BY <1>3, <1>10, <1>11, <1>12 DEF StartedInv

\* At any time, the blocks started are known and have their switches.
THEOREM StartedInvariant == Spec => []StartedInv
<1>1. Init => StartedInv
  <2> SUFFICES ASSUME Init PROVE StartedInv
    OBVIOUS
  <2>1. /\ DOMAIN stats = Threads /\ \A t \in Threads : DOMAIN stats[t] = {GLOBAL_BBLHASH}
        /\ \A t \in Threads : \A h \in Hashes : starts[t][h] = 0
    BY DEF Init
  <2>2. ASSUME NEW t \in Threads PROVE SumFunction(matrix[t]) = 0 /\ SumFunction(starts[t]) = 0
    <3>1. PICK M : M = (Hashes \cup {Phantom}) \X Hashes
      OBVIOUS
    <3>2. matrix[t] = [e \in M |-> 0] /\ starts[t] = [h \in Hashes |-> 0]
      BY <3>1 DEF Init
    <3>3. IsFiniteSet(M)
      BY <3>1, HashesAreFinite, FS_Product
    <3>4. DOMAIN matrix[t] = M /\ \A e \in M : matrix[t][e] = 0
      BY <3>2
    <3>5. DOMAIN starts[t] = Hashes /\ \A h \in Hashes : starts[t][h] = 0
      BY <3>2
    <3>6. SumFunctionOnSet(matrix[t], M) = 0
      BY <3>3, <3>4, SumZero
    <3>7. SumFunctionOnSet(starts[t], Hashes) = 0
      BY <3>5, HashesAreFinite, SumZero
    <3> QED
      BY <3>4, <3>5, <3>6, <3>7 DEF SumFunction
  <2>3. \A t \in Threads : GLOBAL_BBLHASH \in DOMAIN stats[t] /\ DOMAIN stats[t] \subseteq Hashes
    BY <2>1 DEF Hashes
  <2>4. \A t \in Threads : SumFunction(matrix[t]) = SumFunction(starts[t])
    BY <2>2
  <2> QED
    BY <2>1, <2>3, <2>4 DEF StartedInv
<1>2. CallTypeOK /\ CallTypeOK' /\ StartedInv /\ [Next]_vars => StartedInv'
  <2> SUFFICES ASSUME CallTypeOK, CallTypeOK', StartedInv, [Next]_vars PROVE StartedInv'
    OBVIOUS
  <2>1. ASSUME UNCHANGED <<matrix, starts>>, DOMAIN stats' = Threads,
               \A u \in Threads : DOMAIN stats'[u] = DOMAIN stats[u]
        PROVE  StartedInv'
    BY <2>1 DEF StartedInv
  <2>2. UNCHANGED <<matrix, starts, stats>> => StartedInv'
    BY <2>1 DEF StartedInv
  <2>3. ASSUME NEW t \in Threads, CallStep(t) PROVE StartedInv'
    BY <2>2, <2>3, EnterBblStarted
       DEF CallStep, BBLStart, BBLEnd, OffloadStart, OffloadEnd, LeaveBbl, callVars, tickVars
  <2>4. ASSUME NEW t \in Threads, TickStep(t) \/ ReuseStep(t) PROVE StartedInv'
    <3>1. DOMAIN stats' = Threads /\ \A u \in Threads : DOMAIN stats'[u] = DOMAIN stats[u]
      BY <2>4, OtherStepsKeepDomains DEF StartedInv
    <3>2. UNCHANGED <<matrix, starts>>
      BY <2>4, OtherSteps DEF callVars
    <3> QED
      BY <2>1, <3>1, <3>2
  <2>5. CASE UNCHANGED vars
    BY <2>2, <2>5 DEF vars, callVars, tickVars
  <2> QED
    BY <2>3, <2>4, <2>5 DEF Next
<1> QED
  BY <1>1, <1>2, CallTypeInvariant, PTL DEF Spec

\* What the collectors say of switches once the program has ended.
SwitchesOK == CallTypeOK /\ SwitchCountsFollowOnePath /\ StartedInv

\* A row that is not printed has no entries.
LEMMA RowsNotPrinted ==
  ASSUME SwitchesOK, NEW t \in Threads, NEW f \in Hashes \cup {Phantom}, NEW h \in Hashes,
         total[t][f] = 0
  PROVE  matrix[t][<<f, h>>] = 0
<1>1. PICK row : row = [g \in Hashes |-> matrix[t][<<f, g>>]]
  OBVIOUS
<1>2. row \in [Hashes -> Nat] /\ row[h] = matrix[t][<<f, h>>]
  BY <1>1 DEF SwitchesOK, CallTypeOK
<1>3. SumFunction(row) = 0
  BY <1>1 DEF SwitchesOK, SwitchCountsFollowOnePath
<1>4. IsFiniteSet(Hashes \ {h}) /\ \A g \in Hashes : row[g] \in Nat /\ row[g] \in Int
  BY <1>2, HashesAreFinite, FS_Subset
<1>5. SumFunctionOnSet(row, Hashes) = row[h] + SumFunctionOnSet(row, Hashes \ {h})
  BY <1>4, HashesAreFinite, SumRemove
<1>6. SumFunctionOnSet(row, Hashes \ {h}) \in Nat
  BY <1>4, SumNat
<1>7. SumFunctionOnSet(row, Hashes) = 0 /\ row[h] \in Nat
  BY <1>2, <1>3 DEF SumFunction
<1> QED
  BY <1>2, <1>5, <1>6, <1>7

\* The entries of a thread's section are all the switches of its path.
LEMMA EntriesAreAll ==
  ASSUME SwitchesOK, NEW t \in Threads
  PROVE  /\ IsFiniteSet(Entries(t)) /\ \A p \in Entries(t) : matrix[t][p] \in Int
         /\ SumFunctionOnSet(matrix[t], Entries(t)) = SumFunction(starts[t])
<1>1. PICK M : M = (Hashes \cup {Phantom}) \X Hashes
  OBVIOUS
<1>2. IsFiniteSet(M) /\ matrix[t] \in [M -> Nat]
  BY <1>1, HashesAreFinite, FS_Product DEF SwitchesOK, CallTypeOK
<1>3. PICK S : S = Entries(t)
  OBVIOUS
<1>4. S \in SUBSET M
  BY <1>1, <1>3 DEF Entries, PrintedRows
<1>5. ASSUME NEW p \in M \ S PROVE matrix[t][p] = 0
  <2>1. PICK f \in Hashes \cup {Phantom} : \E h \in Hashes : p = <<f, h>>
    BY <1>1
  <2>2. PICK h \in Hashes : p = <<f, h>>
    BY <2>1
  <2>3. matrix[t][p] \in Nat /\ total[t][f] \in Nat
    BY <1>2 DEF SwitchesOK, CallTypeOK
  <2>4. CASE total[t][f] = 0
    BY <2>2, <2>4, RowsNotPrinted
  <2>5. CASE total[t][f] > 0
    <3>1. f \in PrintedRows(t)
      BY <2>5 DEF PrintedRows
    <3> QED
      BY <1>3, <1>5, <2>2, <2>3, <3>1 DEF Entries
  <2> QED
    BY <2>3, <2>4, <2>5
<1>6. \A p \in M : matrix[t][p] \in Int
  BY <1>2
<1>7. SumFunctionOnSet(matrix[t], M) = SumFunctionOnSet(matrix[t], S)
  BY <1>2, <1>4, <1>5, <1>6, SumOutside
<1>8. SumFunction(matrix[t]) = SumFunctionOnSet(matrix[t], M)
  BY <1>2 DEF SumFunction
<1>9. SumFunction(matrix[t]) = SumFunction(starts[t])
  BY DEF SwitchesOK, StartedInv
<1>10. IsFiniteSet(S)
  BY <1>2, <1>4, FS_Subset
<1> QED
  BY <1>3, <1>4, <1>6, <1>7, <1>8, <1>9, <1>10

\* The ids follow the order of the hashes.
LEMMA IdsRise ==
  ASSUME DOMAIN statsmap \subseteq Hashes
  PROVE  /\ \A h \in DOMAIN statsmap : GeneratedId(h) \in Ids /\ GeneratedId(h) \in Nat
         /\ \A g, h \in DOMAIN statsmap : g < h => GeneratedId(g) < GeneratedId(h)
<1>1. PICK D : D = DOMAIN statsmap
  OBVIOUS
<1>2. \A h \in Hashes : h \in Nat
  BY HashAssumption DEF Hashes, GLOBAL_BBLHASH
<1>3. ASSUME NEW h \in D PROVE GeneratedId(h) \in Ids /\ GeneratedId(h) \in Nat
  <2>1. PICK A : A = {e \in D : e < h}
    OBVIOUS
  <2>2. A \in SUBSET Hashes
    BY <1>1, <2>1
  <2>3. Cardinality(A) <= Cardinality(Hashes) /\ Cardinality(A) \in Nat /\ Cardinality(Hashes) \in Nat
    BY <2>2, HashesAreFinite, FS_Subset, FS_CardinalityType
  <2>4. GeneratedId(h) = Cardinality(A)
    BY <1>1, <2>1 DEF GeneratedId
  <2> QED
    BY <2>3, <2>4 DEF Ids
<1>4. ASSUME NEW g \in D, NEW h \in D, g < h
      PROVE  GeneratedId(g) < GeneratedId(h)
  <2>1. PICK A, B : A = {e \in D : e < g} /\ B = {e \in D : e < h}
    OBVIOUS
  <2>2. A \in SUBSET B /\ g \in B /\ g \notin A /\ B \in SUBSET Hashes
    BY <1>1, <1>2, <1>4, <2>1
  <2>3. IsFiniteSet(B)
    BY <2>2, HashesAreFinite, FS_Subset
  <2>4. IsFiniteSet(A) /\ Cardinality(A) <= Cardinality(B) /\ (Cardinality(B) = Cardinality(A) => B = A)
    BY <2>2, <2>3, FS_Subset
  <2>5. Cardinality(A) \in Nat /\ Cardinality(B) \in Nat
    BY <2>3, <2>4, FS_CardinalityType
  <2>6. Cardinality(A) # Cardinality(B)
    BY <2>2, <2>4
  <2>7. Cardinality(A) < Cardinality(B)
    BY <2>4, <2>5, <2>6
  <2>8. GeneratedId(g) = Cardinality(A) /\ GeneratedId(h) = Cardinality(B)
    BY <1>1, <2>1 DEF GeneratedId
  <2> QED
    BY <2>7, <2>8
<1> QED
  BY <1>1, <1>3, <1>4

\* No two rows of a section have one id: the region outside main is never left, and
\* the blocks that are come after it in the order of ids.
LEMMA RowIdsDiffer ==
  ASSUME SwitchesOK, ReportInv, numbered = Threads, NEW t \in Threads
  PROVE  /\ \A f \in PrintedRows(t) : PrintedId(t, f) \in Nat
         /\ \A f, g \in PrintedRows(t) : PrintedId(t, f) = PrintedId(t, g) => f = g
<1>1. PICK D : D = DOMAIN statsmap
  OBVIOUS
<1>2. /\ DOMAIN stats[t] \subseteq D /\ D \subseteq Hashes /\ GLOBAL_BBLHASH \in D
      /\ \A h \in DOMAIN stats[t] : bblid[t][h] = GeneratedId(h)
  BY <1>1 DEF ReportInv, IdInv, MergeInv, SwitchesOK, StartedInv
<1>3. \A h \in Hashes : h \in Nat /\ (h # GLOBAL_BBLHASH => h > 0)
  BY HashAssumption DEF Hashes, GLOBAL_BBLHASH
<1>4. \A g, h \in D : g < h =>
        GeneratedId(g) \in Nat /\ GeneratedId(h) \in Nat /\ GeneratedId(g) < GeneratedId(h)
  BY <1>1, <1>2, IdsRise
<1>5. ASSUME NEW f \in PrintedRows(t), f # Phantom
      PROVE  /\ f \in D /\ f \in Nat /\ f > 0 /\ PrintedId(t, f) = GeneratedId(f)
             /\ GeneratedId(f) \in Nat /\ GeneratedId(f) > 0
  <2>1. f \in Hashes /\ total[t][f] > 0
    BY <1>5 DEF PrintedRows
  <2>2. starts[t][f] > 0
    <3>1. total[t][f] + (IF f = last[t] THEN 1 ELSE 0) = starts[t][f]
      BY <2>1 DEF SwitchesOK, SwitchCountsFollowOnePath, TotalsFollowStarts
    <3>2. total[t][f] \in Nat
      BY <2>1 DEF SwitchesOK, CallTypeOK
    <3> QED
      BY <2>1, <3>1, <3>2
  <2>3. f \in Bbls /\ f \in DOMAIN stats[t]
    BY <2>1, <2>2 DEF SwitchesOK, StartedInv
  <2>4. f \in D /\ f \in Nat /\ f > 0 /\ GLOBAL_BBLHASH < f
    BY <1>2, <1>3, <2>3, HashAssumption DEF GLOBAL_BBLHASH
  <2>5. PrintedId(t, f) = GeneratedId(f)
    BY <1>2, <1>5, <2>3 DEF PrintedId
  <2>6. GeneratedId(GLOBAL_BBLHASH) \in Nat /\ GeneratedId(f) \in Nat
          /\ GeneratedId(GLOBAL_BBLHASH) < GeneratedId(f)
    BY <1>2, <1>4, <2>4
  <2>7. GeneratedId(f) > 0
    BY <2>6
  <2> QED
    BY <2>4, <2>5, <2>6, <2>7
<1>6. PrintedId(t, Phantom) = 0
  BY DEF PrintedId, GLOBAL_BBLID
<1>7. ASSUME NEW f \in PrintedRows(t), NEW g \in PrintedRows(t), PrintedId(t, f) = PrintedId(t, g)
      PROVE  f = g
  <2>1. CASE f = Phantom /\ g = Phantom
    BY <2>1
  <2>2. CASE f = Phantom /\ g # Phantom
    <3>1. PrintedId(t, g) > 0 /\ PrintedId(t, g) \in Nat
      BY <1>5, <2>2
    <3> QED
      BY <1>6, <1>7, <2>2, <3>1
  <2>3. CASE f # Phantom /\ g = Phantom
    <3>1. PrintedId(t, f) > 0 /\ PrintedId(t, f) \in Nat
      BY <1>5, <2>3
    <3> QED
      BY <1>6, <1>7, <2>3, <3>1
  <2>4. CASE f # Phantom /\ g # Phantom
    <3>1. /\ f \in D /\ g \in D /\ f \in Nat /\ g \in Nat
          /\ GeneratedId(f) = GeneratedId(g)
      BY <1>5, <1>7, <2>4
    <3>2. ~(f < g) /\ ~(g < f)
      BY <1>4, <3>1
    <3> QED
      BY <3>1, <3>2
  <2> QED
    BY <2>1, <2>2, <2>3, <2>4
<1>8. ASSUME NEW f \in PrintedRows(t) PROVE PrintedId(t, f) \in Nat
  BY <1>5, <1>6
<1> QED
  BY <1>7, <1>8

\* Every row printed so far has its place, and those that no other thread printed are
\* as they were counted.
RowsInv ==
  /\ \A t \in read : \A f \in PrintedRows(t) : PrintedId(t, f) \in DOMAIN switchRows
  /\ \A t \in read : \A f \in PrintedRows(t) :
       (\A u \in read \ {t} : PrintedId(t, f) \notin {PrintedId(u, g) : g \in PrintedRows(u)})
         => switchRows[PrintedId(t, f)] = PrintedRow(t, f)

\* The moves between blocks are the starts of the threads read.
MovesInv ==
  /\ IsFiniteSet(DOMAIN regMoves) /\ \A e \in DOMAIN regMoves : regMoves[e] \in Int
  /\ SumFunction(regMoves) = SumFunction([t \in read |-> SumFunction(starts[t])])

\* The rows of one more section.
LEMMA RowsGrow ==
  ASSUME SwitchesOK, ReportInv, RowsInv, NEW t \in Threads, ParseSection(t)
  PROVE  RowsInv'
<1>1. /\ t \notin read /\ read' = read \cup {t} /\ read \subseteq Threads /\ numbered = Threads
      /\ switchRows' = RowInsert(switchRows, t)
      /\ UNCHANGED <<matrix, total, bblid>>
  BY DEF ParseSection, ParseSwitchRows, ReportInv, ReadInv, collectorVars, vars, callVars
<1>2. /\ \A u : PrintedRows(u)' = PrintedRows(u)
      /\ \A u, f : PrintedId(u, f)' = PrintedId(u, f)
      /\ \A u, f : PrintedRow(u, f)' = PrintedRow(u, f)
  <2>1. /\ \A u : PrintedRows(u)' = PrintedRows(u)
        /\ \A u, f : PrintedId(u, f)' = PrintedId(u, f)
    BY <1>1 DEF PrintedRows, PrintedId
  <2>2. \A u, f : PrintedRow(u, f)' = PrintedRow(u, f)
    BY <1>1, <2>1 DEF PrintedRow
  <2> QED
    BY <2>1, <2>2
<1>3. PICK ids : ids = {PrintedId(t, f) : f \in PrintedRows(t)}
  OBVIOUS
<1>4. /\ ids \subseteq Nat
      /\ \A f, g \in PrintedRows(t) : PrintedId(t, f) = PrintedId(t, g) => f = g
  BY <1>1, <1>3, RowIdsDiffer
<1>5. switchRows' = [i \in DOMAIN switchRows \cup UNION {0 .. id : id \in ids} |->
                       IF i \in ids
                       THEN PrintedRow(t, CHOOSE f \in PrintedRows(t) : PrintedId(t, f) = i)
                       ELSE At(switchRows, i, << >>)]
  BY <1>1, <1>3 DEF RowInsert
<1>6. /\ ids \subseteq DOMAIN switchRows' /\ DOMAIN switchRows \subseteq DOMAIN switchRows'
      /\ \A i \in DOMAIN switchRows \ ids : switchRows'[i] = switchRows[i]
  <2>1. ids \subseteq UNION {0 .. id : id \in ids}
    <3>1. \A id \in ids : id \in 0 .. id
      BY <1>4
    <3> QED
      BY <3>1
  <2>2. \A i \in DOMAIN switchRows \ ids : At(switchRows, i, << >>) = switchRows[i]
    BY DEF At
  <2> QED
    BY <1>5, <2>1, <2>2
<1>7. \A f \in PrintedRows(t) : switchRows'[PrintedId(t, f)] = PrintedRow(t, f)
  <2> SUFFICES ASSUME NEW f \in PrintedRows(t)
               PROVE  switchRows'[PrintedId(t, f)] = PrintedRow(t, f)
    OBVIOUS
  <2>1. PICK i \in ids : i = PrintedId(t, f)
    BY <1>3
  <2>2. (CHOOSE g \in PrintedRows(t) : PrintedId(t, g) = i) = f
    BY <1>4, <2>1
  <2>3. i \in DOMAIN switchRows \cup UNION {0 .. id : id \in ids}
    BY <1>5, <1>6
  <2>4. switchRows'[i] = PrintedRow(t, CHOOSE g \in PrintedRows(t) : PrintedId(t, g) = i)
    BY <1>5, <2>3
  <2> QED
    BY <2>1, <2>2, <2>4
<1>8. ASSUME NEW u \in read', NEW f \in PrintedRows(u)
      PROVE  /\ PrintedId(u, f) \in DOMAIN switchRows'
             /\ (\A v \in read' \ {u} : PrintedId(u, f) \notin {PrintedId(v, g) : g \in PrintedRows(v)})
                  => switchRows'[PrintedId(u, f)] = PrintedRow(u, f)
  <2>1. CASE u = t
    BY <1>3, <1>6, <1>7, <2>1
  <2>2. CASE u \in read
    <3>1. PICK i : i = PrintedId(u, f)
      OBVIOUS
    <3>2. i \in DOMAIN switchRows
      BY <2>2, <3>1 DEF RowsInv
    <3>3. ASSUME \A v \in read' \ {u} : i \notin {PrintedId(v, g) : g \in PrintedRows(v)}
          PROVE  switchRows'[i] = PrintedRow(u, f)
      <4>1. i \notin ids
        BY <1>1, <1>3, <2>2, <3>3
      <4>2. \A v \in read \ {u} : i \notin {PrintedId(v, g) : g \in PrintedRows(v)}
        BY <1>1, <3>3
      <4>3. switchRows[i] = PrintedRow(u, f)
        BY <2>2, <3>1, <4>2 DEF RowsInv
      <4> QED
        BY <1>6, <3>2, <4>1, <4>3
    <3> QED
      BY <1>6, <3>1, <3>2, <3>3
  <2> QED
    BY <1>1, <2>1, <2>2
<1> QED
  BY <1>2, <1>8 DEF RowsInv

\* The moves of one more section.
LEMMA MovesGrow ==
  ASSUME SwitchesOK, ReportInv, MovesInv, NEW t \in Threads, ParseSection(t)
  PROVE  MovesInv'
<1>1. /\ t \notin read /\ read' = read \cup {t} /\ read \subseteq Threads /\ UNCHANGED starts
      /\ regMoves' = [e \in DOMAIN regMoves \cup {Ends(t, p) : p \in Entries(t)} |->
                        At(regMoves, e, 0)
                        + SumFunctionOnSet(matrix[t], {p \in Entries(t) : Ends(t, p) = e})]
  BY DEF ParseSection, ParseSwitchRows, ReportInv, ReadInv, collectorVars, vars, callVars
<1>2. PICK S : S = Entries(t)
  OBVIOUS
<1>3. PICK f : f = matrix[t]
  OBVIOUS
<1>4. /\ IsFiniteSet(S) /\ \A p \in S : f[p] \in Int
      /\ SumFunctionOnSet(f, S) = SumFunction(starts[t])
  BY <1>2, <1>3, EntriesAreAll
<1>5. PICK O : O = DOMAIN regMoves
  OBVIOUS
<1>6. PICK key : key = [p \in S |-> Ends(t, p)]
  OBVIOUS
<1>7. PICK K : K = {Ends(t, p) : p \in S}
  OBVIOUS
<1>8. PICK D : D = O \cup K
  OBVIOUS
<1>9. IsFiniteSet(O) /\ IsFiniteSet(D) /\ key \in [S -> D]
  <2>1. key \in Surjection(S, K)
    BY <1>6, <1>7 DEF Surjection
  <2>2. IsFiniteSet(K)
    BY <1>4, <2>1, FS_Surjection
  <2>3. IsFiniteSet(O)
    BY <1>5 DEF MovesInv
  <2>4. IsFiniteSet(D)
    BY <1>8, <2>2, <2>3, FS_Union
  <2> QED
    BY <1>6, <1>7, <1>8, <2>3, <2>4
<1>10. PICK old : old = [e \in D |-> At(regMoves, e, 0)]
  OBVIOUS
<1>11. /\ \A e \in O : old[e] = regMoves[e] /\ regMoves[e] \in Int
       /\ \A e \in D \ O : old[e] = 0
  BY <1>5, <1>8, <1>10 DEF At, MovesInv
<1>12. \A e \in D : old[e] \in Int
  BY <1>11
<1>13. PICK new : new = regMoves'
  OBVIOUS
<1>14. DOMAIN new = D /\ \A e \in D : new[e] = old[e] + SumFunctionOnSet(f, {p \in S : key[p] = e})
  <2>1. \A e : {p \in S : key[p] = e} = {p \in S : Ends(t, p) = e}
    BY <1>6
  <2>2. new = [e \in D |-> At(regMoves, e, 0) + SumFunctionOnSet(f, {p \in S : Ends(t, p) = e})]
    BY <1>1, <1>2, <1>3, <1>5, <1>7, <1>8, <1>13
  <2> QED
    BY <1>10, <2>1, <2>2
<1>15. SumFunctionOnSet(new, D) = SumFunctionOnSet(old, D) + SumFunctionOnSet(f, S)
  BY <1>4, <1>9, <1>12, <1>14, SumByKey
<1>16. SumFunctionOnSet(old, D) = SumFunctionOnSet(regMoves, O)
  <2>1. O \in SUBSET D
    BY <1>8
  <2>2. SumFunctionOnSet(old, D) = SumFunctionOnSet(old, O)
    BY <1>9, <1>11, <1>12, <2>1, SumOutside
  <2>3. SumFunctionOnSet(old, O) = SumFunctionOnSet(regMoves, O)
    BY <1>9, <1>11, SumSame
  <2> QED
    BY <2>2, <2>3
<1>17. \A e \in D : new[e] \in Int
  <2> SUFFICES ASSUME NEW e \in D PROVE new[e] \in Int
    OBVIOUS
  <2>1. PICK T : T = {p \in S : key[p] = e}
    OBVIOUS
  <2>2. IsFiniteSet(T) /\ \A p \in T : f[p] \in Int
    BY <1>4, <2>1, FS_Subset
  <2>3. SumFunctionOnSet(f, T) \in Int
    BY <2>2, SumInt
  <2> QED
    BY <1>12, <1>14, <2>1, <2>3
<1>18. SumFunction(new) = SumFunction([u \in read \cup {t} |-> SumFunction(starts[u])])
  <2>1. PICK g : g = [u \in Threads |-> SumFunction(starts[u])]
    OBVIOUS
  <2>2. \A u \in Threads : g[u] \in Nat
    BY <2>1, HashesAreFinite, SumOfNats DEF SwitchesOK, CallTypeOK
  <2>3. /\ SumFunction([u \in read \cup {t} |-> g[u]]) = SumFunction([u \in read |-> g[u]]) + g[t]
        /\ SumFunction([u \in read |-> g[u]]) \in Nat
    BY <1>1, <2>2, SumGrows
  <2>4. [u \in read \cup {t} |-> g[u]] = [u \in read \cup {t} |-> SumFunction(starts[u])]
          /\ [u \in read |-> g[u]] = [u \in read |-> SumFunction(starts[u])]
    BY <1>1, <2>1
  <2>5. SumFunction(regMoves) = SumFunction([u \in read |-> g[u]])
    BY <2>4 DEF MovesInv
  <2>6. SumFunction(new) = SumFunctionOnSet(new, D) /\ SumFunction(regMoves) = SumFunctionOnSet(regMoves, O)
    BY <1>5, <1>14 DEF SumFunction
  <2>7. SumFunctionOnSet(f, S) = g[t]
    BY <1>4, <2>1
  <2> QED
    BY <1>15, <1>16, <2>3, <2>4, <2>5, <2>6, <2>7
<1> QED
  BY <1>1, <1>9, <1>13, <1>14, <1>17, <1>18 DEF MovesInv

\* Before the first section is read there is nothing to lose.
LEMMA NothingRead ==
  ASSUME MovesInv, read = {}, UNCHANGED <<read, regMoves>>
  PROVE  RowsInv' /\ MovesInv'
<1>1. RowsInv'
  BY DEF RowsInv
<1>2. SumFunction([t \in read |-> SumFunction(starts[t])])' = SumFunction([t \in read |-> SumFunction(starts[t])])
  <2>1. [t \in read |-> SumFunction(starts[t])]' = [t \in read |-> SumFunction(starts[t])]
    OBVIOUS
  <2> QED
    BY <2>1
<1> QED
  BY <1>1, <1>2 DEF MovesInv

\* The rows and moves that the sections read so far handed over.
THEOREM SwitchInvariant == ReportSpec => [](RowsInv /\ MovesInv)
<1>1. ReportInit => RowsInv /\ MovesInv
  <2> SUFFICES ASSUME ReportInit PROVE RowsInv /\ MovesInv
    OBVIOUS
  <2>1. read = {} /\ regMoves = << >>
    BY DEF ReportInit
  <2>2. PICK g : g = [t \in {} |-> SumFunction(starts[t])]
    OBVIOUS
  <2>3. DOMAIN g = {} /\ DOMAIN regMoves = {}
    BY <2>1, <2>2
  <2>4. SumFunction(g) = 0 /\ SumFunction(regMoves) = 0
    BY <2>3, SumEmpty DEF SumFunction
  <2>5. RowsInv
    BY <2>1 DEF RowsInv
  <2>6. MovesInv
    BY <2>1, <2>2, <2>3, <2>4, FS_EmptySet DEF MovesInv
  <2> QED
    BY <2>5, <2>6
<1>2. SwitchesOK /\ ReportInv /\ RowsInv /\ MovesInv /\ [ReportNext]_<<collectorVars, reportVars>>
        => RowsInv' /\ MovesInv'
  <2> SUFFICES ASSUME SwitchesOK, ReportInv, RowsInv, MovesInv,
                      [ReportNext]_<<collectorVars, reportVars>>
               PROVE  RowsInv' /\ MovesInv'
    OBVIOUS
  <2>1. numbered # Threads => read = {}
    BY DEF ReportInv, ReadInv
  <2>2. merged # Threads => read = {}
    BY DEF ReportInv, ReadInv, IdInv
  <2>3. CASE Run
    <3>1. read = {}
      BY <2>2, <2>3 DEF Run, ReportInv, ReadInv
    <3>2. UNCHANGED <<read, regMoves>>
      BY <2>3 DEF Run, reportVars, solverVars
    <3> QED
      BY <3>1, <3>2, NothingRead
  <2>4. ASSUME NEW t \in Threads, MergeStatsMap(t) PROVE RowsInv' /\ MovesInv'
    <3>1. merged # Threads /\ UNCHANGED <<read, regMoves>>
      BY <2>4 DEF MergeStatsMap, solverVars
    <3> QED
      BY <2>2, <3>1, NothingRead
  <2>5. ASSUME NEW t \in Threads, AssignBBLID(t) PROVE RowsInv' /\ MovesInv'
    <3>1. numbered # Threads /\ UNCHANGED <<read, regMoves>>
      BY <2>5 DEF AssignBBLID, solverVars
    <3> QED
      BY <2>1, <3>1, NothingRead
  <2>6. ASSUME NEW t \in Threads, ParseSection(t) PROVE RowsInv' /\ MovesInv'
    BY <2>6, RowsGrow, MovesGrow
  <2>7. CASE UNCHANGED <<collectorVars, reportVars>>
    <3>1. UNCHANGED <<matrix, total, starts, bblid, read, switchRows, regMoves>>
      BY <2>7 DEF collectorVars, vars, callVars, reportVars, solverVars
    <3>2. /\ \A u : PrintedRows(u)' = PrintedRows(u)
          /\ \A u, f : PrintedId(u, f)' = PrintedId(u, f)
      BY <3>1 DEF PrintedRows, PrintedId
    <3>3. \A u, f : PrintedRow(u, f)' = PrintedRow(u, f)
      BY <3>1, <3>2 DEF PrintedRow
    <3>4. RowsInv'
      BY <3>1, <3>2, <3>3 DEF RowsInv
    <3>5. MovesInv'
      BY <3>1 DEF MovesInv
    <3> QED
      BY <3>4, <3>5
  <2> QED
    BY <2>3, <2>4, <2>5, <2>6, <2>7 DEF ReportNext
<1>3. ReportSpec => []SwitchesOK
  BY ReportsCollectors, CallTypeInvariant, PathTheorem, StartedInvariant, PTL DEF SwitchesOK
<1> QED
  BY <1>1, <1>2, <1>3, ReportInvariant, PTL DEF ReportSpec

\* A switch row that one thread alone printed reaches the solver as counted, and the
\* moves between blocks are the starts of all threads read, whichever ids they
\* share (CostSolver.cpp:272-290, DataReuse.h:160-166).
THEOREM SwitchTheorem == ReportSpec => []SwitchRowsSurviveReport
<1>1. RowsInv /\ MovesInv => SwitchRowsSurviveReport
  BY DEF RowsInv, MovesInv, SwitchRowsSurviveReport
<1> QED
  BY <1>1, SwitchInvariant, PTL

-----------------------------------------------------------------------------
(***************************************************************************)
(* The segments of the report.  A leaf is a segment of blocks that have    *)
(* counters, so all of them have ids, which differ: the line names as many *)
(* blocks as the leaf, and the solver's trie records it.  In that trie two *)
(* lines have the same path only if they are the same segment, since a     *)
(* path is the sorted set and then the head.  So parsing a section adds to *)
(* the count of each segment what the section says of it.                  *)
(***************************************************************************)
(* What a line says. *)

\* What happened to a line happened in blocks that have counters.
EventsKnown ==
  \A t \in Threads : \A g \in Tags : \A i \in 1 .. Len(chain[t][g]) :
    chain[t][g][i].bbl \in DOMAIN stats[t]

\* An access is charged to the block under execution, and no block's counters go away.
LEMMA EventsKnownStep ==
  KnownInv /\ ChainInv /\ EventsKnown /\ [Next]_vars => EventsKnown'
<1> SUFFICES ASSUME KnownInv, ChainInv, EventsKnown, [Next]_vars PROVE EventsKnown'
  OBVIOUS
<1>1. ASSUME UNCHANGED chain, \A u \in Threads : DOMAIN stats[u] \subseteq DOMAIN stats'[u]
      PROVE  EventsKnown'
  BY <1>1 DEF EventsKnown
<1>2. ASSUME NEW t \in Threads, CallStep(t) PROVE EventsKnown'
  <2>1. ASSUME NEW h \in Bbls, EnterBbl(t, h)
        PROVE  \A u \in Threads : DOMAIN stats[u] \subseteq DOMAIN stats'[u]
    BY <2>1 DEF EnterBbl, With, KnownInv, BlocksKnown
  <2>2. ASSUME NEW h \in Bbls, LeaveBbl(t, h) PROVE stats' = stats
    BY <2>2 DEF LeaveBbl, tickVars
  <2>3. UNCHANGED chain /\ \A u \in Threads : DOMAIN stats[u] \subseteq DOMAIN stats'[u]
    BY <1>2, <2>1, <2>2
       DEF CallStep, BBLStart, BBLEnd, OffloadStart, OffloadEnd, tickVars, reuseVars
  <2> QED
    BY <1>1, <2>3
<1>3. ASSUME NEW t \in Threads, TickStep(t) PROVE EventsKnown'
  <2>1. UNCHANGED chain
    BY <1>3 DEF TickStep, AddTimeInstruction, AddMemory, AddCPUTime, AddOffloadingTime, reuseVars
  <2>2. \A u \in Threads : DOMAIN stats'[u] = DOMAIN stats[u]
    BY <1>3, OtherStepsKeepDomains DEF KnownInv, BlocksKnown
  <2> QED
    BY <1>1, <2>1, <2>2
<1>4. ASSUME NEW t \in Threads, NEW tag \in Tags, NEW op, Observe(t, tag, op), UNCHANGED stats
      PROVE  EventsKnown'
  <2>1. PICK e : e = [bbl |-> GetCurrent(t), op |-> op, weight |-> 1]
    OBVIOUS
  <2>2. e.bbl \in DOMAIN stats[t]
    <3>1. stack[t] \in Seq(Hashes) /\ Len(stack[t]) >= 1 /\ Range(stack[t]) \subseteq DOMAIN stats[t]
      BY DEF KnownInv, StackInv, CallTypeOK, BlocksKnown, OpenBlocksAreKnown
    <3>2. stack[t][Len(stack[t])] \in Range(stack[t])
      BY <3>1 DEF Range
    <3> QED
      BY <2>1, <3>1, <3>2 DEF GetCurrent, Top
  <2>3. chain' = [chain EXCEPT ![t][tag] = Append(@, e)]
    BY <1>4, <2>1 DEF Observe
  <2>4. ASSUME NEW u \in Threads, NEW g \in Tags, u # t \/ g # tag
        PROVE  chain'[u][g] = chain[u][g]
    BY <2>3, <2>4 DEF ChainInv
  <2>5. PICK c \in Seq(Event) : c = chain[t][tag]
    BY DEF ChainInv
  <2>6. chain'[t][tag] = Append(c, e)
    BY <2>3, <2>5 DEF ChainInv
  <2>7. PICK d : d = Append(c, e)
    OBVIOUS
  <2>8. \A i \in 1 .. Len(d) : d[i] = e \/ (i \in 1 .. Len(c) /\ d[i] = c[i])
    BY <2>5, <2>7
  <2>9. \A i \in 1 .. Len(d) : d[i].bbl \in DOMAIN stats[t]
    BY <2>2, <2>5, <2>8 DEF EventsKnown
  <2> QED
    BY <1>4, <2>4, <2>6, <2>7, <2>9 DEF EventsKnown
<1>5. ASSUME NEW t \in Threads, ReuseStep(t) PROVE EventsKnown'
  BY <1>4, <1>5 DEF ReuseStep, InsertSegOnHit, SplitSegOnMiss, tickVars
<1>6. CASE UNCHANGED vars
  BY <1>1, <1>6 DEF vars, tickVars, reuseVars
<1> QED
  BY <1>2, <1>3, <1>5, <1>6 DEF Next

\* At any time.
THEOREM EventsInvariant == Spec => []EventsKnown
<1>1. Init => EventsKnown
  BY DEF Init, EventsKnown
<1> QED
  BY <1>1, EventsKnownStep, KnownInvariant, ChainInvariant, PTL DEF Spec

\* A leaf is the path of a segment of two known blocks or more, and has a count.
LEMMA LeafFacts ==
  ASSUME ReuseInv, ChainInv, EventsKnown, NEW t \in Threads, NEW i \in DOMAIN leaves[t],
         NEW p, p = leaves[t][i]
  PROVE  /\ Range(p) \in SUBSET Hashes /\ Range(p) \subseteq DOMAIN stats[t]
         /\ Cardinality(Range(p)) > 1 /\ Top(p) \in Range(p)
         /\ root[t].count[p] \in Int
<1>1. PICK rt : rt = root[t]
  OBVIOUS
<1>2. PICK chains \in [Tags -> Seq(Event)] : chains = chain[t]
  BY DEF ChainInv
<1>3. CountsOK(rt, chains) /\ p \in DOMAIN rt.count
  BY <1>1, <1>2 DEF ChainInv, ReuseInv, TrieOK, Range
<1>4. PICK cut \in Chains!Cuts(chains) : p = CutPath(chains, cut)
  BY <1>3 DEF CountsOK
<1>5. PICK s : s = Chains!SegmentCut(chains, cut)
  OBVIOUS
<1>6. /\ s = [head |-> s.head, set |-> s.set] /\ s.set \in SUBSET Hashes /\ s.head \in s.set
      /\ Cardinality(s.set) > 1
      /\ \A b \in s.set : \E g \in Tags : \E k \in 1 .. Len(chains[g]) : chains[g][k].bbl = b
  BY <1>5, CutSegments
<1>7. p = Append(Trie!Sorted(s.set), s.head)
  BY <1>4, <1>5 DEF CutPath, Trie!LeafPath
<1>8. Top(p) = s.head /\ Range(p) = s.set
  BY <1>6, <1>7, PathSegment
<1>9. s.set \subseteq DOMAIN stats[t]
  BY <1>2, <1>6 DEF EventsKnown
<1>10. rt.count[p] \in Int
  <2>1. PICK S : S = {c \in Chains!Cuts(chains) : CutPath(chains, c) = p}
    OBVIOUS
  <2>2. PICK f : f = WeightOf(chains)
    OBVIOUS
  <2>3. rt.count[p] = SumFunctionOnSet(f, S)
    BY <1>3, <2>1, <2>2 DEF CountsOK
  <2>4. IsFiniteSet(S)
    BY <1>3, <2>1, FS_Subset DEF CountsOK
  <2>5. \A c \in S : f[c] \in Int
    BY <2>1, <2>2, CutSegments
  <2> QED
    BY <2>3, <2>4, <2>5, SumInt
<1> QED
  BY <1>1, <1>6, <1>8, <1>9, <1>10

\* The ids of the blocks in the merged map differ, and are ids.
LEMMA IdsDiffer ==
  ASSUME ReportInv, ChargedInv, numbered = Threads, NEW t \in Threads
  PROVE  /\ \A h \in DOMAIN stats[t] : bblid[t][h] \in Ids
         /\ \A g, h \in DOMAIN stats[t] : bblid[t][g] = bblid[t][h] => g = h
<1>1. PICK D : D = DOMAIN statsmap
  OBVIOUS
<1>2. /\ DOMAIN stats[t] \subseteq D /\ D \subseteq Hashes
      /\ \A h \in DOMAIN stats[t] : bblid[t][h] = GeneratedId(h)
  BY <1>1 DEF ReportInv, IdInv, MergeInv, ChargedInv
<1>3. \A h \in Hashes : h \in Nat
  BY HashAssumption DEF Hashes, GLOBAL_BBLHASH
<1>4. /\ \A h \in D : GeneratedId(h) \in Ids /\ GeneratedId(h) \in Nat
      /\ \A g, h \in D : g < h => GeneratedId(g) < GeneratedId(h)
  BY <1>1, <1>2, IdsRise
<1>5. ASSUME NEW g \in DOMAIN stats[t], NEW h \in DOMAIN stats[t], bblid[t][g] = bblid[t][h]
      PROVE  g = h
  <2>1. GeneratedId(g) = GeneratedId(h) /\ g \in D /\ h \in D /\ g \in Nat /\ h \in Nat
    BY <1>2, <1>3, <1>5
  <2>2. GeneratedId(g) \in Int /\ GeneratedId(h) \in Int
    BY <1>4, <2>1
  <2>3. ~(g < h) /\ ~(h < g)
    BY <1>4, <2>1, <2>2
  <2> QED
    BY <2>1, <2>3
<1> QED
  BY <1>2, <1>4, <1>5

\* What the collectors say of segments, and the report of ids.
LinesOK ==
  ReuseInv /\ ChainInv /\ EventsKnown /\ ChargedInv /\ ReportInv

\* They say so at any time.
LEMMA LinesInvariant == ReportSpec => []LinesOK
BY ReportsCollectors, ReportInvariant, ReuseInvariant, ChainInvariant, EventsInvariant,
   TickInvariant, TickIsCharged, PTL DEF LinesOK

\* A line of a section names two blocks or more by ids, the head's among them.
LEMMA LineFacts ==
  ASSUME LinesOK, numbered = Threads, NEW t \in Threads, NEW i \in DOMAIN leaves[t],
         NEW line, line = PrintedSegments(t)[i]
  PROVE  /\ line.head \in Ids /\ Range(line.order) \in SUBSET Ids
         /\ Cardinality(Range(line.order)) > 1 /\ line.count \in Int
<1>1. PICK p : p = leaves[t][i]
  OBVIOUS
<1>2. PICK S : S = Range(p)
  OBVIOUS
<1>3. /\ S \in SUBSET Hashes /\ S \subseteq DOMAIN stats[t] /\ Cardinality(S) > 1
      /\ Top(p) \in S /\ root[t].count[p] \in Int
  BY <1>1, <1>2, LeafFacts DEF LinesOK
<1>4. PICK seg : seg = Trie!ExportSegment(root[t], p)
  OBVIOUS
<1>5. seg.head = Top(p) /\ seg.set = S /\ seg.count = root[t].count[p]
  BY <1>2, <1>4 DEF Trie!ExportSegment, Trie!Last, Top, Trie!ToSet, Range
<1>6. PICK order : order = Trie!Sorted(S)
  OBVIOUS
<1>7. line = [head |-> PrintedId(t, seg.head), count |-> seg.count,
              order |-> [k \in DOMAIN order |-> PrintedId(t, order[k])]]
  BY <1>1, <1>4, <1>5, <1>6 DEF PrintedSegments
<1>8. IsFiniteSet(S)
  BY <1>3, HashesAreFinite, FS_Subset
<1>9. PICK n \in Nat : n = Cardinality(S)
  BY <1>8, FS_CardinalityType
<1>10. order \in [1 .. n -> S] /\ \A x \in S : \E k \in 1 .. n : order[k] = x
  BY <1>3, <1>6, <1>8, <1>9, SortedFacts
<1>11. \A h \in S : PrintedId(t, h) = bblid[t][h]
  <2>1. Phantom \notin Hashes
    BY HashAssumption DEF Phantom, Hashes, GLOBAL_BBLHASH
  <2> QED
    BY <1>3, <2>1 DEF PrintedId
<1>12. /\ \A h \in S : bblid[t][h] \in Ids
       /\ \A g, h \in S : bblid[t][g] = bblid[t][h] => g = h
  BY <1>3, IdsDiffer DEF LinesOK
<1>13. PICK R : R = {bblid[t][h] : h \in S}
  OBVIOUS
<1>14. Range(line.order) = R
  <2>1. PICK o : o = [k \in 1 .. n |-> bblid[t][order[k]]]
    OBVIOUS
  <2>2. line.order = o
    BY <1>7, <1>10, <1>11, <2>1
  <2>3. Range(o) = R
    BY <1>10, <1>13, <2>1 DEF Range
  <2> QED
    BY <2>2, <2>3
<1>15. Cardinality(R) = n
  <2>1. PICK f : f = [h \in S |-> bblid[t][h]]
    OBVIOUS
  <2>2. f \in Bijection(S, R)
    BY <1>12, <1>13, <2>1 DEF Bijection, Injection, Surjection, IsInjective
  <2>3. f \in Injection(S, R) /\ f \in Surjection(S, R)
    BY <2>2 DEF Bijection
  <2>4. IsFiniteSet(R)
    BY <1>8, <2>3, FS_Surjection
  <2>5. Cardinality(S) <= Cardinality(R) /\ Cardinality(R) <= Cardinality(S)
    BY <1>8, <2>3, <2>4, FS_Surjection, FS_Injection
  <2>6. Cardinality(R) \in Nat
    BY <2>4, FS_CardinalityType
  <2> QED
    BY <1>9, <2>5, <2>6
<1>16. line.head = bblid[t][seg.head] /\ seg.head \in S
  BY <1>3, <1>5, <1>7, <1>11
<1>17. line.count \in Int
  BY <1>3, <1>5, <1>7
<1>18. R \in SUBSET Ids /\ line.head \in Ids
  BY <1>12, <1>13, <1>16
<1> QED
  BY <1>3, <1>9, <1>14, <1>15, <1>17, <1>18

\* The solver's trie has a name of its own for the number of elements of a set.
LEMMA IdTrieCardinality == \A S : IdTrie!Cardinality(S) = Cardinality(S)
BY DEF IdTrie!Cardinality, Cardinality

\* A set of ids, as the solver's trie walks it.
LEMMA IdSortedFacts ==
  ASSUME NEW S \in SUBSET Ids
  PROVE  /\ IdTrie!Sorted(S) \in [1 .. Cardinality(S) -> S]
         /\ \A x \in S : \E i \in 1 .. Cardinality(S) : IdTrie!Sorted(S)[i] = x
<1>1. IsFiniteSet(S)
  <2>1. Cardinality(Hashes) \in Nat
    BY HashesAreFinite, FS_CardinalityType
  <2>2. 0 \in Int /\ Cardinality(Hashes) \in Int
    BY <2>1
  <2>3. IsFiniteSet(Ids)
    BY <2>2, FS_Interval DEF Ids
  <2> QED
    BY <2>3, FS_Subset
<1>2. PICK rank : rank = [i \in Ids |-> i]
  OBVIOUS
<1>3. Ranks(rank, S)
  <2>1. \A x \in S : x \in Int /\ rank[x] = x
    BY <1>2, HashesAreFinite, FS_CardinalityType DEF Ids
  <2> QED
    BY <2>1 DEF Ranks
<1>4. PICK n, s : n = Cardinality(S) /\ s = IdTrie!Sorted(S)
  OBVIOUS
<1>5. s = CHOOSE f \in [1 .. n -> S] : \A i, j \in DOMAIN f : i < j => rank[f[i]] < rank[f[j]]
  BY <1>2, <1>4, IdTrieCardinality DEF IdTrie!Sorted, IdTrie!RankBelow
<1>6. PICK f \in [1 .. n -> S] : RisesBy(rank, f, n)
  BY <1>1, <1>3, <1>4, SortedExists
<1>7. \A i, j \in DOMAIN f : i < j => rank[f[i]] < rank[f[j]]
  BY <1>6 DEF RisesBy
<1>8. s \in [1 .. n -> S] /\ \A i, j \in DOMAIN s : i < j => rank[s[i]] < rank[s[j]]
  BY <1>5, <1>7
<1>9. s \in [1 .. n -> S] /\ RisesBy(rank, s, n)
  BY <1>8 DEF RisesBy
<1>10. s \in [1 .. Cardinality(S) -> S] /\ RisesBy(rank, s, Cardinality(S))
  BY <1>4, <1>9
<1>11. \A x \in S : \E i \in 1 .. Cardinality(S) : s[i] = x
  BY <1>1, <1>3, <1>10, SortedHasAll
<1> QED
  BY <1>4, <1>10, <1>11

\* The path the solver's trie has for a segment.
IdPath(head, set) == IdTrie!LeafPath([head |-> head, set |-> set])

\* Two segments that are not the same have two paths.
LEMMA IdPathsDiffer ==
  ASSUME NEW S \in SUBSET Ids, NEW R \in SUBSET Ids, NEW g \in Ids, NEW h \in Ids,
         IdPath(g, S) = IdPath(h, R)
  PROVE  g = h /\ S = R
<1>1. PICK a, b : a = IdTrie!Sorted(S) /\ b = IdTrie!Sorted(R)
  OBVIOUS
<1>2. PICK n, m : n = Cardinality(S) /\ m = Cardinality(R)
  OBVIOUS
<1>3. n \in Nat /\ m \in Nat
  <2>1. Cardinality(Hashes) \in Nat
    BY HashesAreFinite, FS_CardinalityType
  <2>2. 0 \in Int /\ Cardinality(Hashes) \in Int
    BY <2>1
  <2>3. IsFiniteSet(Ids)
    BY <2>2, FS_Interval DEF Ids
  <2>4. IsFiniteSet(S) /\ IsFiniteSet(R)
    BY <2>3, FS_Subset
  <2> QED
    BY <1>2, <2>4, FS_CardinalityType
<1>4. a \in [1 .. n -> S] /\ b \in [1 .. m -> R]
      /\ (\A x \in S : \E i \in 1 .. n : a[i] = x)
      /\ (\A x \in R : \E i \in 1 .. m : b[i] = x)
  BY <1>1, <1>2, IdSortedFacts
<1>5. a \in Seq(Ids) /\ b \in Seq(Ids) /\ Len(a) = n /\ Len(b) = m
  BY <1>3, <1>4
<1>6. Append(a, g) = Append(b, h)
  BY <1>1 DEF IdPath, IdTrie!LeafPath
<1>7. a = b /\ g = h
  <2>1. PICK c, d : c = Append(a, g) /\ d = Append(b, h)
    OBVIOUS
  <2>2. /\ Len(c) = n + 1 /\ Len(d) = m + 1 /\ c[n + 1] = g /\ d[m + 1] = h
        /\ \A i \in 1 .. n : c[i] = a[i]
        /\ \A i \in 1 .. m : d[i] = b[i]
    BY <1>3, <1>5, <2>1
  <2>3. c = d
    BY <1>6, <2>1
  <2>4. n = m
    BY <1>3, <2>2, <2>3
  <2>5. \A i \in 1 .. n : a[i] = b[i]
    BY <2>2, <2>3, <2>4
  <2> QED
    BY <1>5, <2>2, <2>3, <2>4, <2>5
<1>8. n = m
  BY <1>5, <1>7
<1>9. /\ \A x \in S : \E i \in 1 .. n : a[i] = x
      /\ \A x \in R : \E i \in 1 .. n : a[i] = x
      /\ \A i \in 1 .. n : a[i] \in S /\ a[i] \in R
  BY <1>4, <1>7, <1>8
<1>10. S = R
  BY <1>9
<1> QED
  BY <1>7, <1>10

-----------------------------------------------------------------------------
(* The lines of a section, parsed one after the other. *)

ParseLine(r, line) == IdTrie!UpdateTrie(r, ParsedSegment(line))
ParseLines(r, lines) == FoldLeft(LAMBDA q, line : IdTrie!UpdateTrie(q, ParsedSegment(line)), r, lines)

ParseStep(g, r, lines, s) ==
  IF s = {} THEN r ELSE ParseLine(g[s \ {Max(s)}], lines[Max(s)])
IsParse(g, r, lines) == g = [s \in SUBSET DOMAIN lines |-> ParseStep(g, r, lines, s)]
ParseOf(r, lines) == CHOOSE g : IsParse(g, r, lines)

\* The fold of the community modules, without operators as arguments.
LEMMA ParseIsFold == \A r, lines : ParseLines(r, lines) = ParseOf(r, lines)[DOMAIN lines]
BY DEF ParseLines, ParseOf, IsParse, ParseStep, ParseLine, FoldLeft, MapThenFoldSet

\* There is such a fold over every finite sequence.
LEMMA ParseExists ==
  ASSUME NEW r, NEW lines, NEW D \in SUBSET Int, D = DOMAIN lines, IsFiniteSet(D)
  PROVE  IsParse(ParseOf(r, lines), r, lines)
<1> DEFINE Upto(g, n) == \A s \in SUBSET D : Cardinality(s) <= n => g[s] = ParseStep(g, r, lines, s)
           K == {n \in Nat : \E g : Upto(g, n)}
<1>1. \A T \in SUBSET D : IsFiniteSet(T) /\ Cardinality(T) \in Nat
  BY FS_Subset, FS_CardinalityType
<1>2. \A T \in SUBSET D : T # {} =>
        /\ Max(T) \in T /\ T \ {Max(T)} \in SUBSET D
        /\ Cardinality(T \ {Max(T)}) = Cardinality(T) - 1
  <2> SUFFICES ASSUME NEW T \in SUBSET D, T # {}
               PROVE  /\ Max(T) \in T /\ T \ {Max(T)} \in SUBSET D
                      /\ Cardinality(T \ {Max(T)}) = Cardinality(T) - 1
    OBVIOUS
  <2>1. T \in SUBSET Int /\ IsFiniteSet(T)
    BY <1>1
  <2>2. PICK m \in T : m = Max(T)
    BY <2>1, LeastAndGreatest
  <2>3. Cardinality(T \ {m}) = Cardinality(T) - 1
    BY <2>1, FS_RemoveElement
  <2> QED
    BY <2>2, <2>3
<1>3. 0 \in K
  <2>1. \A T \in SUBSET D : Cardinality(T) <= 0 => T = {}
    BY <1>1, FS_EmptySet
  <2>2. Upto([s \in SUBSET D |-> r], 0)
    BY <2>1 DEF ParseStep
  <2> QED
    BY <2>2
<1>4. ASSUME NEW n \in K PROVE n + 1 \in K
  <2>1. n \in Nat /\ \E g : Upto(g, n)
    OBVIOUS
  <2>2. PICK g : Upto(g, n)
    BY <2>1
  <2> DEFINE h == [s \in SUBSET D |-> IF Cardinality(s) <= n THEN g[s] ELSE ParseStep(g, r, lines, s)]
  <2>3. ASSUME NEW s \in SUBSET D, Cardinality(s) <= n + 1 PROVE h[s] = ParseStep(h, r, lines, s)
    <3>1. h[s] = ParseStep(g, r, lines, s)
      BY <2>2
    <3>2. ASSUME s # {} PROVE g[s \ {Max(s)}] = h[s \ {Max(s)}]
      <4>1. s \ {Max(s)} \in SUBSET D /\ Cardinality(s \ {Max(s)}) <= n
        BY <1>1, <1>2, <2>1, <2>3, <3>2
      <4> QED
        BY <4>1
    <3> HIDE DEF h
    <3> QED
      BY <3>1, <3>2 DEF ParseStep
  <2> HIDE DEF h
  <2>4. Upto(h, n + 1)
    BY <2>3
  <2> HIDE DEF Upto
  <2> QED
    BY <2>1, <2>4
<1>5. K = Nat
  <2>1. K \subseteq Nat
    OBVIOUS
  <2> HIDE DEF K
  <2> QED
    BY <1>3, <1>4, <2>1, AllNumbers
<1>6. PICK g : Upto(g, Cardinality(D))
  <2>1. Cardinality(D) \in K
    BY <1>1, <1>5
  <2> HIDE DEF Upto
  <2> QED
    BY <2>1
<1> DEFINE h == [s \in SUBSET D |-> g[s]]
<1>7. \A s \in SUBSET D : Cardinality(s) <= Cardinality(D)
  BY FS_Subset
<1>8. h = [s \in SUBSET D |-> ParseStep(h, r, lines, s)]
  <2>1. ASSUME NEW s \in SUBSET D PROVE h[s] = ParseStep(h, r, lines, s)
    <3>1. h[s] = ParseStep(g, r, lines, s)
      BY <1>6, <1>7
    <3>2. g[s \ {Max(s)}] = h[s \ {Max(s)}]
      OBVIOUS
    <3> HIDE DEF h
    <3> QED
      BY <3>1, <3>2 DEF ParseStep
  <2> QED
    BY <2>1
<1> HIDE DEF h
<1>9. IsParse(h, r, lines)
  BY <1>8 DEF IsParse
<1> QED
  BY <1>9 DEF ParseOf

\* The tries there are after each of the first lines.
Passes(g, r, n, lines) ==
  /\ g[0] = r /\ g[n] = ParseLines(r, lines)
  /\ \A k \in 1 .. n : g[k] = ParseLine(g[k - 1], lines[k])

\* The fold takes the lines one after the other.
LEMMA ParsePasses ==
  ASSUME NEW r, NEW n \in Nat, NEW lines, DOMAIN lines = 1 .. n
  PROVE  \E g : Passes(g, r, n, lines)
<1>1. 1 .. n \in SUBSET Int /\ IsFiniteSet(1 .. n)
  BY FS_Interval
<1>2. PICK f : f = ParseOf(r, lines)
  OBVIOUS
<1>3. IsParse(f, r, lines)
  BY <1>1, <1>2, ParseExists
<1>4. \A s \in SUBSET (1 .. n) : f[s] = ParseStep(f, r, lines, s)
  BY <1>3 DEF IsParse
<1>5. PICK g : g = [k \in 0 .. n |-> f[1 .. k]]
  OBVIOUS
<1>6. g[0] = r
  <2>1. 1 .. 0 = {} /\ {} \in SUBSET (1 .. n)
    OBVIOUS
  <2>2. g[0] = f[1 .. 0]
    BY <1>5
  <2> QED
    BY <1>4, <2>1, <2>2 DEF ParseStep
<1>7. ASSUME NEW k \in 1 .. n PROVE g[k] = ParseLine(g[k - 1], lines[k])
  <2>1. 1 .. k \in SUBSET (1 .. n) /\ 1 .. k # {} /\ (1 .. k) \ {k} = 1 .. k - 1
    OBVIOUS
  <2>2. Max(1 .. k) = k
    <3>1. 1 .. k \in SUBSET Int /\ IsFiniteSet(1 .. k)
      BY <1>1, <2>1, FS_Subset
    <3>2. Max(1 .. k) \in 1 .. k /\ \A y \in 1 .. k : Max(1 .. k) >= y
      BY <2>1, <3>1, LeastAndGreatest
    <3> HIDE DEF Max
    <3>3. k \in 1 .. k
      OBVIOUS
    <3> QED
      BY <3>2, <3>3
  <2>3. f[1 .. k] = ParseLine(f[1 .. k - 1], lines[k])
    BY <1>4, <2>1, <2>2 DEF ParseStep
  <2>4. g[k] = f[1 .. k] /\ g[k - 1] = f[1 .. k - 1]
    BY <1>5
  <2> QED
    BY <2>3, <2>4
<1>8. g[n] = ParseLines(r, lines)
  BY <1>2, <1>5, ParseIsFold
<1> QED
  BY <1>6, <1>7, <1>8 DEF Passes

GoodLine(line) ==
  /\ line.head \in Ids /\ Range(line.order) \in SUBSET Ids
  /\ Cardinality(Range(line.order)) > 1 /\ line.count \in Int

\* What a trie has counted, of some paths.
Counted(r, D) == DOMAIN r.count = D /\ \A p : IdTrie!LeafCount(r, p) \in Int

\* A line adds its count to its path.
LEMMA LineCounts ==
  ASSUME NEW r, NEW D, Counted(r, D), NEW line, GoodLine(line), NEW q, q = ParseLine(r, line)
  PROVE  /\ Counted(q, D \cup {PathOf(line)})
         /\ \A p : IdTrie!LeafCount(q, p)
                     = IdTrie!LeafCount(r, p) + (IF p = PathOf(line) THEN line.count ELSE 0)
<1>1. PICK seg : seg = ParsedSegment(line)
  OBVIOUS
<1>2. seg.head = line.head /\ seg.set = Range(line.order) /\ seg.count = line.count
  BY <1>1 DEF ParsedSegment
<1>3. IdTrie!Recorded(seg)
  BY <1>2, IdTrieCardinality DEF IdTrie!Recorded, GoodLine
<1>4. PICK path : path = PathOf(line)
  OBVIOUS
<1>5. IdTrie!LeafPath(seg) = path
  BY <1>2, <1>4 DEF PathOf, IdTrie!LeafPath
<1>6. q.count = [p \in DOMAIN r.count \cup {path} |->
                   IdTrie!LeafCount(r, p) + (IF p = path THEN line.count ELSE 0)]
  BY <1>1, <1>2, <1>3, <1>5 DEF ParseLine, IdTrie!UpdateTrie
<1>7. DOMAIN q.count = D \cup {path}
  BY <1>6 DEF Counted
<1>8. line.count \in Int
  BY DEF GoodLine
<1>9. ASSUME NEW p
      PROVE  /\ IdTrie!LeafCount(q, p)
                  = IdTrie!LeafCount(r, p) + (IF p = path THEN line.count ELSE 0)
             /\ IdTrie!LeafCount(q, p) \in Int
  <2>1. PICK old : old = IdTrie!LeafCount(r, p)
    OBVIOUS
  <2>2. old \in Int
    BY <2>1 DEF Counted
  <2>3. CASE p \in D \cup {path}
    <3>1. IdTrie!LeafCount(q, p) = q.count[p]
      BY <1>7, <2>3 DEF IdTrie!LeafCount
    <3>2. q.count[p] = old + (IF p = path THEN line.count ELSE 0)
      BY <1>6, <2>1, <2>3 DEF Counted
    <3> QED
      BY <1>8, <2>1, <2>2, <3>1, <3>2
  <2>4. CASE p \notin D \cup {path}
    <3>1. IdTrie!LeafCount(q, p) = 0 /\ old = 0
      BY <1>7, <2>1, <2>4 DEF IdTrie!LeafCount, Counted
    <3> QED
      BY <2>1, <2>4, <3>1
  <2> QED
    BY <2>3, <2>4
<1> QED
  BY <1>4, <1>7, <1>9 DEF Counted

\* What n lines with the counts f make of a trie r that has the paths D.
SectionAdds(q, r, D, f, lines, n) ==
  /\ Counted(q, D \cup {PathOf(lines[i]) : i \in 1 .. n})
  /\ \A p : IdTrie!LeafCount(q, p)
               = IdTrie!LeafCount(r, p)
                 + SumFunctionOnSet(f, {i \in 1 .. n : PathOf(lines[i]) = p})

\* A section adds the counts of its lines to their paths.
LEMMA SectionCounts ==
  ASSUME NEW r, NEW D, Counted(r, D), NEW n \in Nat, NEW lines, DOMAIN lines = 1 .. n,
         \A i \in 1 .. n : GoodLine(lines[i]),
         NEW f, f = [i \in 1 .. n |-> lines[i].count],
         NEW q, q = ParseLines(r, lines)
  PROVE  SectionAdds(q, r, D, f, lines, n)
<1>0. PICK g : Passes(g, r, n, lines)
  BY ParsePasses
<1>1. g[0] = r /\ g[n] = q /\ \A k \in 1 .. n : g[k] = ParseLine(g[k - 1], lines[k])
  BY <1>0 DEF Passes
<1> DEFINE Of(p, k) == {i \in 1 .. k : PathOf(lines[i]) = p}
           Done(k) == /\ Counted(g[k], D \cup {PathOf(lines[i]) : i \in 1 .. k})
                      /\ \A p : IdTrie!LeafCount(g[k], p)
                                  = IdTrie!LeafCount(r, p) + SumFunctionOnSet(f, Of(p, k))
           K == {k \in Nat : k <= n => Done(k)}
<1>2. \A p : IdTrie!LeafCount(r, p) \in Int
  BY DEF Counted
<1>3. 0 \in K
  <2>1. \A p : Of(p, 0) = {}
    OBVIOUS
  <2>2. \A p : SumFunctionOnSet(f, Of(p, 0)) = 0
    BY <2>1, SumEmpty
  <2>3. D \cup {PathOf(lines[i]) : i \in 1 .. 0} = D
    OBVIOUS
  <2> HIDE DEF Of
  <2>4. Counted(g[0], D \cup {PathOf(lines[i]) : i \in 1 .. 0})
    BY <1>1, <2>3
  <2>5. ASSUME NEW p
        PROVE  IdTrie!LeafCount(g[0], p) = IdTrie!LeafCount(r, p) + SumFunctionOnSet(f, Of(p, 0))
    <3>1. PICK a \in Int : a = IdTrie!LeafCount(r, p)
      BY <1>2
    <3>2. IdTrie!LeafCount(g[0], p) = a /\ SumFunctionOnSet(f, Of(p, 0)) = 0 /\ a = a + 0
      BY <1>1, <2>2, <3>1
    <3> QED
      BY <3>1, <3>2
  <2> QED
    BY <2>4, <2>5
<1>4. ASSUME NEW k \in K PROVE k + 1 \in K
  <2> SUFFICES ASSUME k + 1 <= n PROVE Done(k + 1)
    OBVIOUS
  <2>1. k \in Nat /\ Done(k) /\ k + 1 \in 1 .. n
    OBVIOUS
  <2>2. PICK line : line = lines[k + 1]
    OBVIOUS
  <2>3. GoodLine(line) /\ f[k + 1] = line.count /\ line.count \in Int
    BY <2>1, <2>2 DEF GoodLine
  <2>4. PICK E : E = D \cup {PathOf(lines[i]) : i \in 1 .. k}
    OBVIOUS
  <2>5. g[k + 1] = ParseLine(g[k], line)
    BY <1>1, <2>1, <2>2
  <2>6. PICK old, new : old = g[k] /\ new = g[k + 1]
    OBVIOUS
  <2>7. /\ Counted(new, E \cup {PathOf(line)})
        /\ \A p : IdTrie!LeafCount(new, p)
                    = IdTrie!LeafCount(old, p) + (IF p = PathOf(line) THEN line.count ELSE 0)
    <3>1. Counted(old, E) /\ new = ParseLine(old, line)
      BY <2>1, <2>4, <2>5, <2>6
    <3> QED
      BY <2>3, <3>1, LineCounts
  <2>8. E \cup {PathOf(line)} = D \cup {PathOf(lines[i]) : i \in 1 .. k + 1}
    <3>1. \A i : i \in 1 .. k + 1 <=> i \in 1 .. k \/ i = k + 1
      BY <2>1
    <3> QED
      BY <2>2, <2>4, <3>1
  <2>9. ASSUME NEW p
        PROVE  IdTrie!LeafCount(new, p) = IdTrie!LeafCount(r, p) + SumFunctionOnSet(f, Of(p, k + 1))
    <3>1. PICK A : A = Of(p, k)
      OBVIOUS
    <3>2. IsFiniteSet(A) /\ \A i \in A : f[i] \in Int
      <4>1. A \in SUBSET (1 .. k) /\ A \in SUBSET (1 .. n)
        BY <2>1, <3>1
      <4>2. 1 \in Int /\ k \in Int
        BY <2>1
      <4>3. IsFiniteSet(1 .. k)
        BY <4>2, FS_Interval
      <4>4. \A i \in 1 .. n : f[i] \in Int
        BY DEF GoodLine
      <4> QED
        BY <4>1, <4>3, <4>4, FS_Subset
    <3>3. PICK a, b : a = IdTrie!LeafCount(r, p) /\ b = SumFunctionOnSet(f, A)
      OBVIOUS
    <3>4. a \in Int /\ b \in Int
      BY <1>2, <3>2, <3>3, SumInt
    <3>5. IdTrie!LeafCount(old, p) = a + b
      BY <2>1, <2>6, <3>1, <3>3
    <3>6. CASE PathOf(line) = p
      <4>1. Of(p, k + 1) = A \cup {k + 1} /\ k + 1 \notin A
        <5>1. \A i : i \in 1 .. k + 1 <=> i \in 1 .. k \/ i = k + 1
          BY <2>1
        <5>2. k + 1 \notin 1 .. k
          BY <2>1
        <5> QED
          BY <2>2, <3>1, <3>6, <5>1, <5>2
      <4>2. SumFunctionOnSet(f, A \cup {k + 1}) = f[k + 1] + b
        <5>1. k + 1 \notin A /\ \A i \in A \cup {k + 1} : f[i] \in Int
          BY <2>3, <3>2, <4>1
        <5> QED
          BY <3>2, <3>3, <5>1, SumWith
      <4>3. IdTrie!LeafCount(new, p) = (a + b) + line.count
        BY <2>7, <3>5, <3>6
      <4>4. PICK c : c = SumFunctionOnSet(f, Of(p, k + 1))
        OBVIOUS
      <4> HIDE DEF Of
      <4>5. c = line.count + b
        BY <2>3, <4>1, <4>2, <4>4
      <4>6. (a + b) + line.count = a + c
        BY <2>3, <3>4, <4>5
      <4> QED
        BY <3>3, <4>3, <4>4, <4>6
    <3>7. CASE PathOf(line) # p
      <4>1. Of(p, k + 1) = A
        <5>1. \A i : i \in 1 .. k + 1 <=> i \in 1 .. k \/ i = k + 1
          BY <2>1
        <5> QED
          BY <2>2, <3>1, <3>7, <5>1
      <4>2. IdTrie!LeafCount(new, p) = (a + b) + 0
        BY <2>7, <3>5, <3>7
      <4> HIDE DEF Of
      <4> QED
        BY <3>3, <3>4, <4>1, <4>2
    <3> QED
      BY <3>6, <3>7
  <2> HIDE DEF Of
  <2> QED
    BY <2>6, <2>7, <2>8, <2>9
<1>5. K = Nat
  <2>1. K \subseteq Nat
    OBVIOUS
  <2> HIDE DEF K
  <2> QED
    BY <1>3, <1>4, <2>1, AllNumbers
<1>6. Done(n)
  <2>1. n \in K
    BY <1>5
  <2> HIDE DEF Done
  <2> QED
    BY <2>1
<1> QED
  BY <1>1, <1>6 DEF SectionAdds

-----------------------------------------------------------------------------
(* The sections read. *)

\* The solver's trie has the segments of the sections read, with the counts that the
\* threads have of them together.
SegmentsInv ==
  /\ Counted(solverTrie, {PathOf(line) : line \in ReadLines})
  /\ \A head \in Ids : \A set \in SUBSET Ids :
       IdTrie!LeafCount(solverTrie, IdPath(head, set))
         = SumFunction([t \in read |-> CountIn(t, head, set)])

\* A section has a line for each leaf.
LEMMA SectionLines ==
  ASSUME LinesOK, numbered = Threads, NEW t \in Threads, NEW lines, lines = PrintedSegments(t)
  PROVE  \E n \in Nat : DOMAIN lines = 1 .. n /\ \A i \in 1 .. n : GoodLine(lines[i])
<1>1. DOMAIN lines = DOMAIN leaves[t]
  BY DEF PrintedSegments
<1>2. leaves[t] \in Seq(Seq(Hashes))
  BY DEF LinesOK, ReuseInv, TrieOK
<1>3. PICK n \in Nat : DOMAIN leaves[t] = 1 .. n
  BY <1>2
<1>4. ASSUME NEW i \in 1 .. n PROVE GoodLine(lines[i])
  BY <1>3, LineFacts DEF GoodLine
<1> QED
  BY <1>1, <1>3, <1>4

\* What a section counts of a segment.
LEMMA SectionCount ==
  ASSUME LinesOK, numbered = Threads, NEW t \in Threads, NEW head \in Ids, NEW set \in SUBSET Ids,
         NEW n \in Nat, NEW lines, lines = PrintedSegments(t), DOMAIN lines = 1 .. n,
         NEW f, f = [i \in 1 .. n |-> lines[i].count]
  PROVE  /\ CountIn(t, head, set)
              = SumFunctionOnSet(f, {i \in 1 .. n : PathOf(lines[i]) = IdPath(head, set)})
         /\ CountIn(t, head, set) \in Int
<1>1. \A i \in 1 .. n : GoodLine(lines[i])
  BY SectionLines
<1>2. PICK A : A = {i \in 1 .. n : lines[i].head = head /\ Range(lines[i].order) = set}
  OBVIOUS
<1>3. CountIn(t, head, set) = SumFunctionOnSet(f, A)
  BY <1>2 DEF CountIn
<1>4. {i \in 1 .. n : PathOf(lines[i]) = IdPath(head, set)} = A
  <2> SUFFICES ASSUME NEW i \in 1 .. n
               PROVE  PathOf(lines[i]) = IdPath(head, set)
                        <=> lines[i].head = head /\ Range(lines[i].order) = set
    BY <1>2
  <2>1. PICK g, S : g = lines[i].head /\ S = Range(lines[i].order)
    OBVIOUS
  <2>2. g \in Ids /\ S \in SUBSET Ids
    BY <1>1, <2>1 DEF GoodLine
  <2>3. PathOf(lines[i]) = IdPath(g, S)
    BY <2>1 DEF PathOf, IdPath
  <2>4. IdPath(g, S) = IdPath(head, set) => g = head /\ S = set
    BY <2>2, IdPathsDiffer
  <2> QED
    BY <2>1, <2>3, <2>4
<1>5. IsFiniteSet(A) /\ \A i \in A : f[i] \in Int
  <2>1. 1 \in Int /\ n \in Int
    OBVIOUS
  <2>2. IsFiniteSet(1 .. n) /\ A \in SUBSET (1 .. n)
    BY <1>2, <2>1, FS_Interval
  <2>3. \A i \in 1 .. n : f[i] \in Int
    BY <1>1 DEF GoodLine
  <2> QED
    BY <2>2, <2>3, FS_Subset
<1> QED
  BY <1>3, <1>4, <1>5, SumInt

\* Sections do not change once there are ids.
LEMMA SectionsStay ==
  ASSUME UNCHANGED <<bblid, root, leaves>>
  PROVE  /\ \A t : PrintedSegments(t)' = PrintedSegments(t)
         /\ \A t, head, set : CountIn(t, head, set)' = CountIn(t, head, set)
<1>1. \A t, h : PrintedId(t, h)' = PrintedId(t, h)
  BY DEF PrintedId
<1>2. \A t : PrintedSegments(t)' = PrintedSegments(t)
  BY <1>1 DEF PrintedSegments
<1> QED
  BY <1>2 DEF CountIn

\* One more section: its lines are in the trie, next to those of the sections before.
LEMMA SegmentsGrow ==
  ASSUME LinesOK, SegmentsInv, NEW t \in Threads, ParseSection(t)
  PROVE  SegmentsInv'
<1>1. /\ t \notin read /\ read' = read \cup {t} /\ read \subseteq Threads /\ numbered = Threads
      /\ UNCHANGED <<bblid, root, leaves>>
  BY DEF ParseSection, LinesOK, ReportInv, ReadInv, collectorVars, vars, reuseVars
<1>2. /\ \A u : PrintedSegments(u)' = PrintedSegments(u)
      /\ \A u, head, set : CountIn(u, head, set)' = CountIn(u, head, set)
  BY <1>1, SectionsStay
<1>3. PICK lines : lines = PrintedSegments(t)
  OBVIOUS
<1>4. PICK n \in Nat : DOMAIN lines = 1 .. n /\ \A i \in 1 .. n : GoodLine(lines[i])
  BY <1>1, <1>3, SectionLines
<1>5. PICK D : D = {PathOf(line) : line \in ReadLines}
  OBVIOUS
<1>6. PICK f : f = [i \in 1 .. n |-> lines[i].count]
  OBVIOUS
<1>7. PICK q : q = solverTrie'
  OBVIOUS
<1>8. q = ParseLines(solverTrie, lines)
  BY <1>3, <1>7 DEF ParseSection, ParseSegments, ParseLines
<1>9. Counted(solverTrie, D)
  BY <1>5 DEF SegmentsInv
<1>10. SectionAdds(q, solverTrie, D, f, lines, n)
  BY <1>4, <1>6, <1>8, <1>9, SectionCounts
<1>11. /\ Counted(q, D \cup {PathOf(lines[i]) : i \in 1 .. n})
       /\ \A p : IdTrie!LeafCount(q, p)
                   = IdTrie!LeafCount(solverTrie, p)
                     + SumFunctionOnSet(f, {i \in 1 .. n : PathOf(lines[i]) = p})
  BY <1>10 DEF SectionAdds
<1>12. {PathOf(line) : line \in ReadLines}' = D \cup {PathOf(lines[i]) : i \in 1 .. n}
  <2>1. ReadLines' = ReadLines \cup Range(lines)
    BY <1>1, <1>2, <1>3 DEF ReadLines
  <2>2. Range(lines) = {lines[i] : i \in 1 .. n}
    BY <1>4 DEF Range
  <2>3. \A line : PathOf(line)' = PathOf(line)
    BY DEF PathOf
  <2> QED
    BY <1>5, <2>1, <2>2, <2>3
<1>13. Counted(solverTrie, {PathOf(line) : line \in ReadLines})'
  BY <1>7, <1>11, <1>12 DEF Counted
<1>14. ASSUME NEW head \in Ids, NEW set \in SUBSET Ids
       PROVE  IdTrie!LeafCount(q, IdPath(head, set))
                = SumFunction([u \in read \cup {t} |-> CountIn(u, head, set)])
  <2>1. PICK p : p = IdPath(head, set)
    OBVIOUS
  <2>2. CountIn(t, head, set) = SumFunctionOnSet(f, {i \in 1 .. n : PathOf(lines[i]) = p})
    BY <1>1, <1>3, <1>4, <1>6, <2>1, SectionCount
  <2>3. ASSUME NEW u \in Threads PROVE CountIn(u, head, set) \in Int
    <3>1. PICK other : other = PrintedSegments(u)
      OBVIOUS
    <3>2. PICK m \in Nat : DOMAIN other = 1 .. m
      BY <1>1, <3>1, SectionLines
    <3>3. PICK g : g = [i \in 1 .. m |-> other[i].count]
      OBVIOUS
    <3> QED
      BY <1>1, <3>1, <3>2, <3>3, SectionCount
  <2>4. PICK a, b : a = [u \in read |-> CountIn(u, head, set)]
                    /\ b = [u \in read \cup {t} |-> CountIn(u, head, set)]
    OBVIOUS
  <2>5. IsFiniteSet(read)
    BY <1>1, ThreadsAssumption, FS_Subset
  <2>6. /\ \A u \in read : a[u] \in Int /\ b[u] = a[u]
        /\ \A u \in read \cup {t} : b[u] \in Int
        /\ b[t] = CountIn(t, head, set)
    BY <1>1, <2>3, <2>4
  <2>7. SumFunctionOnSet(b, read \cup {t}) = b[t] + SumFunctionOnSet(b, read)
    BY <1>1, <2>5, <2>6, SumWith
  <2>8. SumFunctionOnSet(b, read) = SumFunctionOnSet(a, read)
    BY <2>5, <2>6, SumSame
  <2>9. SumFunctionOnSet(a, read) \in Int
    BY <2>5, <2>6, SumInt
  <2>10. SumFunction(a) = SumFunctionOnSet(a, read) /\ SumFunction(b) = SumFunctionOnSet(b, read \cup {t})
    BY <2>4 DEF SumFunction
  <2>11. IdTrie!LeafCount(solverTrie, p) = SumFunction(a)
    BY <2>1, <2>4 DEF SegmentsInv
  <2>12. IdTrie!LeafCount(q, p) = IdTrie!LeafCount(solverTrie, p) + CountIn(t, head, set)
    BY <1>11, <2>2
  <2>13. IdTrie!LeafCount(q, p) = SumFunction(b)
    <3>1. PICK x \in Int, y \in Int : x = SumFunctionOnSet(a, read) /\ y = b[t]
      BY <2>6, <2>9
    <3>2. IdTrie!LeafCount(q, p) = x + y
      BY <2>6, <2>10, <2>11, <2>12, <3>1
    <3>3. SumFunction(b) = y + x
      BY <2>7, <2>8, <2>10, <3>1
    <3> QED
      BY <3>1, <3>2, <3>3
  <2> QED
    BY <2>1, <2>4, <2>13
<1>15. ASSUME NEW head \in Ids, NEW set \in SUBSET Ids
       PROVE  (IdTrie!LeafCount(solverTrie, IdPath(head, set))
                 = SumFunction([u \in read |-> CountIn(u, head, set)]))'
  <2>1. IdTrie!LeafCount(solverTrie, IdPath(head, set))' = IdTrie!LeafCount(q, IdPath(head, set))
    BY <1>7 DEF IdTrie!LeafCount, IdPath
  <2>2. SumFunction([u \in read |-> CountIn(u, head, set)])'
          = SumFunction([u \in read \cup {t} |-> CountIn(u, head, set)])
    <3>1. [u \in read |-> CountIn(u, head, set)]' = [u \in read \cup {t} |-> CountIn(u, head, set)]
      BY <1>1, <1>2
    <3> QED
      BY <3>1
  <2> QED
    BY <1>14, <2>1, <2>2
<1>16. Ids' = Ids
  BY DEF Ids
<1> QED
  BY <1>13, <1>15, <1>16 DEF SegmentsInv

\* Before the first section the solver's trie is empty, and stays so.
LEMMA NoSegmentsRead ==
  ASSUME SegmentsInv, read = {}, UNCHANGED <<read, solverTrie>>
  PROVE  SegmentsInv'
<1>1. ReadLines = {} /\ ReadLines' = {}
  BY DEF ReadLines
<1>2. Counted(solverTrie, {PathOf(line) : line \in ReadLines})'
  BY <1>1 DEF SegmentsInv, Counted, IdTrie!LeafCount
<1>3. ASSUME NEW head \in Ids, NEW set \in SUBSET Ids
      PROVE  (IdTrie!LeafCount(solverTrie, IdPath(head, set))
                = SumFunction([t \in read |-> CountIn(t, head, set)]))'
  <2>1. IdTrie!LeafCount(solverTrie, IdPath(head, set))' = IdTrie!LeafCount(solverTrie, IdPath(head, set))
    BY DEF IdTrie!LeafCount, IdPath
  <2>2. [t \in read |-> CountIn(t, head, set)]' = [t \in read |-> CountIn(t, head, set)]
    OBVIOUS
  <2>3. SumFunction([t \in read |-> CountIn(t, head, set)])' = SumFunction([t \in read |-> CountIn(t, head, set)])
    BY <2>2
  <2> QED
    BY <2>1, <2>3 DEF SegmentsInv
<1>4. Ids' = Ids
  BY DEF Ids
<1> QED
  BY <1>2, <1>3, <1>4 DEF SegmentsInv

\* At any time the solver's trie has what the sections read so far say.
THEOREM SegmentsInvariant == ReportSpec => []SegmentsInv
<1>1. ReportInit => SegmentsInv
  <2> SUFFICES ASSUME ReportInit PROVE SegmentsInv
    OBVIOUS
  <2>1. read = {} /\ solverTrie = IdTrie!EmptyRoot
    BY DEF ReportInit
  <2>2. DOMAIN solverTrie.count = {} /\ ReadLines = {}
    BY <2>1 DEF IdTrie!EmptyRoot, ReadLines
  <2>3. \A p : IdTrie!LeafCount(solverTrie, p) = 0
    BY <2>2 DEF IdTrie!LeafCount
  <2>4. ASSUME NEW head, NEW set PROVE SumFunction([t \in read |-> CountIn(t, head, set)]) = 0
    <3>1. PICK g : g = [t \in read |-> CountIn(t, head, set)]
      OBVIOUS
    <3>2. DOMAIN g = {}
      BY <2>1, <3>1
    <3> QED
      BY <3>1, <3>2, SumEmpty DEF SumFunction
  <2>5. Counted(solverTrie, {PathOf(line) : line \in ReadLines})
    BY <2>2, <2>3 DEF Counted
  <2> QED
    BY <2>3, <2>4, <2>5 DEF SegmentsInv
<1>2. LinesOK /\ SegmentsInv /\ [ReportNext]_<<collectorVars, reportVars>> => SegmentsInv'
  <2> SUFFICES ASSUME LinesOK, SegmentsInv, [ReportNext]_<<collectorVars, reportVars>>
               PROVE  SegmentsInv'
    OBVIOUS
  <2>1. numbered # Threads => read = {}
    BY DEF LinesOK, ReportInv, ReadInv
  <2>2. merged # Threads => read = {}
    BY DEF LinesOK, ReportInv, ReadInv, IdInv
  <2>3. CASE Run
    <3>1. read = {}
      BY <2>2, <2>3 DEF Run, LinesOK, ReportInv, ReadInv
    <3>2. UNCHANGED <<read, solverTrie>>
      BY <2>3 DEF Run, reportVars, solverVars
    <3> QED
      BY <3>1, <3>2, NoSegmentsRead
  <2>4. ASSUME NEW t \in Threads, MergeStatsMap(t) PROVE SegmentsInv'
    <3>1. merged # Threads /\ UNCHANGED <<read, solverTrie>>
      BY <2>4 DEF MergeStatsMap, solverVars
    <3> QED
      BY <2>2, <3>1, NoSegmentsRead
  <2>5. ASSUME NEW t \in Threads, AssignBBLID(t) PROVE SegmentsInv'
    <3>1. numbered # Threads /\ UNCHANGED <<read, solverTrie>>
      BY <2>5 DEF AssignBBLID, solverVars
    <3> QED
      BY <2>1, <3>1, NoSegmentsRead
  <2>6. ASSUME NEW t \in Threads, ParseSection(t) PROVE SegmentsInv'
    BY <2>6, SegmentsGrow
  <2>7. CASE UNCHANGED <<collectorVars, reportVars>>
    <3>1. UNCHANGED <<bblid, root, leaves, read, solverTrie>>
      BY <2>7 DEF collectorVars, vars, reuseVars, reportVars, solverVars
    <3>2. /\ \A t : PrintedSegments(t)' = PrintedSegments(t)
          /\ \A t, head, set : CountIn(t, head, set)' = CountIn(t, head, set)
      BY <3>1, SectionsStay
    <3>3. ReadLines' = ReadLines
      BY <3>1, <3>2 DEF ReadLines
    <3>4. Counted(solverTrie, {PathOf(line) : line \in ReadLines})'
      <4>1. \A line : PathOf(line)' = PathOf(line)
        BY DEF PathOf
      <4>2. {PathOf(line) : line \in ReadLines}' = {PathOf(line) : line \in ReadLines}
        BY <3>3, <4>1
      <4> QED
        BY <3>1, <4>2 DEF SegmentsInv, Counted, IdTrie!LeafCount
    <3>5. ASSUME NEW head \in Ids, NEW set \in SUBSET Ids
          PROVE  (IdTrie!LeafCount(solverTrie, IdPath(head, set))
                    = SumFunction([t \in read |-> CountIn(t, head, set)]))'
      <4>1. IdTrie!LeafCount(solverTrie, IdPath(head, set))' = IdTrie!LeafCount(solverTrie, IdPath(head, set))
        BY <3>1 DEF IdTrie!LeafCount, IdPath
      <4>2. [t \in read |-> CountIn(t, head, set)]' = [t \in read |-> CountIn(t, head, set)]
        BY <3>1, <3>2
      <4>3. SumFunction([t \in read |-> CountIn(t, head, set)])'
              = SumFunction([t \in read |-> CountIn(t, head, set)])
        BY <4>2
      <4> QED
        BY <4>1, <4>3 DEF SegmentsInv
    <3>6. Ids' = Ids
      BY DEF Ids
    <3> QED
      BY <3>4, <3>5, <3>6 DEF SegmentsInv
  <2> QED
    BY <2>3, <2>4, <2>5, <2>6, <2>7 DEF ReportNext
<1> QED
  BY <1>1, <1>2, LinesInvariant, PTL DEF ReportSpec

\* Each segment that the threads' tries have, with the blocks in the order of their
\* addresses, is in the solver's trie, with the blocks in the order of their ids, and
\* as often as in all sections together; nothing else is
\* (DataReuse.h:353-388, 512-521, CostSolver.cpp:249-271).
THEOREM SegmentsTheorem == ReportSpec => []SegmentsSurviveReport
<1>1. LinesOK /\ SegmentsInv => SegmentsSurviveReport
  <2> SUFFICES ASSUME LinesOK, SegmentsInv PROVE SegmentsSurviveReport
    OBVIOUS
  <2>1. DOMAIN solverTrie.count = {PathOf(line) : line \in ReadLines}
    BY DEF SegmentsInv, Counted
  <2>2. ASSUME NEW line \in ReadLines
        PROVE  IdTrie!LeafCount(solverTrie, PathOf(line))
                 = SumFunction([t \in read |-> CountIn(t, line.head, Range(line.order))])
    <3>1. read \subseteq Threads /\ (read # {} => numbered = Threads)
      BY DEF LinesOK, ReportInv, ReadInv
    <3>2. PICK t \in read : line \in Range(PrintedSegments(t))
      BY DEF ReadLines
    <3>3. PICK lines : lines = PrintedSegments(t)
      OBVIOUS
    <3>4. PICK n \in Nat : DOMAIN lines = 1 .. n /\ \A i \in 1 .. n : GoodLine(lines[i])
      BY <3>1, <3>3, SectionLines
    <3>5. GoodLine(line)
      BY <3>2, <3>3, <3>4 DEF Range
    <3>6. PICK g, S : g = line.head /\ S = Range(line.order)
      OBVIOUS
    <3>7. g \in Ids /\ S \in SUBSET Ids
      BY <3>5, <3>6 DEF GoodLine
    <3>8. PathOf(line) = IdPath(g, S)
      BY <3>6 DEF PathOf, IdPath
    <3>9. IdTrie!LeafCount(solverTrie, IdPath(g, S)) = SumFunction([u \in read |-> CountIn(u, g, S)])
      BY <3>7 DEF SegmentsInv
    <3> QED
      BY <3>6, <3>8, <3>9
  <2> QED
    BY <2>1, <2>2 DEF SegmentsSurviveReport
<1> QED
  BY <1>1, LinesInvariant, SegmentsInvariant, PTL
=============================================================================
