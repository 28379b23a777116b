---------------------------- MODULE DecisionLookup ----------------------------
(***************************************************************************)
(* How a decision gets from the solver's report to the blocks that the     *)
(* offloader pass looks up: the table PrintDecision prints                 *)
(* (CostSolver.cpp:399-472) and DecisionMap, which parses it               *)
(* (OffloaderInjection.cpp:47-138).                                        *)
(***************************************************************************)
EXTENDS Integers, Sequences, SequencesExt

CONSTANTS
  Blocks,
  FuncHi, BblHi, BblLo,  \* funchash[1], bblhash[1] and bblhash[0] of each block
  Times,                 \* costs as they are printed: whole part, and whether more follows
  Garbage                \* numbers that indeterminate memory may hold

Sites == {"CPU", "PIM"}
MAIN_BBLID == 1
MainHash == <<MAIN_BBLID, MAIN_BBLID>>

VARIABLES
  decided,      \* the solver's decision for each block and for main
  lines,        \* lines of the report that are still to be parsed
  decisionMap,  \* DecisionMap::decision_map
  offloaded     \* what the pass found for the blocks it has looked up, and for main

vars == <<decided, lines, decisionMap, offloaded>>

\* The hash the annotation pass gives a block, under which the profile knows it.
ProfileKey(b) == IF b = "main" THEN MainHash ELSE <<FuncHi[b], BblHi[b]>>

Columns == <<"BBLID", "Decision", "ctsDecision", "scaDecision", "Parallelism", "bbCount",
             "CPU", "PIM", "Difference", "Hash(hi)", "Hash(lo)">>

\* A line of the table, and whether it starts with a number, as all but the header do.
Header == [numbered |-> FALSE, fields |-> Columns]

\* One row of the table; a field that no reader looks at holds its column's name.
Row(b, site, cpu, pim) ==
  [numbered |-> TRUE,
   fields |-> [i \in DOMAIN Columns |->
                 CASE Columns[i] = "Decision" -> site
                   [] Columns[i] = "CPU" -> cpu
                   [] Columns[i] = "PIM" -> pim
                   [] Columns[i] = "Hash(hi)" -> ProfileKey(b)[1]
                   [] Columns[i] = "Hash(lo)" -> ProfileKey(b)[2]
                   [] OTHER -> Columns[i]]]

\* The table, its rows in some order: that of the hashes.
PrintDecision ==
  \E order \in SetToSeqs(Blocks \cup {"main"}), cpu, pim \in [Blocks \cup {"main"} -> Times] :
      lines = <<Header>> \o [i \in DOMAIN order |->
                Row(order[i], decided[order[i]], cpu[order[i]], pim[order[i]])]

Init ==
  /\ decided \in [Blocks \cup {"main"} -> Sites]
  /\ PrintDecision
  /\ decisionMap = << >>
  /\ offloaded = << >>

\* hi and lo are read from the seventh and the eighth field.  The read of an
\* integer stops before a fraction, at which the next read then fails and gives 0;
\* a header's first field fails every read of its line, which leaves both unset.
HiRead(line) == IF line.numbered THEN {line.fields[7].whole} ELSE Garbage
LoRead(line) ==
  IF line.numbered THEN {IF line.fields[7].fraction THEN 0 ELSE line.fields[8].whole} ELSE Garbage
SiteRead(line) == IF line.numbered /\ line.fields[2] = "PIM" THEN "PIM" ELSE "CPU"

InitDecisionMap ==
  /\ lines # << >>
  /\ \E hi \in HiRead(Head(lines)), lo \in LoRead(Head(lines)) :
       decisionMap' = [k \in (DOMAIN decisionMap) \cup {<<hi, lo>>} |->
                         IF k = <<hi, lo>> THEN SiteRead(Head(lines)) ELSE decisionMap[k]]
  /\ lines' = Tail(lines)
  /\ UNCHANGED <<decided, offloaded>>

\* A block is looked up by its own hash; main's decision is CPU if there is none.
Found(b) ==
  LET key == IF b = "main" THEN MainHash ELSE <<BblHi[b], BblLo[b]>>
  IN IF key \in DOMAIN decisionMap THEN decisionMap[key]
     ELSE IF b = "main" THEN "CPU" ELSE "INVALID"

GetDecision(b) ==
  /\ lines = << >> /\ b \notin DOMAIN offloaded
  /\ offloaded' = [x \in (DOMAIN offloaded) \cup {b} |-> IF x = b THEN Found(b) ELSE offloaded[x]]
  /\ UNCHANGED <<decided, lines, decisionMap>>

Next == InitDecisionMap \/ \E b \in Blocks \cup {"main"} : GetDecision(b)

Spec == Init /\ [][Next]_vars

-----------------------------------------------------------------------------
\* OffloaderInjection.cpp:324 "Inject offloader function to each basic block
\* according to their basic block ID and corresponding decision": what the pass
\* finds for a block is what the solver decided for it.
BlocksFindTheirDecision == \A b \in DOMAIN offloaded : offloaded[b] = decided[b]
=============================================================================
