--------------------------- MODULE AnnotatedProgram ---------------------------
(***************************************************************************)
(* A program that the LLVM passes AnnotationInjection.cpp and              *)
(* OffloaderInjection.cpp have annotated, run with the collector of        *)
(* ThreadStats or, for VTune, with the runtime of VTuneAnnotation.  A      *)
(* program is a set of functions made of basic blocks; the passes put      *)
(* calls into the blocks, and what a thread executes decides which of them *)
(* reach the receiver, and in which order.                                 *)
(***************************************************************************)
EXTENDS ThreadStats, VTuneAnnotation, SequencesExt

CONSTANTS
  Functions, Main,
  Blocks, FunctionOf, Entry,  \* blocks, the function of each, the first of each function
  Source,        \* the instructions of each block, the terminator last
  StartFunction, \* what each thread runs: main, or an outlined function
  BblKey,        \* (funchash[1], bblhash[1]) of each block
  FuncKey,       \* (funchash[1], funchash[0]) of each function
  MainKey,       \* (MAIN_BBLID, MAIN_BBLID); TSJ_BBLID is the same number
  OffloadKey,    \* (bblhash[1], 0) of each block: no function's hash is part of it
  MainCpuKey, MainPimKey, \* (MAIN_BBLID, 0): one hash, two numbers, as one binary
                          \* has either the plain calls for it or the offload calls
  MaxFrames      \* bound: functions a thread is in at once

INVALID == "INVALID"
Decisions == Sites \cup {INVALID}

ASSUME KeysAssumption ==
  /\ DOMAIN BblKey = Blocks /\ DOMAIN OffloadKey = Blocks /\ DOMAIN FuncKey = Functions
  /\ {MainKey, MainCpuKey} \cup Range(BblKey) \cup Range(FuncKey) \subseteq Bbls \ Offloaded
  /\ {MainPimKey} \cup Range(OffloadKey) \subseteq Offloaded

\* What the passes find in a block. Nothing goes to the first block of a function,
\* or from one function to another but by a call.
Inner(f) == {b \in Blocks : FunctionOf[b] = f /\ b # Entry[f]}
Body == [op : {"work", "throw"}] \cup [op : {"call"}, callee : Functions]
Ends(f) ==
  [op : {"ret", "resume", "unreachable"}] \cup [op : {"br"}, to : SUBSET Inner(f)] \cup
  [op : {"invoke"}, callee : Functions, to : Inner(f), pad : Inner(f)]
ASSUME ProgramAssumption ==
  /\ Main \in Functions /\ FunctionOf \in [Blocks -> Functions]
  /\ \A f \in Functions : Entry[f] \in Blocks /\ FunctionOf[Entry[f]] = f
  /\ \A b \in Blocks :
       /\ Source[b] \in Seq(Body \cup Ends(FunctionOf[b])) \ {<< >>}
       /\ \A n \in 1 .. Len(Source[b]) - 1 : Source[b][n] \in Body
       /\ Last(Source[b]) \in Ends(FunctionOf[b])
  /\ StartFunction \in [Threads -> Functions]
  /\ MaxFrames \in Nat

VARIABLES
  build,    \* the pass and, for the offloader, its decisions
  code,     \* the blocks with the calls the pass put in
  frames,   \* each thread's program stack: where it is in each function it is in
  unwound,  \* history: an exception left a block or function whose start had been
            \* called, or was not caught, which terminates the process
  recursed  \* history: a function was called that was not left

programVars == <<build, code, frames, unwound, recursed>>
allVars == <<vars, runtimeVars, programVars>>

-----------------------------------------------------------------------------
(* The passes *)

Terminators == {"br", "ret", "invoke", "resume", "unreachable"}

ForVTune(pass) == pass \in {"VTUNE", "VTUNE2"}

Builds ==
  {[pass |-> p] : p \in {"SNIPER", "SNIPER2", "VTUNE", "VTUNE2"}} \cup
  [pass : {"OFFLOAD"}, main : Sites, decision : [Range(OffloadKey) -> Decisions]]

Plain(key) == <<[key |-> key, site |-> "none"]>>
OnSite(key, site) == <<[key |-> key, site |-> site]>>
Region == <<[key |-> MainKey, site |-> "region"]>>  \* RESUME and DETACH

\* The start and end call a block gets, if any.
BlockCalls(b) ==
  CASE build.pass \in {"SNIPER", "VTUNE"} -> Plain(BblKey[b])
    [] build.pass \in {"SNIPER2", "VTUNE2"} -> << >>
    [] OTHER -> LET site == build.decision[OffloadKey[b]]
                IN IF site = INVALID THEN << >> ELSE OnSite(OffloadKey[b], site)

\* The start and end calls a function gets, outermost first.  (The VTune modes
\* leave out functions that initialise globals; the program has none.)
FunctionCalls(f) ==
  CASE f # Main /\ build.pass \in {"SNIPER2", "VTUNE2"} -> Plain(FuncKey[f])
    [] f # Main -> << >>
    [] build.pass = "VTUNE" -> Region
    [] build.pass = "VTUNE2" -> Region \o Plain(FuncKey[f])
    [] build.pass \in {"SNIPER", "SNIPER2"} -> Plain(MainKey)
    [] OTHER -> IF build.main = "PIM" THEN OnSite(MainPimKey, "PIM") ELSE Plain(MainCpuKey)

StartOf(calls) == [i \in DOMAIN calls |-> [op |-> "start", key |-> calls[i].key, site |-> calls[i].site]]
EndOf(calls) == Reverse([i \in DOMAIN calls |-> [op |-> "end", key |-> calls[i].key, site |-> calls[i].site]])

\* Insertion before getFirstInsertionPt() and before the last instruction.
AtStart(instrs, calls) == StartOf(calls) \o instrs
BeforeLast(instrs, calls) == Front(instrs) \o EndOf(calls) \o <<Last(instrs)>>

MutInjectBlock(b, instrs) == StartOf(BlockCalls(b)) \o EndOf(BlockCalls(b)) \o instrs
InjectBlock(b, instrs) == AtStart(BeforeLast(instrs, BlockCalls(b)), BlockCalls(b))

\* Only blocks that end in a return get the end call of their function.
InjectFunction(b, instrs) ==
  LET calls == FunctionCalls(FunctionOf[b])
      ended == IF Last(instrs).op = "ret" THEN BeforeLast(instrs, calls) ELSE instrs
  IN IF b = Entry[FunctionOf[b]] THEN AtStart(ended, calls) ELSE ended

\* Functions are treated after all blocks, so that their calls are outermost.
MutRunOnModule == [b \in Blocks |-> InjectBlock(b, InjectFunction(b, Source[b]))]
RunOnModule == [b \in Blocks |-> InjectFunction(b, InjectBlock(b, Source[b]))]

ProgramInit ==
  /\ Init /\ RuntimeInit
  /\ build \in Builds
  /\ code = RunOnModule
  /\ frames = [t \in Threads |-> <<[block |-> Entry[StartFunction[t]], pc |-> 1]>>]
  /\ unwound = FALSE /\ recursed = FALSE

-----------------------------------------------------------------------------
(* Execution *)

InstrAt(frame) == code[frame.block][frame.pc]
IsAt(t, op) == ~aborted /\ frames[t] # << >> /\ InstrAt(Last(frames[t])).op = op
Here(t) == InstrAt(Last(frames[t]))

At(b) == [block |-> b, pc |-> 1]
Past(frame) == [frame EXCEPT !.pc = @ + 1]
MoveTo(t, frame) == frames' = [frames EXCEPT ![t] = Append(Front(@), frame)]

Annotated(t) ==
  /\ MoveTo(t, Past(Last(frames[t])))
  /\ UNCHANGED <<build, code, unwound, recursed>>

StartAnnotation(t) ==
  /\ IsAt(t, "start") /\ ~ForVTune(build.pass)
  /\ IF Here(t).site = "none" THEN BBLStart(t, Here(t).key)
                              ELSE OffloadStart(t, Here(t).key, Here(t).site)
  /\ Annotated(t) /\ UNCHANGED runtimeVars

EndAnnotation(t) ==
  /\ IsAt(t, "end") /\ ~ForVTune(build.pass)
  /\ IF Here(t).site = "none" THEN BBLEnd(t, Here(t).key)
                              ELSE OffloadEnd(t, Here(t).key, Here(t).site)
  /\ Annotated(t) /\ UNCHANGED runtimeVars

VTuneMode(instr) ==
  IF instr.op = "start" THEN IF instr.site = "region" THEN "RESUME" ELSE "FRAME_BEGIN"
                        ELSE IF instr.site = "region" THEN "DETACH" ELSE "FRAME_END"

VTuneAnnotationCall(t) ==
  /\ IsAt(t, "start") \/ IsAt(t, "end")
  /\ ForVTune(build.pass)
  /\ PIMProfVTuneAnnotation(VTuneMode(Here(t)), Here(t).key)
  /\ Annotated(t) /\ UNCHANGED vars

Work(t) ==
  /\ IsAt(t, "work")
  /\ MoveTo(t, Past(Last(frames[t])))
  /\ UNCHANGED <<vars, runtimeVars, build, code, unwound, recursed>>

Branch(t) ==
  /\ IsAt(t, "br")
  /\ \E b \in Here(t).to : MoveTo(t, At(b))
  /\ UNCHANGED <<vars, runtimeVars, build, code, unwound, recursed>>

\* A call, and an invoke, which is a call that ends its block.
Call(t) ==
  /\ IsAt(t, "call") \/ IsAt(t, "invoke")
  /\ Len(frames[t]) < MaxFrames
  /\ frames' = [frames EXCEPT ![t] = Append(@, At(Entry[Here(t).callee]))]
  /\ recursed' = (recursed \/ Here(t).callee \in {FunctionOf[f.block] : f \in Range(frames[t])})
  /\ UNCHANGED <<vars, runtimeVars, build, code, unwound>>

Resumed(callers) ==
  LET caller == Last(callers)
  IN Append(Front(callers),
            IF InstrAt(caller).op = "call" THEN Past(caller) ELSE At(InstrAt(caller).to))

Return(t) ==
  /\ IsAt(t, "ret")
  /\ LET callers == Front(frames[t])
     IN frames' = [frames EXCEPT ![t] = IF callers = << >> THEN << >> ELSE Resumed(callers)]
  /\ UNCHANGED <<vars, runtimeVars, build, code, unwound, recursed>>

-----------------------------------------------------------------------------
(* What should be open, from the program and not from the calls put into it. *)

OpenIn(frame) ==
  LET op == InstrAt(frame).op
  IN (IF op = "ret" THEN << >> ELSE FunctionCalls(FunctionOf[frame.block]))
     \o (IF op \in Terminators THEN << >> ELSE BlockCalls(frame.block))
OpenCalls(t) == FlattenSeq([i \in DOMAIN frames[t] |-> OpenIn(frames[t][i])])

\* An exception, thrown or resumed by a landing pad, leaves every function down to
\* the last invoke; if there is none the process is terminated.
Throw(t) ==
  /\ IsAt(t, "throw") \/ IsAt(t, "resume")
  /\ LET s == frames[t]
         catching == {i \in 1 .. Len(s) - 1 : InstrAt(s[i]).op = "invoke"}
         left == {i \in DOMAIN s : \A c \in catching : i > c}
     IN /\ frames' = IF catching = {} THEN [u \in Threads |-> << >>]
                     ELSE [frames EXCEPT ![t] =
                             Append(SubSeq(s, 1, Max(catching) - 1), At(InstrAt(s[Max(catching)]).pad))]
        /\ unwound' = (unwound \/ catching = {} \/ \E i \in left : OpenIn(s[i]) # << >>)
  /\ UNCHANGED <<vars, runtimeVars, build, code, recursed>>

ThreadStep(t) ==
  \/ StartAnnotation(t) \/ EndAnnotation(t) \/ VTuneAnnotationCall(t) \/ Work(t) \/ Branch(t)
  \/ Call(t) \/ Return(t) \/ Throw(t)

ProgramNext == \E t \in Threads : ThreadStep(t)

ProgramSpec == ProgramInit /\ [][ProgramNext]_allVars

-----------------------------------------------------------------------------
(* Properties *)

\* The assertions of OffloadEnd and BBLEnd (Stats.h:229, 258) fail only in a
\* program that threw an exception out of something that had been started,
\* whatever the program, the pass, the decisions and the hash collisions.
AbortsOnlyAfterUnwind == aborted => unwound

\* The sites of those calls that say one, as the site stack has them.
SitesOf(calls) ==
  FlattenSeq([i \in DOMAIN calls |->
                IF calls[i].site = "none" THEN << >> ELSE <<calls[i].site = "PIM">>])

\* Whenever a thread executes code of its own and no exception has left a started
\* block, its collector's stack holds exactly the blocks and functions it is in,
\* caller below callee, so that every charge goes to the block that executes;
\* and the stack of sites holds the sites they were decided for.
OpenCallsFollowProgram ==
  \A t \in Threads :
    (~ForVTune(build.pass) /\ ~unwound /\ ~IsAt(t, "start") /\ ~IsAt(t, "end")) =>
      LET open == OpenCalls(t)
      IN /\ stack[t] = <<GLOBAL_BBLHASH>> \o [i \in DOMAIN open |-> open[i].key]
         /\ usingPim[t] = <<FALSE>> \o SitesOf(open)

\* What PIMProfAnnotation.cpp relies on: one thread, and hashes by which two
\* functions, or two blocks of different functions, can be told apart.
OneThread == \A t, u \in Threads : t = u
NoCollisions ==
  /\ \A b, c \in Blocks : BblKey[b] = BblKey[c] => FunctionOf[b] = FunctionOf[c]
  /\ \A f, g \in Functions : FuncKey[f] = FuncKey[g] => f = g

\* As long as no function calls itself and no exception leaves a begun frame,
\* VTune sees the frames of exactly the blocks or functions that are executed:
\* what PIMProfVTuneAnnotation drops as a repeat is never a call it should pass on.
\* It needs OneThread and NoCollisions, which the program of MCAnnotatedProgram has.
FramesFollowProgram ==
  \A t \in Threads :
    (ForVTune(build.pass) /\ ~unwound /\ ~recursed /\ ~IsAt(t, "start") /\ ~IsAt(t, "end")) =>
      \A k \in Uuids :
        openFrames[k] = Cardinality({i \in DOMAIN OpenCalls(t) : OpenCalls(t)[i].key = k
                                                              /\ OpenCalls(t)[i].site = "none"})

-----------------------------------------------------------------------------
(* What is asserted and does not always hold *)

\* Stats.h:229 "assert(bblhash == GetCurrentBBLHash())": the ends a program calls
\* match its starts.
EndsMatchStarts == ~aborted
=============================================================================
