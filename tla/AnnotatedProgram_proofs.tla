----------------------- MODULE AnnotatedProgram_proofs -----------------------
(***************************************************************************)
(* Proofs about annotated programs, for any program the passes may be      *)
(* given, any threads, decisions and hashes: the calls that are put into   *)
(* it nest as it does.                                                     *)
(***************************************************************************)
EXTENDS AnnotatedProgram, FiniteSums, FiniteSetTheorems, SequenceTheorems, TLAPS

-----------------------------------------------------------------------------
(* Sequences of sequences. *)

IsFlat(g, s) == g = [i \in 1 .. Len(s) |-> IF i = 1 THEN s[i] ELSE g[i - 1] \o s[i]]
FlatOf(s) == CHOOSE g : IsFlat(g, s)

\* The definition of the community modules, with its recursion spelt out.
LEMMA FlattenIs == \A s : FlattenSeq(s) = IF Len(s) = 0 THEN s ELSE FlatOf(s)[Len(s)]
BY DEF FlattenSeq, FlatOf, IsFlat

\* Every sequence of sequences can be flattened.
LEMMA FlatExists ==
  ASSUME NEW s, Len(s) \in Nat
  PROVE  IsFlat(FlatOf(s), s)
<1> DEFINE Upto(g, n) == \A i \in 1 .. n : g[i] = IF i = 1 THEN s[i] ELSE g[i - 1] \o s[i]
           K == {n \in Nat : \E g : Upto(g, n)}
<1>1. 0 \in K
  <2>1. Upto(<< >>, 0)
    OBVIOUS
  <2> HIDE DEF Upto
  <2> QED
    BY <2>1
<1>2. ASSUME NEW n \in K PROVE n + 1 \in K
  <2>1. n \in Nat /\ \E g : Upto(g, n)
    OBVIOUS
  <2>2. PICK g : Upto(g, n)
    BY <2>1
  <2> DEFINE h == [i \in 1 .. n + 1 |-> IF i <= n THEN g[i] ELSE IF i = 1 THEN s[i] ELSE g[i - 1] \o s[i]]
  <2>3. ASSUME NEW i \in 1 .. n + 1
        PROVE  h[i] = IF i = 1 THEN s[i] ELSE h[i - 1] \o s[i]
    <3>1. i \in Nat /\ (i # 1 => i - 1 \in 1 .. n /\ h[i - 1] = g[i - 1])
      BY <2>1
    <3>2. h[i] = IF i = 1 THEN s[i] ELSE g[i - 1] \o s[i]
      BY <2>1, <2>2
    <3> HIDE DEF h
    <3> QED
      BY <3>1, <3>2
  <2> HIDE DEF h
  <2>4. Upto(h, n + 1)
    BY <2>3
  <2> HIDE DEF Upto
  <2> QED
    BY <2>1, <2>4
<1>3. K = Nat
  <2>1. K \subseteq Nat
    OBVIOUS
  <2> HIDE DEF K
  <2> QED
    BY <1>1, <1>2, <2>1, AllNumbers
<1>4. PICK g : Upto(g, Len(s))
  <2>1. Len(s) \in K
    BY <1>3
  <2> HIDE DEF Upto
  <2> QED
    BY <2>1
<1> DEFINE h == [i \in 1 .. Len(s) |-> g[i]]
<1>5. IsFlat(h, s)
  <2>1. ASSUME NEW i \in 1 .. Len(s) PROVE h[i] = IF i = 1 THEN s[i] ELSE h[i - 1] \o s[i]
    <3>1. i # 1 => i - 1 \in 1 .. Len(s) /\ h[i - 1] = g[i - 1]
      OBVIOUS
    <3>2. h[i] = IF i = 1 THEN s[i] ELSE g[i - 1] \o s[i]
      BY <1>4
    <3> HIDE DEF h
    <3> QED
      BY <3>1, <3>2
  <2>2. h = [i \in 1 .. Len(s) |-> IF i = 1 THEN s[i] ELSE h[i - 1] \o s[i]]
    <3>1. h = [i \in 1 .. Len(s) |-> h[i]]
      OBVIOUS
    <3> HIDE DEF h
    <3> QED
      BY <2>1, <3>1
  <2> HIDE DEF h
  <2> QED
    BY <2>2 DEF IsFlat
<1> HIDE DEF h
<1> QED
  BY <1>5 DEF FlatOf

\* What is flattened grows at its end.
LEMMA FlattenAppend ==
  ASSUME NEW S, NEW s \in Seq(Seq(S)), NEW x \in Seq(S)
  PROVE  FlattenSeq(s) \in Seq(S) /\ FlattenSeq(Append(s, x)) = FlattenSeq(s) \o x
<1>1. PICK n : n = Len(s)
  OBVIOUS
<1>2. PICK r : r = Append(s, x)
  OBVIOUS
<1>3. /\ n \in Nat /\ Len(r) = n + 1 /\ r[n + 1] = x
      /\ \A i \in 1 .. n : r[i] = s[i] /\ s[i] \in Seq(S)
  BY <1>1, <1>2
<1>4. PICK g : g = FlatOf(s)
  OBVIOUS
<1>5. PICK h : h = FlatOf(r)
  OBVIOUS
<1>6. \A i \in 1 .. n : g[i] = IF i = 1 THEN s[i] ELSE g[i - 1] \o s[i]
  <2>1. Len(s) \in Nat /\ Len(s) = n
    BY <1>1, <1>3
  <2>2. IsFlat(g, s)
    BY <1>4, <2>1, FlatExists
  <2> QED
    BY <2>1, <2>2 DEF IsFlat
<1>7. \A i \in 1 .. n + 1 : h[i] = IF i = 1 THEN r[i] ELSE h[i - 1] \o r[i]
  <2>1. Len(r) \in Nat /\ Len(r) = n + 1
    BY <1>3
  <2>2. IsFlat(h, r)
    BY <1>5, <2>1, FlatExists
  <2> QED
    BY <2>1, <2>2 DEF IsFlat
<1> DEFINE K == {k \in Nat : k \in 1 .. n => g[k] \in Seq(S) /\ h[k] = g[k]}
<1>8. 0 \in K
  OBVIOUS
<1>9. ASSUME NEW k \in K PROVE k + 1 \in K
  <2>1. k \in Nat
    OBVIOUS
  <2> SUFFICES ASSUME k + 1 \in 1 .. n PROVE g[k + 1] \in Seq(S) /\ h[k + 1] = g[k + 1]
    BY <2>1
  <2>2. g[k + 1] = (IF k + 1 = 1 THEN s[k + 1] ELSE g[k] \o s[k + 1])
    BY <1>6, <2>1
  <2>3. h[k + 1] = (IF k + 1 = 1 THEN s[k + 1] ELSE h[k] \o s[k + 1])
    BY <1>3, <1>7, <2>1
  <2>4. k # 0 => g[k] \in Seq(S) /\ h[k] = g[k]
    BY <1>3, <2>1
  <2>5. s[k + 1] \in Seq(S)
    BY <1>3
  <2>6. \A p, q \in Seq(S) : p \o q \in Seq(S)
    OBVIOUS
  <2> HIDE DEF K
  <2> QED
    BY <2>1, <2>2, <2>3, <2>4, <2>5, <2>6
<1>10. K = Nat
  <2>1. K \subseteq Nat
    OBVIOUS
  <2> HIDE DEF K
  <2> QED
    BY <1>8, <1>9, <2>1, AllNumbers
<1>11. n # 0 => g[n] \in Seq(S) /\ h[n] = g[n]
  <2>1. n \in K
    BY <1>3, <1>10
  <2> QED
    BY <1>3, <2>1
<1>12. h[n + 1] = IF n = 0 THEN x ELSE h[n] \o x
  BY <1>3, <1>7
<1>13. FlattenSeq(s) = (IF n = 0 THEN s ELSE g[n]) /\ FlattenSeq(r) = h[n + 1]
  BY <1>1, <1>3, <1>4, <1>5, FlattenIs
<1>14. CASE n = 0
  <2>1. s = << >>
    <3>1. s \in Seq(Seq(S)) /\ Len(s) = 0
      BY <1>1, <1>14
    <3> HIDE DEF K
    <3> QED
      BY <3>1, EmptySeq
  <2>2. << >> \in Seq(S) /\ << >> \o x = x
    OBVIOUS
  <2> QED
    BY <1>2, <1>12, <1>13, <1>14, <2>1, <2>2
<1>15. CASE n # 0
  BY <1>2, <1>11, <1>12, <1>13, <1>15
<1> QED
  BY <1>14, <1>15

\* Where the elements of a concatenation are.
LEMMA ConcatIndex ==
  ASSUME NEW S, NEW s \in Seq(S), NEW r \in Seq(S)
  PROVE  /\ s \o r \in Seq(S) /\ Len(s \o r) = Len(s) + Len(r)
         /\ \A i \in 1 .. Len(s) : (s \o r)[i] = s[i]
         /\ \A i \in 1 .. Len(r) : (s \o r)[Len(s) + i] = r[i]
BY ConcatProperties, LenProperties

-----------------------------------------------------------------------------
(* What the passes make of a block. *)

AnnotationCalls == [key : Bbls, site : {"none", "region"} \cup Sites]
StartMark(call) == [op |-> "start", key |-> call.key, site |-> call.site]
EndMark(call) == [op |-> "end", key |-> call.key, site |-> call.site]
Marks == [op : {"start", "end"}, key : Bbls, site : {"none", "region"} \cup Sites]
Instrs == Body \cup Marks \cup (UNION {Ends(f) : f \in Functions})

\* A call that is inserted is an instruction like the others.
LEMMA MarksAreInstrs ==
  ASSUME NEW call \in AnnotationCalls
  PROVE  StartMark(call) \in Instrs /\ EndMark(call) \in Instrs
<1>1. StartMark(call) \in Marks /\ EndMark(call) \in Marks
  BY DEF AnnotationCalls, StartMark, EndMark, Marks
<1> QED
  BY <1>1 DEF Instrs

\* The calls before an instruction, in their order.
LEMMA StartOfFacts ==
  ASSUME NEW calls \in Seq(AnnotationCalls)
  PROVE  /\ StartOf(calls) \in Seq(Instrs)
         /\ Len(StartOf(calls)) = Len(calls)
         /\ \A i \in 1 .. Len(calls) : StartOf(calls)[i] = StartMark(calls[i])
<1>1. StartOf(calls) = [i \in 1 .. Len(calls) |-> StartMark(calls[i])]
  BY DEF StartOf, StartMark
<1>2. \A i \in 1 .. Len(calls) : calls[i] \in AnnotationCalls
  OBVIOUS
<1>3. \A i \in 1 .. Len(calls) : StartMark(calls[i]) \in Instrs
  BY <1>2, MarksAreInstrs
<1> QED
  BY <1>1, <1>3

\* The calls after it, in the opposite order.
LEMMA EndOfFacts ==
  ASSUME NEW calls \in Seq(AnnotationCalls)
  PROVE  /\ EndOf(calls) \in Seq(Instrs)
         /\ Len(EndOf(calls)) = Len(calls)
         /\ \A i \in 1 .. Len(calls) : EndOf(calls)[i] = EndMark(calls[Len(calls) + 1 - i])
<1> DEFINE m == [i \in DOMAIN calls |-> [op |-> "end", key |-> calls[i].key, site |-> calls[i].site]]
<1>1. m = [i \in 1 .. Len(calls) |-> EndMark(calls[i])]
  BY DEF EndMark
<1>2. \A i \in 1 .. Len(calls) : calls[i] \in AnnotationCalls
  OBVIOUS
<1>3. \A i \in 1 .. Len(calls) : EndMark(calls[i]) \in Instrs
  BY <1>2, MarksAreInstrs
<1>4. EndOf(calls) = [i \in 1 .. Len(m) |-> m[(Len(m) - i) + 1]]
  BY DEF EndOf, Reverse
<1> HIDE DEF m
<1>5. Len(calls) \in Nat /\ Len(m) = Len(calls)
  BY <1>1
<1>6. \A i \in 1 .. Len(calls) :
         /\ (Len(calls) - i) + 1 \in 1 .. Len(calls)
         /\ (Len(calls) - i) + 1 = Len(calls) + 1 - i
  BY <1>5
<1>7. \A i \in 1 .. Len(calls) : m[(Len(calls) - i) + 1] = EndMark(calls[Len(calls) + 1 - i])
  BY <1>1, <1>6
<1>8. EndOf(calls) = [i \in 1 .. Len(calls) |-> EndMark(calls[Len(calls) + 1 - i])]
  BY <1>4, <1>5, <1>7
<1> QED
  BY <1>3, <1>5, <1>6, <1>8

\* Insertion before the first instruction.
LEMMA AtStartFacts ==
  ASSUME NEW calls \in Seq(AnnotationCalls), NEW instrs \in Seq(Instrs)
  PROVE  /\ AtStart(instrs, calls) \in Seq(Instrs)
         /\ Len(AtStart(instrs, calls)) = Len(calls) + Len(instrs)
         /\ \A i \in 1 .. Len(calls) : AtStart(instrs, calls)[i] = StartMark(calls[i])
         /\ \A i \in 1 .. Len(instrs) : AtStart(instrs, calls)[Len(calls) + i] = instrs[i]
<1>1. PICK s : s = StartOf(calls)
  OBVIOUS
<1>2. /\ s \in Seq(Instrs) /\ Len(s) = Len(calls)
      /\ \A i \in 1 .. Len(calls) : s[i] = StartMark(calls[i])
  BY <1>1, StartOfFacts
<1>3. AtStart(instrs, calls) = s \o instrs
  BY <1>1 DEF AtStart
<1>4. /\ s \o instrs \in Seq(Instrs) /\ Len(s \o instrs) = Len(s) + Len(instrs)
      /\ \A i \in 1 .. Len(s) : (s \o instrs)[i] = s[i]
      /\ \A i \in 1 .. Len(instrs) : (s \o instrs)[Len(s) + i] = instrs[i]
  BY <1>2
<1> QED
  BY <1>2, <1>3, <1>4

\* Insertion before the last instruction.
LEMMA BeforeLastFacts ==
  ASSUME NEW calls \in Seq(AnnotationCalls), NEW instrs \in Seq(Instrs), instrs # << >>
  PROVE  /\ BeforeLast(instrs, calls) \in Seq(Instrs) \ {<< >>}
         /\ Len(BeforeLast(instrs, calls)) = Len(instrs) + Len(calls)
         /\ \A i \in 1 .. Len(instrs) - 1 : BeforeLast(instrs, calls)[i] = instrs[i]
         /\ \A i \in 1 .. Len(calls) :
              BeforeLast(instrs, calls)[Len(instrs) - 1 + i] = EndMark(calls[Len(calls) + 1 - i])
         /\ BeforeLast(instrs, calls)[Len(instrs) + Len(calls)] = instrs[Len(instrs)]
         /\ Last(BeforeLast(instrs, calls)) = Last(instrs)
<1>1. PICK e : e = EndOf(calls)
  OBVIOUS
<1>2. /\ e \in Seq(Instrs) /\ Len(e) = Len(calls)
      /\ \A i \in 1 .. Len(calls) : e[i] = EndMark(calls[Len(calls) + 1 - i])
  BY <1>1, EndOfFacts
<1>3. PICK n : n = Len(instrs)
  OBVIOUS
<1>4. PICK c : c = Len(calls)
  OBVIOUS
<1>5. n \in Nat /\ n >= 1 /\ c \in Nat /\ Len(e) = c /\ Len(instrs) = n
  BY <1>2, <1>3, <1>4, EmptySeq
<1>6. PICK f : f = Front(instrs)
  OBVIOUS
<1>7. /\ f \in Seq(Instrs) /\ Len(f) = n - 1
      /\ \A i \in 1 .. n - 1 : f[i] = instrs[i]
  BY <1>5, <1>6 DEF Front
<1>8. PICK fe : fe = f \o e
  OBVIOUS
<1>9. /\ fe \in Seq(Instrs) /\ Len(fe) = n - 1 + c
      /\ \A i \in 1 .. n - 1 : fe[i] = instrs[i]
      /\ \A i \in 1 .. c : fe[n - 1 + i] = e[i]
  <2>1. /\ fe \in Seq(Instrs) /\ Len(fe) = Len(f) + Len(e)
        /\ \A i \in 1 .. Len(f) : fe[i] = f[i]
        /\ \A i \in 1 .. Len(e) : fe[Len(f) + i] = e[i]
    <3>1. f \in Seq(Instrs) /\ e \in Seq(Instrs)
      BY <1>2, <1>7
    <3> QED
      BY <1>8, <3>1, ConcatIndex
  <2> QED
    BY <1>2, <1>5, <1>7, <2>1
<1>10. PICK r : r = fe \o <<instrs[n]>>
  OBVIOUS
<1>11. instrs[n] \in Instrs
  BY <1>5
<1>12. /\ r \in Seq(Instrs) /\ Len(r) = n + c
       /\ \A i \in 1 .. n - 1 : r[i] = instrs[i]
       /\ \A i \in 1 .. c : r[n - 1 + i] = e[i]
       /\ r[n + c] = instrs[n]
  <2>1. r = Append(fe, instrs[n])
    BY <1>9, <1>10, <1>11
  <2>2. /\ r \in Seq(Instrs) /\ Len(r) = n + c
        /\ \A i \in 1 .. n - 1 + c : r[i] = fe[i]
        /\ r[n - 1 + c + 1] = instrs[n]
    BY <1>5, <1>9, <1>11, <2>1
  <2>3. \A i \in 1 .. c : n - 1 + i \in 1 .. n - 1 + c
    BY <1>5
  <2>4. \A i \in 1 .. n - 1 : i \in 1 .. n - 1 + c
    BY <1>5
  <2>5. n - 1 + c + 1 = n + c
    BY <1>5
  <2> QED
    BY <1>9, <2>2, <2>3, <2>4, <2>5
<1>13. r # << >>
  BY <1>5, <1>12
<1>14. BeforeLast(instrs, calls) = r
  BY <1>1, <1>3, <1>6, <1>8, <1>10 DEF BeforeLast, Last
<1>15. Last(r) = instrs[n] /\ Last(instrs) = instrs[n]
  BY <1>3, <1>12 DEF Last
<1> QED
  BY <1>2, <1>3, <1>4, <1>12, <1>13, <1>14, <1>15
\* Every call that is inserted has a key and says where it is for.
LEMMA CallsTyped ==
  ASSUME build \in Builds
  PROVE  /\ \A b \in Blocks : BlockCalls(b) \in Seq(AnnotationCalls)
         /\ \A f \in Functions : FunctionCalls(f) \in Seq(AnnotationCalls)
<1> DEFINE Keys == {MainKey, MainCpuKey, MainPimKey} \cup Range(BblKey) \cup Range(FuncKey) \cup Range(OffloadKey)
<1>1. Keys \subseteq Bbls
  BY KeysAssumption, OffloadedAssumption
<1>2. \A k \in Keys : Plain(k) \in Seq(AnnotationCalls)
  BY <1>1 DEF Plain, AnnotationCalls
<1>3. \A k \in Keys, site \in Sites : OnSite(k, site) \in Seq(AnnotationCalls)
  BY <1>1 DEF OnSite, AnnotationCalls
<1>4. Region \in Seq(AnnotationCalls)
  BY <1>1 DEF Region, AnnotationCalls
<1>5. /\ \A b \in Blocks : BblKey[b] \in Keys /\ OffloadKey[b] \in Keys /\ OffloadKey[b] \in Range(OffloadKey)
      /\ \A f \in Functions : FuncKey[f] \in Keys
      /\ {MainKey, MainCpuKey, MainPimKey} \subseteq Keys
  BY KeysAssumption DEF Range
<1>6. << >> \in Seq(AnnotationCalls)
  BY EmptySeq
<1> HIDE DEF Keys
<1>7. ASSUME NEW b \in Blocks PROVE BlockCalls(b) \in Seq(AnnotationCalls)
  <2>1. CASE build.pass \in {"SNIPER", "VTUNE"}
    BY <1>2, <1>5, <2>1 DEF BlockCalls
  <2>2. CASE build.pass \in {"SNIPER2", "VTUNE2"}
    BY <1>6, <2>2 DEF BlockCalls
  <2>3. CASE build.pass \notin {"SNIPER", "VTUNE", "SNIPER2", "VTUNE2"}
    <3>1. build.decision \in [Range(OffloadKey) -> Decisions]
      BY <2>3 DEF Builds
    <3>2. build.decision[OffloadKey[b]] \in Sites \cup {INVALID}
      BY <1>5, <3>1 DEF Decisions
    <3> QED
      BY <1>3, <1>5, <1>6, <2>3, <3>2 DEF BlockCalls
  <2> QED
    BY <2>1, <2>2, <2>3
<1>8. ASSUME NEW f \in Functions PROVE FunctionCalls(f) \in Seq(AnnotationCalls)
  <2>1. \A k \in Keys : Region \o Plain(k) \in Seq(AnnotationCalls)
    BY <1>2, <1>4
  <2>2. Plain(FuncKey[f]) \in Seq(AnnotationCalls) /\ Region \o Plain(FuncKey[f]) \in Seq(AnnotationCalls)
    BY <1>2, <1>5, <2>1
  <2>3. /\ Plain(MainKey) \in Seq(AnnotationCalls) /\ Plain(MainCpuKey) \in Seq(AnnotationCalls)
        /\ OnSite(MainPimKey, "PIM") \in Seq(AnnotationCalls)
    BY <1>2, <1>3, <1>5 DEF Sites
  <2> QED
    BY <1>4, <1>6, <2>2, <2>3 DEF FunctionCalls
<1> QED
  BY <1>7, <1>8

\* How many instructions of a block come before the calls for the block, before
\* its body, before the calls that end the block, and so on.
Outer(b) == FunctionCalls(FunctionOf[b])
ToBlockStarts(b) == IF b = Entry[FunctionOf[b]] THEN Len(Outer(b)) ELSE 0
ToBody(b) == ToBlockStarts(b) + Len(BlockCalls(b))
ToBlockEnds(b) == ToBody(b) + Len(Source[b]) - 1
ToFunctionEnds(b) == ToBlockEnds(b) + Len(BlockCalls(b))
ToLast(b) == ToFunctionEnds(b) + IF Last(Source[b]).op = "ret" THEN Len(Outer(b)) ELSE 0

\* A block of the annotated program starts what its function has, if it is the
\* first one, and what it has itself; then comes what the program does; then the
\* ends, in the opposite order.
LEMMA CodeLayout ==
  ASSUME build \in Builds, NEW b \in Blocks
  PROVE  /\ RunOnModule[b] \in Seq(Instrs)
         /\ Len(RunOnModule[b]) = ToLast(b) + 1
         /\ \A i \in 1 .. ToBlockStarts(b) : RunOnModule[b][i] = StartMark(Outer(b)[i])
         /\ \A i \in 1 .. Len(BlockCalls(b)) :
              RunOnModule[b][ToBlockStarts(b) + i] = StartMark(BlockCalls(b)[i])
         /\ \A i \in 1 .. Len(Source[b]) - 1 : RunOnModule[b][ToBody(b) + i] = Source[b][i]
         /\ \A i \in 1 .. Len(BlockCalls(b)) :
              RunOnModule[b][ToBlockEnds(b) + i] = EndMark(BlockCalls(b)[Len(BlockCalls(b)) + 1 - i])
         /\ Last(Source[b]).op = "ret" =>
              \A i \in 1 .. Len(Outer(b)) :
                RunOnModule[b][ToFunctionEnds(b) + i] = EndMark(Outer(b)[Len(Outer(b)) + 1 - i])
         /\ RunOnModule[b][ToLast(b) + 1] = Last(Source[b])
<1>1. PICK src : src = Source[b]
  OBVIOUS
<1>2. PICK n : n = Len(src)
  OBVIOUS
<1>3. PICK bc : bc = BlockCalls(b)
  OBVIOUS
<1>4. PICK fc : fc = Outer(b)
  OBVIOUS
<1>5. PICK nb : nb = Len(bc)
  OBVIOUS
<1>6. PICK nf : nf = Len(fc)
  OBVIOUS
<1>7. src \in Seq(Instrs) /\ src # << >> /\ n \in Nat /\ n >= 1
  <2>1. src \in Seq(Body \cup Ends(FunctionOf[b])) \ {<< >>} /\ FunctionOf[b] \in Functions
    BY <1>1, ProgramAssumption
  <2>2. Body \cup Ends(FunctionOf[b]) \subseteq Instrs
    BY <2>1 DEF Instrs
  <2>3. src \in Seq(Instrs) /\ src # << >>
    BY <2>1, <2>2, SeqMonotonic
  <2> QED
    BY <1>2, <2>3, EmptySeq
<1>8. bc \in Seq(AnnotationCalls) /\ fc \in Seq(AnnotationCalls) /\ nb \in Nat /\ nf \in Nat
  BY <1>3, <1>4, <1>5, <1>6, CallsTyped, ProgramAssumption, LenProperties DEF Outer
<1>9. PICK one : one = BeforeLast(src, bc)
  OBVIOUS
<1>10. /\ one \in Seq(Instrs) /\ one # << >> /\ Len(one) = n + nb
       /\ \A i \in 1 .. n - 1 : one[i] = src[i]
       /\ \A i \in 1 .. nb : one[n - 1 + i] = EndMark(bc[nb + 1 - i])
       /\ one[n + nb] = src[n] /\ Last(one) = Last(src)
  BY <1>2, <1>5, <1>7, <1>8, <1>9, BeforeLastFacts
<1>11. PICK two : two = AtStart(one, bc)
  OBVIOUS
<1>12. /\ two \in Seq(Instrs) /\ Len(two) = nb + n + nb
       /\ \A i \in 1 .. nb : two[i] = StartMark(bc[i])
       /\ \A i \in 1 .. n + nb : two[nb + i] = one[i]
  <2>1. bc \in Seq(AnnotationCalls) /\ one \in Seq(Instrs)
    BY <1>8, <1>10
  <2>2. /\ AtStart(one, bc) \in Seq(Instrs) /\ Len(AtStart(one, bc)) = Len(bc) + Len(one)
        /\ \A i \in 1 .. Len(bc) : AtStart(one, bc)[i] = StartMark(bc[i])
        /\ \A i \in 1 .. Len(one) : AtStart(one, bc)[Len(bc) + i] = one[i]
    BY <2>1, AtStartFacts
  <2>3. Len(bc) = nb /\ Len(one) = n + nb /\ nb + (n + nb) = nb + n + nb
    BY <1>5, <1>7, <1>8, <1>10
  <2> QED
    BY <1>11, <2>2, <2>3
<1>13. two # << >> /\ Last(two) = Last(src)
  <2>1. Len(two) >= 1
    BY <1>7, <1>8, <1>12
  <2>2. two # << >>
    BY <2>1, EmptySeq
  <2>3. Last(two) = two[nb + (n + nb)] /\ n + nb \in 1 .. n + nb
    BY <1>7, <1>8, <1>12 DEF Last
  <2> QED
    BY <1>2, <1>10, <1>12, <2>2, <2>3 DEF Last
<1>14. InjectBlock(b, Source[b]) = two
  BY <1>1, <1>3, <1>9, <1>11 DEF InjectBlock
<1>15. PICK three : three = IF Last(src).op = "ret" THEN BeforeLast(two, fc) ELSE two
  OBVIOUS
<1>16. PICK nr : nr = IF Last(src).op = "ret" THEN nf ELSE 0
  OBVIOUS
<1>17. /\ nr \in Nat
       /\ three \in Seq(Instrs) /\ Len(three) = nb + n + nb + nr
       /\ \A i \in 1 .. nb + n + nb - 1 : three[i] = two[i]
       /\ Last(src).op = "ret" =>
            \A i \in 1 .. nf : three[nb + n + nb - 1 + i] = EndMark(fc[nf + 1 - i])
       /\ three[nb + n + nb + nr] = two[nb + n + nb]
  <2>1. CASE Last(src).op = "ret"
    <3>1. fc \in Seq(AnnotationCalls) /\ two \in Seq(Instrs) /\ two # << >>
      BY <1>8, <1>12, <1>13
    <3>2. PICK q : q = BeforeLast(two, fc)
      OBVIOUS
    <3>3. /\ q \in Seq(Instrs) /\ Len(q) = Len(two) + Len(fc)
          /\ \A i \in 1 .. Len(two) - 1 : q[i] = two[i]
          /\ \A i \in 1 .. Len(fc) : q[Len(two) - 1 + i] = EndMark(fc[Len(fc) + 1 - i])
          /\ q[Len(two) + Len(fc)] = two[Len(two)]
      BY <3>1, <3>2, BeforeLastFacts
    <3>4. Len(fc) = nf /\ Len(two) = nb + n + nb /\ nr = nf /\ three = q
      BY <1>6, <1>12, <1>15, <1>16, <2>1, <3>2
    <3>5. n \in Nat /\ nb \in Nat /\ nf \in Nat
      BY <1>7, <1>8
    <3>6. q \in Seq(Instrs) /\ Len(q) = nb + n + nb + nf /\ q[nb + n + nb + nf] = two[nb + n + nb]
      BY <3>3, <3>4
    <3>7. \A i \in 1 .. nb + n + nb - 1 : q[i] = two[i]
      BY <3>3, <3>4, <3>5
    <3>8. \A i \in 1 .. nf : q[nb + n + nb - 1 + i] = EndMark(fc[nf + 1 - i])
      BY <3>3, <3>4, <3>5
    <3> QED
      BY <3>4, <3>5, <3>6, <3>7, <3>8
  <2>2. CASE Last(src).op # "ret"
    BY <1>7, <1>8, <1>12, <1>15, <1>16, <2>2
  <2> QED
    BY <2>1, <2>2
<1>18. PICK s1 : s1 = IF b = Entry[FunctionOf[b]] THEN nf ELSE 0
  OBVIOUS
<1>19. PICK r : r = IF b = Entry[FunctionOf[b]] THEN AtStart(three, fc) ELSE three
  OBVIOUS
<1>20. /\ s1 \in Nat
       /\ r \in Seq(Instrs) /\ Len(r) = s1 + (nb + n + nb + nr)
       /\ \A i \in 1 .. s1 : r[i] = StartMark(fc[i])
       /\ \A i \in 1 .. nb + n + nb + nr : r[s1 + i] = three[i]
  <2>1. CASE b = Entry[FunctionOf[b]]
    <3>1. fc \in Seq(AnnotationCalls) /\ three \in Seq(Instrs)
      BY <1>8, <1>17
    <3>2. PICK q : q = AtStart(three, fc)
      OBVIOUS
    <3>3. /\ q \in Seq(Instrs) /\ Len(q) = Len(fc) + Len(three)
          /\ \A i \in 1 .. Len(fc) : q[i] = StartMark(fc[i])
          /\ \A i \in 1 .. Len(three) : q[Len(fc) + i] = three[i]
      BY <3>1, <3>2, AtStartFacts
    <3>4. /\ Len(fc) = nf /\ Len(three) = nb + n + nb + nr /\ s1 = nf /\ r = q
      BY <1>6, <1>17, <1>18, <1>19, <2>1, <3>2
    <3>5. nf \in Nat
      BY <1>8
    <3> QED
      BY <3>3, <3>4, <3>5
  <2>2. CASE b # Entry[FunctionOf[b]]
    BY <1>7, <1>8, <1>17, <1>18, <1>19, <2>2
  <2> QED
    BY <2>1, <2>2
<1>21. RunOnModule[b] = r
  BY <1>1, <1>4, <1>13, <1>14, <1>15, <1>19 DEF RunOnModule, InjectFunction, Outer
<1>22. /\ Len(BlockCalls(b)) = nb /\ Len(Outer(b)) = nf /\ Len(Source[b]) = n
       /\ ToBlockStarts(b) = s1 /\ ToBody(b) = s1 + nb /\ ToBlockEnds(b) = s1 + nb + n - 1
       /\ ToFunctionEnds(b) = s1 + nb + n - 1 + nb /\ ToLast(b) = s1 + nb + n - 1 + nb + nr
  BY <1>1, <1>2, <1>3, <1>4, <1>5, <1>6, <1>16, <1>18
     DEF ToBlockStarts, ToBody, ToBlockEnds, ToFunctionEnds, ToLast
<1>23. \A i \in 1 .. nb : r[s1 + i] = StartMark(bc[i])
  <2> SUFFICES ASSUME NEW i \in 1 .. nb PROVE r[s1 + i] = StartMark(bc[i])
    OBVIOUS
  <2>1. i \in 1 .. nb + n + nb - 1 /\ i \in 1 .. nb + n + nb + nr
    BY <1>7, <1>8, <1>17
  <2>2. r[s1 + i] = three[i]
    BY <1>20, <2>1
  <2>3. three[i] = two[i]
    BY <1>17, <2>1
  <2> QED
    BY <1>12, <2>2, <2>3
<1>24. \A i \in 1 .. n - 1 : r[s1 + nb + i] = src[i]
  <2> SUFFICES ASSUME NEW i \in 1 .. n - 1 PROVE r[s1 + nb + i] = src[i]
    OBVIOUS
  <2>1. s1 + nb + i = s1 + (nb + i) /\ nb + i \in 1 .. nb + n + nb - 1 /\ i \in 1 .. n + nb
    BY <1>7, <1>8, <1>20
  <2>2. nb + i \in 1 .. nb + n + nb + nr
    BY <1>7, <1>8, <1>17
  <2> QED
    BY <1>10, <1>12, <1>17, <1>20, <2>1, <2>2
<1>25. \A i \in 1 .. nb : r[s1 + nb + n - 1 + i] = EndMark(bc[nb + 1 - i])
  <2> SUFFICES ASSUME NEW i \in 1 .. nb PROVE r[s1 + nb + n - 1 + i] = EndMark(bc[nb + 1 - i])
    OBVIOUS
  <2>1. /\ s1 + nb + n - 1 + i = s1 + (nb + (n - 1 + i))
        /\ nb + (n - 1 + i) \in 1 .. nb + n + nb - 1 /\ n - 1 + i \in 1 .. n + nb
    <3>1. n \in Nat /\ n >= 1 /\ nb \in Nat /\ s1 \in Nat
      BY <1>7, <1>8, <1>20
    <3> QED
      BY <3>1
  <2>2. nb + (n - 1 + i) \in 1 .. nb + n + nb + nr
    BY <1>7, <1>8, <1>17
  <2>3. r[s1 + (nb + (n - 1 + i))] = three[nb + (n - 1 + i)]
    BY <1>20, <2>2
  <2>4. three[nb + (n - 1 + i)] = two[nb + (n - 1 + i)]
    BY <1>17, <2>1
  <2>5. two[nb + (n - 1 + i)] = one[n - 1 + i]
    BY <1>12, <2>1
  <2> QED
    BY <1>10, <2>1, <2>3, <2>4, <2>5
<1>26. Last(src).op = "ret" =>
         \A i \in 1 .. nf : r[s1 + nb + n - 1 + nb + i] = EndMark(fc[nf + 1 - i])
  <2> SUFFICES ASSUME Last(src).op = "ret", NEW i \in 1 .. nf
               PROVE  r[s1 + nb + n - 1 + nb + i] = EndMark(fc[nf + 1 - i])
    OBVIOUS
  <2>1. /\ s1 + nb + n - 1 + nb + i = s1 + (nb + n + nb - 1 + i)
        /\ nb + n + nb - 1 + i \in 1 .. nb + n + nb + nr
    BY <1>7, <1>8, <1>16, <1>20
  <2> QED
    BY <1>17, <1>20, <2>1
<1>27. r[s1 + nb + n - 1 + nb + nr + 1] = Last(src)
  <2>1. /\ s1 + nb + n - 1 + nb + nr + 1 = s1 + (nb + n + nb + nr)
        /\ nb + n + nb + nr \in 1 .. nb + n + nb + nr
        /\ nb + n + nb = nb + (n + nb) /\ n + nb \in 1 .. n + nb
    BY <1>7, <1>8, <1>17, <1>20
  <2>2. Last(src) = src[n]
    BY <1>2 DEF Last
  <2> QED
    BY <1>10, <1>12, <1>17, <1>20, <2>1, <2>2
<1>28. Len(r) = s1 + nb + n - 1 + nb + nr + 1
  BY <1>7, <1>8, <1>17, <1>20
<1> QED
  BY <1>1, <1>3, <1>4, <1>20, <1>21, <1>22, <1>23, <1>24, <1>25, <1>26, <1>27, <1>28
-----------------------------------------------------------------------------
(* Which of the calls have been made. *)

\* The first m of the calls for a function and the first k of those for a block.
Begun(outer, inner, m, k) == SubSeq(outer, 1, m) \o SubSeq(inner, 1, k)
SomeBegun(outer, inner) == {Begun(outer, inner, m, k) : m \in 0 .. Len(outer), k \in 0 .. Len(inner)}

\* What was begun grows and shrinks at its end.
LEMMA BegunFacts ==
  ASSUME NEW S, NEW p \in Seq(S), NEW q \in Seq(S)
  PROVE  /\ \A m \in 0 .. Len(p), k \in 0 .. Len(q) : Begun(p, q, m, k) \in Seq(S)
         /\ \A m \in 0 .. Len(p) - 1 : Begun(p, q, m + 1, 0) = Append(Begun(p, q, m, 0), p[m + 1])
         /\ \A m \in 0 .. Len(p), k \in 0 .. Len(q) - 1 :
              Begun(p, q, m, k + 1) = Append(Begun(p, q, m, k), q[k + 1])
         /\ Begun(p, q, 0, 0) = << >>
         /\ Begun(p, q, Len(p), 0) = p
         /\ Begun(p, q, Len(p), Len(q)) = p \o q
<1>1. /\ \A m \in 0 .. Len(p) : SubSeq(p, 1, m) \in Seq(S)
      /\ \A k \in 0 .. Len(q) : SubSeq(q, 1, k) \in Seq(S)
  <2>1. ASSUME NEW r \in Seq(S), NEW m \in 0 .. Len(r) PROVE SubSeq(r, 1, m) \in Seq(S)
    <3>1. \A i \in 1 .. m : r[i] \in S
      OBVIOUS
    <3> QED
      BY <3>1, SubSeqProperties
  <2> QED
    BY <2>1
<1>2. SubSeq(p, 1, 0) = << >> /\ SubSeq(q, 1, 0) = << >>
  BY SubSeqEmpty
<1>3. SubSeq(p, 1, Len(p)) = p /\ SubSeq(q, 1, Len(q)) = q
  BY SubSeqFull
<1>4. ASSUME NEW r \in Seq(S), NEW m \in 0 .. Len(r) - 1
      PROVE  SubSeq(r, 1, m + 1) = SubSeq(r, 1, m) \o <<r[m + 1]>>
  <2>1. Len(r) \in Nat
    OBVIOUS
  <2>2. 1 \in 1 .. Len(r) /\ m + 1 \in 1 .. Len(r) /\ (m + 1) - 1 = m
    BY <2>1
  <2> QED
    BY <2>2, SubSeqRecursiveSecond
<1>5. \A r, u \in Seq(S), e \in S : u \o (r \o <<e>>) = Append(u \o r, e)
  OBVIOUS
<1>6. \A r \in Seq(S) : r \o << >> = r /\ << >> \o r = r
  BY ConcatEmptySeq
<1>7. << >> \in Seq(S)
  BY EmptySeq
<1>8. \A m \in 0 .. Len(p), k \in 0 .. Len(q) : Begun(p, q, m, k) \in Seq(S)
  BY <1>1 DEF Begun
<1>9. ASSUME NEW m \in 0 .. Len(p) - 1
      PROVE  Begun(p, q, m + 1, 0) = Append(Begun(p, q, m, 0), p[m + 1])
  <2>1. m \in 0 .. Len(p) /\ p[m + 1] \in S /\ m + 1 \in 0 .. Len(p)
    OBVIOUS
  <2>2. SubSeq(p, 1, m) \in Seq(S) /\ SubSeq(p, 1, m + 1) \in Seq(S)
    BY <1>1, <2>1
  <2>3. SubSeq(p, 1, m + 1) = SubSeq(p, 1, m) \o <<p[m + 1]>>
    BY <1>4
  <2>4. SubSeq(p, 1, m) \o <<p[m + 1]>> = Append(SubSeq(p, 1, m), p[m + 1])
    BY <2>1, <2>2
  <2> QED
    BY <1>2, <1>6, <2>2, <2>3, <2>4 DEF Begun
<1>10. ASSUME NEW m \in 0 .. Len(p), NEW k \in 0 .. Len(q) - 1
       PROVE  Begun(p, q, m, k + 1) = Append(Begun(p, q, m, k), q[k + 1])
  <2>1. k \in 0 .. Len(q) /\ q[k + 1] \in S
    OBVIOUS
  <2>2. SubSeq(p, 1, m) \in Seq(S) /\ SubSeq(q, 1, k) \in Seq(S)
    BY <1>1, <2>1
  <2>3. SubSeq(q, 1, k + 1) = SubSeq(q, 1, k) \o <<q[k + 1]>>
    BY <1>4
  <2> QED
    BY <1>5, <2>1, <2>2, <2>3 DEF Begun
<1>11. /\ Begun(p, q, 0, 0) = << >> /\ Begun(p, q, Len(p), 0) = p
       /\ Begun(p, q, Len(p), Len(q)) = p \o q
  BY <1>2, <1>3, <1>6, <1>7 DEF Begun
<1> QED
  BY <1>8, <1>9, <1>10, <1>11

FunctionCallsOpen(b, pc) ==
  IF pc <= ToBlockStarts(b) THEN pc - 1
  ELSE IF pc <= ToFunctionEnds(b) \/ Last(Source[b]).op # "ret" THEN Len(Outer(b))
  ELSE ToLast(b) + 1 - pc
BlockCallsOpen(b, pc) ==
  IF pc <= ToBlockStarts(b) THEN 0
  ELSE IF pc <= ToBody(b) THEN pc - 1 - ToBlockStarts(b)
  ELSE IF pc <= ToBlockEnds(b) THEN Len(BlockCalls(b))
  ELSE IF pc <= ToFunctionEnds(b) THEN ToFunctionEnds(b) + 1 - pc
  ELSE 0

\* The calls of a function activation that were started and not ended.
OpenedAt(b, pc) == Begun(Outer(b), BlockCalls(b), FunctionCallsOpen(b, pc), BlockCallsOpen(b, pc))
Opened(frame) == OpenedAt(frame.block, frame.pc)

CallOf(instr) == [key |-> instr.key, site |-> instr.site]

\* F and B count the open calls of a function and of a block, before each of the
\* instructions: s1 starts of the function, nb starts of the block, n - 1
\* instructions of its own, nb ends, nr ends of the function, and its last.
OpenCounts(s1, nb, n, nf, nr, isRet, F, B) ==
  /\ s1 \in Nat /\ nb \in Nat /\ n \in Nat /\ n >= 1 /\ nf \in Nat /\ nr \in Nat
  /\ isRet \in BOOLEAN /\ nr = (IF isRet THEN nf ELSE 0) /\ s1 \in {0, nf}
  /\ F = [p \in Nat |->
            IF p <= s1 THEN p - 1
            ELSE IF p <= s1 + nb + n - 1 + nb \/ ~isRet THEN nf
            ELSE s1 + nb + n - 1 + nb + nr + 1 - p]
  /\ B = [p \in Nat |->
            IF p <= s1 THEN 0
            ELSE IF p <= s1 + nb THEN p - 1 - s1
            ELSE IF p <= s1 + nb + n - 1 THEN nb
            ELSE IF p <= s1 + nb + n - 1 + nb THEN s1 + nb + n - 1 + nb + 1 - p
            ELSE 0]

OpenPlace(s1, nb, n, nf, nr, isRet, F, B, pc) ==
  /\ F[1] = nf - s1 /\ B[1] = 0
  /\ F[pc] \in 0 .. nf /\ B[pc] \in 0 .. nb
  /\ \/ /\ pc \in 1 .. s1
        /\ F[pc] = pc - 1 /\ F[pc + 1] = pc /\ B[pc] = 0 /\ B[pc + 1] = 0
     \/ \E i \in 1 .. nb :
          /\ pc = s1 + i
          /\ F[pc] = nf /\ F[pc + 1] = nf /\ B[pc] = i - 1 /\ B[pc + 1] = i
     \/ \E i \in 1 .. n - 1 :
          /\ pc = s1 + nb + i
          /\ F[pc] = nf /\ F[pc + 1] = nf /\ B[pc] = nb /\ B[pc + 1] = nb
     \/ \E i \in 1 .. nb :
          /\ pc = s1 + nb + n - 1 + i
          /\ F[pc] = nf /\ F[pc + 1] = nf /\ B[pc] = nb + 1 - i /\ B[pc + 1] = nb - i
     \/ \E i \in 1 .. nf :
          /\ isRet
          /\ pc = s1 + nb + n - 1 + nb + i
          /\ F[pc] = nf + 1 - i /\ F[pc + 1] = nf - i /\ B[pc] = 0 /\ B[pc + 1] = 0
     \/ /\ pc = s1 + nb + n - 1 + nb + nr + 1
        /\ F[pc] = (IF isRet THEN 0 ELSE nf) /\ B[pc] = 0

\* The number of open calls at every place of a block.
LEMMA OpenNumbers ==
  ASSUME NEW s1, NEW nb, NEW n, NEW nf, NEW nr, NEW isRet, NEW F, NEW B,
         OpenCounts(s1, nb, n, nf, nr, isRet, F, B),
         NEW pc \in 1 .. s1 + nb + n - 1 + nb + nr + 1
  PROVE  OpenPlace(s1, nb, n, nf, nr, isRet, F, B, pc)
<1> USE DEF OpenPlace
<1> DEFINE s2 == s1 + nb
           s3 == s1 + nb + n - 1
           s4 == s1 + nb + n - 1 + nb
           s5 == s1 + nb + n - 1 + nb + nr
<1>1. \A p \in Nat :
        /\ p <= s1 => F[p] = p - 1 /\ B[p] = 0
        /\ s1 < p /\ p <= s2 => F[p] = nf /\ B[p] = p - 1 - s1
        /\ s2 < p /\ p <= s3 => F[p] = nf /\ B[p] = nb
        /\ s3 < p /\ p <= s4 => F[p] = nf /\ B[p] = s4 + 1 - p
        /\ s4 < p => F[p] = (IF isRet THEN s5 + 1 - p ELSE nf) /\ B[p] = 0
  BY DEF OpenCounts
<1>2. /\ s2 \in Nat /\ s3 \in Nat /\ s4 \in Nat /\ s5 \in Nat
      /\ s1 <= s2 /\ s2 <= s3 /\ s3 <= s4 /\ s4 <= s5
      /\ s2 = s1 + nb /\ s3 = s2 + n - 1 /\ s4 = s3 + nb /\ s5 = s4 + nr
  BY DEF OpenCounts
<1>3. pc + 1 \in Nat /\ 1 \in Nat /\ pc >= 1 /\ pc <= s5 + 1
  BY DEF OpenCounts
<1>4. /\ s1 \in Nat /\ nb \in Nat /\ n \in Nat /\ n >= 1 /\ nf \in Nat /\ nr \in Nat /\ pc \in Nat
      /\ isRet \in BOOLEAN /\ nr = (IF isRet THEN nf ELSE 0) /\ s1 \in {0, nf}
  BY DEF OpenCounts
<1> USE <1>4
<1>5. \/ pc <= s1 \/ (s1 < pc /\ pc <= s2) \/ (s2 < pc /\ pc <= s3) \/ (s3 < pc /\ pc <= s4)
      \/ (s4 < pc /\ pc <= s5) \/ pc = s5 + 1
  BY <1>2, <1>3
<1> HIDE DEF s2, s3, s4, s5
<1>6. F[1] = nf - s1 /\ B[1] = 0
  <2>1. s1 = 0 \/ s1 = nf
    OBVIOUS
  <2>2. CASE 1 <= s1
    BY <1>1, <2>1, <2>2
  <2>3. CASE ~(1 <= s1)
    <3>1. s1 = 0
      BY <2>3
    <3> QED
      BY <1>1, <1>2, <3>1
  <2> QED
    BY <2>2, <2>3
<1>7. CASE pc <= s1
  <2>1. s1 = nf
    BY <1>3, <1>7
  <2>2. F[pc] = pc - 1 /\ B[pc] = 0
    BY <1>1, <1>7
  <2>3. F[pc + 1] = pc /\ B[pc + 1] = 0
    <3>1. CASE pc < s1
      BY <1>1, <3>1
    <3>2. CASE pc = s1
      BY <1>1, <1>2, <2>1, <3>2
    <3> QED
      BY <1>7, <3>1, <3>2
  <2> QED
    BY <1>3, <1>6, <1>7, <2>1, <2>2, <2>3
<1>8. CASE s1 < pc /\ pc <= s2
  <2>1. PICK i : i = pc - s1
    OBVIOUS
  <2>2. i \in 1 .. nb /\ pc = s1 + i
    BY <1>2, <1>8, <2>1
  <2>3. F[pc] = nf /\ B[pc] = i - 1
    BY <1>1, <1>8, <2>1
  <2>4. F[pc + 1] = nf /\ B[pc + 1] = i
    <3>1. CASE pc < s2
      BY <1>1, <1>2, <1>8, <2>1, <3>1
    <3>2. CASE pc = s2
      BY <1>1, <1>2, <2>1, <3>2
    <3> QED
      BY <1>8, <1>2, <3>1, <3>2
  <2>5. F[pc] \in 0 .. nf /\ B[pc] \in 0 .. nb
    BY <2>2, <2>3
  <2>6. \E j \in 1 .. nb :
          /\ pc = s1 + j
          /\ F[pc] = nf /\ F[pc + 1] = nf /\ B[pc] = j - 1 /\ B[pc + 1] = j
    BY <2>2, <2>3, <2>4
  <2> QED
    BY <1>6, <2>5, <2>6
<1>9. CASE s2 < pc /\ pc <= s3
  <2>1. PICK i : i = pc - s2
    OBVIOUS
  <2>2. i \in 1 .. n - 1 /\ pc = s1 + nb + i
    BY <1>2, <1>9, <2>1
  <2>3. F[pc] = nf /\ B[pc] = nb
    BY <1>1, <1>9
  <2>4. F[pc + 1] = nf /\ B[pc + 1] = nb
    <3>1. CASE pc < s3
      BY <1>1, <1>2, <1>9, <3>1
    <3>2. CASE pc = s3
      BY <1>1, <1>2, <3>2
    <3> QED
      BY <1>9, <1>2, <3>1, <3>2
  <2>5. F[pc] \in 0 .. nf /\ B[pc] \in 0 .. nb
    BY <2>2, <2>3
  <2>6. \E j \in 1 .. n - 1 :
          /\ pc = s1 + nb + j
          /\ F[pc] = nf /\ F[pc + 1] = nf /\ B[pc] = nb /\ B[pc + 1] = nb
    BY <2>2, <2>3, <2>4
  <2> QED
    BY <1>6, <2>5, <2>6
<1>10. CASE s3 < pc /\ pc <= s4
  <2>1. PICK i : i = pc - s3
    OBVIOUS
  <2>2. i \in 1 .. nb /\ pc = s1 + nb + n - 1 + i
    BY <1>2, <1>10, <2>1
  <2>3. F[pc] = nf /\ B[pc] = nb + 1 - i
    BY <1>1, <1>2, <1>10, <2>1
  <2>4. F[pc + 1] = nf /\ B[pc + 1] = nb - i
    <3>1. CASE pc < s4
      BY <1>1, <1>2, <1>10, <2>1, <3>1
    <3>2. CASE pc = s4
      BY <1>1, <1>2, <2>1, <3>2
    <3> QED
      BY <1>10, <1>2, <3>1, <3>2
  <2>5. F[pc] \in 0 .. nf /\ B[pc] \in 0 .. nb
    BY <2>2, <2>3
  <2>6. \E j \in 1 .. nb :
          /\ pc = s1 + nb + n - 1 + j
          /\ F[pc] = nf /\ F[pc + 1] = nf /\ B[pc] = nb + 1 - j /\ B[pc + 1] = nb - j
    BY <2>2, <2>3, <2>4
  <2> QED
    BY <1>6, <2>5, <2>6
<1>11. CASE s4 < pc /\ pc <= s5
  <2>1. PICK i : i = pc - s4
    OBVIOUS
  <2>2. isRet /\ nr = nf
    BY <1>2, <1>11
  <2>3. i \in 1 .. nf /\ pc = s1 + nb + n - 1 + nb + i
    BY <1>2, <1>11, <2>1, <2>2
  <2>4. F[pc] = nf + 1 - i /\ B[pc] = 0
    BY <1>1, <1>2, <1>11, <2>1, <2>2
  <2>5. F[pc + 1] = nf - i /\ B[pc + 1] = 0
    BY <1>1, <1>2, <1>11, <2>1, <2>2
  <2>6. F[pc] \in 0 .. nf /\ B[pc] \in 0 .. nb
    BY <2>3, <2>4
  <2>7. \E j \in 1 .. nf :
          /\ isRet
          /\ pc = s1 + nb + n - 1 + nb + j
          /\ F[pc] = nf + 1 - j /\ F[pc + 1] = nf - j /\ B[pc] = 0 /\ B[pc + 1] = 0
    BY <2>2, <2>3, <2>4, <2>5
  <2> QED
    BY <1>6, <2>6, <2>7
<1>12. CASE pc = s5 + 1
  <2>1. F[pc] = (IF isRet THEN 0 ELSE nf) /\ B[pc] = 0
    BY <1>1, <1>2, <1>12
  <2> QED
    BY <1>6, <1>12, <2>1 DEF s5
<1> QED
  BY <1>5, <1>7, <1>8, <1>9, <1>10, <1>11, <1>12
\* A record of two fields is put together again.
LEMMA CallOfMark ==
  ASSUME NEW call \in AnnotationCalls
  PROVE  /\ CallOf(StartMark(call)) = call /\ StartMark(call).op = "start"
         /\ CallOf(EndMark(call)) = call /\ EndMark(call).op = "end"
BY DEF CallOf, StartMark, EndMark, AnnotationCalls

\* What a program has of itself is not a call of ours.
LEMMA SourceOps ==
  /\ \A i \in Body : i.op \in {"work", "throw", "call"} /\ (i.op = "call" => i.callee \in Functions)
  /\ \A f \in Functions : \A i \in Ends(f) :
       /\ i.op \in Terminators
       /\ i.op = "br" => i.to \in SUBSET Inner(f)
       /\ i.op = "invoke" => i.callee \in Functions /\ i.to \in Inner(f) /\ i.pad \in Inner(f)
  /\ Terminators = {"br", "ret", "invoke", "resume", "unreachable"}
BY DEF Body, Ends, Terminators

\* What is open before and after an instruction, and where control goes.
PlaceFacts(b, pc, instr) ==
  /\ OpenedAt(b, pc) \in Seq(AnnotationCalls) /\ OpenedAt(b, pc) \in SomeBegun(Outer(b), BlockCalls(b))
  /\ instr.op \in {"start", "end", "work", "throw", "call"} => pc + 1 \in 1 .. Len(RunOnModule[b])
  /\ instr.op = "start" =>
       /\ CallOf(instr) \in AnnotationCalls
       /\ OpenedAt(b, pc + 1) = Append(OpenedAt(b, pc), CallOf(instr))
  /\ instr.op = "end" =>
       /\ CallOf(instr) \in AnnotationCalls
       /\ OpenedAt(b, pc) = Append(OpenedAt(b, pc + 1), CallOf(instr))
  /\ instr.op \in {"work", "throw", "call"} =>
       /\ OpenedAt(b, pc) = Outer(b) \o BlockCalls(b)
       /\ OpenedAt(b, pc + 1) = OpenedAt(b, pc)
  /\ instr.op \in Terminators => OpenedAt(b, pc) = (IF instr.op = "ret" THEN << >> ELSE Outer(b))
  /\ instr.op \in {"start", "end", "work", "throw", "call"} \cup Terminators
  /\ instr.op = "call" => instr.callee \in Functions
  /\ instr.op = "br" => instr.to \in SUBSET Inner(FunctionOf[b])
  /\ instr.op = "invoke" =>
       instr.callee \in Functions /\ instr.to \in Inner(FunctionOf[b]) /\ instr.pad \in Inner(FunctionOf[b])
  /\ OpenedAt(b, 1) = (IF b = Entry[FunctionOf[b]] THEN << >> ELSE Outer(b))

\* A start adds its call to what is open and an end takes the last one away; where
\* the program executes code of its own, everything it is in is open.
LEMMA OpenedFacts ==
  ASSUME build \in Builds, NEW b \in Blocks, NEW pc \in 1 .. Len(RunOnModule[b]),
         NEW instr, instr = RunOnModule[b][pc]
  PROVE  PlaceFacts(b, pc, instr)
<1> USE DEF PlaceFacts
<1>1. PICK r : r = RunOnModule[b]
  OBVIOUS
<1>2. PICK src : src = Source[b]
  OBVIOUS
<1>3. PICK bc : bc = BlockCalls(b)
  OBVIOUS
<1>4. PICK fc : fc = Outer(b)
  OBVIOUS
<1>5. PICK n : n = Len(src)
  OBVIOUS
<1>6. PICK nb : nb = Len(bc)
  OBVIOUS
<1>7. PICK nf : nf = Len(fc)
  OBVIOUS
<1>8. PICK isRet \in BOOLEAN : isRet <=> Last(src).op = "ret"
  OBVIOUS
<1>9. PICK s1 : s1 = ToBlockStarts(b)
  OBVIOUS
<1>10. PICK nr : nr = IF isRet THEN nf ELSE 0
  OBVIOUS
<1>11. /\ src \in Seq(Body \cup Ends(FunctionOf[b])) \ {<< >>} /\ FunctionOf[b] \in Functions
       /\ \A i \in 1 .. n - 1 : src[i] \in Body
       /\ Last(src) \in Ends(FunctionOf[b])
  BY <1>2, <1>5, ProgramAssumption
<1>12. n \in Nat /\ n >= 1
  BY <1>5, <1>11, EmptySeq
<1>13. bc \in Seq(AnnotationCalls) /\ fc \in Seq(AnnotationCalls)
  BY <1>3, <1>4, <1>11, CallsTyped DEF Outer
<1>14. nb \in Nat /\ nf \in Nat /\ nr \in Nat
  BY <1>6, <1>7, <1>10, <1>13, LenProperties
<1>15. s1 \in Nat /\ s1 \in {0, nf}
  BY <1>4, <1>7, <1>9, <1>14 DEF ToBlockStarts
<1>16. /\ ToBody(b) = s1 + nb /\ ToBlockEnds(b) = s1 + nb + n - 1
       /\ ToFunctionEnds(b) = s1 + nb + n - 1 + nb /\ ToLast(b) = s1 + nb + n - 1 + nb + nr
  BY <1>2, <1>3, <1>4, <1>5, <1>6, <1>7, <1>8, <1>9, <1>10
     DEF ToBody, ToBlockEnds, ToFunctionEnds, ToLast
<1>17. /\ Len(r) = s1 + nb + n - 1 + nb + nr + 1
       /\ \A i \in 1 .. s1 : r[i] = StartMark(fc[i])
       /\ \A i \in 1 .. nb : r[s1 + i] = StartMark(bc[i])
       /\ \A i \in 1 .. n - 1 : r[s1 + nb + i] = src[i]
       /\ \A i \in 1 .. nb : r[s1 + nb + n - 1 + i] = EndMark(bc[nb + 1 - i])
       /\ isRet => \A i \in 1 .. nf : r[s1 + nb + n - 1 + nb + i] = EndMark(fc[nf + 1 - i])
       /\ r[s1 + nb + n - 1 + nb + nr + 1] = Last(src)
  BY <1>1, <1>2, <1>3, <1>4, <1>5, <1>6, <1>7, <1>8, <1>9, <1>16, CodeLayout
<1>18. PICK F : F = [p \in Nat |->
              IF p <= s1 THEN p - 1
              ELSE IF p <= s1 + nb + n - 1 + nb \/ ~isRet THEN nf
              ELSE s1 + nb + n - 1 + nb + nr + 1 - p]
  OBVIOUS
<1>19. PICK B : B = [p \in Nat |->
              IF p <= s1 THEN 0
              ELSE IF p <= s1 + nb THEN p - 1 - s1
              ELSE IF p <= s1 + nb + n - 1 THEN nb
              ELSE IF p <= s1 + nb + n - 1 + nb THEN s1 + nb + n - 1 + nb + 1 - p
              ELSE 0]
  OBVIOUS
<1>20. pc \in Nat /\ pc \in 1 .. s1 + nb + n - 1 + nb + nr + 1 /\ pc + 1 \in Nat
  BY <1>1, <1>17
<1>21. \A p \in Nat : OpenedAt(b, p) = Begun(fc, bc, F[p], B[p])
  <2> SUFFICES ASSUME NEW p \in Nat PROVE OpenedAt(b, p) = Begun(fc, bc, F[p], B[p])
    OBVIOUS
  <2>1. FunctionCallsOpen(b, p) = F[p]
    BY <1>2, <1>4, <1>7, <1>8, <1>9, <1>16, <1>18 DEF FunctionCallsOpen
  <2>2. BlockCallsOpen(b, p) = B[p]
    BY <1>3, <1>6, <1>9, <1>16, <1>19 DEF BlockCallsOpen
  <2> QED
    BY <1>3, <1>4, <2>1, <2>2 DEF OpenedAt
<1>22. /\ F[1] = nf - s1 /\ B[1] = 0
       /\ F[pc] \in 0 .. nf /\ B[pc] \in 0 .. nb
       /\ \/ /\ pc \in 1 .. s1
             /\ F[pc] = pc - 1 /\ F[pc + 1] = pc /\ B[pc] = 0 /\ B[pc + 1] = 0
          \/ \E i \in 1 .. nb :
               /\ pc = s1 + i
               /\ F[pc] = nf /\ F[pc + 1] = nf /\ B[pc] = i - 1 /\ B[pc + 1] = i
          \/ \E i \in 1 .. n - 1 :
               /\ pc = s1 + nb + i
               /\ F[pc] = nf /\ F[pc + 1] = nf /\ B[pc] = nb /\ B[pc + 1] = nb
          \/ \E i \in 1 .. nb :
               /\ pc = s1 + nb + n - 1 + i
               /\ F[pc] = nf /\ F[pc + 1] = nf /\ B[pc] = nb + 1 - i /\ B[pc + 1] = nb - i
          \/ \E i \in 1 .. nf :
               /\ isRet
               /\ pc = s1 + nb + n - 1 + nb + i
               /\ F[pc] = nf + 1 - i /\ F[pc + 1] = nf - i /\ B[pc] = 0 /\ B[pc + 1] = 0
          \/ /\ pc = s1 + nb + n - 1 + nb + nr + 1
             /\ F[pc] = (IF isRet THEN 0 ELSE nf) /\ B[pc] = 0
  <2>1. OpenCounts(s1, nb, n, nf, nr, isRet, F, B)
    BY <1>10, <1>12, <1>14, <1>15, <1>18, <1>19 DEF OpenCounts
  <2> QED
    BY <1>20, <2>1, OpenNumbers DEF OpenPlace
<1>23. /\ \A m \in 0 .. nf, k \in 0 .. nb : Begun(fc, bc, m, k) \in Seq(AnnotationCalls)
       /\ \A m \in 0 .. nf - 1 : Begun(fc, bc, m + 1, 0) = Append(Begun(fc, bc, m, 0), fc[m + 1])
       /\ \A m \in 0 .. nf, k \in 0 .. nb - 1 :
            Begun(fc, bc, m, k + 1) = Append(Begun(fc, bc, m, k), bc[k + 1])
       /\ Begun(fc, bc, 0, 0) = << >>
       /\ Begun(fc, bc, nf, 0) = fc
       /\ Begun(fc, bc, nf, nb) = fc \o bc
  <2>1. PICK p \in Seq(AnnotationCalls) : p = fc
    BY <1>13
  <2>2. PICK q \in Seq(AnnotationCalls) : q = bc
    BY <1>13
  <2>3. Len(p) = nf /\ Len(q) = nb
    BY <1>6, <1>7, <2>1, <2>2
  <2>4. /\ \A m \in 0 .. Len(p), k \in 0 .. Len(q) : Begun(p, q, m, k) \in Seq(AnnotationCalls)
        /\ \A m \in 0 .. Len(p) - 1 : Begun(p, q, m + 1, 0) = Append(Begun(p, q, m, 0), p[m + 1])
        /\ \A m \in 0 .. Len(p), k \in 0 .. Len(q) - 1 :
             Begun(p, q, m, k + 1) = Append(Begun(p, q, m, k), q[k + 1])
        /\ Begun(p, q, 0, 0) = << >>
        /\ Begun(p, q, Len(p), 0) = p
        /\ Begun(p, q, Len(p), Len(q)) = p \o q
    BY BegunFacts
  <2> QED
    BY <2>1, <2>2, <2>3, <2>4
<1>24. /\ OpenedAt(b, pc) \in Seq(AnnotationCalls) /\ OpenedAt(b, pc) \in SomeBegun(Outer(b), BlockCalls(b))
       /\ OpenedAt(b, 1) = (IF b = Entry[FunctionOf[b]] THEN << >> ELSE Outer(b))
  <2>1. OpenedAt(b, 1) = Begun(fc, bc, nf - s1, 0)
    BY <1>21, <1>22
  <2>2. s1 = IF b = Entry[FunctionOf[b]] THEN nf ELSE 0
    BY <1>4, <1>7, <1>9 DEF ToBlockStarts
  <2>3. nf - nf = 0 /\ nf - 0 = nf
    BY <1>14
  <2>4. OpenedAt(b, pc) = Begun(fc, bc, F[pc], B[pc]) /\ F[pc] \in 0 .. nf /\ B[pc] \in 0 .. nb
    BY <1>20, <1>21, <1>22
  <2>5. Begun(fc, bc, F[pc], B[pc]) \in SomeBegun(fc, bc)
    BY <1>6, <1>7, <2>4 DEF SomeBegun
  <2>6. OpenedAt(b, pc) \in SomeBegun(Outer(b), BlockCalls(b))
    BY <1>3, <1>4, <2>4, <2>5
  <2>7. OpenedAt(b, 1) = (IF b = Entry[FunctionOf[b]] THEN << >> ELSE Outer(b))
    BY <1>4, <1>23, <2>1, <2>2, <2>3
  <2> QED
    BY <1>23, <2>4, <2>6, <2>7
<1>25. /\ OpenedAt(b, pc) = Begun(fc, bc, F[pc], B[pc])
       /\ OpenedAt(b, pc + 1) = Begun(fc, bc, F[pc + 1], B[pc + 1])
  BY <1>20, <1>21
<1>26. /\ \A i \in 1 .. nf : fc[i] \in AnnotationCalls
       /\ \A i \in 1 .. nb : bc[i] \in AnnotationCalls
  BY <1>6, <1>7, <1>13
<1>27. CASE pc \in 1 .. s1 /\ F[pc] = pc - 1 /\ F[pc + 1] = pc /\ B[pc] = 0 /\ B[pc + 1] = 0
  <2>1. pc \in 1 .. nf /\ pc - 1 \in 0 .. nf - 1 /\ (pc - 1) + 1 = pc
    BY <1>14, <1>15, <1>27
  <2>2. instr = StartMark(fc[pc]) /\ fc[pc] \in AnnotationCalls
    BY <1>1, <1>17, <1>26, <1>27, <2>1
  <2>3. instr.op = "start" /\ CallOf(instr) = fc[pc]
    BY <2>2, CallOfMark
  <2>4. Begun(fc, bc, pc, 0) = Append(Begun(fc, bc, pc - 1, 0), fc[pc])
    BY <1>23, <2>1
  <2>5. pc + 1 \in 1 .. Len(r)
    <3>1. Len(r) = s1 + nb + n - 1 + nb + nr + 1 /\ pc \in 1 .. s1
      BY <1>17, <1>27
    <3>2. nb \in Nat /\ n \in Nat /\ n >= 1 /\ nr \in Nat /\ s1 \in Nat
      BY <1>12, <1>14, <1>15
    <3>3. pc + 1 \in 1 .. s1 + nb + n - 1 + nb + nr + 1
      BY <3>1, <3>2
    <3> QED
      BY <3>1, <3>3
  <2> QED
    BY <1>1, <1>24, <1>25, <1>27, <2>2, <2>3, <2>4, <2>5, SourceOps
<1>28. ASSUME NEW i \in 1 .. nb, pc = s1 + i,
              F[pc] = nf, F[pc + 1] = nf, B[pc] = i - 1, B[pc + 1] = i
       PROVE  /\ instr.op = "start" /\ CallOf(instr) \in AnnotationCalls /\ pc + 1 \in 1 .. Len(r)
              /\ OpenedAt(b, pc + 1) = Append(OpenedAt(b, pc), CallOf(instr))
  <2>1. i - 1 \in 0 .. nb - 1 /\ (i - 1) + 1 = i /\ nf \in 0 .. nf
    BY <1>14
  <2>2. instr = StartMark(bc[i]) /\ bc[i] \in AnnotationCalls
    BY <1>1, <1>17, <1>26, <1>28
  <2>3. instr.op = "start" /\ CallOf(instr) = bc[i]
    BY <2>2, CallOfMark
  <2>4. Begun(fc, bc, nf, i) = Append(Begun(fc, bc, nf, i - 1), bc[i])
    BY <1>23, <2>1
  <2>5. pc + 1 \in 1 .. Len(r)
    <3>1. Len(r) = s1 + nb + n - 1 + nb + nr + 1 /\ i <= nb /\ i >= 1 /\ i \in Nat
      BY <1>17
    <3>2. s1 + i + 1 \in 1 .. s1 + nb + n - 1 + nb + nr + 1
      <4>1. nb \in Nat /\ n \in Nat /\ n >= 1 /\ nr \in Nat /\ s1 \in Nat
        BY <1>12, <1>14, <1>15
      <4> QED
        BY <3>1, <4>1
    <3> QED
      BY <1>12, <1>14, <1>15, <1>28, <3>1, <3>2
  <2> QED
    BY <1>25, <1>28, <2>2, <2>3, <2>4, <2>5
<1>29. ASSUME NEW i \in 1 .. n - 1, pc = s1 + nb + i,
              F[pc] = nf, F[pc + 1] = nf, B[pc] = nb, B[pc + 1] = nb
       PROVE  /\ instr \in Body /\ pc + 1 \in 1 .. Len(r)
              /\ OpenedAt(b, pc) = fc \o bc /\ OpenedAt(b, pc + 1) = OpenedAt(b, pc)
  <2>1. instr = src[i]
    BY <1>1, <1>17, <1>29
  <2>2. pc + 1 \in 1 .. Len(r)
    BY <1>12, <1>14, <1>15, <1>17, <1>29
  <2> QED
    BY <1>11, <1>23, <1>25, <1>29, <2>1, <2>2
<1>30. ASSUME NEW i \in 1 .. nb, pc = s1 + nb + n - 1 + i,
              F[pc] = nf, F[pc + 1] = nf, B[pc] = nb + 1 - i, B[pc + 1] = nb - i
       PROVE  /\ instr.op = "end" /\ CallOf(instr) \in AnnotationCalls /\ pc + 1 \in 1 .. Len(r)
              /\ OpenedAt(b, pc) = Append(OpenedAt(b, pc + 1), CallOf(instr))
  <2>1. nb - i \in 0 .. nb - 1 /\ (nb - i) + 1 = nb + 1 - i /\ nf \in 0 .. nf /\ nb + 1 - i \in 1 .. nb
    BY <1>14
  <2>2. instr = EndMark(bc[nb + 1 - i]) /\ bc[nb + 1 - i] \in AnnotationCalls
    BY <1>1, <1>17, <1>26, <1>30, <2>1
  <2>3. instr.op = "end" /\ CallOf(instr) = bc[nb + 1 - i]
    BY <2>2, CallOfMark
  <2>4. Begun(fc, bc, nf, nb + 1 - i) = Append(Begun(fc, bc, nf, nb - i), bc[nb + 1 - i])
    BY <1>23, <2>1
  <2>5. pc + 1 \in 1 .. Len(r)
    BY <1>12, <1>14, <1>15, <1>17, <1>30
  <2> QED
    BY <1>25, <1>30, <2>2, <2>3, <2>4, <2>5
<1>31. ASSUME NEW i \in 1 .. nf, isRet, pc = s1 + nb + n - 1 + nb + i,
              F[pc] = nf + 1 - i, F[pc + 1] = nf - i, B[pc] = 0, B[pc + 1] = 0
       PROVE  /\ instr.op = "end" /\ CallOf(instr) \in AnnotationCalls /\ pc + 1 \in 1 .. Len(r)
              /\ OpenedAt(b, pc) = Append(OpenedAt(b, pc + 1), CallOf(instr))
  <2>1. nf - i \in 0 .. nf - 1 /\ (nf - i) + 1 = nf + 1 - i /\ nf + 1 - i \in 1 .. nf
    BY <1>14
  <2>2. instr = EndMark(fc[nf + 1 - i]) /\ fc[nf + 1 - i] \in AnnotationCalls
    BY <1>1, <1>17, <1>26, <1>31, <2>1
  <2>3. instr.op = "end" /\ CallOf(instr) = fc[nf + 1 - i]
    BY <2>2, CallOfMark
  <2>4. Begun(fc, bc, nf + 1 - i, 0) = Append(Begun(fc, bc, nf - i, 0), fc[nf + 1 - i])
    BY <1>23, <2>1
  <2>5. pc + 1 \in 1 .. Len(r)
    BY <1>10, <1>12, <1>14, <1>15, <1>17, <1>31
  <2> QED
    BY <1>25, <1>31, <2>2, <2>3, <2>4, <2>5
<1>32. CASE /\ pc = s1 + nb + n - 1 + nb + nr + 1
            /\ F[pc] = (IF isRet THEN 0 ELSE nf) /\ B[pc] = 0
  <2>1. instr = Last(src) /\ instr \in Ends(FunctionOf[b])
    BY <1>1, <1>11, <1>17, <1>32
  <2>2. OpenedAt(b, pc) = (IF instr.op = "ret" THEN << >> ELSE fc)
    BY <1>8, <1>23, <1>25, <1>32, <2>1
  <2>3. /\ instr.op \in {"br", "ret", "invoke", "resume", "unreachable"}
        /\ instr.op = "br" => instr.to \in SUBSET Inner(FunctionOf[b])
        /\ instr.op = "invoke" =>
             instr.callee \in Functions /\ instr.to \in Inner(FunctionOf[b]) /\ instr.pad \in Inner(FunctionOf[b])
    BY <1>11, <2>1, SourceOps
  <2> QED
    BY <1>4, <1>24, <2>2, <2>3, SourceOps
<1>33. CASE \E i \in 1 .. nb :
               /\ pc = s1 + i
               /\ F[pc] = nf /\ F[pc + 1] = nf /\ B[pc] = i - 1 /\ B[pc + 1] = i
  <2>1. /\ instr.op = "start" /\ CallOf(instr) \in AnnotationCalls /\ pc + 1 \in 1 .. Len(r)
        /\ OpenedAt(b, pc + 1) = Append(OpenedAt(b, pc), CallOf(instr))
    BY <1>28, <1>33
  <2> QED
    BY <1>1, <1>24, <2>1, SourceOps
<1>34. CASE \E i \in 1 .. n - 1 :
               /\ pc = s1 + nb + i
               /\ F[pc] = nf /\ F[pc + 1] = nf /\ B[pc] = nb /\ B[pc + 1] = nb
  <2>1. /\ instr \in Body /\ pc + 1 \in 1 .. Len(r)
        /\ OpenedAt(b, pc) = fc \o bc /\ OpenedAt(b, pc + 1) = OpenedAt(b, pc)
    BY <1>29, <1>34
  <2>2. instr.op \in {"work", "throw", "call"} /\ (instr.op = "call" => instr.callee \in Functions)
    BY <2>1, SourceOps
  <2> QED
    BY <1>1, <1>3, <1>4, <1>24, <2>1, <2>2, SourceOps
<1>35. CASE \/ \E i \in 1 .. nb :
               /\ pc = s1 + nb + n - 1 + i
               /\ F[pc] = nf /\ F[pc + 1] = nf /\ B[pc] = nb + 1 - i /\ B[pc + 1] = nb - i
            \/ \E i \in 1 .. nf :
               /\ isRet
               /\ pc = s1 + nb + n - 1 + nb + i
               /\ F[pc] = nf + 1 - i /\ F[pc + 1] = nf - i /\ B[pc] = 0 /\ B[pc + 1] = 0
  <2>1. /\ instr.op = "end" /\ CallOf(instr) \in AnnotationCalls /\ pc + 1 \in 1 .. Len(r)
        /\ OpenedAt(b, pc) = Append(OpenedAt(b, pc + 1), CallOf(instr))
    BY <1>30, <1>31, <1>35
  <2> QED
    BY <1>1, <1>24, <2>1, SourceOps
<1> QED
  BY <1>22, <1>27, <1>32, <1>33, <1>34, <1>35

-----------------------------------------------------------------------------
(* The state of the program. *)

Frames == {f \in [block : Blocks, pc : Nat] : f.pc \in 1 .. Len(code[f.block])}
Waits(frame) == InstrAt(frame).op \in {"call", "invoke"}

\* A thread is somewhere in the code, and in a call of every function but the last.
ShapeInv ==
  /\ build \in Builds /\ code = RunOnModule
  /\ frames \in [Threads -> Seq(Frames)]
  /\ \A t \in Threads : \A i \in 1 .. Len(frames[t]) - 1 : Waits(frames[t][i])

\* A block that is entered has none of its calls behind it; the first block of a
\* function has none of the function's.
LEMMA EntryFacts ==
  ASSUME build \in Builds, code = RunOnModule, NEW b \in Blocks
  PROVE  /\ At(b) \in Frames
         /\ Opened(At(b)) = (IF b = Entry[FunctionOf[b]] THEN << >> ELSE Outer(b))
<1>1. RunOnModule[b] \in Seq(Instrs) /\ Len(RunOnModule[b]) = ToLast(b) + 1
  BY CodeLayout
<1>2. ToLast(b) \in Nat
  <2>1. /\ BlockCalls(b) \in Seq(AnnotationCalls) /\ Outer(b) \in Seq(AnnotationCalls)
        /\ Source[b] \in Seq(Body \cup Ends(FunctionOf[b])) /\ Source[b] # << >>
    BY CallsTyped, ProgramAssumption DEF Outer
  <2>2. Len(BlockCalls(b)) \in Nat /\ Len(Outer(b)) \in Nat /\ Len(Source[b]) \in Nat \ {0}
    BY <2>1, EmptySeq, LenProperties
  <2> QED
    <3>1. ToBlockStarts(b) \in Nat
      BY <2>2 DEF ToBlockStarts
    <3>2. ToBody(b) \in Nat
      BY <2>2, <3>1 DEF ToBody
    <3>3. ToBlockEnds(b) \in Nat
      BY <2>2, <3>2 DEF ToBlockEnds
    <3>4. ToFunctionEnds(b) \in Nat
      BY <2>2, <3>3 DEF ToFunctionEnds
    <3> QED
      BY <2>2, <3>4 DEF ToLast
<1>3. 1 \in 1 .. Len(RunOnModule[b])
  BY <1>1, <1>2
<1>4. At(b) \in Frames
  BY <1>3 DEF At, Frames
<1>5. Opened(At(b)) = OpenedAt(b, 1)
  BY DEF At, Opened
<1> QED
  BY <1>3, <1>4, <1>5, OpenedFacts DEF PlaceFacts

\* What may be said of the place where a thread is.
LEMMA FrameFacts ==
  ASSUME build \in Builds, code = RunOnModule, NEW f \in Frames
  PROVE  /\ Opened(f) \in Seq(AnnotationCalls)
         /\ InstrAt(f).op \in {"start", "end", "work", "throw", "call"} \cup Terminators
         /\ InstrAt(f).op \in {"start", "end", "work", "throw", "call"} =>
              Past(f) \in Frames /\ Opened(Past(f)) \in Seq(AnnotationCalls)
         /\ InstrAt(f).op = "start" =>
              /\ CallOf(InstrAt(f)) \in AnnotationCalls
              /\ Opened(Past(f)) = Append(Opened(f), CallOf(InstrAt(f)))
         /\ InstrAt(f).op = "end" =>
              /\ CallOf(InstrAt(f)) \in AnnotationCalls
              /\ Opened(f) = Append(Opened(Past(f)), CallOf(InstrAt(f)))
         /\ InstrAt(f).op \in {"work", "throw", "call"} => Opened(Past(f)) = Opened(f)
         /\ InstrAt(f).op \notin {"start", "end"} => Opened(f) = OpenIn(f)
         /\ InstrAt(f).op = "ret" => Opened(f) = << >>
         /\ InstrAt(f).op = "br" => \A b \in InstrAt(f).to :
              At(b) \in Frames /\ Opened(At(b)) = Opened(f) /\ FunctionOf[b] = FunctionOf[f.block]
         /\ InstrAt(f).op = "invoke" => \A b \in {InstrAt(f).to, InstrAt(f).pad} :
              At(b) \in Frames /\ Opened(At(b)) = Opened(f) /\ FunctionOf[b] = FunctionOf[f.block]
         /\ Waits(f) => InstrAt(f).callee \in Functions
<1>1. PICK b \in Blocks : b = f.block
  BY DEF Frames
<1>2. PICK pc \in 1 .. Len(RunOnModule[b]) : pc = f.pc
  BY <1>1 DEF Frames
<1>3. f = [block |-> b, pc |-> pc] /\ pc \in Nat
  BY <1>1, <1>2 DEF Frames
<1>4. PICK instr : instr = RunOnModule[b][pc]
  OBVIOUS
<1>5. InstrAt(f) = instr
  BY <1>1, <1>2, <1>4 DEF InstrAt
<1>6. /\ OpenedAt(b, pc) \in Seq(AnnotationCalls)
      /\ instr.op \in {"start", "end", "work", "throw", "call"} => pc + 1 \in 1 .. Len(RunOnModule[b])
      /\ instr.op = "start" =>
           /\ CallOf(instr) \in AnnotationCalls
           /\ OpenedAt(b, pc + 1) = Append(OpenedAt(b, pc), CallOf(instr))
      /\ instr.op = "end" =>
           /\ CallOf(instr) \in AnnotationCalls
           /\ OpenedAt(b, pc) = Append(OpenedAt(b, pc + 1), CallOf(instr))
      /\ instr.op \in {"work", "throw", "call"} =>
           /\ OpenedAt(b, pc) = Outer(b) \o BlockCalls(b)
           /\ OpenedAt(b, pc + 1) = OpenedAt(b, pc)
      /\ instr.op \in Terminators => OpenedAt(b, pc) = (IF instr.op = "ret" THEN << >> ELSE Outer(b))
      /\ instr.op \in {"start", "end", "work", "throw", "call"} \cup Terminators
      /\ instr.op = "call" => instr.callee \in Functions
      /\ instr.op = "br" => instr.to \in SUBSET Inner(FunctionOf[b])
      /\ instr.op = "invoke" =>
           instr.callee \in Functions /\ instr.to \in Inner(FunctionOf[b]) /\ instr.pad \in Inner(FunctionOf[b])
  <2>1. PlaceFacts(b, pc, instr)
    BY <1>4, OpenedFacts
  <2> QED
    BY <2>1 DEF PlaceFacts
<1>7. Opened(f) = OpenedAt(b, pc)
  BY <1>1, <1>2 DEF Opened
<1>8. Past(f) = [block |-> b, pc |-> pc + 1]
  BY <1>3 DEF Past
<1>9. Opened(Past(f)) = OpenedAt(b, pc + 1)
  BY <1>8 DEF Opened
<1>10. pc + 1 \in 1 .. Len(RunOnModule[b]) =>
         Past(f) \in Frames /\ OpenedAt(b, pc + 1) \in Seq(AnnotationCalls)
  <2> SUFFICES ASSUME pc + 1 \in 1 .. Len(RunOnModule[b])
               PROVE  Past(f) \in Frames /\ OpenedAt(b, pc + 1) \in Seq(AnnotationCalls)
    OBVIOUS
  <2>1. Past(f) \in [block : Blocks, pc : Nat] /\ Past(f).block = b /\ Past(f).pc = pc + 1
    BY <1>3, <1>8
  <2>2. Past(f) \in Frames
    BY <2>1 DEF Frames
  <2>3. PICK q \in 1 .. Len(RunOnModule[b]) : q = pc + 1
    OBVIOUS
  <2>4. OpenedAt(b, q) \in Seq(AnnotationCalls)
    BY OpenedFacts DEF PlaceFacts
  <2> QED
    BY <2>2, <2>3, <2>4
<1>11. Outer(b) \in Seq(AnnotationCalls) /\ BlockCalls(b) \in Seq(AnnotationCalls) /\ FunctionOf[b] \in Functions
  BY CallsTyped, ProgramAssumption DEF Outer
<1>12. ASSUME NEW c \in Inner(FunctionOf[b])
       PROVE  At(c) \in Frames /\ Opened(At(c)) = Outer(b) /\ FunctionOf[c] = FunctionOf[b]
  <2>1. c \in Blocks /\ FunctionOf[c] = FunctionOf[b] /\ c # Entry[FunctionOf[c]]
    BY DEF Inner
  <2> QED
    BY <2>1, EntryFacts DEF Outer
<1>13. instr.op \notin {"start", "end"} => Opened(f) = OpenIn(f)
  <2>1. OpenIn(f) = (IF instr.op = "ret" THEN << >> ELSE Outer(b))
                    \o (IF instr.op \in Terminators THEN << >> ELSE BlockCalls(b))
    BY <1>1, <1>5 DEF OpenIn, Outer
  <2>2. Outer(b) \o << >> = Outer(b) /\ << >> \in Seq(AnnotationCalls)
    BY <1>11, ConcatEmptySeq, EmptySeq
  <2>3. << >> \o << >> = << >>
    BY <2>2, ConcatEmptySeq
  <2>4. "ret" \in Terminators /\ Terminators \cap {"start", "end", "work", "throw", "call"} = {}
    BY DEF Terminators
  <2>5. CASE instr.op \in {"work", "throw", "call"}
    BY <1>6, <1>7, <2>1, <2>4, <2>5
  <2>6. CASE instr.op \in Terminators
    BY <1>6, <1>7, <2>1, <2>2, <2>3, <2>4, <2>6
  <2> QED
    BY <1>6, <2>5, <2>6
<1>14. Waits(f) => instr.callee \in Functions
  BY <1>5, <1>6 DEF Waits
<1>15. /\ instr.op = "br" => \A c \in instr.to :
            At(c) \in Frames /\ Opened(At(c)) = Opened(f) /\ FunctionOf[c] = FunctionOf[f.block]
       /\ instr.op = "invoke" => \A c \in {instr.to, instr.pad} :
            At(c) \in Frames /\ Opened(At(c)) = Opened(f) /\ FunctionOf[c] = FunctionOf[f.block]
  <2>1. instr.op \in {"br", "invoke"} => Opened(f) = Outer(b)
    BY <1>6, <1>7 DEF Terminators
  <2> QED
    BY <1>1, <1>6, <1>12, <2>1
<1>16. instr.op = "ret" => Opened(f) = << >>
  BY <1>6, <1>7 DEF Terminators
<1> QED
  BY <1>5, <1>6, <1>7, <1>9, <1>10, <1>13, <1>14, <1>15, <1>16

-----------------------------------------------------------------------------
(* The calls that are open on a program stack. *)

Opens(s) == FlattenSeq([i \in DOMAIN s |-> Opened(s[i])])

\* The program stack opens what its frames open, one after another.
LEMMA OpensAppend ==
  ASSUME build \in Builds, code = RunOnModule, NEW s \in Seq(Frames), NEW f \in Frames
  PROVE  /\ Opens(s) \in Seq(AnnotationCalls)
         /\ Opens(Append(s, f)) = Opens(s) \o Opened(f)
<1> DEFINE o == [i \in DOMAIN s |-> Opened(s[i])]
           p == [i \in DOMAIN Append(s, f) |-> Opened(Append(s, f)[i])]
<1>1. \A g \in Frames : Opened(g) \in Seq(AnnotationCalls)
  BY FrameFacts
<1>2. PICK n \in Nat : n = Len(s)
  OBVIOUS
<1>3. \A i \in 1 .. n : s[i] \in Frames
  BY <1>2
<1>4. \A i \in 1 .. n : Opened(s[i]) \in Seq(AnnotationCalls)
  BY <1>1, <1>3
<1>5. DOMAIN s = 1 .. n
  BY <1>2
<1>6. o = [i \in 1 .. n |-> Opened(s[i])]
  BY <1>5
<1>7. o \in Seq(Seq(AnnotationCalls)) /\ Len(o) = n
  BY <1>4, <1>6
<1>8. DOMAIN Append(s, f) = 1 .. n + 1 /\ (\A i \in 1 .. n : Append(s, f)[i] = s[i]) /\ Append(s, f)[n + 1] = f
  BY <1>2
<1>9. p = [i \in 1 .. n + 1 |-> IF i <= n THEN Opened(s[i]) ELSE Opened(f)]
  BY <1>8
<1>10. Append(o, Opened(f)) = [i \in 1 .. n + 1 |-> IF i <= n THEN Opened(s[i]) ELSE Opened(f)]
  BY <1>6, <1>7
<1>11. p = Append(o, Opened(f))
  BY <1>9, <1>10
<1>12. Opens(s) = FlattenSeq(o) /\ Opens(Append(s, f)) = FlattenSeq(p)
  BY DEF Opens
<1>13. Opened(f) \in Seq(AnnotationCalls)
  BY <1>1
<1> HIDE DEF o, p
<1> QED
  BY <1>7, <1>11, <1>12, <1>13, FlattenAppend

\* No frame, no call.
LEMMA OpensEmpty == Opens(<< >>) = << >>
<1>1. [i \in DOMAIN << >> |-> Opened((<< >>)[i])] = << >>
  OBVIOUS
<1>2. FlattenSeq(<< >>) = << >>
  BY FlattenIs
<1> QED
  BY <1>1, <1>2 DEF Opens

\* Frames that open nothing can be left out at the end.
LEMMA OpensPrefix ==
  ASSUME build \in Builds, code = RunOnModule, NEW s \in Seq(Frames), NEW m \in 0 .. Len(s),
         \A i \in m + 1 .. Len(s) : Opened(s[i]) = << >>
  PROVE  Opens(s) = Opens(SubSeq(s, 1, m))
<1>1. \A k \in 0 .. Len(s) : SubSeq(s, 1, k) \in Seq(Frames)
  <2> SUFFICES ASSUME NEW k \in 0 .. Len(s) PROVE SubSeq(s, 1, k) \in Seq(Frames)
    OBVIOUS
  <2>1. \A i \in 1 .. k : s[i] \in Frames
    OBVIOUS
  <2> QED
    BY <2>1, SubSeqProperties
<1> DEFINE K == {k \in Nat : m + k \in m .. Len(s) => Opens(SubSeq(s, 1, m + k)) = Opens(SubSeq(s, 1, m))}
<1>2. 0 \in K
  OBVIOUS
<1>3. ASSUME NEW k \in K PROVE k + 1 \in K
  <2> SUFFICES ASSUME m + (k + 1) \in m .. Len(s)
               PROVE  Opens(SubSeq(s, 1, m + (k + 1))) = Opens(SubSeq(s, 1, m))
    OBVIOUS
  <2>1. /\ k \in Nat /\ m + k \in m .. Len(s) /\ m + k \in 0 .. Len(s) /\ m + k + 1 \in m + 1 .. Len(s)
        /\ m + k + 1 \in 1 .. Len(s) /\ m + (k + 1) = m + k + 1
    OBVIOUS
  <2>2. PICK r : r = SubSeq(s, 1, m + k)
    OBVIOUS
  <2>3. PICK f : f = s[m + k + 1]
    OBVIOUS
  <2>4. r \in Seq(Frames) /\ f \in Frames /\ Opened(f) = << >>
    BY <1>1, <2>1, <2>2, <2>3
  <2>5. SubSeq(s, 1, m + k + 1) = Append(r, f)
    <3>1. 1 \in 1 .. Len(s) /\ m + k + 1 \in 1 .. Len(s) /\ (m + k + 1) - 1 = m + k
      BY <2>1
    <3>2. SubSeq(s, 1, m + k + 1) = SubSeq(s, 1, (m + k + 1) - 1) \o <<s[m + k + 1]>>
      BY <3>1, SubSeqRecursiveSecond
    <3>3. r \o <<f>> = Append(r, f)
      BY <2>4
    <3> QED
      BY <2>2, <2>3, <3>1, <3>2, <3>3
  <2>6. Opens(r) \in Seq(AnnotationCalls) /\ Opens(Append(r, f)) = Opens(r) \o << >>
    BY <2>4, OpensAppend
  <2>7. Opens(Append(r, f)) = Opens(r)
    BY <2>6, ConcatEmptySeq
  <2>8. Opens(r) = Opens(SubSeq(s, 1, m))
    BY <2>1, <2>2
  <2> QED
    BY <2>1, <2>5, <2>7, <2>8
<1>4. K = Nat
  <2>1. K \subseteq Nat
    OBVIOUS
  <2> HIDE DEF K
  <2> QED
    BY <1>2, <1>3, <2>1, AllNumbers
<1>5. Len(s) - m \in K
  <2>1. Len(s) - m \in Nat
    OBVIOUS
  <2> HIDE DEF K
  <2> QED
    BY <1>4, <2>1
<1>6. m + (Len(s) - m) = Len(s) /\ Len(s) \in m .. Len(s)
  OBVIOUS
<1>7. SubSeq(s, 1, Len(s)) = s
  BY SubSeqFull
<1> QED
  BY <1>5, <1>6, <1>7

\* What is open depends on the state only by the pass that made the program and
\* by where its threads are.
LEMMA OpensSame ==
  ASSUME build' = build, NEW t, NEW s, s = frames[t]'
  PROVE  Opens(frames[t])' = Opens(s)
BY DEF Opens, Opened, OpenedAt, Begun, FunctionCallsOpen, BlockCallsOpen, ToBlockStarts, ToBody,
       ToBlockEnds, ToFunctionEnds, ToLast, Outer, FunctionCalls, BlockCalls

-----------------------------------------------------------------------------
(* The steps of the program. *)

\* A sequence cut after m elements and given one more.
LEMMA CutFacts ==
  ASSUME NEW S, NEW s \in Seq(S), NEW m \in 0 .. Len(s), NEW g \in S
  PROVE  /\ SubSeq(s, 1, m) \in Seq(S) /\ Len(SubSeq(s, 1, m)) = m
         /\ Append(SubSeq(s, 1, m), g) \in Seq(S)
         /\ Len(Append(SubSeq(s, 1, m), g)) = m + 1
         /\ \A i \in 1 .. m : Append(SubSeq(s, 1, m), g)[i] = s[i]
         /\ Append(SubSeq(s, 1, m), g)[m + 1] = g
<1>1. PICK r : r = SubSeq(s, 1, m)
  OBVIOUS
<1>2. r \in Seq(S) /\ Len(r) = m /\ \A i \in 1 .. m : r[i] = s[i]
  BY <1>1
<1> QED
  BY <1>1, <1>2

\* The first elements of a sequence.
LEMMA SubSeqPrefix ==
  ASSUME NEW S, NEW s \in Seq(S), NEW m \in 0 .. Len(s)
  PROVE  /\ SubSeq(s, 1, m) \in Seq(S) /\ Len(SubSeq(s, 1, m)) = m
         /\ \A i \in 1 .. m : SubSeq(s, 1, m)[i] = s[i]
<1>1. \A i \in 1 .. m : s[i] \in S
  OBVIOUS
<1>2. m - 1 + 1 = m /\ \A i \in 1 .. m : 1 + i - 1 = i
  OBVIOUS
<1> QED
  BY <1>1, <1>2, SubSeqProperties

\* A nonempty sequence is what is below its top, and its top.
LEMMA TopFacts ==
  ASSUME NEW S, NEW s \in Seq(S), s # << >>
  PROVE  /\ Len(s) \in Nat /\ Len(s) >= 1 /\ Last(s) \in S /\ Last(s) = s[Len(s)]
         /\ Front(s) = SubSeq(s, 1, Len(s) - 1) /\ Front(s) \in Seq(S) /\ Len(Front(s)) = Len(s) - 1
         /\ \A i \in 1 .. Len(s) - 1 : Front(s)[i] = s[i]
         /\ s = Append(Front(s), Last(s))
<1>1. Len(s) \in Nat /\ Len(s) >= 1
  BY EmptySeq
<1>2. Last(s) = s[Len(s)] /\ Front(s) = SubSeq(s, 1, Len(s) - 1)
  BY DEF Last, Front
<1>3. s[Len(s)] \in S /\ Len(s) - 1 \in 0 .. Len(s)
  BY <1>1
<1>4. PICK g : g = s[Len(s)]
  OBVIOUS
<1>5. PICK r : r = SubSeq(s, 1, Len(s) - 1)
  OBVIOUS
<1>6. /\ r \in Seq(S) /\ Len(r) = Len(s) - 1
      /\ Append(r, g) \in Seq(S) /\ Len(Append(r, g)) = Len(s)
      /\ \A i \in 1 .. Len(s) - 1 : Append(r, g)[i] = s[i]
      /\ \A i \in 1 .. Len(s) - 1 : r[i] = s[i]
      /\ Append(r, g)[Len(s)] = g
  <2>1. PICK m \in 0 .. Len(s) : m = Len(s) - 1
    BY <1>3
  <2>2. r = SubSeq(s, 1, m) /\ g \in S
    BY <1>3, <1>4, <1>5, <2>1
  <2>3. /\ r \in Seq(S) /\ Len(r) = m
        /\ Append(r, g) \in Seq(S) /\ Len(Append(r, g)) = m + 1
        /\ \A i \in 1 .. m : Append(r, g)[i] = s[i]
        /\ Append(r, g)[m + 1] = g
    BY <2>2, CutFacts
  <2>4. \A i \in 1 .. m : r[i] = s[i]
    BY <1>1, <2>1, <2>2
  <2>5. m + 1 = Len(s)
    BY <1>1, <2>1
  <2> QED
    BY <2>1, <2>3, <2>4, <2>5
<1>7. s = Append(r, g)
  BY <1>4, <1>6, SeqEqual
<1> QED
  BY <1>1, <1>2, <1>3, <1>4, <1>5, <1>6, <1>7

\* A thread drops the last of the functions it is in, or none, and goes somewhere.
Moves(t, m, g) ==
  /\ m \in 0 .. Len(frames[t]) /\ g \in Frames
  /\ \A i \in 1 .. m : Waits(frames[t][i])
  /\ frames' = [frames EXCEPT ![t] = Append(SubSeq(frames[t], 1, m), g)]

\* The shape of the state depends on where the threads are and nothing else.
LEMMA ShapeKept ==
  ASSUME ShapeInv, build' = build, code' = code,
         frames' \in [Threads -> Seq(Frames)],
         \A t \in Threads : \A s : s = frames'[t] => \A i \in 1 .. Len(s) - 1 : Waits(s[i])
  PROVE  ShapeInv'
<1>1. Frames' = Frames
  BY DEF Frames
<1>2. build' \in Builds
  BY DEF ShapeInv
<1>3. (code = RunOnModule)'
  <2>1. RunOnModule' = RunOnModule
    BY DEF RunOnModule, InjectFunction, InjectBlock, FunctionCalls, BlockCalls
  <2>2. code' = RunOnModule
    BY DEF ShapeInv
  <2> QED
    BY <2>1, <2>2
<1>4. (\A t \in Threads : \A i \in 1 .. Len(frames[t]) - 1 : Waits(frames[t][i]))'
  BY DEF Waits, InstrAt
<1> QED
  BY <1>1, <1>2, <1>3, <1>4 DEF ShapeInv, Builds

\* A move keeps it.
LEMMA MoveKeepsShape ==
  ASSUME ShapeInv, build' = build, code' = code, NEW t \in Threads, NEW m, NEW g, Moves(t, m, g)
  PROVE  ShapeInv'
<1>1. PICK s : s = frames[t]
  OBVIOUS
<1>2. s \in Seq(Frames) /\ frames \in [Threads -> Seq(Frames)]
  BY <1>1 DEF ShapeInv
<1>3. m \in 0 .. Len(s) /\ g \in Frames /\ \A i \in 1 .. m : Waits(s[i])
  BY <1>1 DEF Moves
<1>4. PICK r : r = Append(SubSeq(s, 1, m), g)
  OBVIOUS
<1>5. r \in Seq(Frames) /\ Len(r) = m + 1 /\ \A i \in 1 .. m : r[i] = s[i]
  BY <1>2, <1>3, <1>4, CutFacts
<1>6. frames' = [frames EXCEPT ![t] = r]
  BY <1>1, <1>4 DEF Moves
<1>7. frames' \in [Threads -> Seq(Frames)]
  BY <1>2, <1>5, <1>6
<1>8. ASSUME NEW u \in Threads, NEW q, q = frames'[u], NEW i \in 1 .. Len(q) - 1
      PROVE  Waits(q[i])
  <2>1. CASE u = t
    <3>1. q = r
      BY <1>2, <1>6, <1>8, <2>1
    <3>2. i \in 1 .. m
      BY <1>3, <1>5, <3>1
    <3> QED
      BY <1>3, <1>5, <3>1, <3>2
  <2>2. CASE u # t
    <3>1. q = frames[u]
      BY <1>2, <1>6, <1>8, <2>2
    <3> QED
      BY <3>1 DEF ShapeInv
  <2> QED
    BY <2>1, <2>2
<1> QED
  BY <1>7, <1>8, ShapeKept

\* So does a thread that has returned from everything.
LEMMA GoneKeepsShape ==
  ASSUME ShapeInv, build' = build, code' = code, frames' \in [Threads -> Seq(Frames)],
         \A u \in Threads : frames'[u] \in {frames[u], << >>}
  PROVE  ShapeInv'
<1>1. ASSUME NEW u \in Threads, NEW q, q = frames'[u], NEW i \in 1 .. Len(q) - 1
      PROVE  Waits(q[i])
  <2>1. CASE q = frames[u]
    BY <2>1 DEF ShapeInv
  <2>2. CASE q = << >>
    BY <2>2
  <2> QED
    BY <1>1, <2>1, <2>2
<1> QED
  BY <1>1, ShapeKept

\* A move within the function a thread is in.
LEMMA MoveToFacts ==
  ASSUME ShapeInv, build' = build, code' = code, NEW t \in Threads, frames[t] # << >>,
         NEW g \in Frames, MoveTo(t, g)
  PROVE  /\ ShapeInv'
         /\ Opens(Front(frames[t])) \in Seq(AnnotationCalls)
         /\ Opens(frames[t]) = Opens(Front(frames[t])) \o Opened(Last(frames[t]))
         /\ \A s : s = frames'[t] => Opens(s) = Opens(Front(frames[t])) \o Opened(g)
         /\ \A u \in Threads \ {t} : frames'[u] = frames[u]
         /\ \A m : m = Len(frames[t]) - 1 => Moves(t, m, g)
<1>1. PICK s : s = frames[t]
  OBVIOUS
<1>2. s \in Seq(Frames) /\ s # << >> /\ frames \in [Threads -> Seq(Frames)]
  BY <1>1 DEF ShapeInv
<1>3. /\ Len(s) \in Nat /\ Len(s) >= 1 /\ Last(s) \in Frames /\ Front(s) \in Seq(Frames)
      /\ Front(s) = SubSeq(s, 1, Len(s) - 1) /\ s = Append(Front(s), Last(s))
  BY <1>2, TopFacts
<1>4. frames' = [frames EXCEPT ![t] = Append(Front(s), g)]
  BY <1>1 DEF MoveTo
<1>5. Moves(t, Len(s) - 1, g)
  <2>1. Len(s) - 1 \in 0 .. Len(frames[t])
    BY <1>1, <1>3
  <2>2. \A i \in 1 .. Len(s) - 1 : Waits(frames[t][i])
    BY <1>1 DEF ShapeInv
  <2> QED
    BY <1>1, <1>3, <1>4, <2>1, <2>2 DEF Moves
<1>6. ShapeInv'
  BY <1>5, MoveKeepsShape
<1>7. PICK r \in Seq(Frames) : r = Front(s)
  BY <1>3
<1>8. PICK f \in Frames : f = Last(s)
  BY <1>3
<1>9. build \in Builds /\ code = RunOnModule
  BY DEF ShapeInv
<1>10. /\ Opens(r) \in Seq(AnnotationCalls) /\ Opens(Append(r, f)) = Opens(r) \o Opened(f)
       /\ Opens(Append(r, g)) = Opens(r) \o Opened(g)
  BY <1>9, OpensAppend
<1>11. frames'[t] = Append(r, g) /\ \A u \in Threads \ {t} : frames'[u] = frames[u]
  BY <1>2, <1>4, <1>7
<1> QED
  BY <1>1, <1>3, <1>5, <1>6, <1>7, <1>8, <1>10, <1>11

\* A thread is then where one of its frames was, or in a function it has called.
Continues(s, m, g) ==
  IF m < Len(s)
  THEN Opened(g) = Opened(s[m + 1]) /\ FunctionOf[g.block] = FunctionOf[s[m + 1].block]
  ELSE Opened(g) = << >> /\ (recursed' \/ \A i \in DOMAIN s : FunctionOf[s[i].block] # FunctionOf[g.block])
Settles(t) ==
  \/ \A u \in Threads : frames'[u] \in {frames[u], << >>}
  \/ \E m, g : Moves(t, m, g) /\ Continues(frames[t], m, g)

\* Code of the program's own, calls and returns open and close nothing, and an
\* exception neither, if it is caught and leaves nothing that was started.
LEMMA SilentStep ==
  ASSUME ShapeInv, NEW t \in Threads, Work(t) \/ Branch(t) \/ Call(t) \/ Return(t) \/ Throw(t)
  PROVE  /\ ShapeInv'
         /\ ~unwound' => \A u \in Threads : \A s : s = frames'[u] => Opens(s) = Opens(frames[u])
         /\ Settles(t)
<1>1. PICK s : s = frames[t]
  OBVIOUS
<1>2. /\ s \in Seq(Frames) /\ frames \in [Threads -> Seq(Frames)] /\ build \in Builds /\ code = RunOnModule
      /\ \A i \in 1 .. Len(s) - 1 : Waits(s[i])
  BY <1>1 DEF ShapeInv
<1>3. s # << >> /\ build' = build /\ code' = code
  BY <1>1 DEF Work, Branch, Call, Return, Throw, IsAt
<1>4. /\ Len(s) \in Nat /\ Len(s) >= 1 /\ Last(s) \in Frames /\ Last(s) = s[Len(s)] /\ Front(s) \in Seq(Frames)
      /\ Front(s) = SubSeq(s, 1, Len(s) - 1) /\ s = Append(Front(s), Last(s)) /\ Len(Front(s)) = Len(s) - 1
      /\ \A i \in 1 .. Len(s) - 1 : Front(s)[i] = s[i]
  BY <1>2, <1>3, TopFacts
<1>5. PICK f \in Frames : f = Last(s)
  BY <1>4
<1>6. PICK op : op = InstrAt(f).op
  OBVIOUS
<1>7. Opened(f) \in Seq(AnnotationCalls)
  BY <1>2, FrameFacts
<1>8. CASE Work(t)
  <2>1. op = "work" /\ MoveTo(t, Past(f))
    BY <1>1, <1>5, <1>6, <1>8 DEF Work, IsAt
  <2>2. PICK g \in Frames : g = Past(f) /\ Opened(g) = Opened(f)
    BY <1>2, <1>6, <2>1, FrameFacts
  <2>3. MoveTo(t, g)
    BY <2>1, <2>2
  <2>4. Settles(t)
    <3>1. PICK m : m = Len(s) - 1
      OBVIOUS
    <3>2. Moves(t, m, g)
      BY <1>1, <1>3, <2>3, <3>1, MoveToFacts
    <3>3. m < Len(s) /\ s[m + 1] = f
      BY <1>4, <1>5, <3>1
    <3>4. g.block = f.block
      BY <2>2 DEF Past, Frames
    <3>5. Continues(s, m, g)
      BY <2>2, <3>3, <3>4 DEF Continues
    <3> QED
      BY <1>1, <3>2, <3>5 DEF Settles
  <2>5. /\ ShapeInv' /\ Opens(s) = Opens(Front(s)) \o Opened(f)
       /\ \A q : q = frames'[t] => Opens(q) = Opens(Front(s)) \o Opened(g)
       /\ \A u \in Threads \ {t} : frames'[u] = frames[u]
    BY <1>1, <1>3, <1>5, <2>3, MoveToFacts
  <2> QED
    BY <1>1, <2>2, <2>4, <2>5
<1>9. CASE Branch(t)
  <2>1. op = "br"
    BY <1>1, <1>5, <1>6, <1>9 DEF Branch, IsAt
  <2>2. PICK b \in InstrAt(f).to : MoveTo(t, At(b))
    BY <1>1, <1>5, <1>9 DEF Branch, Here
  <2>3. PICK g \in Frames : g = At(b) /\ Opened(g) = Opened(f) /\ FunctionOf[b] = FunctionOf[f.block]
    BY <1>2, <1>6, <2>1, FrameFacts
  <2>4. MoveTo(t, g)
    BY <2>2, <2>3
  <2>5. Settles(t)
    <3>1. PICK m : m = Len(s) - 1
      OBVIOUS
    <3>2. Moves(t, m, g)
      BY <1>1, <1>3, <2>4, <3>1, MoveToFacts
    <3>3. m < Len(s) /\ s[m + 1] = f
      BY <1>4, <1>5, <3>1
    <3>4. g.block = b
      BY <2>3 DEF At
    <3>5. Continues(s, m, g)
      BY <2>3, <3>3, <3>4 DEF Continues
    <3> QED
      BY <1>1, <3>2, <3>5 DEF Settles
  <2>6. /\ ShapeInv' /\ Opens(s) = Opens(Front(s)) \o Opened(f)
       /\ \A q : q = frames'[t] => Opens(q) = Opens(Front(s)) \o Opened(g)
       /\ \A u \in Threads \ {t} : frames'[u] = frames[u]
    BY <1>1, <1>3, <1>5, <2>4, MoveToFacts
  <2> QED
    BY <1>1, <2>3, <2>5, <2>6
<1>10. CASE Call(t)
  <2>1. Waits(f)
    BY <1>1, <1>5, <1>10 DEF Call, IsAt, Waits
  <2>2. PICK b : b = Entry[InstrAt(f).callee]
    OBVIOUS
  <2>3. b \in Blocks /\ b = Entry[FunctionOf[b]]
    BY <1>2, <2>1, <2>2, FrameFacts, ProgramAssumption
  <2>4. PICK g \in Frames : g = At(b) /\ Opened(g) = << >>
    BY <1>2, <2>3, EntryFacts
  <2>5. frames' = [frames EXCEPT ![t] = Append(s, g)]
    BY <1>1, <1>5, <1>10, <2>2, <2>4 DEF Call, Here
  <2>6. SubSeq(s, 1, Len(s)) = s
    BY <1>2, SubSeqFull
  <2>7. Moves(t, Len(s), g)
    <3>1. \A i \in 1 .. Len(s) : Waits(s[i])
      BY <1>2, <1>4, <1>5, <2>1
    <3>2. Len(s) \in 0 .. Len(s)
      BY <1>4
    <3>3. frames' = [frames EXCEPT ![t] = Append(SubSeq(s, 1, Len(s)), g)]
      BY <2>5, <2>6
    <3> QED
      BY <1>1, <3>1, <3>2, <3>3 DEF Moves
  <2>8. ShapeInv'
    BY <1>3, <2>7, MoveKeepsShape
  <2>9. Opens(s) \in Seq(AnnotationCalls) /\ Opens(Append(s, g)) = Opens(s) \o << >>
    BY <1>2, <2>4, OpensAppend
  <2>10. Opens(Append(s, g)) = Opens(s)
    BY <2>9, ConcatEmptySeq
  <2>11. frames'[t] = Append(s, g) /\ \A u \in Threads \ {t} : frames'[u] = frames[u]
    BY <1>2, <2>5
  <2>12. Settles(t)
    <3>1. PICK m : m = Len(s)
      OBVIOUS
    <3>2. g.block = b /\ FunctionOf[b] = InstrAt(f).callee
      BY <1>2, <2>1, <2>2, <2>4, FrameFacts, ProgramAssumption DEF At
    <3>3. recursed' = (recursed \/ InstrAt(f).callee \in {FunctionOf[h.block] : h \in Range(s)})
      BY <1>1, <1>5, <1>10 DEF Call, Here
    <3>4. \A i \in DOMAIN s : s[i] \in Range(s)
      BY DEF Range
    <3>5. recursed' \/ \A i \in DOMAIN s : FunctionOf[s[i].block] # FunctionOf[g.block]
      BY <3>2, <3>3, <3>4
    <3>6. Continues(s, m, g)
      BY <1>4, <2>4, <3>1, <3>5 DEF Continues
    <3> QED
      BY <1>1, <2>7, <3>1, <3>6 DEF Settles
  <2> QED
    BY <1>1, <2>8, <2>10, <2>11, <2>12
<1>11. CASE Return(t)
  <2>1. op = "ret"
    BY <1>1, <1>5, <1>6, <1>11 DEF Return, IsAt
  <2>2. Opened(f) = << >>
    BY <1>2, <1>6, <2>1, FrameFacts
  <2>3. PICK r \in Seq(Frames) : r = Front(s)
    BY <1>4
  <2>4. Opens(s) = Opens(r)
    <3>1. Opens(r) \in Seq(AnnotationCalls) /\ Opens(Append(r, f)) = Opens(r) \o << >>
      BY <1>2, <2>2, OpensAppend
    <3> QED
      BY <1>4, <1>5, <2>3, <3>1, ConcatEmptySeq
  <2>5. frames' = [frames EXCEPT ![t] = IF r = << >> THEN << >> ELSE Resumed(r)]
    BY <1>1, <1>11, <2>3 DEF Return
  <2>6. CASE r = << >>
    <3>1. frames' \in [Threads -> Seq(Frames)]
      BY <1>2, <2>5, <2>6, EmptySeq
    <3>2. \A u \in Threads : frames'[u] \in {frames[u], << >>}
      BY <1>2, <2>5, <2>6
    <3>3. frames'[t] = << >> /\ \A u \in Threads \ {t} : frames'[u] = frames[u]
      BY <1>2, <2>5, <2>6
    <3>4. ShapeInv'
      BY <1>3, <3>1, <3>2, GoneKeepsShape
    <3>5. Settles(t)
      BY <3>2 DEF Settles
    <3> QED
      BY <1>1, <2>4, <2>6, <3>3, <3>4, <3>5
  <2>7. CASE r # << >>
    <3>1. /\ Len(r) \in Nat /\ Len(r) >= 1 /\ Last(r) \in Frames /\ Last(r) = r[Len(r)] /\ Front(r) \in Seq(Frames)
          /\ Front(r) = SubSeq(r, 1, Len(r) - 1) /\ r = Append(Front(r), Last(r))
      BY <2>7, TopFacts
    <3>2. PICK c \in Frames : c = Last(r)
      BY <3>1
    <3>3. Len(r) = Len(s) - 1 /\ c = s[Len(s) - 1] /\ Len(s) - 1 \in 1 .. Len(s) - 1
      BY <1>4, <2>3, <3>1, <3>2
    <3>4. Waits(c)
      BY <1>2, <3>3
    <3>5. PICK g \in Frames : /\ g = (IF InstrAt(c).op = "call" THEN Past(c) ELSE At(InstrAt(c).to))
                              /\ Opened(g) = Opened(c) /\ FunctionOf[g.block] = FunctionOf[c.block]
      <4>1. c = [block |-> c.block, pc |-> c.pc]
        BY DEF Frames
      <4>2. Past(c).block = c.block
        BY <4>1 DEF Past
      <4>3. \A b : At(b).block = b
        BY DEF At
      <4> QED
        BY <1>2, <3>4, <4>2, <4>3, FrameFacts DEF Waits
    <3>6. PICK q \in Seq(Frames) : q = Front(r)
      BY <3>1
    <3>7. Resumed(r) = Append(q, g)
      BY <3>2, <3>5, <3>6 DEF Resumed
    <3>8. frames' = [frames EXCEPT ![t] = Append(q, g)]
      BY <2>5, <2>7, <3>7
    <3>9. q = SubSeq(s, 1, Len(s) - 2) /\ Len(s) - 2 \in 0 .. Len(s)
      <4>1. Len(s) >= 2 /\ Len(s) \in Nat
        BY <1>4, <3>1, <3>3
      <4>2. Len(s) - 2 \in 0 .. Len(s) /\ Len(s) - 2 = Len(r) - 1 /\ Len(s) - 2 \in 0 .. Len(r)
        BY <3>3, <4>1
      <4>3. PICK p : p = SubSeq(s, 1, Len(s) - 2)
        OBVIOUS
      <4>4. p \in Seq(Frames) /\ Len(p) = Len(s) - 2 /\ \A i \in 1 .. Len(s) - 2 : p[i] = s[i]
        BY <1>2, <4>2, <4>3, SubSeqPrefix
      <4>5. q \in Seq(Frames) /\ Len(q) = Len(s) - 2 /\ \A i \in 1 .. Len(s) - 2 : q[i] = r[i]
        <5>1. q = SubSeq(r, 1, Len(s) - 2)
          BY <3>1, <3>6, <4>2
        <5> QED
          BY <4>2, <5>1, SubSeqPrefix
      <4>6. \A i \in 1 .. Len(s) - 2 : r[i] = s[i]
        BY <1>4, <2>3
      <4>7. p = q
        BY <4>4, <4>5, <4>6, SeqEqual
      <4> QED
        BY <4>2, <4>3, <4>7
    <3>10. Moves(t, Len(s) - 2, g)
      <4>1. \A i \in 1 .. Len(s) - 2 : Waits(s[i])
        BY <1>2, <1>4
      <4> QED
        BY <1>1, <3>8, <3>9, <4>1 DEF Moves
    <3>11. ShapeInv'
      BY <1>3, <3>10, MoveKeepsShape
    <3>12. Opens(Append(q, g)) = Opens(q) \o Opened(g) /\ Opens(Append(q, c)) = Opens(q) \o Opened(c)
      BY <1>2, OpensAppend
    <3>13. Opens(Append(q, g)) = Opens(r)
      BY <3>1, <3>2, <3>5, <3>6, <3>12
    <3>14. frames'[t] = Append(q, g) /\ \A u \in Threads \ {t} : frames'[u] = frames[u]
      BY <1>2, <3>8
    <3>15. Settles(t)
      <4>1. PICK m : m = Len(s) - 2
        OBVIOUS
      <4>2. m < Len(s) /\ s[m + 1] = c
        BY <1>4, <3>3, <4>1
      <4>3. Continues(s, m, g)
        BY <3>5, <4>2 DEF Continues
      <4> QED
        BY <1>1, <3>10, <4>1, <4>3 DEF Settles
    <3> QED
      BY <1>1, <2>4, <3>11, <3>13, <3>14, <3>15
  <2> QED
    BY <2>6, <2>7
<1>12. CASE Throw(t)
  <2> DEFINE catching == {i \in 1 .. Len(s) - 1 : InstrAt(s[i]).op = "invoke"}
             left == {i \in DOMAIN s : \A c \in catching : i > c}
  <2>1. /\ op \in {"throw", "resume"}
        /\ frames' = IF catching = {} THEN [u \in Threads |-> << >>]
                     ELSE [frames EXCEPT ![t] =
                             Append(SubSeq(s, 1, Max(catching) - 1), At(InstrAt(s[Max(catching)]).pad))]
        /\ unwound' = (unwound \/ catching = {} \/ \E i \in left : OpenIn(s[i]) # << >>)
    BY <1>1, <1>5, <1>6, <1>12 DEF Throw, IsAt
  <2>2. CASE catching = {}
    <3>1. frames' = [u \in Threads |-> << >>] /\ unwound'
      BY <2>1, <2>2
    <3>2. frames' \in [Threads -> Seq(Frames)] /\ \A u \in Threads : frames'[u] \in {frames[u], << >>}
      BY <3>1, EmptySeq
    <3>3. ShapeInv'
      BY <1>3, <3>2, GoneKeepsShape
    <3>4. Settles(t)
      BY <3>2 DEF Settles
    <3> QED
      BY <3>1, <3>3, <3>4
  <2>3. CASE catching # {}
    <3>1. catching \in SUBSET Int /\ IsFiniteSet(catching)
      <4>1. IsFiniteSet(1 .. Len(s) - 1)
        BY <1>4, FS_Interval
      <4> QED
        BY <1>4, <4>1, FS_Subset
    <3>2. PICK c : c = Max(catching)
      OBVIOUS
    <3>3. c \in catching /\ \A y \in catching : c >= y
      BY <2>3, <3>1, <3>2, LeastAndGreatest
    <3>4. c \in 1 .. Len(s) - 1 /\ c - 1 \in 0 .. Len(s) /\ InstrAt(s[c]).op = "invoke" /\ s[c] \in Frames
      BY <1>2, <1>4, <3>3
    <3>5. PICK h \in Frames : h = s[c]
      BY <3>4
    <3>6. PICK g \in Frames : /\ g = At(InstrAt(h).pad) /\ Opened(g) = Opened(h)
                              /\ FunctionOf[g.block] = FunctionOf[h.block]
      <4>1. \A b : At(b).block = b
        BY DEF At
      <4> QED
        BY <1>2, <3>4, <3>5, <4>1, FrameFacts
    <3>7. PICK q : q = SubSeq(s, 1, c - 1)
      OBVIOUS
    <3>8. q \in Seq(Frames)
      BY <1>2, <3>4, <3>7, CutFacts
    <3>9. frames' = [frames EXCEPT ![t] = Append(q, g)]
      BY <2>1, <2>3, <3>2, <3>5, <3>6, <3>7
    <3>10. Moves(t, c - 1, g)
      <4>1. \A i \in 1 .. c - 1 : Waits(s[i])
        BY <1>2, <1>4, <3>4
      <4> QED
        BY <1>1, <3>4, <3>7, <3>9, <4>1 DEF Moves
    <3>11. ShapeInv'
      BY <1>3, <3>10, MoveKeepsShape
    <3>12. ASSUME ~unwound' PROVE Opens(Append(q, g)) = Opens(s)
      <4>1. \A i \in left : OpenIn(s[i]) = << >>
        BY <2>1, <3>12
      <4>2. ASSUME NEW i \in c + 1 .. Len(s) PROVE Opened(s[i]) = << >>
        <5>1. i \in DOMAIN s /\ \A y \in catching : i > y
          BY <1>2, <3>1, <3>3, <3>4
        <5>2. i \in left
          BY <5>1
        <5>3. PICK e \in Frames : e = s[i]
          BY <1>2, <5>1
        <5>4. InstrAt(e).op \notin {"start", "end"}
          <6>1. CASE i = Len(s)
            BY <1>4, <1>5, <1>6, <2>1, <5>3, <6>1
          <6>2. CASE i # Len(s)
            <7>1. i \in 1 .. Len(s) - 1
              <8>1. Len(s) \in Nat /\ c \in Nat /\ c >= 1
                BY <1>4, <3>4
              <8> QED
                BY <6>2, <8>1
            <7> QED
              BY <1>2, <5>3, <7>1 DEF Waits
          <6> QED
            BY <6>1, <6>2
        <5>5. Opened(e) = OpenIn(e)
          BY <1>2, <5>4, FrameFacts
        <5> QED
          BY <4>1, <5>2, <5>3, <5>5
      <4>3. c \in 0 .. Len(s)
        BY <1>4, <3>4
      <4>4. Opens(s) = Opens(SubSeq(s, 1, c))
        BY <1>2, <4>2, <4>3, OpensPrefix
      <4>5. SubSeq(s, 1, c) = Append(q, h)
        <5>1. 1 \in 1 .. Len(s) /\ c \in 1 .. Len(s)
          BY <1>4, <3>4
        <5>2. SubSeq(s, 1, c) = SubSeq(s, 1, c - 1) \o <<s[c]>>
          BY <1>2, <5>1, SubSeqRecursiveSecond
        <5>3. q \o <<h>> = Append(q, h)
          BY <3>8
        <5> QED
          BY <3>5, <3>7, <5>2, <5>3
      <4>6. Opens(Append(q, g)) = Opens(q) \o Opened(g) /\ Opens(Append(q, h)) = Opens(q) \o Opened(h)
        BY <1>2, <3>8, OpensAppend
      <4> QED
        BY <3>6, <4>4, <4>5, <4>6
    <3>13. frames'[t] = Append(q, g) /\ \A u \in Threads \ {t} : frames'[u] = frames[u]
      BY <1>2, <3>9
    <3>14. Settles(t)
      <4>1. PICK m : m = c - 1
        OBVIOUS
      <4>2. m < Len(s) /\ s[m + 1] = h
        BY <1>4, <3>4, <3>5, <4>1
      <4>3. Continues(s, m, g)
        BY <3>6, <4>2 DEF Continues
      <4> QED
        BY <1>1, <3>10, <4>1, <4>3 DEF Settles
    <3> QED
      BY <1>1, <3>11, <3>12, <3>13, <3>14
  <2> QED
    BY <2>2, <2>3
<1> QED
  BY <1>8, <1>9, <1>10, <1>11, <1>12

-----------------------------------------------------------------------------
(* The collector follows the program. *)

\* The two stacks of a collector for a list of open calls.
StackOf(open) == <<GLOBAL_BBLHASH>> \o [i \in DOMAIN open |-> open[i].key]
SiteStackOf(open) == <<FALSE>> \o SitesOf(open)

\* back() and pop_back() after a push_back().
LEMMA PushAndPop ==
  ASSUME NEW S, NEW s \in Seq(S), NEW e \in S
  PROVE  Top(Append(s, e)) = e /\ Pop(Append(s, e)) = s
<1>1. /\ Append(s, e) \in Seq(S) /\ Len(Append(s, e)) = Len(s) + 1 /\ Len(s) \in Nat
      /\ Append(s, e)[Len(s) + 1] = e /\ \A i \in 1 .. Len(s) : Append(s, e)[i] = s[i]
  OBVIOUS
<1>2. Pop(Append(s, e)) = SubSeq(Append(s, e), 1, Len(s))
  BY <1>1 DEF Pop
<1>3. PICK r : r = Append(s, e)
  OBVIOUS
<1>4. Len(s) \in 0 .. Len(r) /\ r \in Seq(S)
  BY <1>1, <1>3
<1>5. /\ SubSeq(r, 1, Len(s)) \in Seq(S) /\ Len(SubSeq(r, 1, Len(s))) = Len(s)
      /\ \A i \in 1 .. Len(s) : SubSeq(r, 1, Len(s))[i] = r[i]
  BY <1>4, SubSeqPrefix
<1>6. SubSeq(r, 1, Len(s)) = s
  BY <1>1, <1>3, <1>5, SeqEqual
<1> QED
  BY <1>1, <1>2, <1>3, <1>6 DEF Top

\* A call that is opened goes on top of the stack of blocks.
LEMMA StackOfAppend ==
  ASSUME NEW o \in Seq(AnnotationCalls), NEW c \in AnnotationCalls
  PROVE  /\ StackOf(o) \in Seq(Hashes) /\ c.key \in Hashes
         /\ StackOf(Append(o, c)) = Append(StackOf(o), c.key)
<1>1. PICK n \in Nat : n = Len(o)
  OBVIOUS
<1>2. DOMAIN o = 1 .. n /\ \A i \in 1 .. n : o[i] \in AnnotationCalls
  BY <1>1
<1>3. \A d \in AnnotationCalls : d.key \in Hashes
  BY DEF AnnotationCalls, Hashes
<1> DEFINE k == [i \in DOMAIN o |-> o[i].key]
           l == [i \in DOMAIN Append(o, c) |-> Append(o, c)[i].key]
<1>4. k = [i \in 1 .. n |-> o[i].key] /\ \A i \in 1 .. n : o[i].key \in Hashes
  BY <1>2, <1>3
<1>5. k \in Seq(Hashes) /\ Len(k) = n
  BY <1>4
<1>6. DOMAIN Append(o, c) = 1 .. n + 1 /\ (\A i \in 1 .. n : Append(o, c)[i] = o[i]) /\ Append(o, c)[n + 1] = c
  BY <1>1
<1>7. l = [i \in 1 .. n + 1 |-> IF i <= n THEN o[i].key ELSE c.key]
  BY <1>6
<1>8. Append(k, c.key) = [i \in 1 .. n + 1 |-> IF i <= n THEN o[i].key ELSE c.key]
  BY <1>3, <1>4, <1>5
<1>9. l = Append(k, c.key)
  BY <1>7, <1>8
<1>10. StackOf(o) = <<GLOBAL_BBLHASH>> \o k /\ StackOf(Append(o, c)) = <<GLOBAL_BBLHASH>> \o l
  BY DEF StackOf
<1>11. GLOBAL_BBLHASH \in Hashes /\ c.key \in Hashes
  BY <1>3 DEF Hashes
<1> HIDE DEF k, l
<1>12. <<GLOBAL_BBLHASH>> \o Append(k, c.key) = Append(<<GLOBAL_BBLHASH>> \o k, c.key)
  BY <1>5, <1>11
<1> QED
  BY <1>5, <1>9, <1>10, <1>11, <1>12

\* A call that names a site puts it on the stack of sites.
LEMMA SiteStackOfAppend ==
  ASSUME NEW o \in Seq(AnnotationCalls), NEW c \in AnnotationCalls
  PROVE  /\ SiteStackOf(o) \in Seq(BOOLEAN)
         /\ SiteStackOf(Append(o, c)) =
              IF c.site = "none" THEN SiteStackOf(o) ELSE Append(SiteStackOf(o), c.site = "PIM")
<1> DEFINE SiteOf(d) == IF d.site = "none" THEN << >> ELSE <<d.site = "PIM">>
           k == [i \in DOMAIN o |-> SiteOf(o[i])]
           l == [i \in DOMAIN Append(o, c) |-> SiteOf(Append(o, c)[i])]
<1>1. PICK n \in Nat : n = Len(o)
  OBVIOUS
<1>2. DOMAIN o = 1 .. n
  BY <1>1
<1>3. \A d : SiteOf(d) \in Seq(BOOLEAN)
  <2>1. << >> \in Seq(BOOLEAN)
    BY EmptySeq
  <2>2. \A b \in BOOLEAN : <<b>> \in Seq(BOOLEAN)
    OBVIOUS
  <2> QED
    BY <2>1, <2>2
<1>4. DOMAIN Append(o, c) = 1 .. n + 1 /\ (\A i \in 1 .. n : Append(o, c)[i] = o[i]) /\ Append(o, c)[n + 1] = c
  BY <1>1
<1>5. SitesOf(o) = FlattenSeq(k) /\ SitesOf(Append(o, c)) = FlattenSeq(l)
  BY DEF SitesOf
<1> HIDE DEF SiteOf
<1>6. k = [i \in 1 .. n |-> SiteOf(o[i])]
  BY <1>2
<1>7. k \in Seq(Seq(BOOLEAN)) /\ Len(k) = n
  BY <1>3, <1>6
<1>8. l = [i \in 1 .. n + 1 |-> IF i <= n THEN SiteOf(o[i]) ELSE SiteOf(c)]
  BY <1>4
<1>9. Append(k, SiteOf(c)) = [i \in 1 .. n + 1 |-> IF i <= n THEN SiteOf(o[i]) ELSE SiteOf(c)]
  BY <1>3, <1>6, <1>7
<1>10. l = Append(k, SiteOf(c))
  BY <1>8, <1>9
<1> HIDE DEF k, l
<1>11. PICK p \in Seq(BOOLEAN) : p = SiteOf(c)
  BY <1>3
<1>12. FlattenSeq(k) \in Seq(BOOLEAN) /\ FlattenSeq(l) = FlattenSeq(k) \o p
  BY <1>7, <1>10, <1>11, FlattenAppend
<1>13. PICK q \in Seq(BOOLEAN) : q = SitesOf(o)
  BY <1>5, <1>12
<1>14. SiteStackOf(o) = <<FALSE>> \o q /\ SiteStackOf(Append(o, c)) = <<FALSE>> \o (q \o p)
  BY <1>5, <1>12, <1>13 DEF SiteStackOf
<1>15. CASE c.site = "none"
  <2>1. p = << >>
    BY <1>11, <1>15 DEF SiteOf
  <2>2. q \o << >> = q
    BY ConcatEmptySeq
  <2> QED
    BY <1>14, <1>15, <2>1, <2>2
<1>16. CASE c.site # "none"
  <2>1. PICK b \in BOOLEAN : b = (c.site = "PIM")
    OBVIOUS
  <2>2. p = <<b>>
    BY <1>11, <1>16, <2>1 DEF SiteOf
  <2>3. <<FALSE>> \o (q \o <<b>>) = Append(<<FALSE>> \o q, b)
    OBVIOUS
  <2> QED
    BY <1>14, <1>16, <2>1, <2>2, <2>3
<1> QED
  BY <1>15, <1>16

Follows(t) ==
  /\ stack[t] = StackOf(Opens(frames[t]))
  /\ usingPim[t] = SiteStackOf(Opens(frames[t]))

\* Unless an exception has left something that was started, the stacks of every
\* collector are those of the calls its thread has open.
StacksInv ==
  /\ stack = [t \in Threads |-> stack[t]] /\ usingPim = [t \in Threads |-> usingPim[t]]
  /\ aborted => unwound
  /\ ~unwound /\ ~ForVTune(build.pass) => \A t \in Threads : Follows(t)

\* To follow the program after a step.
LEMMA FollowsNext ==
  ASSUME build' = build, NEW t, NEW s, s = frames'[t], NEW o, o = Opens(s),
         stack'[t] = StackOf(o), usingPim'[t] = SiteStackOf(o)
  PROVE  Follows(t)'
<1>1. Opens(frames[t])' = o
  BY OpensSame
<1> QED
  BY <1>1 DEF Follows, StackOf, SiteStackOf, SitesOf

\* A step of one thread in which its own collector follows it.
LEMMA OneFollows ==
  ASSUME StacksInv, build' = build, unwound' = unwound, NEW t \in Threads, aborted' => unwound,
         stack' = [u \in Threads |-> stack'[u]], usingPim' = [u \in Threads |-> usingPim'[u]],
         \A u \in Threads \ {t} :
           frames'[u] = frames[u] /\ stack'[u] = stack[u] /\ usingPim'[u] = usingPim[u],
         ~unwound /\ ~ForVTune(build.pass) =>
           \A s : s = frames'[t] => stack'[t] = StackOf(Opens(s)) /\ usingPim'[t] = SiteStackOf(Opens(s))
  PROVE  StacksInv'
<1>1. ASSUME ~unwound, ~ForVTune(build.pass), NEW u \in Threads
      PROVE  Follows(u)'
  <2>1. PICK s : s = frames'[u]
    OBVIOUS
  <2>2. PICK o : o = Opens(s)
    OBVIOUS
  <2>3. stack'[u] = StackOf(o) /\ usingPim'[u] = SiteStackOf(o)
    <3>1. CASE u = t
      BY <1>1, <2>1, <2>2, <3>1
    <3>2. CASE u # t
      <4>1. s = frames[u] /\ stack'[u] = stack[u] /\ usingPim'[u] = usingPim[u]
        BY <2>1, <3>2
      <4>2. Follows(u)
        BY <1>1 DEF StacksInv
      <4> QED
        BY <2>2, <4>1, <4>2 DEF Follows
    <3> QED
      BY <3>1, <3>2
  <2> QED
    BY <2>1, <2>2, <2>3, FollowsNext
<1>2. (~unwound /\ ~ForVTune(build.pass) => \A u \in Threads : Follows(u))'
  BY <1>1 DEF ForVTune
<1> QED
  BY <1>2 DEF StacksInv

\* A step that touches no collector and opens nothing.
LEMMA NoneFollows ==
  ASSUME StacksInv, build' = build, unwound => unwound', aborted' = aborted,
         stack' = stack, usingPim' = usingPim,
         ~unwound' /\ ~ForVTune(build.pass) =>
           \A u \in Threads : \A s : s = frames'[u] => Opens(s) = Opens(frames[u])
  PROVE  StacksInv'
<1>1. ASSUME ~unwound', ~ForVTune(build.pass), NEW u \in Threads
      PROVE  Follows(u)'
  <2>1. PICK s : s = frames'[u]
    OBVIOUS
  <2>2. PICK o : o = Opens(s)
    OBVIOUS
  <2>3. o = Opens(frames[u]) /\ Follows(u)
    BY <1>1, <2>1, <2>2 DEF StacksInv
  <2>4. stack'[u] = StackOf(o) /\ usingPim'[u] = SiteStackOf(o)
    BY <2>3 DEF Follows
  <2> QED
    BY <2>1, <2>2, <2>4, FollowsNext
<1>2. (~unwound /\ ~ForVTune(build.pass) => \A u \in Threads : Follows(u))'
  BY <1>1 DEF ForVTune
<1> QED
  BY <1>2 DEF StacksInv

\* A start goes on the stacks.
LEMMA StartStep ==
  ASSUME ShapeInv, StacksInv, NEW t \in Threads, StartAnnotation(t)
  PROVE  ShapeInv' /\ StacksInv'
<1>1. PICK s : s = frames[t]
  OBVIOUS
<1>2. /\ s \in Seq(Frames) /\ s # << >> /\ build \in Builds /\ code = RunOnModule
      /\ build' = build /\ code' = code /\ unwound' = unwound
  BY <1>1 DEF ShapeInv, StartAnnotation, IsAt, Annotated
<1>3. PICK f \in Frames : f = Last(s)
  BY <1>2, TopFacts
<1>4. InstrAt(f).op = "start" /\ ~ForVTune(build.pass)
  BY <1>1, <1>3 DEF StartAnnotation, IsAt
<1>5. PICK c \in AnnotationCalls : c = CallOf(InstrAt(f))
  BY <1>2, <1>4, FrameFacts
<1>6. c.key = Here(t).key /\ c.site = Here(t).site
  BY <1>1, <1>3, <1>5 DEF CallOf, Here
<1>7. PICK g \in Frames : g = Past(f) /\ Opened(g) = Append(Opened(f), c)
  BY <1>2, <1>4, <1>5, FrameFacts
<1>8. MoveTo(t, g)
  BY <1>1, <1>3, <1>7 DEF StartAnnotation, Annotated
<1>9. PICK p \in Seq(AnnotationCalls) : p = Opens(Front(s))
  BY <1>1, <1>2, <1>8, MoveToFacts
<1>10. PICK d \in Seq(AnnotationCalls) : d = Opened(f)
  BY <1>2, FrameFacts
<1>11. PICK o \in Seq(AnnotationCalls) : o = p \o d
  <2>1. p \o d \in Seq(AnnotationCalls)
    BY ConcatProperties
  <2> QED
    BY <2>1
<1>12. Opens(s) = o
  BY <1>1, <1>2, <1>3, <1>8, <1>9, <1>10, <1>11, MoveToFacts
<1>13. \A q : q = frames'[t] => Opens(q) = p \o Append(d, c)
  BY <1>1, <1>2, <1>7, <1>8, <1>9, <1>10, MoveToFacts
<1>14. p \o Append(d, c) = Append(o, c)
  BY <1>11
<1>15. ShapeInv' /\ \A u \in Threads \ {t} : frames'[u] = frames[u]
  BY <1>1, <1>2, <1>8, MoveToFacts
<1>16. /\ stack' = [stack EXCEPT ![t] = Append(@, c.key)] /\ aborted' = aborted
       /\ usingPim' = IF c.site = "none" THEN usingPim
                      ELSE [usingPim EXCEPT ![t] = Append(@, c.site = "PIM")]
  BY <1>6 DEF StartAnnotation, BBLStart, OffloadStart, EnterBbl
<1>17. stack = [u \in Threads |-> stack[u]] /\ usingPim = [u \in Threads |-> usingPim[u]]
  BY DEF StacksInv
<1>18. /\ stack'[t] = Append(stack[t], c.key)
       /\ usingPim'[t] = IF c.site = "none" THEN usingPim[t] ELSE Append(usingPim[t], c.site = "PIM")
       /\ \A u \in Threads \ {t} : stack'[u] = stack[u] /\ usingPim'[u] = usingPim[u]
       /\ stack' = [u \in Threads |-> stack'[u]] /\ usingPim' = [u \in Threads |-> usingPim'[u]]
  BY <1>16, <1>17
<1>19. ~unwound => stack[t] = StackOf(o) /\ usingPim[t] = SiteStackOf(o)
  BY <1>1, <1>4, <1>12 DEF StacksInv, Follows
<1>20. /\ StackOf(Append(o, c)) = Append(StackOf(o), c.key)
       /\ SiteStackOf(Append(o, c)) =
            IF c.site = "none" THEN SiteStackOf(o) ELSE Append(SiteStackOf(o), c.site = "PIM")
  BY StackOfAppend, SiteStackOfAppend
<1>21. ~unwound => \A q : q = frames'[t] =>
                     stack'[t] = StackOf(Opens(q)) /\ usingPim'[t] = SiteStackOf(Opens(q))
  BY <1>13, <1>14, <1>18, <1>19, <1>20
<1>22. aborted' => unwound
  BY <1>16 DEF StacksInv
<1> QED
  BY <1>2, <1>15, <1>18, <1>21, <1>22, OneFollows

\* An end takes off what its start put on: none of the assertions fails.
LEMMA EndStep ==
  ASSUME ShapeInv, StacksInv, NEW t \in Threads, EndAnnotation(t)
  PROVE  ShapeInv' /\ StacksInv'
<1>1. PICK s : s = frames[t]
  OBVIOUS
<1>2. /\ s \in Seq(Frames) /\ s # << >> /\ build \in Builds /\ code = RunOnModule
      /\ build' = build /\ code' = code /\ unwound' = unwound
  BY <1>1 DEF ShapeInv, EndAnnotation, IsAt, Annotated
<1>3. PICK f \in Frames : f = Last(s)
  BY <1>2, TopFacts
<1>4. InstrAt(f).op = "end" /\ ~ForVTune(build.pass) /\ ~aborted
  BY <1>1, <1>3 DEF EndAnnotation, IsAt
<1>5. PICK c \in AnnotationCalls : c = CallOf(InstrAt(f))
  BY <1>2, <1>4, FrameFacts
<1>6. c.key = Here(t).key /\ c.site = Here(t).site
  BY <1>1, <1>3, <1>5 DEF CallOf, Here
<1>7. PICK g \in Frames : g = Past(f)
  BY <1>2, <1>4, FrameFacts
<1>8. PICK d \in Seq(AnnotationCalls) : d = Opened(g)
  BY <1>2, FrameFacts
<1>9. Opened(f) = Append(d, c)
  BY <1>2, <1>4, <1>5, <1>7, <1>8, FrameFacts
<1>10. MoveTo(t, g)
  BY <1>1, <1>3, <1>7 DEF EndAnnotation, Annotated
<1>11. PICK p \in Seq(AnnotationCalls) : p = Opens(Front(s))
  BY <1>1, <1>2, <1>10, MoveToFacts
<1>12. PICK o \in Seq(AnnotationCalls) : o = p \o d
  <2>1. p \o d \in Seq(AnnotationCalls)
    BY ConcatProperties
  <2> QED
    BY <2>1
<1>13. Opens(s) = p \o Append(d, c)
  BY <1>1, <1>2, <1>3, <1>9, <1>10, <1>11, MoveToFacts
<1>14. p \o Append(d, c) = Append(o, c)
  BY <1>12
<1>15. \A q : q = frames'[t] => Opens(q) = o
  BY <1>1, <1>2, <1>8, <1>10, <1>11, <1>12, MoveToFacts
<1>16. ShapeInv' /\ \A u \in Threads \ {t} : frames'[u] = frames[u]
  BY <1>1, <1>2, <1>10, MoveToFacts
<1>17. stack = [u \in Threads |-> stack[u]] /\ usingPim = [u \in Threads |-> usingPim[u]]
  BY DEF StacksInv
<1>18. /\ stack' = [u \in Threads |-> stack'[u]] /\ usingPim' = [u \in Threads |-> usingPim'[u]]
       /\ \A u \in Threads \ {t} : stack'[u] = stack[u] /\ usingPim'[u] = usingPim[u]
  <2>1. stack' = [stack EXCEPT ![t] = stack'[t]]
    BY <1>17 DEF EndAnnotation, BBLEnd, OffloadEnd, LeaveBbl, callVars
  <2>2. usingPim' = [usingPim EXCEPT ![t] = usingPim'[t]]
    BY <1>17 DEF EndAnnotation, BBLEnd, OffloadEnd, LeaveBbl, callVars
  <2> QED
    BY <1>17, <2>1, <2>2
<1>19. CASE unwound
  BY <1>2, <1>16, <1>18, <1>19, OneFollows
<1>20. CASE ~unwound
  <2>1. stack[t] = StackOf(Append(o, c)) /\ usingPim[t] = SiteStackOf(Append(o, c))
    BY <1>1, <1>4, <1>13, <1>14, <1>20 DEF StacksInv, Follows
  <2>2. PICK k \in Seq(Hashes) : k = StackOf(o)
    BY StackOfAppend
  <2>3. PICK h \in Hashes : h = c.key
    BY StackOfAppend
  <2>4. stack[t] = Append(k, h)
    BY <2>1, <2>2, <2>3, StackOfAppend
  <2>5. GetCurrent(t) = h /\ Pop(stack[t]) = k
    BY <2>4, PushAndPop DEF GetCurrent
  <2>6. PICK v \in Seq(BOOLEAN) : v = SiteStackOf(o)
    BY SiteStackOfAppend
  <2>7. PICK b \in BOOLEAN : b = (c.site = "PIM")
    OBVIOUS
  <2>8. usingPim[t] = IF c.site = "none" THEN v ELSE Append(v, b)
    BY <2>1, <2>6, <2>7, SiteStackOfAppend
  <2>9. stack'[t] = k /\ usingPim'[t] = v /\ ~aborted'
    <3>1. CASE c.site = "none"
      <4>1. BBLEnd(t, h)
        BY <1>6, <2>3, <3>1 DEF EndAnnotation
      <4>2. ~aborted' /\ stack'[t] = k
        BY <1>17, <2>5, <4>1 DEF BBLEnd, LeaveBbl
      <4>3. usingPim' = usingPim
        BY <4>1 DEF BBLEnd
      <4> QED
        BY <2>8, <3>1, <4>2, <4>3
    <3>2. CASE c.site # "none"
      <4>1. OffloadEnd(t, h, c.site)
        BY <1>6, <2>3, <3>2 DEF EndAnnotation
      <4>2. Top(usingPim[t]) = b /\ Pop(usingPim[t]) = v
        BY <2>8, <3>2, PushAndPop
      <4>3. LeaveBbl(t, h) /\ usingPim' = [usingPim EXCEPT ![t] = Pop(@)]
        BY <2>7, <4>1, <4>2 DEF OffloadEnd
      <4>4. ~aborted' /\ stack'[t] = k
        BY <1>17, <2>5, <4>3 DEF LeaveBbl
      <4> QED
        BY <1>17, <4>2, <4>3, <4>4
    <3> QED
      BY <3>1, <3>2
  <2>10. \A q : q = frames'[t] => stack'[t] = StackOf(Opens(q)) /\ usingPim'[t] = SiteStackOf(Opens(q))
    BY <1>15, <2>2, <2>6, <2>9
  <2> QED
    BY <1>2, <1>16, <1>18, <2>9, <2>10, OneFollows
<1> QED
  BY <1>19, <1>20

\* VTune has a runtime of its own.
LEMMA VTuneStep ==
  ASSUME ShapeInv, StacksInv, NEW t \in Threads, VTuneAnnotationCall(t)
  PROVE  ShapeInv' /\ StacksInv'
<1>1. PICK s : s = frames[t]
  OBVIOUS
<1>2. /\ s \in Seq(Frames) /\ s # << >> /\ build \in Builds /\ code = RunOnModule
      /\ build' = build /\ code' = code /\ unwound' = unwound
      /\ stack' = stack /\ usingPim' = usingPim /\ aborted' = aborted
  BY <1>1 DEF ShapeInv, VTuneAnnotationCall, IsAt, Annotated, vars, callVars
<1>3. PICK f \in Frames : f = Last(s)
  BY <1>2, TopFacts
<1>4. InstrAt(f).op \in {"start", "end"} /\ ForVTune(build.pass)
  BY <1>1, <1>3 DEF VTuneAnnotationCall, IsAt
<1>5. PICK g \in Frames : g = Past(f)
  BY <1>2, <1>4, FrameFacts
<1>6. MoveTo(t, g)
  BY <1>1, <1>3, <1>5 DEF VTuneAnnotationCall, Annotated
<1>7. ShapeInv'
  BY <1>1, <1>2, <1>6, MoveToFacts
<1> QED
  BY <1>2, <1>4, <1>7, NoneFollows

\* At the beginning nothing is open.
LEMMA ProgramStart ==
  ASSUME ProgramInit
  PROVE  ShapeInv /\ StacksInv
<1>1. build \in Builds /\ code = RunOnModule /\ ~aborted /\ ~unwound
  BY DEF ProgramInit, Init
<1>2. ASSUME NEW t \in Threads
      PROVE  /\ frames[t] \in Seq(Frames) /\ Len(frames[t]) = 1
             /\ Opens(frames[t]) = << >>
  <2>1. PICK b : b = Entry[StartFunction[t]]
    OBVIOUS
  <2>2. b \in Blocks /\ b = Entry[FunctionOf[b]]
    BY <2>1, ProgramAssumption
  <2>3. PICK g \in Frames : g = At(b) /\ Opened(g) = << >>
    BY <1>1, <2>2, EntryFacts
  <2>4. frames[t] = <<g>>
    BY <2>1, <2>3 DEF ProgramInit, At
  <2>5. << >> \in Seq(Frames) /\ Append(<< >>, g) = <<g>>
    BY EmptySeq
  <2>6. Opens(<< >>) \in Seq(AnnotationCalls) /\ Opens(Append(<< >>, g)) = Opens(<< >>) \o << >>
    BY <1>1, <2>3, <2>5, OpensAppend
  <2>7. Opens(<<g>>) = << >>
    BY <2>5, <2>6, OpensEmpty, ConcatEmptySeq
  <2> QED
    BY <2>4, <2>7
<1>3. ShapeInv
  <2>1. frames \in [Threads -> Seq(Frames)]
    BY <1>2 DEF ProgramInit
  <2>2. \A t \in Threads : \A i \in 1 .. Len(frames[t]) - 1 : Waits(frames[t][i])
    <3>1. \A t \in Threads : Len(frames[t]) = 1
      BY <1>2
    <3>2. \A i \in 1 .. 1 - 1 : FALSE
      OBVIOUS
    <3> QED
      BY <3>1, <3>2
  <2> QED
    BY <1>1, <2>1, <2>2 DEF ShapeInv
<1>4. StackOf(<< >>) = <<GLOBAL_BBLHASH>> /\ SiteStackOf(<< >>) = <<FALSE>>
  <2>1. [i \in DOMAIN << >> |-> (<< >>)[i].key] = << >>
    OBVIOUS
  <2>2. SitesOf(<< >>) = << >>
    <3>1. [i \in DOMAIN << >> |-> IF (<< >>)[i].site = "none" THEN << >> ELSE <<(<< >>)[i].site = "PIM">>] = << >>
      OBVIOUS
    <3>2. FlattenSeq(<< >>) = << >>
      BY FlattenIs
    <3> QED
      BY <3>1, <3>2 DEF SitesOf
  <2>3. \A x : <<x>> \o << >> = <<x>>
    OBVIOUS
  <2> QED
    BY <2>1, <2>2, <2>3 DEF StackOf, SiteStackOf
<1>5. \A t \in Threads : Follows(t)
  BY <1>2, <1>4 DEF Follows, ProgramInit, Init
<1>6. stack = [t \in Threads |-> stack[t]] /\ usingPim = [t \in Threads |-> usingPim[t]]
  BY DEF ProgramInit, Init
<1> QED
  BY <1>1, <1>3, <1>5, <1>6 DEF StacksInv

\* Every step of every thread keeps both, whatever it runs.
LEMMA ProgramStep ==
  ASSUME ShapeInv, StacksInv, [ProgramNext]_allVars
  PROVE  ShapeInv' /\ StacksInv'
<1>1. CASE ProgramNext
  <2>1. PICK t \in Threads : ThreadStep(t)
    BY <1>1 DEF ProgramNext
  <2>2. CASE StartAnnotation(t)
    BY <2>2, StartStep
  <2>3. CASE EndAnnotation(t)
    BY <2>3, EndStep
  <2>4. CASE VTuneAnnotationCall(t)
    BY <2>4, VTuneStep
  <2>5. CASE Work(t) \/ Branch(t) \/ Call(t) \/ Return(t) \/ Throw(t)
    <3>1. /\ ShapeInv'
          /\ ~unwound' => \A u \in Threads : \A s : s = frames'[u] => Opens(s) = Opens(frames[u])
      BY <2>5, SilentStep
    <3>2. build' = build /\ aborted' = aborted /\ stack' = stack /\ usingPim' = usingPim
      BY <2>5 DEF Work, Branch, Call, Return, Throw, vars, callVars
    <3>3. unwound => unwound'
      <4>1. CASE Work(t) \/ Branch(t) \/ Call(t) \/ Return(t)
        BY <4>1 DEF Work, Branch, Call, Return
      <4>2. CASE Throw(t)
        BY <4>2, Zenon DEF Throw
      <4> QED
        BY <2>5, <4>1, <4>2
    <3> QED
      BY <3>1, <3>2, <3>3, NoneFollows
  <2> QED
    BY <2>1, <2>2, <2>3, <2>4, <2>5 DEF ThreadStep
<1>2. CASE UNCHANGED allVars
  <2>1. /\ frames' = frames /\ build' = build /\ code' = code /\ unwound' = unwound
        /\ aborted' = aborted /\ stack' = stack /\ usingPim' = usingPim
    BY <1>2 DEF allVars, vars, callVars, programVars
  <2>2. ShapeInv'
    <3>1. \A t \in Threads : \A s : s = frames'[t] => \A i \in 1 .. Len(s) - 1 : Waits(s[i])
      BY <2>1 DEF ShapeInv
    <3>2. frames' \in [Threads -> Seq(Frames)]
      BY <2>1 DEF ShapeInv
    <3> QED
      BY <2>1, <3>1, <3>2, ShapeKept
  <2> QED
    BY <2>1, <2>2, NoneFollows
<1> QED
  BY <1>1, <1>2

\* Every state of a program that runs has both.
THEOREM ProgramInvariant == ProgramSpec => [](ShapeInv /\ StacksInv)
<1>1. ProgramInit => ShapeInv /\ StacksInv
  BY ProgramStart
<1>2. ShapeInv /\ StacksInv /\ [ProgramNext]_allVars => (ShapeInv /\ StacksInv)'
  BY ProgramStep
<1> QED
  BY <1>1, <1>2, PTL DEF ProgramSpec

\* The assertions of BBLEnd and OffloadEnd (Stats.h:229, 258) hold in every
\* annotated program from which no exception has taken what was started.
THEOREM AbortsTheorem == ProgramSpec => []AbortsOnlyAfterUnwind
<1>1. ShapeInv /\ StacksInv => AbortsOnlyAfterUnwind
  BY DEF StacksInv, AbortsOnlyAfterUnwind
<1> QED
  BY <1>1, ProgramInvariant, PTL

\* A thread that executes code of its own has opened what its frames are in.
LEMMA OpenCallsAreOpens ==
  ASSUME ShapeInv, NEW t \in Threads, ~aborted, ~IsAt(t, "start"), ~IsAt(t, "end")
  PROVE  OpenCalls(t) = Opens(frames[t])
<1>1. PICK s : s = frames[t]
  OBVIOUS
<1>2. /\ s \in Seq(Frames) /\ build \in Builds /\ code = RunOnModule
      /\ \A i \in 1 .. Len(s) - 1 : Waits(s[i])
  BY <1>1 DEF ShapeInv
<1>3. PICK n \in Nat : n = Len(s)
  BY <1>2
<1>4. DOMAIN s = 1 .. n /\ \A i \in 1 .. n : s[i] \in Frames
  BY <1>2, <1>3
<1>5. ASSUME NEW i \in 1 .. n PROVE Opened(s[i]) = OpenIn(s[i])
  <2>1. PICK f \in Frames : f = s[i]
    BY <1>4
  <2>2. InstrAt(f).op \notin {"start", "end"}
    <3>1. CASE i \in 1 .. n - 1
      <4>1. Waits(f)
        BY <1>2, <1>3, <2>1, <3>1
      <4> QED
        BY <4>1 DEF Waits
    <3>2. CASE i = n
      <4>1. f = Last(s) /\ s # << >>
        BY <1>2, <1>3, <2>1, <3>2 DEF Last
      <4> QED
        BY <1>1, <4>1 DEF IsAt
    <3> QED
      BY <3>1, <3>2
  <2> QED
    BY <1>2, <2>1, <2>2, FrameFacts
<1>6. [i \in DOMAIN s |-> OpenIn(s[i])] = [i \in DOMAIN s |-> Opened(s[i])]
  BY <1>4, <1>5
<1> QED
  BY <1>1, <1>6 DEF OpenCalls, Opens

\* The collector's stacks are those of the calls the program is in.
THEOREM OpenCallsTheorem == ProgramSpec => []OpenCallsFollowProgram
<1>1. ShapeInv /\ StacksInv => OpenCallsFollowProgram
  <2> SUFFICES ASSUME ShapeInv, StacksInv, NEW t \in Threads,
                      ~ForVTune(build.pass), ~unwound, ~IsAt(t, "start"), ~IsAt(t, "end"),
                      NEW open, open = OpenCalls(t)
               PROVE  /\ stack[t] = <<GLOBAL_BBLHASH>> \o [i \in DOMAIN open |-> open[i].key]
                      /\ usingPim[t] = <<FALSE>> \o SitesOf(open)
    BY DEF OpenCallsFollowProgram
  <2>1. ~aborted /\ Follows(t)
    BY DEF StacksInv
  <2>2. open = Opens(frames[t])
    BY <2>1, OpenCallsAreOpens
  <2> QED
    BY <2>1, <2>2 DEF Follows, StackOf, SiteStackOf
<1> QED
  BY <1>1, ProgramInvariant, PTL

-----------------------------------------------------------------------------
(* The domains of VTune. *)

\* The frames that some calls begin.
Begins(calls) == {calls[i].key : i \in {i \in DOMAIN calls : calls[i].site # "region"}}

\* One more call begins its frame too, unless it is the call of a region.
LEMMA BeginsAppend ==
  ASSUME NEW o \in Seq(AnnotationCalls), NEW c \in AnnotationCalls
  PROVE  Begins(Append(o, c)) = Begins(o) \cup {k \in {c.key} : c.site # "region"}
<1>1. PICK n \in Nat : n = Len(o)
  OBVIOUS
<1>2. PICK p : p = Append(o, c)
  OBVIOUS
<1>3. DOMAIN o = 1 .. n /\ DOMAIN p = 1 .. n + 1 /\ (\A i \in 1 .. n : p[i] = o[i]) /\ p[n + 1] = c
  BY <1>1, <1>2
<1>4. \A i : i \in 1 .. n + 1 <=> i \in 1 .. n \/ i = n + 1
  OBVIOUS
<1>5. \A k : k \in Begins(p) <=> \E i \in 1 .. n + 1 : p[i].site # "region" /\ p[i].key = k
  BY <1>3 DEF Begins
<1>6. \A k : k \in Begins(o) <=> \E i \in 1 .. n : o[i].site # "region" /\ o[i].key = k
  BY <1>3 DEF Begins
<1> HIDE DEF Begins
<1>7. \A k : k \in Begins(p) <=> k \in Begins(o) \/ (c.site # "region" /\ c.key = k)
  BY <1>3, <1>4, <1>5, <1>6
<1> QED
  BY <1>2, <1>7

\* Every frame that a thread has begun and not ended is of one of these domains.
Known(s, ds) == \A i \in DOMAIN s : Begins(Opened(s[i])) \subseteq ds

DomainsInv ==
  /\ DomainsAreEnabled
  /\ ForVTune(build.pass) =>
       /\ \A t \in Threads : Known(frames[t], DOMAIN domains)
       /\ prev[1] = "FRAME_BEGIN" => prev[2] \in DOMAIN domains

\* What the runtime makes of a call.
LEMMA RuntimeFacts ==
  ASSUME NEW mode, NEW k, PIMProfVTuneAnnotation(mode, k), DomainsAreEnabled,
         prev[1] = "FRAME_BEGIN" => prev[2] \in DOMAIN domains,
         mode = "FRAME_END" => k \in DOMAIN domains
  PROVE  /\ DomainsAreEnabled'
         /\ prev'[1] = "FRAME_BEGIN" => prev'[2] \in DOMAIN domains'
         /\ DOMAIN domains \subseteq DOMAIN domains'
         /\ mode = "FRAME_BEGIN" => k \in DOMAIN domains'
<1>1. ASSUME NEW flags, domains' = DomainsWith(k, flags)
      PROVE  /\ DOMAIN domains' = DOMAIN domains \cup {k}
             /\ \A h \in DOMAIN domains : domains'[h] = domains[h]
             /\ k \notin DOMAIN domains => domains'[k] = flags
  BY <1>1 DEF DomainsWith
<1>2. CASE IsRepeat(mode, k) /\ UNCHANGED runtimeVars
  BY <1>2 DEF runtimeVars, IsRepeat, DomainsAreEnabled
<1>3. CASE prev' = <<mode, k>> /\ mode = "FRAME_BEGIN" /\ Frame(k, 1, 1)
  <2>1. domains' = DomainsWith(k, 1)
    BY <1>3 DEF Frame
  <2>2. /\ DOMAIN domains' = DOMAIN domains \cup {k}
        /\ \A h \in DOMAIN domains : domains'[h] = domains[h]
        /\ k \notin DOMAIN domains => domains'[k] = 1
    BY <1>1, <2>1
  <2> QED
    BY <1>3, <2>2 DEF DomainsAreEnabled
<1>4. CASE prev' = <<mode, k>> /\ mode = "FRAME_END" /\ Frame(k, 0, -1)
  <2>1. domains' = DomainsWith(k, 0)
    BY <1>4 DEF Frame
  <2>2. /\ DOMAIN domains' = DOMAIN domains \cup {k}
        /\ \A h \in DOMAIN domains : domains'[h] = domains[h]
    BY <1>1, <2>1
  <2> QED
    BY <1>4, <2>2 DEF DomainsAreEnabled
<1>5. CASE prev' = <<mode, k>> /\ mode \in {"RESUME", "DETACH"} /\ UNCHANGED <<domains, openFrames>>
  BY <1>5 DEF DomainsAreEnabled
<1> QED
  BY <1>2, <1>3, <1>4, <1>5 DEF PIMProfVTuneAnnotation

\* To know the frames of a thread after a step.
LEMMA KnownNext ==
  ASSUME build' = build, NEW t, NEW ds, ds = DOMAIN domains', NEW s, s = frames'[t], Known(s, ds)
  PROVE  Known(frames[t], DOMAIN domains)'
<1>1. ASSUME NEW i, NEW f, f = frames'[t][i] PROVE Begins(Opened(frames[t][i]))' = Begins(Opened(f))
  <2>1. Opened(frames[t][i])' = Opened(f)
    BY <1>1 DEF Opened, OpenedAt, Begun, FunctionCallsOpen, BlockCallsOpen, ToBlockStarts, ToBody,
                ToBlockEnds, ToFunctionEnds, ToLast, Outer, FunctionCalls, BlockCalls
  <2> QED
    BY <2>1 DEF Begins
<1>2. ASSUME NEW i \in DOMAIN s PROVE Begins(Opened(frames[t][i]))' \subseteq ds
  <2>1. PICK f : f = s[i]
    OBVIOUS
  <2> QED
    BY <1>1, <2>1 DEF Known
<1>3. (\A i \in DOMAIN frames[t] : Begins(Opened(frames[t][i])) \subseteq DOMAIN domains)'
  BY <1>2
<1> QED
  BY <1>3 DEF Known

\* A thread that moves to a place whose domains exist.
LEMMA MoveIsKnown ==
  ASSUME ShapeInv, NEW t \in Threads, NEW m, NEW g, Moves(t, m, g),
         NEW ds, NEW more, ds \subseteq more, Begins(Opened(g)) \subseteq more,
         \A u \in Threads : Known(frames[u], ds)
  PROVE  \A u \in Threads : \A s : s = frames'[u] => Known(s, more)
<1>1. PICK s : s = frames[t]
  OBVIOUS
<1>2. s \in Seq(Frames) /\ frames \in [Threads -> Seq(Frames)]
  BY <1>1 DEF ShapeInv
<1>3. m \in 0 .. Len(s) /\ g \in Frames /\ frames' = [frames EXCEPT ![t] = Append(SubSeq(s, 1, m), g)]
  BY <1>1 DEF Moves
<1>4. PICK r : r = Append(SubSeq(s, 1, m), g)
  OBVIOUS
<1>5. r \in Seq(Frames) /\ Len(r) = m + 1 /\ (\A i \in 1 .. m : r[i] = s[i]) /\ r[m + 1] = g
  BY <1>2, <1>3, <1>4, CutFacts
<1>6. m \in Nat /\ Len(s) \in Nat /\ m <= Len(s) /\ DOMAIN r = 1 .. m + 1 /\ DOMAIN s = 1 .. Len(s)
  BY <1>2, <1>3, <1>5
<1>7. \A i \in 1 .. m + 1 : i = m + 1 \/ (i \in 1 .. m /\ i \in 1 .. Len(s))
  BY <1>6
<1>8. Known(r, more)
  BY <1>1, <1>5, <1>6, <1>7 DEF Known
<1>9. \A u \in Threads \ {t} : Known(frames[u], more)
  BY DEF Known
<1>10. frames'[t] = r /\ \A u \in Threads \ {t} : frames'[u] = frames[u]
  BY <1>2, <1>3, <1>4
<1> QED
  BY <1>8, <1>9, <1>10

\* A begin makes the domain it needs; an end finds it.
LEMMA VTuneDomainStep ==
  ASSUME ShapeInv, DomainsInv, NEW t \in Threads, VTuneAnnotationCall(t)
  PROVE  DomainsInv'
<1>1. PICK s : s = frames[t]
  OBVIOUS
<1>2. /\ s \in Seq(Frames) /\ s # << >> /\ build \in Builds /\ code = RunOnModule
      /\ build' = build /\ code' = code
  BY <1>1 DEF ShapeInv, VTuneAnnotationCall, IsAt, Annotated
<1>3. PICK f \in Frames : f = Last(s)
  BY <1>2, TopFacts
<1>4. PICK op : op = InstrAt(f).op
  OBVIOUS
<1>5. op \in {"start", "end"} /\ ForVTune(build.pass)
  BY <1>1, <1>3, <1>4 DEF VTuneAnnotationCall, IsAt
<1>6. PICK c \in AnnotationCalls : c = CallOf(InstrAt(f))
  BY <1>2, <1>4, <1>5, FrameFacts
<1>7. PICK g \in Frames : g = Past(f)
  BY <1>2, <1>4, <1>5, FrameFacts
<1>8. MoveTo(t, g)
  BY <1>1, <1>3, <1>7 DEF VTuneAnnotationCall, Annotated
<1>9. PICK m : m = Len(s) - 1
  OBVIOUS
<1>10. Moves(t, m, g)
  BY <1>1, <1>2, <1>8, <1>9, MoveToFacts
<1>11. PICK o \in Seq(AnnotationCalls) : o = Opened(f)
  BY <1>2, FrameFacts
<1>12. PICK p \in Seq(AnnotationCalls) : p = Opened(g)
  BY <1>2, FrameFacts
<1>13. IF op = "start" THEN p = Append(o, c) ELSE o = Append(p, c)
  BY <1>2, <1>4, <1>5, <1>6, <1>7, <1>11, <1>12, FrameFacts
<1>14. Begins(o) \subseteq DOMAIN domains /\ \A u \in Threads : Known(frames[u], DOMAIN domains)
  <2>1. Len(s) \in DOMAIN s /\ f = s[Len(s)]
    BY <1>2, <1>3, TopFacts
  <2>2. \A u \in Threads : Known(frames[u], DOMAIN domains)
    BY <1>5 DEF DomainsInv
  <2> QED
    BY <1>1, <1>11, <2>1, <2>2 DEF Known
<1>15. PICK mode : mode = VTuneMode(InstrAt(f))
  OBVIOUS
<1>16. PIMProfVTuneAnnotation(mode, c.key)
  BY <1>1, <1>3, <1>6, <1>15 DEF VTuneAnnotationCall, Here, CallOf
<1>17. /\ mode = "FRAME_BEGIN" <=> op = "start" /\ c.site # "region"
       /\ mode = "FRAME_END" <=> op = "end" /\ c.site # "region"
  BY <1>4, <1>5, <1>6, <1>15 DEF VTuneMode, CallOf
<1>18. mode = "FRAME_END" => c.key \in DOMAIN domains
  BY <1>13, <1>14, <1>17, BeginsAppend
<1>19. DomainsAreEnabled /\ (prev[1] = "FRAME_BEGIN" => prev[2] \in DOMAIN domains)
  BY <1>5 DEF DomainsInv
<1>20. /\ DomainsAreEnabled'
       /\ prev'[1] = "FRAME_BEGIN" => prev'[2] \in DOMAIN domains'
       /\ DOMAIN domains \subseteq DOMAIN domains'
       /\ mode = "FRAME_BEGIN" => c.key \in DOMAIN domains'
  BY <1>16, <1>18, <1>19, RuntimeFacts
<1>21. PICK ds : ds = DOMAIN domains'
  OBVIOUS
<1>22. Begins(Opened(g)) \subseteq ds
  <2>1. CASE op = "start"
    <3>1. Begins(p) = Begins(o) \cup {k \in {c.key} : c.site # "region"}
      BY <1>13, <2>1, BeginsAppend
    <3>2. c.site # "region" => c.key \in ds
      BY <1>17, <1>20, <1>21, <2>1
    <3>3. Begins(o) \subseteq ds
      BY <1>14, <1>20, <1>21
    <3> QED
      BY <1>12, <3>1, <3>2, <3>3
  <2>2. CASE op = "end"
    <3>1. Begins(o) = Begins(p) \cup {k \in {c.key} : c.site # "region"}
      BY <1>13, <2>2, BeginsAppend
    <3> QED
      BY <1>12, <1>14, <1>20, <1>21, <3>1
  <2> QED
    BY <1>5, <2>1, <2>2
<1>23. \A u \in Threads : \A q : q = frames'[u] => Known(q, ds)
  BY <1>10, <1>14, <1>20, <1>21, <1>22, MoveIsKnown
<1>24. \A u \in Threads : Known(frames[u], DOMAIN domains)'
  BY <1>2, <1>21, <1>23, KnownNext
<1> QED
  BY <1>20, <1>24 DEF DomainsInv

\* Nothing that is open without a domain comes from anything else.
LEMMA SilentDomainStep ==
  ASSUME ShapeInv, DomainsInv, NEW t \in Threads, build' = build, Settles(t), UNCHANGED runtimeVars
  PROVE  DomainsInv'
<1>1. domains' = domains /\ prev' = prev
  BY DEF runtimeVars
<1>2. DomainsAreEnabled' /\ build' = build
  BY <1>1 DEF DomainsAreEnabled, DomainsInv
<1>3. ASSUME ForVTune(build.pass)
      PROVE  \A u \in Threads : Known(frames[u], DOMAIN domains)'
  <2>1. PICK ds : ds = DOMAIN domains
    OBVIOUS
  <2>2. \A u \in Threads : Known(frames[u], ds)
    BY <1>3, <2>1 DEF DomainsInv
  <2>3. \A u \in Threads : \A q : q = frames'[u] => Known(q, ds)
    <3>1. CASE \A u \in Threads : frames'[u] \in {frames[u], << >>}
      <4>1. Known(<< >>, ds)
        BY DEF Known
      <4> QED
        BY <2>2, <3>1, <4>1
    <3>2. CASE \E m, g : Moves(t, m, g) /\ Continues(frames[t], m, g)
      <4>1. PICK m, g : Moves(t, m, g) /\ Continues(frames[t], m, g)
        BY <3>2
      <4>2. PICK s \in Seq(Frames) : s = frames[t]
        BY DEF ShapeInv
      <4>3. m \in 0 .. Len(s)
        BY <4>1, <4>2 DEF Moves
      <4>4. Begins(<< >>) = {}
        BY DEF Begins
      <4>5. Begins(Opened(g)) \subseteq ds
        <5>1. CASE m < Len(s)
          <6>1. m + 1 \in DOMAIN s
            BY <4>3, <5>1
          <6>2. Opened(g) = Opened(s[m + 1])
            BY <4>1, <4>2, <5>1 DEF Continues
          <6> QED
            BY <2>2, <4>2, <6>1, <6>2 DEF Known
        <5>2. CASE ~(m < Len(s))
          <6>1. Opened(g) = << >>
            BY <4>1, <4>2, <5>2 DEF Continues
          <6> QED
            BY <4>4, <6>1
        <5> QED
          BY <5>1, <5>2
      <4> QED
        BY <2>2, <4>1, <4>5, MoveIsKnown
    <3> QED
      BY <3>1, <3>2 DEF Settles
  <2> QED
    BY <1>1, <2>1, <2>3, KnownNext
<1>4. (prev[1] = "FRAME_BEGIN" => prev[2] \in DOMAIN domains)' \/ ~ForVTune(build.pass)
  BY <1>1 DEF DomainsInv
<1> QED
  BY <1>2, <1>3, <1>4 DEF DomainsInv, ForVTune

\* No thread meets a frame without its domain, or a domain without flags.
LEMMA DomainStep ==
  ASSUME ShapeInv, DomainsInv, [ProgramNext]_allVars
  PROVE  DomainsInv'
<1>1. CASE ProgramNext
  <2>1. PICK t \in Threads : ThreadStep(t)
    BY <1>1 DEF ProgramNext
  <2>2. CASE StartAnnotation(t) \/ EndAnnotation(t)
    <3>1. domains' = domains /\ build' = build /\ ~ForVTune(build.pass)
      BY <2>2 DEF StartAnnotation, EndAnnotation, Annotated, runtimeVars
    <3> QED
      BY <3>1 DEF DomainsInv, DomainsAreEnabled, ForVTune
  <2>3. CASE VTuneAnnotationCall(t)
    BY <2>3, VTuneDomainStep
  <2>4. CASE Work(t) \/ Branch(t) \/ Call(t) \/ Return(t) \/ Throw(t)
    <3>1. Settles(t)
      BY <2>4, SilentStep
    <3>2. build' = build /\ UNCHANGED runtimeVars
      BY <2>4 DEF Work, Branch, Call, Return, Throw
    <3> QED
      BY <3>1, <3>2, SilentDomainStep
  <2> QED
    BY <2>1, <2>2, <2>3, <2>4 DEF ThreadStep
<1>2. CASE UNCHANGED allVars
  <2>1. frames' = frames /\ build' = build /\ domains' = domains /\ prev' = prev
    BY <1>2 DEF allVars, programVars, runtimeVars
  <2>2. ASSUME NEW u \in Threads, ForVTune(build.pass) PROVE Known(frames[u], DOMAIN domains)'
    <3>1. PICK ds : ds = DOMAIN domains
      OBVIOUS
    <3>2. PICK s : s = frames[u]
      OBVIOUS
    <3>3. Known(s, ds)
      BY <2>2, <3>1, <3>2 DEF DomainsInv
    <3> QED
      BY <2>1, <3>1, <3>2, <3>3, KnownNext
  <2> QED
    BY <2>1, <2>2 DEF DomainsInv, DomainsAreEnabled, ForVTune
<1> QED
  BY <1>1, <1>2

\* No frame of an annotated program is lost to VTune for want of its domain's
\* flags (PIMProfAnnotation.cpp:29), also not when exceptions or several threads
\* mix up the order of the calls.
THEOREM DomainsTheorem == ProgramSpec => []DomainsAreEnabled
<1>1. ProgramInit => DomainsInv
  <2> SUFFICES ASSUME ProgramInit PROVE DomainsInv
    OBVIOUS
  <2>1. domains = << >> /\ prev[1] = "none"
    BY DEF ProgramInit, RuntimeInit, NoCall
  <2>2. DomainsAreEnabled
    BY <2>1 DEF DomainsAreEnabled
  <2>3. ASSUME NEW t \in Threads PROVE Known(frames[t], DOMAIN domains)
    <3>1. build \in Builds /\ code = RunOnModule
      BY DEF ProgramInit
    <3>2. PICK b : b = Entry[StartFunction[t]]
      OBVIOUS
    <3>3. b \in Blocks /\ b = Entry[FunctionOf[b]]
      BY <3>2, ProgramAssumption
    <3>4. PICK g : g = At(b) /\ Opened(g) = << >>
      BY <3>1, <3>3, EntryFacts
    <3>5. frames[t] = <<g>>
      BY <3>2, <3>4 DEF ProgramInit, At
    <3>6. Begins(<< >>) = {}
      BY DEF Begins
    <3>7. DOMAIN <<g>> = {1} /\ <<g>>[1] = g
      OBVIOUS
    <3> QED
      BY <3>4, <3>5, <3>6, <3>7 DEF Known
  <2> QED
    BY <2>1, <2>2, <2>3 DEF DomainsInv
<1>2. ShapeInv /\ DomainsInv /\ [ProgramNext]_allVars => DomainsInv'
  BY DomainStep
<1>3. DomainsInv => DomainsAreEnabled
  BY DEF DomainsInv
<1> QED
  BY <1>1, <1>2, <1>3, ProgramInvariant, PTL DEF ProgramSpec

-----------------------------------------------------------------------------
(* The frames VTune is told of. *)

\* The key of the one frame that a function activation may have open.
KeyOf(frame) == IF build.pass = "VTUNE" THEN BblKey[frame.block] ELSE FuncKey[FunctionOf[frame.block]]
RegionCall == [key |-> MainKey, site |-> "region"]
FrameCall(frame) == [key |-> KeyOf(frame), site |-> "none"]
VTuneCalls(frame) ==
  {<< >>, <<RegionCall>>, <<RegionCall, FrameCall(frame)>>, <<FrameCall(frame)>>}

\* Sequences of at most three elements.
LEMMA ShortSeqs ==
  ASSUME NEW S, NEW x \in S, NEW y \in S, NEW z \in S
  PROVE  /\ <<x>> \o <<y>> = <<x, y>> /\ << >> \o << >> = << >>
         /\ << >> \o <<x>> = <<x>> /\ <<x>> \o << >> = <<x>> /\ <<x, y>> \o << >> = <<x, y>>
         /\ Append(<<x>>, y) = <<x, y>> /\ Append(<<x, y>>, z) = <<x, y, z>>
         /\ SubSeq(<<x>>, 1, 1) = <<x>> /\ SubSeq(<<x, y>>, 1, 2) = <<x, y>>
         /\ SubSeq(<<x, y>>, 1, 1) = <<x>>
<1>1. /\ << >> \in Seq(S) /\ <<x>> \in Seq(S) /\ <<y>> \in Seq(S) /\ <<x, y>> \in Seq(S)
      /\ <<x, y, z>> \in Seq(S)
  OBVIOUS
<1>2. Len(<<x>>) = 1 /\ Len(<<y>>) = 1 /\ Len(<<x, y>>) = 2 /\ Len(<<x, y, z>>) = 3
  OBVIOUS
<1>3. Append(<<x>>, y) = <<x, y>>
  <2>1. Append(<<x>>, y) \in Seq(S) /\ Len(Append(<<x>>, y)) = 2
    BY <1>1, <1>2
  <2>2. \A i \in 1 .. 2 : Append(<<x>>, y)[i] = <<x, y>>[i]
    BY <1>1, <1>2
  <2> QED
    BY <1>1, <1>2, <2>1, <2>2, SeqEqual
<1>4. Append(<<x, y>>, z) = <<x, y, z>>
  <2>1. Append(<<x, y>>, z) \in Seq(S) /\ Len(Append(<<x, y>>, z)) = 3
    BY <1>1, <1>2
  <2>2. \A i \in 1 .. 3 : Append(<<x, y>>, z)[i] = <<x, y, z>>[i]
    BY <1>1, <1>2
  <2> QED
    BY <1>1, <1>2, <2>1, <2>2, SeqEqual
<1>5. <<x>> \o <<y>> = <<x, y>>
  <2>1. <<x>> \o <<y>> = Append(<<x>>, y)
    BY <1>1, AppendIsConcat
  <2> QED
    BY <1>3, <2>1
<1>6. /\ << >> \o << >> = << >> /\ << >> \o <<x>> = <<x>> /\ <<x>> \o << >> = <<x>>
      /\ <<x, y>> \o << >> = <<x, y>>
  BY <1>1, ConcatEmptySeq
<1>7. SubSeq(<<x>>, 1, 1) = <<x>> /\ SubSeq(<<x, y>>, 1, 2) = <<x, y>>
  BY <1>1, <1>2, SubSeqFull
<1>8. SubSeq(<<x, y>>, 1, 1) = <<x>>
  <2>1. PICK r \in Seq(S) : r = <<x, y>>
    BY <1>1
  <2>2. 1 \in 0 .. Len(r) /\ r[1] = x
    BY <2>1
  <2>3. /\ SubSeq(r, 1, 1) \in Seq(S) /\ Len(SubSeq(r, 1, 1)) = 1
        /\ \A i \in 1 .. 1 : SubSeq(r, 1, 1)[i] = r[i]
    BY <2>2, SubSeqPrefix
  <2>4. \A i \in 1 .. 1 : SubSeq(r, 1, 1)[i] = <<x>>[i]
    BY <2>2, <2>3
  <2> QED
    BY <1>1, <1>2, <2>1, <2>3, <2>4, SeqEqual
<1> QED
  BY <1>3, <1>4, <1>5, <1>6, <1>7, <1>8

\* What has begun of at most two calls.
LEMMA ShortBegun ==
  /\ \A m \in 0 .. Len(<< >>) : SubSeq(<< >>, 1, m) = << >>
  /\ \A x : \A m \in 0 .. Len(<<x>>) : SubSeq(<<x>>, 1, m) \in {<< >>, <<x>>}
  /\ \A x, y : \A m \in 0 .. Len(<<x, y>>) : SubSeq(<<x, y>>, 1, m) \in {<< >>, <<x>>, <<x, y>>}
<1>1. \A m \in 0 .. Len(<< >>) : SubSeq(<< >>, 1, m) = << >>
  <2>1. \A m \in 0 .. Len(<< >>) : m = 0
    OBVIOUS
  <2> QED
    BY <2>1, SubSeqEmpty
<1>2. ASSUME NEW x, NEW m \in 0 .. Len(<<x>>) PROVE SubSeq(<<x>>, 1, m) \in {<< >>, <<x>>}
  <2>1. m = 0 \/ m = 1
    OBVIOUS
  <2>2. SubSeq(<<x>>, 1, 0) = << >>
    BY SubSeqEmpty
  <2>3. SubSeq(<<x>>, 1, 1) = <<x>>
    <3>1. x \in {x}
      OBVIOUS
    <3> QED
      BY <3>1, ShortSeqs
  <2> QED
    BY <2>1, <2>2, <2>3
<1>3. ASSUME NEW x, NEW y, NEW m \in 0 .. Len(<<x, y>>)
      PROVE  SubSeq(<<x, y>>, 1, m) \in {<< >>, <<x>>, <<x, y>>}
  <2>1. m = 0 \/ m = 1 \/ m = 2
    OBVIOUS
  <2>2. SubSeq(<<x, y>>, 1, 0) = << >>
    BY SubSeqEmpty
  <2>3. SubSeq(<<x, y>>, 1, 1) = <<x>> /\ SubSeq(<<x, y>>, 1, 2) = <<x, y>>
    <3>1. x \in {x, y} /\ y \in {x, y}
      OBVIOUS
    <3> QED
      BY <3>1, ShortSeqs
  <2> QED
    BY <2>1, <2>2, <2>3
<1> QED
  BY <1>1, <1>2, <1>3

\* In a binary for VTune a function activation has at most one frame open, and
\* main may have the region around it.
LEMMA VTuneOpened ==
  ASSUME build \in Builds, code = RunOnModule, ForVTune(build.pass), NEW f \in Frames
  PROVE  Opened(f) \in VTuneCalls(f)
<1>1. PICK b \in Blocks : b = f.block
  BY DEF Frames
<1>2. PICK pc \in 1 .. Len(RunOnModule[b]) : pc = f.pc
  BY <1>1 DEF Frames
<1>3. PICK x : x = Outer(b)
  OBVIOUS
<1>4. PICK y : y = BlockCalls(b)
  OBVIOUS
<1>5. Opened(f) \in SomeBegun(x, y)
  <2>1. PlaceFacts(b, pc, RunOnModule[b][pc])
    BY OpenedFacts
  <2> QED
    BY <1>1, <1>2, <1>3, <1>4, <2>1 DEF PlaceFacts, Opened
<1>6. PICK m \in 0 .. Len(x), k \in 0 .. Len(y) : Opened(f) = SubSeq(x, 1, m) \o SubSeq(y, 1, k)
  BY <1>5 DEF SomeBegun, Begun
<1>7. PICK r : r = RegionCall
  OBVIOUS
<1>8. PICK c : c = FrameCall(f)
  OBVIOUS
<1>9. /\ << >> \o << >> = << >> /\ << >> \o <<c>> = <<c>> /\ <<r>> \o << >> = <<r>>
      /\ <<r>> \o <<c>> = <<r, c>> /\ <<c>> \o << >> = <<c>> /\ <<r, c>> \o << >> = <<r, c>>
  <2>1. r \in {r, c} /\ c \in {r, c}
    OBVIOUS
  <2> QED
    BY <2>1, ShortSeqs
<1>10. CASE build.pass = "VTUNE"
  <2>1. y = <<c>>
    BY <1>1, <1>4, <1>8, <1>10 DEF BlockCalls, Plain, FrameCall, KeyOf
  <2>2. x \in {<< >>, <<r>>}
    BY <1>3, <1>7, <1>10 DEF Outer, FunctionCalls, Region, RegionCall
  <2>3. SubSeq(y, 1, k) \in {<< >>, <<c>>}
    BY <1>6, <2>1, ShortBegun
  <2>4. SubSeq(x, 1, m) \in {<< >>, <<r>>}
    BY <1>6, <2>2, ShortBegun
  <2> QED
    BY <1>6, <1>7, <1>8, <1>9, <2>3, <2>4 DEF VTuneCalls
<1>11. CASE build.pass = "VTUNE2"
  <2>1. y = << >>
    BY <1>4, <1>11 DEF BlockCalls
  <2>2. x \in {<<c>>, <<r, c>>}
    BY <1>1, <1>3, <1>7, <1>8, <1>9, <1>11 DEF Outer, FunctionCalls, Region, RegionCall, Plain, FrameCall, KeyOf
  <2>3. SubSeq(y, 1, k) = << >>
    BY <1>6, <2>1, ShortBegun
  <2>4. SubSeq(x, 1, m) \in {<< >>, <<c>>, <<r>>, <<r, c>>}
    <3>1. CASE x = <<c>>
      BY <1>6, <3>1, ShortBegun
    <3>2. CASE x = <<r, c>>
      BY <1>6, <3>2, ShortBegun
    <3> QED
      BY <2>2, <3>1, <3>2
  <2> QED
    BY <1>6, <1>7, <1>8, <1>9, <2>3, <2>4 DEF VTuneCalls
<1> QED
  BY <1>10, <1>11 DEF ForVTune

\* So the call that opens or closes a frame is the only one of its activation.
LEMMA VTuneCallFacts ==
  ASSUME NEW f, NEW d, NEW c, d \in VTuneCalls(f), Append(d, c) \in VTuneCalls(f)
  PROVE  /\ c.site \in {"none", "region"}
         /\ c.site = "none" => c.key = KeyOf(f) /\ Begins(d) = {}
<1>1. PICK r : r = RegionCall
  OBVIOUS
<1>2. PICK k : k = FrameCall(f)
  OBVIOUS
<1>3. r.site = "region" /\ k.site = "none" /\ k.key = KeyOf(f) /\ r # k
  BY <1>1, <1>2 DEF RegionCall, FrameCall
<1>4. d \in {<< >>, <<r>>, <<r, k>>, <<k>>} /\ Append(d, c) \in {<< >>, <<r>>, <<r, k>>, <<k>>}
  BY <1>1, <1>2 DEF VTuneCalls
<1>5. Append(<<r>>, c) = <<r, c>> /\ Append(<<k>>, c) = <<k, c>> /\ Append(<<r, k>>, c) = <<r, k, c>>
  <2>1. r \in {r, k, c} /\ k \in {r, k, c} /\ c \in {r, k, c}
    OBVIOUS
  <2> QED
    BY <2>1, ShortSeqs
<1>6. Begins(<< >>) = {} /\ Begins(<<r>>) = {}
  <2>1. DOMAIN <<r>> = {1} /\ <<r>>[1] = r
    OBVIOUS
  <2> QED
    BY <1>3, <2>1 DEF Begins
<1>7. CASE d = << >>
  <2>1. Append(d, c) = <<c>>
    BY <1>7
  <2>2. <<c>> \in {<<r>>, <<k>>}
    BY <1>4, <2>1
  <2>3. c = r \/ c = k
    BY <2>2
  <2> QED
    BY <1>3, <1>6, <1>7, <2>3
<1>8. CASE d = <<r>>
  <2>1. Append(d, c) = <<r, c>>
    BY <1>8, <1>5
  <2>2. <<r, c>> = <<r, k>>
    BY <1>4, <2>1
  <2>3. c = k
    BY <2>2
  <2> QED
    BY <1>3, <1>6, <1>8, <2>3
<1>9. CASE d = <<k>>
  <2>1. Append(d, c) = <<k, c>>
    BY <1>9, <1>5
  <2>2. <<k, c>> = <<r, k>>
    BY <1>4, <2>1
  <2> QED
    BY <1>3, <2>2
<1>10. CASE d = <<r, k>>
  <2>1. Append(d, c) = <<r, k, c>>
    BY <1>10, <1>5
  <2> QED
    BY <1>4, <2>1
<1> QED
  BY <1>4, <1>7, <1>8, <1>9, <1>10

\* No activation begins the frame of another.
LEMMA VTuneBegins ==
  ASSUME NEW f, NEW d \in VTuneCalls(f)
  PROVE  Begins(d) \subseteq {KeyOf(f)}
<1>1. PICK r : r = RegionCall
  OBVIOUS
<1>2. PICK k : k = FrameCall(f)
  OBVIOUS
<1>3. r.site = "region" /\ k.site = "none" /\ k.key = KeyOf(f)
  BY <1>1, <1>2 DEF RegionCall, FrameCall
<1>4. d \in {<< >>, <<r>>, <<r, k>>, <<k>>}
  BY <1>1, <1>2 DEF VTuneCalls
<1>5. \A i \in DOMAIN d : d[i] = r \/ d[i] = k
  <2>1. CASE d = << >>
    BY <2>1
  <2>2. CASE d = <<r>>
    BY <2>2
  <2>3. CASE d = <<k>>
    BY <2>3
  <2>4. CASE d = <<r, k>>
    BY <2>4
  <2> QED
    BY <1>4, <2>1, <2>2, <2>3, <2>4
<1> QED
  BY <1>3, <1>5 DEF Begins

\* The frames begun by two lists of calls.
LEMMA BeginsConcat ==
  ASSUME NEW p \in Seq(AnnotationCalls), NEW d \in Seq(AnnotationCalls)
  PROVE  \A k \in Begins(p \o d) : k \in Begins(p) \/ k \in Begins(d)
<1>1. PICK n \in Nat, m \in Nat : n = Len(p) /\ m = Len(d)
  OBVIOUS
<1>2. PICK o : o = p \o d
  OBVIOUS
<1>3. /\ DOMAIN o = 1 .. n + m /\ DOMAIN p = 1 .. n /\ DOMAIN d = 1 .. m
      /\ \A i \in 1 .. n + m : o[i] = IF i <= n THEN p[i] ELSE d[i - n]
  BY <1>1, <1>2
<1>4. \A i \in 1 .. n + m : i \in 1 .. n \/ (~(i <= n) /\ i - n \in 1 .. m)
  OBVIOUS
<1>5. \A i \in 1 .. n : i <= n
  OBVIOUS
<1>6. ASSUME NEW k \in Begins(o) PROVE k \in Begins(p) \/ k \in Begins(d)
  <2>1. PICK i \in 1 .. n + m : o[i].site # "region" /\ o[i].key = k
    BY <1>3, <1>6 DEF Begins
  <2>2. CASE i \in 1 .. n
    BY <1>3, <1>5, <2>1, <2>2 DEF Begins
  <2>3. CASE ~(i <= n) /\ i - n \in 1 .. m
    <3>1. PICK j \in 1 .. m : j = i - n
      BY <2>3
    <3>2. d[j].site # "region" /\ d[j].key = k
      BY <1>3, <2>1, <2>3, <3>1
    <3> QED
      BY <1>3, <3>2 DEF Begins
  <2> QED
    BY <1>4, <2>2, <2>3
<1> QED
  BY <1>2, <1>6

\* A frame that is open is open in one of the activations.
LEMMA OpensBegins ==
  ASSUME build \in Builds, code = RunOnModule, NEW s \in Seq(Frames)
  PROVE  \A k \in Begins(Opens(s)) : \E i \in 1 .. Len(s) : k \in Begins(Opened(s[i]))
<1> DEFINE Good(m) == \A k \in Begins(Opens(SubSeq(s, 1, m))) : \E i \in 1 .. m : k \in Begins(Opened(s[i]))
           K == {m \in Nat : m <= Len(s) => Good(m)}
<1>1. 0 \in K
  <2>1. SubSeq(s, 1, 0) = << >>
    BY SubSeqEmpty
  <2>2. Begins(<< >>) = {}
    BY DEF Begins
  <2>3. Begins(Opens(SubSeq(s, 1, 0))) = {}
    BY <2>1, <2>2, OpensEmpty
  <2> QED
    BY <2>3
<1>2. ASSUME NEW m \in K PROVE m + 1 \in K
  <2> SUFFICES ASSUME m + 1 <= Len(s) PROVE Good(m + 1)
    OBVIOUS
  <2>1. m \in Nat /\ m <= Len(s) /\ m \in 0 .. Len(s) /\ 1 \in 1 .. Len(s) /\ m + 1 \in 1 .. Len(s)
        /\ (m + 1) - 1 = m
    OBVIOUS
  <2>2. Good(m)
    BY <2>1
  <2>3. PICK r : r = SubSeq(s, 1, m)
    OBVIOUS
  <2>4. PICK f \in Frames : f = s[m + 1]
    BY <2>1
  <2>5. r \in Seq(Frames)
    BY <2>1, <2>3, SubSeqPrefix
  <2>6. SubSeq(s, 1, m + 1) = Append(r, f)
    <3>1. SubSeq(s, 1, m + 1) = SubSeq(s, 1, (m + 1) - 1) \o <<s[m + 1]>>
      BY <2>1, SubSeqRecursiveSecond
    <3>2. r \o <<f>> = Append(r, f)
      BY <2>5
    <3> QED
      BY <2>1, <2>3, <2>4, <3>1, <3>2
  <2>7. PICK p \in Seq(AnnotationCalls) : p = Opens(r)
    BY <2>5, OpensAppend
  <2>8. PICK d \in Seq(AnnotationCalls) : d = Opened(f)
    BY FrameFacts
  <2>9. Opens(SubSeq(s, 1, m + 1)) = p \o d
    BY <2>5, <2>6, <2>7, <2>8, OpensAppend
  <2>10. \A k \in Begins(p \o d) : k \in Begins(p) \/ k \in Begins(d)
    BY BeginsConcat
  <2>11. \A i \in 1 .. m : i \in 1 .. m + 1
    BY <2>1
  <2>12. ASSUME NEW k \in Begins(p \o d) PROVE \E i \in 1 .. m + 1 : k \in Begins(Opened(s[i]))
    <3>1. CASE k \in Begins(p)
      BY <2>2, <2>3, <2>7, <2>11, <3>1
    <3>2. CASE k \in Begins(d)
      <4>1. k \in Begins(Opened(s[m + 1])) /\ m + 1 \in 1 .. m + 1
        BY <2>1, <2>4, <2>8, <3>2
      <4> QED
        BY <4>1
    <3> QED
      BY <2>10, <2>12, <3>1, <3>2
  <2> QED
    BY <2>9, <2>12
<1>3. K = Nat
  <2>1. K \subseteq Nat
    OBVIOUS
  <2> HIDE DEF K
  <2> QED
    BY <1>1, <1>2, <2>1, AllNumbers
<1>4. Len(s) \in K /\ Len(s) <= Len(s)
  <2> HIDE DEF K
  <2> QED
    BY <1>3
<1>5. Good(Len(s))
  BY <1>4
<1> QED
  BY <1>5, SubSeqFull

\* How often a frame is open.
Count(o, k) == Cardinality({i \in DOMAIN o : o[i].key = k /\ o[i].site = "none"})

\* One more open call raises the count of its frame, and of no other, by one when it is a function's.
LEMMA CountAppend ==
  ASSUME NEW o \in Seq(AnnotationCalls), NEW c \in AnnotationCalls, NEW k
  PROVE  /\ Count(o, k) \in Nat
         /\ Count(Append(o, c), k) = Count(o, k) + IF c.key = k /\ c.site = "none" THEN 1 ELSE 0
<1>1. PICK n \in Nat : n = Len(o)
  OBVIOUS
<1>2. PICK p : p = Append(o, c)
  OBVIOUS
<1>3. DOMAIN o = 1 .. n /\ DOMAIN p = 1 .. n + 1 /\ (\A i \in 1 .. n : p[i] = o[i]) /\ p[n + 1] = c
  BY <1>1, <1>2
<1> DEFINE old == {i \in 1 .. n : o[i].key = k /\ o[i].site = "none"}
           new == {i \in 1 .. n + 1 : p[i].key = k /\ p[i].site = "none"}
<1>4. Count(o, k) = Cardinality(old) /\ Count(p, k) = Cardinality(new)
  BY <1>3 DEF Count
<1>5. IsFiniteSet(old) /\ Cardinality(old) \in Nat
  <2>1. IsFiniteSet(1 .. n)
    BY FS_Interval
  <2> QED
    BY <2>1, FS_Subset, FS_CardinalityType
<1>6. n + 1 \notin old /\ \A i : i \in 1 .. n + 1 <=> i \in 1 .. n \/ i = n + 1
  OBVIOUS
<1>7. CASE c.key = k /\ c.site = "none"
  <2>1. new = old \cup {n + 1}
    BY <1>3, <1>6, <1>7
  <2>2. Cardinality(new) = Cardinality(old) + 1
    BY <1>5, <1>6, <2>1, FS_AddElement
  <2> HIDE DEF old, new
  <2> QED
    BY <1>2, <1>4, <1>5, <1>7, <2>2
<1>8. CASE ~(c.key = k /\ c.site = "none")
  <2>1. new = old
    BY <1>3, <1>6, <1>8
  <2> HIDE DEF old, new
  <2> QED
    BY <1>2, <1>4, <1>5, <1>8, <2>1
<1> QED
  BY <1>7, <1>8

-----------------------------------------------------------------------------
(* VTune is told of every frame, once. *)

\* No function twice on a program stack.
Distinct(s) == \A i, j \in DOMAIN s : FunctionOf[s[i].block] = FunctionOf[s[j].block] => i = j

\* What VTune has counted, and what the last call says of the frames.
Told(t) ==
  /\ \A k \in Uuids : openFrames[k] = Count(Opens(frames[t]), k)
  /\ prev[1] = "FRAME_BEGIN" => prev[2] \in Begins(Opens(frames[t]))
  /\ prev[1] = "FRAME_END" => prev[2] \notin Begins(Opens(frames[t]))

FramesInv ==
  /\ openFrames = [k \in Uuids |-> openFrames[k]]
  /\ ~recursed => \A t \in Threads : Distinct(frames[t])
  /\ ForVTune(build.pass) /\ ~unwound /\ ~recursed => \A t \in Threads : Told(t)

\* A thread that does not move to a function below stays in distinct functions.
LEMMA MoveIsDistinct ==
  ASSUME ShapeInv, NEW t \in Threads, NEW m, NEW g, Moves(t, m, g),
         \A u \in Threads : Distinct(frames[u]),
         \A i \in 1 .. m : FunctionOf[frames[t][i].block] # FunctionOf[g.block]
  PROVE  \A u \in Threads : \A s : s = frames'[u] => Distinct(s)
<1>1. PICK s : s = frames[t]
  OBVIOUS
<1>2. s \in Seq(Frames) /\ frames \in [Threads -> Seq(Frames)]
  BY <1>1 DEF ShapeInv
<1>3. m \in 0 .. Len(s) /\ g \in Frames /\ frames' = [frames EXCEPT ![t] = Append(SubSeq(s, 1, m), g)]
  BY <1>1 DEF Moves
<1>4. PICK r : r = Append(SubSeq(s, 1, m), g)
  OBVIOUS
<1>5. r \in Seq(Frames) /\ Len(r) = m + 1 /\ (\A i \in 1 .. m : r[i] = s[i]) /\ r[m + 1] = g
  BY <1>2, <1>3, <1>4, CutFacts
<1>6. m \in Nat /\ Len(s) \in Nat /\ m <= Len(s) /\ DOMAIN r = 1 .. m + 1 /\ DOMAIN s = 1 .. Len(s)
  BY <1>2, <1>3, <1>5
<1>7. \A i \in 1 .. m + 1 : i = m + 1 \/ (i \in 1 .. m /\ i \in 1 .. Len(s))
  BY <1>6
<1>8. Distinct(s) /\ \A i \in 1 .. m : FunctionOf[s[i].block] # FunctionOf[g.block]
  BY <1>1
<1>9. ASSUME NEW i \in 1 .. m + 1, NEW j \in 1 .. m + 1,
             FunctionOf[r[i].block] = FunctionOf[r[j].block]
      PROVE  i = j
  <2>1. CASE i = m + 1 /\ j = m + 1
    BY <2>1
  <2>2. CASE i = m + 1 /\ j \in 1 .. m
    BY <1>5, <1>8, <1>9, <2>2
  <2>3. CASE i \in 1 .. m /\ j = m + 1
    BY <1>5, <1>8, <1>9, <2>3
  <2>4. CASE i \in 1 .. m /\ j \in 1 .. m
    <3>1. i \in DOMAIN s /\ j \in DOMAIN s
      BY <1>6, <1>7, <2>4
    <3>2. r[i] = s[i] /\ r[j] = s[j]
      BY <1>5, <2>4
    <3> QED
      BY <1>8, <1>9, <3>1, <3>2 DEF Distinct
  <2> QED
    BY <1>7, <2>1, <2>2, <2>3, <2>4
<1>10. Distinct(r)
  BY <1>6, <1>9 DEF Distinct
<1>11. frames'[t] = r /\ \A u \in Threads \ {t} : frames'[u] = frames[u]
  BY <1>2, <1>3, <1>4
<1> QED
  BY <1>10, <1>11

\* If the frames of every thread are distinct in the next state, Distinct holds of them there.
LEMMA DistinctNext ==
  ASSUME \A u \in Threads : \A s : s = frames'[u] => Distinct(s)
  PROVE  (\A u \in Threads : Distinct(frames[u]))'
<1>1. ASSUME NEW u \in Threads PROVE Distinct(frames[u])'
  <2>1. PICK s : s = frames'[u]
    OBVIOUS
  <2>2. Distinct(s)
    BY <2>1
  <2> QED
    BY <2>1, <2>2 DEF Distinct
<1> QED
  BY <1>1

\* What VTune is told of a thread that opens o.
LEMMA ToldNext ==
  ASSUME build' = build, NEW t, NEW s, s = frames'[t], NEW o, o = Opens(s),
         \A k \in Uuids : openFrames'[k] = Count(o, k),
         prev'[1] = "FRAME_BEGIN" => prev'[2] \in Begins(o),
         prev'[1] = "FRAME_END" => prev'[2] \notin Begins(o)
  PROVE  Told(t)'
<1>1. Opens(frames[t])' = o
  BY OpensSame
<1>2. \A k : Count(Opens(frames[t]), k)' = Count(o, k)
  BY <1>1 DEF Count
<1>3. Begins(Opens(frames[t]))' = Begins(o)
  BY <1>1 DEF Begins
<1> QED
  BY <1>2, <1>3 DEF Told

\* The frame of the function a thread is in is not open in its callers.
LEMMA KeyIsFresh ==
  ASSUME ShapeInv, NoCollisions, ForVTune(build.pass), NEW t \in Threads, frames[t] # << >>,
         Distinct(frames[t])
  PROVE  KeyOf(Last(frames[t])) \notin Begins(Opens(Front(frames[t])))
<1>1. PICK s : s = frames[t]
  OBVIOUS
<1>2. /\ s \in Seq(Frames) /\ s # << >> /\ build \in Builds /\ code = RunOnModule /\ Distinct(s)
  BY <1>1 DEF ShapeInv
<1>3. /\ Len(s) \in Nat /\ Len(s) >= 1 /\ Last(s) \in Frames /\ Last(s) = s[Len(s)] /\ Front(s) \in Seq(Frames)
      /\ Len(Front(s)) = Len(s) - 1 /\ \A i \in 1 .. Len(s) - 1 : Front(s)[i] = s[i]
  BY <1>2, TopFacts
<1>4. PICK r \in Seq(Frames) : r = Front(s)
  BY <1>3
<1>5. PICK f \in Frames : f = Last(s)
  BY <1>3
<1>6. ASSUME KeyOf(f) \in Begins(Opens(r)) PROVE FALSE
  <2>1. PICK i \in 1 .. Len(r) : KeyOf(f) \in Begins(Opened(r[i]))
    BY <1>2, <1>6, OpensBegins
  <2>2. i \in 1 .. Len(s) - 1 /\ r[i] = s[i]
    BY <1>3, <1>4, <2>1
  <2>3. PICK h \in Frames : h = s[i]
    BY <1>2, <2>2
  <2>4. Opened(h) \in VTuneCalls(h)
    BY <1>2, VTuneOpened
  <2>5. KeyOf(f) = KeyOf(h)
    BY <2>1, <2>2, <2>3, <2>4, VTuneBegins
  <2>6. f.block \in Blocks /\ h.block \in Blocks
    BY DEF Frames
  <2>7. FunctionOf[f.block] = FunctionOf[h.block]
    <3>1. FunctionOf[f.block] \in Functions /\ FunctionOf[h.block] \in Functions
      BY <2>6, ProgramAssumption
    <3> QED
      BY <2>5, <2>6, <3>1 DEF KeyOf, NoCollisions
  <2>8. i \in DOMAIN s /\ Len(s) \in DOMAIN s /\ i # Len(s) /\ f = s[Len(s)]
    BY <1>2, <1>3, <1>5, <2>2
  <2> QED
    BY <1>2, <2>3, <2>7, <2>8 DEF Distinct
<1> QED
  BY <1>1, <1>4, <1>5, <1>6

\* What the runtime makes of a call that repeats none.
LEMMA RuntimeCounts ==
  ASSUME NEW mode, NEW k, PIMProfVTuneAnnotation(mode, k),
         openFrames = [h \in Uuids |-> openFrames[h]],
         mode \in {"FRAME_BEGIN", "FRAME_END"} => prev # <<mode, k>>
  PROVE  /\ openFrames' = [h \in Uuids |-> openFrames'[h]]
         /\ prev'[1] = mode /\ prev'[2] = k
         /\ mode = "FRAME_BEGIN" =>
              \A h \in Uuids : openFrames'[h] = IF h = k THEN openFrames[h] + 1 ELSE openFrames[h]
         /\ mode = "FRAME_END" =>
              \A h \in Uuids : openFrames'[h] = IF h = k THEN openFrames[h] + -1 ELSE openFrames[h]
         /\ mode \in {"RESUME", "DETACH"} => openFrames' = openFrames
         /\ mode \in {"FRAME_BEGIN", "FRAME_END", "RESUME", "DETACH"} \/ openFrames' = openFrames
<1>1. CASE IsRepeat(mode, k) /\ UNCHANGED runtimeVars
  BY <1>1 DEF runtimeVars, IsRepeat
<1>2. CASE prev' = <<mode, k>> /\ mode = "FRAME_BEGIN" /\ Frame(k, 1, 1)
  <2>1. openFrames' = [openFrames EXCEPT ![k] = @ + 1]
    BY <1>2 DEF Frame
  <2> QED
    BY <1>2, <2>1
<1>3. CASE prev' = <<mode, k>> /\ mode = "FRAME_END" /\ Frame(k, 0, -1)
  <2>1. openFrames' = [openFrames EXCEPT ![k] = @ + -1]
    BY <1>3 DEF Frame
  <2> QED
    BY <1>3, <2>1
<1>4. CASE prev' = <<mode, k>> /\ mode \in {"RESUME", "DETACH"} /\ UNCHANGED <<domains, openFrames>>
  BY <1>4
<1> QED
  BY <1>1, <1>2, <1>3, <1>4 DEF PIMProfVTuneAnnotation

\* A call VTune is passed is never taken for a repeat.
LEMMA VTuneTellStep ==
  ASSUME ShapeInv, FramesInv, OneThread, NoCollisions, NEW t \in Threads, VTuneAnnotationCall(t)
  PROVE  FramesInv'
<1>1. PICK s : s = frames[t]
  OBVIOUS
<1>2. /\ s \in Seq(Frames) /\ s # << >> /\ build \in Builds /\ code = RunOnModule
      /\ build' = build /\ code' = code /\ unwound' = unwound /\ recursed' = recursed
  BY <1>1 DEF ShapeInv, VTuneAnnotationCall, IsAt, Annotated
<1>3. PICK f \in Frames : f = Last(s)
  BY <1>2, TopFacts
<1>4. PICK op : op = InstrAt(f).op
  OBVIOUS
<1>5. op \in {"start", "end"} /\ ForVTune(build.pass)
  BY <1>1, <1>3, <1>4 DEF VTuneAnnotationCall, IsAt
<1>6. PICK c \in AnnotationCalls : c = CallOf(InstrAt(f))
  BY <1>2, <1>4, <1>5, FrameFacts
<1>7. PICK g \in Frames : g = Past(f)
  BY <1>2, <1>4, <1>5, FrameFacts
<1>8. g.block = f.block
  BY <1>7 DEF Past, Frames
<1>9. MoveTo(t, g)
  BY <1>1, <1>3, <1>7 DEF VTuneAnnotationCall, Annotated
<1>10. PICK mode : mode = VTuneMode(InstrAt(f))
  OBVIOUS
<1>11. PIMProfVTuneAnnotation(mode, c.key)
  BY <1>1, <1>3, <1>6, <1>10 DEF VTuneAnnotationCall, Here, CallOf
<1>12. mode = IF op = "start" THEN IF c.site = "region" THEN "RESUME" ELSE "FRAME_BEGIN"
              ELSE IF c.site = "region" THEN "DETACH" ELSE "FRAME_END"
  BY <1>4, <1>6, <1>10 DEF VTuneMode, CallOf
<1>13. openFrames' = [k \in Uuids |-> openFrames'[k]]
  <2>1. openFrames = [k \in Uuids |-> openFrames[k]]
    BY DEF FramesInv
  <2>2. openFrames' = openFrames \/ openFrames' = [openFrames EXCEPT ![c.key] = openFrames'[c.key]]
    BY <1>11, <2>1 DEF PIMProfVTuneAnnotation, Frame, runtimeVars
  <2> QED
    BY <2>1, <2>2
<1>14. ASSUME ~recursed
       PROVE  (\A u \in Threads : Distinct(frames[u]))'
  <2>1. PICK m : m = Len(s) - 1
    OBVIOUS
  <2>2. Moves(t, m, g)
    BY <1>1, <1>2, <1>9, <2>1, MoveToFacts
  <2>3. \A u \in Threads : Distinct(frames[u])
    BY <1>14 DEF FramesInv
  <2>4. Len(s) \in Nat /\ Len(s) >= 1 /\ f = s[Len(s)]
    BY <1>2, <1>3, TopFacts
  <2>5. ASSUME NEW i \in 1 .. m PROVE FunctionOf[s[i].block] # FunctionOf[g.block]
    <3>1. i \in DOMAIN s /\ Len(s) \in DOMAIN s /\ i # Len(s)
      BY <1>2, <2>1, <2>4
    <3>2. Distinct(s)
      BY <1>1, <2>3
    <3> QED
      BY <1>8, <2>4, <3>1, <3>2 DEF Distinct
  <2>6. \A u \in Threads : \A q : q = frames'[u] => Distinct(q)
    BY <1>1, <2>2, <2>3, <2>5, MoveIsDistinct
  <2> QED
    BY <2>6, DistinctNext
<1>15. ASSUME ~recursed, ~unwound
       PROVE  Told(t)'
  <2>1. Told(t) /\ Distinct(s)
    BY <1>1, <1>5, <1>15 DEF FramesInv
  <2>2. PICK p \in Seq(AnnotationCalls) : p = Opens(Front(s))
    BY <1>1, <1>2, <1>9, MoveToFacts
  <2>3. PICK d \in Seq(AnnotationCalls) : d = IF op = "start" THEN Opened(f) ELSE Opened(g)
    BY <1>2, FrameFacts
  <2>4. IF op = "start" THEN Opened(g) = Append(d, c) ELSE Opened(f) = Append(d, c)
    BY <1>2, <1>4, <1>5, <1>6, <1>7, <2>3, FrameFacts
  <2>5. PICK o \in Seq(AnnotationCalls) : o = p \o d
    <3>1. p \o d \in Seq(AnnotationCalls)
      BY ConcatProperties
    <3> QED
      BY <3>1
  <2>6. p \o Append(d, c) = Append(o, c)
    BY <2>5
  <2>7. PICK z : z = frames'[t]
    OBVIOUS
  <2>8. Opens(s) = p \o Opened(f) /\ Opens(z) = p \o Opened(g)
    BY <1>1, <1>2, <1>3, <1>9, <2>2, <2>7, MoveToFacts
  <2>9. IF op = "start" THEN Opens(s) = o /\ Opens(z) = Append(o, c)
                        ELSE Opens(s) = Append(o, c) /\ Opens(z) = o
    BY <2>3, <2>4, <2>5, <2>6, <2>8
  <2>10. VTuneCalls(f) = VTuneCalls(g) /\ KeyOf(f) = KeyOf(g)
    BY <1>8 DEF VTuneCalls, FrameCall, KeyOf
  <2>11. Opened(f) \in VTuneCalls(f) /\ Opened(g) \in VTuneCalls(f)
    BY <1>2, <1>5, <2>10, VTuneOpened
  <2>12. d \in VTuneCalls(f) /\ Append(d, c) \in VTuneCalls(f)
    BY <2>3, <2>4, <2>11
  <2>13. c.site \in {"none", "region"} /\ (c.site = "none" => c.key = KeyOf(f) /\ Begins(d) = {})
    BY <2>12, VTuneCallFacts
  <2>14. KeyOf(f) \notin Begins(p)
    BY <1>1, <1>2, <1>3, <1>5, <2>1, <2>2, KeyIsFresh
  <2>15. c.site = "none" => c.key \notin Begins(o)
    <3>1. \A k \in Begins(o) : k \in Begins(p) \/ k \in Begins(d)
      BY <2>5, BeginsConcat
    <3> QED
      BY <2>13, <2>14, <3>1
  <2>16. Begins(Append(o, c)) = Begins(o) \cup {k \in {c.key} : c.site # "region"}
    BY BeginsAppend
  <2>17. mode \in {"FRAME_BEGIN", "FRAME_END"} => prev # <<mode, c.key>>
    <3> SUFFICES ASSUME mode \in {"FRAME_BEGIN", "FRAME_END"}, prev = <<mode, c.key>>
                 PROVE  FALSE
      OBVIOUS
    <3>1. c.site = "none" /\ prev[1] = mode /\ prev[2] = c.key
      BY <1>12, <2>13
    <3>2. CASE mode = "FRAME_BEGIN"
      <4>1. op = "start" /\ c.key \in Begins(o)
        BY <1>1, <1>12, <2>1, <2>9, <3>1, <3>2 DEF Told
      <4> QED
        BY <2>15, <3>1, <4>1
    <3>3. CASE mode = "FRAME_END"
      <4>1. op = "end" /\ c.key \notin Begins(Append(o, c))
        BY <1>1, <1>5, <1>12, <2>1, <2>9, <3>1, <3>3 DEF Told
      <4> QED
        BY <2>16, <3>1, <4>1
    <3> QED
      BY <3>2, <3>3
  <2>18. /\ prev'[1] = mode /\ prev'[2] = c.key
         /\ mode = "FRAME_BEGIN" =>
              \A h \in Uuids : openFrames'[h] = IF h = c.key THEN openFrames[h] + 1 ELSE openFrames[h]
         /\ mode = "FRAME_END" =>
              \A h \in Uuids : openFrames'[h] = IF h = c.key THEN openFrames[h] + -1 ELSE openFrames[h]
         /\ mode \in {"RESUME", "DETACH"} => openFrames' = openFrames
    <3>1. openFrames = [k \in Uuids |-> openFrames[k]]
      BY DEF FramesInv
    <3>2. PICK k : k = c.key
      OBVIOUS
    <3> QED
      BY <1>11, <2>17, <3>1, <3>2, RuntimeCounts
  <2>19. \A k \in Uuids : openFrames[k] = Count(Opens(s), k)
    BY <1>1, <2>1 DEF Told
  <2>20. \A k : /\ Count(o, k) \in Nat
                /\ Count(Append(o, c), k)
                     = Count(o, k) + IF c.key = k /\ c.site = "none" THEN 1 ELSE 0
    BY CountAppend
  <2>21. PICK q : q = Opens(z)
    OBVIOUS
  <2>22. \A k \in Uuids : openFrames'[k] = Count(q, k)
    <3> SUFFICES ASSUME NEW k \in Uuids PROVE openFrames'[k] = Count(q, k)
      OBVIOUS
    <3>1. PICK n \in Nat : n = Count(o, k)
      BY <2>20
    <3>2. Count(Append(o, c), k) = n + IF c.key = k /\ c.site = "none" THEN 1 ELSE 0
      BY <2>20, <3>1
    <3>3. openFrames[k] = Count(Opens(s), k)
      BY <2>19
    <3>4. CASE op = "start"
      <4>1. openFrames[k] = n /\ q = Append(o, c)
        BY <2>9, <2>21, <3>1, <3>3, <3>4
      <4>2. CASE c.site = "region"
        <5>1. openFrames' = openFrames
          BY <1>12, <2>18, <3>4, <4>2
        <5> QED
          BY <3>2, <4>1, <4>2, <5>1
      <4>3. CASE c.site = "none"
        <5>1. openFrames'[k] = IF k = c.key THEN openFrames[k] + 1 ELSE openFrames[k]
          BY <1>12, <2>18, <3>4, <4>3
        <5> QED
          BY <3>2, <4>1, <4>3, <5>1
      <4> QED
        BY <2>13, <4>2, <4>3
    <3>5. CASE op = "end"
      <4>1. openFrames[k] = (n + IF c.key = k /\ c.site = "none" THEN 1 ELSE 0) /\ q = o
        BY <2>9, <2>21, <3>2, <3>3, <3>5
      <4>2. CASE c.site = "region"
        <5>1. openFrames' = openFrames
          BY <1>12, <2>18, <3>5, <4>2
        <5> QED
          BY <3>1, <4>1, <4>2, <5>1
      <4>3. CASE c.site = "none"
        <5>1. openFrames'[k] = IF k = c.key THEN openFrames[k] + -1 ELSE openFrames[k]
          BY <1>12, <2>18, <3>5, <4>3
        <5>2. (n + 1) + -1 = n /\ n + 0 = n
          OBVIOUS
        <5> QED
          BY <3>1, <4>1, <4>3, <5>1, <5>2
      <4> QED
        BY <2>13, <4>2, <4>3
    <3> QED
      BY <1>5, <3>4, <3>5
  <2>23. prev'[1] = "FRAME_BEGIN" => prev'[2] \in Begins(q)
    <3> SUFFICES ASSUME mode = "FRAME_BEGIN" PROVE c.key \in Begins(q)
      BY <2>18
    <3>1. op = "start" /\ c.site # "region"
      BY <1>12
    <3> QED
      BY <2>9, <2>16, <2>21, <3>1
  <2>24. prev'[1] = "FRAME_END" => prev'[2] \notin Begins(q)
    <3> SUFFICES ASSUME mode = "FRAME_END" PROVE c.key \notin Begins(q)
      BY <2>18
    <3>1. op = "end" /\ c.site = "none"
      BY <1>5, <1>12, <2>13
    <3> QED
      BY <2>9, <2>15, <2>21, <3>1
  <2> QED
    BY <1>2, <2>7, <2>21, <2>22, <2>23, <2>24, ToldNext
<1>16. (ForVTune(build.pass) /\ ~unwound /\ ~recursed => \A u \in Threads : Told(u))'
  <2>1. ASSUME NEW u \in Threads, ~recursed, ~unwound PROVE Told(u)'
    <3>1. u = t
      BY DEF OneThread
    <3> QED
      BY <1>15, <2>1, <3>1
  <2> QED
    BY <1>2, <2>1
<1> QED
  BY <1>2, <1>13, <1>14, <1>16 DEF FramesInv

\* Everything else leaves VTune and the open calls alone.
LEMMA SilentTellStep ==
  ASSUME ShapeInv, FramesInv, NEW t \in Threads, build' = build, Settles(t), UNCHANGED runtimeVars,
         unwound => unwound', recursed => recursed',
         ~unwound' => \A u \in Threads : \A s : s = frames'[u] => Opens(s) = Opens(frames[u])
  PROVE  FramesInv'
<1>1. openFrames' = openFrames /\ prev' = prev
  BY DEF runtimeVars
<1>2. ASSUME ~recursed'
      PROVE  (\A u \in Threads : Distinct(frames[u]))'
  <2>1. \A u \in Threads : Distinct(frames[u])
    BY <1>2 DEF FramesInv
  <2>2. \A u \in Threads : \A q : q = frames'[u] => Distinct(q)
    <3>1. CASE \A u \in Threads : frames'[u] \in {frames[u], << >>}
      <4>1. Distinct(<< >>)
        BY DEF Distinct
      <4> QED
        BY <2>1, <3>1, <4>1
    <3>2. CASE \E m, g : Moves(t, m, g) /\ Continues(frames[t], m, g)
      <4>1. PICK m, g : Moves(t, m, g) /\ Continues(frames[t], m, g)
        BY <3>2
      <4>2. PICK s \in Seq(Frames) : s = frames[t]
        BY DEF ShapeInv
      <4>3. m \in 0 .. Len(s)
        BY <4>1, <4>2 DEF Moves
      <4>4. \A i \in 1 .. m : FunctionOf[s[i].block] # FunctionOf[g.block]
        <5> SUFFICES ASSUME NEW i \in 1 .. m PROVE FunctionOf[s[i].block] # FunctionOf[g.block]
          OBVIOUS
        <5>1. CASE m < Len(s)
          <6>1. FunctionOf[g.block] = FunctionOf[s[m + 1].block]
            BY <4>1, <4>2, <5>1 DEF Continues
          <6>2. i \in DOMAIN s /\ m + 1 \in DOMAIN s /\ i # m + 1
            BY <4>3, <5>1
          <6>3. Distinct(s)
            BY <2>1, <4>2
          <6> QED
            BY <6>1, <6>2, <6>3 DEF Distinct
        <5>2. CASE ~(m < Len(s))
          <6>1. \A j \in DOMAIN s : FunctionOf[s[j].block] # FunctionOf[g.block]
            BY <1>2, <4>1, <4>2, <5>2 DEF Continues
          <6>2. i \in DOMAIN s
            BY <4>3
          <6> QED
            BY <6>1, <6>2
        <5> QED
          BY <5>1, <5>2
      <4> QED
        BY <2>1, <4>1, <4>2, <4>4, MoveIsDistinct
    <3> QED
      BY <3>1, <3>2 DEF Settles
  <2> QED
    BY <2>2, DistinctNext
<1>3. ASSUME ForVTune(build.pass), ~unwound', ~recursed', NEW u \in Threads
      PROVE  Told(u)'
  <2>1. PICK s : s = frames'[u]
    OBVIOUS
  <2>2. PICK o : o = Opens(s)
    OBVIOUS
  <2>3. o = Opens(frames[u]) /\ Told(u)
    BY <1>3, <2>1, <2>2 DEF FramesInv
  <2>4. /\ \A k \in Uuids : openFrames'[k] = Count(o, k)
        /\ prev'[1] = "FRAME_BEGIN" => prev'[2] \in Begins(o)
        /\ prev'[1] = "FRAME_END" => prev'[2] \notin Begins(o)
    BY <1>1, <2>3 DEF Told
  <2> QED
    BY <2>1, <2>2, <2>4, ToldNext
<1>4. (ForVTune(build.pass) /\ ~unwound /\ ~recursed => \A u \in Threads : Told(u))'
  BY <1>3 DEF ForVTune
<1>5. openFrames' = [k \in Uuids |-> openFrames'[k]]
  BY <1>1 DEF FramesInv
<1> QED
  BY <1>2, <1>4, <1>5 DEF FramesInv

\* A step of the program keeps FramesInv.
LEMMA TellStep ==
  ASSUME ShapeInv, FramesInv, OneThread, NoCollisions, [ProgramNext]_allVars
  PROVE  FramesInv'
<1>1. CASE ProgramNext
  <2>1. PICK t \in Threads : ThreadStep(t)
    BY <1>1 DEF ProgramNext
  <2>2. CASE StartAnnotation(t) \/ EndAnnotation(t)
    <3>1. /\ openFrames' = openFrames /\ build' = build /\ ~ForVTune(build.pass)
          /\ recursed' = recursed /\ build' = build /\ code' = code
      BY <2>2 DEF StartAnnotation, EndAnnotation, Annotated, runtimeVars
    <3>2. ASSUME ~recursed PROVE (\A u \in Threads : Distinct(frames[u]))'
      <4>1. PICK s : s = frames[t]
        OBVIOUS
      <4>2. s \in Seq(Frames) /\ s # << >> /\ build \in Builds /\ code = RunOnModule
        BY <2>2, <4>1 DEF ShapeInv, StartAnnotation, EndAnnotation, IsAt
      <4>3. PICK f \in Frames : f = Last(s)
        BY <4>2, TopFacts
      <4>4. InstrAt(f).op \in {"start", "end"}
        BY <2>2, <4>1, <4>3 DEF StartAnnotation, EndAnnotation, IsAt
      <4>5. PICK g \in Frames : g = Past(f)
        BY <4>2, <4>4, FrameFacts
      <4>6. MoveTo(t, g)
        BY <2>2, <4>1, <4>3, <4>5 DEF StartAnnotation, EndAnnotation, Annotated
      <4>7. PICK m : m = Len(s) - 1
        OBVIOUS
      <4>8. Moves(t, m, g)
        BY <3>1, <4>1, <4>2, <4>6, <4>7, MoveToFacts
      <4>9. \A u \in Threads : Distinct(frames[u])
        BY <3>2 DEF FramesInv
      <4>10. Len(s) \in Nat /\ Len(s) >= 1 /\ f = s[Len(s)] /\ g.block = f.block
        BY <4>2, <4>3, <4>5, TopFacts DEF Past, Frames
      <4>11. ASSUME NEW i \in 1 .. m PROVE FunctionOf[s[i].block] # FunctionOf[g.block]
        <5>1. i \in DOMAIN s /\ Len(s) \in DOMAIN s /\ i # Len(s)
          BY <4>2, <4>7, <4>10
        <5>2. Distinct(s)
          BY <4>1, <4>9
        <5> QED
          BY <4>10, <5>1, <5>2 DEF Distinct
      <4>12. \A u \in Threads : \A q : q = frames'[u] => Distinct(q)
        BY <4>1, <4>8, <4>9, <4>11, MoveIsDistinct
      <4> QED
        BY <4>12, DistinctNext
    <3> QED
      BY <3>1, <3>2 DEF FramesInv, ForVTune
  <2>3. CASE VTuneAnnotationCall(t)
    BY <2>3, VTuneTellStep
  <2>4. CASE Work(t) \/ Branch(t) \/ Call(t) \/ Return(t) \/ Throw(t)
    <3>1. /\ Settles(t)
          /\ ~unwound' => \A u \in Threads : \A s : s = frames'[u] => Opens(s) = Opens(frames[u])
      BY <2>4, SilentStep
    <3>2. build' = build /\ UNCHANGED runtimeVars
      BY <2>4 DEF Work, Branch, Call, Return, Throw
    <3>3. unwound => unwound'
      <4>1. CASE Work(t) \/ Branch(t) \/ Call(t) \/ Return(t)
        BY <4>1 DEF Work, Branch, Call, Return
      <4>2. CASE Throw(t)
        BY <4>2, Zenon DEF Throw
      <4> QED
        BY <2>4, <4>1, <4>2
    <3>4. recursed => recursed'
      <4>1. CASE Work(t) \/ Branch(t) \/ Return(t) \/ Throw(t)
        BY <4>1 DEF Work, Branch, Return, Throw
      <4>2. CASE Call(t)
        BY <4>2, Zenon DEF Call
      <4> QED
        BY <2>4, <4>1, <4>2
    <3> QED
      BY <3>1, <3>2, <3>3, <3>4, SilentTellStep
  <2> QED
    BY <2>1, <2>2, <2>3, <2>4 DEF ThreadStep
<1>2. CASE UNCHANGED allVars
  <2>1. /\ frames' = frames /\ build' = build /\ unwound' = unwound /\ recursed' = recursed
        /\ UNCHANGED runtimeVars
    BY <1>2 DEF allVars, programVars
  <2>2. openFrames' = openFrames /\ prev' = prev
    BY <2>1 DEF runtimeVars
  <2>3. ASSUME ~recursed PROVE (\A u \in Threads : Distinct(frames[u]))'
    <3>1. \A u \in Threads : \A q : q = frames'[u] => Distinct(q)
      BY <2>1, <2>3 DEF FramesInv
    <3> QED
      BY <3>1, DistinctNext
  <2>4. ASSUME ForVTune(build.pass), ~unwound, ~recursed, NEW u \in Threads PROVE Told(u)'
    <3>1. PICK s : s = frames'[u]
      OBVIOUS
    <3>2. PICK o : o = Opens(s)
      OBVIOUS
    <3>3. o = Opens(frames[u]) /\ Told(u)
      BY <2>1, <2>4, <3>1, <3>2 DEF FramesInv
    <3>4. /\ \A k \in Uuids : openFrames'[k] = Count(o, k)
          /\ prev'[1] = "FRAME_BEGIN" => prev'[2] \in Begins(o)
          /\ prev'[1] = "FRAME_END" => prev'[2] \notin Begins(o)
      BY <2>2, <3>3 DEF Told
    <3> QED
      BY <2>1, <3>1, <3>2, <3>4, ToldNext
  <2>5. (ForVTune(build.pass) /\ ~unwound /\ ~recursed => \A u \in Threads : Told(u))'
    BY <2>1, <2>4 DEF ForVTune
  <2> QED
    BY <2>1, <2>2, <2>3, <2>5 DEF FramesInv
<1> QED
  BY <1>1, <1>2

\* FramesInv holds at the start.
LEMMA TellStart ==
  ASSUME ProgramInit
  PROVE  FramesInv
<1>1. /\ build \in Builds /\ code = RunOnModule /\ prev[1] = "none"
      /\ openFrames = [k \in Uuids |-> 0]
  BY DEF ProgramInit, RuntimeInit, NoCall
<1>2. ASSUME NEW t \in Threads PROVE Distinct(frames[t]) /\ Told(t)
  <2>1. PICK b : b = Entry[StartFunction[t]]
    OBVIOUS
  <2>2. b \in Blocks /\ b = Entry[FunctionOf[b]]
    BY <2>1, ProgramAssumption
  <2>3. PICK g \in Frames : g = At(b) /\ Opened(g) = << >>
    BY <1>1, <2>2, EntryFacts
  <2>4. frames[t] = <<g>>
    BY <2>1, <2>3 DEF ProgramInit, At
  <2>5. << >> \in Seq(Frames) /\ Append(<< >>, g) = <<g>> /\ DOMAIN <<g>> = {1}
    BY EmptySeq
  <2>6. Opens(<< >>) \in Seq(AnnotationCalls) /\ Opens(Append(<< >>, g)) = Opens(<< >>) \o << >>
    BY <1>1, <2>3, <2>5, OpensAppend
  <2>7. Opens(frames[t]) = << >>
    BY <2>4, <2>5, <2>6, OpensEmpty, ConcatEmptySeq
  <2>8. Distinct(frames[t])
    BY <2>4, <2>5 DEF Distinct
  <2>9. \A k : Count(<< >>, k) = 0
    <3> SUFFICES ASSUME NEW k PROVE Count(<< >>, k) = 0
      OBVIOUS
    <3>1. {i \in DOMAIN << >> : (<< >>)[i].key = k /\ (<< >>)[i].site = "none"} = {}
      OBVIOUS
    <3> QED
      BY <3>1, FS_EmptySet DEF Count
  <2> QED
    BY <1>1, <2>7, <2>8, <2>9 DEF Told
<1> QED
  BY <1>1, <1>2 DEF FramesInv

\* VTune sees the frames of exactly the blocks or functions that are executed, as
\* often as they are: what PIMProfAnnotation.cpp drops as a repeat is never a call
\* of another frame.
THEOREM FramesTheorem ==
  ASSUME OneThread, NoCollisions
  PROVE  ProgramSpec => []FramesFollowProgram
<1>1. ProgramInit => FramesInv
  BY TellStart
<1>2. ShapeInv /\ FramesInv /\ [ProgramNext]_allVars => FramesInv'
  BY TellStep
<1>3. ShapeInv /\ StacksInv /\ FramesInv => FramesFollowProgram
  <2> SUFFICES ASSUME ShapeInv, StacksInv, FramesInv, NEW t \in Threads, ForVTune(build.pass),
                      ~unwound, ~recursed, ~IsAt(t, "start"), ~IsAt(t, "end"), NEW k \in Uuids
               PROVE  openFrames[k] = Cardinality({i \in DOMAIN OpenCalls(t) :
                                        OpenCalls(t)[i].key = k /\ OpenCalls(t)[i].site = "none"})
    BY DEF FramesFollowProgram
  <2>1. ~aborted /\ Told(t)
    BY DEF StacksInv, FramesInv
  <2>2. OpenCalls(t) = Opens(frames[t])
    BY <2>1, OpenCallsAreOpens
  <2>3. openFrames[k] = Count(OpenCalls(t), k)
    BY <2>1, <2>2 DEF Told
  <2> QED
    BY <2>3 DEF Count
<1> QED
  BY <1>1, <1>2, <1>3, ProgramInvariant, PTL DEF ProgramSpec
===============================================================================
