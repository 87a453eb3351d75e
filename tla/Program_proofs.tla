--------------------------- MODULE Program_proofs ---------------------------
(***************************************************************************)
(* The two passes of the assembler agree on the place of every label, for  *)
(* every source and any number of labels.  The argument follows the stops  *)
(* of the first pass, each a cursor with the count of instructions there:  *)
(* the first pass files every label it stops at, and the second pass, as   *)
(* long as it goes on, goes from a stop of the first pass to the next.     *)
(***************************************************************************)
EXTENDS Program, Sequence_proofs

\* The stop of the first pass that follows s.
Following(s) ==
  IF At(s.at).t = "label"
  THEN [at |-> s.at + 1, count |-> s.count]
  ELSE [at |-> Consumed(s.at, Skipped(At(s.at).op, At(s.at).type)),
        count |-> s.count + 1]

\* The label at stop s, if there is one, is in the table with the count of s.
Filed(s) ==
  At(s.at).t = "label" =>
    \E k \in 1 .. Len(labels) :
      labels[k] = [name |-> At(s.at).name, address |-> s.count]

Start == [at |-> 0, count |-> 0]
Here  == [at |-> cursor, count |-> current_pc]

\* The stops so far, ending here.
FirstPassStops ==
  pass = 1 => \E S : /\ Start \in S /\ Here \in S
                     /\ \A s \in S \ {Here} : Following(s) \in S /\ Filed(s)

\* All the stops, and the second pass is at one of them.
SecondPassFollows ==
  pass = 2 => \E S : /\ Here \in S
                     /\ \A s \in S : Present(s.at) => Following(s) \in S /\ Filed(s)

\* While the first pass runs nothing is written; then the counts are equal.
OutputCounted == Len(output) = IF pass = 1 THEN 0 ELSE current_pc

AsmInv ==
  AsmTypeOK /\ OutputCounted /\ FirstPassStops /\ SecondPassFollows

-----------------------------------------------------------------------------
\* A label that is defined has an address.
LEMMA AddressIsNatural ==
  ASSUME labels \in Seq([name : Labels, address : Nat]), NEW l, Defined(l)
  PROVE  LabelAddress(l) \in Nat
<1> DEFINE K == {k \in 1 .. Len(labels) : labels[k].name = l}
           First(k) == /\ labels[k].name = l
                       /\ \A j \in 1 .. k - 1 : labels[j].name # l
<1>1. PICK k \in K : \A j \in K : k <= j
  <2>1. K \in SUBSET Nat /\ K # {}
    BY DEF Defined
  <2> QED
    BY <2>1, LeastNumber
<1>2. \E i \in 1 .. Len(labels) : First(i)
  <2>1. k \in 1 .. Len(labels) /\ Len(labels) \in Nat
    BY <1>1
  <2>2. \A j \in 1 .. k - 1 : j \in 1 .. Len(labels) /\ ~(k <= j)
    BY <2>1
  <2> QED
    BY <1>1, <2>1, <2>2
<1>3. (CHOOSE i \in 1 .. Len(labels) : First(i)) \in 1 .. Len(labels)
  BY <1>2
<1> HIDE DEF First
<1>4. \A i \in 1 .. Len(labels) : labels[i].address \in Nat
  <2> SUFFICES ASSUME NEW i \in 1 .. Len(labels) PROVE labels[i].address \in Nat
    OBVIOUS
  <2>1. labels[i] \in [name : Labels, address : Nat]
    BY ElementOfSeq
  <2> QED
    BY <2>1
<1> QED
  BY <1>3, <1>4 DEF LabelAddress, First

\* What a token holds.
LEMMA TokenFields ==
  ASSUME NEW tok \in Tokens
  PROVE  /\ tok.t \in {"label", "word"} => tok.name \in Labels
         /\ tok.t = "op" => /\ tok.op \in {m[1] : m \in Mnemonics}
                            /\ tok.type \in Types
         /\ tok.t = "cond" => tok.name \in Conditions
         /\ tok.t = "num" => tok.n \in Nat
         /\ tok.t = "reg" => tok.n \in Nat
BY ShaderIsaAssumption DEF Tokens

\* Both passes move over the same number of tokens.
LEMMA SkippedIsWidth ==
  ASSUME NEW op, NEW type
  PROVE  /\ Skipped(op, type) = Width(op, type)
         /\ Width(op, type) \in Nat \ {0}
         /\ Argc(op, type) \in Nat
<1>1. Argc(op, type) \in 0 .. 3
  BY DEF Argc
<1>2. ScalesVec3(op, type) => Argc(op, type) = 2
  BY DEF ScalesVec3, Argc
<1> QED
  BY <1>1, <1>2
  DEF Skipped, Width, ArgsOffset, DestOffset, HasCondition, HasDest

\* An operand that is accepted, as the second pass writes it.
LEMMA ParsedArg ==
  ASSUME AsmTypeOK, NEW tok \in Tokens, NEW op, NEW type, NEW i,
         AcceptsArg(tok, op, type, i)
  PROVE  ParseArg(tok, op, type) \in Args
<1> USE TokenFields
<1>1. CASE tok.t = "num"
  BY <1>1 DEF ParseArg, Args
<1>2. CASE tok.t = "word"
  <2>1. Defined(tok.name)
    BY <1>2 DEF AcceptsArg, LooksLike
  <2>2. LabelAddress(tok.name) \in Nat
    BY <2>1, AddressIsNatural DEF AsmTypeOK
  <2> QED
    BY <1>2, <2>2 DEF ParseArg, Args
<1>3. CASE tok.t \notin {"num", "word"}
  BY <1>3 DEF ParseArg, ParseReg, Args
<1> QED
  BY <1>1, <1>2, <1>3

\* A token at a place before the end is a token (compiler.c:122-126).
LEMMA TokenAt ==
  ASSUME AsmTypeOK, NEW c \in Nat, c < Len(tokens)
  PROVE  At(c) \in Tokens
BY ElementOfSeq DEF AsmTypeOK, At

\* What the second pass accepts becomes an instruction (compiler.c:285-365).
LEMMA WrittenInstr ==
  ASSUME AsmTypeOK, NEW c \in Nat, c < Len(tokens), Emittable(c)
  PROVE  InstrAt(c) \in Instrs
<1> DEFINE op   == At(c).op
           type == At(c).type
           arg(i) == At(c + ArgsOffset(op) + i - 1)
<1>1. /\ At(c).t = "op"
      /\ op \in {m[1] : m \in Mnemonics} /\ type \in Types
  BY TokenAt, TokenFields DEF Emittable, IsInstr
<1>2. /\ DestOffset(op) \in {1, 2} /\ ArgsOffset(op) \in {1, 2, 3}
      /\ HasDest(op) => ArgsOffset(op) = DestOffset(op) + 1
      /\ Argc(op, type) \in Nat
      /\ Width(op, type) = ArgsOffset(op) + Argc(op, type)
      /\ HasCondition(op) => ArgsOffset(op) >= 2
  BY SkippedIsWidth DEF DestOffset, ArgsOffset, Width
<1>3. /\ Len(tokens) \in Nat
      /\ c + Width(op, type) <= Len(tokens)
  BY DEF Emittable, AsmTypeOK
<1>4. \A i \in 1 .. Argc(op, type) : ParseArg(arg(i), op, type) \in Args
  <2> SUFFICES ASSUME NEW i \in 1 .. Argc(op, type)
               PROVE  ParseArg(arg(i), op, type) \in Args
    OBVIOUS
  <2>1. arg(i) \in Tokens
    <3>1. /\ c + ArgsOffset(op) + i - 1 \in Nat
          /\ c + ArgsOffset(op) + i - 1 < Len(tokens)
      BY <1>2, <1>3
    <3> QED
      BY <3>1, TokenAt
  <2>2. AcceptsArg(arg(i), op, type, i)
    BY DEF Emittable
  <2> QED
    BY <2>1, <2>2, ParsedArg
<1>5. [i \in 1 .. Argc(op, type) |-> ParseArg(arg(i), op, type)] \in Seq(Args)
  <2> HIDE DEF op, type, arg
  <2> QED
    BY <1>2, <1>4, IsASeq
<1>6. (IF HasDest(op) THEN ParseReg(At(c + DestOffset(op))) ELSE 0) \in Nat
  <2>1. CASE HasDest(op)
    <3>1. c + DestOffset(op) \in Nat /\ c + DestOffset(op) < Len(tokens)
      BY <1>2, <1>3, <2>1
    <3>2. At(c + DestOffset(op)) \in Tokens
      BY <3>1, TokenAt
    <3> QED
      BY <2>1, <3>2, TokenFields DEF ParseReg
  <2> QED
    BY <2>1
<1>7. HasCondition(op) => At(c + 1).name \in Conditions
  <2>1. HasCondition(op) => c + 1 \in Nat /\ c + 1 < Len(tokens)
    BY <1>2, <1>3
  <2> QED
    BY <2>1, TokenAt, TokenFields DEF Emittable
<1> QED
  BY <1>1, <1>5, <1>6, <1>7 DEF InstrAt, Instrs

-----------------------------------------------------------------------------
\* The types of the assembler's state hold for every source: cursors stay in
\* the tokens, counts stay behind cursors, and what is written are instructions
\* (process_instruction, compiler.c:250-394).
LEMMA AsmTypeStep ==
  ASSUME AsmTypeOK, [AsmNext]_asmVars
  PROVE  AsmTypeOK'
<1> USE DEF AsmTypeOK
<1> DEFINE width == Width(At(cursor).op, At(cursor).type)
<1>1. Len(tokens) \in Nat /\ cursor \in Nat /\ current_pc \in Nat
  OBVIOUS
<1>2. Present(cursor) => cursor < Len(tokens)
  BY DEF Present
<1>3. width \in Nat \ {0} /\ Skipped(At(cursor).op, At(cursor).type) = width
  BY SkippedIsWidth
<1>4. CASE DefineLabel
  <2>1. At(cursor).name \in Labels
    BY <1>1, <1>2, <1>4, TokenAt, TokenFields DEF DefineLabel
  <2>2. labels' \in Seq([name : Labels, address : Nat])
    <3>1. [name |-> At(cursor).name, address |-> current_pc]
            \in [name : Labels, address : Nat]
      BY <1>1, <2>1
    <3> QED
      BY <1>4, <3>1, AppendProperties DEF DefineLabel
  <2>3. cursor' \in 0 .. Len(tokens) /\ current_pc' \in 0 .. cursor'
    BY <1>1, <1>2, <1>4 DEF DefineLabel
  <2> QED
    BY <1>4, <2>2, <2>3 DEF DefineLabel
<1>5. CASE SkipInstr
  <2>1. /\ Consumed(cursor, width) \in 0 .. Len(tokens)
        /\ current_pc + 1 \in 0 .. Consumed(cursor, width)
    BY <1>1, <1>2, <1>3, <1>5 DEF SkipInstr, Consumed
  <2>2. cursor' = Consumed(cursor, width)
    BY <1>3, <1>5 DEF SkipInstr
  <2> QED
    BY <1>5, <2>1, <2>2 DEF SkipInstr
<1>6. CASE SecondPass
  BY <1>6 DEF SecondPass
<1>7. CASE PassLabel
  BY <1>1, <1>2, <1>7 DEF PassLabel
<1>8. CASE EmitInstr
  <2>1. output' \in Seq(Instrs)
    BY <1>1, <1>2, <1>8, WrittenInstr, AppendProperties DEF EmitInstr
  <2>2. cursor + width <= Len(tokens)
    BY <1>8 DEF EmitInstr, Emittable
  <2>3. /\ cursor + width \in 0 .. Len(tokens)
        /\ current_pc + 1 \in 0 .. cursor + width
    BY <1>1, <1>3, <2>2
  <2> QED
    BY <1>8, <2>1, <2>3 DEF EmitInstr
<1>9. CASE ReportError
  BY <1>9 DEF ReportError
<1>10. CASE Finish
  BY <1>10 DEF Finish
<1>11. CASE UNCHANGED asmVars
  BY <1>11 DEF asmVars
<1> QED
  BY <1>4, <1>5, <1>6, <1>7, <1>8, <1>9, <1>10, <1>11 DEF AsmNext

\* The assembler starts with its state well typed (compiler.c:398-399).
LEMMA AsmTypeInit ==
  ASSUME tokens \in Seq(Tokens), AsmInit
  PROVE  AsmTypeOK
<1>1. << >> \in Seq(Instrs) /\ << >> \in Seq([name : Labels, address : Nat])
  OBVIOUS
<1> QED
  BY <1>1 DEF AsmInit, AsmTypeOK

\* Holds for every source: the assembler's state keeps its types.
THEOREM AssemblerTypes == AsmSpec => []AsmTypeOK
<1>1. AsmSpec => AsmTypeOK
  BY AsmTypeInit DEF AsmSpec
<1> QED
  BY <1>1, AsmTypeStep, PTL DEF AsmSpec

-----------------------------------------------------------------------------
\* The table only grows, at its end.
LEMMA FiledStays ==
  ASSUME AsmTypeOK, NEW s, Filed(s), tokens' = tokens,
         NEW e,
         \/ labels' = labels
         \/ /\ e \in [name : Labels, address : Nat]
            /\ labels' = Append(labels, e)
  PROVE  Filed(s)'
<1>1. /\ Len(labels) \in Nat
      /\ Len(labels') \in Nat /\ Len(labels) <= Len(labels')
      /\ \A k \in 1 .. Len(labels) : labels'[k] = labels[k]
  <2>1. labels \in Seq([name : Labels, address : Nat]) /\ Len(labels) \in Nat
    BY DEF AsmTypeOK
  <2>2. CASE labels' = labels
    BY <2>1, <2>2
  <2>3. CASE /\ e \in [name : Labels, address : Nat]
             /\ labels' = Append(labels, e)
    <3>1. /\ Len(labels') = Len(labels) + 1
          /\ \A k \in 1 .. Len(labels) : labels'[k] = labels[k]
      BY <2>1, <2>3, AppendProperties
    <3> QED
      BY <2>1, <3>1
  <2> QED
    BY <2>2, <2>3
<1>2. At(s.at)' = At(s.at)
  BY DEF At
<1> QED
  BY <1>1, <1>2 DEF Filed

\* A step of either pass over a token goes to the stop that follows.
LEMMA StepFollows ==
  ASSUME AsmTypeOK, DefineLabel \/ SkipInstr \/ PassLabel \/ EmitInstr
  PROVE  Here' = Following(Here)
<1> DEFINE width == Width(At(cursor).op, At(cursor).type)
<1>1. Here.at = cursor /\ Here.count = current_pc
  BY DEF Here
<1>2. Skipped(At(cursor).op, At(cursor).type) = width /\ width \in Nat
  BY SkippedIsWidth
<1>3. CASE DefineLabel \/ PassLabel
  BY <1>1, <1>3 DEF DefineLabel, PassLabel, Here, Following
<1>4. CASE SkipInstr
  BY <1>1, <1>4 DEF SkipInstr, Here, Following
<1>5. CASE EmitInstr
  <2>1. /\ cursor + width <= Len(tokens)
        /\ cursor \in Nat /\ Len(tokens) \in Nat
    BY <1>5 DEF EmitInstr, Emittable, AsmTypeOK
  <2>2. Consumed(cursor, width) = cursor + width
    <3> HIDE DEF width
    <3> QED
      BY <1>2, <2>1 DEF Consumed
  <2> QED
    BY <1>1, <1>2, <1>5, <2>2 DEF EmitInstr, Here, Following
<1> QED
  BY <1>3, <1>4, <1>5

\* Which stop follows another depends on the tokens alone.
LEMMA FollowingStays ==
  ASSUME tokens' = tokens, NEW s
  PROVE  Following(s)' = Following(s) /\ Present(s.at)' = Present(s.at)
BY DEF Following, Consumed, At, Present

\* A step of the first pass adds one stop, behind the present one
\* (compiler.c:255-266, 367-394).
LEMMA FirstPassStep ==
  ASSUME AsmTypeOK, FirstPassStops, DefineLabel \/ SkipInstr
  PROVE  FirstPassStops'
<1>1. PICK S : /\ Start \in S /\ Here \in S
               /\ \A s \in S \ {Here} : Following(s) \in S /\ Filed(s)
  BY DEF FirstPassStops, DefineLabel, SkipInstr
<1>2. tokens' = tokens /\ Here' = Following(Here)
  BY StepFollows DEF DefineLabel, SkipInstr
<1>3. PICK h : h = Here
  OBVIOUS
<1> DEFINE e == [name |-> At(cursor).name, address |-> current_pc]
           T == S \cup {Following(h)}
<1>4. /\ SkipInstr => labels' = labels
      /\ DefineLabel => /\ e \in [name : Labels, address : Nat]
                        /\ labels' = Append(labels, e)
  BY TokenAt, TokenFields DEF DefineLabel, SkipInstr, Present, AsmTypeOK
<1>5. ASSUME NEW s \in T \ {Following(h)}
      PROVE  Following(s) \in T /\ Filed(s)'
  <2>1. CASE s = h
    <3>1. CASE DefineLabel
      <4>1. /\ Len(labels') = Len(labels) + 1 /\ Len(labels) \in Nat
            /\ labels'[Len(labels) + 1] = e
        BY <1>4, <3>1, AppendProperties DEF AsmTypeOK, DefineLabel
      <4> QED
        BY <1>2, <1>3, <2>1, <4>1 DEF Filed, Here, At
    <3>2. CASE SkipInstr
      BY <1>2, <1>3, <2>1, <3>2 DEF SkipInstr, Filed, Here, At
    <3> QED
      BY <2>1, <3>1, <3>2
  <2>2. CASE s # h
    <3>1. Following(s) \in S /\ Filed(s)
      BY <1>1, <1>3, <2>2
    <3>2. Filed(s)'
      <4> HIDE DEF e
      <4> QED
        BY <1>2, <1>4, <3>1, FiledStays
    <3> QED
      BY <3>1, <3>2
  <2> QED
    BY <2>1, <2>2
<1>6. Here' = Following(h)
  BY <1>2, <1>3
<1>7. /\ Start \in T /\ Here' \in T
      /\ \A s \in T \ {Here'} : Following(s)' \in T /\ Filed(s)'
  BY <1>1, <1>2, <1>5, <1>6, FollowingStays
<1> HIDE DEF T
<1> QED
  BY <1>7 DEF FirstPassStops, Start

\* The second pass begins at the first stop of the first (compiler.c:400-404).
LEMMA SecondPassBegins ==
  ASSUME FirstPassStops, SecondPass
  PROVE  SecondPassFollows'
<1>1. PICK S : /\ Start \in S /\ Here \in S
               /\ \A s \in S \ {Here} : Following(s) \in S /\ Filed(s)
  BY DEF FirstPassStops, SecondPass
<1>2. tokens' = tokens /\ labels' = labels /\ Here' = Start /\ ~Present(Here.at)
  BY DEF SecondPass, Here, Start
<1>3. \A s : Filed(s)' = Filed(s)
  BY <1>2 DEF Filed, At
<1>4. \A s \in S : Present(s.at)' => Following(s)' \in S /\ Filed(s)'
  BY <1>1, <1>2, <1>3, FollowingStays
<1> QED
  BY <1>1, <1>2, <1>4 DEF SecondPassFollows

\* A step of the second pass goes from stop to stop (compiler.c:250-365).
LEMMA SecondPassStep ==
  ASSUME AsmTypeOK, SecondPassFollows, PassLabel \/ EmitInstr
  PROVE  SecondPassFollows'
<1>1. PICK S : /\ Here \in S
               /\ \A s \in S : Present(s.at) => Following(s) \in S /\ Filed(s)
  BY DEF SecondPassFollows, PassLabel, EmitInstr
<1>2. /\ tokens' = tokens /\ labels' = labels
      /\ Here' = Following(Here) /\ Present(Here.at)
  BY StepFollows DEF PassLabel, EmitInstr, Here
<1>3. \A s : Filed(s)' = Filed(s)
  BY <1>2 DEF Filed, At
<1>4. \A s \in S : Present(s.at)' => Following(s)' \in S /\ Filed(s)'
  BY <1>1, <1>2, <1>3, FollowingStays
<1> QED
  BY <1>1, <1>2, <1>4 DEF SecondPassFollows

\* The second pass counts what it writes (compiler.c:362-394).
LEMMA OutputStep ==
  ASSUME AsmTypeOK, OutputCounted, [AsmNext]_asmVars
  PROVE  OutputCounted'
<1>1. CASE SecondPass
  BY <1>1 DEF SecondPass, OutputCounted
<1>2. CASE EmitInstr
  <2>1. Len(output') = Len(output) + 1
    BY <1>2, WrittenInstr, AppendProperties DEF EmitInstr, Present, AsmTypeOK
  <2> QED
    BY <1>2, <2>1 DEF EmitInstr, OutputCounted
<1>3. CASE DefineLabel \/ SkipInstr \/ PassLabel \/ ReportError \/ Finish
  BY <1>3 DEF DefineLabel, SkipInstr, PassLabel, ReportError, Finish,
              OutputCounted
<1>4. CASE UNCHANGED asmVars
  BY <1>4 DEF asmVars, OutputCounted
<1> QED
  BY <1>1, <1>2, <1>3, <1>4 DEF AsmNext

\* A step that leaves tokens, cursor and table alone leaves the stops alone.
LEMMA StopsStay ==
  ASSUME FirstPassStops, SecondPassFollows,
         UNCHANGED <<tokens, pass, cursor, current_pc, labels>>
  PROVE  FirstPassStops' /\ SecondPassFollows'
BY DEF FirstPassStops, SecondPassFollows, Start, Here, Following, Consumed,
       Filed, At, Present

\* Every call of process_instruction keeps the two passes together.
LEMMA AsmInvStep ==
  ASSUME AsmInv, [AsmNext]_asmVars
  PROVE  AsmInv'
<1> USE DEF AsmInv
<1>1. AsmTypeOK' /\ OutputCounted'
  BY AsmTypeStep, OutputStep
<1>2. CASE DefineLabel \/ SkipInstr
  <2>1. SecondPassFollows'
    BY <1>2 DEF DefineLabel, SkipInstr, SecondPassFollows
  <2> QED
    BY <1>1, <1>2, <2>1, FirstPassStep
<1>3. CASE SecondPass
  <2>1. FirstPassStops'
    BY <1>3 DEF SecondPass, FirstPassStops
  <2> QED
    BY <1>1, <1>3, <2>1, SecondPassBegins
<1>4. CASE PassLabel \/ EmitInstr
  <2>1. FirstPassStops'
    BY <1>4 DEF PassLabel, EmitInstr, FirstPassStops
  <2> QED
    BY <1>1, <1>4, <2>1, SecondPassStep
<1>5. CASE ReportError \/ Finish \/ UNCHANGED asmVars
  BY <1>1, <1>5, StopsStay DEF ReportError, Finish, asmVars
<1> QED
  BY <1>2, <1>3, <1>4, <1>5 DEF AsmNext

\* They are together when the first pass begins (compiler.c:398-399).
LEMMA AsmInvInit ==
  ASSUME tokens \in Seq(Tokens), AsmInit
  PROVE  AsmInv
<1>1. AsmTypeOK /\ OutputCounted
  BY AsmTypeInit DEF AsmInit, OutputCounted
<1>2. Start \in {Here} /\ Here \in {Here}
  BY DEF AsmInit, Start, Here
<1>3. FirstPassStops
  <2>1. \A s \in {Here} \ {Here} : Following(s) \in {Here} /\ Filed(s)
    OBVIOUS
  <2> QED
    BY <1>2, <2>1, Zenon DEF FirstPassStops
<1> QED
  BY <1>1, <1>3 DEF AsmInv, AsmInit, SecondPassFollows

\* Passes that are together agree on a label that the second pass meets.
LEMMA AsmInvSuffices ==
  ASSUME AsmInv
  PROVE  LabelsNameTheirInstruction
<1> SUFFICES ASSUME pass = 2, Present(cursor), At(cursor).t = "label"
             PROVE  /\ current_pc = Len(output)
                    /\ \E k \in 1 .. Len(labels) :
                         labels[k] = [name |-> At(cursor).name,
                                      address |-> current_pc]
  BY DEF LabelsNameTheirInstruction
<1>1. Filed(Here)
  BY DEF AsmInv, SecondPassFollows, Here
<1> QED
  BY <1>1 DEF AsmInv, OutputCounted, Filed, Here

\* For every source the two passes agree: the second pass meets every label with
\* as many instructions written as the first had counted there
\* (process_instruction in pass 1 and 2, compiler.c:250-394).
THEOREM PassesAgree == AsmSpec => []LabelsNameTheirInstruction
<1>1. AsmSpec => AsmInv
  BY AsmInvInit DEF AsmSpec
<1> QED
  BY <1>1, AsmInvStep, AsmInvSuffices, PTL DEF AsmSpec

-----------------------------------------------------------------------------
(***************************************************************************)
(* Where the lines of a source stand among its tokens and its statements.  *)
(***************************************************************************)
\* f are the tokens of the beginnings of s.
Flattening(f, s) ==
  /\ f[0] = << >>
  /\ \A i \in 1 .. Len(s) : f[i] = Cat(f[i - 1], s[i])

\* The recursion of FlattenSeq is one.
LEMMA FlattenRecursion ==
  ASSUME NEW S, NEW s \in Seq(Seq(S))
  PROVE  \E f : /\ Flattening(f, s) /\ FlattenSeq(s) = f[Len(s)]
                /\ \A i \in 0 .. Len(s) : f[i] \in Seq(S)
<1> DEFINE Body(f) == [i \in 1 .. Len(s) |->
                         IF i = 1 THEN s[i] ELSE f[i - 1] \o s[i]]
           g == CHOOSE f : f = Body(f)
           step == [p \in (1 .. Len(s)) \X Seq(S) |-> Cat(p[2], s[p[1]])]
<1>1. Len(s) \in Nat /\ << >> \in Seq(S) /\ \A i \in 1 .. Len(s) : s[i] \in Seq(S)
  BY LenProperties, EmptySeq, ElementOfSeq
<1>2. step \in [(1 .. Len(s)) \X Seq(S) -> Seq(S)]
  <2> SUFFICES ASSUME NEW i \in 1 .. Len(s), NEW r \in Seq(S)
               PROVE  Cat(r, s[i]) \in Seq(S)
    OBVIOUS
  <2> QED
    BY <1>1, ConcatProperties DEF Cat
<1>3. PICK f \in [0 .. Len(s) -> Seq(S)] :
        f[0] = << >> /\ \A i \in 1 .. Len(s) : f[i] = step[<<i, f[i - 1]>>]
  <2> HIDE DEF step
  <2>1. PICK X : X = Seq(S)
    OBVIOUS
  <2>2. PICK base \in X : base = << >>
    BY <1>1, <2>1
  <2>3. PICK n \in Nat : n = Len(s)
    BY <1>1
  <2>4. step \in StepFunctions(n, X)
    BY <1>2, <2>1, <2>3 DEF StepFunctions
  <2>5. \E f \in [0 .. n -> X] : Repeats(f, base, step, n)
    BY <2>4, Recursion
  <2> QED
    BY <2>1, <2>2, <2>3, <2>5 DEF Repeats
<1>4. ASSUME NEW i \in 1 .. Len(s) PROVE f[i] = Cat(f[i - 1], s[i])
  <2>1. i - 1 \in 0 .. Len(s)
    BY <1>1
  <2>2. f[i - 1] \in Seq(S)
    BY <2>1
  <2>3. <<i, f[i - 1]>> \in (1 .. Len(s)) \X Seq(S)
    BY <2>2
  <2>4. step[<<i, f[i - 1]>>] = Cat(f[i - 1], s[i])
    BY <2>3
  <2> QED
    BY <1>3, <2>4
<1> HIDE DEF step
<1> DEFINE h == [i \in 1 .. Len(s) |-> f[i]]
<1>5. h = Body(h)
  <2>1. ASSUME NEW i \in 1 .. Len(s)
        PROVE  h[i] = IF i = 1 THEN s[i] ELSE h[i - 1] \o s[i]
    <3>1. CASE i = 1
      <4>1. f[1] = Cat(<< >>, s[1]) /\ s[1] \in Seq(S)
        BY <1>1, <1>3, <1>4, <3>1
      <4>2. Cat(<< >>, s[1]) = s[1]
        BY <4>1, ConcatEmptySeq DEF Cat
      <4> QED
        BY <3>1, <4>1, <4>2
    <3>2. CASE i # 1
      <4>1. i - 1 \in 1 .. Len(s) /\ i \in 1 .. Len(s)
        BY <1>1, <3>2
      <4>2. h[i - 1] = f[i - 1] /\ h[i] = f[i]
        BY <4>1
      <4>3. f[i] = Cat(f[i - 1], s[i])
        BY <1>4
      <4> HIDE DEF h
      <4> QED
        BY <3>2, <4>2, <4>3, Zenon DEF Cat
    <3> QED
      BY <3>1, <3>2
  <2> HIDE DEF h
  <2>2. h = [i \in 1 .. Len(s) |-> h[i]]
    BY DEF h
  <2> QED
    BY <2>1, <2>2, Zenon
<1>6. g = Body(g)
  <2> HIDE DEF Body, h
  <2> QED
    BY <1>5
<1>7. Len(s) # 0 => FlattenSeq(s) = g[Len(s)]
  BY Zenon DEF FlattenSeq
<1>8. \A i \in 1 .. Len(s) : g[i] = f[i]
  <2>1. ASSUME NEW i \in 1 .. Len(s)
        PROVE  g[i] = IF i = 1 THEN s[i] ELSE g[i - 1] \o s[i]
    <3>1. Body(g)[i] = IF i = 1 THEN s[i] ELSE g[i - 1] \o s[i]
      OBVIOUS
    <3> HIDE DEF Body, g
    <3> QED
      BY <1>6, <3>1, Zenon
  <2>2. ASSUME NEW i \in 1 .. Len(s)
        PROVE  f[i] = IF i = 1 THEN s[i] ELSE f[i - 1] \o s[i]
    <3>1. h[i] = IF i = 1 THEN s[i] ELSE h[i - 1] \o s[i]
      <4> HIDE DEF h
      <4>1. Body(h)[i] = IF i = 1 THEN s[i] ELSE h[i - 1] \o s[i]
        OBVIOUS
      <4> HIDE DEF Body
      <4> QED
        BY <1>5, <4>1, Zenon
    <3>2. i # 1 => i - 1 \in 1 .. Len(s)
      BY <1>1
    <3>3. h[i] = f[i] /\ (i # 1 => h[i - 1] = f[i - 1])
      BY <3>2
    <3> HIDE DEF h
    <3> QED
      BY <3>1, <3>3, Zenon
  <2> HIDE DEF g, h
  <2> DEFINE N == {i \in Nat : i + 1 <= Len(s) => g[i + 1] = f[i + 1]}
  <2>3. 0 \in N
    BY <2>1, <2>2
  <2>4. ASSUME NEW i \in N PROVE i + 1 \in N
    <3> SUFFICES ASSUME (i + 1) + 1 <= Len(s) PROVE g[(i + 1) + 1] = f[(i + 1) + 1]
      OBVIOUS
    <3>1. PICK j \in 1 .. Len(s) : j = (i + 1) + 1
      BY <1>1
    <3>2. j # 1 /\ j - 1 = i + 1 /\ g[i + 1] = f[i + 1]
      BY <1>1, <3>1
    <3>3. g[j - 1] = f[j - 1]
      BY <3>2, Zenon
    <3>4. g[j] = g[j - 1] \o s[j] /\ f[j] = f[j - 1] \o s[j]
      BY <2>1, <2>2, <3>2, Zenon
    <3> QED
      BY <3>1, <3>3, <3>4, Zenon
  <2>5. Nat \subseteq N
    <3> HIDE DEF N
    <3>1. N \in SUBSET Nat
      BY DEF N
    <3> QED
      BY <2>3, <2>4, <3>1, Induction
  <2>6. ASSUME NEW i \in 1 .. Len(s) PROVE g[i] = f[i]
    <3>1. i - 1 \in Nat /\ (i - 1) + 1 = i /\ i <= Len(s)
      BY <1>1
    <3>2. i - 1 \in N
      BY <2>5, <3>1
    <3> QED
      BY <3>1, <3>2
  <2> QED
    BY <2>6
<1>9. FlattenSeq(s) = f[Len(s)]
  <2> HIDE DEF g, h
  <2>1. CASE Len(s) = 0
    <3>1. s = << >> /\ FlattenSeq(s) = s
      BY <2>1, EmptySeq DEF FlattenSeq
    <3> QED
      BY <1>3, <2>1, <3>1
  <2>2. CASE Len(s) # 0
    <3>1. Len(s) \in 1 .. Len(s)
      BY <1>1, <2>2
    <3> QED
      BY <1>7, <1>8, <2>2, <3>1, Zenon
  <2> QED
    BY <2>1, <2>2
<1>10. Flattening(f, s)
  BY <1>3, <1>4 DEF Flattening
<1> QED
  BY <1>3, <1>9, <1>10

\* The tokens of no lines,
LEMMA FlattenEmpty == FlattenSeq(<< >>) = << >>
BY DEF FlattenSeq

\* their kind,
LEMMA FlattenType ==
  ASSUME NEW S, NEW s \in Seq(Seq(S))
  PROVE  FlattenSeq(s) \in Seq(S)
BY FlattenRecursion, LenProperties

\* and those of one line more.
LEMMA FlattenAppend ==
  ASSUME NEW S, NEW s \in Seq(Seq(S)), NEW e \in Seq(S)
  PROVE  FlattenSeq(Append(s, e)) = Cat(FlattenSeq(s), e)
<1> DEFINE r == Append(s, e)
           n == Len(s)
<1>1. /\ r \in Seq(Seq(S)) /\ Len(r) = n + 1 /\ n \in Nat
      /\ \A i \in 1 .. n : r[i] = s[i]
      /\ r[n + 1] = e
  BY AppendProperties, LenProperties
<1>2. PICK f : Flattening(f, s) /\ FlattenSeq(s) = f[n]
  BY FlattenRecursion
<1> HIDE DEF r
<1>3. PICK g : Flattening(g, r) /\ FlattenSeq(r) = g[Len(r)]
  BY <1>1, FlattenRecursion
<1> HIDE DEF n
<1> DEFINE N == {i \in Nat : i <= n => g[i] = f[i]}
<1>4. 0 \in N
  BY <1>2, <1>3 DEF Flattening
<1>5. ASSUME NEW i \in N PROVE i + 1 \in N
  <2> SUFFICES ASSUME i + 1 <= n PROVE g[i + 1] = f[i + 1]
    OBVIOUS
  <2>1. i + 1 \in 1 .. n /\ i + 1 \in 1 .. Len(r) /\ (i + 1) - 1 = i /\ g[i] = f[i]
    BY <1>1
  <2>2. g[i + 1] = Cat(g[i], r[i + 1]) /\ f[i + 1] = Cat(f[i], s[i + 1])
    BY <1>2, <1>3, <2>1 DEF Flattening, n
  <2> QED
    BY <1>1, <2>1, <2>2
<1>6. g[n] = f[n]
  <2>1. Nat \subseteq N
    <3> HIDE DEF N
    <3>1. N \in SUBSET Nat
      BY DEF N
    <3> QED
      BY <1>4, <1>5, <3>1, Induction
  <2> QED
    BY <1>1, <2>1
<1>7. n + 1 \in 1 .. Len(r) /\ (n + 1) - 1 = n
  BY <1>1
<1>8. g[n + 1] = Cat(g[n], e)
  BY <1>1, <1>3, <1>7 DEF Flattening
<1> QED
  BY <1>1, <1>2, <1>3, <1>6, <1>8 DEF r

\* How many tokens, and how many statements, stand in the first k lines.
Offset(s, k) == Len(FlattenSeq(SubSeq(s, 1, k)))
Count(s, k)  == Len(Statements(SubSeq(s, 1, k)))

\* Every line of s stands behind the tokens of the lines before it.
TokensPlaced(s) ==
  \A k \in 1 .. Len(s) :
    /\ Offset(s, k) = Offset(s, k - 1) + Len(s[k])
    /\ Offset(s, k) <= Len(FlattenSeq(s))
    /\ \A i \in 1 .. Len(s[k]) : FlattenSeq(s)[Offset(s, k - 1) + i] = s[k][i]

\* Every statement of s stands behind those of the lines before it.
StatementsPlaced(s) ==
  \A k \in 1 .. Len(s) :
    IF IsLabel(s[k])
    THEN Count(s, k) = Count(s, k - 1)
    ELSE /\ Count(s, k) = Count(s, k - 1) + 1
         /\ Count(s, k) <= Len(Statements(s))
         /\ Statements(s)[Count(s, k)] = s[k]

\* Places are numbers.
LEMMA OffsetType ==
  ASSUME NEW S, NEW s \in Seq(Seq(S)), NEW k \in 0 .. Len(s)
  PROVE  Offset(s, k) \in Nat /\ Offset(s, 0) = 0
         /\ Offset(s, Len(s)) = Len(FlattenSeq(s))
<1>1. PICK r \in Seq(Seq(S)) : r = SubSeq(s, 1, k)
  <2>1. Len(s) \in Nat
    BY LenProperties
  <2>2. k \in Int /\ 1 \in Int /\ \A i \in 1 .. k : i \in 1 .. Len(s)
    BY <2>1
  <2>3. \A i \in 1 .. k : s[i] \in Seq(S)
    BY <2>2, ElementOfSeq
  <2>4. SubSeq(s, 1, k) \in Seq(Seq(S))
    BY <2>2, <2>3, SubSeqProperties
  <2> QED
    BY <2>4
<1>2. SubSeq(s, 1, 0) = << >> /\ SubSeq(s, 1, Len(s)) = s
  OBVIOUS
<1>3. Offset(s, k) \in Nat
  BY <1>1, FlattenType, LenProperties DEF Offset
<1>4. Offset(s, 0) = Len(<< >>)
  BY <1>2, FlattenEmpty DEF Offset
<1>5. Offset(s, Len(s)) = Len(FlattenSeq(s))
  BY <1>2 DEF Offset
<1> QED
  BY <1>3, <1>4, <1>5

\* Flattening puts every token of every line in its place.
LEMMA TokensArePlaced ==
  ASSUME NEW S, NEW s \in Seq(Seq(S))
  PROVE  TokensPlaced(s)
<1> DEFINE Q == {r \in Seq(Seq(S)) : TokensPlaced(r)}
<1>1. << >> \in Q
  BY EmptySeq DEF TokensPlaced
<1>2. ASSUME NEW r \in Seq(Seq(S)), NEW e \in Seq(S), r \in Q
      PROVE  Append(r, e) \in Q
  <2>1. PICK a : a = Append(r, e)
    OBVIOUS
  <2>2. PICK n \in Nat : n = Len(r)
    BY LenProperties
  <2>3. /\ a \in Seq(Seq(S)) /\ Len(a) = n + 1 /\ a[n + 1] = e
        /\ \A k \in 1 .. n : a[k] = r[k]
    BY <2>1, <2>2, AppendProperties
  <2>4. /\ \A k \in 0 .. n : Offset(a, k) = Offset(r, k)
        /\ Offset(a, n + 1) = Len(FlattenSeq(a))
        /\ Offset(r, n) = Len(FlattenSeq(r))
    <3>1. /\ \A k \in 0 .. n : SubSeq(a, 1, k) = SubSeq(r, 1, k)
          /\ SubSeq(a, 1, n + 1) = a
          /\ SubSeq(r, 1, n) = r
      <4>1. /\ \A k \in 0 .. Len(r) : SubSeq(Append(r, e), 1, k) = SubSeq(r, 1, k)
            /\ SubSeq(Append(r, e), 1, Len(r) + 1) = Append(r, e)
            /\ SubSeq(r, 1, Len(r)) = r
        BY SubSeqAppend, Zenon
      <4> QED
        BY <2>1, <2>2, <4>1, Zenon
    <3> QED
      BY <3>1, Zenon DEF Offset
  <2>5. PICK t \in Seq(S) : t = FlattenSeq(r)
    BY FlattenType
  <2>6. PICK u \in Seq(S) : u = FlattenSeq(a)
    BY <2>3, FlattenType
  <2>7. /\ Len(u) = Len(t) + Len(e) /\ Len(t) \in Nat /\ Len(e) \in Nat
        /\ \A i \in 1 .. Len(t) : u[i] = t[i]
        /\ \A i \in 1 .. Len(e) : u[Len(t) + i] = e[i]
    <3>1. u = Cat(t, e)
      BY <2>1, <2>5, <2>6, FlattenAppend
    <3> QED
      BY <3>1, LenProperties DEF Cat
  <2>8. ASSUME NEW k \in 1 .. n + 1
        PROVE  /\ Offset(a, k) = Offset(a, k - 1) + Len(a[k])
               /\ Offset(a, k) <= Len(u)
               /\ \A i \in 1 .. Len(a[k]) : u[Offset(a, k - 1) + i] = a[k][i]
    <3>1. CASE k = n + 1
      <4>1. k - 1 = n /\ n \in 0 .. n
        BY <3>1
      <4>2. /\ Offset(a, k - 1) = Len(t) /\ Offset(a, k) = Len(u)
            /\ a[k] = e
        BY <2>3, <2>4, <2>5, <2>6, <3>1, <4>1
      <4>3. PICK o : o = Offset(a, k - 1)
        OBVIOUS
      <4>4. PICK line : line = a[k]
        OBVIOUS
      <4>5. \A i \in 1 .. Len(line) : u[o + i] = line[i]
        BY <2>7, <4>2, <4>3, <4>4
      <4>6. Offset(a, k) = o + Len(line) /\ Offset(a, k) <= Len(u)
        <5>1. o = Len(t) /\ line = e /\ Offset(a, k) = Len(u)
          BY <4>2, <4>3, <4>4, Zenon
        <5>2. PICK m \in Nat, n1 \in Nat :
                m = Len(t) /\ n1 = Len(e) /\ Len(u) = m + n1
          BY <2>7
        <5>3. Offset(a, k) = m + n1 /\ o + Len(line) = m + n1 /\ Len(u) = m + n1
          BY <5>1, <5>2, Zenon
        <5> QED
          BY <5>2, <5>3
      <4> QED
        BY <4>3, <4>4, <4>5, <4>6, Zenon
    <3>2. CASE k \in 1 .. n
      <4>1. /\ Offset(r, k) = Offset(r, k - 1) + Len(r[k])
            /\ Offset(r, k) <= Len(t)
            /\ \A i \in 1 .. Len(r[k]) : t[Offset(r, k - 1) + i] = r[k][i]
        BY <1>2, <2>2, <2>5, <3>2 DEF TokensPlaced
      <4>2. k \in 0 .. n /\ k - 1 \in 0 .. n
        BY <3>2
      <4>3. /\ Offset(a, k) = Offset(r, k) /\ Offset(a, k - 1) = Offset(r, k - 1)
            /\ a[k] = r[k]
        BY <2>3, <2>4, <3>2, <4>2
      <4>4. /\ Offset(r, k - 1) \in Nat /\ Offset(r, k) \in Nat
        BY <2>2, <4>2, OffsetType
      <4>5. Len(r[k]) \in Nat
        BY <2>2, <3>2, ElementOfSeq, LenProperties
      <4>6. ASSUME NEW i \in 1 .. Len(r[k])
            PROVE  u[Offset(r, k - 1) + i] = r[k][i]
        <5>1. Offset(r, k - 1) + i \in 1 .. Len(t)
          <6>1. PICK o \in Nat, m \in Nat, l \in Nat :
                  o = Offset(r, k - 1) /\ m = Len(r[k]) /\ l = Len(t)
            BY <2>7, <4>4, <4>5
          <6>2. o + m <= l
            BY <4>1, <6>1, Zenon
          <6>3. i \in 1 .. m
            BY <6>1, Zenon
          <6>4. o + i \in 1 .. l
            BY <6>2, <6>3
          <6> QED
            BY <6>1, <6>4, Zenon
        <5> QED
          BY <2>7, <4>1, <5>1
      <4> QED
        BY <2>7, <4>1, <4>3, <4>4, <4>6
    <3> QED
      BY <3>1, <3>2
  <2>9. TokensPlaced(a)
    BY <2>3, <2>6, <2>8 DEF TokensPlaced
  <2> QED
    BY <2>1, <2>3, <2>9
<1>3. Seq(Seq(S)) \subseteq Q
  <2> HIDE DEF Q
  <2> QED
    BY <1>1, <1>2, SeqInduction
<1> QED
  BY <1>3

-----------------------------------------------------------------------------
\* A line more is a statement more unless it is a label.
LEMMA StatementsAppend ==
  ASSUME NEW S, NEW s \in Seq(S), NEW e \in S
  PROVE  Statements(Append(s, e)) =
           IF IsLabel(e) THEN Statements(s) ELSE Append(Statements(s), e)
<1>1. PICK a : a = Append(s, e)
  OBVIOUS
<1>2. /\ a \in Seq(S) /\ Len(a) = Len(s) + 1 /\ Len(s) \in Nat
      /\ a[Len(s) + 1] = e
      /\ \A k \in 1 .. Len(s) : a[k] = s[k]
  BY <1>1, AppendProperties, LenProperties
<1>3. DOMAIN a = 1 .. Len(s) + 1 /\ DOMAIN s = 1 .. Len(s)
  BY <1>2, LenProperties
<1>4. PICK T : T = {a[k] : k \in {j \in DOMAIN a : ~IsLabel(a[j])}}
  OBVIOUS
<1>5. PICK U : U = {s[k] : k \in {j \in DOMAIN s : ~IsLabel(s[j])}}
  OBVIOUS
<1>6. \A k \in 1 .. Len(s) : s[k] \in T <=> s[k] \in U
  <2>1. \A k \in 1 .. Len(s) : s[k] \in U <=> ~IsLabel(s[k])
    BY <1>3, <1>5, Zenon
  <2>2. ASSUME NEW k \in 1 .. Len(s) PROVE s[k] \in T <=> ~IsLabel(s[k])
    <3>1. k \in DOMAIN a /\ a[k] = s[k]
      BY <1>2, <1>3
    <3> QED
      BY <1>4, <3>1, Zenon
  <2> QED
    BY <2>1, <2>2
<1>7. e \in T <=> ~IsLabel(e)
  <2>1. Len(s) + 1 \in DOMAIN a
    BY <1>2, <1>3
  <2> QED
    BY <1>2, <1>4, <2>1, Zenon
<1>8. Sift(s, T) = Sift(s, U)
  BY <1>6, SiftSame
<1>9. Sift(a, T) = Kept(Sift(s, T), e, T)
  BY <1>1, SiftAppend
<1>10. Statements(a) = Sift(a, T) /\ Statements(s) = Sift(s, U)
  BY <1>4, <1>5 DEF Statements
<1> QED
  BY <1>1, <1>7, <1>8, <1>9, <1>10 DEF Kept

\* Statements are lines,
LEMMA StatementsType ==
  ASSUME NEW S, NEW s \in Seq(S)
  PROVE  Statements(s) \in Seq(S)
BY SiftType DEF Statements

\* and no line is none.
LEMMA StatementsEmpty == Statements(<< >>) = << >>
BY SiftEmpty DEF Statements

\* Their places are numbers.
LEMMA CountType ==
  ASSUME NEW S, NEW s \in Seq(S), NEW k \in 0 .. Len(s)
  PROVE  Count(s, k) \in Nat /\ Count(s, 0) = 0
         /\ Count(s, Len(s)) = Len(Statements(s))
<1>1. PICK r \in Seq(S) : r = SubSeq(s, 1, k)
  <2>1. Len(s) \in Nat
    BY LenProperties
  <2>2. k \in Int /\ 1 \in Int /\ \A i \in 1 .. k : i \in 1 .. Len(s)
    BY <2>1
  <2>3. \A i \in 1 .. k : s[i] \in S
    BY <2>2, ElementOfSeq
  <2>4. SubSeq(s, 1, k) \in Seq(S)
    BY <2>2, <2>3, SubSeqProperties
  <2> QED
    BY <2>4
<1>2. SubSeq(s, 1, 0) = << >> /\ SubSeq(s, 1, Len(s)) = s
  OBVIOUS
<1>3. Count(s, k) \in Nat
  BY <1>1, StatementsType, LenProperties DEF Count
<1>4. Count(s, 0) = Len(<< >>)
  BY <1>2, StatementsEmpty DEF Count
<1>5. Count(s, Len(s)) = Len(Statements(s))
  BY <1>2 DEF Count
<1> QED
  BY <1>3, <1>4, <1>5

\* Every statement stands behind those of the lines before it.
LEMMA StatementsArePlaced ==
  ASSUME NEW S, NEW s \in Seq(S)
  PROVE  StatementsPlaced(s)
<1> DEFINE Q == {r \in Seq(S) : StatementsPlaced(r)}
<1>1. << >> \in Q
  BY EmptySeq DEF StatementsPlaced
<1>2. ASSUME NEW r \in Seq(S), NEW e \in S, r \in Q
      PROVE  Append(r, e) \in Q
  <2>1. PICK a : a = Append(r, e)
    OBVIOUS
  <2>2. PICK n \in Nat : n = Len(r)
    BY LenProperties
  <2>3. /\ a \in Seq(S) /\ Len(a) = n + 1 /\ a[n + 1] = e
        /\ \A k \in 1 .. n : a[k] = r[k]
    BY <2>1, <2>2, AppendProperties
  <2>4. /\ \A k \in 0 .. n : Count(a, k) = Count(r, k)
        /\ Count(a, n + 1) = Len(Statements(a))
        /\ Count(r, n) = Len(Statements(r))
    <3>1. /\ \A k \in 0 .. n : SubSeq(a, 1, k) = SubSeq(r, 1, k)
          /\ SubSeq(a, 1, n + 1) = a
          /\ SubSeq(r, 1, n) = r
      <4>1. /\ \A k \in 0 .. Len(r) : SubSeq(Append(r, e), 1, k) = SubSeq(r, 1, k)
            /\ SubSeq(Append(r, e), 1, Len(r) + 1) = Append(r, e)
            /\ SubSeq(r, 1, Len(r)) = r
        BY SubSeqAppend, Zenon
      <4> QED
        BY <2>1, <2>2, <4>1, Zenon
    <3> QED
      BY <3>1, Zenon DEF Count
  <2>5. PICK t \in Seq(S) : t = Statements(r)
    BY StatementsType
  <2>6. PICK u \in Seq(S) : u = Statements(a)
    BY <2>3, StatementsType
  <2>7. /\ Len(t) \in Nat
        /\ IsLabel(e) => u = t
        /\ ~IsLabel(e) => Len(u) = Len(t) + 1 /\ u[Len(t) + 1] = e
        /\ Len(u) >= Len(t)
        /\ \A i \in 1 .. Len(t) : u[i] = t[i]
    <3>1. u = IF IsLabel(e) THEN t ELSE Append(t, e)
      BY <2>1, <2>5, <2>6, StatementsAppend
    <3>2. Len(t) \in Nat
      BY LenProperties
    <3>3. CASE IsLabel(e)
      BY <3>1, <3>2, <3>3
    <3>4. CASE ~IsLabel(e)
      <4>1. u = Append(t, e)
        BY <3>1, <3>4
      <4> QED
        BY <3>2, <3>4, <4>1, AppendProperties
    <3> QED
      BY <3>3, <3>4
  <2>8. ASSUME NEW k \in 1 .. n + 1
        PROVE  IF IsLabel(a[k])
               THEN Count(a, k) = Count(a, k - 1)
               ELSE /\ Count(a, k) = Count(a, k - 1) + 1
                    /\ Count(a, k) <= Len(u)
                    /\ u[Count(a, k)] = a[k]
    <3>1. CASE k = n + 1
      <4>1. k - 1 = n /\ n \in 0 .. n
        BY <3>1
      <4>2. /\ Count(a, k - 1) = Len(t) /\ Count(a, k) = Len(u)
            /\ a[k] = e
        BY <2>3, <2>4, <2>5, <2>6, <3>1, <4>1
      <4> QED
        BY <2>7, <4>2
    <3>2. CASE k \in 1 .. n
      <4>1. IF IsLabel(r[k])
            THEN Count(r, k) = Count(r, k - 1)
            ELSE /\ Count(r, k) = Count(r, k - 1) + 1
                 /\ Count(r, k) <= Len(t)
                 /\ t[Count(r, k)] = r[k]
        BY <1>2, <2>2, <2>5, <3>2 DEF StatementsPlaced
      <4>2. k \in 0 .. n /\ k - 1 \in 0 .. n
        BY <3>2
      <4>3. /\ Count(a, k) = Count(r, k) /\ Count(a, k - 1) = Count(r, k - 1)
            /\ a[k] = r[k]
        BY <2>3, <2>4, <3>2, <4>2
      <4>4. /\ Count(r, k - 1) \in Nat /\ Count(r, k) \in Nat
        BY <2>2, <4>2, CountType
      <4>5. CASE IsLabel(r[k])
        BY <4>1, <4>3, <4>5
      <4>6. CASE ~IsLabel(r[k])
        <5>1. Count(r, k) \in 1 .. Len(t) /\ Count(r, k) <= Len(u)
          BY <2>6, <2>7, <4>1, <4>4, <4>6, LenProperties
        <5>2. u[Count(r, k)] = t[Count(r, k)]
          BY <2>7, <5>1
        <5> QED
          BY <4>1, <4>3, <4>6, <5>1, <5>2
      <4> QED
        BY <4>5, <4>6
    <3> QED
      BY <3>1, <3>2
  <2>9. StatementsPlaced(a)
    BY <2>3, <2>6, <2>8 DEF StatementsPlaced
  <2> QED
    BY <2>1, <2>3, <2>9
<1>3. Seq(S) \subseteq Q
  <2> HIDE DEF Q
  <2> QED
    BY <1>1, <1>2, SeqInduction
<1> QED
  BY <1>3


-----------------------------------------------------------------------------
(***************************************************************************)
(* The whole program keeps its types: what the assembler writes is what    *)
(* the interpreter can take.                                               *)
(***************************************************************************)
\* The instructions that the second pass writes: an opcode with its number of
\* operands, literals of the source where no address of a label stands.
WrittenInstrs ==
  {i \in Instrs :
     /\ <<i.op, i.type>> \in Mnemonics
     /\ Len(i.args) = Argc(i.op, i.type)
     /\ i.op # "jmp" =>
          \A k \in 1 .. Len(i.args) : i.args[k].kind = "imm" => i.args[k].n \in Literals}

SourceLines == Seq(Tokens) \ {<< >>}

ProgramInv ==
  /\ TypeOK
  /\ lines \in Seq(SourceLines)
  /\ tokens = FlattenSeq(lines)
  /\ output \in Seq(WrittenInstrs)
  /\ program \in Seq(WrittenInstrs)

\* The second pass writes such instructions.
LEMMA WrittenWell ==
  ASSUME AsmTypeOK, NEW c \in Nat, c < Len(tokens), Emittable(c)
  PROVE  InstrAt(c) \in WrittenInstrs
<1> DEFINE op   == At(c).op
           type == At(c).type
           arg(i) == At(c + ArgsOffset(op) + i - 1)
           i0 == InstrAt(c)
<1>1. i0 \in Instrs
  BY WrittenInstr
<1>2. /\ i0.op = op /\ i0.type = type
      /\ i0.args = [i \in 1 .. Argc(op, type) |-> ParseArg(arg(i), op, type)]
  BY DEF InstrAt
<1>3. <<op, type>> \in Mnemonics
  BY DEF Emittable, IsInstr
<1>4. Argc(op, type) \in Nat /\ ArgsOffset(op) \in Nat
  BY SkippedIsWidth DEF ArgsOffset, DestOffset
<1>5. /\ Len(i0.args) = Argc(op, type)
      /\ \A i \in 1 .. Argc(op, type) : i0.args[i] = ParseArg(arg(i), op, type)
  <2>1. i0.args \in Seq(Args)
    BY <1>1 DEF Instrs
  <2>2. DOMAIN i0.args = 1 .. Argc(op, type)
    BY <1>2
  <2>3. DOMAIN i0.args = 1 .. Len(i0.args) /\ Len(i0.args) \in Nat
    BY <2>1, LenProperties
  <2> HIDE DEF i0, op, type, arg
  <2>4. Len(i0.args) = Argc(op, type)
    BY <1>4, <2>2, <2>3
  <2> QED
    BY <1>2, <2>4
<1>6. ASSUME op # "jmp", NEW i \in 1 .. Argc(op, type),
             ParseArg(arg(i), op, type).kind = "imm"
      PROVE  ParseArg(arg(i), op, type).n \in Literals
  <2>1. AcceptsArg(arg(i), op, type, i)
    BY DEF Emittable
  <2>2. arg(i) \in Tokens
    <3>1. c + Width(op, type) <= Len(tokens) /\ Len(tokens) \in Nat
      BY DEF Emittable, AsmTypeOK
    <3>2. /\ c + ArgsOffset(op) + i - 1 \in Nat
          /\ c + ArgsOffset(op) + i - 1 < Len(tokens)
      <4>1. ArgsOffset(op) >= 1
        BY DEF ArgsOffset, DestOffset
      <4> QED
        BY <1>4, <3>1, <4>1 DEF Width
    <3> QED
      BY <3>2, TokenAt
  <2>3. arg(i).t # "word"
    BY <1>6, <2>1 DEF AcceptsArg, LooksLike
  <2>4. arg(i).t = "num"
    BY <1>6, <2>3 DEF ParseArg
  <2>5. arg(i).n \in Literals
    BY <2>2, <2>4 DEF Tokens
  <2> QED
    BY <2>4, <2>5 DEF ParseArg
<1> HIDE DEF i0, op, type, arg
<1>7. i0 \in WrittenInstrs
  <2>1. PICK j \in Instrs : j = i0
    BY <1>1
  <2>2. <<j.op, j.type>> \in Mnemonics /\ Len(j.args) = Argc(j.op, j.type)
    BY <1>2, <1>3, <1>5, <2>1, Zenon
  <2>3. ASSUME j.op # "jmp", NEW k \in 1 .. Len(j.args), j.args[k].kind = "imm"
        PROVE  j.args[k].n \in Literals
    <3>1. k \in 1 .. Argc(op, type) /\ op # "jmp"
      BY <1>2, <1>5, <2>1, <2>3, Zenon
    <3>2. j.args[k] = ParseArg(arg(k), op, type)
      BY <1>5, <2>1, <3>1, Zenon
    <3> QED
      BY <1>6, <2>3, <3>1, <3>2, Zenon
  <2>4. j \in WrittenInstrs
    BY <2>2, <2>3, Zenon DEF WrittenInstrs
  <2> QED
    BY <2>1, <2>4
<1> QED
  BY <1>7 DEF i0

-----------------------------------------------------------------------------
Readings == {"scalar", "preg", "mreg", "in"}

\* No instruction reads more operands than it has.
LEMMA ReadingShape ==
  ASSUME NEW op, NEW type, <<op, type>> \in Mnemonics
  PROVE  \E n \in 0 .. 3 : /\ n <= Argc(op, type)
                           /\ Reading(op, type) \in [1 .. n -> Readings]
<1>1. Argc(op, type) \in 0 .. 3
  BY DEF Argc
<1>2. CASE op \in {"jmp", "col", "and", "or", "xor", "not"}
  <2>1. Reading(op, type) = << >> /\ << >> \in [1 .. 0 -> Readings]
    BY <1>2 DEF Reading
  <2> QED
    BY <1>1, <2>1
<1>3. CASE /\ op \notin {"jmp", "col", "and", "or", "xor", "not"}
           /\ op \in {"norm"} \/ <<op, type>> \in {<<"mov", "matrix">>, <<"len", "vec3">>}
  <2>1. Reading(op, type) = <<"mreg">> /\ <<"mreg">> \in [1 .. 1 -> Readings]
    BY <1>3 DEF Reading, Readings
  <2>2. Argc(op, type) = 1
    BY <1>3 DEF Argc
  <2> QED
    BY <1>1, <2>1, <2>2
<1>4. CASE op \in {"dot", "cross"} \/ <<op, type>> = <<"mul", "matrix">>
  <2>1. /\ Reading(op, type) = <<"mreg", "mreg">>
        /\ <<"mreg", "mreg">> \in [1 .. 2 -> Readings]
    BY <1>4 DEF Reading, Readings
  <2>2. Argc(op, type) = 2
    BY <1>4 DEF Argc
  <2> QED
    BY <1>1, <2>1, <2>2
<1>5. CASE op \in {"mul", "add", "sub"} /\ type \in {"vec4", "vec3"}
  <2>1. /\ Reading(op, type) \in {<<"mreg", "in">>, <<"mreg", "scalar">>}
        /\ <<"mreg", "in">> \in [1 .. 2 -> Readings]
        /\ <<"mreg", "scalar">> \in [1 .. 2 -> Readings]
    BY <1>5 DEF Reading, Readings
  <2>2. Argc(op, type) = 2
    BY <1>5 DEF Argc
  <2> QED
    BY <1>1, <2>1, <2>2
<1>6. CASE op = "mod"
  <2>1. /\ Reading(op, type) = <<"preg", "scalar">>
        /\ <<"preg", "scalar">> \in [1 .. 2 -> Readings]
    BY <1>6 DEF Reading, Readings
  <2>2. Argc(op, type) = 2
    BY <1>6 DEF Argc
  <2> QED
    BY <1>1, <2>1, <2>2
<1>7. CASE op \in {"abs", "cast"}
  <2>1. Reading(op, type) = <<"preg">> /\ <<"preg">> \in [1 .. 1 -> Readings]
    BY <1>7 DEF Reading, Readings
  <2>2. Argc(op, type) = 1
    BY <1>7 DEF Argc
  <2> QED
    BY <1>1, <2>1, <2>2
<1>8. CASE /\ op \notin {"jmp", "col", "and", "or", "xor", "not"}
           /\ ~(op \in {"norm"} \/ <<op, type>> \in {<<"mov", "matrix">>, <<"len", "vec3">>})
           /\ ~(op \in {"dot", "cross"} \/ <<op, type>> = <<"mul", "matrix">>)
           /\ ~(op \in {"mul", "add", "sub"} /\ type \in {"vec4", "vec3"})
           /\ op # "mod" /\ op \notin {"abs", "cast"}
  <2>1. Reading(op, type) = [k \in 1 .. Argc(op, type) |-> "scalar"]
    BY <1>8 DEF Reading
  <2>2. [k \in 1 .. Argc(op, type) |-> "scalar"] \in [1 .. Argc(op, type) -> Readings]
    BY DEF Readings
  <2> QED
    BY <1>1, <2>1, <2>2
<1> QED
  BY <1>2, <1>3, <1>4, <1>5, <1>6, <1>7, <1>8

\* What is read is a value of a register or of a literal.
LEMMA ReadType ==
  ASSUME RegTypeOK, NEW a \in Args, NEW how \in Readings, Readable(a, how),
         a.kind = "imm" => a.n \in Literals
  PROVE  Read(a, how) \in Val
<1>1. a.kind = "imm" => Bits(a) \in Val
  BY ShaderIsaAssumption DEF Bits
<1>2. a.kind = "imm" \/ a.kind = "reg"
  BY DEF Args
<1> QED
  BY <1>1, <1>2 DEF Readings, Readable, Read, InFile, RegTypeOK

\* Where a destination is read it is a register of its file.
LEMMA DestRead ==
  ASSUME RegTypeOK, NEW i \in WrittenInstrs, Executable(i),
         Target(i.op, i.type) # "none", ReadsDest(i.op, i.type)
  PROVE  (IF DestFile(i.op, i.type) = PRegs THEN pRegs[i.dest] ELSE regs[i.dest]) \in Val
<1>1. PICK op, type : op = i.op /\ type = i.type /\ <<op, type>> \in Mnemonics
  BY DEF WrittenInstrs
<1>2. type \in VectorTypes => op \notin {"cmp", "cast"}
  BY <1>1 DEF Mnemonics, VectorTypes
<1>3. Target(op, type) \notin {"none", "cFlag", "arg0"}
  <2>1. op \notin {"cmp", "cast"}
    BY <1>1, <1>2 DEF ReadsDest, KeepsRest
  <2> QED
    BY <1>1, <2>1 DEF Target
<1>4. i.dest \in DestFile(op, type)
  BY <1>1, <1>3 DEF Executable
<1>5. DestFile(op, type) = PRegs \/ DestFile(op, type) = MatRegs
  BY DEF DestFile
<1> QED
  BY <1>1, <1>4, <1>5 DEF RegTypeOK

\* An executable instruction takes at most four operands, all of them values
\* (renderer.c:132-442).
LEMMA OperandsType ==
  ASSUME RegTypeOK, NEW i \in WrittenInstrs, Executable(i),
         Target(i.op, i.type) # "none"
  PROVE  \E n \in 0 .. 4 : Operands(i) \in [1 .. n -> Val]
<1> DEFINE reading == Reading(i.op, i.type)
           dest == IF DestFile(i.op, i.type) = PRegs THEN pRegs[i.dest]
                                                     ELSE regs[i.dest]
           read == [k \in DOMAIN reading |-> Read(i.args[k], reading[k])]
           more == IF ReadsDest(i.op, i.type) THEN <<dest>> ELSE << >>
<1>1. PICK n \in 0 .. 3 : n <= Argc(i.op, i.type) /\ reading \in [1 .. n -> Readings]
  BY ReadingShape DEF WrittenInstrs
<1>2. /\ i.args \in Seq(Args) /\ Len(i.args) = Argc(i.op, i.type)
      /\ i.op # "jmp"
      /\ \A k \in 1 .. Len(i.args) : i.args[k].kind = "imm" => i.args[k].n \in Literals
  <2>1. i.op # "jmp"
    <3>1. \A op, type : op = "jmp" => Target(op, type) = "none"
      BY DEF Target
    <3> QED
      BY <3>1, Zenon
  <2>2. i.args \in Seq(Args)
    BY DEF WrittenInstrs, Instrs
  <2> QED
    BY <2>1, <2>2, Zenon DEF WrittenInstrs
<1>3. DOMAIN reading = 1 .. n
  BY <1>1
<1>4. ASSUME NEW k \in 1 .. n PROVE Read(i.args[k], reading[k]) \in Val
  <2>1. k \in 1 .. Len(i.args) /\ reading[k] \in Readings
    <3>1. Argc(i.op, i.type) \in Nat
      BY SkippedIsWidth
    <3> QED
      BY <1>1, <1>2, <3>1
  <2>2. i.args[k] \in Args
    BY <1>2, <2>1, ElementOfSeq
  <2>3. Readable(i.args[k], reading[k])
    BY <1>3 DEF Executable
  <2> QED
    BY <1>2, <2>1, <2>2, <2>3, ReadType
<1>5. read \in [1 .. n -> Val]
  BY <1>3, <1>4
<1>6. more \in Seq(Val) /\ Len(more) <= 1
  <2>1. CASE ReadsDest(i.op, i.type)
    <3>1. dest \in Val
      BY <2>1, DestRead
    <3> HIDE DEF dest
    <3> QED
      BY <2>1, <3>1
  <2>2. CASE ~ReadsDest(i.op, i.type)
    BY <2>2, EmptySeq
  <2> QED
    BY <2>1, <2>2
<1>7. Operands(i) = read \o more
  BY DEF Operands
<1> HIDE DEF read, more
<1>8. PICK r \in Seq(Val) : r = read /\ Len(r) = n
  <2>1. read \in Seq(Val)
    BY <1>5, SeqDef
  <2> QED
    BY <1>5, <2>1, LenProperties
<1>9. PICK u \in Seq(Val) : u = r \o more /\ Len(u) \in 0 .. 4
  <2>1. /\ r \o more \in Seq(Val)
        /\ Len(r \o more) = Len(r) + Len(more)
    BY <1>6, ConcatProperties
  <2>2. Len(more) \in Nat
    BY <1>6, LenProperties, Zenon
  <2>3. Len(r \o more) \in 0 .. 4
    BY <1>6, <1>8, <2>1, <2>2
  <2> QED
    BY <2>1, <2>3, Zenon
<1>10. u \in [1 .. Len(u) -> Val]
  BY <1>9, LenProperties
<1> QED
  BY <1>7, <1>8, <1>9, <1>10

\* What it computes is a value, and what a comparison computes a flag
\* (renderer.c:502-643).
LEMMA ResultType ==
  ASSUME RegTypeOK, NEW i \in WrittenInstrs, Executable(i),
         Target(i.op, i.type) # "none"
  PROVE  /\ Result(i) \in Val
         /\ HasCondition(i.op) => Result(i) \in {0, 1}
<1>1. CASE HasCondition(i.op)
  <2>1. Result(i) \in {0, 1}
    BY <1>1, Zenon DEF Result, Compare
  <2> QED
    BY <2>1, ShaderIsaAssumption
<1>2. CASE ~HasCondition(i.op)
  <2>1. PICK n \in 0 .. 4 : Operands(i) \in [1 .. n -> Val]
    BY OperandsType
  <2>2. PICK m \in Mnemonics : m = <<i.op, i.type>>
    BY DEF WrittenInstrs
  <2>3. m[1] = i.op /\ m[2] = i.type
    BY <2>2
  <2>4. Compute(m[1], m[2], Operands(i)) \in Val
    BY <2>1, ProgramAssumption
  <2> QED
    BY <1>2, <2>3, <2>4, Zenon DEF Result
<1> QED
  BY <1>1, <1>2

-----------------------------------------------------------------------------
\* What the assembler does keeps the invariant,
LEMMA AssembleKeepsTypes ==
  ASSUME ProgramInv, Assemble
  PROVE  ProgramInv'
<1> USE DEF ProgramInv
<1>1. AsmTypeOK' /\ AsmTypeOK
  BY AsmTypeStep DEF Assemble, TypeOK
<1>2. RegTypeOK' /\ (address \in Nat)' /\ (exec \in {"absent", "idle", "running", "lost"})'
  BY DEF Assemble, TypeOK, RegTypeOK, shaderVars
<1>3. lines' = lines /\ program' = program
  BY DEF Assemble, shaderVars
<1>4. tokens' = tokens
  BY DEF Assemble, AsmNext, DefineLabel, SkipInstr, SecondPass, PassLabel, EmitInstr,
         ReportError, Finish
<1>5. output' \in Seq(WrittenInstrs)
  <2>1. CASE EmitInstr
    <3>1. cursor \in Nat /\ cursor < Len(tokens)
      BY <1>1, <2>1 DEF EmitInstr, Present, AsmTypeOK
    <3>2. InstrAt(cursor) \in WrittenInstrs
      BY <1>1, <2>1, <3>1, WrittenWell DEF EmitInstr
    <3> QED
      BY <2>1, <3>2, AppendProperties DEF EmitInstr
  <2>2. CASE ~EmitInstr
    BY <2>2 DEF Assemble, AsmNext, DefineLabel, SkipInstr, SecondPass, PassLabel,
                ReportError, Finish
  <2> QED
    BY <2>1, <2>2
<1>6. TypeOK'
  BY <1>1, <1>2 DEF TypeOK
<1> QED
  BY <1>3, <1>4, <1>5, <1>6

\* and so does what reaches the program and the registers from outside.
LEMMA CallsKeepTypes ==
  ASSUME ProgramInv, Load \/ Shade \/ Transform
  PROVE  ProgramInv'
<1> USE DEF ProgramInv
<1>1. AsmTypeOK'
  BY DEF Load, Shade, Transform, TypeOK, AsmTypeOK, asmVars
<1>2. lines' = lines /\ tokens' = tokens /\ output' = output
  BY DEF Load, Shade, Transform, asmVars
<1>3. CASE Load
  <2>1. program' = output
    BY <1>3 DEF Load
  <2>2. RegTypeOK' /\ (address \in Nat)' /\ exec' = "idle"
    BY <1>3 DEF Load, TypeOK, RegTypeOK, regVars
  <2> QED
    BY <1>1, <1>2, <2>1, <2>2 DEF TypeOK
<1>4. CASE Shade
  <2>1. PICK x \in Inputs, y \in Inputs, colour \in Inputs : RunFragment(x, y, colour)
    BY <1>4 DEF Shade
  <2>2. x \in Val /\ y \in Val /\ colour \in Val
    BY ProgramAssumption
  <2>3. RegTypeOK' /\ address' = 0 /\ exec' = "running" /\ program' = program
    BY <2>1, <2>2 DEF RunFragment, TypeOK, RegTypeOK
  <2> QED
    BY <1>1, <1>2, <2>3 DEF TypeOK
<1>5. CASE Transform
  <2>1. PICK v \in Inputs, colour \in Inputs : RunVertex(v, colour)
    BY <1>5 DEF Transform
  <2>2. v \in Val /\ colour \in Val
    BY ProgramAssumption
  <2>3. RegTypeOK' /\ address' = 0 /\ exec' = "running" /\ program' = program
    BY <2>1, <2>2 DEF RunVertex, TypeOK, RegTypeOK
  <2> QED
    BY <1>1, <1>2, <2>3 DEF TypeOK
<1> QED
  BY <1>3, <1>4, <1>5

\* The instruction that is about to be executed is one that was written.
LEMMA CurrentInstr ==
  ASSUME ProgramInv, OnInstr
  PROVE  Instr \in WrittenInstrs
<1>1. /\ address \in Nat /\ address % 16 = 0 /\ address < 16 * Len(program)
      /\ program \in Seq(WrittenInstrs) /\ Len(program) \in Nat
  BY LenProperties DEF ProgramInv, TypeOK, OnInstr, InstrSize
<1>2. address \div 16 + 1 \in 1 .. Len(program)
  BY <1>1
<1> QED
  BY <1>1, <1>2, ElementOfSeq DEF Instr, InstrSize

\* A turn of the interpreter's loop keeps registers, flag and outputs what they are.
LEMMA ExecuteKeepsTypes ==
  ASSUME ProgramInv, Execute
  PROVE  ProgramInv'
<1> USE DEF ProgramInv
<1>1. AsmTypeOK' /\ lines' = lines /\ tokens' = tokens /\ output' = output
  BY DEF Execute, TypeOK, AsmTypeOK, asmVars
<1>2. RegTypeOK /\ address \in Nat /\ exec \in {"absent", "idle", "running", "lost"}
  BY DEF TypeOK
<1>3. /\ program' = program /\ RegTypeOK' /\ address' \in Nat
      /\ exec' \in {"absent", "idle", "running", "lost"}
  <2>1. Continue => /\ address' \in Nat /\ exec' = exec /\ program' = program
                    /\ v_pos' = v_pos
    BY <1>2 DEF Continue, InstrSize
  <2>2. CASE StepOver
    BY <1>2, <2>1, <2>2 DEF StepOver, RegTypeOK
  <2>3. CanExecute => /\ Instr \in WrittenInstrs /\ Executable(Instr)
                      /\ Goal # "none" => /\ Result(Instr) \in Val
                                          /\ HasCondition(Instr.op) => Result(Instr) \in {0, 1}
    BY <1>2, CurrentInstr, ResultType DEF CanExecute, Goal
  <2>4. CASE ExecCmp
    <3>1. HasCondition(Instr.op)
      <4>1. \A op, type : Target(op, type) = "cFlag" => op = "cmp"
        BY DEF Target
      <4> QED
        BY <2>4, <4>1 DEF ExecCmp, Goal, HasCondition
    <3> QED
      BY <1>2, <2>1, <2>3, <2>4, <3>1 DEF ExecCmp, RegTypeOK
  <2>5. CASE ExecScalar
    <3>1. Result(Instr) \in Val
      BY <2>3, <2>5 DEF ExecScalar
    <3> QED
      BY <1>2, <2>1, <2>5, <3>1 DEF ExecScalar, RegTypeOK
  <2>6. CASE ExecCast
    <3>1. Result(Instr) \in Val
      BY <2>3, <2>6 DEF ExecCast
    <3> QED
      BY <1>2, <2>1, <2>6, <3>1 DEF ExecCast, RegTypeOK
  <2>7. CASE ExecMatrix
    <3>1. Result(Instr) \in Val
      BY <2>3, <2>7 DEF ExecMatrix
    <3> QED
      BY <1>2, <2>1, <2>7, <3>1 DEF ExecMatrix, RegTypeOK
  <2>8. CASE ExecMvp
    <3>1. Result(Instr) \in Val
      BY <2>3, <2>8 DEF ExecMvp
    <3> QED
      BY <1>2, <2>1, <2>8, <3>1 DEF ExecMvp, RegTypeOK
  <2>9. CASE ExecCol
    <3>1. regs[Instr.dest] \in Val
      <4>1. \A op, type : Target(op, type) = "colour" => DestFile(op, type) = MatRegs
        BY DEF DestFile
      <4>2. Instr.dest \in MatRegs
        BY <2>3, <2>9, <4>1 DEF ExecCol, Goal, Executable
      <4> QED
        BY <1>2, <4>2 DEF RegTypeOK
    <3>2. \A k \in 0 .. 2 : Channel(regs[Instr.dest], k) \in Val
      BY <3>1, ProgramAssumption DEF Channel
    <3>3. pRegs' \in [PRegs -> Val]
      <4>1. PICK a \in Val, b \in Val, c \in Val :
              /\ a = Channel(regs[Instr.dest], 0)
              /\ b = Channel(regs[Instr.dest], 1)
              /\ c = Channel(regs[Instr.dest], 2)
        BY <3>2
      <4>2. pRegs' = [pRegs EXCEPT ![RegPR] = a, ![RegPG] = b, ![RegPB] = c]
        BY <2>9, <4>1, Zenon DEF ExecCol
      <4>3. pRegs \in [PRegs -> Val]
        BY <1>2 DEF RegTypeOK
      <4> QED
        BY <4>2, <4>3
    <3> QED
      BY <1>2, <2>1, <2>9, <3>3 DEF ExecCol, RegTypeOK
  <2>10. CASE ExecJmp
    <3>1. Instr \in WrittenInstrs /\ Instr.op = "jmp"
      BY <2>3, <2>10 DEF ExecJmp
    <3>2. \A type : Argc("jmp", type) = 1
      BY DEF Argc
    <3>3. Instr.args \in Seq(Args) /\ Len(Instr.args) = 1
      BY <3>1, <3>2 DEF WrittenInstrs, Instrs
    <3>4. Instr.args[1] \in Args
      BY <3>3, ElementOfSeq
    <3>5. Instr.args[1].n \in Nat
      BY <3>4 DEF Args
    <3> QED
      BY <1>2, <2>10, <3>5 DEF ExecJmp, RegTypeOK
  <2>11. CASE ExecExit
    BY <1>2, <2>11 DEF ExecExit, RegTypeOK
  <2>12. CASE GoAstray
    BY <1>2, <2>12 DEF GoAstray, RegTypeOK
  <2> QED
    BY <2>2, <2>4, <2>5, <2>6, <2>7, <2>8, <2>9, <2>10, <2>11, <2>12
    DEF Execute, ExecStep
<1> QED
  BY <1>1, <1>3 DEF TypeOK

\* The program's types hold before the assembler starts.
LEMMA ProgramInit ==
  ASSUME Init
  PROVE  ProgramInv
<1>1. lines \in Seq(SourceLines) /\ lines \in Seq(Seq(Tokens))
  <2>1. lines \in Seq(SourceLines)
    BY ProgramAssumption DEF Init, SourceLines
  <2>2. \A i \in 1 .. Len(lines) : lines[i] \in Seq(Tokens)
    BY <2>1, ElementOfSeq DEF SourceLines
  <2>3. lines = [i \in 1 .. Len(lines) |-> lines[i]] /\ Len(lines) \in Nat
    BY <2>1, LenProperties
  <2> QED
    BY <2>1, <2>2, <2>3, IsASeq
<1>2. tokens = FlattenSeq(lines) /\ tokens \in Seq(Tokens)
  BY <1>1, FlattenType DEF Init
<1>3. AsmTypeOK
  BY <1>2, AsmTypeInit DEF Init
<1>4. RegTypeOK /\ address \in Nat /\ exec = "absent"
  <2>1. pRegs \in [PRegs -> Val]
    BY ProgramAssumption DEF Init
  <2>2. regs \in [MatRegs -> Val]
    BY <2>1 DEF Init, MatRegs, PRegs
  <2> QED
    BY <2>1, <2>2, ShaderIsaAssumption DEF Init, RegTypeOK
<1>5. output \in Seq(WrittenInstrs) /\ program \in Seq(WrittenInstrs)
  BY EmptySeq DEF Init, AsmInit
<1> QED
  BY <1>1, <1>2, <1>3, <1>4, <1>5 DEF ProgramInv, TypeOK

\* No step of assembler, upload, renderer or interpreter breaks them.
LEMMA ProgramStep ==
  ASSUME ProgramInv, [Next]_vars
  PROVE  ProgramInv'
<1>1. CASE UNCHANGED vars
  BY <1>1 DEF vars, ProgramInv, TypeOK, AsmTypeOK, RegTypeOK
<1> QED
  BY <1>1, AssembleKeepsTypes, CallsKeepTypes, ExecuteKeepsTypes DEF Next

\* For every set of sources, whatever they are: cursors, counts, tables,
\* instructions and registers keep their types, and the interpreter is never
\* handed an operand that is not one of the source's or the assembler's
\* (compiler.c:250-394, renderer.c:103-778).
THEOREM ProgramTypes == Spec => []TypeOK
<1>1. ProgramInv => TypeOK
  BY DEF ProgramInv
<1> QED
  BY <1>1, ProgramInit, ProgramStep, PTL DEF Spec

\* For every set of sources, in the whole program: the second pass meets every
\* label with as many instructions written as the first had counted there.
THEOREM ProgramPassesAgree == Spec => []LabelsNameTheirInstruction
<1>1. Init => AsmInv
  <2>1. Init => tokens \in Seq(Tokens)
    BY ProgramInit DEF ProgramInv, TypeOK, AsmTypeOK
  <2> QED
    BY <2>1, AsmInvInit DEF Init
<1>2. AsmInv /\ [Next]_vars => AsmInv'
  <2>1. [Next]_vars => [AsmNext]_asmVars
    BY DEF Next, vars, asmVars, Assemble, Load, Shade, Transform, Execute
  <2> QED
    BY <2>1, AsmInvStep
<1> QED
  BY <1>1, <1>2, AsmInvSuffices, PTL DEF Spec

-----------------------------------------------------------------------------
(***************************************************************************)
(* Sources of whole statements: the second pass writes the translation of  *)
(* every statement, and labels stand for the places of their statements.   *)
(***************************************************************************)
\* A line is a label, or a head with as many tokens as its opcode asks for.
Whole(line) ==
  \/ \E l \in Labels : line = <<Label(l)>>
  \/ line[1].t = "op" /\ Len(line) = Width(line[1].op, line[1].type)

Lined(s) == \A k \in 1 .. Len(s) : Whole(s[k])

\* What the second pass asks of the statement in a line,
Accepted(line) ==
  LET op == line[1].op
      type == line[1].type
  IN /\ IsInstr(line[1])
     /\ HasCondition(op) => line[2].t = "cond"
     /\ HasDest(op) => LooksLike(line[1 + DestOffset(op)], FileOf(type))
     /\ \A i \in 1 .. Argc(op, type) :
          AcceptsArg(line[ArgsOffset(op) + i], op, type, i)

\* and what it writes for it.
Translation(line) ==
  LET op == line[1].op
      type == line[1].type
  IN [op |-> op, type |-> type,
      flag |-> IF HasCondition(op) THEN line[2].name
               ELSE IF line[1].cond THEN "enable" ELSE "disable",
      dest |-> IF HasDest(op) THEN ParseReg(line[1 + DestOffset(op)]) ELSE 0,
      args |-> [i \in 1 .. Argc(op, type) |->
                  ParseArg(line[ArgsOffset(op) + i], op, type)]]

\* The table of labels lists the labels of the first k lines in their order,
\* w being the lines they stand in.
Lists(w, k) ==
  /\ \A i \in 1 .. Len(labels) :
       /\ lines[w[i]] = <<Label(labels[i].name)>>
       /\ labels[i].address = Count(lines, w[i])
  /\ \A i, j \in 1 .. Len(labels) : i < j => w[i] < w[j]
  /\ \A m \in 1 .. k : IsLabel(lines[m]) => \E i \in 1 .. Len(labels) : w[i] = m

TableOf(k) == \E w \in [1 .. Len(labels) -> 1 .. k] : Lists(w, k)

\* A pass stands behind line k, with the statements counted.
StandsBehind(k) == cursor = Offset(lines, k) /\ current_pc = Count(lines, k)

FirstPassReads ==
  pass = 1 => \E k \in 0 .. Len(lines) : StandsBehind(k) /\ TableOf(k)

SecondPassWrites ==
  pass = 2 =>
    /\ TableOf(Len(lines))
    /\ \E k \in 0 .. Len(lines) : StandsBehind(k) /\ Len(output) = Count(lines, k)
    /\ \A j \in 1 .. Len(output) : /\ Accepted(Statements(lines)[j])
                                   /\ output[j] = Translation(Statements(lines)[j])

EndsAtEnd == asm = "done" => pass = 2 /\ cursor = Len(tokens)

ReadingInv == Lined(lines) => FirstPassReads /\ SecondPassWrites /\ EndsAtEnd

-----------------------------------------------------------------------------
\* The lines of a source, and where they stand.
LEMMA LinePlaces ==
  ASSUME ProgramInv
  PROVE  /\ lines \in Seq(SourceLines) /\ lines \in Seq(Seq(Tokens))
         /\ Len(lines) \in Nat /\ Len(tokens) \in Nat
         /\ \A k \in 1 .. Len(lines) :
              /\ lines[k] \in Seq(Tokens) /\ Len(lines[k]) \in Nat \ {0}
              /\ Offset(lines, k) = Offset(lines, k - 1) + Len(lines[k])
              /\ Offset(lines, k) <= Len(tokens)
              /\ \A i \in 1 .. Len(lines[k]) :
                   tokens[Offset(lines, k - 1) + i] = lines[k][i]
              /\ IF IsLabel(lines[k])
                 THEN Count(lines, k) = Count(lines, k - 1)
                 ELSE /\ Count(lines, k) = Count(lines, k - 1) + 1
                      /\ Count(lines, k) <= Len(Statements(lines))
                      /\ Statements(lines)[Count(lines, k)] = lines[k]
         /\ \A k \in 0 .. Len(lines) : Offset(lines, k) \in Nat /\ Count(lines, k) \in Nat
         /\ Offset(lines, 0) = 0 /\ Count(lines, 0) = 0
         /\ Offset(lines, Len(lines)) = Len(tokens)
         /\ Count(lines, Len(lines)) = Len(Statements(lines))
<1>1. lines \in Seq(SourceLines) /\ Len(lines) \in Nat /\ tokens = FlattenSeq(lines)
  BY LenProperties DEF ProgramInv
<1>2. \A k \in 1 .. Len(lines) : lines[k] \in Seq(Tokens) /\ lines[k] # << >>
  BY <1>1, ElementOfSeq DEF SourceLines
<1>3. lines \in Seq(Seq(Tokens))
  <2>1. lines = [i \in 1 .. Len(lines) |-> lines[i]]
    BY <1>1, LenProperties
  <2> QED
    BY <1>1, <1>2, <2>1, IsASeq
<1>4. \A k \in 1 .. Len(lines) : Len(lines[k]) \in Nat \ {0}
  BY <1>2, EmptySeq, LenProperties
<1>5. Len(tokens) \in Nat
  BY <1>1, <1>3, FlattenType, LenProperties
<1>6. TokensPlaced(lines) /\ StatementsPlaced(lines)
  BY <1>3, TokensArePlaced, StatementsArePlaced
<1>7. 0 \in 0 .. Len(lines)
  BY <1>1
<1>8. /\ \A k \in 0 .. Len(lines) : Offset(lines, k) \in Nat
      /\ Offset(lines, 0) = 0 /\ Offset(lines, Len(lines)) = Len(tokens)
  BY <1>1, <1>3, <1>7, OffsetType
<1>9. /\ \A k \in 0 .. Len(lines) : Count(lines, k) \in Nat
      /\ Count(lines, 0) = 0 /\ Count(lines, Len(lines)) = Len(Statements(lines))
  BY <1>1, <1>3, <1>7, CountType
<1>10. ASSUME NEW k \in 1 .. Len(lines)
       PROVE  /\ Offset(lines, k) = Offset(lines, k - 1) + Len(lines[k])
              /\ Offset(lines, k) <= Len(tokens)
              /\ \A i \in 1 .. Len(lines[k]) :
                   tokens[Offset(lines, k - 1) + i] = lines[k][i]
  BY <1>1, <1>6, Zenon DEF TokensPlaced
<1>11. ASSUME NEW k \in 1 .. Len(lines)
       PROVE  IF IsLabel(lines[k])
              THEN Count(lines, k) = Count(lines, k - 1)
              ELSE /\ Count(lines, k) = Count(lines, k - 1) + 1
                   /\ Count(lines, k) <= Len(Statements(lines))
                   /\ Statements(lines)[Count(lines, k)] = lines[k]
  BY <1>6, Zenon DEF StatementsPlaced
<1> QED
  BY <1>1, <1>2, <1>3, <1>4, <1>5, <1>8, <1>9, <1>10, <1>11, Zenon

\* Behind the last line there is no token, and behind every other there is one.
LEMMA EndOfLines ==
  ASSUME ProgramInv, NEW k \in 0 .. Len(lines)
  PROVE  Offset(lines, k) < Len(tokens) <=> k < Len(lines)
<1>1. CASE k = Len(lines)
  BY <1>1, LinePlaces
<1>2. CASE k < Len(lines)
  <2>1. k + 1 \in 1 .. Len(lines) /\ (k + 1) - 1 = k
    BY <1>2, LinePlaces
  <2>2. /\ Offset(lines, k + 1) = Offset(lines, k) + Len(lines[k + 1])
        /\ Offset(lines, k + 1) <= Len(tokens)
        /\ Len(lines[k + 1]) \in Nat \ {0}
    BY <2>1, LinePlaces
  <2> QED
    BY <1>2, <2>2, LinePlaces
<1> QED
  BY <1>1, <1>2, LinePlaces

\* The tokens at the cursor are those of the next line.
LEMMA TokensOfLine ==
  ASSUME ProgramInv, NEW k \in 1 .. Len(lines), NEW i \in 1 .. Len(lines[k])
  PROVE  At(Offset(lines, k - 1) + i - 1) = lines[k][i]
<1>1. PICK o \in Nat : o = Offset(lines, k - 1)
  <2>1. k - 1 \in 0 .. Len(lines)
    BY LinePlaces
  <2> QED
    BY <2>1, LinePlaces
<1>2. tokens[o + i] = lines[k][i]
  BY <1>1, LinePlaces
<1>3. (o + i - 1) + 1 = o + i
  BY LinePlaces
<1> QED
  BY <1>1, <1>2, <1>3, Zenon DEF At

\* The second pass at a statement reads the statement.
LEMMA LineTranslated ==
  ASSUME ProgramInv, NEW k \in 1 .. Len(lines), Whole(lines[k]), ~IsLabel(lines[k]),
         NEW c \in Nat, c = Offset(lines, k - 1)
  PROVE  /\ At(c) = lines[k][1]
         /\ Len(lines[k]) = Width(At(c).op, At(c).type)
         /\ Emittable(c) => /\ Accepted(lines[k])
                            /\ InstrAt(c) = Translation(lines[k])
<1>1. PICK line \in Seq(Tokens) : line = lines[k] /\ Len(line) \in Nat \ {0}
  BY LinePlaces
<1>2. \A i \in 1 .. Len(line) : At(c + i - 1) = line[i]
  BY <1>1, TokensOfLine
<1>3. At(c) = line[1]
  <2>1. 1 \in 1 .. Len(line) /\ c + 1 - 1 = c
    BY <1>1
  <2> QED
    BY <1>2, <2>1
<1>4. PICK op, type : op = At(c).op /\ type = At(c).type
  OBVIOUS
<1>5. Len(line) = Width(op, type)
  <2>1. ASSUME NEW l, line = <<Label(l)>> PROVE FALSE
    BY <1>1, <2>1 DEF IsLabel, Label
  <2> QED
    BY <1>1, <1>3, <1>4, <2>1 DEF Whole
<1>6. /\ Argc(op, type) \in Nat
      /\ Width(op, type) = ArgsOffset(op) + Argc(op, type)
      /\ DestOffset(op) \in {1, 2} /\ ArgsOffset(op) \in {1, 2, 3}
      /\ HasDest(op) => ArgsOffset(op) = DestOffset(op) + 1
      /\ HasCondition(op) => ArgsOffset(op) >= 2
  BY SkippedIsWidth DEF Width, ArgsOffset, DestOffset
<1>7. HasCondition(op) => At(c + 1) = line[2]
  <2>1. HasCondition(op) => 2 \in 1 .. Len(line) /\ c + 2 - 1 = c + 1
    BY <1>1, <1>5, <1>6
  <2> QED
    BY <1>2, <2>1
<1>8. HasDest(op) => At(c + DestOffset(op)) = line[1 + DestOffset(op)]
  <2>1. HasDest(op) => /\ 1 + DestOffset(op) \in 1 .. Len(line)
                       /\ c + (1 + DestOffset(op)) - 1 = c + DestOffset(op)
    BY <1>1, <1>5, <1>6
  <2> QED
    BY <1>2, <2>1
<1>9. ASSUME NEW i \in 1 .. Argc(op, type)
      PROVE  At(c + ArgsOffset(op) + i - 1) = line[ArgsOffset(op) + i]
  <2>1. /\ ArgsOffset(op) + i \in 1 .. Len(line)
        /\ c + (ArgsOffset(op) + i) - 1 = c + ArgsOffset(op) + i - 1
    BY <1>1, <1>5, <1>6
  <2> QED
    BY <1>2, <2>1
<1>10. Emittable(c) => Accepted(line)
  <2> SUFFICES ASSUME Emittable(c) PROVE Accepted(line)
    OBVIOUS
  <2>1. /\ IsInstr(At(c))
        /\ HasCondition(op) => At(c + 1).t = "cond"
        /\ HasDest(op) => LooksLike(At(c + DestOffset(op)), FileOf(type))
        /\ \A i \in 1 .. Argc(op, type) :
             AcceptsArg(At(c + ArgsOffset(op) + i - 1), op, type, i)
    BY <1>4, Zenon DEF Emittable
  <2>2. \A i \in 1 .. Argc(op, type) : AcceptsArg(line[ArgsOffset(op) + i], op, type, i)
    BY <1>9, <2>1, Zenon
  <2> QED
    BY <1>3, <1>4, <1>7, <1>8, <2>1, <2>2, Zenon DEF Accepted
<1>11. InstrAt(c) = Translation(line)
  <2>1. [i \in 1 .. Argc(op, type) |-> ParseArg(At(c + ArgsOffset(op) + i - 1), op, type)]
          = [i \in 1 .. Argc(op, type) |-> ParseArg(line[ArgsOffset(op) + i], op, type)]
    BY <1>9, Zenon
  <2>2. (IF HasDest(op) THEN ParseReg(At(c + DestOffset(op))) ELSE 0)
          = IF HasDest(op) THEN ParseReg(line[1 + DestOffset(op)]) ELSE 0
    BY <1>8, Zenon
  <2>3. (IF HasCondition(op) THEN At(c + 1).name
         ELSE IF At(c).cond THEN "enable" ELSE "disable")
          = IF HasCondition(op) THEN line[2].name
            ELSE IF line[1].cond THEN "enable" ELSE "disable"
    BY <1>3, <1>7, Zenon
  <2>4. op = line[1].op /\ type = line[1].type
    BY <1>3, <1>4, Zenon
  <2> QED
    BY <1>4, <2>1, <2>2, <2>3, <2>4, Zenon DEF InstrAt, Translation
<1> QED
  BY <1>1, <1>3, <1>4, <1>5, <1>10, <1>11, Zenon

\* A pass at a label stands at a line that is the label.
LEMMA LabelLine ==
  ASSUME ProgramInv, NEW k \in 1 .. Len(lines), Whole(lines[k]), IsLabel(lines[k]),
         NEW c \in Nat, c = Offset(lines, k - 1)
  PROVE  lines[k] = <<Label(At(c).name)>> /\ Len(lines[k]) = 1
<1>1. PICK l : lines[k] = <<Label(l)>>
  BY DEF Whole, IsLabel
<1>2. At(c) = Label(l)
  <2>1. 1 \in 1 .. Len(lines[k]) /\ c + 1 - 1 = c /\ lines[k][1] = Label(l)
    BY <1>1
  <2> QED
    BY <2>1, TokensOfLine
<1> QED
  BY <1>1, <1>2 DEF Label

\* Where a pass stands when there are tokens left: in front of a line.
LEMMA NextLine ==
  ASSUME ProgramInv, Present(cursor), NEW k \in 0 .. Len(lines), StandsBehind(k)
  PROVE  /\ k + 1 \in 1 .. Len(lines) /\ (k + 1) - 1 = k
         /\ cursor \in Nat /\ cursor = Offset(lines, (k + 1) - 1)
         /\ At(cursor) = lines[k + 1][1]
         /\ IsLabel(lines[k + 1]) <=> At(cursor).t = "label"
<1>1. cursor \in Nat /\ Len(lines) \in Nat
  BY LinePlaces DEF ProgramInv, TypeOK, AsmTypeOK
<1>2. k < Len(lines)
  BY EndOfLines DEF StandsBehind, Present
<1>3. k + 1 \in 1 .. Len(lines) /\ (k + 1) - 1 = k
  BY <1>1, <1>2
<1>4. cursor = Offset(lines, (k + 1) - 1)
  BY <1>3 DEF StandsBehind
<1>5. At(cursor) = lines[k + 1][1]
  <2>1. 1 \in 1 .. Len(lines[k + 1])
    BY <1>3, LinePlaces
  <2>2. At(Offset(lines, (k + 1) - 1) + 1 - 1) = lines[k + 1][1]
    BY <1>3, <2>1, TokensOfLine
  <2>3. Offset(lines, (k + 1) - 1) + 1 - 1 = cursor
    BY <1>1, <1>4
  <2> QED
    BY <2>2, <2>3, Zenon
<1> QED
  BY <1>1, <1>3, <1>4, <1>5 DEF IsLabel

\* A label goes to the end of the table.
LEMMA TableGrows ==
  ASSUME ProgramInv, NEW k \in 0 .. Len(lines), k < Len(lines), TableOf(k),
         NEW e \in [name : Labels, address : Nat],
         labels' = Append(labels, e), lines' = lines,
         lines[k + 1] = <<Label(e.name)>>, e.address = Count(lines, k + 1)
  PROVE  TableOf(k + 1)'
<1>1. PICK n \in Nat : n = Len(labels)
  BY LenProperties DEF ProgramInv, TypeOK, AsmTypeOK
<1>2. PICK w \in [1 .. n -> 1 .. k] : Lists(w, k)
  BY <1>1 DEF TableOf
<1>3. /\ Len(labels') = n + 1 /\ labels'[n + 1] = e
      /\ \A i \in 1 .. n : labels'[i] = labels[i]
  <2>1. labels \in Seq([name : Labels, address : Nat])
    BY DEF ProgramInv, TypeOK, AsmTypeOK
  <2> QED
    BY <1>1, <2>1, AppendProperties
<1>4. k \in Nat
  BY LinePlaces
<1> DEFINE v == [i \in 1 .. n + 1 |-> IF i = n + 1 THEN k + 1 ELSE w[i]]
<1>5. v \in [1 .. n + 1 -> 1 .. k + 1]
  BY <1>2, <1>4
<1>6. v[n + 1] = k + 1 /\ \A i \in 1 .. n : v[i] = w[i] /\ w[i] \in 1 .. k
  BY <1>2
<1> HIDE DEF v
<1>7. ASSUME NEW i \in 1 .. n + 1
      PROVE  /\ lines[v[i]] = <<Label(labels'[i].name)>>
             /\ labels'[i].address = Count(lines, v[i])
  <2>1. CASE i = n + 1
    <3>1. labels'[i] = e /\ v[i] = k + 1
      BY <1>3, <1>6, <2>1, Zenon
    <3> QED
      BY <3>1
  <2>2. CASE i \in 1 .. n
    <3>1. /\ lines[w[i]] = <<Label(labels[i].name)>>
          /\ labels[i].address = Count(lines, w[i])
      BY <1>1, <1>2, <2>2, Zenon DEF Lists
    <3> QED
      BY <1>3, <1>6, <2>2, <3>1, Zenon
  <2>3. i = n + 1 \/ i \in 1 .. n
    OBVIOUS
  <2> QED
    BY <2>1, <2>2, <2>3, Zenon
<1>8. ASSUME NEW i \in 1 .. n + 1, NEW j \in 1 .. n + 1, i < j
      PROVE  v[i] < v[j]
  <2>1. i \in 1 .. n
    BY <1>8
  <2>2. CASE j = n + 1
    BY <1>4, <1>6, <2>1, <2>2
  <2>3. CASE j \in 1 .. n
    <3>1. w[i] < w[j]
      BY <1>1, <1>2, <1>8, <2>1, <2>3 DEF Lists
    <3> QED
      BY <1>6, <2>1, <2>3, <3>1
  <2> QED
    BY <2>2, <2>3
<1>9. ASSUME NEW m \in 1 .. k + 1, IsLabel(lines[m])
      PROVE  \E i \in 1 .. n + 1 : v[i] = m
  <2>1. CASE m = k + 1
    BY <1>6, <2>1
  <2>2. CASE m \in 1 .. k
    <3>1. PICK i \in 1 .. n : w[i] = m
      BY <1>1, <1>2, <1>9, <2>2 DEF Lists
    <3> QED
      BY <1>6, <3>1
  <2> QED
    BY <1>4, <2>1, <2>2
<1>10. Lists(v, k + 1)'
  <2>1. Count(lines, v[1])' = Count(lines, v[1])
    OBVIOUS
  <2> QED
    BY <1>3, <1>7, <1>8, <1>9 DEF Lists
<1> QED
  BY <1>3, <1>5, <1>10 DEF TableOf

\* A statement leaves the table as it is.
LEMMA TableStays ==
  ASSUME ProgramInv, NEW k \in 0 .. Len(lines), k < Len(lines), TableOf(k),
         labels' = labels, lines' = lines, ~IsLabel(lines[k + 1])
  PROVE  TableOf(k + 1)'
<1>1. PICK n \in Nat : n = Len(labels)
  BY LenProperties DEF ProgramInv, TypeOK, AsmTypeOK
<1>2. PICK w \in [1 .. n -> 1 .. k] : Lists(w, k)
  BY <1>1 DEF TableOf
<1>3. k \in Nat
  BY LinePlaces
<1>4. w \in [1 .. n -> 1 .. k + 1]
  BY <1>2, <1>3
<1>5. \A m \in 1 .. k + 1 : m \in 1 .. k \/ m = k + 1
  BY <1>3
<1>6. Lists(w, k + 1)
  BY <1>2, <1>5, Zenon DEF Lists
<1>7. Lists(w, k + 1)'
  BY <1>6 DEF Lists
<1> QED
  BY <1>1, <1>4, <1>7 DEF TableOf

\* The first pass goes from line to line.
LEMMA FirstPassReadsOn ==
  ASSUME ProgramInv, Lined(lines), FirstPassReads, DefineLabel \/ SkipInstr,
         lines' = lines
  PROVE  FirstPassReads'
<1>1. PICK k \in 0 .. Len(lines) : StandsBehind(k) /\ TableOf(k)
  BY DEF FirstPassReads, DefineLabel, SkipInstr
<1>2. /\ k + 1 \in 1 .. Len(lines) /\ (k + 1) - 1 = k
      /\ cursor \in Nat /\ cursor = Offset(lines, (k + 1) - 1)
      /\ At(cursor) = lines[k + 1][1]
      /\ IsLabel(lines[k + 1]) <=> At(cursor).t = "label"
  BY <1>1, NextLine DEF DefineLabel, SkipInstr
<1>3. /\ Offset(lines, k + 1) = Offset(lines, k) + Len(lines[k + 1])
      /\ Offset(lines, k + 1) <= Len(tokens) /\ Len(tokens) \in Nat
      /\ Offset(lines, k) \in Nat /\ Count(lines, k) \in Nat
      /\ Len(lines[k + 1]) \in Nat
      /\ IF IsLabel(lines[k + 1]) THEN Count(lines, k + 1) = Count(lines, k)
                                  ELSE Count(lines, k + 1) = Count(lines, k) + 1
  BY <1>2, LinePlaces
<1>4. k < Len(lines) /\ k + 1 \in 0 .. Len(lines)
  BY <1>2, LinePlaces
<1>5. Whole(lines[k + 1])
  BY <1>2 DEF Lined
<1>6. StandsBehind(k + 1)' /\ TableOf(k + 1)'
  <2>1. CASE DefineLabel
    <3>1. IsLabel(lines[k + 1])
      BY <1>2, <2>1 DEF DefineLabel
    <3>2. lines[k + 1] = <<Label(At(cursor).name)>> /\ Len(lines[k + 1]) = 1
      BY <1>2, <1>5, <3>1, LabelLine
    <3>3. PICK e : e = [name |-> At(cursor).name, address |-> current_pc]
      OBVIOUS
    <3>4. e \in [name : Labels, address : Nat]
      <4>1. At(cursor) \in Tokens
        BY <2>1, TokenAt DEF DefineLabel, Present, ProgramInv, TypeOK, AsmTypeOK
      <4>2. At(cursor).name \in Labels
        BY <2>1, <4>1, TokenFields DEF DefineLabel
      <4> QED
        BY <1>1, <1>3, <3>3, <4>2 DEF StandsBehind
    <3>5. e.name = At(cursor).name /\ e.address = Count(lines, k + 1)
      BY <1>1, <1>3, <3>1, <3>3 DEF StandsBehind
    <3>6. TableOf(k + 1)'
      BY <1>1, <1>4, <2>1, <3>2, <3>3, <3>4, <3>5, TableGrows DEF DefineLabel
    <3>7. cursor' = Offset(lines, k + 1) /\ current_pc' = Count(lines, k + 1)
      BY <1>1, <1>2, <1>3, <2>1, <3>1, <3>2 DEF DefineLabel, StandsBehind
    <3> QED
      BY <3>6, <3>7 DEF StandsBehind
  <2>2. CASE SkipInstr
    <3>1. ~IsLabel(lines[k + 1])
      BY <1>2, <2>2 DEF SkipInstr
    <3>2. Len(lines[k + 1]) = Skipped(At(cursor).op, At(cursor).type)
      BY <1>2, <1>5, <3>1, LineTranslated, SkippedIsWidth
    <3>3. TableOf(k + 1)'
      BY <1>1, <1>4, <2>2, <3>1, TableStays DEF SkipInstr
    <3>4. cursor' = Consumed(cursor, Len(lines[k + 1])) /\ current_pc' = current_pc + 1
      BY <2>2, <3>2 DEF SkipInstr
    <3>5. Consumed(cursor, Len(lines[k + 1])) = Offset(lines, k + 1)
      BY <1>2, <1>3 DEF Consumed
    <3>6. cursor' = Offset(lines, k + 1) /\ current_pc' = Count(lines, k + 1)
      BY <1>1, <1>3, <3>1, <3>4, <3>5 DEF StandsBehind
    <3> QED
      BY <3>3, <3>6 DEF StandsBehind
  <2> QED
    BY <2>1, <2>2
<1> QED
  BY <1>4, <1>6 DEF FirstPassReads

\* The second pass starts with all the labels in the table.
LEMMA SecondPassStarts ==
  ASSUME ProgramInv, OutputCounted, FirstPassReads, SecondPass, lines' = lines
  PROVE  SecondPassWrites'
<1>1. PICK k \in 0 .. Len(lines) : StandsBehind(k) /\ TableOf(k)
  BY DEF FirstPassReads, SecondPass
<1>2. k = Len(lines) /\ 0 \in 0 .. Len(lines)
  <2>1. ~(Offset(lines, k) < Len(tokens))
    BY <1>1 DEF SecondPass, Present, StandsBehind
  <2> QED
    BY <2>1, EndOfLines, LinePlaces
<1>3. TableOf(Len(lines))'
  <2>1. TableOf(Len(lines))
    BY <1>1, <1>2
  <2>2. labels' = labels
    BY DEF SecondPass
  <2> QED
    BY <2>1, <2>2 DEF TableOf, Lists
<1>4. StandsBehind(0)'
  BY LinePlaces DEF SecondPass, StandsBehind
<1>5. output' = output /\ Len(output) = 0 /\ Count(lines, 0) = 0
  BY LinePlaces DEF SecondPass, OutputCounted
<1>6. \A j \in 1 .. Len(output') : FALSE
  BY <1>5
<1> QED
  BY <1>2, <1>3, <1>4, <1>5, <1>6 DEF SecondPassWrites

\* The second pass goes from line to line and writes the translation of each.
LEMMA SecondPassWritesOn ==
  ASSUME ProgramInv, Lined(lines), SecondPassWrites, PassLabel \/ EmitInstr,
         lines' = lines
  PROVE  SecondPassWrites'
<1>1. PICK k \in 0 .. Len(lines) : StandsBehind(k) /\ Len(output) = Count(lines, k)
  BY DEF SecondPassWrites, PassLabel, EmitInstr
<1>2. /\ k + 1 \in 1 .. Len(lines) /\ (k + 1) - 1 = k
      /\ cursor \in Nat /\ cursor = Offset(lines, (k + 1) - 1)
      /\ At(cursor) = lines[k + 1][1]
      /\ IsLabel(lines[k + 1]) <=> At(cursor).t = "label"
  BY <1>1, NextLine DEF PassLabel, EmitInstr
<1>3. /\ Offset(lines, k + 1) = Offset(lines, k) + Len(lines[k + 1])
      /\ Offset(lines, k) \in Nat /\ Count(lines, k) \in Nat
      /\ IF IsLabel(lines[k + 1])
         THEN Count(lines, k + 1) = Count(lines, k)
         ELSE /\ Count(lines, k + 1) = Count(lines, k) + 1
              /\ Statements(lines)[Count(lines, k + 1)] = lines[k + 1]
  BY <1>2, LinePlaces
<1>4. k + 1 \in 0 .. Len(lines)
  BY <1>2, LinePlaces
<1>5. Whole(lines[k + 1])
  BY <1>2 DEF Lined
<1>6. labels' = labels /\ tokens' = tokens /\ pass = 2
  BY DEF PassLabel, EmitInstr
<1>7. TableOf(Len(lines))'
  <2>1. TableOf(Len(lines))
    BY <1>6 DEF SecondPassWrites
  <2> QED
    BY <1>6, <2>1 DEF TableOf, Lists
<1>8. \A line : Accepted(line)' = Accepted(line) /\ Translation(line)' = Translation(line)
  BY <1>6 DEF Accepted, Translation, AcceptsArg, ParseArg, Defined, LabelAddress
<1>9. \A j \in 1 .. Len(output) : /\ Accepted(Statements(lines)[j])
                                  /\ output[j] = Translation(Statements(lines)[j])
  BY <1>6 DEF SecondPassWrites
<1>10. CASE PassLabel
  <2>1. IsLabel(lines[k + 1])
    BY <1>2, <1>10 DEF PassLabel
  <2>2. Len(lines[k + 1]) = 1
    BY <1>2, <1>5, <2>1, LabelLine
  <2>3. StandsBehind(k + 1)'
    BY <1>1, <1>2, <1>3, <1>10, <2>1, <2>2 DEF PassLabel, StandsBehind
  <2>4. output' = output /\ Len(output) = Count(lines, k + 1)
    BY <1>1, <1>3, <1>10, <2>1 DEF PassLabel
  <2> QED
    BY <1>4, <1>7, <1>8, <1>9, <2>3, <2>4 DEF SecondPassWrites
<1>11. CASE EmitInstr
  <2>1. ~IsLabel(lines[k + 1])
    BY <1>2, <1>11 DEF EmitInstr
  <2>2. /\ Len(lines[k + 1]) = Width(At(cursor).op, At(cursor).type)
        /\ Accepted(lines[k + 1]) /\ InstrAt(cursor) = Translation(lines[k + 1])
    BY <1>2, <1>5, <1>11, <2>1, LineTranslated DEF EmitInstr
  <2>3. StandsBehind(k + 1)'
    BY <1>1, <1>2, <1>3, <1>11, <2>1, <2>2 DEF EmitInstr, StandsBehind
  <2>4. PICK n \in Nat : n = Len(output) /\ n + 1 = Count(lines, k + 1)
    BY <1>1, <1>3, <2>1
  <2>5. /\ Len(output') = n + 1 /\ output'[n + 1] = Translation(lines[k + 1])
        /\ \A j \in 1 .. n : output'[j] = output[j]
    <3>1. output \in Seq(WrittenInstrs) /\ output' = Append(output, InstrAt(cursor))
      BY <1>11 DEF EmitInstr, ProgramInv
    <3>2. InstrAt(cursor) \in WrittenInstrs
      BY <1>2, <1>11, WrittenWell DEF EmitInstr, Present, ProgramInv, TypeOK
    <3> QED
      BY <2>2, <2>4, <3>1, <3>2, AppendProperties
  <2>6. ASSUME NEW j \in 1 .. n + 1
        PROVE  /\ Accepted(Statements(lines)[j])
               /\ output'[j] = Translation(Statements(lines)[j])
    <3>1. CASE j = n + 1
      <4>1. Statements(lines)[j] = lines[k + 1]
        BY <1>3, <2>1, <2>4, <3>1
      <4> QED
        BY <2>2, <2>5, <3>1, <4>1, Zenon
    <3>2. CASE j \in 1 .. n
      BY <1>9, <2>4, <2>5, <3>2, Zenon
    <3> QED
      BY <3>1, <3>2
  <2>7. \A j \in 1 .. Len(output') : /\ Accepted(Statements(lines)[j])'
                                     /\ output'[j] = Translation(Statements(lines)[j])'
    BY <1>8, <2>5, <2>6
  <2> QED
    BY <1>4, <1>7, <2>3, <2>4, <2>5, <2>7 DEF SecondPassWrites
<1> QED
  BY <1>10, <1>11

\* Before the first pass nothing has been read and the table is empty.
LEMMA ReadingInit ==
  ASSUME Init
  PROVE  ReadingInv
<1>1. ProgramInv
  BY ProgramInit
<1>2. /\ cursor = 0 /\ current_pc = 0 /\ pass = 1 /\ asm = "running" /\ labels = << >>
  BY DEF Init, AsmInit
<1>3. 0 \in 0 .. Len(lines) /\ StandsBehind(0)
  BY <1>1, <1>2, LinePlaces DEF StandsBehind
<1>4. TableOf(0)
  <2>1. Len(labels) = 0
    BY <1>2
  <2>2. PICK w : w \in [1 .. 0 -> 1 .. 0]
    <3>1. [i \in 1 .. 0 |-> 0] \in [1 .. 0 -> 1 .. 0]
      OBVIOUS
    <3> QED
      BY <3>1
  <2>3. Lists(w, 0)
    BY <2>1 DEF Lists
  <2> QED
    BY <2>1, <2>2, <2>3 DEF TableOf
<1> QED
  BY <1>2, <1>3, <1>4 DEF ReadingInv, FirstPassReads, SecondPassWrites, EndsAtEnd

\* Every call of process_instruction reads one line more of a whole source
\* (compiler.c:250-394).
LEMMA ReadingStep ==
  ASSUME ProgramInv, OutputCounted, ReadingInv, [Next]_vars
  PROVE  ReadingInv'
<1> SUFFICES ASSUME Lined(lines)
             PROVE  FirstPassReads' /\ SecondPassWrites' /\ EndsAtEnd'
  <2>1. lines' = lines
    BY DEF Next, vars, Assemble, Load, Shade, Transform, Execute
  <2> QED
    BY <2>1 DEF ReadingInv, Lined
<1>1. lines' = lines
  BY DEF Next, vars, Assemble, Load, Shade, Transform, Execute
<1>2. FirstPassReads /\ SecondPassWrites /\ EndsAtEnd
  BY DEF ReadingInv
<1>3. CASE DefineLabel \/ SkipInstr
  <2>1. FirstPassReads'
    BY <1>1, <1>2, <1>3, FirstPassReadsOn
  <2>2. SecondPassWrites' /\ EndsAtEnd'
    BY <1>3 DEF DefineLabel, SkipInstr, SecondPassWrites, EndsAtEnd
  <2> QED
    BY <2>1, <2>2
<1>4. CASE SecondPass
  <2>1. SecondPassWrites'
    BY <1>1, <1>2, <1>4, SecondPassStarts
  <2>2. FirstPassReads' /\ EndsAtEnd'
    BY <1>4 DEF SecondPass, FirstPassReads, EndsAtEnd
  <2> QED
    BY <2>1, <2>2
<1>5. CASE PassLabel \/ EmitInstr
  <2>1. SecondPassWrites'
    BY <1>1, <1>2, <1>5, SecondPassWritesOn
  <2>2. FirstPassReads' /\ EndsAtEnd'
    BY <1>5 DEF PassLabel, EmitInstr, FirstPassReads, EndsAtEnd
  <2> QED
    BY <2>1, <2>2
<1>6. ASSUME UNCHANGED <<tokens, pass, cursor, current_pc, labels, output>>
      PROVE  FirstPassReads' /\ SecondPassWrites'
  <2>1. \A k : StandsBehind(k)' = StandsBehind(k) /\ TableOf(k)' = TableOf(k)
    BY <1>1, <1>6 DEF StandsBehind, TableOf, Lists
  <2>2. \A line : Accepted(line)' = Accepted(line) /\ Translation(line)' = Translation(line)
    BY <1>6 DEF Accepted, Translation, AcceptsArg, ParseArg, Defined, LabelAddress
  <2>3. FirstPassReads'
    BY <1>1, <1>2, <1>6, <2>1 DEF FirstPassReads
  <2>4. SecondPassWrites'
    <3>1. pass' = pass /\ output' = output /\ lines' = lines
      BY <1>1, <1>6
    <3> QED
      BY <1>2, <2>1, <2>2, <3>1 DEF SecondPassWrites
  <2> QED
    BY <2>3, <2>4
<1>7. CASE ReportError
  BY <1>6, <1>7 DEF ReportError, EndsAtEnd
<1>8. CASE Finish
  <2>1. pass = 2 /\ cursor = Len(tokens)
    BY <1>8 DEF Finish, Present, ProgramInv, TypeOK, AsmTypeOK
  <2> QED
    BY <1>6, <1>8, <2>1 DEF Finish, EndsAtEnd
<1>9. CASE UNCHANGED asmVars
  <2>1. EndsAtEnd'
    BY <1>2, <1>9 DEF asmVars, EndsAtEnd
  <2> QED
    BY <1>6, <1>9, <2>1 DEF asmVars
<1> QED
  BY <1>3, <1>4, <1>5, <1>7, <1>8, <1>9
  DEF Next, vars, asmVars, Assemble, AsmNext, Load, Shade, Transform, Execute

\* The address of a label is the place of the statement behind it: in the table
\* and in the source the first definition counts.
LEMMA AddressIsPlace ==
  ASSUME ProgramInv, TableOf(Len(lines)), NEW l, Defined(l)
  PROVE  LabelAddress(l) = LabelPlace(lines, l)
<1>1. PICK n \in Nat : n = Len(labels)
  BY LenProperties DEF ProgramInv, TypeOK, AsmTypeOK
<1>2. PICK w \in [1 .. n -> 1 .. Len(lines)] : Lists(w, Len(lines))
  BY <1>1 DEF TableOf
<1> DEFINE Found(k) == /\ labels[k].name = l
                       /\ \A j \in 1 .. k - 1 : labels[j].name # l
           i == CHOOSE k \in 1 .. Len(labels) : Found(k)
<1>3. i \in 1 .. n /\ Found(i)
  <2> DEFINE K == {k \in 1 .. Len(labels) : labels[k].name = l}
  <2>1. PICK k \in K : \A j \in K : k <= j
    <3>1. K \in SUBSET Nat /\ K # {}
      BY DEF Defined
    <3> HIDE DEF K
    <3> QED
      BY <3>1, LeastNumber
  <2>2. \A j \in 1 .. k - 1 : j \in 1 .. Len(labels) /\ ~(k <= j)
    BY <1>1, <2>1
  <2>3. k \in 1 .. Len(labels) /\ Found(k)
    BY <2>1, <2>2
  <2> HIDE DEF Found
  <2> QED
    BY <1>1, <2>3
<1>4. LabelAddress(l) = labels[i].address
  BY DEF LabelAddress
<1> HIDE DEF i
<1> DEFINE Stands(k) == /\ lines[k] = <<Label(l)>>
                        /\ \A j \in 1 .. k - 1 : lines[j] # <<Label(l)>>
           m == CHOOSE k \in DOMAIN lines : Stands(k)
<1>5. DOMAIN lines = 1 .. Len(lines) /\ Len(lines) \in Nat
  BY LinePlaces, LenProperties
<1>6. LabelPlace(lines, l) = Count(lines, m)
  BY DEF LabelPlace, Count
<1>7. w[i] \in 1 .. Len(lines) /\ lines[w[i]] = <<Label(l)>>
  BY <1>1, <1>2, <1>3 DEF Lists
<1>8. ASSUME NEW k \in 1 .. Len(lines), k < w[i] PROVE lines[k] # <<Label(l)>>
  <2> SUFFICES ASSUME lines[k] = <<Label(l)>> PROVE FALSE
    OBVIOUS
  <2>1. IsLabel(lines[k])
    BY DEF IsLabel, Label
  <2>2. PICK j \in 1 .. n : w[j] = k
    BY <1>1, <1>2, <2>1 DEF Lists
  <2>3. labels[j].name = l
    <3>1. <<Label(labels[j].name)>> = <<Label(l)>>
      BY <1>1, <1>2, <2>2 DEF Lists
    <3> QED
      BY <3>1 DEF Label
  <2>4. ~(j < i)
    BY <1>1, <1>3, <2>3
  <2>5. i < j => w[i] < w[j]
    BY <1>1, <1>2, <1>3 DEF Lists
  <2>6. i = j => w[i] = w[j]
    OBVIOUS
  <2> QED
    BY <1>3, <1>7, <1>8, <2>2, <2>4, <2>5, <2>6
<1>9. Stands(w[i])
  BY <1>5, <1>7, <1>8
<1>10. m \in 1 .. Len(lines) /\ Stands(m)
  BY <1>5, <1>7, <1>9
<1> HIDE DEF m
<1>11. m = w[i]
  <2>1. ~(w[i] < m)
    <3>1. PICK x \in 1 .. Len(lines) : x = w[i] /\ lines[x] = <<Label(l)>>
      BY <1>7
    <3>2. \A j \in 1 .. m - 1 : lines[j] # <<Label(l)>>
      BY <1>10
    <3>3. x \notin 1 .. m - 1
      BY <3>1, <3>2, Zenon
    <3> QED
      BY <1>5, <1>10, <3>1, <3>3
  <2>2. ~(m < w[i])
    BY <1>8, <1>10
  <2> QED
    BY <1>5, <1>7, <1>10, <2>1, <2>2
<1>12. labels[i].address = Count(lines, w[i])
  BY <1>1, <1>2, <1>3 DEF Lists
<1> QED
  BY <1>4, <1>6, <1>11, <1>12

\* What is written at the end: one translation for each statement.
LEMMA EverythingWritten ==
  ASSUME ProgramInv, ReadingInv, Lined(lines), asm = "done"
  PROVE  /\ TableOf(Len(lines))
         /\ Len(output) = Len(Statements(lines))
         /\ \A j \in 1 .. Len(output) : /\ Accepted(Statements(lines)[j])
                                        /\ output[j] = Translation(Statements(lines)[j])
<1>1. pass = 2 /\ cursor = Len(tokens) /\ SecondPassWrites
  BY DEF ReadingInv, EndsAtEnd
<1>2. PICK k \in 0 .. Len(lines) : StandsBehind(k) /\ Len(output) = Count(lines, k)
  BY <1>1 DEF SecondPassWrites
<1>3. k = Len(lines)
  BY <1>1, <1>2, EndOfLines, LinePlaces DEF StandsBehind
<1> QED
  BY <1>1, <1>2, <1>3, LinePlaces DEF SecondPassWrites

\* A jump to a label carries the label's address.
LEMMA JumpTranslated ==
  ASSUME NEW line, Accepted(line), line[1].op = "jmp", line[2].t = "word"
  PROVE  Defined(line[2].name) /\ Translation(line).args[1].n = LabelAddress(line[2].name)
<1>1. PICK type : type = line[1].type
  OBVIOUS
<1>2. Argc("jmp", type) = 1 /\ ArgsOffset("jmp") = 1
  BY DEF Argc, ArgsOffset, DestOffset, HasCondition, HasDest
<1>3. AcceptsArg(line[2], "jmp", type, 1)
  <2>1. 1 \in 1 .. Argc("jmp", type) /\ ArgsOffset("jmp") + 1 = 2
    BY <1>2
  <2> QED
    BY <1>1, <2>1 DEF Accepted
<1>4. Defined(line[2].name)
  BY <1>3 DEF AcceptsArg
<1>5. ParseArg(line[2], "jmp", type).n = LabelAddress(line[2].name)
  BY DEF ParseArg
<1>6. Translation(line).args[1] = ParseArg(line[2], "jmp", type)
  BY <1>1, <1>2 DEF Translation
<1> QED
  BY <1>4, <1>5, <1>6

\* When both passes have read all lines, every jump has its label's number.
LEMMA ReadingSuffices ==
  ASSUME ProgramInv, ReadingInv, Lined(lines)
  PROVE  JumpsResolved
<1> SUFFICES ASSUME asm = "done"
             PROVE  /\ Len(output) = Len(Statements(lines))
                    /\ \A k \in DOMAIN Statements(lines) :
                         output[k].op = "jmp" /\ Statements(lines)[k][2].t = "word" =>
                           output[k].args[1].n
                             = LabelPlace(lines, Statements(lines)[k][2].name)
  BY DEF JumpsResolved
<1>1. /\ TableOf(Len(lines))
      /\ Len(output) = Len(Statements(lines))
      /\ \A j \in 1 .. Len(output) : /\ Accepted(Statements(lines)[j])
                                     /\ output[j] = Translation(Statements(lines)[j])
  BY EverythingWritten
<1>2. ASSUME NEW k \in DOMAIN Statements(lines),
             output[k].op = "jmp", Statements(lines)[k][2].t = "word"
      PROVE  output[k].args[1].n = LabelPlace(lines, Statements(lines)[k][2].name)
  <2>1. k \in 1 .. Len(output)
    BY <1>1, <1>2, LinePlaces, StatementsType, LenProperties
  <2>2. PICK line : line = Statements(lines)[k]
    OBVIOUS
  <2>3. Accepted(line) /\ output[k] = Translation(line)
    BY <1>1, <2>1, <2>2
  <2>4. line[1].op = "jmp" /\ line[2].t = "word"
    BY <1>2, <2>2, <2>3 DEF Translation
  <2>5. Defined(line[2].name) /\ Translation(line).args[1].n = LabelAddress(line[2].name)
    BY <2>3, <2>4, JumpTranslated
  <2> QED
    BY <1>1, <2>2, <2>3, <2>5, AddressIsPlace
<1> QED
  BY <1>1, <1>2

\* For every source whose lines are whole statements, and any number of labels:
\* every statement becomes one instruction, and every jump to a label carries the
\* number of the statements before the label's first definition
\* (compiler.c:172-180, 250-394).
THEOREM JumpsAreResolved == Spec => [](Lined(lines) => JumpsResolved)
<1> DEFINE Inv == ProgramInv /\ OutputCounted /\ ReadingInv
<1>1. Init => Inv
  BY ProgramInit, ReadingInit DEF Init, AsmInit, OutputCounted
<1>2. Inv /\ [Next]_vars => Inv'
  <2>1. [Next]_vars => [AsmNext]_asmVars
    BY DEF Next, vars, asmVars, Assemble, Load, Shade, Transform, Execute
  <2>2. ProgramInv => AsmTypeOK
    BY DEF ProgramInv, TypeOK
  <2> QED
    BY <2>1, <2>2, ProgramStep, OutputStep, ReadingStep
<1>3. Inv => (Lined(lines) => JumpsResolved)
  BY ReadingSuffices
<1> HIDE DEF Inv
<1> QED
  BY <1>1, <1>2, <1>3, PTL DEF Spec

-----------------------------------------------------------------------------
(***************************************************************************)
(* The program refines its source: every turn of the interpreter's loop is *)
(* the step of ShaderSource for the statement that the instruction stands  *)
(* for.                                                                    *)
(***************************************************************************)
\* Sources of whole statements that are executed as they are written.
WellWritten(s) == Lined(s) /\ \A k \in 1 .. Len(s) : AsWritten(s, s[k])

\* What is uploaded is what was written for the whole source.
ProgramIsOutput == exec # "absent" => asm = "done" /\ program = output

RunInv ==
  /\ ProgramInv /\ OutputCounted /\ ReadingInv
  /\ WellWritten(lines) /\ ProgramIsOutput

\* The statement at the interpreter's address.
Current == Statements(lines)[address \div InstrSize + 1]

\* The instruction set means the same to the source.
LEMMA SharedIsa ==
  /\ \A s : Source!Statements(s) = Statements(s)
  /\ \A s, l : Source!LabelPlace(s, l) = LabelPlace(s, l)
  /\ \A op : /\ Source!HasCondition(op) <=> HasCondition(op)
             /\ Source!DestOffset(op) = DestOffset(op)
             /\ Source!ArgsOffset(op) = ArgsOffset(op)
  /\ \A op, type : /\ Source!Argc(op, type) = Argc(op, type)
                   /\ Source!KeepsRest(op, type) <=> KeepsRest(op, type)
  /\ \A op, type, v : Source!Traps(op, type, v) <=> Traps(op, type, v)
  /\ \A f, a, b : Source!Compare(f, a, b) = Compare(f, a, b)
<1>1. \A s : Source!Statements(s) = Statements(s)
  BY DEF Source!Statements, Statements, Source!Sift, Sift, Source!IsLabel, IsLabel
<1> QED
  BY <1>1 DEF Source!LabelPlace, LabelPlace, Source!Label, Label,
     Source!HasCondition, HasCondition, Source!DestOffset, DestOffset,
     Source!ArgsOffset, ArgsOffset, Source!HasDest, HasDest, Source!Argc, Argc,
     Source!KeepsRest, KeepsRest, Source!VectorTypes, VectorTypes,
     Source!Traps, Traps, Source!Compare, Compare

\* A statement that becomes one instruction and is executed as it is written.
Proper(line) ==
  /\ line \in SourceLines
  /\ line[1].t = "op" /\ Len(line) = Width(line[1].op, line[1].type)
  /\ Accepted(line) /\ AsWritten(lines, line)

\* The lines of a source are its labels and its statements: what holds of every
\* line that is no label holds of every statement.
LEMMA StatementIsLine ==
  ASSUME NEW S, NEW s \in Seq(S), NEW k \in 1 .. Len(Statements(s))
  PROVE  \E j \in 1 .. Len(s) : Statements(s)[k] = s[j] /\ ~IsLabel(s[j])
<1> DEFINE T == {s[j] : j \in {j \in DOMAIN s : ~IsLabel(s[j])}}
<1>1. Statements(s) = Sift(s, T)
  BY DEF Statements
<1> HIDE DEF T
<1>2. Sift(s, T) \in Seq(S \cap T)
  BY SiftIn
<1>3. Statements(s)[k] \in S \cap T
  BY <1>1, <1>2, ElementOfSeq
<1>4. DOMAIN s = 1 .. Len(s)
  BY LenProperties
<1> QED
  BY <1>3, <1>4 DEF T

\* The interpreter stands at the translation of a proper statement.
LEMMA CurrentIsProper ==
  ASSUME RunInv, exec = "running", OnInstr
  PROVE  Proper(Current) /\ Instr = Translation(Current)
<1> DEFINE k == address \div 16 + 1
<1>1. asm = "done" /\ program = output
  BY DEF RunInv, ProgramIsOutput
<1>2. /\ address \in Nat /\ address % 16 = 0 /\ address < 16 * Len(program)
      /\ Len(program) \in Nat
  BY LenProperties DEF RunInv, ProgramInv, TypeOK, OnInstr, InstrSize
<1>3. k \in 1 .. Len(program)
  BY <1>2
<1>4. Current = Statements(lines)[k] /\ Instr = program[k]
  BY DEF Current, Instr, InstrSize
<1>5. Lined(lines)
  BY DEF RunInv, WellWritten
<1>6. /\ Len(output) = Len(Statements(lines))
      /\ \A j \in 1 .. Len(output) : /\ Accepted(Statements(lines)[j])
                                     /\ output[j] = Translation(Statements(lines)[j])
  BY <1>1, <1>5, EverythingWritten DEF RunInv
<1> HIDE DEF k
<1>7. Accepted(Current) /\ Instr = Translation(Current)
  BY <1>1, <1>3, <1>4, <1>6
<1>8. lines \in Seq(SourceLines)
  BY DEF RunInv, ProgramInv
<1>9. PICK j \in 1 .. Len(lines) : Current = lines[j] /\ ~IsLabel(lines[j])
  BY <1>1, <1>3, <1>4, <1>6, <1>8, StatementIsLine
<1>10. lines[j] \in SourceLines
  BY <1>8, ElementOfSeq
<1>11. Whole(lines[j]) /\ AsWritten(lines, lines[j])
  BY <1>5 DEF Lined, RunInv, WellWritten
<1>12. \A l : lines[j] # <<Label(l)>>
  BY <1>9 DEF IsLabel, Label
<1>13. lines[j][1].t = "op" /\ Len(lines[j]) = Width(lines[j][1].op, lines[j][1].type)
  BY <1>11, <1>12 DEF Whole
<1> QED
  BY <1>7, <1>9, <1>10, <1>11, <1>13 DEF Proper

\* What a proper statement has: an opcode of the table, its tokens, and a
\* destination and operands that are what they look like.
LEMMA ProperShape ==
  ASSUME NEW line, Proper(line), NEW op, NEW type, op = line[1].op, type = line[1].type
  PROVE  /\ <<op, type>> \in Mnemonics
         /\ op \notin {"and", "or", "xor", "not", "rotx", "roty", "trans"}
         /\ op \in {"blend", "lerp"} /\ type = "u32" => line[5].t # "num"
         /\ <<op, type>> # <<"col", "u32">>
         /\ line[1].cond \in BOOLEAN
         /\ HasCondition(op) => line[2].name \in Conditions
         /\ \A k \in DOMAIN Reading(op, type) :
              Fits(line[ArgsOffset(op) + k], Reading(op, type)[k])
         /\ op = "cast" => line[3] = line[2]
         /\ op = "jmp" /\ line[2].t = "word" => lines[1] = <<Label(line[2].name)>>
<1>1. /\ line \in Seq(Tokens) /\ Len(line) = Width(op, type) /\ line[1].t = "op"
      /\ Accepted(line)
  BY DEF Proper, SourceLines
<1>2. <<op, type>> \in Mnemonics
  BY <1>1 DEF Accepted, IsInstr
<1>3. ~IsLabel(line)
  BY <1>1 DEF IsLabel
<1>4. AsWritten(lines, line)
  BY DEF Proper
<1>5. HasCondition(op) => Len(line) >= 2
  <2>1. Argc(op, type) \in Nat
    BY SkippedIsWidth
  <2> QED
    BY <1>1, <2>1 DEF Width, ArgsOffset, DestOffset
<1>6. line[1] \in Tokens
  <2>1. 1 \in 1 .. Len(line)
    <3>1. Width(op, type) >= 1 /\ Width(op, type) \in Nat
      BY <1>2, SkippedIsWidth
    <3> QED
      BY <1>1, <3>1
  <2> QED
    BY <1>1, <2>1, ElementOfSeq
<1>7. line[1].cond \in BOOLEAN
  BY <1>1, <1>6 DEF Tokens
<1>8. ASSUME HasCondition(op) PROVE line[2].name \in Conditions
  <2>1. line[2].t = "cond"
    BY <1>1, <1>8 DEF Accepted
  <2>2. line[2] \in Tokens
    <3>1. 2 \in 1 .. Len(line)
      <4>1. PICK n \in Nat : n = Len(line)
        BY <1>1, LenProperties
      <4>2. n >= 2
        BY <1>5, <1>8, <4>1
      <4> QED
        BY <4>1, <4>2
    <3> QED
      BY <1>1, <3>1, ElementOfSeq
  <2> QED
    BY <2>1, <2>2 DEF Tokens
<1>9. DestOffset("cast") = 1
  BY DEF DestOffset, HasCondition
<1> QED
  BY <1>2, <1>3, <1>4, <1>7, <1>8, <1>9 DEF AsWritten, HasDest

\* Statements that are executed as written have all their operands read.
LEMMA AllOperandsRead ==
  ASSUME NEW op, NEW type, <<op, type>> \in Mnemonics,
         op \notin {"jmp", "and", "or", "xor", "not"}, <<op, type>> # <<"col", "u32">>
  PROVE  Reading(op, type) \in [1 .. Argc(op, type) -> Readings]
<1>1. PICK n \in 0 .. 3 : n <= Argc(op, type) /\ Reading(op, type) \in [1 .. n -> Readings]
  BY ReadingShape
<1>2. CASE op = "col"
  <2>1. type = "vec3"
    BY <1>2 DEF Mnemonics
  <2>2. Argc(op, type) = 0
    BY <1>2, <2>1 DEF Argc
  <2> QED
    BY <1>1, <2>2
<1>3. CASE /\ op # "col"
           /\ op \in {"norm"} \/ <<op, type>> \in {<<"mov", "matrix">>, <<"len", "vec3">>}
  <2>1. Reading(op, type) = <<"mreg">> /\ <<"mreg">> \in [1 .. 1 -> Readings]
    BY <1>3 DEF Reading, Readings
  <2>2. Argc(op, type) = 1
    BY <1>3 DEF Argc
  <2> QED
    BY <2>1, <2>2
<1>4. CASE op \in {"dot", "cross"} \/ <<op, type>> = <<"mul", "matrix">>
  <2>1. /\ Reading(op, type) = <<"mreg", "mreg">>
        /\ <<"mreg", "mreg">> \in [1 .. 2 -> Readings]
    BY <1>4 DEF Reading, Readings
  <2>2. Argc(op, type) = 2
    BY <1>4 DEF Argc
  <2> QED
    BY <2>1, <2>2
<1>5. CASE op \in {"mul", "add", "sub"} /\ type \in {"vec4", "vec3"}
  <2>1. /\ Reading(op, type) \in {<<"mreg", "in">>, <<"mreg", "scalar">>}
        /\ <<"mreg", "in">> \in [1 .. 2 -> Readings]
        /\ <<"mreg", "scalar">> \in [1 .. 2 -> Readings]
    BY <1>5 DEF Reading, Readings
  <2>2. Argc(op, type) = 2
    BY <1>5 DEF Argc
  <2> QED
    BY <2>1, <2>2
<1>6. CASE op = "mod"
  <2>1. /\ Reading(op, type) = <<"preg", "scalar">>
        /\ <<"preg", "scalar">> \in [1 .. 2 -> Readings]
    BY <1>6 DEF Reading, Readings
  <2>2. Argc(op, type) = 2
    BY <1>6 DEF Argc
  <2> QED
    BY <2>1, <2>2
<1>7. CASE op \in {"abs", "cast"}
  <2>1. Reading(op, type) = <<"preg">> /\ <<"preg">> \in [1 .. 1 -> Readings]
    BY <1>7 DEF Reading, Readings
  <2>2. Argc(op, type) = 1
    BY <1>7 DEF Argc
  <2> QED
    BY <2>1, <2>2
<1>8. CASE /\ op # "col"
           /\ ~(op \in {"norm"} \/ <<op, type>> \in {<<"mov", "matrix">>, <<"len", "vec3">>})
           /\ ~(op \in {"dot", "cross"} \/ <<op, type>> = <<"mul", "matrix">>)
           /\ ~(op \in {"mul", "add", "sub"} /\ type \in {"vec4", "vec3"})
           /\ op # "mod" /\ op \notin {"abs", "cast"}
  <2>1. Reading(op, type) = [k \in 1 .. Argc(op, type) |-> "scalar"]
    BY <1>8 DEF Reading
  <2>2. [k \in 1 .. Argc(op, type) |-> "scalar"] \in [1 .. Argc(op, type) -> Readings]
    BY DEF Readings
  <2> QED
    BY <2>1, <2>2
<1> QED
  BY <1>2, <1>3, <1>4, <1>5, <1>6, <1>7, <1>8

\* An operand that fits what it is taken for is parsed into what it says.
LEMMA FittingOperand ==
  ASSUME NEW tok, NEW how \in Readings, Fits(tok, how), NEW op, NEW type
  PROVE  LET a == ParseArg(tok, op, type)
         IN /\ Readable(a, how)
            /\ tok.t = "num" => /\ Read(a, how) = Bits(a) /\ a.n = tok.n
                                /\ a.enc = IF type \in {"f32", "vec3"} /\ op # "ldu"
                                           THEN "float" ELSE "int"
            /\ tok.t \in {"num", "reg"}
            /\ tok.t = "reg" =>
                 /\ tok.file \in {"P", "M"} /\ a.n = tok.n
                 /\ tok.file = "P" => Read(a, how) = pRegs[tok.n]
                 /\ tok.file = "M" => Read(a, how) = IF tok.n = RegMIn THEN v_pos
                                                     ELSE regs[tok.n]
<1>1. CASE tok.t = "num"
  <2>1. PICK e : e = IF type \in {"f32", "vec3"} /\ op # "ldu" THEN "float" ELSE "int"
    OBVIOUS
  <2>2. ParseArg(tok, op, type) = [kind |-> "imm", n |-> tok.n, enc |-> e]
    BY <1>1, <2>1 DEF ParseArg
  <2>3. how = "scalar"
    BY <1>1 DEF Fits, Readings
  <2> QED
    BY <1>1, <2>1, <2>2, <2>3 DEF Readable, Read
<1>2. CASE tok.t = "reg"
  <2>1. ParseArg(tok, op, type) = [kind |-> "reg", n |-> tok.n, enc |-> "int"]
    BY <1>2 DEF ParseArg, ParseReg
  <2>2. PICK a : a = ParseArg(tok, op, type) /\ a.kind = "reg" /\ a.n = tok.n /\ a.enc = "int"
    BY <2>1
  <2>3. CASE how = "scalar"
    BY <1>2, <2>2, <2>3 DEF Fits, Readable, Read
  <2>4. CASE how = "preg"
    BY <1>2, <2>2, <2>4 DEF Fits, Readable, Read, InFile
  <2>5. CASE how = "mreg"
    BY <1>2, <2>2, <2>5 DEF Fits, Readable, Read, InFile, MatRegs, RegMIn
  <2>6. CASE how = "in"
    BY <1>2, <2>2, <2>6 DEF Fits, Readable, Read, InFile
  <2> QED
    BY <2>3, <2>4, <2>5, <2>6 DEF Readings
<1>3. tok.t = "num" \/ tok.t = "reg"
  BY DEF Fits, Readings
<1> QED
  BY <1>1, <1>2, <1>3

-----------------------------------------------------------------------------
\* What the source reads at the interpreter's place.
LEMMA SourceReads ==
  ASSUME exec = "running", address % InstrSize = 0,
         NEW line, line = Statements(lines)[address \div InstrSize + 1]
  PROVE  /\ Source!Statement = line
         /\ Source!Opening = line[1]
         /\ Source!Opcode = line[1].op /\ Source!Type = line[1].type
         /\ Source!DestTok = line[1 + DestOffset(line[1].op)]
         /\ \A k : Source!Operand(k) = line[ArgsOffset(line[1].op) + k]
<1>1. Source!Statement = line
  BY SharedIsa DEF Source!Statement
<1>2. Source!Opening = line[1]
  BY <1>1, Zenon DEF Source!Opening
<1>3. Source!Opcode = line[1].op /\ Source!Type = line[1].type
  BY <1>2, Zenon DEF Source!Opcode, Source!Type
<1>4. Source!DestTok = line[1 + DestOffset(line[1].op)]
  BY <1>1, <1>3, SharedIsa, Zenon DEF Source!DestTok
<1>5. \A k : Source!Operand(k) = line[ArgsOffset(line[1].op) + k]
  BY <1>1, <1>3, SharedIsa, Zenon DEF Source!Operand
<1> QED
  BY <1>1, <1>2, <1>3, <1>4, <1>5

\* The source runs where the interpreter stands at an instruction.
LEMMA SourceRuns ==
  ASSUME RunInv, exec = "running", address % InstrSize = 0
  PROVE  Source!Running <=> OnInstr
<1>1. /\ asm = "done" /\ program = output /\ Lined(lines)
      /\ ProgramInv /\ ReadingInv
  BY DEF RunInv, ProgramIsOutput, WellWritten
<1>2. Len(program) = Len(Statements(lines))
  BY <1>1, EverythingWritten
<1>3. Len(program) \in Nat /\ address \in Nat
  BY <1>1, LenProperties DEF ProgramInv, TypeOK
<1>4. PICK n \in Nat : n = Len(program)
  BY <1>3
<1>5. Source!Running <=> address \div InstrSize < n
  BY <1>2, <1>4, SharedIsa DEF Source!Running
<1>6. OnInstr <=> address < InstrSize * n
  BY <1>4 DEF OnInstr
<1>7. address \div 16 < n <=> address < 16 * n
  BY <1>3
<1> QED
  BY <1>5, <1>6, <1>7 DEF InstrSize

\* A step that goes on is a step to the next statement.
LEMMA SourceGoesOn ==
  ASSUME exec = "running", address \in Nat, address % InstrSize = 0,
         Continue, UNCHANGED lines
  PROVE  Source!NextStatement
<1>1. /\ address' = address + 16 /\ exec' = exec /\ v_pos' = v_pos
  BY DEF Continue, InstrSize
<1>2. address' % 16 = 0 /\ address' \div 16 = address \div 16 + 1
  BY <1>1 DEF InstrSize
<1> QED
  BY <1>1, <1>2 DEF Source!NextStatement, InstrSize

\* A step that ends an execution.
LEMMA SourceLeaves ==
  ASSUME UNCHANGED <<lines, cFlag, pRegs, regs, v_out, v_pos>>, NEW e \in {"idle", "lost"},
         \/ exec' = e
         \/ e = "lost" /\ exec' = "running" /\ address' % InstrSize # 0
  PROVE  Source!Leave(e)
BY DEF Source!Leave

\* Its destination is a register of the file that its opcode writes.
LEMMA ProperDest ==
  ASSUME NEW line, Proper(line), NEW op, NEW type, op = line[1].op, type = line[1].type,
         HasDest(op), NEW dest, dest = line[1 + DestOffset(op)]
  PROVE  /\ dest.t = "reg" /\ dest.n \in DestFile(op, type)
         /\ dest.file = IF DestFile(op, type) = PRegs THEN "P" ELSE "M"
<1>1. AsWritten(lines, line) /\ ~IsLabel(line)
  BY DEF Proper, IsLabel
<1>2. /\ dest.t = "reg" /\ dest.n \in DestFile(op, type)
      /\ dest.file = IF DestFile(op, type) = PRegs THEN "P" ELSE "M"
  BY <1>1, Zenon DEF AsWritten
<1> QED
  BY <1>2

\* The operands of an instruction are what its statement says.
LEMMA ValuesAreOperands ==
  ASSUME exec = "running", address % InstrSize = 0,
         NEW line, line = Statements(lines)[address \div InstrSize + 1],
         Proper(line), line[1].op # "jmp"
  PROVE  /\ Executable(Translation(line))
         /\ Source!Values = Operands(Translation(line))
<1> DEFINE i == Translation(line)
<1>1. PICK op, type : op = line[1].op /\ type = line[1].type
  OBVIOUS
<1>2. /\ <<op, type>> \in Mnemonics
      /\ op \notin {"and", "or", "xor", "not", "rotx", "roty", "trans"}
      /\ op \in {"blend", "lerp"} /\ type = "u32" => line[5].t # "num"
      /\ <<op, type>> # <<"col", "u32">>
      /\ \A k \in DOMAIN Reading(op, type) :
           Fits(line[ArgsOffset(op) + k], Reading(op, type)[k])
  BY <1>1, ProperShape
<1>3. PICK dtok : dtok = line[1 + DestOffset(op)]
  OBVIOUS
<1>3a. HasDest(op) => /\ dtok.t = "reg" /\ dtok.n \in DestFile(op, type)
                      /\ dtok.file = IF DestFile(op, type) = PRegs THEN "P" ELSE "M"
  <2> HIDE DEF i
  <2> QED
    BY <1>1, <1>3, ProperDest
<1>4. op # "jmp" /\ Reading(op, type) \in [1 .. Argc(op, type) -> Readings]
  BY <1>1, <1>2, AllOperandsRead
<1>5. /\ i.op = op /\ i.type = type
      /\ HasDest(op) => i.dest = line[1 + DestOffset(op)].n
      /\ \A k \in 1 .. Argc(op, type) :
           i.args[k] = ParseArg(line[ArgsOffset(op) + k], op, type)
  BY <1>1, <1>3, <1>3a DEF Translation, ParseReg
<1>6. /\ Source!Opcode = op /\ Source!Type = type
      /\ Source!DestTok = line[1 + DestOffset(op)]
      /\ \A k : Source!Operand(k) = line[ArgsOffset(op) + k]
  BY <1>1, SourceReads
<1> HIDE DEF i
<1>7. ASSUME NEW k \in 1 .. Argc(op, type)
      PROVE  /\ Readable(i.args[k], Reading(op, type)[k])
             /\ Read(i.args[k], Reading(op, type)[k]) = Source!Value(k)
  <2>1. PICK tok, how : /\ tok = line[ArgsOffset(op) + k] /\ how = Reading(op, type)[k]
                        /\ how \in Readings /\ Fits(tok, how)
    BY <1>2, <1>4
  <2>2. PICK a : a = ParseArg(tok, op, type)
    OBVIOUS
  <2>3. i.args[k] = a /\ Source!Operand(k) = tok
    BY <1>5, <1>6, <2>1, <2>2
  <2>4. /\ Readable(a, how)
        /\ tok.t = "num" => /\ Read(a, how) = Bits(a) /\ a.n = tok.n
                            /\ a.enc = IF type \in {"f32", "vec3"} /\ op # "ldu"
                                       THEN "float" ELSE "int"
        /\ tok.t \in {"num", "reg"}
        /\ tok.t = "reg" =>
             /\ tok.file \in {"P", "M"} /\ a.n = tok.n
             /\ tok.file = "P" => Read(a, how) = pRegs[tok.n]
             /\ tok.file = "M" => Read(a, how) = IF tok.n = RegMIn THEN v_pos
                                                 ELSE regs[tok.n]
    BY <2>1, <2>2, FittingOperand
  <2>5. ASSUME tok.t = "num"
        PROVE  Source!FloatWanted(k) <=> type \in {"f32", "vec3"} /\ op # "ldu"
    <3>1. op \in {"blend", "lerp"} /\ k = 3 => tok = line[5] /\ op # "ldu"
      BY <2>1 DEF ArgsOffset, DestOffset, HasCondition, HasDest
    <3>2. op \in {"blend", "lerp"} => type \in {"u32", "f32"}
      BY <1>2 DEF Mnemonics
    <3>3. op \in {"blend", "lerp"} /\ k = 3 => type = "f32" /\ op # "ldu"
      BY <1>2, <2>5, <3>1, <3>2
    <3> QED
      BY <1>2, <1>6, <3>3 DEF Source!FloatWanted, Source!Fraction
  <2>6. CASE tok.t = "num"
    <3>1. Source!Value(k) = IF Source!FloatWanted(k) THEN FloatBits(tok.n) ELSE IntBits(tok.n)
      BY <2>3, <2>6 DEF Source!Value
    <3>2. Bits(a) = Source!Value(k)
      BY <2>4, <2>5, <2>6, <3>1 DEF Bits
    <3> QED
      BY <2>1, <2>3, <2>4, <2>6, <3>2
  <2>7. CASE tok.t = "reg" /\ tok.file = "P"
    <3>1. Source!Value(k) = pRegs[tok.n]
      BY <2>3, <2>7 DEF Source!Value, Source!Register
    <3> QED
      BY <2>1, <2>3, <2>4, <2>7, <3>1
  <2>8. CASE tok.t = "reg" /\ tok.file = "M"
    <3>1. Source!Value(k) = Source!Register(tok)
      BY <2>3, <2>8 DEF Source!Value
    <3>2. Source!Register(tok) = IF tok.n = RegMIn THEN v_pos ELSE regs[tok.n]
      BY <2>8, Zenon DEF Source!Register, Source!RegMIn, RegMIn
    <3> QED
      BY <2>1, <2>3, <2>4, <2>8, <3>1, <3>2
  <2> QED
    BY <2>4, <2>6, <2>7, <2>8
<1>8. Executable(i)
  <2>1. Target(op, type) \in {"none", "cFlag", "arg0"} \/ HasDest(op)
    BY DEF Target, HasDest
  <2>2. DOMAIN Reading(op, type) = 1 .. Argc(op, type)
    BY <1>4
  <2> QED
    BY <1>3, <1>3a, <1>5, <1>7, <2>1, <2>2 DEF Executable
<1>9. ReadsDest(op, type) => HasDest(op)
  BY <1>2 DEF ReadsDest, HasDest, KeepsRest, VectorTypes, Mnemonics
<1>10. PICK dest : dest = IF DestFile(op, type) = PRegs THEN pRegs[i.dest] ELSE regs[i.dest]
  OBVIOUS
<1>11. ASSUME ReadsDest(op, type) PROVE Source!Register(Source!DestTok) = dest
  <2>1. PICK tok : tok = line[1 + DestOffset(op)]
    OBVIOUS
  <2>2. /\ tok.t = "reg" /\ tok.n \in DestFile(op, type) /\ i.dest = tok.n
        /\ tok.file = IF DestFile(op, type) = PRegs THEN "P" ELSE "M"
        /\ Source!DestTok = tok
    BY <1>3, <1>3a, <1>5, <1>6, <1>9, <1>11, <2>1
  <2>3. DestFile(op, type) = PRegs \/ DestFile(op, type) = MatRegs
    BY DEF DestFile
  <2>4. CASE DestFile(op, type) = PRegs
    <3>1. Source!Register(tok) = pRegs[tok.n]
      BY <2>2, <2>4 DEF Source!Register
    <3> QED
      BY <1>10, <2>2, <2>4, <3>1
  <2>5. CASE DestFile(op, type) # PRegs
    <3>1. Source!Register(tok) = IF tok.n = RegMIn THEN v_pos ELSE regs[tok.n]
      BY <2>2, <2>5, Zenon DEF Source!Register, Source!RegMIn, RegMIn
    <3>2. tok.n # RegMIn
      BY <2>2, <2>3, <2>5 DEF MatRegs, RegMIn
    <3> QED
      BY <1>10, <2>2, <2>5, <3>1, <3>2
  <2> QED
    BY <2>4, <2>5
<1>12. /\ Source!Argc(op, type) = Argc(op, type)
       /\ op \in {"fsan", "mvp", "col"} \/ Source!KeepsRest(op, type) <=> ReadsDest(op, type)
  BY SharedIsa DEF ReadsDest
<1>13. PICK f : /\ f = [k \in 1 .. Argc(op, type) |-> Source!Value(k)]
                /\ f = [k \in DOMAIN Reading(op, type) |-> Read(i.args[k], Reading(op, type)[k])]
  <2>1. DOMAIN Reading(op, type) = 1 .. Argc(op, type)
    BY <1>4
  <2> QED
    BY <1>7, <2>1
<1>14. Operands(i) = f \o IF ReadsDest(op, type) THEN <<dest>> ELSE << >>
  BY <1>5, <1>10, <1>13, Zenon DEF Operands
<1>15. Source!Values = f \o IF ReadsDest(op, type) THEN <<dest>> ELSE << >>
  BY <1>6, <1>11, <1>12, <1>13, Zenon DEF Source!Values
<1> QED
  BY <1>8, <1>14, <1>15 DEF i

-----------------------------------------------------------------------------
(***************************************************************************)
(* Every turn of the interpreter's loop is a step of the source.           *)
(***************************************************************************)
\* The interpreter stands at the proper statement in line and executes it.
Executes(line) ==
  /\ RunInv /\ exec = "running" /\ OnInstr /\ UNCHANGED lines
  /\ Proper(line) /\ line = Current /\ Instr = Translation(line)

\* The interpreter stands at a statement, which the source runs.
LEMMA ExecutesCurrent ==
  ASSUME RunInv, exec = "running", OnInstr, UNCHANGED lines
  PROVE  /\ Executes(Current)
         /\ address % InstrSize = 0 /\ address \in Nat
         /\ Source!Running
<1>1. address % InstrSize = 0 /\ address \in Nat
  BY DEF OnInstr, RunInv, ProgramInv, TypeOK
<1> QED
  BY <1>1, CurrentIsProper, SourceRuns DEF Executes

\* Held back by the source is gated by the interpreter.
LEMMA HeldIsGated ==
  ASSUME NEW line, Executes(line)
  PROVE  /\ Source!Held <=> Gated
         /\ ~NoCase
         /\ Source!Opcode = line[1].op /\ Source!Type = line[1].type
         /\ Instr.op = line[1].op /\ Instr.type = line[1].type
         /\ Source!Statement = line
<1>1. PICK op, type : op = line[1].op /\ type = line[1].type
  OBVIOUS
<1>2. /\ line[1].cond \in BOOLEAN
      /\ HasCondition(op) => line[2].name \in Conditions
      /\ op \notin {"and", "or", "xor", "not"}
  BY <1>1, ProperShape DEF Executes
<1>3. /\ Source!Opening = line[1] /\ Source!Opcode = op /\ Source!Type = type
      /\ Source!Statement = line
  BY <1>1, SourceReads DEF Executes, Current, OnInstr
<1>4. /\ Instr.op = op /\ Instr.type = type
      /\ Instr.flag = IF HasCondition(op) THEN line[2].name
                      ELSE IF line[1].cond THEN "enable" ELSE "disable"
  BY <1>1 DEF Executes, Translation
<1>5. cFlag \in {0, 1}
  BY DEF Executes, RunInv, ProgramInv, TypeOK, RegTypeOK
<1>6. Instr.flag = "enable" <=> ~HasCondition(op) /\ line[1].cond
  BY <1>2, <1>4 DEF Conditions
<1>7. Source!Held <=> ~HasCondition(op) /\ line[1].cond /\ cFlag = 0
  BY <1>3, SharedIsa DEF Source!Held
<1>8. Gated <=> Instr.flag = "enable" /\ cFlag # 1
  BY DEF Gated
<1>9. ~NoCase
  BY <1>2, <1>4 DEF NoCase
<1> QED
  BY <1>1, <1>3, <1>4, <1>5, <1>6, <1>7, <1>8, <1>9

\* A gated statement is passed (renderer.c:124-128).
LEMMA StepOverPasses ==
  ASSUME RunInv, StepOver, UNCHANGED lines
  PROVE  Source!Pass
<1>1. exec = "running" /\ OnInstr /\ (Gated \/ NoCase) /\ Continue
  BY DEF StepOver
<1>2. /\ Executes(Current) /\ address % InstrSize = 0 /\ address \in Nat
      /\ Source!Running
  BY <1>1, ExecutesCurrent
<1>3. Source!Held
  BY <1>1, <1>2, HeldIsGated
<1>4. Source!NextStatement
  BY <1>1, <1>2, SourceGoesOn
<1> QED
  BY <1>2, <1>3, <1>4 DEF Source!Pass, StepOver

\* What the interpreter executes the source performs, with the same operands
\* and, for what is no comparison, the same result.
LEMMA ExecutesPerforms ==
  ASSUME RunInv, CanExecute, UNCHANGED lines
  PROVE  /\ Executes(Current) /\ address % InstrSize = 0 /\ address \in Nat
         /\ Source!Perform(Instr.op)
         /\ Source!Opcode = Instr.op /\ Source!Type = Instr.type
         /\ Source!Statement = Current
         /\ Instr.op # "jmp" => Source!Values = Operands(Instr)
<1>1. exec = "running" /\ OnInstr /\ ~Gated /\ ~NoCase
      /\ ~Traps(Instr.op, Instr.type, Operands(Instr))
  BY DEF CanExecute
<1>2. /\ Executes(Current) /\ address % InstrSize = 0 /\ address \in Nat
      /\ Source!Running
  BY <1>1, ExecutesCurrent
<1>3. /\ ~Source!Held
      /\ Source!Opcode = Instr.op /\ Source!Type = Instr.type
      /\ Source!Statement = Current /\ Instr.op = Current[1].op
  BY <1>1, <1>2, HeldIsGated
<1>4. ASSUME Instr.op # "jmp" PROVE Source!Values = Operands(Instr)
  <2>1. /\ Proper(Current) /\ Current[1].op # "jmp" /\ Instr = Translation(Current)
        /\ Current = Statements(lines)[address \div InstrSize + 1]
    BY <1>2, <1>3, <1>4 DEF Executes, Current
  <2> QED
    BY <1>1, <1>2, <2>1, ValuesAreOperands
<1>5. Instr.op \notin {"exit", "jmp"} => ~Source!Traps(Instr.op, Source!Type, Source!Values)
  <2>1. Instr.op # "jmp" =>
          (Source!Traps(Instr.op, Source!Type, Source!Values)
             <=> Traps(Instr.op, Instr.type, Operands(Instr)))
    BY <1>3, <1>4, SharedIsa, Zenon
  <2> QED
    BY <1>1, <2>1
<1>6. Source!Perform(Instr.op)
  BY <1>2, <1>3, <1>5 DEF Source!Perform
<1> QED
  BY <1>2, <1>3, <1>4, <1>6

\* The register that the interpreter writes is the one that the statement names.
LEMMA DestIsNamed ==
  ASSUME NEW line, Executes(line), HasDest(Instr.op)
  PROVE  /\ Source!DestTok.n = Instr.dest
         /\ Instr.dest \in DestFile(Instr.op, Instr.type)
         /\ Source!DestTok.t = "reg"
         /\ Source!DestTok.file
              = IF DestFile(Instr.op, Instr.type) = PRegs THEN "P" ELSE "M"
<1>1. PICK op, type : op = line[1].op /\ type = line[1].type
  OBVIOUS
<1>2. Instr.op = op /\ Instr.type = type /\ HasDest(op)
  BY <1>1, HeldIsGated
<1>3. PICK dest : dest = line[1 + DestOffset(op)]
  OBVIOUS
<1>4. /\ dest.t = "reg" /\ dest.n \in DestFile(op, type)
      /\ dest.file = IF DestFile(op, type) = PRegs THEN "P" ELSE "M"
  BY <1>1, <1>2, <1>3, ProperDest DEF Executes
<1>5. Source!DestTok = dest
  BY <1>1, <1>3, SourceReads DEF Executes, Current, OnInstr
<1>6. Instr.dest = dest.n
  BY <1>1, <1>2, <1>3, <1>4 DEF Executes, Translation, ParseReg
<1> QED
  BY <1>2, <1>4, <1>5, <1>6

\* The interpreter's results are the source's.
LEMMA ResultIsMeant ==
  ASSUME RunInv, CanExecute, UNCHANGED lines, Instr.op # "jmp"
  PROVE  /\ HasCondition(Instr.op) =>
              Result(Instr) = Source!Compare(Source!Statement[2].name,
                                             Source!Values[1], Source!Values[2])
         /\ ~HasCondition(Instr.op) =>
              Result(Instr) = Compute(Instr.op, Source!Type, Source!Values)
<1>1. /\ Executes(Current) /\ Source!Statement = Current
      /\ Source!Type = Instr.type /\ Source!Values = Operands(Instr)
  BY ExecutesPerforms
<1>2. HasCondition(Instr.op) => Instr.flag = Current[2].name
  BY <1>1, HeldIsGated DEF Executes, Translation
<1>3. \A f, a, b : Source!Compare(f, a, b) = Compare(f, a, b)
  BY SharedIsa
<1> QED
  BY <1>1, <1>2, <1>3, Zenon DEF Result

\* A comparison sets the flag (renderer.c:443-453).
LEMMA CmpCompares ==
  ASSUME RunInv, ExecCmp, UNCHANGED lines
  PROVE  Source!CompareTwo
<1>1. CanExecute /\ Goal = "cFlag" /\ exec = "running"
  BY DEF ExecCmp, CanExecute
<1>2. Instr.op = "cmp"
  <2>1. \A op, type : Target(op, type) = "cFlag" => op = "cmp"
    BY DEF Target
  <2> QED
    BY <1>1, <2>1 DEF Goal
<1>3. /\ Source!Perform("cmp") /\ address % InstrSize = 0 /\ address \in Nat
  BY <1>1, <1>2, ExecutesPerforms
<1>4. cFlag' = Source!Compare(Source!Statement[2].name, Source!Values[1], Source!Values[2])
  <2>1. HasCondition("cmp")
    BY DEF HasCondition
  <2> QED
    BY <1>1, <1>2, <2>1, ResultIsMeant DEF ExecCmp
<1>5. Source!NextStatement
  BY <1>1, <1>3, SourceGoesOn DEF ExecCmp
<1> QED
  BY <1>3, <1>4, <1>5 DEF Source!CompareTwo, ExecCmp

\* An instruction that writes one register assigns to the one that is named.
LEMMA WriteAssigns ==
  ASSUME RunInv, CanExecute, Continue, UNCHANGED <<lines, cFlag, v_out>>,
         HasDest(Instr.op), Instr.op \notin {"mvp", "col"}, NEW result,
         IF DestFile(Instr.op, Instr.type) = PRegs
         THEN pRegs' = [pRegs EXCEPT ![Instr.dest] = result] /\ regs' = regs
         ELSE regs' = [regs EXCEPT ![Instr.dest] = result] /\ pRegs' = pRegs
  PROVE  Source!Assign(Instr.op, result)
<1>1. /\ Executes(Current) /\ Source!Perform(Instr.op)
      /\ address % InstrSize = 0 /\ address \in Nat
  BY ExecutesPerforms
<1>2. /\ Source!DestTok.n = Instr.dest
      /\ Source!DestTok.file
           = IF DestFile(Instr.op, Instr.type) = PRegs THEN "P" ELSE "M"
  BY <1>1, DestIsNamed
<1>3. Source!NextStatement
  BY <1>1, SourceGoesOn DEF CanExecute
<1>4. /\ Source!DestTok.file = "P" <=> DestFile(Instr.op, Instr.type) = PRegs
  BY <1>2
<1>5. IF Source!DestTok.file = "P"
      THEN pRegs' = [pRegs EXCEPT ![Source!DestTok.n] = result] /\ UNCHANGED regs
      ELSE regs' = [regs EXCEPT ![Source!DestTok.n] = result] /\ UNCHANGED pRegs
  BY <1>2, <1>4, Zenon
<1> QED
  BY <1>1, <1>3, <1>5, Zenon DEF Source!Assign

\* Every other result is calculated, or the outcome of pcmp (renderer.c:132-679).
LEMMA ScalarAssigns ==
  ASSUME RunInv, ExecScalar \/ ExecCast \/ ExecMatrix, UNCHANGED lines
  PROVE  Source!CompareInto \/ Source!Calculate
<1>1. CanExecute /\ Continue /\ UNCHANGED <<cFlag, v_out>> /\ exec = "running" /\ OnInstr
  BY DEF ExecScalar, ExecCast, ExecMatrix, CanExecute
<1>2. PICK op, type : op = Instr.op /\ type = Instr.type
  OBVIOUS
<1>3. Target(op, type) \in {"preg", "arg0", "mreg"}
  BY <1>2 DEF ExecScalar, ExecCast, ExecMatrix, Goal
<1>4. HasDest(op) /\ op \notin {"exit", "jmp", "cmp", "mvp", "col"}
  BY <1>3 DEF Target, HasDest
<1>5. /\ Executes(Current) /\ Source!Type = type
  BY <1>1, <1>2, ExecutesPerforms
<1>6. PICK result : result = Result(Instr)
  OBVIOUS
<1>7. IF DestFile(op, type) = PRegs
      THEN pRegs' = [pRegs EXCEPT ![Instr.dest] = result] /\ regs' = regs
      ELSE regs' = [regs EXCEPT ![Instr.dest] = result] /\ pRegs' = pRegs
  <2>1. CASE ExecScalar
    <3>1. DestFile(op, type) = PRegs
      BY <1>2, <2>1 DEF ExecScalar, Goal, DestFile
    <3> QED
      BY <1>2, <1>6, <2>1, <3>1, Zenon DEF ExecScalar
  <2>2. CASE ExecCast
    <3>1. DestFile(op, type) = PRegs
      BY <1>2, <2>2 DEF ExecCast, Goal, DestFile
    <3>2. Instr.args[1].n = Instr.dest
      <4>1. op = "cast"
        <5>1. \A o, t : Target(o, t) = "arg0" => o = "cast"
          BY DEF Target
        <5> QED
          BY <1>2, <2>2, <5>1 DEF ExecCast, Goal
      <4>2. PICK line : line = Current
        OBVIOUS
      <4>3. line[1].op = "cast" /\ line[3] = line[2] /\ Instr = Translation(line)
        <5>1. line[1].op = "cast" /\ Proper(line) /\ Instr = Translation(line)
          BY <1>2, <1>5, <4>1, <4>2, HeldIsGated DEF Executes
        <5> QED
          BY <5>1, ProperShape
      <4>4. line[2].t = "reg"
        <5>1. HasDest("cast") /\ 1 + DestOffset("cast") = 2
          BY DEF HasDest, DestOffset, HasCondition
        <5> QED
          BY <1>5, <4>2, <4>3, <5>1, ProperDest DEF Executes
      <4>5. \A t : Argc("cast", t) = 1 /\ ArgsOffset("cast") = 2 /\ DestOffset("cast") = 1
        BY DEF Argc, ArgsOffset, HasDest, DestOffset, HasCondition
      <4>6. Instr.args[1] = ParseArg(line[3], "cast", line[1].type)
        BY <4>3, <4>5 DEF Translation
      <4>7. Instr.dest = line[2].n
        BY <4>3, <4>4, <4>5 DEF Translation, HasDest, ParseReg
      <4>8. ParseArg(line[3], "cast", line[1].type).n = line[2].n
        BY <4>3, <4>4 DEF ParseArg, ParseReg
      <4> QED
        BY <4>6, <4>7, <4>8
    <3> QED
      BY <1>2, <1>6, <2>2, <3>1, <3>2, Zenon DEF ExecCast
  <2>3. CASE ExecMatrix
    <3>1. DestFile(op, type) # PRegs
      <4>1. 12 \in PRegs /\ 12 \notin MatRegs
        BY DEF PRegs, MatRegs
      <4> QED
        BY <1>2, <2>3, <4>1 DEF ExecMatrix, Goal, DestFile
    <3> QED
      BY <1>2, <1>6, <2>3, <3>1, Zenon DEF ExecMatrix
  <2> QED
    BY <2>1, <2>2, <2>3
<1>8. Source!Assign(op, result)
  BY <1>1, <1>2, <1>4, <1>7, WriteAssigns
<1>9. CASE op = "pcmp"
  <2>1. result = Source!Compare(Source!Statement[2].name, Source!Values[1], Source!Values[2])
    BY <1>1, <1>2, <1>6, <1>9, ResultIsMeant DEF HasCondition
  <2> QED
    BY <1>8, <1>9, <2>1 DEF Source!CompareInto
<1>10. CASE op # "pcmp"
  <2>1. result = Compute(op, Source!Type, Source!Values)
    BY <1>1, <1>2, <1>4, <1>6, <1>10, ResultIsMeant DEF HasCondition
  <2>2. op \in {m[1] : m \in Mnemonics} \ {"exit", "jmp", "cmp", "pcmp", "mvp", "col"}
    <3>1. <<op, type>> \in Mnemonics
      BY <1>1, <1>2, CurrentInstr DEF RunInv, WrittenInstrs
    <3>2. <<op, type>>[1] = op
      OBVIOUS
    <3> QED
      BY <1>4, <1>10, <3>1, <3>2
  <2>3. Source!Mnemonics = Mnemonics
    BY DEF Source!Mnemonics, Mnemonics
  <2> QED
    BY <1>8, <2>1, <2>2, <2>3 DEF Source!Calculate
<1> QED
  BY <1>9, <1>10

\* A vertex goes out (renderer.c:196-202).
LEMMA MvpOutputs ==
  ASSUME RunInv, ExecMvp, UNCHANGED lines
  PROVE  Source!OutputVertex
<1>1. CanExecute /\ Goal = "v_out" /\ exec = "running" /\ Continue
  BY DEF ExecMvp, CanExecute
<1>2. Instr.op = "mvp"
  <2>1. \A op, type : Target(op, type) = "v_out" => op = "mvp"
    BY DEF Target
  <2> QED
    BY <1>1, <2>1 DEF Goal
<1>3. /\ Source!Perform("mvp") /\ address % InstrSize = 0 /\ address \in Nat
  BY <1>1, <1>2, ExecutesPerforms
<1>4. v_out' = Compute("mvp", Source!Type, Source!Values)
  <2>1. ~HasCondition("mvp")
    BY DEF HasCondition
  <2> QED
    BY <1>1, <1>2, <2>1, ResultIsMeant DEF ExecMvp
<1>5. Source!NextStatement
  BY <1>1, <1>3, SourceGoesOn
<1> QED
  BY <1>3, <1>4, <1>5 DEF Source!OutputVertex, ExecMvp

\* A vector becomes three channels (renderer.c:212-223).
LEMMA ColOutputs ==
  ASSUME RunInv, ExecCol, UNCHANGED lines
  PROVE  Source!OutputColour
<1>1. CanExecute /\ Goal = "colour" /\ exec = "running" /\ Continue
  BY DEF ExecCol, CanExecute
<1>2. /\ Instr.op = "col" /\ DestFile(Instr.op, Instr.type) # PRegs
      /\ DestFile(Instr.op, Instr.type) = MatRegs
  <2>1. \A op, type : Target(op, type) = "colour" => /\ op = "col"
                                                     /\ DestFile(op, type) = MatRegs
    BY DEF Target, DestFile
  <2>2. 12 \in PRegs /\ 12 \notin MatRegs
    BY DEF PRegs, MatRegs
  <2> QED
    BY <1>1, <2>1, <2>2 DEF Goal
<1>3. /\ Source!Perform("col") /\ address % InstrSize = 0 /\ address \in Nat
      /\ Executes(Current)
  BY <1>1, <1>2, ExecutesPerforms
<1>4. PICK v : v = regs[Instr.dest]
  OBVIOUS
<1>5. Source!Register(Source!DestTok) = v
  <2>1. PICK tok : tok = Source!DestTok
    OBVIOUS
  <2>2. HasDest("col")
    BY DEF HasDest
  <2>3. tok.n = Instr.dest /\ tok.n \in MatRegs /\ tok.t = "reg" /\ tok.file = "M"
    BY <1>2, <1>3, <2>1, <2>2, DestIsNamed
  <2>4. Source!Register(tok) = IF tok.n = RegMIn THEN v_pos ELSE regs[tok.n]
    BY <2>3, Zenon DEF Source!Register, Source!RegMIn, RegMIn
  <2>5. tok.n # RegMIn
    BY <2>3 DEF MatRegs, RegMIn
  <2> QED
    BY <1>4, <2>1, <2>3, <2>4, <2>5
<1>6. pRegs' = [pRegs EXCEPT ![RegPR] = Compute("channel", "vec3", <<v, 0>>),
                             ![RegPG] = Compute("channel", "vec3", <<v, 1>>),
                             ![RegPB] = Compute("channel", "vec3", <<v, 2>>)]
  BY <1>4, Zenon DEF ExecCol, Channel
<1>7. Source!NextStatement
  BY <1>1, <1>3, SourceGoesOn
<1>8. UNCHANGED <<cFlag, regs, v_out>>
  BY DEF ExecCol
<1> QED
  BY <1>3, <1>5, <1>6, <1>7, <1>8, Zenon
  DEF Source!OutputColour, Source!RegPR, Source!RegPG, Source!RegPB, RegPR, RegPG, RegPB

\* A label that begins the source stands before the first statement.
LEMMA FirstLabel ==
  ASSUME ProgramInv, NEW l, 1 \in 1 .. Len(lines), lines[1] = <<Label(l)>>
  PROVE  LabelPlace(lines, l) = 0
<1> DEFINE Stands(k) == /\ lines[k] = <<Label(l)>>
                        /\ \A j \in 1 .. k - 1 : lines[j] # <<Label(l)>>
           m == CHOOSE k \in DOMAIN lines : Stands(k)
<1>1. DOMAIN lines = 1 .. Len(lines) /\ Len(lines) \in Nat
  BY LinePlaces, LenProperties
<1>2. LabelPlace(lines, l) = Count(lines, m)
  BY DEF LabelPlace, Count
<1>3. Stands(1)
  BY <1>1
<1>4. m \in 1 .. Len(lines) /\ Stands(m)
  BY <1>1, <1>3
<1> HIDE DEF m
<1>5. m = 1
  <2>1. ~(1 < m)
    <3> SUFFICES ASSUME 1 < m PROVE FALSE
      OBVIOUS
    <3>1. 1 \in 1 .. m - 1
      BY <1>1, <1>4
    <3> QED
      BY <1>4, <3>1
  <2> QED
    BY <1>1, <1>4, <2>1
<1>6. lines \in Seq(SourceLines)
  BY LinePlaces
<1>7. IsLabel(lines[1])
  BY DEF IsLabel, Label
<1>8. Count(lines, 1) = Count(lines, 1 - 1)
  BY <1>6, <1>7, StatementsArePlaced DEF StatementsPlaced
<1>9. Count(lines, 0) = 0
  <2>1. 0 \in 0 .. Len(lines)
    BY <1>1
  <2> QED
    BY <1>6, <2>1, CountType
<1> QED
  BY <1>2, <1>5, <1>8, <1>9

\* A jump to the label at the start and a jump to a number go where they say; a
\* number that is no instruction's address leads astray (renderer.c:764-770).
LEMMA JmpJumps ==
  ASSUME RunInv, ExecJmp, UNCHANGED lines
  PROVE  Source!Jump
<1>1. CanExecute /\ Instr.op = "jmp" /\ exec = "running"
  BY DEF ExecJmp, CanExecute
<1>2. /\ Source!Perform("jmp") /\ address % InstrSize = 0 /\ address \in Nat
      /\ Executes(Current)
  BY <1>1, ExecutesPerforms
<1>3. PICK line : line = Current
  OBVIOUS
<1>4. PICK type : type = line[1].type
  OBVIOUS
<1>5. line[1].op = "jmp" /\ Proper(line) /\ Instr = Translation(line) /\ Accepted(line)
  BY <1>1, <1>2, <1>3, HeldIsGated DEF Executes, Proper
<1>6. Argc("jmp", type) = 1 /\ ArgsOffset("jmp") = 1
  BY DEF Argc, ArgsOffset, DestOffset, HasCondition, HasDest
<1>7. Source!Operand(1) = line[2]
  <2>1. Source!Operand(1) = line[ArgsOffset("jmp") + 1]
    BY <1>1, <1>2, <1>3, <1>5, SourceReads DEF Current
  <2> QED
    BY <1>6, <2>1
<1>8. AcceptsArg(line[2], "jmp", type, 1)
  <2>1. 1 \in 1 .. Argc("jmp", type) /\ ArgsOffset("jmp") + 1 = 2
    BY <1>6
  <2> QED
    BY <1>4, <1>5, <2>1 DEF Accepted
<1>9. Instr.args[1] = ParseArg(line[2], "jmp", type)
  BY <1>4, <1>5, <1>6 DEF Translation
<1>10. address' = Instr.args[1].n /\ exec' = "running"
       /\ UNCHANGED <<lines, cFlag, pRegs, regs, v_out, v_pos>>
  BY <1>1 DEF ExecJmp
<1>11. CASE line[2].t = "word"
  <2>1. Defined(line[2].name) /\ Instr.args[1].n = LabelAddress(line[2].name)
    BY <1>5, <1>11, JumpTranslated
  <2>2. ProgramInv /\ TableOf(Len(lines))
    BY <1>1, EverythingWritten DEF RunInv, ProgramIsOutput, WellWritten
  <2>3. address' = LabelPlace(lines, line[2].name)
    BY <1>10, <2>1, <2>2, AddressIsPlace
  <2>4. lines[1] = <<Label(line[2].name)>>
    BY <1>5, <1>11, ProperShape
  <2>5. 1 \in 1 .. Len(lines)
    <3>1. OnInstr
      BY <1>1 DEF CanExecute
    <3>2. PICK n \in Nat : n = Len(lines)
      BY <2>2, LinePlaces
    <3>3. n # 0
      <4> SUFFICES ASSUME n = 0 PROVE FALSE
        OBVIOUS
      <4>1. lines \in Seq(SourceLines)
        BY <2>2, LinePlaces
      <4>2. Len(Statements(lines)) = Len(program)
        BY <1>1, EverythingWritten DEF RunInv, ProgramIsOutput, WellWritten
      <4>3. lines = << >>
        BY <3>2, <4>1, EmptySeq
      <4>4. Len(program) = 0
        BY <4>2, <4>3, StatementsEmpty
      <4> QED
        BY <1>2, <3>1, <4>4 DEF OnInstr, InstrSize
    <3> QED
      BY <3>2, <3>3
  <2>6. LabelPlace(lines, line[2].name) = 0
    BY <2>2, <2>4, <2>5, FirstLabel
  <2>7. Source!LabelPlace(lines, line[2].name) = 0
    BY <2>6, SharedIsa
  <2>8. address' = 0
    BY <2>3, <2>6
  <2> QED
    BY <1>1, <1>2, <1>7, <1>10, <1>11, <2>7, <2>8 DEF Source!Jump, InstrSize
<1>12. CASE line[2].t # "word"
  <2>1. line[2].t = "num"
    BY <1>8, <1>12 DEF AcceptsArg
  <2>2. address' = line[2].n
    BY <1>9, <1>10, <2>1 DEF ParseArg
  <2>3. CASE line[2].n % 16 = 0
    BY <1>1, <1>2, <1>7, <1>10, <1>12, <2>2, <2>3
    DEF Source!Jump, InstrSize, Source!InstrSize
  <2>4. CASE line[2].n % 16 # 0
    <3>1. Source!Leave("lost")
      BY <1>10, <2>2, <2>4, SourceLeaves DEF InstrSize
    <3> QED
      BY <1>2, <1>7, <1>12, <2>4, <3>1 DEF Source!Jump, Source!InstrSize
  <2> QED
    BY <2>3, <2>4
<1> QED
  BY <1>11, <1>12

\* exit ends the execution (renderer.c:771-778).
LEMMA ExitExits ==
  ASSUME RunInv, ExecExit, UNCHANGED lines
  PROVE  Source!Exit
<1>1. /\ CanExecute /\ Instr.op = "exit"
      /\ exec' = "idle" /\ UNCHANGED <<lines, cFlag, pRegs, regs, v_out, v_pos>>
  BY DEF ExecExit
<1>2. Source!Perform("exit")
  BY <1>1, ExecutesPerforms
<1>3. Source!Leave("idle")
  BY <1>1, SourceLeaves
<1> QED
  BY <1>2, <1>3 DEF Source!Exit

\* The interpreter goes astray where the program ends and where an integer is
\* divided by zero, and nowhere else (renderer.c:117-123, 203-210).
LEMMA AstrayStrays ==
  ASSUME RunInv, GoAstray, UNCHANGED lines
  PROVE  [Source!Next]_(Source!vars)
<1>1. /\ exec = "running" /\ exec' = "lost"
      /\ UNCHANGED <<lines, cFlag, pRegs, regs, v_out, v_pos>>
  BY DEF GoAstray
<1>2. Source!Leave("lost")
  BY <1>1, SourceLeaves
<1>3. CASE OnInstr
  <2>1. /\ ~Gated
        /\ ~Executable(Instr) \/ Traps(Instr.op, Instr.type, Operands(Instr))
    BY <1>3 DEF GoAstray
  <2>2. /\ Executes(Current) /\ address % InstrSize = 0 /\ address \in Nat
        /\ Source!Running
    BY <1>1, <1>3, ExecutesCurrent
  <2>3. /\ ~Source!Held
        /\ Source!Opcode = Instr.op /\ Source!Type = Instr.type
        /\ Instr.op = Current[1].op
    BY <2>1, <2>2, HeldIsGated
  <2>4. /\ Proper(Current) /\ Instr = Translation(Current)
        /\ Current = Statements(lines)[address \div InstrSize + 1]
    BY <2>2 DEF Executes, Current
  <2>5. Instr.op # "jmp"
    <3> SUFFICES ASSUME Instr.op = "jmp" PROVE FALSE
      OBVIOUS
    <3>1. \A type : Reading("jmp", type) = << >> /\ Target("jmp", type) = "none"
      BY DEF Reading, Target
    <3>2. Executable(Instr)
      BY <3>1 DEF Executable
    <3>3. ~Traps(Instr.op, Instr.type, Operands(Instr))
      BY DEF Traps
    <3> QED
      BY <2>1, <3>2, <3>3
  <2>6. Executable(Instr) /\ Source!Values = Operands(Instr)
    BY <1>1, <2>2, <2>3, <2>4, <2>5, ValuesAreOperands
  <2>7. Source!Traps(Source!Opcode, Source!Type, Source!Values)
    BY <2>1, <2>3, <2>6, SharedIsa
  <2>8. Source!Stray
    BY <1>1, <1>2, <2>2, <2>3, <2>7 DEF Source!Stray
  <2> QED
    BY <2>8 DEF Source!Next
<1>4. CASE ~OnInstr /\ address % InstrSize = 0
  <2>1. ~Source!Running
    BY <1>1, <1>4, SourceRuns
  <2>2. Source!Stray
    BY <1>1, <1>2, <1>4, <2>1 DEF Source!Stray
  <2> QED
    BY <2>2 DEF Source!Next
<1>5. CASE address % InstrSize # 0
  BY <1>1, <1>5 DEF Source!vars
<1> QED
  BY <1>3, <1>4, <1>5

\* The renderer's calls begin an execution (renderer.c:9-28, 873-889).
LEMMA CallsBegin ==
  ASSUME Shade \/ Transform
  PROVE  Source!Begin
<1>1. exec = "idle" /\ exec' = "running" /\ address' = 0
      /\ UNCHANGED <<lines, cFlag, regs, v_out>>
  BY DEF Shade, Transform, RunFragment, RunVertex
<1>2. 0 % 16 = 0 /\ 0 \div 16 = 0
  OBVIOUS
<1>3. \E x, y, colour \in Inputs :
        \/ /\ pRegs' = [pRegs EXCEPT ![RegPX] = x, ![RegPY] = y,
                          ![RegPR] = colour, ![RegPG] = colour, ![RegPB] = colour]
           /\ UNCHANGED v_pos
        \/ /\ pRegs' = [pRegs EXCEPT ![RegPR] = colour, ![RegPG] = colour,
                                     ![RegPB] = colour]
           /\ v_pos' = x
  BY Zenon DEF Shade, Transform, RunFragment, RunVertex
<1> QED
  BY <1>1, <1>2, <1>3
  DEF Source!Begin, InstrSize, Source!RegPX, Source!RegPY, Source!RegPR, Source!RegPG,
      Source!RegPB, RegPX, RegPY, RegPR, RegPG, RegPB

\* Every step is one of the source's, or nothing to it.
LEMMA StepRefines ==
  ASSUME RunInv, [Next]_vars
  PROVE  [Source!Next]_(Source!vars)
<1>1. CASE UNCHANGED vars
  BY <1>1 DEF vars, Source!vars
<1>2. CASE Assemble
  BY <1>2 DEF Assemble, shaderVars, Source!vars
<1>3. CASE Load
  BY <1>3 DEF Load, regVars, Source!vars
<1>4. CASE Shade \/ Transform
  BY <1>4, CallsBegin DEF Source!Next
<1>5. CASE Execute
  <2>1. UNCHANGED lines /\ ExecStep
    BY <1>5 DEF Execute
  <2>2. CASE StepOver
    BY <2>1, <2>2, StepOverPasses DEF Source!Next
  <2>3. CASE ExecCmp
    BY <2>1, <2>3, CmpCompares DEF Source!Next
  <2>4. CASE ExecScalar \/ ExecCast \/ ExecMatrix
    BY <2>1, <2>4, ScalarAssigns DEF Source!Next
  <2>5. CASE ExecMvp
    BY <2>1, <2>5, MvpOutputs DEF Source!Next
  <2>6. CASE ExecCol
    BY <2>1, <2>6, ColOutputs DEF Source!Next
  <2>7. CASE ExecJmp
    BY <2>1, <2>7, JmpJumps DEF Source!Next
  <2>8. CASE ExecExit
    BY <2>1, <2>8, ExitExits DEF Source!Next
  <2>9. CASE GoAstray
    BY <2>1, <2>9, AstrayStrays
  <2> QED
    BY <2>1, <2>2, <2>3, <2>4, <2>5, <2>6, <2>7, <2>8, <2>9 DEF ExecStep
<1> QED
  BY <1>1, <1>2, <1>3, <1>4, <1>5 DEF Next

\* An assembler that is done writes nothing more.
LEMMA RunInvStep ==
  ASSUME RunInv, [Next]_vars
  PROVE  RunInv'
<1>1. [AsmNext]_asmVars
  BY DEF Next, vars, asmVars, Assemble, Load, Shade, Transform, Execute
<1>2. ProgramInv' /\ ReadingInv'
  BY ProgramStep, ReadingStep DEF RunInv
<1>3. OutputCounted'
  BY <1>1, OutputStep DEF RunInv, ProgramInv, TypeOK
<1>4. WellWritten(lines)'
  <2>1. lines' = lines
    BY DEF Next, vars, Assemble, Load, Shade, Transform, Execute
  <2> QED
    BY <2>1 DEF RunInv, WellWritten, Lined
<1>5. ProgramIsOutput'
  <2>1. CASE Assemble
    <3>1. exec' = exec /\ program' = program
      BY <2>1 DEF Assemble, shaderVars
    <3>2. asm = "running"
      BY <2>1 DEF Assemble, AsmNext, DefineLabel, SkipInstr, SecondPass, PassLabel,
                  EmitInstr, ReportError, Finish
    <3> QED
      BY <3>1, <3>2 DEF RunInv, ProgramIsOutput
  <2>2. CASE Load
    BY <2>2 DEF Load, asmVars, ProgramIsOutput
  <2>3. CASE Shade \/ Transform
    BY <2>3 DEF Shade, Transform, RunFragment, RunVertex, asmVars, RunInv, ProgramIsOutput
  <2>4. CASE Execute
    <3>1. asm' = asm /\ output' = output /\ program' = program /\ exec = "running"
      BY <2>4 DEF Execute, asmVars, ExecStep, StepOver, ExecCmp, ExecScalar, ExecCast,
                  ExecMatrix, ExecMvp, ExecCol, ExecJmp, ExecExit, GoAstray, CanExecute,
                  Continue, shaderVars
    <3> QED
      BY <3>1 DEF RunInv, ProgramIsOutput
  <2>5. CASE UNCHANGED vars
    BY <2>5 DEF vars, RunInv, ProgramIsOutput
  <2> QED
    BY <2>1, <2>2, <2>3, <2>4, <2>5 DEF Next
<1> QED
  BY <1>2, <1>3, <1>4, <1>5 DEF RunInv

\* For every source of whole statements that are executed as they are written, any
\* arithmetic and any registers that earlier shaders left: the assembler and the
\* interpreter together run the source (compiler.c:250-394, renderer.c:117-778).
THEOREM ProgramRunsSource == Spec /\ WellWritten(lines) => RunsAsWritten
<1>1. Init /\ WellWritten(lines) => RunInv
  BY ProgramInit, ReadingInit
  DEF RunInv, Init, AsmInit, OutputCounted, ProgramIsOutput
<1>2. RunInv /\ [Next]_vars => RunInv'
  BY RunInvStep
<1>3. Init => Source!Init
  BY DEF Init, Source!Init
<1>4. RunInv /\ [Next]_vars => [Source!Next]_(Source!vars)
  BY StepRefines
<1> QED
  BY <1>1, <1>2, <1>3, <1>4, PTL DEF Spec, RunsAsWritten, Source!Spec
=============================================================================
