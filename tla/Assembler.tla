----------------------------- MODULE Assembler -----------------------------
(***************************************************************************)
(* The two passes of compiler/compiler.c over the tokens of one source.    *)
(* One step is one call of process_instruction.  Both passes count         *)
(* instructions in current_pc, the first to give addresses to labels and   *)
(* the second beside what it writes; nothing but their skipping the same   *)
(* tokens keeps the counts equal.                                          *)
(***************************************************************************)
EXTENDS ShaderIsa

VARIABLES
  tokens,      \* what tokenize_file has read
  pass,        \* 1 or 2
  cursor,      \* tokens consumed in this pass
  current_pc,  \* instructions met in this pass
  labels,      \* the table of labels in the order of their definitions
  output,      \* the instructions written
  asm          \* "running", "done", or "failed" once report_error has exited

asmVars == <<tokens, pass, cursor, current_pc, labels, output, asm>>

AsmInit ==
  /\ pass = 1 /\ cursor = 0 /\ current_pc = 0
  /\ labels = << >> /\ output = << >>
  /\ asm = "running"

\* peek: is there a token at c, and which.
Present(c) == c < Len(tokens)
At(c)      == tokens[c + 1]

IsInstr(tok) == tok.t = "op" /\ <<tok.op, tok.type>> \in Mnemonics

\* parse_reg looks at the first letter and takes the rest for a number, so
\* that a mnemonic in the place of an operand is register 0 of its letter.
LooksLike(tok, file) ==
  \/ tok.t = "reg" /\ tok.file = file
  \/ /\ tok.t = "op" /\ ~tok.cond
     /\ \/ file = "M" /\ tok.op \in {"mov", "mul", "mod", "mvp", "min", "max",
                                     "mad"}
        \/ file = "P" /\ tok.op = "pcmp"

ParseReg(tok) == IF tok.t = "reg" THEN tok.n ELSE 0

FileOf(type) == IF type \in {"matrix", "vec4", "vec3"} THEN "M" ELSE "P"

\* mulv3, addv3 and subv3, which the code parses apart.
ScalesVec3(op, type) == type = "vec3" /\ op \in {"mul", "add", "sub"}

ArgFile(op, type, i) ==
  IF op = "vec3" \/ (ScalesVec3(op, type) /\ i = 2) THEN "P" ELSE FileOf(type)

\* get_label_address: the first definition of a name counts.
Defined(l) == \E k \in 1 .. Len(labels) : labels[k].name = l

\* Fault: the last definition counts.
LabelAddressLast(l) ==
  labels[CHOOSE k \in 1 .. Len(labels) :
           /\ labels[k].name = l
           /\ \A j \in k + 1 .. Len(labels) : labels[j].name # l].address

LabelAddress(l) ==
  labels[CHOOSE k \in 1 .. Len(labels) :
           /\ labels[k].name = l
           /\ \A j \in 1 .. k - 1 : labels[j].name # l].address

\* parse_arg: what the i-th operand may be, and what becomes of it.
AcceptsArg(tok, op, type, i) ==
  \/ tok.t = "num" /\ ~(ScalesVec3(op, type) /\ i = 1)
  \/ op = "jmp" /\ tok.t = "word" /\ Defined(tok.name)
  \/ op # "jmp" /\ LooksLike(tok, ArgFile(op, type, i))

ParseArg(tok, op, type) ==
  CASE tok.t = "num" ->
         [kind |-> "imm", n |-> tok.n,
          enc |-> IF type \in {"f32", "vec3"} /\ op # "ldu"
                  THEN "float" ELSE "int"]
    [] tok.t = "word" ->
         [kind |-> "imm", n |-> LabelAddress(tok.name), enc |-> "int"]
    [] OTHER ->
         [kind |-> "reg", n |-> ParseReg(tok), enc |-> "int"]

-----------------------------------------------------------------------------
\* The checks of the first pass, which leaves most to the second.
Skippable(c) ==
  LET op == At(c).op
      type == At(c).type
      dest == c + DestOffset(op)
      arg  == c + ArgsOffset(op)
  IN /\ IsInstr(At(c))
     /\ HasDest(op) =>
          /\ Present(dest)
          /\ op = "vec3" \/ ScalesVec3(op, type) => LooksLike(At(dest), "M")
     /\ ScalesVec3(op, type) => Present(arg) /\ LooksLike(At(arg), "M")

\* The checks of the second pass.
Emittable(c) ==
  LET op == At(c).op
      type == At(c).type
  IN /\ IsInstr(At(c))
     /\ c + Width(op, type) <= Len(tokens)
     /\ HasCondition(op) => At(c + 1).t = "cond"
     /\ HasDest(op) => LooksLike(At(c + DestOffset(op)), FileOf(type))
     /\ \A i \in 1 .. Argc(op, type) :
          AcceptsArg(At(c + ArgsOffset(op) + i - 1), op, type, i)

\* The instruction that the second pass writes.
InstrAt(c) ==
  LET op == At(c).op
      type == At(c).type
  IN [op |-> op, type |-> type,
      flag |-> IF HasCondition(op) THEN At(c + 1).name
               ELSE IF At(c).cond THEN "enable" ELSE "disable",
      dest |-> IF HasDest(op) THEN ParseReg(At(c + DestOffset(op))) ELSE 0,
      args |-> [i \in 1 .. Argc(op, type) |->
                  ParseArg(At(c + ArgsOffset(op) + i - 1), op, type)]]

\* The tokens that the first pass skips: head, condition, destination and
\* operands.  The second pass consumes Width.
Skipped(op, type) ==
  1 + (IF HasCondition(op) THEN 1 ELSE 0)
    + (IF HasDest(op) THEN 1 ELSE 0)
    + (IF ScalesVec3(op, type) THEN 2 ELSE Argc(op, type))

\* Fault: consume moves on where there is no token.
ConsumedUnchecked(c, n) == c + n

\* The cursor after n calls of consume.
Consumed(c, n) == IF c + n < Len(tokens) THEN c + n ELSE Len(tokens)

-----------------------------------------------------------------------------
\* Fault: a definition counts as an instruction.
DefineLabelCounted ==
  /\ asm = "running" /\ pass = 1 /\ Present(cursor)
  /\ At(cursor).t = "label"
  /\ labels' = Append(labels, [name |-> At(cursor).name,
                               address |-> current_pc])
  /\ cursor' = cursor + 1 /\ current_pc' = current_pc + 1
  /\ UNCHANGED <<tokens, pass, output, asm>>

DefineLabel ==
  /\ asm = "running" /\ pass = 1 /\ Present(cursor)
  /\ At(cursor).t = "label"
  /\ labels' = Append(labels, [name |-> At(cursor).name,
                               address |-> current_pc])
  /\ cursor' = cursor + 1
  /\ UNCHANGED <<tokens, pass, current_pc, output, asm>>

SkipInstr ==
  /\ asm = "running" /\ pass = 1 /\ Present(cursor)
  /\ At(cursor).t # "label" /\ Skippable(cursor)
  /\ cursor' = Consumed(cursor, Skipped(At(cursor).op, At(cursor).type))
  /\ current_pc' = current_pc + 1
  /\ UNCHANGED <<tokens, pass, labels, output, asm>>

SecondPass ==
  /\ asm = "running" /\ pass = 1 /\ ~Present(cursor)
  /\ pass' = 2 /\ cursor' = 0 /\ current_pc' = 0
  /\ UNCHANGED <<tokens, labels, output, asm>>

PassLabel ==
  /\ asm = "running" /\ pass = 2 /\ Present(cursor)
  /\ At(cursor).t = "label"
  /\ cursor' = cursor + 1
  /\ UNCHANGED <<tokens, pass, current_pc, labels, output, asm>>

EmitInstr ==
  /\ asm = "running" /\ pass = 2 /\ Present(cursor)
  /\ At(cursor).t # "label" /\ Emittable(cursor)
  /\ output' = Append(output, InstrAt(cursor))
  /\ cursor' = cursor + Width(At(cursor).op, At(cursor).type)
  /\ current_pc' = current_pc + 1
  /\ UNCHANGED <<tokens, pass, labels, asm>>

\* report_error and its exit.  A source that ends in the middle of mulv3,
\* addv3 or subv3 has the assembler read through NULL instead.
ReportError ==
  /\ asm = "running" /\ Present(cursor)
  /\ At(cursor).t # "label"
  /\ IF pass = 1 THEN ~Skippable(cursor) ELSE ~Emittable(cursor)
  /\ asm' = "failed"
  /\ UNCHANGED <<tokens, pass, cursor, current_pc, labels, output>>

Finish ==
  /\ asm = "running" /\ pass = 2 /\ ~Present(cursor)
  /\ asm' = "done"
  /\ UNCHANGED <<tokens, pass, cursor, current_pc, labels, output>>

AsmNext ==
  \/ DefineLabel \/ SkipInstr \/ SecondPass
  \/ PassLabel \/ EmitInstr \/ ReportError \/ Finish

AsmSpec ==
  /\ tokens \in Seq(Tokens) /\ AsmInit
  /\ [][AsmNext]_asmVars

-----------------------------------------------------------------------------
Args == [kind : {"imm", "reg"}, n : Nat, enc : {"int", "float"}]
Instrs ==
  [op : {m[1] : m \in Mnemonics}, type : Types,
   flag : Conditions \cup {"enable", "disable"}, dest : Nat, args : Seq(Args)]

\* The types of the assembler's state: the cursor stays in the tokens, the count
\* behind the cursor, and what is written are instructions.
AsmTypeOK ==
  /\ tokens \in Seq(Tokens)
  /\ pass \in {1, 2}
  /\ cursor \in 0 .. Len(tokens)
  /\ current_pc \in 0 .. cursor
  /\ labels \in Seq([name : Labels, address : Nat])
  /\ output \in Seq(Instrs)
  /\ asm \in {"running", "done", "failed"}

\* What the two passes must agree on: when the second pass meets the first
\* definition of a label, it has written as many instructions as the first
\* pass had counted there, so that the address of a label is the index of the
\* instruction behind it.  The passes count on their own (compiler.c:394).
LabelsNameTheirInstruction ==
  asm = "running" /\ pass = 2 /\ Present(cursor) /\ At(cursor).t = "label"
    => /\ current_pc = Len(output)
       /\ \E k \in 1 .. Len(labels) :
            labels[k] = [name |-> At(cursor).name, address |-> current_pc]

=============================================================================
