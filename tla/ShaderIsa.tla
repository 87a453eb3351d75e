----------------------------- MODULE ShaderIsa -----------------------------
(***************************************************************************)
(* The instruction set that the assembler (compiler/compiler.c) and the    *)
(* interpreter (exec_shader in gpu/renderer.c) share.  Of a source text    *)
(* the tokens are kept, each as the record the assembler's tests on its    *)
(* first character tell apart; of the arithmetic, that a result is a       *)
(* function of the operands (Compute).  Bits are not told apart from the   *)
(* number they stand for, except where a literal is read as one type and   *)
(* used as the other.                                                      *)
(***************************************************************************)
EXTENDS Integers, Sequences, SeqFilter

CONSTANTS
  Labels,          \* names of labels, none with the first letter of a register
  Literals,        \* the numbers that stand in sources
  Val,             \* what a scalar or a matrix register holds
  IntBits(_),      \* the bits of a literal that strtol has read
  FloatBits(_),    \* the bits of a literal that strtof has read
  Compute(_, _, _) \* the result of an opcode of a type on operands

ASSUME ShaderIsaAssumption ==
  /\ Val \subseteq Nat
  /\ {0, 1} \subseteq Val
  /\ Literals \subseteq Nat
  /\ \A n \in Literals : IntBits(n) \in Val /\ FloatBits(n) \in Val

InstrSize == 16     \* sizeof(Instr)
MatRegs   == 0 .. 7
RegMIn    == 8      \* REG_M_IN, no register but the vertex that comes in
PRegs     == 0 .. 12
RegPX == 8
RegPY == 9
RegPR == 10
RegPG == 11
RegPB == 12

Conditions == {"eq", "neq", "lt", "gt", "lte", "gte"}

\* The table token_defs: an opcode with its operand type makes a mnemonic.
Mnemonics ==
  ({"add", "sub", "mul", "div", "min", "max", "abs", "neg", "recip", "clamp",
    "fma", "mad", "lerp", "blend", "cast", "sign", "ldu", "cmp", "pcmp"}
     \X {"u32", "f32"})
  \cup ({"mov", "mod", "col", "and", "or", "xor", "not", "jmp", "exit"}
          \X {"u32"})
  \cup ({"fsan", "sqrt", "sin", "cos", "tan", "atan", "exp", "rsqrt", "len",
         "sat"} \X {"f32"})
  \cup ({"mov", "rotx", "roty", "ident", "trans", "mvp", "mul", "ldu"}
          \X {"matrix"})
  \cup ({"mul", "add", "sub", "ldu", "norm"} \X {"vec4"})
  \cup ({"mul", "add", "sub", "col", "dot", "cross", "len", "sign", "vec3"}
          \X {"vec3"})

\* The columns argc and format of the table.
Argc(op, type) ==
  IF \/ op \in {"exit", "ident", "mvp", "fsan"}
     \/ op = "col" /\ type = "vec3"
  THEN 0
  ELSE IF op \in {"trans", "col", "blend", "lerp", "clamp", "fma", "mad", "vec3"}
  THEN 3
  ELSE IF \/ op \in {"mov", "rotx", "roty", "abs", "sqrt", "sin", "cos", "cast",
                     "ldu", "jmp", "not", "norm", "neg", "recip", "rsqrt",
                     "sat", "sign", "tan", "exp"}
          \/ op = "len" /\ type = "vec3"
  THEN 1
  ELSE 2

HasCondition(op) == op \in {"cmp", "pcmp"}
HasDest(op)      == op \notin {"exit", "cmp", "jmp"}

\* How many tokens stand before the destination, and before the operands.
DestOffset(op) == IF HasCondition(op) THEN 2 ELSE 1
ArgsOffset(op) == DestOffset(op) + (IF HasDest(op) THEN 1 ELSE 0)

\* The tokens of a statement, its head among them.
Width(op, type) == ArgsOffset(op) + Argc(op, type)

Types == {"u32", "f32", "matrix", "vec4", "vec3"}
VectorTypes == {"vec4", "vec3"}

\* The tokens that a source can hold, and those that make one.
Label(l)          == [t |-> "label", name |-> l]                \* l:
Word(l)           == [t |-> "word", name |-> l]
Op(op, type)      == [t |-> "op", op |-> op, type |-> type, cond |-> FALSE]
If(op, type)      == [Op(op, type) EXCEPT !.cond = TRUE]        \* !op
Cond(c)           == [t |-> "cond", name |-> c]
Num(n)            == [t |-> "num", n |-> n]
P(n)              == [t |-> "reg", file |-> "P", n |-> n]
M(n)              == [t |-> "reg", file |-> "M", n |-> n]

Tokens ==
  [t : {"label", "word"}, name : Labels]
    \cup [t : {"op"}, op : {m[1] : m \in Mnemonics}, type : Types,
          cond : BOOLEAN]
    \cup [t : {"cond"}, name : Conditions]
    \cup [t : {"num"}, n : Literals]
    \cup [t : {"reg"}, file : {"P", "M"}, n : Nat]

\* A source is a sequence of lines, a line a sequence of tokens.
IsLabel(line) == line[1].t = "label"
Statements(source) ==
  Sift(source, {source[k] : k \in {j \in DOMAIN source : ~IsLabel(source[j])}})

\* The statement behind the first definition of l, counted from 0.
LabelPlace(source, l) ==
  LET k == CHOOSE k \in DOMAIN source :
             /\ source[k] = <<Label(l)>>
             /\ \A j \in 1 .. k - 1 : source[j] # <<Label(l)>>
  IN Len(Statements(SubSeq(source, 1, k)))

\* cmp_u32, and cmp_f32 for numbers: 1 iff the comparison holds.
Compare(flag, a, b) ==
  IF CASE flag = "eq"  -> a = b
       [] flag = "neq" -> a # b
       [] flag = "lt"  -> a < b
       [] flag = "gt"  -> a > b
       [] flag = "lte" -> a <= b
       [] flag = "gte" -> a >= b
  THEN 1 ELSE 0

\* A vector is part of a matrix register: writing one keeps the rest.
KeepsRest(op, type) ==
  type \in VectorTypes /\ op \notin {"dot", "len", "sign", "col"}

\* An integer division by zero stops the emulator.
Traps(op, type, operands) ==
  type = "u32" /\ op \in {"div", "mod"} /\ operands[2] = 0

=============================================================================
