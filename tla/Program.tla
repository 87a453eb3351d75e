------------------------------ MODULE Program ------------------------------
(***************************************************************************)
(* A shader from its source to its execution: the assembler (Assembler),   *)
(* the upload of what it wrote, and the interpreter (Shader), which the    *)
(* renderer starts for each vertex and each pixel.  Checked against what   *)
(* the source says (ShaderSource).                                         *)
(***************************************************************************)
EXTENDS Assembler, Shader, SequencesExt

CONSTANTS
  Sources,    \* the sources: sequences of lines, which are sequences of tokens
  Leftovers,  \* scalar registers as earlier shaders left them
  Inputs      \* coordinates, colours and vertices of an execution

ASSUME ProgramAssumption ==
  /\ Sources \subseteq Seq(Seq(Tokens) \ {<< >>})
  /\ Leftovers \subseteq [PRegs -> Val]
  /\ Inputs \subseteq Val
  /\ \A m \in Mnemonics, n \in 0 .. 4 :
       \A operands \in [1 .. n -> Val] : Compute(m[1], m[2], operands) \in Val
  /\ \A v \in Val, k \in 0 .. 2 : Compute("channel", "vec3", <<v, k>>) \in Val

VARIABLE lines   \* the source

vars == <<lines, tokens, pass, cursor, current_pc, labels, output, asm,
          program, address, exec, cFlag, pRegs, regs, v_out, v_pos>>

\* Cursors, counts, tables, instructions and registers keep their types, also
\* when a source ends in the middle of a statement (consume, compiler.c:128).
TypeOK ==
  /\ AsmTypeOK
  /\ RegTypeOK
  /\ address \in Nat
  /\ exec \in {"absent", "idle", "running", "lost"}

\* The line ends are white space to tokenize_file.
Init ==
  /\ lines \in Sources
  /\ tokens = FlattenSeq(lines)
  /\ AsmInit
  /\ program = << >> /\ address = 0 /\ exec = "absent"
  /\ cFlag = 0
  /\ pRegs \in Leftovers
  /\ regs = [r \in MatRegs |-> pRegs[r]]
  /\ v_out = 0 /\ v_pos = 0

Assemble == AsmNext /\ UNCHANGED <<lines, shaderVars>>

\* The application compiles the output in and uploads it.
Load ==
  /\ asm = "done" /\ exec = "absent"
  /\ program' = output
  /\ exec' = "idle"
  /\ UNCHANGED <<lines, asmVars, address, regVars>>

Shade ==
  /\ \E x, y, colour \in Inputs : RunFragment(x, y, colour)
  /\ UNCHANGED <<lines, asmVars>>

Transform ==
  /\ \E v, colour \in Inputs : RunVertex(v, colour)
  /\ UNCHANGED <<lines, asmVars>>

Execute == ExecStep /\ UNCHANGED <<lines, asmVars>>

Next == Assemble \/ Load \/ Shade \/ Transform \/ Execute

Spec == Init /\ [][Next]_vars

FairSpec == Spec /\ WF_vars(Assemble) /\ WF_vars(Execute)

-----------------------------------------------------------------------------
\* The operand is what the interpreter will take it for.
Fits(tok, how) ==
  CASE how = "scalar" -> \/ tok.t = "num"
                         \/ tok.t = "reg" /\ tok.file = "P" /\ tok.n \in PRegs
    [] how = "preg"   -> tok.t = "reg" /\ tok.file = "P" /\ tok.n \in PRegs
    [] how = "mreg"   -> tok.t = "reg" /\ tok.file = "M" /\ tok.n \in MatRegs
    [] how = "in"     -> /\ tok.t = "reg" /\ tok.file = "M"
                         /\ tok.n \in MatRegs \cup {RegMIn}

\* The statements that are executed as they are written.  The others that the
\* assembler accepts are: and, or, xor, not (no effect); rotx and roty, and the
\* weight of blendi and lerpi as a literal (its integer bits are used as a
\* float); trans (of a literal the integer part is used, and of a register that
\* holds a float its bits); dotv3, lenv3 and signv3 (the result goes to the
\* scalar register of the number); col with operands (they are ignored); cast
\* between two registers (the source is converted in place); a literal where a
\* register's number is expected; a matrix register for the operands of ldum and
\* lduv (the scalar register is read); registers that do not exist; and jmp with
\* a label that is not at the start.
AsWritten(source, line) ==
  \/ IsLabel(line)
  \/ LET op == line[1].op
         type == line[1].type
         dest == line[1 + DestOffset(op)]
     IN /\ op \notin {"and", "or", "xor", "not", "rotx", "roty", "trans"}
        /\ op \in {"blend", "lerp"} /\ type = "u32" => line[5].t # "num"
        /\ <<op, type>> # <<"col", "u32">>
        /\ HasDest(op) =>
             /\ dest.t = "reg" /\ dest.n \in DestFile(op, type)
             /\ dest.file = IF DestFile(op, type) = PRegs THEN "P" ELSE "M"
        /\ \A k \in DOMAIN Reading(op, type) :
             Fits(line[ArgsOffset(op) + k], Reading(op, type)[k])
        /\ op = "cast" => line[3] = dest
        /\ op = "jmp" /\ line[2].t = "word" =>
             source[1] = <<Label(line[2].name)>>

-----------------------------------------------------------------------------
\* The interpreter runs the source: each turn of its loop does to registers,
\* comparison flag and outputs what the next statement says, and goes on with
\* the statement that follows it, through gated statements, jumps to literal
\* addresses and executions one after the other.
Source == INSTANCE ShaderSource WITH
  exec  <- CASE exec = "absent" -> "idle"
             [] exec = "running" /\ address % InstrSize # 0 -> "lost"
             [] OTHER -> exec,
  place <- IF exec = "running" /\ address % InstrSize = 0
           THEN address \div InstrSize ELSE 0

RunsAsWritten == Source!Spec

\* Every statement became one instruction, and every jump to a label carries the
\* number of the statements before the label's first definition.
JumpsResolved ==
  asm = "done" =>
    /\ Len(output) = Len(Statements(lines))
    /\ \A k \in DOMAIN Statements(lines) :
         output[k].op = "jmp" /\ Statements(lines)[k][2].t = "word" =>
           output[k].args[1].n = LabelPlace(lines, Statements(lines)[k][2].name)

\* A jump to a label continues with the statement behind the label
\* (doc/compilerSpec.md:186).
JumpsReachLabels ==
  [][ (/\ exec = "running" /\ OnInstr /\ ~Gated
       /\ Instr.op = "jmp"
       /\ Statements(lines)[address \div InstrSize + 1][2].t = "word")
      => address' = InstrSize *
           LabelPlace(lines, Statements(lines)[address \div InstrSize + 1][2].name)
    ]_<<program, address, exec>>

\* The jump of statement k, if it is one, goes forward.
Forward(k) ==
  Statements(lines)[k][1].op = "jmp" =>
    /\ Statements(lines)[k][2].t = "num"
    /\ Statements(lines)[k][2].n >= InstrSize * k

\* An execution of a source without backward jumps comes to an end: every turn of
\* exec_shader's loop, through continue as well, moves on (renderer.c:122-778).
ExecutionEnds ==
  (/\ exec = "running"
   /\ \A k \in DOMAIN Statements(lines) : Forward(k)) ~> (exec # "running")

=============================================================================
