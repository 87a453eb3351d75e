------------------------------- MODULE Shader -------------------------------
(***************************************************************************)
(* exec_shader in gpu/renderer.c and its callers, for one uploaded         *)
(* program.  One step is one turn of its loop.  Registers and comparison   *)
(* flag outlive an execution.  The model stops at "lost" where the code    *)
(* goes on with what it should not have: it executes bytes outside the     *)
(* program or in the middle of an instruction, uses a register behind the  *)
(* last one, or divides an integer by zero.                                *)
(***************************************************************************)
EXTENDS ShaderIsa

VARIABLES
  program,  \* the instructions that were uploaded
  address,  \* program_address - program_begin, in bytes
  exec,     \* "idle", "running" or "lost"
  cFlag, pRegs, regs, v_out, v_pos

regVars    == <<cFlag, pRegs, regs, v_out, v_pos>>
shaderVars == <<program, address, exec, cFlag, pRegs, regs, v_out, v_pos>>

RegTypeOK ==
  /\ cFlag \in {0, 1}
  /\ pRegs \in [PRegs -> Val]
  /\ regs \in [MatRegs -> Val]
  /\ v_out \in Val /\ v_pos \in Val

-----------------------------------------------------------------------------
\* How exec_shader takes each operand: "scalar" through get_arg_scalar_value,
\* "preg" and "mreg" as the number of a register whatever the operand is, and
\* "in" as a matrix register or the incoming vertex.
Reading(op, type) ==
  CASE op \in {"jmp", "col", "and", "or", "xor", "not"}   -> << >>
    [] op \in {"norm"} \/ <<op, type>> \in {<<"mov", "matrix">>, <<"len", "vec3">>}
                                                         -> <<"mreg">>
    [] op \in {"dot", "cross"} \/ <<op, type>> = <<"mul", "matrix">>
                                                         -> <<"mreg", "mreg">>
    [] op \in {"mul", "add", "sub"} /\ type = "vec4"     -> <<"mreg", "in">>
    [] op \in {"mul", "add", "sub"} /\ type = "vec3"     -> <<"mreg", "scalar">>
    [] op = "mod"                                        -> <<"preg", "scalar">>
    [] op \in {"abs", "cast"}                            -> <<"preg">>
    [] OTHER -> [k \in 1 .. Argc(op, type) |-> "scalar"]

Bits(a) == IF a.enc = "float" THEN FloatBits(a.n) ELSE IntBits(a.n)

\* An operand taken for a register's number; no float but 0.0 is one.
InFile(a, numbers) == a.n \in numbers /\ (a.enc = "float" => a.n = 0)

Readable(a, how) ==
  CASE how = "scalar" -> a.kind = "reg" => a.n \in PRegs
    [] how = "preg"   -> InFile(a, PRegs)
    [] how = "mreg"   -> InFile(a, MatRegs)
    [] how = "in"     -> InFile(a, MatRegs \cup {RegMIn})

Read(a, how) ==
  CASE how = "scalar" -> IF a.kind = "imm" THEN Bits(a) ELSE pRegs[a.n]
    [] how = "preg"   -> pRegs[a.n]
    [] how = "mreg"   -> regs[a.n]
    [] how = "in"     -> IF a.n = RegMIn THEN v_pos ELSE regs[a.n]

\* Where the result goes.
Target(op, type) ==
  CASE op \in {"jmp", "exit", "and", "or", "xor", "not"} -> "none"
    [] op = "cmp"  -> "cFlag"
    [] op = "mvp"  -> "v_out"
    [] op = "col"  -> "colour"
    [] op = "cast" -> "arg0"
    [] OTHER -> IF op \in {"dot", "len", "sign"} \/ type \in {"u32", "f32"}
                THEN "preg" ELSE "mreg"

\* The destination register where it is read too: all of it by fsan, mvp and
\* col, and by a vector write the part it keeps.
ReadsDest(op, type) == op \in {"fsan", "mvp", "col"} \/ KeepsRest(op, type)

DestFile(op, type) ==
  IF Target(op, type) \in {"preg", "arg0"} THEN PRegs ELSE MatRegs

Executable(i) ==
  LET reading == Reading(i.op, i.type)
  IN /\ \A k \in DOMAIN reading : Readable(i.args[k], reading[k])
     /\ \/ Target(i.op, i.type) \in {"none", "cFlag", "arg0"}
        \/ i.dest \in DestFile(i.op, i.type)

Operands(i) ==
  LET reading == Reading(i.op, i.type)
      dest == IF DestFile(i.op, i.type) = PRegs THEN pRegs[i.dest]
                                                ELSE regs[i.dest]
  IN [k \in DOMAIN reading |-> Read(i.args[k], reading[k])]
       \o IF ReadsDest(i.op, i.type) THEN <<dest>> ELSE << >>

\* cmp and pcmp compare; every other result is the arithmetic's.
Result(i) ==
  IF HasCondition(i.op)
  THEN Compare(i.flag, Operands(i)[1], Operands(i)[2])
  ELSE Compute(i.op, i.type, Operands(i))

\* col makes each of the three channels from one vector.
Channel(v, k) == Compute("channel", "vec3", <<v, k>>)

-----------------------------------------------------------------------------
OnInstr == address % InstrSize = 0 /\ address < InstrSize * Len(program)
Instr   == program[address \div InstrSize + 1]

\* Fault: the flag gates the other way round.
GatedWhenSet == Instr.flag = "enable" /\ cFlag = 1

Gated == Instr.flag = "enable" /\ cFlag # 1

\* The switch has no case for these opcodes.
NoCase == Instr.op \in {"and", "or", "xor", "not"}

Continue == address' = address + InstrSize /\ UNCHANGED <<program, exec, v_pos>>

\* Fault: a gated instruction is not stepped over.
StepOverStays ==
  /\ exec = "running" /\ OnInstr /\ (Gated \/ NoCase)
  /\ UNCHANGED shaderVars

StepOver ==
  /\ exec = "running" /\ OnInstr /\ (Gated \/ NoCase)
  /\ Continue
  /\ UNCHANGED <<cFlag, pRegs, regs, v_out>>

Goal == Target(Instr.op, Instr.type)

CanExecute ==
  /\ exec = "running" /\ OnInstr /\ ~Gated /\ ~NoCase
  /\ Executable(Instr)
  /\ ~Traps(Instr.op, Instr.type, Operands(Instr))

ExecCmp ==
  /\ CanExecute /\ Goal = "cFlag"
  /\ cFlag' = Result(Instr)
  /\ Continue
  /\ UNCHANGED <<pRegs, regs, v_out>>

ExecScalar ==
  /\ CanExecute /\ Goal = "preg"
  /\ pRegs' = [pRegs EXCEPT ![Instr.dest] = Result(Instr)]
  /\ Continue
  /\ UNCHANGED <<cFlag, regs, v_out>>

\* CAST works on its operand's register and does not look at dest.
ExecCast ==
  /\ CanExecute /\ Goal = "arg0"
  /\ pRegs' = [pRegs EXCEPT ![Instr.args[1].n] = Result(Instr)]
  /\ Continue
  /\ UNCHANGED <<cFlag, regs, v_out>>

ExecMatrix ==
  /\ CanExecute /\ Goal = "mreg"
  /\ regs' = [regs EXCEPT ![Instr.dest] = Result(Instr)]
  /\ Continue
  /\ UNCHANGED <<cFlag, pRegs, v_out>>

ExecMvp ==
  /\ CanExecute /\ Goal = "v_out"
  /\ v_out' = Result(Instr)
  /\ Continue
  /\ UNCHANGED <<cFlag, pRegs, regs>>

ExecCol ==
  /\ CanExecute /\ Goal = "colour"
  /\ LET v == regs[Instr.dest]
     IN pRegs' = [pRegs EXCEPT ![RegPR] = Channel(v, 0),
                               ![RegPG] = Channel(v, 1),
                               ![RegPB] = Channel(v, 2)]
  /\ Continue
  /\ UNCHANGED <<cFlag, regs, v_out>>

\* The assembler writes literals and the addresses of labels as targets.
ExecJmp ==
  /\ CanExecute /\ Instr.op = "jmp"
  /\ address' = Instr.args[1].n
  /\ UNCHANGED <<program, exec, cFlag, pRegs, regs, v_out, v_pos>>

ExecExit ==
  /\ CanExecute /\ Instr.op = "exit"
  /\ exec' = "idle"
  /\ UNCHANGED <<program, address, cFlag, pRegs, regs, v_out, v_pos>>

GoAstray ==
  /\ exec = "running"
  /\ IF OnInstr
     THEN /\ ~Gated /\ ~NoCase
          /\ \/ ~Executable(Instr)
             \/ Executable(Instr) /\ Traps(Instr.op, Instr.type, Operands(Instr))
     ELSE TRUE
  /\ exec' = "lost"
  /\ UNCHANGED <<program, address, cFlag, pRegs, regs, v_out, v_pos>>

-----------------------------------------------------------------------------
\* put_pixel: a fragment at x, y with an interpolated colour.
RunFragment(x, y, colour) ==
  /\ exec = "idle"
  /\ pRegs' = [pRegs EXCEPT ![RegPX] = x, ![RegPY] = y,
                            ![RegPR] = colour, ![RegPG] = colour,
                            ![RegPB] = colour]
  /\ exec' = "running" /\ address' = 0
  /\ UNCHANGED <<program, cFlag, regs, v_out, v_pos>>

\* gpu_render_triangles and gpu_render_wireframe: a vertex with its colour.
RunVertex(v, colour) ==
  /\ exec = "idle"
  /\ v_pos' = v
  /\ pRegs' = [pRegs EXCEPT ![RegPR] = colour, ![RegPG] = colour,
                            ![RegPB] = colour]
  /\ exec' = "running" /\ address' = 0
  /\ UNCHANGED <<program, cFlag, regs, v_out>>

ExecStep ==
  \/ StepOver \/ ExecCmp \/ ExecScalar \/ ExecCast \/ ExecMatrix \/ ExecMvp
  \/ ExecCol \/ ExecJmp \/ ExecExit \/ GoAstray

=============================================================================
