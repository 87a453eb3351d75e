---------------------------- MODULE ShaderSource ----------------------------
(***************************************************************************)
(* What a shader's author means by a source (doc/compilerSpec.md and       *)
(* doc/shaderSpec.md): statements run in order, operands are the           *)
(* registers and numbers that are written there, "!" makes a statement     *)
(* depend on the last comparison, and jmp goes to the statement behind its *)
(* label or, with a number, that many bytes behind the program's start.    *)
(* There are no passes, encodings or addresses here.                       *)
(***************************************************************************)
EXTENDS ShaderIsa

CONSTANTS Inputs    \* coordinates, colours and vertices of an execution

VARIABLES
  lines,    \* the source: sequences of tokens, one for each line
  place,    \* the statement that is next, from 0
  exec,     \* "idle", "running" or "lost"
  cFlag, pRegs, regs, v_out, v_pos

vars == <<lines, place, exec, cFlag, pRegs, regs, v_out, v_pos>>

Statement == Statements(lines)[place + 1]
Opening   == Statement[1]
Opcode    == Opening.op
Type      == Opening.type
DestTok   == Statement[1 + DestOffset(Opcode)]
Operand(k) == Statement[ArgsOffset(Opcode) + k]

\* The angle of a rotation, the way of a translation (doc/shaderSpec.md:377, 389,
\* 412) and the weight between two numbers (:498, :510) are fractions whatever
\* the type of the statement.
Fraction(k) ==
  \/ Opcode \in {"rotx", "roty", "trans"}
  \/ Opcode \in {"blend", "lerp"} /\ k = 3

\* Where a number is a float; the offset of a load is none whatever it loads.
FloatWanted(k) ==
  \/ Type \in {"f32", "vec3"} /\ Opcode # "ldu"
  \/ Fraction(k)

Register(tok) ==
  CASE tok.file = "P" -> pRegs[tok.n]
    [] tok.file = "M" -> IF tok.n = RegMIn THEN v_pos ELSE regs[tok.n]

Value(k) ==
  CASE Operand(k).t = "num" -> IF FloatWanted(k) THEN FloatBits(Operand(k).n)
                                                 ELSE IntBits(Operand(k).n)
    [] Operand(k).t = "reg" -> Register(Operand(k))

\* The operands, and the destination where an instruction works in place.
Values ==
  [k \in 1 .. Argc(Opcode, Type) |-> Value(k)]
    \o IF Opcode \in {"fsan", "mvp", "col"} \/ KeepsRest(Opcode, Type)
       THEN <<Register(DestTok)>> ELSE << >>

Running == exec = "running" /\ place < Len(Statements(lines))

\* Comparisons always execute (doc/shaderSpec.md:97).
Held == Opening.cond /\ ~HasCondition(Opcode) /\ cFlag = 0

NextStatement == place' = place + 1 /\ UNCHANGED <<lines, exec, v_pos>>

Pass ==
  /\ Running /\ Held
  /\ NextStatement
  /\ UNCHANGED <<cFlag, pRegs, regs, v_out>>

Perform(op) ==
  /\ Running /\ ~Held /\ Opcode = op
  /\ op \notin {"exit", "jmp"} => ~Traps(op, Type, Values)

CompareTwo ==
  /\ Perform("cmp")
  /\ cFlag' = Compare(Statement[2].name, Values[1], Values[2])
  /\ NextStatement
  /\ UNCHANGED <<pRegs, regs, v_out>>

\* The result goes to the register that is written in front of the operands.
Assign(op, result) ==
  /\ Perform(op)
  /\ IF DestTok.file = "P"
     THEN pRegs' = [pRegs EXCEPT ![DestTok.n] = result] /\ UNCHANGED regs
     ELSE regs' = [regs EXCEPT ![DestTok.n] = result] /\ UNCHANGED pRegs
  /\ NextStatement
  /\ UNCHANGED <<cFlag, v_out>>

CompareInto ==
  Assign("pcmp", Compare(Statement[2].name, Values[1], Values[2]))

Calculate ==
  \E op \in {m[1] : m \in Mnemonics} \ {"exit", "jmp", "cmp", "pcmp", "mvp", "col"} :
    Assign(op, Compute(op, Type, Values))

OutputVertex ==
  /\ Perform("mvp")
  /\ v_out' = Compute("mvp", Type, Values)
  /\ NextStatement
  /\ UNCHANGED <<cFlag, pRegs, regs>>

OutputColour ==
  /\ Perform("col")
  /\ LET channel(k) == Compute("channel", "vec3", <<Register(DestTok), k>>)
     IN pRegs' = [pRegs EXCEPT ![RegPR] = channel(0), ![RegPG] = channel(1),
                               ![RegPB] = channel(2)]
  /\ NextStatement
  /\ UNCHANGED <<cFlag, regs, v_out>>

Leave(e) ==
  /\ exec' = e /\ place' = 0
  /\ UNCHANGED <<lines, cFlag, pRegs, regs, v_out, v_pos>>

Exit == Perform("exit") /\ Leave("idle")

\* A number that is no statement's address leads out of the program.
Jump ==
  /\ Perform("jmp")
  /\ LET target == Operand(1)
         number == target.n
     IN IF target.t = "word"
        THEN /\ place' = LabelPlace(lines, target.name)
             /\ UNCHANGED <<lines, exec, cFlag, pRegs, regs, v_out, v_pos>>
        ELSE IF number % InstrSize = 0
             THEN /\ place' = number \div InstrSize
                  /\ UNCHANGED <<lines, exec, cFlag, pRegs, regs, v_out, v_pos>>
             ELSE Leave("lost")

\* There is no statement, or one that has no meaning.
Stray ==
  /\ exec = "running"
  /\ ~Running \/ (~Held /\ Traps(Opcode, Type, Values))
  /\ Leave("lost")

Begin ==
  /\ exec = "idle"
  /\ exec' = "running"
  /\ \E x, y, colour \in Inputs :
       \/ /\ pRegs' = [pRegs EXCEPT ![RegPX] = x, ![RegPY] = y,
                         ![RegPR] = colour, ![RegPG] = colour, ![RegPB] = colour]
          /\ UNCHANGED v_pos
       \/ /\ pRegs' = [pRegs EXCEPT ![RegPR] = colour, ![RegPG] = colour,
                                    ![RegPB] = colour]
          /\ v_pos' = x
  /\ UNCHANGED <<lines, place, cFlag, regs, v_out>>

Init == exec = "idle" /\ place = 0

Next ==
  \/ Begin \/ Pass \/ CompareTwo \/ CompareInto \/ Calculate
  \/ OutputVertex \/ OutputColour \/ Exit \/ Jump \/ Stray

Spec == Init /\ [][Next]_vars

=============================================================================
