----------------------------- MODULE MCProgram -----------------------------
(***************************************************************************)
(* Small sources for Program: every statement that is executed as written, *)
(* alone and behind a comparison, and every short source over statements   *)
(* that jump, compare, are gated, or end in the middle.                    *)
(***************************************************************************)
EXTENDS Program

MCVal == 0 .. 6
MCIntBits(n)   == n % 7
MCFloatBits(n) == (n + 3) % 7
MCCompute(op, type, operands) ==
  LET part(k) == IF k <= Len(operands) THEN k * operands[k] ELSE 0
  IN (1 + part(1) + part(2) + part(3) + part(4)) % 7

\* Registers left with contents that differ.
MCLeftovers == {[r \in PRegs |-> (r + r \div 7) % 7]}

Places == {P(0), M(0), M(RegMIn), Num(3)}

StatementsOf(op, type) ==
  { head \o condition \o dest \o args :
      head \in {<<Op(op, type)>>, <<If(op, type)>>},
      condition \in IF HasCondition(op) THEN {<<Cond("lte")>>, <<Cond("neq")>>}
                                        ELSE {<< >>},
      dest \in IF HasDest(op) THEN {<<P(0)>>, <<P(1)>>, <<M(1)>>} ELSE {<< >>},
      args \in [1 .. Argc(op, type) -> Places] }

ExitLine == <<Op("exit", "u32")>>

CompareLine == <<Op("cmp", "u32"), Cond("eq"), P(0), Num(0)>>

SingleStatements ==
  UNION { {s \in StatementsOf(m[1], m[2]) : AsWritten(<<s>>, s)} :
            m \in Mnemonics \ {<<"jmp", "u32">>} }

SingleSources ==
  {<<s, ExitLine>> : s \in SingleStatements}
    \cup {<<CompareLine, s, ExitLine>> : s \in SingleStatements}

ControlLines ==
  { <<Label("a")>>, ExitLine, <<If("exit", "u32")>>,
    <<Op("jmp", "u32"), Word("a")>>,
    <<If("jmp", "u32"), Num(32)>>,
    <<Op("jmp", "u32"), Num(24)>>,
    <<Op("cmp", "u32"), Cond("lt"), P(0), Num(3)>>,
    <<If("add", "u32"), P(0), P(0), Num(1)>>,
    <<Op("mul", "vec3"), M(1), M(0), P(0)>> }

CutLines ==
  { <<Op("mov", "u32"), P(0)>>, <<Op("mul", "vec3"), M(1), M(0)>>,
    <<Op("jmp", "u32"), Word("b")>> }

\* A label is defined where it begins the source.
ControlSources ==
  { s \in BoundedSeq(ControlLines, 4) :
      s # << >> /\ \A k \in DOMAIN s : AsWritten(s, s[k]) }

CutSources ==
  {<<a, b>> : a \in ControlLines, b \in CutLines}
    \cup {<<a, b, c>> : a \in ControlLines, b \in CutLines, c \in ControlLines}

\* Labels and jumps to them in any place and order, behind the end of the
\* execution: what is assembled is looked at and where it jumps is not.
LabelledSources ==
  { <<ExitLine>> \o s :
      s \in BoundedSeq({ <<Label("a")>>, <<Label("b")>>,
                         <<Op("jmp", "u32"), Word("a")>>, <<If("jmp", "u32"), Word("b")>>,
                         <<Op("pcmp", "u32"), Cond("eq"), P(0), P(1), Num(1)>>,
                         <<Op("mul", "vec3"), M(1), M(0), P(0)>> }, 4) }

WrittenSources == SingleSources \cup ControlSources \cup CutSources \cup LabelledSources

\* A jump to a label that is not at the start.
JumpSources ==
  { << <<Op("jmp", "u32"), Word("a")>>, <<Op("mov", "u32"), P(0), Num(1)>>,
       <<Label("a")>>, ExitLine >> }
=============================================================================
