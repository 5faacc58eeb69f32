----------------------- MODULE MCConstantPropagation -----------------------
(***************************************************************************)
(* Programs and environments for model checking ConstantPropagation.       *)
(* Every family is a set of small programs built around the instructions   *)
(* one group of folding rules looks at, with the operands ranging over     *)
(* the sources, the immediates and the earlier results that make the       *)
(* rules meet each other.                                                  *)
(***************************************************************************)
EXTENDS ConstantPropagation

\* A program of one block holding the arena in order.
OneBlock(arena) == [insts |-> arena, blocks |-> <<[k \in DOMAIN arena |-> k]>>]

R1 == 1                     \* a register other than RZ
P0 == 0                     \* a predicate other than PT

\* The environments in which register R1 holds one of `regs`, predicate
\* P0 one of `preds`, the two constant buffer words one of `words` each
\* and the two attributes one of `floats` each.
EnvsOver(regs, preds, words, floats) ==
    [reg : [{R1} -> regs],
     pred : [{P0} -> preds],
     cbuf : [{<<0, 0>>, <<0, 4>>} -> words],
     attr : [{0, 1} -> floats]]

-----------------------------------------------------------------------------
(* Integer addition and subtraction *)

ArithSources ==
    {Ref(1), Ref(2), Ref(3), ImmU32(0), ImmU32(5), ImmU32(Word - 4)}

\* Two instructions over a register read and three constant buffer reads,
\* two of them of the same word, the second using the first.
AllArithPrograms ==
    {OneBlock(<<Inst("GetRegister", <<RegValue(r)>>),
                Inst("GetCbufU32", <<ImmU32(0), ImmU32(0)>>),
                Inst("GetCbufU32", <<ImmU32(0), ImmU32(o)>>),
                Inst(op1, <<ab[1], ab[2]>>),
                Inst(op2, IF first THEN <<Ref(4), c>> ELSE <<c, Ref(4)>>)>>) :
        r \in {RZ, R1}, o \in {0, 4},
        op1 \in {"IAdd32", "ISub32"}, ab \in ArithSources \X ArithSources,
        op2 \in {"IAdd32", "ISub32"}, c \in ArithSources, first \in BOOLEAN}

\* A subtraction whose second operand is the result of an addition.
SubtractsAnAddition(program) ==
    \E i \in DOMAIN program.insts :
        /\ program.insts[i].op = "ISub32"
        /\ program.insts[i].args[2].t = "Opaque"
        /\ program.insts[program.insts[i].args[2].v].op = "IAdd32"

ArithPrograms == {p \in AllArithPrograms : ~SubtractsAnAddition(p)}

\* The programs left out above: the subtractions FoldISub32 looks at with
\* its operands swapped.
SubtractionPrograms == {p \in AllArithPrograms : SubtractsAnAddition(p)}

ArithEnvs == EnvsOver({3, Word - 2}, {FALSE}, {3, Word - 2}, {FloatZero})

\* 64-bit additions over a widened register read.
Add64Sources == {Ref(2), ImmU64(0), ImmU64(5), ImmU64(DWord - 3)}

Add64Programs ==
    {OneBlock(<<Inst("GetRegister", <<RegValue(R1)>>),
                Inst("ConvertU64U32", <<Ref(1)>>),
                Inst("IAdd64", <<ab[1], ab[2]>>),
                Inst("IAdd64", IF first THEN <<Ref(3), c>> ELSE <<c, Ref(3)>>)>>) :
        ab \in Add64Sources \X Add64Sources, c \in Add64Sources,
        first \in BOOLEAN}

\* An addition with a carry or flags read from it, and an addition that
\* uses its result.
CarryPrograms ==
    {OneBlock(<<Inst("GetRegister", <<RegValue(r)>>),
                Inst("GetCbufU32", <<ImmU32(0), ImmU32(0)>>),
                WithPseudo(Inst("IAdd32", <<ab[1], ab[2]>>)),
                Inst("IAdd32", IF first THEN <<Ref(3), c>> ELSE <<c, Ref(3)>>)>>) :
        r \in {RZ, R1}, ab \in (ArithSources \ {Ref(3)}) \X (ArithSources \ {Ref(3)}),
        c \in ArithSources \ {Ref(3)}, first \in BOOLEAN}

\* A carry-producing addition of two immediates, one of them possibly the
\* read of RZ.
AddsImmediatesWithCarry(program) ==
    \A k \in {1, 2} :
        \/ program.insts[3].args[k].t = "U32"
        \/ /\ program.insts[3].args[k] = Ref(1)
           /\ program.insts[1].args[1] = RegValue(RZ)

-----------------------------------------------------------------------------
(* The XMAD idiom *)

\* The six instructions of the idiom over factor a (register R1, also
\* reached through an addition of zero that the pass folds first) and
\* factor b (a constant buffer word or an immediate), with every literal
\* and every factor of the pattern also taking a value that must keep the
\* pattern from matching.
XmadPrograms ==
    {OneBlock(<<Inst("GetRegister", <<RegValue(R1)>>),
                Inst("GetCbufU32", <<ImmU32(0), ImmU32(0)>>),
                Inst("IAdd32", <<Ref(1), ImmU32(0)>>),
                Inst("BitFieldUExtract", <<Ref(1), ImmU32(lo[1]), ImmU32(lo[2])>>),
                Inst("IMul32", <<Ref(4), fb[1]>>),
                Inst("BitFieldUExtract", <<fa, ImmU32(hi[1]), ImmU32(hi[2])>>),
                Inst("IMul32", <<Ref(6), fb[2]>>),
                Inst("ShiftLeftLogical32", <<Ref(7), ImmU32(shl)>>),
                Inst("IAdd32", IF first THEN <<Ref(8), Ref(5)>>
                                        ELSE <<Ref(5), Ref(8)>>)>>) :
        lo \in {<<0, Half>>, <<Half, Half>>, <<0, 1>>},
        hi \in {<<Half, Half>>, <<0, Half>>, <<Half, 1>>},
        fa \in {Ref(1), Ref(3), Ref(2)},
        fb \in {Ref(2), ImmU32(3), Ref(1)} \X {Ref(2), ImmU32(3)},
        shl \in {Half, 1}, first \in BOOLEAN}

XmadEnvs == EnvsOver({3, 6, 13, Word - 1}, {FALSE}, {3, Word - 2}, {FloatZero})

-----------------------------------------------------------------------------
(* Predicates, selects and the conditional branch, over two blocks *)

Truth == {ImmU1(TRUE), ImmU1(FALSE)}

\* The first logical instruction, over a predicate read and immediates.
FirstLogical ==
    {Inst(op, <<xy[1], xy[2]>>) :
        op \in {"LogicalAnd", "LogicalOr"},
        xy \in ({Ref(1)} \cup Truth) \X ({Ref(1)} \cup Truth)}
    \cup {Inst("LogicalNot", <<x>>) : x \in {Ref(1)} \cup Truth}

\* The second one, which uses the first.
SecondLogical ==
    {Inst(op, IF first THEN <<Ref(3), y>> ELSE <<y, Ref(3)>>) :
        op \in {"LogicalAnd", "LogicalOr"}, y \in {Ref(1)} \cup Truth,
        first \in BOOLEAN}
    \cup {Inst("LogicalNot", <<Ref(3)>>)}

\* The entry block computes two predicates and branches on one of them;
\* the block after it selects on one of them.  post_order_blocks lists
\* the entry block last.
LogicPrograms ==
    {[insts |-> <<Inst("GetPred", <<PredValue(p)>>),
                  Inst("GetRegister", <<RegValue(R1)>>),
                  l1, l2,
                  Inst("BranchConditional", <<c, LabelValue(1), LabelValue(2)>>),
                  Inst("SelectU32", <<d, Ref(2), ImmU32(5)>>)>>,
      blocks |-> <<(<<6>>), <<1, 2, 3, 4, 5>>>>] :
        p \in {PT, P0}, l1 \in FirstLogical, l2 \in SecondLogical,
        c \in {Ref(3), Ref(4)}, d \in {Ref(3), Ref(4)}}

-----------------------------------------------------------------------------
(* Bit casts, half packing, composites and the float multiply *)

\* Three casts in alternating directions over a constant buffer word, an
\* attribute or an immediate.
CastPrograms ==
    {OneBlock(<<Inst("GetCbufU32", <<ImmU32(0), ImmU32(0)>>),
                Inst("GetAttribute", <<AttributeValue(0)>>),
                Inst(casts[1], <<x>>),
                Inst(casts[2], <<Ref(3)>>),
                Inst(casts[1], <<Ref(4)>>)>>) :
        casts \in {<<"BitCastF32U32", "BitCastU32F32">>,
                   <<"UnpackHalf2x16", "PackHalf2x16">>},
        x \in {Ref(1), ImmU32(5)}}
    \cup
    {OneBlock(<<Inst("GetCbufU32", <<ImmU32(0), ImmU32(0)>>),
                Inst("GetAttribute", <<AttributeValue(0)>>),
                Inst("BitCastU32F32", <<x>>),
                Inst("BitCastF32U32", <<Ref(3)>>),
                Inst("BitCastU32F32", <<Ref(4)>>)>>) :
        x \in {Ref(2), ImmF32(3)}}

\* Two floats are packed into halves and unpacked again.
RepackPrograms ==
    {OneBlock(<<Inst("GetAttribute", <<AttributeValue(0)>>),
                Inst("GetAttribute", <<AttributeValue(1)>>),
                Inst("CompositeConstructF32x2", <<Ref(1), Ref(2)>>),
                Inst("PackHalf2x16", <<Ref(3)>>),
                Inst("UnpackHalf2x16", <<Ref(4)>>)>>)}

Lanes == [F32x2 |-> 2, F16x3 |-> 3]

\* A construct, two inserts on top of it and an extract from any of the
\* three, over every combination of lanes.
CompositePrograms ==
    {OneBlock(<<Inst("GetAttribute", <<AttributeValue(0)>>),
                Inst("GetAttribute", <<AttributeValue(1)>>),
                Inst("CompositeConstruct" \o shape,
                     [k \in 1..Lanes[shape] |->
                         IF k = 2 THEN ImmF32(1) ELSE Ref(1)]),
                Inst("CompositeInsert" \o shape, <<Ref(3), obj, ImmU32(ijk[1])>>),
                Inst("CompositeInsert" \o shape,
                     <<Ref(4), ImmF32(3), ImmU32(ijk[2])>>),
                Inst("CompositeExtract" \o shape, <<c, ImmU32(ijk[3])>>)>>) :
        shape \in DOMAIN Lanes, obj \in {Ref(2), ImmF32(2)},
        ijk \in (0..2) \X (0..2) \X (0..2), c \in {Ref(3), Ref(4), Ref(5)}}

InRange(program) ==
    \A i \in 4..6 :
        LET inst == program.insts[i]
        IN inst.args[Len(inst.args)].v < Len(program.insts[3].args)

\* mul(mul(x, m), recip(r)) with m and r reads of attributes or not, with
\* and without the flag that forbids contraction.
FPMulPrograms ==
    {OneBlock(<<Inst("GetAttribute", <<AttributeValue(0)>>),
                Inst("GetAttribute", <<AttributeValue(a)>>),
                Inst("GetCbufF32", <<ImmU32(0), ImmU32(0)>>),
                Inst("FPMul32", <<Ref(3), m>>),
                Inst("FPRecip32", <<r>>),
                [Inst("FPMul32", <<Ref(4), Ref(5)>>)
                    EXCEPT !.no_contraction = nc]>>) :
        a \in {0, 1}, m \in {Ref(1), Ref(2), Ref(3)},
        r \in {Ref(1), Ref(2), Ref(3)}, nc \in BOOLEAN}

\* The multiplier and the operand of the reciprocal read the same
\* attribute and contraction is allowed.
CancelsAttribute(program) ==
    LET insts_ == program.insts
        m == insts_[insts_[4].args[2].v]
        r == insts_[insts_[5].args[1].v]
    IN /\ ~insts_[6].no_contraction
       /\ m.op = "GetAttribute" /\ r.op = "GetAttribute"
       /\ m.args = r.args

PeepholePrograms ==
    LogicPrograms \cup CastPrograms
    \cup {p \in CompositePrograms : InRange(p)}
    \cup {p \in FPMulPrograms : ~CancelsAttribute(p)}

Floats == FloatZero..FloatNaN

\* The logic programs read the predicate and nothing else, the cast and
\* float programs read constant buffer word (0, 0) and the attributes.
PeepholeEnvs ==
    EnvsOver({3}, BOOLEAN, {3}, {1})
    \cup EnvsOver({3}, {FALSE}, {3, 5}, {1, FloatNaN})

\* The float folds that give up exactness.
InexactPrograms ==
    {p \in FPMulPrograms : CancelsAttribute(p)} \cup RepackPrograms

InexactEnvs == EnvsOver({3}, {FALSE}, Floats, Floats)

-----------------------------------------------------------------------------
(* Comparisons and bit field extracts of immediates *)

Edges == {0, 1, Word \div 2 - 1, Word \div 2, Word - 1}

Flagged(inst, pseudo) == [inst EXCEPT !.pseudo = pseudo]

\* Every comparison over immediates at the edges of the signed and the
\* unsigned range and over a register read, RZ included.
ComparePrograms ==
    {OneBlock(<<Inst("GetRegister", <<RegValue(r)>>),
                Flagged(Inst(op, <<xy[1], xy[2]>>), pseudo),
                Inst("SelectU32", <<Ref(2), ImmU32(1), Ref(1)>>)>>) :
        r \in {RZ, R1}, op \in SignedCompares \cup UnsignedCompares,
        xy \in ({Ref(1)} \cup {ImmU32(w) : w \in Edges}) \X
               ({Ref(1)} \cup {ImmU32(w) : w \in Edges}),
        pseudo \in BOOLEAN}

\* Shift and count of an extract: immediates from 0 to the width, or the
\* result of an addition the pass folds to 2 just before.
FieldBounds == {ImmU32(n) : n \in 0..WordBits} \cup {Ref(2)}

AllBitFieldPrograms ==
    {OneBlock(<<Inst("GetRegister", <<RegValue(r)>>),
                Inst("IAdd32", <<ImmU32(1), ImmU32(1)>>),
                Flagged(Inst(op, <<base, sc[1], sc[2]>>), pseudo),
                Inst("IAdd32", <<Ref(3), ImmU32(1)>>)>>) :
        r \in {RZ, R1}, op \in BitFieldExtracts,
        base \in {Ref(1), ImmU32(6), ImmU32(11)},
        sc \in FieldBounds \X FieldBounds, pseudo \in BOOLEAN}

\* The extracts whose lambda shifts by the full width of the word: an
\* unsigned extract of the whole word, a signed extract of no bits.
ShiftsByWidth(program) ==
    LET inst == program.insts[3]
    IN \/ inst.op = "BitFieldUExtract" /\ inst.args[3] = ImmU32(WordBits)
       \/ inst.op = "BitFieldSExtract" /\ inst.args[3] = ImmU32(0)

ImmediatePrograms ==
    ComparePrograms \cup {p \in AllBitFieldPrograms : ~ShiftsByWidth(p)}
    \cup {p \in CarryPrograms : ~AddsImmediatesWithCarry(p)}

ImmediateEnvs == EnvsOver(Edges, {FALSE}, {3}, {FloatZero})

UndefinedShiftPrograms == {p \in AllBitFieldPrograms : ShiftsByWidth(p)}

\* The additions with a carry that are whole-instruction candidates: an
\* operand of zero, or two immediates merged into the addition after it.
WholeCarryPrograms == {p \in CarryPrograms : AddsImmediatesWithCarry(p)}

CarryEnvs == EnvsOver({3}, {FALSE}, {3, Word - 2}, {FloatZero})

\* A subtraction with flags read from it, of two constant buffer words.
FlaggedPrograms ==
    {OneBlock(<<Inst("GetCbufU32", <<ImmU32(0), ImmU32(0)>>),
                Inst("GetCbufU32", <<ImmU32(0), ImmU32(o)>>),
                WithPseudo(Inst("ISub32", <<Ref(1), Ref(2)>>)),
                Inst("IAdd32", <<Ref(3), ImmU32(1)>>)>>) :
        o \in {0, 4}}

ArithAndAdd64Programs == ArithPrograms \cup Add64Programs

ImmediateAndXmadPrograms == ImmediatePrograms \cup XmadPrograms
=============================================================================
