------------------------ MODULE ConstantPropagation ------------------------
(***************************************************************************)
(* The constant propagation pass of the shader recompiler                  *)
(* (shader_recompiler/ir_opt/constant_propagation_pass.cpp).               *)
(*                                                                         *)
(* The first half of the module gives every folding rule of the pass as an *)
(* operator from an instruction arena to the arena after the rule, the     *)
(* second half the traversal as a state machine that visits one            *)
(* instruction per step.                                                   *)
(***************************************************************************)
EXTENDS IR, IRSemantics, Integers, Bitwise, FiniteSets

CONSTANTS
    Programs,   \* the programs the pass may be given: [insts, blocks]
    Envs        \* the environments the properties evaluate programs in

Half == WordBits \div 2     \* the literal 16 of the XMAD idiom

\* Variant: the operand is decoded without the cast to s32.
Unsigned(n) == n

\* Arg<s32>: the two's complement reading of a u32.
Signed(n) == IF n < Word \div 2 THEN n ELSE n - Word

\* What a shift by `count` may do.  A count below the width is the shift
\* itself.  A count of the full width is undefined behaviour in C++: the
\* builds in use either mask the count to the width (x86, AArch64) or
\* shift every bit out (constant evaluation).
ShiftCounts(count) ==
    IF count < WordBits THEN {count} ELSE {count % WordBits, WordBits}

ShiftLeft(n, count) == (n * 2^count) % Word
ShiftRight(n, count) == n \div 2^count
ShiftRightArithmetic(n, count) == (Signed(n) \div 2^count) % Word

-----------------------------------------------------------------------------
(* The generic folders *)

\* EvalImmediates: every argument decoded, as the closure receives them.
EvalImmediates(ir, i) ==
    [k \in DOMAIN ir[i].args |-> Payload(ir, ir[i].args[k])]

\* Variant: the pseudo-operation is not looked at.
FoldableWithPseudo(ir, i) == AreAllArgsImmediates(ir, i)

\* The test FoldWhenAllImmediates makes before it folds.
Foldable(ir, i) ==
    AreAllArgsImmediates(ir, i) /\ ~HasAssociatedPseudoOperation(ir, i)

\* FoldWhenAllImmediates: the arenas the call may leave.  `results` is the
\* set of values the closure of the source can return on the decoded
\* arguments, one value unless the closure runs into undefined behaviour;
\* it is looked at only when the instruction is foldable.
FoldWhenAllImmediates(ir, i, results) ==
    IF Foldable(ir, i)
    THEN {ReplaceUsesWith(ir, i, val) : val \in results}
    ELSE {ir}

\* The closures FoldAdd<T>, FoldLogicalAnd and FoldLogicalOr hand to
\* FoldCommutative, by the opcode they are called for: a + b in T, a && b
\* and a || b.
imm_fn(op, a, b) ==
    CASE op = "IAdd32" -> (a + b) % Word
      [] op = "IAdd64" -> (a + b) % DWord
      [] op = "LogicalAnd" -> a /\ b
      [] op = "LogicalOr" -> a \/ b

\* FoldCommutative<T>: [insts, more], more being the bool the source
\* returns.  The two tests of the source on (is_lhs_immediate,
\* is_rhs_immediate) are taken before any argument is written, hence
\* exclusive.
FoldCommutative(ir, i, T) ==
    LET ImmFn(a, b) == imm_fn(ir[i].op, a, b)
        Imm(v) == [t |-> T, v |-> v]
        lhs == Arg(ir, i, 0)
        rhs == Arg(ir, i, 1)
        is_lhs_immediate == IsImmediate(ir, lhs)
        is_rhs_immediate == IsImmediate(ir, rhs)
        Chained(val) ==
            /\ Producer(ir, val).op = ir[i].op
            /\ IsImmediate(ir, Producer(ir, val).args[2])
        Combined(imm, val) ==
            LET inner == Producer(ir, val)
                combined == ImmFn(Payload(ir, imm), Payload(ir, inner.args[2]))
            IN SetArg(SetArg(ir, i, 0, inner.args[1]), i, 1, Imm(combined))
        Normalized == SetArg(SetArg(ir, i, 0, rhs), i, 1, lhs)
    IN CASE is_lhs_immediate /\ is_rhs_immediate ->
              [insts |-> ReplaceUsesWith(ir, i,
                             Imm(ImmFn(Payload(ir, lhs), Payload(ir, rhs)))),
               more |-> FALSE]
         [] is_lhs_immediate /\ ~is_rhs_immediate ->
              [insts |-> IF Chained(rhs) THEN Combined(lhs, rhs) ELSE Normalized,
               more |-> TRUE]
         [] ~is_lhs_immediate /\ is_rhs_immediate ->
              [insts |-> IF Chained(lhs) THEN Combined(rhs, lhs) ELSE ir,
               more |-> TRUE]
         [] OTHER -> [insts |-> ir, more |-> TRUE]

-----------------------------------------------------------------------------
(* The rules of one opcode *)

FoldGetRegister(ir, i) ==
    IF Arg(ir, i, 0).v = RZ THEN ReplaceUsesWith(ir, i, ImmU32(0)) ELSE ir

FoldGetPred(ir, i) ==
    IF Arg(ir, i, 0).v = PT THEN ReplaceUsesWith(ir, i, ImmU1(TRUE)) ELSE ir

\* The tests FoldXmadMultiply makes of lhs_bfe and rhs_bfe: an extract of
\* the half word that starts at bit `offset`, the literals compared as
\* raw arguments.
ExtractsHalf(bfe, offset) ==
    /\ bfe.op = "BitFieldUExtract"
    /\ bfe.args[2] = ImmU32(offset)
    /\ bfe.args[3] = ImmU32(Half)

\* Variant: the IREmitter is built without an insertion point and appends.
EndOfBlock(block, i) == Len(block) + 1

\* Where the IREmitter of FoldXmadMultiply inserts: s_iterator_to(inst),
\* the position of the instruction being folded.
InsertionPoint(block, i) == CHOOSE k \in DOMAIN block : block[k] = i

\* FoldXmadMultiply: [folded, insts, block].  The conjuncts are the early
\* returns of the source in their order; literals are compared as raw
\* arguments, factors after Resolve.
FoldXmadMultiply(block, ir, i) ==
    LET lhs_arg == Arg(ir, i, 0)
        rhs_arg == Arg(ir, i, 1)
        lhs_shl == Producer(ir, lhs_arg)
        lhs_mul == Producer(ir, lhs_shl.args[1])
        rhs_mul == Producer(ir, rhs_arg)
        lhs_bfe == Producer(ir, lhs_mul.args[1])
        rhs_bfe == Producer(ir, rhs_mul.args[1])
        factor_a == lhs_bfe.args[1]
        factor_b == lhs_mul.args[2]
        matches ==
            /\ ~IsImmediate(ir, lhs_arg) /\ ~IsImmediate(ir, rhs_arg)
            /\ lhs_shl.op = "ShiftLeftLogical32"
            /\ lhs_shl.args[2] = ImmU32(Half)
            /\ ~IsImmediate(ir, lhs_shl.args[1])
            /\ lhs_mul.op = "IMul32" /\ rhs_mul.op = "IMul32"
            /\ Resolve(ir, lhs_mul.args[2]) = Resolve(ir, rhs_mul.args[2])
            /\ ~IsImmediate(ir, lhs_mul.args[1])
            /\ ~IsImmediate(ir, rhs_mul.args[1])
            /\ ExtractsHalf(lhs_bfe, Half)
            /\ ExtractsHalf(rhs_bfe, 0)
            /\ Resolve(ir, lhs_bfe.args[1]) = Resolve(ir, rhs_bfe.args[1])
        emitted == Emit(block, ir, InsertionPoint(block, i),
                        Inst("IMul32", <<factor_a, factor_b>>))
    IN IF matches
       THEN [folded |-> TRUE, block |-> emitted.block,
             insts |-> ReplaceUsesWith(emitted.insts, i, emitted.value)]
       ELSE [folded |-> FALSE, block |-> block, insts |-> ir]

\* FoldAdd<T>: [insts, block].
FoldAdd(block, ir, i, T) ==
    LET commuted == FoldCommutative(ir, i, T)
        cir == commuted.insts
        rhs == Arg(cir, i, 1)
        multiply == FoldXmadMultiply(block, cir, i)
    IN IF HasAssociatedPseudoOperation(ir, i)
       THEN [insts |-> ir, block |-> block]
       ELSE IF ~commuted.more
       THEN [insts |-> cir, block |-> block]
       ELSE IF IsImmediate(cir, rhs) /\ Payload(cir, rhs) = 0
       THEN [insts |-> ReplaceUsesWith(cir, i, Arg(cir, i, 0)), block |-> block]
       ELSE IF T = "U32" /\ multiply.folded
       THEN [insts |-> multiply.insts, block |-> multiply.block]
       ELSE [insts |-> cir, block |-> block]

\* Variant: only the binding is compared.
EqualBinding(a, b) ==
    /\ a.op = "GetCbufU32" /\ b.op = "GetCbufU32"
    /\ a.args[1] = b.args[1]

\* The test of FoldISub32 that two instructions read the same constant
\* buffer word: binding and offset are compared as raw arguments.
equal_cbuf(a, b) ==
    /\ a.op = "GetCbufU32" /\ b.op = "GetCbufU32"
    /\ a.args[1] = b.args[1] /\ a.args[2] = b.args[2]

FoldISub32(ir, i) ==
    LET imm == EvalImmediates(ir, i)
        difference == ImmU32((imm[1] + Word - imm[2]) % Word)
        arg_a == Producer(ir, Arg(ir, i, 0))
        arg_b == Producer(ir, Arg(ir, i, 1))
        swapped == arg_b.op = "IAdd32"
        op_a == IF swapped THEN arg_b ELSE arg_a
        op_b == IF swapped THEN arg_a ELSE arg_b
        canonical == IsImmediate(ir, op_a.args[2])
        add_op_a == IF canonical THEN op_a.args[2] ELSE op_a.args[1]
        add_op_b == IF canonical THEN op_a.args[1] ELSE op_a.args[2]
    IN IF Foldable(ir, i)
       THEN ReplaceUsesWith(ir, i, difference)
       ELSE IF IsImmediate(ir, Arg(ir, i, 0)) \/ IsImmediate(ir, Arg(ir, i, 1))
       THEN ir
       ELSE IF equal_cbuf(arg_a, arg_b)
       THEN ReplaceUsesWith(ir, i, ImmU32(0))
       ELSE IF /\ op_b.op = "GetCbufU32"
               /\ op_a.op = "IAdd32"
               /\ ~IsImmediate(ir, add_op_b)
               /\ equal_cbuf(Producer(ir, add_op_b), op_b)
       THEN ReplaceUsesWith(ir, i, add_op_a)
       ELSE ir

FoldSelect(ir, i) ==
    LET cond == Arg(ir, i, 0)
    IN IF IsImmediate(ir, cond)
       THEN ReplaceUsesWith(ir, i, IF Payload(ir, cond) THEN Arg(ir, i, 1)
                                                        ELSE Arg(ir, i, 2))
       ELSE ir

\* FoldFPMul32: mul(mul(x, attribute), recip(attribute)) becomes x unless
\* the instruction forbids contraction.
FoldFPMul32(ir, i) ==
    LET lhs_value == Arg(ir, i, 0)
        rhs_value == Arg(ir, i, 1)
        lhs_op == Producer(ir, lhs_value)
        rhs_op == Producer(ir, rhs_value)
        recip_source == rhs_op.args[1]
        lhs_mul_source == Resolve(ir, lhs_op.args[2])
        attr_a == Producer(ir, recip_source)
        attr_b == Producer(ir, lhs_mul_source)
    IN IF /\ ~ir[i].no_contraction
          /\ ~IsImmediate(ir, lhs_value) /\ ~IsImmediate(ir, rhs_value)
          /\ lhs_op.op = "FPMul32" /\ rhs_op.op = "FPRecip32"
          /\ ~IsImmediate(ir, recip_source)
          /\ ~IsImmediate(ir, lhs_mul_source)
          /\ attr_a.op = "GetAttribute" /\ attr_b.op = "GetAttribute"
          /\ attr_a.args[1].v = attr_b.args[1].v
       THEN ReplaceUsesWith(ir, i, lhs_op.args[1])
       ELSE ir

\* FoldLogicalAnd and FoldLogicalOr: after FoldCommutative an immediate on
\* the right either is the neutral element or decides the result.
FoldLogical(ir, i, neutral) ==
    LET commuted == FoldCommutative(ir, i, "U1")
        cir == commuted.insts
        rhs == Arg(cir, i, 1)
    IN IF ~commuted.more \/ ~IsImmediate(cir, rhs)
       THEN cir
       ELSE IF Payload(cir, rhs) = neutral
       THEN ReplaceUsesWith(cir, i, Arg(cir, i, 0))
       ELSE ReplaceUsesWith(cir, i, ImmU1(~neutral))

\* Variant: the neutral element of || is taken for &&.
FoldLogicalAndAsOr(ir, i) == FoldLogical(ir, i, FALSE)

FoldLogicalAnd(ir, i) == FoldLogical(ir, i, TRUE)

FoldLogicalOr(ir, i) == FoldLogical(ir, i, FALSE)

FoldLogicalNot(ir, i) ==
    LET value == Arg(ir, i, 0)
        arg == Producer(ir, value)
    IN IF IsImmediate(ir, value)
       THEN ReplaceUsesWith(ir, i, ImmU1(~Payload(ir, value)))
       ELSE IF arg.op = "LogicalNot"
       THEN ReplaceUsesWith(ir, i, arg.args[1])
       ELSE ir

\* FoldBitCast<op, Dest, Source>: Common::BitCast keeps the bits and
\* changes the type, so the immediate keeps its payload under the tag Dest.
FoldBitCast(ir, i, Dest, reverse) ==
    LET value == Arg(ir, i, 0)
        arg_inst == Producer(ir, value)
    IN IF IsImmediate(ir, value)
       THEN ReplaceUsesWith(ir, i, [t |-> Dest, v |-> Payload(ir, value)])
       ELSE IF arg_inst.op = reverse
       THEN ReplaceUsesWith(ir, i, arg_inst.args[1])
       ELSE IF ir[i].op = "BitCastF32U32" /\ arg_inst.op = "GetCbufU32"
       THEN SetArg(SetArg(ReplaceOpcode(ir, i, "GetCbufF32"),
                          i, 0, arg_inst.args[1]),
                   i, 1, arg_inst.args[2])
       ELSE ir

FoldInverseFunc(ir, i, reverse) ==
    LET value == Arg(ir, i, 0)
    IN IF ~IsImmediate(ir, value) /\ Producer(ir, value).op = reverse
       THEN ReplaceUsesWith(ir, i, Producer(ir, value).args[1])
       ELSE ir

\* Variant: the negation is removed for every user of the condition, not
\* only for the branch.
FoldBranchThroughProducer(ir, i) ==
    LET cond == Arg(ir, i, 0)
        cond_inst == Producer(ir, cond)
    IN IF ~IsImmediate(ir, cond) /\ cond_inst.op = "LogicalNot"
       THEN SetArg(SetArg(ReplaceUsesWith(ir, InstRecursive(ir, cond),
                                          cond_inst.args[1]),
                          i, 1, Arg(ir, i, 2)),
                   i, 2, Arg(ir, i, 1))
       ELSE ir

FoldBranchConditional(ir, i) ==
    LET cond == Arg(ir, i, 0)
        cond_inst == Producer(ir, cond)
        true_label == Arg(ir, i, 1)
        false_label == Arg(ir, i, 2)
    IN IF ~IsImmediate(ir, cond) /\ cond_inst.op = "LogicalNot"
       THEN SetArg(SetArg(SetArg(ir, i, 0, cond_inst.args[1]),
                          i, 1, false_label),
                   i, 2, true_label)
       ELSE ir

\* FoldCompositeExtractImpl: the std::optional of the source as a set with
\* at most one value.
RECURSIVE FoldCompositeExtractImpl(_, _, _, _, _)
FoldCompositeExtractImpl(ir, inst_value, insert, construct, first_index) ==
    LET inst == Producer(ir, inst_value)
    IN IF inst.op = construct
       THEN {inst.args[first_index + 1]}
       ELSE IF inst.op # insert \/ ~IsImmediate(ir, inst.args[3])
       THEN {}
       ELSE IF first_index = Payload(ir, inst.args[3])
       THEN {inst.args[2]}
       ELSE IF IsImmediate(ir, inst.args[1])
       THEN {}
       ELSE FoldCompositeExtractImpl(ir, inst.args[1], insert, construct,
                                     first_index)

FoldCompositeExtract(ir, i, construct, insert) ==
    LET value_1 == Arg(ir, i, 0)
        value_2 == Arg(ir, i, 1)
        result == FoldCompositeExtractImpl(ir, value_1, insert, construct,
                                           Payload(ir, value_2))
    IN IF ~IsImmediate(ir, value_1) /\ IsImmediate(ir, value_2) /\ result # {}
       THEN ReplaceUsesWith(ir, i, CHOOSE val \in result : TRUE)
       ELSE ir

-----------------------------------------------------------------------------
(* The closures the dispatcher hands to FoldWhenAllImmediates *)

SignedCompares ==
    {"SLessThan", "SLessThanEqual", "SGreaterThan", "SGreaterThanEqual"}

UnsignedCompares ==
    {"ULessThan", "ULessThanEqual", "UGreaterThan", "UGreaterThanEqual",
     "IEqual", "INotEqual"}

\* The comparison lambdas: the operands are read as s32 by the signed
\* opcodes and as u32 by the others.
Compare(op, a, b) ==
    LET x == IF op \in SignedCompares THEN Signed(a) ELSE a
        y == IF op \in SignedCompares THEN Signed(b) ELSE b
    IN \/ op \in {"SLessThan", "ULessThan"} /\ x < y
       \/ op \in {"SLessThanEqual", "ULessThanEqual"} /\ x <= y
       \/ op \in {"SGreaterThan", "UGreaterThan"} /\ x > y
       \/ op \in {"SGreaterThanEqual", "UGreaterThanEqual"} /\ x >= y
       \/ op = "IEqual" /\ x = y
       \/ op = "INotEqual" /\ x # y

BitFieldExtracts == {"BitFieldUExtract", "BitFieldSExtract"}

\* Variant: a field that ends at the last bit of the word is refused.
ThrowsAtWidth(ir, i) ==
    /\ ir[i].op \in BitFieldExtracts
    /\ Foldable(ir, i)
    /\ Payload(ir, Arg(ir, i, 1)) + Payload(ir, Arg(ir, i, 2)) >= WordBits

\* The test both bit field lambdas make before they compute: the field
\* must end inside the word, or LogicError is thrown.
Throws(ir, i) ==
    /\ ir[i].op \in BitFieldExtracts
    /\ Foldable(ir, i)
    /\ Payload(ir, Arg(ir, i, 1)) + Payload(ir, Arg(ir, i, 2)) > WordBits

\* (base >> shift) & ((1U << count) - 1)
BitFieldUExtract(base, shift, count) ==
    {ShiftRight(base, s) & ((ShiftLeft(1, c) + Word - 1) % Word) :
        s \in ShiftCounts(shift), c \in ShiftCounts(count)}

\* static_cast<u32>(static_cast<s32>(base << left_shift) >> (32 - count))
BitFieldSExtract(base, shift, count) ==
    LET back_shift == shift + count
        left_shift == WordBits - back_shift
    IN {ShiftRightArithmetic(ShiftLeft(base, l), r) :
           l \in ShiftCounts(left_shift), r \in ShiftCounts(WordBits - count)}

SelectOpcodes ==
    {"SelectU1", "SelectU8", "SelectU16", "SelectU32", "SelectU64",
     "SelectF16", "SelectF32", "SelectF64"}

CompositeShapes == {"F32x2", "F32x3", "F32x4", "F16x2", "F16x3", "F16x4"}

CompositeExtracts == {"CompositeExtract" \o shape : shape \in CompositeShapes}

\* The opcodes the switch of the dispatcher has a case for.
HandledOpcodes ==
    {"GetRegister", "GetPred", "IAdd32", "ISub32", "BitCastF32U32",
     "BitCastU32F32", "IAdd64", "PackHalf2x16", "UnpackHalf2x16", "FPMul32",
     "LogicalAnd", "LogicalOr", "LogicalNot", "BranchConditional"}
    \cup SelectOpcodes \cup SignedCompares \cup UnsignedCompares
    \cup BitFieldExtracts \cup CompositeExtracts

\* ConstantPropagation(block, inst): every [insts, block] the call may
\* leave when it returns; Throws says when it does not return.
ConstantPropagation(block, ir, i) ==
    LET op == ir[i].op
        imm == EvalImmediates(ir, i)
        Rewritten(arenas) == {[insts |-> a, block |-> block] : a \in arenas}
        shape == CHOOSE sh \in CompositeShapes : op = "CompositeExtract" \o sh
    IN CASE op = "GetRegister" -> Rewritten({FoldGetRegister(ir, i)})
         [] op = "GetPred" -> Rewritten({FoldGetPred(ir, i)})
         [] op = "IAdd32" -> {FoldAdd(block, ir, i, "U32")}
         [] op = "ISub32" -> Rewritten({FoldISub32(ir, i)})
         [] op = "BitCastF32U32" ->
              Rewritten({FoldBitCast(ir, i, "F32", "BitCastU32F32")})
         [] op = "BitCastU32F32" ->
              Rewritten({FoldBitCast(ir, i, "U32", "BitCastF32U32")})
         [] op = "IAdd64" -> {FoldAdd(block, ir, i, "U64")}
         [] op = "PackHalf2x16" ->
              Rewritten({FoldInverseFunc(ir, i, "UnpackHalf2x16")})
         [] op = "UnpackHalf2x16" ->
              Rewritten({FoldInverseFunc(ir, i, "PackHalf2x16")})
         [] op \in SelectOpcodes -> Rewritten({FoldSelect(ir, i)})
         [] op = "FPMul32" -> Rewritten({FoldFPMul32(ir, i)})
         [] op = "LogicalAnd" -> Rewritten({FoldLogicalAnd(ir, i)})
         [] op = "LogicalOr" -> Rewritten({FoldLogicalOr(ir, i)})
         [] op = "LogicalNot" -> Rewritten({FoldLogicalNot(ir, i)})
         [] op \in SignedCompares \cup UnsignedCompares ->
              Rewritten(FoldWhenAllImmediates(ir, i,
                  {ImmU1(Compare(op, imm[1], imm[2]))}))
         [] op = "BitFieldUExtract" ->
              Rewritten(FoldWhenAllImmediates(ir, i,
                  {ImmU32(r) : r \in BitFieldUExtract(imm[1], imm[2], imm[3])}))
         [] op = "BitFieldSExtract" ->
              Rewritten(FoldWhenAllImmediates(ir, i,
                  {ImmU32(r) : r \in BitFieldSExtract(imm[1], imm[2], imm[3])}))
         [] op = "BranchConditional" ->
              Rewritten({FoldBranchConditional(ir, i)})
         [] op \in CompositeExtracts ->
              Rewritten({FoldCompositeExtract(ir, i,
                  "CompositeConstruct" \o shape, "CompositeInsert" \o shape)})
         [] OTHER -> Rewritten({ir})

-----------------------------------------------------------------------------
(* The traversal: ConstantPropagationPass *)

VARIABLES
    insts,      \* the instruction arena of the program
    blocks,     \* program.post_order_blocks: per block, its instruction list
    bidx,       \* how far the outer loop is: it visits its bidx-th block
    ipos,       \* the position of the inner loop in that block
    status,     \* "running", "done", or "aborted" by LogicError
    input       \* the arena the pass was given

vars == <<insts, blocks, bidx, ipos, status, input>>

\* Variant: the blocks are walked in post order.
PostOrder(n) == [k \in 1..n |-> k]

\* post_order_blocks | std::views::reverse, for n blocks: the index in
\* post_order_blocks of the block the outer loop visits k-th.
BlockOrder(n) == [k \in 1..n |-> n + 1 - k]

\* The block the outer loop is at, as an index in post_order_blocks.
current_block == BlockOrder(Len(blocks))[bidx]

Init ==
    \E program \in Programs :
        /\ insts = program.insts
        /\ blocks = program.blocks
        /\ input = program.insts
        /\ bidx = 1
        /\ ipos = 1
        /\ status = "running"

InBlock == status = "running" /\ ipos <= Len(blocks[current_block])

current == blocks[current_block][ipos]

\* The inner loop is at an instruction with one of `opcodes`.
At(opcodes) == InBlock /\ insts[current].op \in opcodes

\* Variant: the loop advances once more after a fold, as a loop does that
\* erases or re-links while it iterates.
DispatchSkipping ==
    /\ ~Throws(insts, current)
    /\ \E after \in ConstantPropagation(blocks[current_block], insts, current) :
          /\ insts' = after.insts
          /\ blocks' = [blocks EXCEPT ![current_block] = after.block]
          /\ ipos' = (IF after.insts = insts THEN 1 ELSE 2)
                       + CHOOSE k \in DOMAIN after.block :
                             after.block[k] = current
    /\ UNCHANGED <<bidx, status, input>>

\* One iteration of the inner loop: the dispatcher runs on the current
\* instruction and returns, then the iterator moves to the list successor
\* of that instruction.
Dispatch ==
    /\ ~Throws(insts, current)
    /\ \E after \in ConstantPropagation(blocks[current_block], insts, current) :
          /\ insts' = after.insts
          /\ blocks' = [blocks EXCEPT ![current_block] = after.block]
          /\ ipos' = 1 + CHOOSE k \in DOMAIN after.block :
                             after.block[k] = current
    /\ UNCHANGED <<bidx, status, input>>

\* One action for each case of the switch.
VisitGetRegister == At({"GetRegister"}) /\ Dispatch

VisitGetPred == At({"GetPred"}) /\ Dispatch

VisitIAdd32 == At({"IAdd32"}) /\ Dispatch

VisitISub32 == At({"ISub32"}) /\ Dispatch

VisitBitCast == At({"BitCastF32U32", "BitCastU32F32"}) /\ Dispatch

VisitIAdd64 == At({"IAdd64"}) /\ Dispatch

VisitPackUnpack == At({"PackHalf2x16", "UnpackHalf2x16"}) /\ Dispatch

VisitSelect == At(SelectOpcodes) /\ Dispatch

VisitFPMul32 == At({"FPMul32"}) /\ Dispatch

VisitLogicalAnd == At({"LogicalAnd"}) /\ Dispatch

VisitLogicalOr == At({"LogicalOr"}) /\ Dispatch

VisitLogicalNot == At({"LogicalNot"}) /\ Dispatch

VisitCompare == At(SignedCompares \cup UnsignedCompares) /\ Dispatch

VisitBitFieldExtract == At(BitFieldExtracts) /\ Dispatch

VisitBranchConditional == At({"BranchConditional"}) /\ Dispatch

VisitCompositeExtract == At(CompositeExtracts) /\ Dispatch

\* The default case of the switch.
VisitOther ==
    /\ InBlock
    /\ insts[current].op \notin HandledOpcodes
    /\ ipos' = ipos + 1
    /\ UNCHANGED <<insts, blocks, bidx, status, input>>

\* The throw in the bit field lambdas: the exception leaves the pass, the
\* arena stays as the folds before it left it.
ThrowLogicError ==
    /\ InBlock
    /\ Throws(insts, current)
    /\ status' = "aborted"
    /\ UNCHANGED <<insts, blocks, bidx, ipos, input>>

\* The inner loop reached the end of a block, the outer loop goes on.
NextBlock ==
    /\ status = "running"
    /\ ipos > Len(blocks[current_block])
    /\ bidx < Len(blocks)
    /\ bidx' = bidx + 1
    /\ ipos' = 1
    /\ UNCHANGED <<insts, blocks, status, input>>

\* The outer loop reached the end of the block list: the pass returns.
Return ==
    /\ status = "running"
    /\ ipos > Len(blocks[current_block])
    /\ bidx = Len(blocks)
    /\ status' = "done"
    /\ UNCHANGED <<insts, blocks, bidx, ipos, input>>

Next ==
    \/ VisitGetRegister \/ VisitGetPred
    \/ VisitIAdd32 \/ VisitIAdd64 \/ VisitISub32
    \/ VisitBitCast \/ VisitPackUnpack
    \/ VisitSelect \/ VisitFPMul32
    \/ VisitLogicalAnd \/ VisitLogicalOr \/ VisitLogicalNot
    \/ VisitCompare \/ VisitBitFieldExtract
    \/ VisitBranchConditional \/ VisitCompositeExtract
    \/ VisitOther
    \/ ThrowLogicError
    \/ NextBlock
    \/ Return

Spec == Init /\ [][Next]_vars

-----------------------------------------------------------------------------
(* Properties *)

WellFormed(val) ==
    \/ val.t = "U1" /\ val.v \in BOOLEAN
    \/ val.t \in {"U32", "F32"} /\ val.v \in 0..Word - 1
    \/ val.t = "U64" /\ val.v \in 0..DWord - 1
    \/ val.t \in {"Reg", "Pred", "Attribute", "Label"} /\ val.v \in Nat
    \/ val.t = "Opaque" /\ val.v \in DOMAIN insts

\* The arena holds well-formed instructions whose immediates fit their
\* width and whose references name instructions; every instruction is
\* linked into exactly one block, once; the loops are inside the lists.
TypeOK ==
    /\ \A i \in DOMAIN insts :
          /\ insts[i].pseudo \in BOOLEAN
          /\ insts[i].no_contraction \in BOOLEAN
          /\ \A k \in DOMAIN insts[i].args : WellFormed(insts[i].args[k])
    /\ \A i \in DOMAIN insts :
          Cardinality({<<b, k>> \in (DOMAIN blocks) \X (DOMAIN insts) :
                          k \in DOMAIN blocks[b] /\ blocks[b][k] = i}) = 1
    /\ bidx \in DOMAIN blocks
    /\ ipos \in 1..Len(blocks[current_block]) + 1
    /\ status \in {"running", "done", "aborted"}

\* Folding is exact: at every moment of the pass, also when it has been
\* aborted by LogicError, every instruction of the program it was given
\* evaluates to what it evaluated to before the pass, whatever the shader
\* reads from registers, constant buffers and attributes.  This is what
\* every ReplaceUsesWith and SetArg of the pass has to keep.
SemanticsPreserved ==
    \A i \in DOMAIN input : \A env \in Envs :
        Eval(insts, Ref(i), env) = Eval(input, Ref(i), env)

\* <<block, position>> of an instruction in the block lists.
Place(i) ==
    CHOOSE p \in (DOMAIN blocks) \X (DOMAIN insts) :
        p[2] \in DOMAIN blocks[p[1]] /\ blocks[p[1]][p[2]] = i

\* i comes before j in the order the pass and the later passes walk the
\* program: reverse post order over blocks, list order inside a block.
Precedes(i, j) ==
    \/ Place(i)[1] > Place(j)[1]
    \/ Place(i)[1] = Place(j)[1] /\ Place(i)[2] < Place(j)[2]

\* Definitions come before uses: whatever arguments SetArg and
\* ReplaceUsesWith install, and wherever FoldXmadMultiply links the
\* multiply it emits while the list is being walked, the producer of
\* every argument is placed before the instruction that uses it.
DefsPrecedeUses ==
    \A j \in DOMAIN insts : \A k \in DOMAIN insts[j].args :
        insts[j].args[k].t = "Opaque" => Precedes(insts[j].args[k].v, j)

\* One traversal is enough: when ConstantPropagationPass has returned,
\* running the dispatcher on any instruction again neither throws nor
\* changes anything, so a second run of the pass is a no-op.
SecondPassChangesNothing ==
    status = "done" =>
        \A b \in DOMAIN blocks : \A k \in DOMAIN blocks[b] :
            /\ ~Throws(insts, blocks[b][k])
            /\ ConstantPropagation(blocks[b], insts, blocks[b][k]) =
                   {[insts |-> insts, block |-> blocks[b]]}

\* An instruction a pseudo-operation hangs on keeps its opcode: the folds
\* may rewrite its operands and never replace the instruction, or the
\* pseudo-operation would read the carry or the flags of an Identity.
PseudoOperationKeepsPrimary ==
    \A i \in DOMAIN input :
        input[i].pseudo => insts[i].op = input[i].op

\* LogicError is thrown only for a malformed program.  The throw is
\* decided on operands that earlier folds have rewritten, and it leaves
\* the program half folded; when the pass has aborted, the program it was
\* given holds a bit field extract whose shift and count are the same in
\* every environment and reach past the last bit of the word.
AbortOnlyOnMalformedExtract ==
    status = "aborted" =>
        \E i \in DOMAIN input :
            /\ input[i].op \in BitFieldExtracts
            /\ \A env \in Envs :
                  Eval(input, input[i].args[2], env).v
                      + Eval(input, input[i].args[3], env).v > WordBits

\* A step of the pass rewrites nothing but the instruction the inner loop
\* is at: the producers the folds look through (rhs_inst, lhs_mul,
\* cond_inst, ...) stay as they are for their other users, and a block
\* changes only by gaining the instruction FoldXmadMultiply emits.
OnlyVisitedInstructionChanges ==
    [][/\ InBlock
       /\ \A j \in DOMAIN insts : j # current => insts'[j] = insts[j]
       /\ \A b \in DOMAIN blocks :
             \/ blocks'[b] = blocks[b]
             \/ /\ b = current_block
                /\ Len(insts') = Len(insts) + 1
                /\ \E k \in DOMAIN blocks'[b] :
                      /\ blocks'[b][k] = Len(insts')
                      /\ RemoveAt(blocks'[b], k) = blocks[b]]_<<insts, blocks>>
=============================================================================
