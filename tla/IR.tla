-------------------------------- MODULE IR --------------------------------
(***************************************************************************)
(* The IR substrate the constant propagation pass works on: values,        *)
(* instructions and the operations on them that the pass calls             *)
(* (shader_recompiler/frontend/ir).  The substrate is not part of the      *)
(* sources kept with this project; every definition here follows the       *)
(* contract section 6 of spec.md gives for it.                             *)
(*                                                                         *)
(* Instructions live in an arena, a sequence indexed by instruction id, so *)
(* that a reference to an instruction stays valid whatever the pass does   *)
(* to the block lists.  A value is a record [t, v]: t is the type tag of   *)
(* IR::Type and v the payload, an instruction id when t = "Opaque".        *)
(***************************************************************************)
EXTENDS Naturals, Sequences, SequencesExt

CONSTANT WordBits   \* width of a u32 in bits: 32 in the code, smaller in models

ASSUME WordBits \in Nat /\ WordBits >= 2 /\ WordBits % 2 = 0

Word == 2^WordBits          \* u32 arithmetic is modulo Word
DWord == Word * Word        \* u64 arithmetic is modulo DWord

RZ == 255                   \* IR::Reg::RZ, the register that reads as zero
PT == 7                     \* IR::Pred::PT, the predicate that reads as true

ImmU1(b) == [t |-> "U1", v |-> b]
ImmU32(n) == [t |-> "U32", v |-> n]
ImmU64(n) == [t |-> "U64", v |-> n]
ImmF32(bits) == [t |-> "F32", v |-> bits]
RegValue(r) == [t |-> "Reg", v |-> r]
PredValue(p) == [t |-> "Pred", v |-> p]
AttributeValue(a) == [t |-> "Attribute", v |-> a]
LabelValue(b) == [t |-> "Label", v |-> b]
Ref(i) == [t |-> "Opaque", v |-> i]

\* An instruction: opcode, arguments, whether a pseudo-operation (carry,
\* zero, sign, overflow of the result) is associated with it, and the one
\* flag of IR::FpControl the pass reads.
Inst(op, args) ==
    [op |-> op, args |-> args, pseudo |-> FALSE, no_contraction |-> FALSE]

WithPseudo(inst) == [inst EXCEPT !.pseudo = TRUE]
NoContraction(inst) == [inst EXCEPT !.no_contraction = TRUE]

\* Value::Resolve: follow Identity instructions to the value behind them.
RECURSIVE Resolve(_, _)
Resolve(ir, val) ==
    IF val.t = "Opaque" /\ ir[val.v].op = "Identity"
    THEN Resolve(ir, ir[val.v].args[1])
    ELSE val

\* Value::IsImmediate: anything but a reference, seen through identities.
IsImmediate(ir, val) == Resolve(ir, val).t # "Opaque"

\* Value::InstRecursive: the id of the instruction that produces val.
InstRecursive(ir, val) == Resolve(ir, val).v

\* The instruction record behind a value that is not an immediate.
Producer(ir, val) == ir[InstRecursive(ir, val)]

\* Value::U1, U32, U64, F32: the payload of an immediate, through identities.
Payload(ir, val) == Resolve(ir, val).v

\* Inst::Arg(index), with the zero-based index of the source: the raw
\* argument, identities not followed.
Arg(ir, i, index) == ir[i].args[index + 1]

\* Inst::SetArg(index, value).  The argument array of the source has five
\* slots whatever the opcode; the sequence grows when a slot past the
\* current arity is written.
SetArg(ir, i, index, val) ==
    LET old == ir[i].args
        n == IF index + 1 > Len(old) THEN index + 1 ELSE Len(old)
    IN [ir EXCEPT ![i].args =
            [k \in 1..n |-> IF k = index + 1 THEN val ELSE old[k]]]

\* Inst::ReplaceOpcode.
ReplaceOpcode(ir, i, op) == [ir EXCEPT ![i].op = op]

\* Inst::ReplaceUsesWith: the instruction becomes an Identity of the
\* replacement, so that every user sees the replacement through Resolve.
ReplaceUsesWith(ir, i, val) ==
    [ir EXCEPT ![i].op = "Identity", ![i].args = <<val>>]

\* Inst::AreAllArgsImmediates.
AreAllArgsImmediates(ir, i) ==
    \A k \in DOMAIN ir[i].args : IsImmediate(ir, ir[i].args[k])

\* Inst::HasAssociatedPseudoOperation.
HasAssociatedPseudoOperation(ir, i) == ir[i].pseudo

\* IREmitter with an insertion point: a new instruction enters the arena
\* and is linked into the block at position `at`, in front of what was
\* there.
Emit(block, ir, at, inst) ==
    [insts |-> Append(ir, inst),
     block |-> InsertAt(block, at, Len(ir) + 1),
     value |-> Ref(Len(ir) + 1)]
=============================================================================
