---------------------------- MODULE IRSemantics ----------------------------
(***************************************************************************)
(* What an IR value evaluates to when the shader runs: the reference the   *)
(* folds of the pass are checked against.  Nothing here is taken from the  *)
(* pass; integer operations are written with \div and % on naturals where  *)
(* the pass uses the shifts and masks of C++.                              *)
(*                                                                         *)
(* An environment gives what the shader reads from outside:                *)
(*   reg[r], pred[p]      registers and predicates other than RZ and PT    *)
(*   cbuf[<<b, o>>]       the word at offset o of constant buffer b        *)
(*   attr[a]              the bits of input attribute a                    *)
(*                                                                         *)
(* Floats are kept as bit patterns.  Arithmetic on them is that of a       *)
(* format with the values 0, 1/2, 1, 2, infinity and NaN (codes 0 to 5,    *)
(* every larger pattern another NaN): rounding to the nearest value of     *)
(* the format, overflow to infinity, underflow to zero, as in IEEE 754.    *)
(* A half keeps the low half of the bits of a float: packing a float that  *)
(* has more loses them, as the conversion to half precision does.          *)
(***************************************************************************)
EXTENDS IR, Integers

Composite(elems) == [t |-> "Composite", v |-> elems]

FloatZero == 0
FloatInf == 4
FloatNaN == 5

IsNaN(x) == x >= FloatNaN

FloatMul(x, y) ==
    LET exponent == (x - 2) + (y - 2)
    IN IF IsNaN(x) THEN x
       ELSE IF IsNaN(y) THEN y
       ELSE IF {x, y} = {FloatZero, FloatInf} THEN FloatNaN
       ELSE IF FloatZero \in {x, y} THEN FloatZero
       ELSE IF FloatInf \in {x, y} THEN FloatInf
       ELSE IF exponent < -1 THEN FloatZero
       ELSE IF exponent > 1 THEN FloatInf
       ELSE exponent + 2

FloatRecip(x) == IF IsNaN(x) THEN x ELSE 4 - x

\* The two's complement value of a field of `bits` bits.
SignedField(n, bits) == IF bits > 0 /\ n >= 2^(bits - 1) THEN n - 2^bits ELSE n

\* Bits [shift, shift + count) of base.
Field(base, shift, count) == (base \div 2^shift) % 2^count

IntegerCompare(op, a, b) ==
    CASE op = "SLessThan" -> SignedField(a, WordBits) < SignedField(b, WordBits)
      [] op = "SLessThanEqual" -> SignedField(a, WordBits) <= SignedField(b, WordBits)
      [] op = "SGreaterThan" -> SignedField(a, WordBits) > SignedField(b, WordBits)
      [] op = "SGreaterThanEqual" -> SignedField(a, WordBits) >= SignedField(b, WordBits)
      [] op = "ULessThan" -> a < b
      [] op = "ULessThanEqual" -> a <= b
      [] op = "UGreaterThan" -> a > b
      [] op = "UGreaterThanEqual" -> a >= b
      [] op = "IEqual" -> a = b
      [] op = "INotEqual" -> a # b

Comparisons ==
    {"SLessThan", "SLessThanEqual", "SGreaterThan", "SGreaterThanEqual",
     "ULessThan", "ULessThanEqual", "UGreaterThan", "UGreaterThanEqual",
     "IEqual", "INotEqual"}

Shapes == {"F32x2", "F32x3", "F32x4", "F16x2", "F16x3", "F16x4"}
Constructs == {"CompositeConstruct" \o s : s \in Shapes}
Inserts == {"CompositeInsert" \o s : s \in Shapes}
Extracts == {"CompositeExtract" \o s : s \in Shapes}
Selects == {"SelectU1", "SelectU8", "SelectU16", "SelectU32", "SelectU64",
            "SelectF16", "SelectF32", "SelectF64"}

\* The value of `val` in program `ir` under environment `env`.
RECURSIVE Eval(_, _, _)
Eval(ir, val, env) ==
    IF val.t # "Opaque" THEN val
    ELSE
    LET inst == ir[val.v]
        op == inst.op
        A(k) == Eval(ir, inst.args[k], env)
        a(k) == A(k).v
        halfBits == WordBits \div 2
    IN CASE op = "Identity" -> A(1)
         [] op = "GetRegister" -> ImmU32(IF a(1) = RZ THEN 0 ELSE env.reg[a(1)])
         [] op = "GetPred" -> ImmU1(IF a(1) = PT THEN TRUE ELSE env.pred[a(1)])
         [] op = "GetCbufU32" -> ImmU32(env.cbuf[<<a(1), a(2)>>])
         [] op = "GetCbufF32" -> ImmF32(env.cbuf[<<a(1), a(2)>>])
         [] op = "GetAttribute" -> ImmF32(env.attr[a(1)])
         [] op = "IAdd32" -> ImmU32((a(1) + a(2)) % Word)
         [] op = "ISub32" -> ImmU32((a(1) - a(2)) % Word)
         [] op = "IMul32" -> ImmU32((a(1) * a(2)) % Word)
         [] op = "ShiftLeftLogical32" -> ImmU32((a(1) * 2^a(2)) % Word)
         [] op = "ConvertU64U32" -> ImmU64(a(1))
         [] op = "IAdd64" -> ImmU64((a(1) + a(2)) % DWord)
         [] op = "BitFieldUExtract" -> ImmU32(Field(a(1), a(2), a(3)))
         [] op = "BitFieldSExtract" ->
              ImmU32(SignedField(Field(a(1), a(2), a(3)), a(3)) % Word)
         [] op = "BitCastF32U32" -> ImmF32(a(1))
         [] op = "BitCastU32F32" -> ImmU32(a(1))
         [] op = "PackHalf2x16" ->
              ImmU32((a(1)[1].v % 2^halfBits) + 2^halfBits * (a(1)[2].v % 2^halfBits))
         [] op = "UnpackHalf2x16" ->
              Composite(<<ImmF32(a(1) % 2^halfBits), ImmF32(a(1) \div 2^halfBits)>>)
         [] op = "FPMul32" -> ImmF32(FloatMul(a(1), a(2)))
         [] op = "FPRecip32" -> ImmF32(FloatRecip(a(1)))
         [] op = "LogicalAnd" -> ImmU1(a(1) /\ a(2))
         [] op = "LogicalOr" -> ImmU1(a(1) \/ a(2))
         [] op = "LogicalNot" -> ImmU1(~a(1))
         [] op \in Comparisons -> ImmU1(IntegerCompare(op, a(1), a(2)))
         [] op \in Selects -> IF a(1) THEN A(2) ELSE A(3)
         [] op = "BranchConditional" -> IF a(1) THEN A(2) ELSE A(3)
         [] op \in Constructs -> Composite([k \in DOMAIN inst.args |-> A(k)])
         [] op \in Inserts -> Composite([a(1) EXCEPT ![a(3) + 1] = A(2)])
         [] op \in Extracts -> a(1)[a(2) + 1]
=============================================================================
