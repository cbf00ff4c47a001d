------------------------------- MODULE AmoAlu -------------------------------
(***************************************************************************)
(* snitch_amo_alu (hw/snitch_cluster/src/snitch_amo_shim.sv): the result   *)
(* of an atomic memory operation on two words of W bits.  The hardware     *)
(* compares through the carry of a W + 1 bit adder; the operators below    *)
(* keep that adder, and Reference says what the RISC-V A extension asks.   *)
(***************************************************************************)
EXTENDS Integers, FiniteSetsExt

CONSTANT W      \* word width (32)

ASSUME WidthAssumption == W \in Nat \ {0}

Word == 0..(2^W - 1)
AmoOps == {"swap", "add", "and", "or", "xor", "max", "min", "maxu", "minu"}

\* $signed(x).
Signed(x) == IF x >= 2^(W - 1) THEN x - 2^W ELSE x

\* An operand or a sum in the adder's W + 1 bits.
Wide(x) == x % 2^(W + 1)

\* adder_sum[W]: the sign of the difference that the adder computes.
SumBit(a, b) == Wide(Wide(a) + Wide(b)) >= 2^W

Bit(x, i) == (x \div 2^i) % 2
\* The word with the bits of a set, and the bitwise operations.
OfBits(S) == SumSet({2^i : i \in S})
BitAnd(a, b) == OfBits({i \in 0..(W - 1) : Bit(a, i) = 1 /\ Bit(b, i) = 1})
BitOr(a, b) == OfBits({i \in 0..(W - 1) : Bit(a, i) = 1 \/ Bit(b, i) = 1})
BitXor(a, b) == OfBits({i \in 0..(W - 1) : Bit(a, i) # Bit(b, i)})

\* Mutant of Alu: the unsigned comparisons use the signed operands.
AluSignedOnly(op, a, b) ==
    LET less == SumBit(Signed(a), -Signed(b)) IN
    CASE op = "swap" -> b
      [] op = "add"  -> Wide(Signed(a) + Signed(b)) % 2^W
      [] op = "and"  -> BitAnd(a, b)
      [] op = "or"   -> BitOr(a, b)
      [] op = "xor"  -> BitXor(a, b)
      [] op \in {"max", "maxu"}  -> IF less THEN b ELSE a
      [] op \in {"min", "minu"}  -> IF less THEN a ELSE b

\* result_o.
Alu(op, a, b) ==
    CASE op = "swap" -> b
      [] op = "add"  -> Wide(Signed(a) + Signed(b)) % 2^W
      [] op = "and"  -> BitAnd(a, b)
      [] op = "or"   -> BitOr(a, b)
      [] op = "xor"  -> BitXor(a, b)
      [] op = "max"  -> IF SumBit(Signed(a), -Signed(b)) THEN b ELSE a
      [] op = "min"  -> IF SumBit(Signed(a), -Signed(b)) THEN a ELSE b
      [] op = "maxu" -> IF SumBit(a, -b) THEN b ELSE a
      [] op = "minu" -> IF SumBit(a, -b) THEN a ELSE b

=============================================================================
