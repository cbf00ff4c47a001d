------------------------------ MODULE MCAmoShim ------------------------------
(***************************************************************************)
(* The shim and its ALU for TLC.  A behaviour exercises the shim of one    *)
(* bank, on words of W bits, or it asks the ALU for one operation on words *)
(* of AluWidth bits.                                                       *)
(***************************************************************************)
EXTENDS AmoShim, TLC

CONSTANT AluWidth

ASSUME AluWidthAssumption == AluWidth \in Nat \ {0}

VARIABLE request    \* what the ALU is asked, or NoRequest

Asked == INSTANCE AmoAlu WITH W <- AluWidth

NoRequest == [op |-> None]

MCInit ==
    /\ Init
    /\ request \in {NoRequest} \cup
            [op : AmoOps, a : Asked!Word, b : Asked!Word]

MCNext == request = NoRequest /\ Next /\ UNCHANGED request

MCSpec == MCInit /\ [][MCNext]_<<vars, request>>

\* The addresses are interchangeable; all properties checked are invariants.
Symmetry == Permutations(Addrs)

Bits(x) == {i \in 0..(AluWidth - 1) : Asked!Bit(x, i) = 1}
\* The larger and the smaller operand in the order given by the values f.
Larger(a, b, fa, fb) == IF fa >= fb THEN a ELSE b
Smaller(a, b, fa, fb) == IF fa >= fb THEN b ELSE a

\* What the A extension asks of an atomic memory operation.
Reference(op, a, b) ==
    CASE op = "swap" -> b
      [] op = "add"  -> (a + b) % 2^AluWidth
      [] op = "and"  -> Asked!OfBits(Bits(a) \cap Bits(b))
      [] op = "or"   -> Asked!OfBits(Bits(a) \cup Bits(b))
      [] op = "xor"  -> Asked!OfBits((Bits(a) \cup Bits(b)) \ (Bits(a) \cap Bits(b)))
      [] op = "max"  -> Larger(a, b, Asked!Signed(a), Asked!Signed(b))
      [] op = "min"  -> Smaller(a, b, Asked!Signed(a), Asked!Signed(b))
      [] op = "maxu" -> Larger(a, b, a, b)
      [] op = "minu" -> Smaller(a, b, a, b)

\* The ALU computes the architectural result for every operand pair, the most
\* negative word (whose negation needs the extra adder bit) included.
AluMatchesReference ==
    request # NoRequest =>
        Asked!Alu(request.op, request.a, request.b)
            = Reference(request.op, request.a, request.b)

=============================================================================
