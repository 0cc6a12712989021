------------------------------ MODULE WordOps ------------------------------
(***************************************************************************)
(* Requests of harts to memory, words of Width bits and what the atomic    *)
(* operations of RISC-V do to them.                                        *)
(***************************************************************************)
EXTENDS Integers

CONSTANT Width

ASSUME WidthAssumption == Width \in Nat \ {0}

Word == 0..(2^Width - 1)

AmoOps == {"swap", "add", "and", "or", "xor", "max", "min", "maxu", "minu"}

(* A request is a record of op (one of these, load, store, lr or sc), addr, *)
(* data and tag.                                                            *)
NoRequest == [op |-> "none"]

Bits(x) == {i \in 0..(Width - 1) : (x \div 2^i) % 2 = 1}
WordOf(bits) == CHOOSE x \in Word : Bits(x) = bits
And(x, y) == WordOf(Bits(x) \cap Bits(y))
Or(x, y) == WordOf(Bits(x) \cup Bits(y))
Xor(x, y) == WordOf((Bits(x) \cup Bits(y)) \ (Bits(x) \cap Bits(y)))

(* In two's complement. *)
Signed(x) == IF x < 2^(Width - 1) THEN x ELSE x - 2^Width

Combine(op, a, b) ==
  CASE op = "swap" -> b
    [] op = "add" -> (a + b) % 2^Width
    [] op = "and" -> And(a, b)
    [] op = "or" -> Or(a, b)
    [] op = "xor" -> Xor(a, b)
    [] op = "max" -> IF Signed(a) >= Signed(b) THEN a ELSE b
    [] op = "min" -> IF Signed(a) <= Signed(b) THEN a ELSE b
    [] op = "maxu" -> IF a >= b THEN a ELSE b
    [] op = "minu" -> IF a <= b THEN a ELSE b
=============================================================================
