------------------------------ MODULE AtomicOps ------------------------------
(***************************************************************************)
(* The pure part of crates/qjs-runtime/src/atomics.rs: how an element of   *)
(* an integer typed array is coerced to its width, and what each           *)
(* read-modify-write operator computes.  An element is the number its      *)
(* Width bits stand for; the signed and the unsigned kinds of one width    *)
(* have the same bits, so the non-negative representative is used for      *)
(* both.                                                                   *)
(***************************************************************************)
EXTENDS Integers

CONSTANT Width              \* bits of one element

Modulus == 2 ^ Width

\* The second conjunct follows from the first; it spares the proofs an
\* induction over Width.
ASSUME WidthAssumption == Width \in Nat \ {0} /\ Modulus \in Nat \ {0}

Element == 0 .. Modulus - 1

\* The coercion every argument goes through before it is stored or compared.
coerce_atomic_value(v) == v % Modulus

Bits(x) == {k \in 0 .. Width - 1 : (x \div 2 ^ k) % 2 = 1}

\* The element whose bits are S (every set of bit positions has one).
FromBits(S) ==
  LET found == {x \in Element : Bits(x) = S}
  IN  IF found = {} THEN 0 ELSE CHOOSE x \in found : TRUE

ReadModifyWrite == {"add", "sub", "and", "or", "xor", "exchange"}

\* The new element: the operator applied to the wide integers, wrapped back.
apply_atomic_op(op, old, v) ==
  CASE op = "add"      -> (old + v) % Modulus
    [] op = "sub"      -> (old - v) % Modulus
    [] op = "and"      -> FromBits(Bits(old) \cap Bits(v))
    [] op = "or"       -> FromBits(Bits(old) \cup Bits(v))
    [] op = "xor"      -> FromBits((Bits(old) \cup Bits(v)) \ (Bits(old) \cap Bits(v)))
    [] op = "exchange" -> v

\* Both sides have been coerced, so equality is equality of elements.
atomic_values_equal(x, y) == x = y

=============================================================================
