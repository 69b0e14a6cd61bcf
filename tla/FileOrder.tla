------------------------------ MODULE FileOrder ------------------------------
(***************************************************************************)
(* The comparison operators of file::File, src/include/wndx/sane/file.hpp: *)
(* an object is a record with its m_block_size and its m_block, a sequence *)
(* of bytes or Null.                                                       *)
(***************************************************************************)
EXTENDS Integers, Sequences

CONSTANT Null   \* m_block = nullptr

(* Where the first n bytes of two blocks differ.                           *)
Differ(lhs, rhs, n) == {k \in 1..n : lhs[k] # rhs[k]}

(* Mutant: the last byte is not compared.                                  *)
memcmpShort(lhs, rhs, n) == IF Differ(lhs, rhs, n - 1) = {} THEN 0 ELSE 1

(* std::memcmp: the sign tells which block has the smaller byte first.     *)
memcmp(lhs, rhs, n) ==
  LET first == CHOOSE k \in Differ(lhs, rhs, n) :
                 \A j \in Differ(lhs, rhs, n) : k <= j
  IN  IF Differ(lhs, rhs, n) = {} THEN 0
      ELSE IF lhs[first] < rhs[first] THEN -1 ELSE 1

NotEq(a, b) == a.block = Null \/ b.block = Null \/ a.size # b.size

(* Mutant: < is <=.                                                        *)
LtOrSame(a, b) == NotEq(a, b) /\ a.size <= b.size

(* A missing block makes objects differ; < and > go by the size even then. *)
Lt(a, b) == NotEq(a, b) /\ a.size < b.size
Gt(a, b) == NotEq(a, b) /\ a.size > b.size

Eq(a, b) == ~NotEq(a, b) /\ memcmp(a.block, b.block, a.size) = 0

Le(a, b) == Lt(a, b) \/ Eq(a, b)
Ge(a, b) == Gt(a, b) \/ Eq(a, b)

=============================================================================
