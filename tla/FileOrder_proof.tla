--------------------------- MODULE FileOrder_proof ---------------------------
(***************************************************************************)
(* What the comparison operators of file::File are, for all objects: < is  *)
(* an order by size, and == is equality of the contents.                   *)
(***************************************************************************)
EXTENDS FileOrder, TLAPS

(* An object as the rest of the class leaves it: the block, if there is    *)
(* one, has m_block_size bytes, which are values of S.                     *)
Whole(a, S) ==
  /\ a.size \in Nat
  /\ a.block # Null => a.block \in Seq(S) /\ Len(a.block) = a.size

LEMMA EqMeansSame ==
  ASSUME NEW S, NEW a, NEW b, Whole(a, S), Whole(b, S)
  PROVE  Eq(a, b) <=> a.block # Null /\ a.block = b.block
<1>1. CASE a.block = Null \/ b.block = Null
  BY <1>1 DEF Eq, NotEq
<1>2. CASE a.block # Null /\ b.block # Null
  <2>1. /\ a.block \in Seq(S) /\ Len(a.block) = a.size /\ a.size \in Nat
        /\ b.block \in Seq(S) /\ Len(b.block) = b.size /\ b.size \in Nat
    BY <1>2 DEF Whole
  <2>2. memcmp(a.block, b.block, a.size) = 0
          <=> Differ(a.block, b.block, a.size) = {}
    BY DEF memcmp
  <2>3. ASSUME a.size = b.size, Differ(a.block, b.block, a.size) = {}
        PROVE  a.block = b.block
    <3>1. \A k \in 1..a.size : a.block[k] = b.block[k]
      BY <2>3 DEF Differ
    <3> QED
      BY <2>1, <2>3, <3>1
  <2>4. a.block = b.block =>
          a.size = b.size /\ Differ(a.block, b.block, a.size) = {}
    BY <2>1 DEF Differ
  <2> QED
    BY <1>2, <2>2, <2>3, <2>4 DEF Eq, NotEq
<1> QED
  BY <1>1, <1>2

(* < compares the sizes and nothing else, so it is a strict weak order:    *)
(* std::sort and std::set accept it.  Files of one size are one to them.   *)
THEOREM LtStrictWeakOrder ==
  ASSUME NEW a, NEW b, NEW c,
         a.size \in Nat, b.size \in Nat, c.size \in Nat
  PROVE  /\ Lt(a, b) <=> a.size < b.size
         /\ Gt(a, b) <=> Lt(b, a)
         /\ ~Lt(a, a)
         /\ Lt(a, b) /\ Lt(b, c) => Lt(a, c)
         /\ ~Lt(a, b) /\ ~Lt(b, a) /\ ~Lt(b, c) /\ ~Lt(c, b) =>
              ~Lt(a, c) /\ ~Lt(c, a)
BY DEF Lt, Gt, NotEq

(* == is an equivalence on the objects that have a block, and only there.  *)
THEOREM EqEquivalence ==
  ASSUME NEW S, NEW a, NEW b, NEW c,
         Whole(a, S), Whole(b, S), Whole(c, S)
  PROVE  /\ Eq(a, a) <=> a.block # Null
         /\ Eq(a, b) => Eq(b, a)
         /\ Eq(a, b) /\ Eq(b, c) => Eq(a, c)
BY EqMeansSame

(* <= is transitive, and two objects that are <= each other are equal:     *)
(* unlike <, it never takes two files of one size for one.                 *)
THEOREM LePartialOrder ==
  ASSUME NEW S, NEW a, NEW b, NEW c,
         Whole(a, S), Whole(b, S), Whole(c, S)
  PROVE  /\ Le(a, b) /\ Le(b, a) => Eq(a, b)
         /\ Le(a, b) /\ Le(b, c) => Le(a, c)
<1>1. a.size \in Nat /\ b.size \in Nat /\ c.size \in Nat
  BY DEF Whole
<1>2. /\ Lt(a, b) <=> a.size < b.size
      /\ Lt(b, a) <=> b.size < a.size
      /\ Lt(b, c) <=> b.size < c.size
      /\ Lt(a, c) <=> a.size < c.size
  BY <1>1, LtStrictWeakOrder
<1>3. (Eq(a, b) => a.size = b.size) /\ (Eq(b, c) => b.size = c.size)
  BY DEF Eq, NotEq
<1>4. Eq(b, a) => Eq(a, b)
  BY EqEquivalence
<1>5. Eq(a, b) /\ Eq(b, c) => Eq(a, c)
  BY EqEquivalence
<1> QED
  BY <1>1, <1>2, <1>3, <1>4, <1>5 DEF Le

=============================================================================
