---------------------------- MODULE PagingLemmas ----------------------------
(***************************************************************************)
(* Facts about pages: what SELECT ... WHERE seq > ? ORDER BY seq LIMIT ?   *)
(* returns.  ListAfterSeq (channel messages), the query for the pending    *)
(* direct messages and the SELECT of expired rows all read a page.         *)
(***************************************************************************)
EXTENDS Integers, FiniteSets, FiniteSetTheorems, WellFoundedInduction, TLAPS

\* The first rows of S, at most limit of them.
FirstOf(S, limit) == {n \in S : Cardinality({k \in S : k < n}) < limit}

\* A set of numbers has a least one.
LEMMA LeastOf ==
  ASSUME NEW S, S \subseteq Nat, S # {}
  PROVE  \E x \in S : \A y \in S : x <= y
<1>1. PICK x \in S : \A y \in S : ~(<<y, x>> \in OpToRel(<, Nat))
  BY NatLessThanWellFounded, WFMin, Zenon
<1>2. \A y \in S : ~(y < x)
  BY <1>1, Zenon DEF OpToRel
<1> QED
  BY <1>2

\* A bounded set of numbers has a greatest one.
LEMMA GreatestOf ==
  ASSUME NEW N \in Nat, NEW S, S \subseteq 0 .. N, S # {}
  PROVE  \E x \in S : \A y \in S : y <= x
<1> DEFINE T == {N - y : y \in S}
<1>1. T \subseteq Nat /\ T # {}
  <2>1. \A y \in S : N - y \in Nat
    OBVIOUS
  <2>2. T \subseteq Nat
    BY <2>1
  <2>3. PICK y : y \in S
    OBVIOUS
  <2>4. N - y \in T
    BY <2>3
  <2> QED
    BY <2>2, <2>4
<1>2. PICK t \in T : \A u \in T : t <= u
  <2> HIDE DEF T
  <2> QED
    BY <1>1, LeastOf, Zenon
<1>3. PICK x \in S : t = N - x
  OBVIOUS
<1>4. \A y \in S : N - x <= N - y
  BY <1>2, <1>3
<1> QED
  BY <1>4

\* A page is not empty unless nothing is left, and it has a last row: a reader that
\* follows the last row of each page always moves on, whatever the limit.
LEMMA PageHasLast ==
  ASSUME NEW N \in Nat, NEW S, S \subseteq 0 .. N, S # {}, NEW limit \in Nat \ {0}
  PROVE  \E last \in FirstOf(S, limit) : \A n \in FirstOf(S, limit) : n <= last
<1>1. PICK x \in S : \A y \in S : x <= y
  <2>1. S \subseteq Nat
    OBVIOUS
  <2> QED
    BY <2>1, LeastOf, Zenon
<1>2. {k \in S : k < x} = {}
  <2>1. \A k \in S : ~(k < x)
    <3>1. \A k \in S : k \in Nat
      OBVIOUS
    <3> QED
      BY <1>1, <3>1
  <2> QED
    BY <2>1, Zenon
<1>3. Cardinality({k \in S : k < x}) = 0
  BY <1>2, FS_EmptySet, Zenon
<1>4. x \in FirstOf(S, limit)
  BY <1>3 DEF FirstOf
<1>5. FirstOf(S, limit) \subseteq 0 .. N /\ FirstOf(S, limit) # {}
  BY <1>4, Zenon DEF FirstOf
<1> QED
  BY <1>5, GreatestOf

=============================================================================
