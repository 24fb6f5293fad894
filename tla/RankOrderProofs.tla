--------------------------- MODULE RankOrderProofs ---------------------------
(***************************************************************************)
(* No sequence of ranks comes nearer for ever, whatever their length.      *)
(***************************************************************************)
EXTENDS RankOrder, WellFoundedInduction, TLAPS

\* A rank of four places comes nearer at one of them.
LEMMA NearerByPlace ==
    ASSUME NEW a1, NEW a2, NEW a3, NEW a4, NEW b1, NEW b2, NEW b3, NEW b4,
           \/ a1 < b1
           \/ a1 = b1 /\ a2 < b2
           \/ a1 = b1 /\ a2 = b2 /\ a3 < b3
           \/ a1 = b1 /\ a2 = b2 /\ a3 = b3 /\ a4 < b4
    PROVE  Nearer(<<a1, a2, a3, a4>>, <<b1, b2, b3, b4>>)
  <1> DEFINE a == <<a1, a2, a3, a4>>
             b == <<b1, b2, b3, b4>>
  <1>1. DOMAIN b = 1 .. 4
    OBVIOUS
  <1>2. CASE a1 < b1
    <2>1. 1 \in DOMAIN b /\ a[1] < b[1] /\ \A m \in 1 .. (1 - 1) : a[m] = b[m]
      BY <1>1, <1>2
    <2> QED
      BY <2>1 DEF Nearer
  <1>3. CASE a1 = b1 /\ a2 < b2
    <2>1. 2 \in DOMAIN b /\ a[2] < b[2] /\ \A m \in 1 .. (2 - 1) : a[m] = b[m]
      BY <1>1, <1>3
    <2> QED
      BY <2>1 DEF Nearer
  <1>4. CASE a1 = b1 /\ a2 = b2 /\ a3 < b3
    <2>1. 3 \in DOMAIN b /\ a[3] < b[3] /\ \A m \in 1 .. (3 - 1) : a[m] = b[m]
      BY <1>1, <1>4
    <2> QED
      BY <2>1 DEF Nearer
  <1>5. CASE a1 = b1 /\ a2 = b2 /\ a3 = b3 /\ a4 < b4
    <2>1. 4 \in DOMAIN b /\ a[4] < b[4] /\ \A m \in 1 .. (4 - 1) : a[m] = b[m]
      BY <1>1, <1>5
    <2> QED
      BY <2>1 DEF Nearer
  <1> QED
    BY <1>2, <1>3, <1>4, <1>5

\* The order of the natural numbers, as the library wants it.
Less == OpToRel(<, Nat)

\* At each place a smaller number is a pair of that order.
LEMMA LessIsLess == \A m, n \in Nat : m < n => <<m, n>> \in Less
  BY DEF Less, OpToRel

\* A rank that comes nearer is below in the library's order on tuples.
LEMMA NearerIsBelow ==
    ASSUME NEW length \in Nat,
           NEW rank \in [1 .. length -> Nat], NEW other \in [1 .. length -> Nat],
           Nearer(rank, other)
    PROVE  <<rank, other>> \in LexProductOrdering(Less, Nat, length)
  <1>1. PICK n \in 1 .. length :
            rank[n] < other[n] /\ \A m \in 1 .. (n - 1) : rank[m] = other[m]
    BY DEF Nearer
  <1>2. <<rank[n], other[n]>> \in Less
    BY <1>1, LessIsLess
  <1> QED
    BY <1>1, <1>2 DEF LexProductOrdering

\* Coming nearer comes to an end: a thread whose every step takes it nearer
\* takes finitely many of them.
THEOREM NearerEnds ==
    ASSUME NEW length \in Nat
    PROVE  ~ \E ranks \in [Nat -> [1 .. length -> Nat]] :
                 \A n \in Nat : Nearer(ranks[n + 1], ranks[n])
  <1> DEFINE Ranks == [1 .. length -> Nat]
             Order == LexProductOrdering(Less, Nat, length)
  <1>1. IsWellFoundedOn(Less, Nat)
    BY NatLessThanWellFounded DEF Less
  <1>2. IsWellFoundedOn(Order, Ranks)
    BY <1>1, WFLexProductOrdering
  <1>3. SUFFICES ASSUME NEW ranks \in [Nat -> Ranks],
                        \A n \in Nat : Nearer(ranks[n + 1], ranks[n])
                 PROVE  FALSE
    OBVIOUS
  <1>4. ASSUME NEW n \in Nat
        PROVE  <<ranks[n + 1], ranks[n]>> \in Order
    <2> HIDE DEF Ranks
    <2>1. n + 1 \in Nat
      OBVIOUS
    <2>2. ranks[n + 1] \in Ranks /\ ranks[n] \in Ranks
      BY <1>3, <2>1
    <2> QED
      BY <1>3, <2>2, NearerIsBelow DEF Ranks
  <1> QED
    BY <1>2, <1>4 DEF IsWellFoundedOn

=============================================================================
