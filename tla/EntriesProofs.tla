----------------------------- MODULE EntriesProofs ----------------------------
(*****************************************************************************)
(* What TLAPS proves of the entries of the atlas, first part: of the sums    *)
(* the reference modules keep and of walks along the arrows of a graph; of   *)
(* the overviews laid out; that the reference solutions stay on their        *)
(* scenarios, and that six of them answer right; and of the bank, for any   *)
(* commands its clients may send.                                            *)
(*****************************************************************************)
EXTENDS AtlasEntries, FiniteSetTheorems, WellFoundedInduction, TLAPS

-----------------------------------------------------------------------------
(* Sums.  The order SumOver adds in is left open: what it adds up to is    *)
(* proved from the recursion it is defined by, one element at a time.      *)

(* The less-than of the naturals, from which the library's facts follow.   *)
Less == OpToRel(<, Nat)

(* What the relation holds of, pair by pair.                                *)
LEMMA LessIsLess == Less = {ss \in Nat \X Nat : ss[1] < ss[2]}
BY DEF Less, OpToRel

(* No set of naturals is without a least one: from the library.             *)
LEMMA LessIsWellFounded == IsWellFoundedOn(Less, Nat)
BY NatLessThanWellFounded DEF Less

(* A set of naturals that is not empty has a least element.                 *)
LEMMA LeastElement ==
  ASSUME NEW S \in SUBSET Nat, S # {}
  PROVE  \E m \in S : \A n \in S : m <= n
<1>1. PICK m \in S : \A n \in S : ~(<<n, m>> \in Less)
  BY LessIsWellFounded, WFMin
<1>2. \A n \in S : ~(n < m)
  BY <1>1, LessIsLess
<1> QED BY <1>2

(* Induction, over a set in place of a formula.                             *)
LEMMA InductionOnNat ==
  ASSUME NEW S, 0 \in S, \A n \in Nat : n \in S => n + 1 \in S
  PROVE  Nat \subseteq S
<1>1. SUFFICES ASSUME Nat \ S # {} PROVE FALSE
  OBVIOUS
<1>2. PICK m \in Nat \ S : \A n \in Nat \ S : m <= n
  BY <1>1, LeastElement
<1>3. m - 1 \in S /\ m - 1 \in Nat
  BY <1>2
<1> QED BY <1>2, <1>3

(* What SumOver recurs by: the sums of f over subsets of D.                *)
Pick(s) == CHOOSE x \in s : TRUE
(* The function FoldFunction recurs by.                                     *)
SumFrom(f, D) ==
  CHOOSE sum : sum = [s \in SUBSET D |->
    IF s = {} THEN 0 ELSE LET x == CHOOSE x \in s : TRUE IN f[x] + sum[s \ {x}]]

(* A solution of that recursion, with integers for values.                  *)
Sums(sum, f, D) ==
  /\ sum \in [SUBSET D -> Int]
  /\ \A s \in SUBSET D : sum[s] = IF s = {} THEN 0 ELSE f[Pick(s)] + sum[s \ {Pick(s)}]

(* The summand the recursion takes next is one of those left.               *)
LEMMA PickIsIn == \A s : s # {} => Pick(s) \in s
BY DEF Pick

(* SumOver is that function at the whole domain.                            *)
LEMMA SumOverIs == \A f : SumOver(f) = SumFrom(f, DOMAIN f)[DOMAIN f]
BY DEF SumOver, FoldFunction, FoldFunctionOnSet, MapThenFoldSet, SumFrom

(* Taking one summand out leaves a finite set one smaller.                  *)
LEMMA SmallerSubset ==
  ASSUME NEW D, IsFiniteSet(D), NEW s \in SUBSET D, NEW x \in s
  PROVE  /\ s \ {x} \in SUBSET D
         /\ Cardinality(s) \in Nat /\ Cardinality(s \ {x}) \in Nat
         /\ Cardinality(s \ {x}) = Cardinality(s) - 1
<1>1. IsFiniteSet(s)
  BY FS_Subset
<1>2. IsFiniteSet(s \ {x}) /\ Cardinality(s \ {x}) = Cardinality(s) - 1
  BY <1>1, FS_RemoveElement
<1> QED BY <1>1, <1>2, FS_CardinalityType

(* The recursion has a solution: one more element at a time.               *)
LEMMA SumsExist ==
  ASSUME NEW D, IsFiniteSet(D), NEW f \in [D -> Int]
  PROVE  \E sum : Sums(sum, f, D)
<1> DEFINE upto(n) == {s \in SUBSET D : Cardinality(s) <= n}
           good(n, sum) ==
             /\ sum \in [upto(n) -> Int]
             /\ \A s \in upto(n) : sum[s] = IF s = {} THEN 0 ELSE f[Pick(s)] + sum[s \ {Pick(s)}]
           G == {n \in Nat : \E sum : good(n, sum)}
<1>1. 0 \in G
  <2>1. \A s \in upto(0) : s = {}
    <3>1. ASSUME NEW s \in upto(0), s # {} PROVE FALSE
      <4>1. /\ Cardinality(s) \in Nat /\ Cardinality(s \ {Pick(s)}) \in Nat
            /\ Cardinality(s \ {Pick(s)}) = Cardinality(s) - 1
        BY <3>1, SmallerSubset, PickIsIn
      <4> QED BY <3>1, <4>1
    <3> QED BY <3>1
  <2>2. good(0, [s \in upto(0) |-> 0])
    BY <2>1
  <2> QED BY <2>2
<1>2. ASSUME NEW n \in Nat, n \in G PROVE n + 1 \in G
  <2>1. PICK sum : good(n, sum)
    BY <1>2
  <2> DEFINE next == [s \in upto(n + 1) |->
                        IF s = {} THEN 0 ELSE f[Pick(s)] + sum[s \ {Pick(s)}]]
  <2>2. ASSUME NEW s \in upto(n + 1), s # {}
        PROVE  Pick(s) \in D /\ s \ {Pick(s)} \in upto(n)
    <3>1. /\ Pick(s) \in s
          /\ s \ {Pick(s)} \in SUBSET D
          /\ Cardinality(s) \in Nat
          /\ Cardinality(s \ {Pick(s)}) = Cardinality(s) - 1
      BY <2>2, SmallerSubset, PickIsIn
    <3>2. Cardinality(s) <= n + 1
      OBVIOUS
    <3> QED BY <3>1, <3>2
  <2>3. \A s \in upto(n) : s \in upto(n + 1)
    <3>1. ASSUME NEW s \in upto(n) PROVE s \in upto(n + 1)
      <4>1. s \in SUBSET D /\ Cardinality(s) <= n
        OBVIOUS
      <4>2. Cardinality(s) \in Nat
        BY <4>1, FS_Subset, FS_CardinalityType
      <4> QED BY <4>1, <4>2
    <3> QED BY <3>1
  <2>4. \A s \in upto(n) : next[s] = sum[s]
    BY <2>1, <2>3
  <2>5. next \in [upto(n + 1) -> Int]
    <3>1. ASSUME NEW s \in upto(n + 1)
          PROVE  (IF s = {} THEN 0 ELSE f[Pick(s)] + sum[s \ {Pick(s)}]) \in Int
      <4>1. CASE s = {}
        BY <4>1
      <4>2. CASE s # {}
        <5>1. f[Pick(s)] \in Int
          BY <2>2, <4>2
        <5>2. sum[s \ {Pick(s)}] \in Int
          BY <2>1, <2>2, <4>2
        <5> QED BY <4>2, <5>1, <5>2
      <4> QED BY <4>1, <4>2
    <3> QED BY <3>1
  <2>6. \A s \in upto(n + 1) :
          next[s] = IF s = {} THEN 0 ELSE f[Pick(s)] + next[s \ {Pick(s)}]
    <3>1. ASSUME NEW s \in upto(n + 1), s # {}
          PROVE  next[s] = f[Pick(s)] + next[s \ {Pick(s)}]
      <4>1. next[s \ {Pick(s)}] = sum[s \ {Pick(s)}]
        BY <2>2, <2>4, <3>1
      <4>2. next[s] = f[Pick(s)] + sum[s \ {Pick(s)}]
        BY <3>1
      <4> QED BY <4>1, <4>2
    <3>2. \A s \in upto(n + 1) : s = {} => next[s] = 0
      OBVIOUS
    <3> QED BY <3>1, <3>2
  <2> HIDE DEF next
  <2>7. good(n + 1, next)
    BY <2>5, <2>6
  <2> HIDE DEF good
  <2>8. \E h : good(n + 1, h)
    BY <2>7
  <2> QED BY <2>8
<1> HIDE DEF G
<1>3. Cardinality(D) \in G
  BY <1>1, <1>2, InductionOnNat, FS_CardinalityType
<1>4. PICK sum : good(Cardinality(D), sum)
  BY <1>3 DEF G
<1>5. upto(Cardinality(D)) = SUBSET D
  BY FS_Subset
<1> QED BY <1>4, <1>5 DEF Sums

(* So the function SumOver is defined by is a solution too.                 *)
LEMMA SumFromSums ==
  ASSUME NEW D, IsFiniteSet(D), NEW f \in [D -> Int]
  PROVE  Sums(SumFrom(f, D), f, D)
<1> DEFINE rhs(sum) == [s \in SUBSET D |->
             IF s = {} THEN 0 ELSE LET x == CHOOSE x \in s : TRUE IN f[x] + sum[s \ {x}]]
<1>1. PICK sum : Sums(sum, f, D)
  BY SumsExist
<1>2. sum = rhs(sum)
  BY <1>1 DEF Sums, Pick
<1>3. SumFrom(f, D) = rhs(SumFrom(f, D))
  BY <1>2 DEF SumFrom
<1> DEFINE it == SumFrom(f, D)
<1>4. /\ DOMAIN it = SUBSET D
      /\ it = [s \in SUBSET D |-> it[s]]
      /\ \A s \in SUBSET D : it[s] = IF s = {} THEN 0 ELSE f[Pick(s)] + it[s \ {Pick(s)}]
  BY <1>3 DEF Pick
<1> HIDE DEF it
<1> DEFINE G == {n \in Nat : \A s \in SUBSET D : Cardinality(s) = n => it[s] \in Int}
<1>5. 0 \in G
  <2>1. \A s \in SUBSET D : Cardinality(s) = 0 => s = {}
    BY FS_Subset, FS_EmptySet
  <2>2. it[{}] = 0
    BY <1>4
  <2> QED BY <2>1, <2>2
<1>6. ASSUME NEW n \in Nat, n \in G PROVE n + 1 \in G
  <2>1. ASSUME NEW s \in SUBSET D, Cardinality(s) = n + 1 PROVE it[s] \in Int
    <3>1. s # {}
      BY <2>1, FS_EmptySet
    <3>2. /\ Pick(s) \in D /\ s \ {Pick(s)} \in SUBSET D
          /\ Cardinality(s \ {Pick(s)}) = n
      BY <2>1, <3>1, SmallerSubset, PickIsIn
    <3>3. f[Pick(s)] \in Int /\ it[s \ {Pick(s)}] \in Int
      BY <1>6, <3>2
    <3>4. it[s] = f[Pick(s)] + it[s \ {Pick(s)}]
      BY <1>4, <3>1
    <3> QED BY <3>3, <3>4
  <2> QED BY <2>1
<1> HIDE DEF G
<1>7. Nat \subseteq G
  BY <1>5, <1>6, InductionOnNat
<1>8. \A s \in SUBSET D : it[s] \in Int
  BY <1>7, FS_Subset, FS_CardinalityType DEF G
<1> QED BY <1>4, <1>8 DEF Sums, it

(* The order the elements are added in does not matter.                    *)
LEMMA AnyFirst ==
  ASSUME NEW D, IsFiniteSet(D), NEW f \in [D -> Int], NEW sum, Sums(sum, f, D),
         NEW t \in SUBSET D, NEW z \in t
  PROVE  sum[t] = f[z] + sum[t \ {z}]
<1> DEFINE G == {n \in Nat : \A s \in SUBSET D : Cardinality(s) = n =>
                               \A x \in s : sum[s] = f[x] + sum[s \ {x}]}
<1>1. 0 \in G
  <2>1. \A s \in SUBSET D : Cardinality(s) = 0 => s = {}
    BY FS_Subset, FS_EmptySet
  <2> QED BY <2>1
<1>2. ASSUME NEW n \in Nat, n \in G PROVE n + 1 \in G
  <2>1. SUFFICES ASSUME NEW s \in SUBSET D, Cardinality(s) = n + 1, NEW x \in s
                 PROVE  sum[s] = f[x] + sum[s \ {x}]
    OBVIOUS
  <2> DEFINE y == Pick(s)
  <2>2. y \in s /\ sum[s] = f[y] + sum[s \ {y}]
    BY <2>1, PickIsIn DEF Sums
  <2> HIDE DEF y
  <2>3. CASE x = y
    BY <2>2, <2>3
  <2>4. CASE x # y
    <3>1. /\ s \ {y} \in SUBSET D /\ Cardinality(s \ {y}) = n /\ x \in s \ {y}
          /\ s \ {x} \in SUBSET D /\ Cardinality(s \ {x}) = n /\ y \in s \ {x}
      BY <2>1, <2>2, <2>4, SmallerSubset
    <3>2. /\ sum[s \ {y}] = f[x] + sum[(s \ {y}) \ {x}]
          /\ sum[s \ {x}] = f[y] + sum[(s \ {x}) \ {y}]
      BY <1>2, <3>1
    <3>3. (s \ {y}) \ {x} = (s \ {x}) \ {y}
      OBVIOUS
    <3> DEFINE both == (s \ {x}) \ {y}
    <3>4. both \in SUBSET D /\ x \in D /\ y \in D
      BY <2>2
    <3>5. sum[both] \in Int /\ f[x] \in Int /\ f[y] \in Int
      <4> HIDE DEF both
      <4> QED BY <3>4 DEF Sums
    <3>6. /\ sum[s \ {y}] = f[x] + sum[both]
          /\ sum[s \ {x}] = f[y] + sum[both]
      BY <3>2, <3>3
    <3> HIDE DEF both
    <3> QED BY <2>2, <3>5, <3>6
  <2> QED BY <2>3, <2>4
<1> HIDE DEF G
<1>3. Cardinality(t) \in G
  BY <1>1, <1>2, InductionOnNat, FS_Subset, FS_CardinalityType
<1> QED BY <1>3 DEF G

(* A sum is its summands', wherever they are kept.                         *)
LEMMA SameSums ==
  ASSUME NEW D, IsFiniteSet(D), NEW f \in [D -> Int], NEW sum, Sums(sum, f, D),
         NEW E, IsFiniteSet(E), NEW g \in [E -> Int], NEW sum2, Sums(sum2, g, E),
         NEW t \in SUBSET D, t \in SUBSET E, \A x \in t : f[x] = g[x]
  PROVE  sum[t] = sum2[t]
<1> DEFINE G == {n \in Nat : \A s \in SUBSET t : Cardinality(s) = n => sum[s] = sum2[s]}
<1>0. IsFiniteSet(t)
  BY FS_Subset
<1>1. 0 \in G
  <2>1. \A s \in SUBSET t : Cardinality(s) = 0 => s = {}
    BY <1>0, FS_Subset, FS_EmptySet
  <2>2. sum[{}] = 0 /\ sum2[{}] = 0
    BY DEF Sums
  <2> QED BY <2>1, <2>2
<1>2. ASSUME NEW n \in Nat, n \in G PROVE n + 1 \in G
  <2>1. SUFFICES ASSUME NEW s \in SUBSET t, Cardinality(s) = n + 1
                 PROVE  sum[s] = sum2[s]
    OBVIOUS
  <2>2. s # {}
    BY <2>1, FS_EmptySet
  <2>3. Pick(s) \in s
    BY <2>2, PickIsIn
  <2>4. s \ {Pick(s)} \in SUBSET t /\ Cardinality(s \ {Pick(s)}) = n
    BY <1>0, <2>1, <2>3, SmallerSubset
  <2>5. sum[s \ {Pick(s)}] = sum2[s \ {Pick(s)}]
    BY <1>2, <2>4
  <2>6. f[Pick(s)] = g[Pick(s)]
    BY <2>3
  <2>7. s \in SUBSET D /\ s \in SUBSET E
    OBVIOUS
  <2>8. sum[s] = f[Pick(s)] + sum[s \ {Pick(s)}] /\ sum2[s] = g[Pick(s)] + sum2[s \ {Pick(s)}]
    BY <2>2, <2>7 DEF Sums
  <2> QED BY <2>5, <2>6, <2>8
<1> HIDE DEF G
<1>3. Cardinality(t) \in G
  BY <1>0, <1>1, <1>2, InductionOnNat, FS_CardinalityType
<1> QED BY <1>3 DEF G

(* The sum over nothing is zero; the sum over a finite set an integer; and *)
(* any summand can be taken out.                                           *)
LEMMA SumOfNone == \A f : DOMAIN f = {} => SumOver(f) = 0
<1> SUFFICES ASSUME NEW f, DOMAIN f = {} PROVE SumOver(f) = 0
  OBVIOUS
<1>1. IsFiniteSet({}) /\ [x \in {} |-> 0] \in [{} -> Int]
  BY FS_EmptySet
<1> DEFINE sum == SumFrom(f, {})
<1>2. \E h : Sums(h, f, {})
  <2>1. \A s \in SUBSET {} : s = {}
    OBVIOUS
  <2>2. Sums([s \in SUBSET {} |-> 0], f, {})
    BY <2>1 DEF Sums
  <2> QED BY <2>2
<1>3. PICK h : Sums(h, f, {})
  BY <1>2
<1>4. h = [s \in SUBSET {} |->
             IF s = {} THEN 0 ELSE LET x == CHOOSE x \in s : TRUE IN f[x] + h[s \ {x}]]
  BY <1>3 DEF Sums, Pick
<1>5. sum = [s \in SUBSET {} |->
               IF s = {} THEN 0 ELSE LET x == CHOOSE x \in s : TRUE IN f[x] + sum[s \ {x}]]
  BY <1>4 DEF SumFrom
<1>6. sum[{}] = 0
  BY <1>5
<1> QED BY <1>6, SumOverIs

(* The sum over a finite set of integers is one.                            *)
LEMMA SumIsInt ==
  ASSUME NEW D, IsFiniteSet(D), NEW f \in [D -> Int]
  PROVE  SumOver(f) \in Int
<1>1. Sums(SumFrom(f, D), f, D) /\ D \in SUBSET D
  BY SumFromSums
<1>2. SumFrom(f, D)[D] \in Int
  BY <1>1 DEF Sums
<1> QED BY <1>2, SumOverIs

(* All summands but one.                                                    *)
Rest(D, f, x) == [y \in D \ {x} |-> f[y]]

(* Any summand may be taken out, and what is left is the sum of the rest.   *)
LEMMA SumTakeOut ==
  ASSUME NEW D, IsFiniteSet(D), NEW f \in [D -> Int], NEW x \in D
  PROVE  SumOver(f) = f[x] + SumOver(Rest(D, f, x))
<1> DEFINE rest == [y \in D \ {x} |-> f[y]]
           sum == SumFrom(f, D)
           less == SumFrom(rest, D \ {x})
<1>1. rest \in [D \ {x} -> Int] /\ IsFiniteSet(D \ {x})
  BY FS_RemoveElement
<1>2. Sums(sum, f, D) /\ Sums(less, rest, D \ {x})
  BY <1>1, SumFromSums
<1>3. SumOver(f) = sum[D] /\ SumOver(rest) = less[D \ {x}]
  BY SumOverIs
<1>4. \A y \in D \ {x} : f[y] = rest[y]
  OBVIOUS
<1> HIDE DEF rest, sum, less
<1>5. sum[D] = f[x] + sum[D \ {x}]
  BY <1>2, AnyFirst
<1>6. sum[D \ {x}] = less[D \ {x}]
  BY <1>1, <1>2, <1>4, SameSums
<1> QED BY <1>3, <1>5, <1>6 DEF rest, Rest

-----------------------------------------------------------------------------
(* Sums that change.                                                       *)

(* One summand more, x, makes g of f; one other summand, g of f.            *)
OneMore(D, f, x, g) ==
  /\ IsFiniteSet(D) /\ f \in [D -> Int] /\ x \notin D
  /\ g \in [D \cup {x} -> Int] /\ \A z \in D : g[z] = f[z]
OneOther(D, f, x, g) ==
  /\ IsFiniteSet(D) /\ f \in [D -> Int] /\ x \in D
  /\ g \in [D -> Int] /\ \A z \in D : z # x => g[z] = f[z]

(* One summand more is one term more.                                       *)
LEMMA SumPutIn == \A D, f, x, g : OneMore(D, f, x, g) => SumOver(g) = SumOver(f) + g[x]
<1> SUFFICES ASSUME NEW D, IsFiniteSet(D), NEW f \in [D -> Int], NEW x, x \notin D,
                    NEW g \in [D \cup {x} -> Int], \A z \in D : g[z] = f[z]
             PROVE  SumOver(g) = SumOver(f) + g[x]
  BY DEF OneMore
<1> DEFINE E == D \cup {x}
<1>1. IsFiniteSet(E) /\ g \in [E -> Int] /\ x \in E
  BY FS_AddElement
<1>2. E \ {x} = D
  OBVIOUS
<1>3. [z \in D |-> g[z]] = f
  OBVIOUS
<1> HIDE DEF E
<1>4. SumOver(g) = g[x] + SumOver(Rest(E, g, x))
  BY <1>1, SumTakeOut
<1>5. SumOver(f) \in Int
  BY SumIsInt
<1>6. g[x] \in Int
  BY <1>1
<1>7. Rest(E, g, x) = f
  BY <1>2, <1>3 DEF Rest
<1> QED BY <1>4, <1>5, <1>6, <1>7

(* One summand changed is one term changed.                                 *)
LEMMA SumChange ==
  \A D, f, x, g : OneOther(D, f, x, g) => SumOver(g) = SumOver(f) - f[x] + g[x]
<1> SUFFICES ASSUME NEW D, IsFiniteSet(D), NEW f \in [D -> Int], NEW g \in [D -> Int],
                    NEW x \in D, \A z \in D : z # x => g[z] = f[z]
             PROVE  SumOver(g) = SumOver(f) - f[x] + g[x]
  BY DEF OneOther
<1> DEFINE rest == [z \in D \ {x} |-> f[z]]
<1>1. rest = [z \in D \ {x} |-> g[z]]
  OBVIOUS
<1>2. IsFiniteSet(D \ {x}) /\ rest \in [D \ {x} -> Int]
  BY FS_RemoveElement
<1>3. SumOver(f) = f[x] + SumOver(Rest(D, f, x)) /\ SumOver(g) = g[x] + SumOver(Rest(D, g, x))
  BY SumTakeOut
<1>4. Rest(D, f, x) = rest /\ Rest(D, g, x) = rest
  BY <1>1 DEF Rest
<1> HIDE DEF rest
<1>5. SumOver(rest) \in Int
  BY <1>2, SumIsInt
<1>6. f[x] \in Int /\ g[x] \in Int
  OBVIOUS
<1> QED BY <1>3, <1>4, <1>5, <1>6

(* Induction over a finite set, one element more at a time.                 *)
LEMMA InductionOnSubsets ==
  ASSUME NEW D, IsFiniteSet(D), NEW G, {} \in G,
         \A S \in SUBSET D : \A x \in D \ S : S \in G => S \cup {x} \in G
  PROVE  D \in G
<1> DEFINE H == {n \in Nat : \A S \in SUBSET D : Cardinality(S) = n => S \in G}
<1>1. 0 \in H
  <2>1. \A S \in SUBSET D : Cardinality(S) = 0 => S = {}
    BY FS_Subset, FS_EmptySet
  <2> QED BY <2>1
<1>2. ASSUME NEW n \in Nat, n \in H PROVE n + 1 \in H
  <2>1. SUFFICES ASSUME NEW S \in SUBSET D, Cardinality(S) = n + 1 PROVE S \in G
    OBVIOUS
  <2>2. IsFiniteSet(S) /\ S # {}
    BY <2>1, FS_Subset, FS_EmptySet
  <2>3. PICK x \in S : TRUE
    BY <2>2
  <2>4. S \ {x} \in SUBSET D /\ Cardinality(S \ {x}) = n
    BY <2>1, SmallerSubset
  <2>5. S \ {x} \in G
    BY <1>2, <2>4
  <2>6. S = (S \ {x}) \cup {x} /\ x \in D \ (S \ {x})
    OBVIOUS
  <2> QED BY <2>4, <2>5, <2>6
<1> HIDE DEF H
<1>3. Cardinality(D) \in H
  BY <1>1, <1>2, InductionOnNat, FS_CardinalityType
<1> QED BY <1>3 DEF H

(* Nothing but zeros adds up to zero.                                       *)
LEMMA SumOfZeros ==
  ASSUME NEW D, IsFiniteSet(D), NEW f \in [D -> Int], \A x \in D : f[x] = 0
  PROVE  SumOver(f) = 0
<1> DEFINE G == {S \in SUBSET D : SumOver([x \in S |-> f[x]]) = 0}
<1>1. {} \in G
  BY SumOfNone
<1>2. ASSUME NEW S \in SUBSET D, NEW x \in D \ S, S \in G PROVE S \cup {x} \in G
  <2> DEFINE less == [y \in S |-> f[y]]
             more == [y \in S \cup {x} |-> f[y]]
  <2>1. OneMore(S, less, x, more)
    BY FS_Subset DEF OneMore
  <2>2. SumOver(less) = 0 /\ more[x] = 0
    BY <1>2
  <2> HIDE DEF less, more
  <2>3. SumOver(more) = SumOver(less) + more[x]
    BY <2>1, SumPutIn
  <2> QED BY <2>2, <2>3 DEF more
<1> HIDE DEF G
<1>3. D \in G
  BY <1>1, <1>2, InductionOnSubsets
<1>4. f = [x \in D |-> f[x]]
  OBVIOUS
<1> QED BY <1>3, <1>4 DEF G

(* A sum is the same under other names for its summands.                    *)
LEMMA SumRenamed ==
  ASSUME NEW D, IsFiniteSet(D), NEW E, NEW f \in [D -> Int], NEW g \in [E -> Int],
         NEW h \in [D -> E], \A y \in E : \E x \in D : h[x] = y,
         \A x, z \in D : h[x] = h[z] => x = z,
         \A x \in D : f[x] = g[h[x]]
  PROVE  SumOver(f) = SumOver(g)
<1> DEFINE image(S) == {h[x] : x \in S}
           G == {S \in SUBSET D : /\ IsFiniteSet(image(S))
                                  /\ SumOver([x \in S |-> f[x]]) =
                                       SumOver([y \in image(S) |-> g[y]])}
<1>1. {} \in G
  <2>1. image({}) = {}
    OBVIOUS
  <2>2. SumOver([x \in {} |-> f[x]]) = 0 /\ SumOver([y \in {} |-> g[y]]) = 0
    BY SumOfNone
  <2> QED BY <2>1, <2>2, FS_EmptySet
<1>2. ASSUME NEW S \in SUBSET D, NEW x \in D \ S, S \in G PROVE S \cup {x} \in G
  <2> DEFINE less == [y \in S |-> f[y]]
             more == [y \in S \cup {x} |-> f[y]]
             T == image(S)
             less2 == [y \in T |-> g[y]]
             more2 == [y \in T \cup {h[x]} |-> g[y]]
  <2>1. OneMore(S, less, x, more)
    BY FS_Subset DEF OneMore
  <2>2. /\ IsFiniteSet(T) /\ h[x] \notin T /\ T \subseteq E /\ h[x] \in E
    BY <1>2
  <2>3. OneMore(T, less2, h[x], more2)
    BY <2>2 DEF OneMore
  <2>4. more2[h[x]] = more[x] /\ more[x] \in Int
    OBVIOUS
  <2>5. SumOver(less) = SumOver(less2)
    BY <1>2
  <2>6. image(S \cup {x}) = T \cup {h[x]}
    OBVIOUS
  <2>7. IsFiniteSet(T \cup {h[x]})
    BY <2>2, FS_AddElement
  <2> HIDE DEF less, more, less2, more2, T
  <2>8. SumOver(more) = SumOver(less) + more[x]
    BY <2>1, SumPutIn
  <2>9. SumOver(more2) = SumOver(less2) + more2[h[x]]
    BY <2>3, SumPutIn
  <2>10. SumOver(more) = SumOver(more2)
    BY <2>4, <2>5, <2>8, <2>9
  <2>11. more2 = [y \in image(S \cup {x}) |-> g[y]] /\ IsFiniteSet(image(S \cup {x}))
    BY <2>6, <2>7 DEF more2
  <2> HIDE DEF image
  <2> QED BY <2>10, <2>11 DEF more
<1>3. image(D) = E
  OBVIOUS
<1> HIDE DEF G
<1>4. D \in G
  BY <1>1, <1>2, InductionOnSubsets
<1>5. f = [x \in D |-> f[x]] /\ g = [y \in E |-> g[y]]
  OBVIOUS
<1> QED BY <1>3, <1>4, <1>5 DEF G

(* A set named by a finite set is finite.                                   *)
LEMMA NamedIsFinite ==
  ASSUME NEW D, IsFiniteSet(D), NEW h, DOMAIN h = D
  PROVE  IsFiniteSet({h[x] : x \in D})
<1> DEFINE G == {S \in SUBSET D : IsFiniteSet({h[x] : x \in S})}
<1>1. {} \in G
  BY FS_EmptySet
<1>2. ASSUME NEW S \in SUBSET D, NEW x \in D \ S, S \in G PROVE S \cup {x} \in G
  <2>1. {h[y] : y \in S \cup {x}} = {h[y] : y \in S} \cup {h[x]}
    OBVIOUS
  <2>2. IsFiniteSet({h[y] : y \in S} \cup {h[x]})
    BY <1>2, FS_AddElement
  <2> QED BY <2>1, <2>2
<1> HIDE DEF G
<1>3. D \in G
  BY <1>1, <1>2, InductionOnSubsets
<1> QED BY <1>3 DEF G

-----------------------------------------------------------------------------
(* Sequences that grow.                                                     *)

(* A sequence is one of the values it has.                                  *)
LEMMA SequenceOfItself ==
  ASSUME NEW T, NEW s \in Seq(T)
  PROVE  s \in Seq({s[i] : i \in DOMAIN s})
<1>1. Len(s) \in Nat /\ s = [i \in 1..Len(s) |-> s[i]] /\ DOMAIN s = 1..Len(s)
  OBVIOUS
<1> DEFINE R == {s[i] : i \in DOMAIN s}
<1>2. \A i \in 1..Len(s) : s[i] \in R
  BY <1>1
<1> HIDE DEF R
<1>3. [i \in 1..Len(s) |-> s[i]] \in Seq(R)
  BY <1>1, <1>2
<1> QED BY <1>1, <1>3 DEF R

(* A sequence, of whatever values, has one more at its end.                 *)
OneLast(j, k, row) ==
  j \in Seq({j[i] : i \in DOMAIN j}) /\ k = Append(j, row)

(* Nothing else of it changes.                                              *)
Longer(j, k, row) ==
  /\ IsFiniteSet(DOMAIN j)
  /\ k \in Seq({k[i] : i \in DOMAIN k})
  /\ \E n \in DOMAIN k :
       /\ n \notin DOMAIN j /\ DOMAIN k = DOMAIN j \cup {n} /\ k[n] = row
       /\ \A i \in DOMAIN j : k[i] = j[i]

(* That is what appending does.                                             *)
LEMMA LastComes ==
  ASSUME NEW j, NEW k, NEW row, OneLast(j, k, row)
  PROVE  Longer(j, k, row)
<1> DEFINE S == {j[i] : i \in DOMAIN j}
<1>1. j \in Seq(S) /\ k = Append(j, row)
  BY DEF OneLast
<1> HIDE DEF S
<1>2. j \in Seq(S \cup {row})
  BY <1>1
<1>3. k \in Seq(S \cup {row})
  BY <1>1, <1>2
<1> DEFINE n == Len(j)
<1>4. n \in Nat /\ DOMAIN j = 1..n
  BY <1>2
<1>5. DOMAIN k = 1..(n + 1) /\ k[n + 1] = row
  BY <1>1, <1>2
<1>6. \A i \in 1..n : k[i] = j[i]
  BY <1>1, <1>2
<1> HIDE DEF n
<1>7. 1..(n + 1) = 1..n \cup {n + 1} /\ n + 1 \notin 1..n /\ n + 1 \in 1..(n + 1)
  BY <1>4
<1>8. k \in Seq({k[i] : i \in DOMAIN k})
  BY <1>3, SequenceOfItself
<1>9. IsFiniteSet(1..n)
  BY <1>4, FS_Interval
<1> QED BY <1>4, <1>5, <1>6, <1>7, <1>8, <1>9 DEF Longer

(* Concat puts sequences one after the other: the function it recurs by.    *)
Concats(seqs) ==
  CHOOSE upTo : upTo = [i \in 0..Len(seqs) |-> IF i = 0 THEN <<>> ELSE upTo[i - 1] \o seqs[i]]

(* Concat is what that function gives at the end.                           *)
LEMMA ConcatIs ==
  ASSUME NEW seqs
  PROVE  Concat(seqs) = Concats(seqs)[Len(seqs)]
BY DEF Concat, Concats

(* There is such a function: one sequence more at a time.                   *)
LEMMA ConcatRecurs ==
  ASSUME NEW seqs, Len(seqs) \in Nat
  PROVE  \A i \in 0..Len(seqs) :
           Concats(seqs)[i] = IF i = 0 THEN <<>> ELSE Concats(seqs)[i - 1] \o seqs[i]
<1> DEFINE next(f, i) == IF i = 0 THEN <<>> ELSE f[i - 1] \o seqs[i]
           solves(k, f) == f = [i \in 0..k |-> next(f, i)]
           G == {k \in Nat : \E f : solves(k, f)}
<1>1. 0 \in G
  <2> DEFINE f == [i \in 0..0 |-> <<>>]
  <2>1. f = [i \in 0..0 |-> next(f, i)]
    <3>1. \A i \in 0..0 : i = 0
      OBVIOUS
    <3>2. \A i \in 0..0 : next(f, i) = <<>>
      BY <3>1
    <3> QED BY <3>2
  <2>2. solves(0, f)
    BY <2>1
  <2> HIDE DEF solves, f
  <2>3. \E h : solves(0, h)
    BY <2>2
  <2> QED BY <2>3
<1>2. ASSUME NEW k \in Nat, k \in G PROVE k + 1 \in G
  <2>1. PICK f : solves(k, f)
    BY <1>2
  <2> DEFINE g == [i \in 0..(k + 1) |-> next(f, i)]
  <2>2. \A i \in 0..k : g[i] = f[i]
    <3>1. \A i \in 0..k : i \in 0..(k + 1)
      OBVIOUS
    <3>2. f = [i \in 0..k |-> next(f, i)]
      BY <2>1
    <3> HIDE DEF next
    <3>3. \A i \in 0..k : f[i] = next(f, i)
      BY <3>2
    <3> QED BY <3>1, <3>3
  <2>3. \A i \in 0..(k + 1) : next(g, i) = next(f, i)
    <3>1. \A i \in 0..(k + 1) : i # 0 => i - 1 \in 0..k
      OBVIOUS
    <3> HIDE DEF g
    <3> QED BY <2>2, <3>1
  <2>4. g = [i \in 0..(k + 1) |-> next(g, i)]
    <3> DEFINE h == [i \in 0..(k + 1) |-> next(g, i)]
    <3>1. g = h
      <4>1. \A i \in 0..(k + 1) : g[i] = next(f, i)
        OBVIOUS
      <4>2. \A i \in 0..(k + 1) : h[i] = next(g, i)
        OBVIOUS
      <4>3. g = [i \in 0..(k + 1) |-> g[i]] /\ h = [i \in 0..(k + 1) |-> h[i]]
        OBVIOUS
      <4> HIDE DEF g, h, next
      <4> QED BY <2>3, <4>1, <4>2, <4>3
    <3> QED BY <3>1
  <2>5. \E h : solves(k + 1, h)
    <3>1. solves(k + 1, g)
      BY <2>4
    <3> HIDE DEF solves, g
    <3> QED BY <3>1
  <2> HIDE DEF solves
  <2> QED BY <2>5
<1> HIDE DEF G
<1>3. Len(seqs) \in G
  BY <1>1, <1>2, InductionOnNat
<1>4. \E f : solves(Len(seqs), f)
  BY <1>3 DEF G
<1>5. Concats(seqs) = CHOOSE f : solves(Len(seqs), f)
  BY DEF Concats
<1>6. solves(Len(seqs), Concats(seqs))
  <2> HIDE DEF solves
  <2> QED BY <1>4, <1>5
<1> DEFINE F == Concats(seqs)
<1>7. F = [i \in 0..Len(seqs) |-> next(F, i)]
  BY <1>6
<1> HIDE DEF F, next
<1>8. \A i \in 0..Len(seqs) : F[i] = next(F, i)
  BY <1>7
<1> QED BY <1>8 DEF F, next

(* Sequence by sequence: none at first, then one more each.                 *)
LEMMA ConcatGrows ==
  ASSUME NEW seqs, Len(seqs) \in Nat
  PROVE  /\ Concats(seqs)[0] = <<>>
         /\ \A i \in Nat : i + 1 <= Len(seqs) =>
              i + 1 \in 1..Len(seqs) /\ Concats(seqs)[i + 1] = Concats(seqs)[i] \o seqs[i + 1]
<1>1. Concats(seqs)[0] = <<>>
  BY ConcatRecurs
<1>2. ASSUME NEW i \in Nat, i + 1 <= Len(seqs)
      PROVE  i + 1 \in 1..Len(seqs) /\ Concats(seqs)[i + 1] = Concats(seqs)[i] \o seqs[i + 1]
  <2>1. i + 1 \in 0..Len(seqs) /\ i + 1 # 0 /\ (i + 1) - 1 = i /\ i + 1 \in 1..Len(seqs)
    BY <1>2
  <2> QED BY <2>1, ConcatRecurs
<1> QED BY <1>1, <1>2

(* Sequences of elements of S make one, ...                                 *)
LEMMA ConcatIsSeq ==
  ASSUME NEW S, NEW seqs \in Seq(Seq(S))
  PROVE  Concat(seqs) \in Seq(S)
<1> DEFINE G == {i \in Nat : i <= Len(seqs) => Concats(seqs)[i] \in Seq(S)}
<1>0. Len(seqs) \in Nat /\ \A i \in 1..Len(seqs) : seqs[i] \in Seq(S)
  OBVIOUS
<1>1. 0 \in G
  <2>1. << >> \in Seq(S)
    OBVIOUS
  <2> QED BY <1>0, <2>1, ConcatGrows
<1>2. ASSUME NEW i \in Nat, i \in G PROVE i + 1 \in G
  <2>1. SUFFICES ASSUME i + 1 <= Len(seqs) PROVE Concats(seqs)[i + 1] \in Seq(S)
    OBVIOUS
  <2>2. i + 1 \in 1..Len(seqs) /\ Concats(seqs)[i + 1] = Concats(seqs)[i] \o seqs[i + 1]
    BY <1>0, <2>1, ConcatGrows
  <2>3. Concats(seqs)[i] \in Seq(S) /\ seqs[i + 1] \in Seq(S)
    BY <1>0, <1>2, <2>1, <2>2
  <2> QED BY <2>2, <2>3
<1> HIDE DEF G
<1>3. Len(seqs) \in G
  BY <1>0, <1>1, <1>2, InductionOnNat
<1>4. Concats(seqs)[Len(seqs)] \in Seq(S)
  BY <1>0, <1>3 DEF G
<1> QED BY <1>4, ConcatIs

(* ... every element of which comes from one of them, ...                   *)
LEMMA ConcatTakes ==
  ASSUME NEW S, NEW seqs \in Seq(Seq(S)), NEW k \in DOMAIN Concat(seqs)
  PROVE  \E i \in DOMAIN seqs : \E j \in DOMAIN seqs[i] : Concat(seqs)[k] = seqs[i][j]
<1> DEFINE of(x) == \E i \in DOMAIN seqs : \E j \in DOMAIN seqs[i] : x = seqs[i][j]
           all(s) == s \in Seq(S) /\ \A n \in DOMAIN s : of(s[n])
           G == {i \in Nat : i <= Len(seqs) => all(Concats(seqs)[i])}
<1>0. Len(seqs) \in Nat /\ \A i \in 1..Len(seqs) : seqs[i] \in Seq(S)
  OBVIOUS
<1>1. all(<<>>) /\ \A i \in 1..Len(seqs) : all(seqs[i])
  BY <1>0
<1> HIDE DEF of
<1>2. \A s, t : all(s) /\ all(t) => all(s \o t)
  <2>1. SUFFICES ASSUME NEW s, NEW t, all(s), all(t) PROVE all(s \o t)
    OBVIOUS
  <2>2. s \o t \in Seq(S) /\ DOMAIN (s \o t) = 1..(Len(s) + Len(t))
    BY <2>1
  <2>3. ASSUME NEW n \in 1..(Len(s) + Len(t)) PROVE of((s \o t)[n])
    <3>1. CASE n <= Len(s)
      <4>1. (s \o t)[n] = s[n] /\ n \in DOMAIN s
        BY <2>1, <3>1
      <4> QED BY <2>1, <4>1
    <3>2. CASE ~(n <= Len(s))
      <4>1. (s \o t)[n] = t[n - Len(s)] /\ n - Len(s) \in DOMAIN t
        BY <2>1, <3>2
      <4> QED BY <2>1, <4>1
    <3> QED BY <3>1, <3>2
  <2> QED BY <2>2, <2>3
<1> HIDE DEF all
<1>3. 0 \in G
  BY <1>0, <1>1, ConcatGrows
<1>4. ASSUME NEW i \in Nat, i \in G PROVE i + 1 \in G
  <2>1. SUFFICES ASSUME i + 1 <= Len(seqs) PROVE all(Concats(seqs)[i + 1])
    OBVIOUS
  <2>2. i + 1 \in 1..Len(seqs) /\ Concats(seqs)[i + 1] = Concats(seqs)[i] \o seqs[i + 1]
    BY <1>0, <2>1, ConcatGrows
  <2>3. all(Concats(seqs)[i]) /\ all(seqs[i + 1])
    BY <1>0, <1>1, <1>4, <2>1, <2>2
  <2> QED BY <1>2, <2>2, <2>3
<1> HIDE DEF G
<1>5. Len(seqs) \in G
  BY <1>0, <1>3, <1>4, InductionOnNat
<1>6. all(Concat(seqs))
  BY <1>0, <1>5, ConcatIs DEF G
<1> QED BY <1>6 DEF all, of

(* ... and that holds every element of each.                                *)
LEMMA ConcatHolds ==
  ASSUME NEW S, NEW seqs \in Seq(Seq(S)), NEW g \in DOMAIN seqs, NEW j \in DOMAIN seqs[g]
  PROVE  \E k \in DOMAIN Concat(seqs) : Concat(seqs)[k] = seqs[g][j]
<1> DEFINE x == seqs[g][j]
           in(s) == s \in Seq(S) /\ \E n \in DOMAIN s : s[n] = x
           G == {i \in Nat : /\ i <= Len(seqs) => Concats(seqs)[i] \in Seq(S)
                             /\ i \in g..Len(seqs) => in(Concats(seqs)[i])}
<1>0. /\ Len(seqs) \in Nat /\ \A i \in 1..Len(seqs) : seqs[i] \in Seq(S)
      /\ g \in 1..Len(seqs) /\ in(seqs[g])
  OBVIOUS
<1> HIDE DEF x
<1>1. \A s, t \in Seq(S) : in(s) \/ in(t) => in(s \o t)
  <2>1. SUFFICES ASSUME NEW s \in Seq(S), NEW t \in Seq(S), in(s) \/ in(t)
                 PROVE  in(s \o t)
    <3> HIDE DEF in
    <3> QED OBVIOUS
  <2>2. DOMAIN (s \o t) = 1..(Len(s) + Len(t)) /\ s \o t \in Seq(S)
    OBVIOUS
  <2>3. CASE in(s)
    <3>1. PICK n \in DOMAIN s : s[n] = x
      BY <2>3
    <3>2. n \in 1..(Len(s) + Len(t)) /\ (s \o t)[n] = s[n]
      OBVIOUS
    <3> QED BY <2>2, <3>1, <3>2
  <2>4. CASE in(t)
    <3>1. PICK n \in DOMAIN t : t[n] = x
      BY <2>4
    <3>2. n \in 1..Len(t) /\ Len(s) \in Nat /\ Len(t) \in Nat
      BY <3>1
    <3>3. Len(s) + n \in 1..(Len(s) + Len(t)) /\ ~(Len(s) + n <= Len(s))
                                             /\ (Len(s) + n) - Len(s) = n
      BY <3>2
    <3>4. (s \o t)[Len(s) + n] = t[n]
      BY <3>3
    <3> QED BY <2>2, <3>1, <3>3, <3>4
  <2> QED BY <2>1, <2>3, <2>4
<1>2. 0 \in G
  <2>1. Concats(seqs)[0] = <<>>
    BY <1>0, ConcatGrows
  <2>2. <<>> \in Seq(S)
    OBVIOUS
  <2>3. 0 \notin g..Len(seqs)
    BY <1>0
  <2> QED BY <2>1, <2>2, <2>3
<1>3. ASSUME NEW i \in Nat, i \in G PROVE i + 1 \in G
  <2>1. CASE i + 1 <= Len(seqs)
    <3>1. i + 1 \in 1..Len(seqs) /\ Concats(seqs)[i + 1] = Concats(seqs)[i] \o seqs[i + 1]
      BY <1>0, <2>1, ConcatGrows
    <3>2. Concats(seqs)[i] \in Seq(S) /\ seqs[i + 1] \in Seq(S)
      BY <1>0, <1>3, <2>1, <3>1
    <3>3. i + 1 \in g..Len(seqs) => in(Concats(seqs)[i]) \/ in(seqs[i + 1])
      <4>1. CASE i + 1 = g
        BY <1>0, <4>1
      <4>2. CASE i + 1 # g /\ i + 1 \in g..Len(seqs)
        <5>1. i \in g..Len(seqs)
          BY <1>0, <4>2
        <5> QED BY <1>3, <5>1
      <4> QED BY <4>1, <4>2
    <3> HIDE DEF in
    <3>4. i + 1 \in g..Len(seqs) => in(Concats(seqs)[i + 1])
      BY <1>1, <3>1, <3>2, <3>3
    <3>5. Concats(seqs)[i + 1] \in Seq(S)
      BY <3>1, <3>2
    <3> QED BY <3>4, <3>5
  <2>2. CASE ~(i + 1 <= Len(seqs))
    BY <1>0, <2>2
  <2> QED BY <2>1, <2>2
<1> HIDE DEF G
<1>4. Len(seqs) \in G
  BY <1>0, <1>2, <1>3, InductionOnNat
<1>5. in(Concats(seqs)[Len(seqs)])
  <2>1. Len(seqs) \in g..Len(seqs)
    BY <1>0
  <2> QED BY <1>4, <2>1 DEF G
<1> QED BY <1>5, ConcatIs DEF x

-----------------------------------------------------------------------------
(* The overviews laid out.                                                 *)

(* The nodes of some columns, and that a node stands where it is said to.   *)
Standing(columns) == UNION {Range(columns[i]) : i \in DOMAIN columns}
Grids(columns) == Seq(Seq(Standing(columns)))
Located(c, p) ==
  /\ \A i \in DOMAIN c : \A j \in DOMAIN c[i] :
       c[i][j] \in DOMAIN p /\ p[c[i][j]] = <<i, j>>
  /\ \A id \in DOMAIN p : \E i \in DOMAIN c : \E j \in DOMAIN c[i] : c[i][j] = id

(* The columns as authored, and the crossings they have.                    *)
Authored == state.input.columns
AuthoredCrossings == L!Crossings(L!Positions(Authored), state.links)

(* A pair of the sweep whose exchange is no improvement.                    *)
NoBetter(k) ==
  LET pair == L!Sweep(state.columns)[k] IN
  L!Crossings(L!Moved(state.position, state.columns, pair[1], pair[2]), state.links)
    >= state.best

LayoutFields == {"input", "columns", "position", "links", "best", "next", "improved", "done"}
ColumnsKept ==
  /\ state.input \in LayoutInputs
  /\ state.columns \in Grids(Authored)
  /\ Len(state.columns) = Len(Authored)
  /\ \A i \in DOMAIN state.columns :
       /\ Len(state.columns[i]) = Len(Authored[i])
       /\ Range(state.columns[i]) = Range(Authored[i])
  /\ Located(state.columns, state.position)
CrossingsKept ==
  /\ IsFiniteSet(state.links)
  /\ state.best = L!Crossings(state.position, state.links)
  /\ state.best <= AuthoredCrossings
  /\ state.columns # Authored => state.best < AuthoredCrossings
SweepTried ==
  /\ state.next \in Nat \ {0}
  /\ state.improved \in BOOLEAN /\ state.done \in BOOLEAN
  /\ ~state.improved =>
       \A k \in DOMAIN L!Sweep(state.columns) : k < state.next => NoBetter(k)
  /\ state.done => ~state.improved /\ state.next > Len(L!Sweep(state.columns))
LayoutGood ==
  DOMAIN state = LayoutFields /\ ColumnsKept /\ CrossingsKept /\ SweepTried

(* The layout's own copies of the library's operators are the library's.    *)
LEMMA LayoutOperators ==
  /\ \A s : L!Range(s) = Range(s)
  /\ \A s : L!Concat(s) = Concat(s)
  /\ \A S : L!Cardinality(S) = Cardinality(S)
BY DEF L!Range, Range, L!Concat, Concat, L!Cardinality, Cardinality

(* A finite sequence has finitely many elements.                            *)
LEMMA ElementsAreFinite ==
  ASSUME NEW S, NEW s \in Seq(S)
  PROVE  IsFiniteSet(Range(s))
<1>1. Len(s) \in Nat /\ DOMAIN s = 1..Len(s)
  OBVIOUS
<1>2. IsFiniteSet(1..Len(s))
  BY <1>1, FS_Interval
<1>3. Range(s) = {s[i] : i \in 1..Len(s)}
  BY <1>1 DEF Range
<1>4. [i \in 1..Len(s) |-> s[i]] \in Surjection(1..Len(s), Range(s))
  BY <1>3 DEF Surjection
<1> QED BY <1>2, <1>4, FS_Surjection

(* Of finitely many links finitely many pairs cross.                        *)
LEMMA CrossingsAreCounted ==
  ASSUME NEW p, NEW links, IsFiniteSet(links)
  PROVE  L!Crossings(p, links) \in Nat
<1> DEFINE pairs == {q \in links \X links :
    /\ p[q[1][1]][1] = p[q[2][1]][1]
    /\ p[q[1][1]][2] < p[q[2][1]][2]
    /\ p[q[1][2]][2] > p[q[2][2]][2]}
<1>1. L!Crossings(p, links) = Cardinality(pairs)
  BY LayoutOperators DEF L!Crossings
<1>2. IsFiniteSet(links \X links) /\ pairs \subseteq links \X links
  BY FS_Product
<1> HIDE DEF pairs
<1>3. IsFiniteSet(pairs)
  BY <1>2, FS_Subset
<1> QED BY <1>1, <1>3, FS_CardinalityType

(* Every pair of a sweep is a node of a column that is not its first.       *)
LEMMA SweepPairs ==
  ASSUME NEW S, NEW c \in Seq(Seq(S))
  PROVE  /\ L!Sweep(c) \in Seq(Nat \X Nat)
         /\ \A k \in DOMAIN L!Sweep(c) :
              \E i \in DOMAIN c : \E j \in 2..Len(c[i]) : L!Sweep(c)[k] = <<i, j>>
<1> DEFINE rows == [i \in DOMAIN c |-> [k \in 1..(Len(c[i]) - 1) |-> <<i, k + 1>>]]
<1>1. L!Sweep(c) = Concat(rows)
  BY LayoutOperators DEF L!Sweep
<1>2. DOMAIN c = 1..Len(c) /\ Len(c) \in Nat /\ \A i \in DOMAIN c : c[i] \in Seq(S)
  OBVIOUS
<1>3. \A i \in DOMAIN c : /\ rows[i] \in Seq(Nat \X Nat)
                          /\ Len(c[i]) \in Nat
                          /\ DOMAIN rows[i] = 1..(Len(c[i]) - 1)
                          /\ \A k \in DOMAIN rows[i] : rows[i][k] = <<i, k + 1>>
  <2>1. ASSUME NEW i \in DOMAIN c
        PROVE  [k \in 1..(Len(c[i]) - 1) |-> <<i, k + 1>>] \in Seq(Nat \X Nat)
    <3>1. Len(c[i]) \in Nat
      BY <1>2
    <3> DEFINE n == Len(c[i]) - 1
    <3>2. CASE Len(c[i]) = 0
      <4>1. 1..n = {}
        BY <3>2
      <4>2. 1..n = 1..0
        BY <3>2
      <4> QED BY <4>2
    <3>3. CASE Len(c[i]) # 0
      BY <1>2, <3>1, <3>3
    <3> QED BY <3>2, <3>3
  <2> QED BY <1>2, <2>1
<1>4. rows \in Seq(Seq(Nat \X Nat)) /\ DOMAIN rows = DOMAIN c
  BY <1>2, <1>3
<1> HIDE DEF rows
<1>5. L!Sweep(c) \in Seq(Nat \X Nat)
  BY <1>1, <1>4, ConcatIsSeq
<1>6. ASSUME NEW k \in DOMAIN L!Sweep(c)
      PROVE  \E i \in DOMAIN c : \E j \in 2..Len(c[i]) : L!Sweep(c)[k] = <<i, j>>
  <2>1. PICK i \in DOMAIN rows : \E j \in DOMAIN rows[i] : Concat(rows)[k] = rows[i][j]
    BY <1>1, <1>4, <1>6, ConcatTakes
  <2>2. PICK j \in DOMAIN rows[i] : Concat(rows)[k] = rows[i][j]
    BY <2>1
  <2>3. i \in DOMAIN c /\ j \in 1..(Len(c[i]) - 1) /\ Len(c[i]) \in Nat
    BY <1>3, <1>4
  <2>4. j + 1 \in 2..Len(c[i])
    BY <2>3
  <2>5. L!Sweep(c)[k] = <<i, j + 1>>
    BY <1>1, <1>3, <2>2, <2>3
  <2> QED BY <2>3, <2>4, <2>5
<1> QED BY <1>5, <1>6

(* Positions finds a node where it stands.                                  *)
LEMMA PositionsLocate ==
  ASSUME NEW c, c \in Grids(c),
         \A i, k \in DOMAIN c : \A j \in DOMAIN c[i], n \in DOMAIN c[k] :
           c[i][j] = c[k][n] => i = k /\ j = n
  PROVE  Located(c, L!Positions(c))
<1> DEFINE p == L!Positions(c)
           column(id) == CHOOSE i \in DOMAIN c : id \in L!Range(c[i])
           row(id) == CHOOSE j \in DOMAIN c[column(id)] : c[column(id)][j] = id
<1>1. \A i \in DOMAIN c : c[i] \in Seq(Standing(c)) /\ DOMAIN c[i] = 1..Len(c[i])
  BY DEF Grids
<1>2. DOMAIN p = Standing(c)
  BY LayoutOperators DEF L!Positions, Standing
<1>3. \A id \in DOMAIN p : p[id] = <<column(id), row(id)>>
  BY DEF L!Positions
<1>4. \A id : id \in Standing(c) <=> \E i \in DOMAIN c : \E j \in DOMAIN c[i] : c[i][j] = id
  BY DEF Standing, Range
<1> HIDE DEF p
<1>5. ASSUME NEW i \in DOMAIN c, NEW j \in DOMAIN c[i]
      PROVE  c[i][j] \in DOMAIN p /\ p[c[i][j]] = <<i, j>>
  <2> DEFINE id == c[i][j]
  <2>1. id \in DOMAIN p
    BY <1>2, <1>4
  <2>2. \A k \in DOMAIN c : id \in L!Range(c[k]) <=> \E n \in DOMAIN c[k] : c[k][n] = id
    BY <1>1, LayoutOperators DEF Range
  <2>3. column(id) = i
    <3>1. id \in L!Range(c[i])
      BY <2>2
    <3>2. \A k \in DOMAIN c : id \in L!Range(c[k]) => k = i
      BY <2>2
    <3> QED BY <3>1, <3>2
  <2>4. row(id) = j
    <3>1. \A n \in DOMAIN c[i] : c[i][n] = id => n = j
      OBVIOUS
    <3> HIDE DEF column
    <3> QED BY <2>3, <3>1
  <2> QED BY <1>3, <2>1, <2>3, <2>4
<1> QED BY <1>2, <1>4, <1>5 DEF Located, p

(* A function on 1..n is a sequence of that length.                         *)
LEMMA SequenceOf ==
  ASSUME NEW T, NEW n \in Nat, NEW f \in [1..n -> T]
  PROVE  f \in Seq(T) /\ Len(f) = n /\ DOMAIN f = 1..n
OBVIOUS

(* Swapping two neighbours of a column keeps what the columns hold, ...     *)
LEMMA ExchangeKeeps ==
  ASSUME NEW S, NEW c \in Seq(Seq(S)), NEW i \in DOMAIN c, NEW j \in 2..Len(c[i])
  PROVE  LET d == L!Exchange(c, i, j) IN
         /\ d \in Seq(Seq(S)) /\ Len(d) = Len(c)
         /\ \A k \in DOMAIN d : Len(d[k]) = Len(c[k]) /\ Range(d[k]) = Range(c[k])
         /\ \A k \in DOMAIN c : k # i => d[k] = c[k]
         /\ \A n \in DOMAIN c[i] :
              d[i][n] = IF n = j - 1 THEN c[i][j] ELSE IF n = j THEN c[i][j - 1] ELSE c[i][n]
<1> DEFINE d == L!Exchange(c, i, j)
           row == c[i]
           new == [row EXCEPT ![j - 1] = row[j], ![j] = row[j - 1]]
<1>1. row \in Seq(S) /\ Len(row) \in Nat /\ DOMAIN row = 1..Len(row)
  OBVIOUS
<1>2. j \in DOMAIN row /\ j - 1 \in DOMAIN row /\ j # j - 1
  BY <1>1
<1>3. /\ DOMAIN new = DOMAIN row
      /\ new[j - 1] = row[j] /\ new[j] = row[j - 1]
      /\ \A n \in DOMAIN row : n \notin {j - 1, j} => new[n] = row[n]
  BY <1>2
<1>4. new \in Seq(S) /\ Len(new) = Len(row)
  <2> DEFINE m == Len(row)
  <2>1. \A n \in 1..m : row[n] \in S
    BY <1>1
  <2>2. DOMAIN new = 1..m /\ \A n \in 1..m : new[n] \in S
    BY <1>1, <1>2, <1>3, <2>1
  <2>3. new = [n \in DOMAIN row |-> new[n]]
    OBVIOUS
  <2>4. m \in Nat /\ DOMAIN row = 1..m
    BY <1>1
  <2> HIDE DEF new, m
  <2>5. new \in [1..m -> S]
    BY <2>2, <2>3, <2>4
  <2>6. new \in Seq(S) /\ Len(new) = m
    BY <2>4, <2>5, SequenceOf
  <2> QED BY <2>6 DEF m
<1>5. d = [c EXCEPT ![i] = new]
  <2>1. d = [c EXCEPT ![i] = [[c[i] EXCEPT ![j - 1] = row[j]] EXCEPT ![j] = row[j - 1]]]
    BY DEF L!Exchange
  <2> QED BY <2>1
<1>6. Range(new) = Range(row)
  <2>1. \A n \in DOMAIN new : \E k \in DOMAIN row : new[n] = row[k]
    BY <1>2, <1>3
  <2>2. \A k \in DOMAIN row : \E n \in DOMAIN new : new[n] = row[k]
    BY <1>2, <1>3
  <2> HIDE DEF new, row
  <2>3. \A v : v \in Range(new) <=> v \in Range(row)
    BY <2>1, <2>2 DEF Range
  <2> QED BY <2>3
<1> HIDE DEF new, d
<1>7. d \in Seq(Seq(S)) /\ Len(d) = Len(c) /\ DOMAIN d = DOMAIN c
  <2>1. c \in [1..Len(c) -> Seq(S)] /\ Len(c) \in Nat
    OBVIOUS
  <2>2. d \in [1..Len(c) -> Seq(S)]
    BY <1>4, <1>5, <2>1
  <2>3. d \in Seq(Seq(S)) /\ Len(d) = Len(c) /\ DOMAIN d = 1..Len(c)
    BY <2>1, <2>2, SequenceOf
  <2> QED BY <2>1, <2>3
<1>8. d[i] = new /\ \A k \in DOMAIN c : k # i => d[k] = c[k]
  BY <1>5
<1>9. \A k \in DOMAIN d : Len(d[k]) = Len(c[k]) /\ Range(d[k]) = Range(c[k])
  BY <1>4, <1>6, <1>7, <1>8
<1> QED BY <1>2, <1>3, <1>7, <1>8, <1>9 DEF d

(* ... and moving them says where they stand now.                           *)
LEMMA MovedLocates ==
  ASSUME NEW S, NEW c \in Seq(Seq(S)), NEW p, Located(c, p),
         NEW i \in DOMAIN c, NEW j \in 2..Len(c[i])
  PROVE  Located(L!Exchange(c, i, j), L!Moved(p, c, i, j))
<1> DEFINE d == L!Exchange(c, i, j)
           q == L!Moved(p, c, i, j)
           x == c[i][j - 1]
           y == c[i][j]
<1>1. /\ d \in Seq(Seq(S)) /\ Len(d) = Len(c)
      /\ \A k \in DOMAIN d : Len(d[k]) = Len(c[k])
      /\ \A k \in DOMAIN c : k # i => d[k] = c[k]
      /\ \A n \in DOMAIN c[i] :
           d[i][n] = IF n = j - 1 THEN y ELSE IF n = j THEN x ELSE c[i][n]
  BY ExchangeKeeps
<1>2. /\ c[i] \in Seq(S) /\ Len(c[i]) \in Nat /\ DOMAIN c[i] = 1..Len(c[i])
      /\ j \in DOMAIN c[i] /\ j - 1 \in DOMAIN c[i] /\ j # j - 1
  OBVIOUS
<1>3. /\ DOMAIN d = DOMAIN c
      /\ \A k \in DOMAIN c : DOMAIN d[k] = DOMAIN c[k]
  <2>1. DOMAIN c = 1..Len(c) /\ \A k \in DOMAIN c : DOMAIN c[k] = 1..Len(c[k])
    OBVIOUS
  <2> HIDE DEF d
  <2>2. DOMAIN d = 1..Len(d) /\ \A k \in DOMAIN d : DOMAIN d[k] = 1..Len(d[k])
    BY <1>1
  <2> QED BY <1>1, <2>1, <2>2
<1>4. /\ \A k \in DOMAIN c : \A n \in DOMAIN c[k] : c[k][n] \in DOMAIN p /\ p[c[k][n]] = <<k, n>>
      /\ \A id \in DOMAIN p : \E k \in DOMAIN c : \E n \in DOMAIN c[k] : c[k][n] = id
  BY DEF Located
<1>5. x \in DOMAIN p /\ y \in DOMAIN p /\ p[x] = <<i, j - 1>> /\ p[y] = <<i, j>> /\ x # y
  <2>1. x \in DOMAIN p /\ y \in DOMAIN p /\ p[x] = <<i, j - 1>> /\ p[y] = <<i, j>>
    BY <1>2, <1>4
  <2>2. <<i, j - 1>> # <<i, j>>
    BY <1>2
  <2> QED BY <2>1, <2>2
<1>6. /\ DOMAIN q = DOMAIN p /\ q[x] = <<i, j>> /\ q[y] = <<i, j - 1>>
      /\ \A id \in DOMAIN p : id # x /\ id # y => q[id] = p[id]
  BY <1>5 DEF L!Moved
<1> HIDE DEF d, q, x, y
<1>7. ASSUME NEW k \in DOMAIN d, NEW n \in DOMAIN d[k]
      PROVE  d[k][n] \in DOMAIN q /\ q[d[k][n]] = <<k, n>>
  <2>1. k \in DOMAIN c /\ n \in DOMAIN c[k]
    BY <1>3
  <2>2. CASE k # i
    <3>1. d[k][n] = c[k][n] /\ p[c[k][n]] = <<k, n>> /\ c[k][n] \in DOMAIN p
      BY <1>1, <1>4, <2>1, <2>2
    <3>2. c[k][n] # x /\ c[k][n] # y
      BY <1>5, <2>2, <3>1
    <3> QED BY <1>6, <3>1, <3>2
  <2>3. CASE k = i /\ n = j - 1
    BY <1>1, <1>2, <1>5, <1>6, <2>3
  <2>4. CASE k = i /\ n = j
    BY <1>1, <1>2, <1>5, <1>6, <2>4
  <2>5. CASE k = i /\ n # j - 1 /\ n # j
    <3>1. d[k][n] = c[k][n] /\ p[c[k][n]] = <<k, n>> /\ c[k][n] \in DOMAIN p
      BY <1>1, <1>4, <2>1, <2>5
    <3>2. c[k][n] # x /\ c[k][n] # y
      BY <1>5, <2>5, <3>1
    <3> QED BY <1>6, <3>1, <3>2
  <2> QED BY <2>2, <2>3, <2>4, <2>5
<1>8. ASSUME NEW id \in DOMAIN q
      PROVE  \E k \in DOMAIN d : \E n \in DOMAIN d[k] : d[k][n] = id
  <2>1. PICK k \in DOMAIN c : \E n \in DOMAIN c[k] : c[k][n] = id
    BY <1>4, <1>6
  <2>2. PICK n \in DOMAIN c[k] : c[k][n] = id
    BY <2>1
  <2>3. CASE k # i
    BY <1>1, <1>3, <2>2, <2>3
  <2>4. CASE k = i
    <3>1. d[i][j] = x /\ d[i][j - 1] = y
      BY <1>1, <1>2
    <3>2. CASE n = j
      BY <1>2, <1>3, <2>2, <2>4, <3>1, <3>2 DEF y
    <3>3. CASE n = j - 1
      BY <1>2, <1>3, <2>2, <2>4, <3>1, <3>3 DEF x
    <3>4. CASE n # j /\ n # j - 1
      BY <1>1, <1>3, <2>2, <2>4, <3>4
    <3> QED BY <3>2, <3>3, <3>4
  <2> QED BY <2>3, <2>4
<1> QED BY <1>7, <1>8 DEF Located, d, q

(* What holds of a layout under way holds at the start, ...                 *)
LEMMA LayoutStarts ==
  ASSUME L!LayoutInit
  PROVE  LayoutGood
<1>1. PICK g \in LayoutInputs : \E p \in {L!Positions(g.columns)} :
        state = [input |-> g, columns |-> g.columns, position |-> p,
                 links |-> L!Links(p, g.edges),
                 best |-> L!Crossings(p, L!Links(p, g.edges)),
                 next |-> 1, improved |-> FALSE, done |-> FALSE]
  BY DEF L!LayoutInit
<1>2. /\ DOMAIN state = LayoutFields
      /\ state.input = g /\ state.columns = g.columns
      /\ state.position = L!Positions(g.columns)
      /\ state.links = L!Links(state.position, g.edges)
      /\ state.best = L!Crossings(state.position, state.links)
      /\ state.next = 1 /\ state.improved = FALSE /\ state.done = FALSE
      /\ Authored = g.columns
  BY <1>1 DEF LayoutFields, Authored
<1>3. /\ g.columns \in Grids(g.columns)
      /\ Located(g.columns, L!Positions(g.columns))
      /\ g.edges \in Seq(Range(g.edges))
  <2> DEFINE c == g.columns
  <2>1. /\ c \in Grids(c)
        /\ \A i, k \in DOMAIN c : \A j \in DOMAIN c[i], n \in DOMAIN c[k] :
             c[i][j] = c[k][n] => i = k /\ j = n
        /\ g.edges \in Seq(Range(g.edges))
    BY LayoutAssumption DEF Grids, Standing
  <2> HIDE DEF c
  <2>2. Located(c, L!Positions(c))
    BY <2>1, PositionsLocate
  <2> QED BY <2>1, <2>2 DEF c
<1>4. IsFiniteSet(state.links)
  <2>1. IsFiniteSet(Range(g.edges))
    BY <1>3, ElementsAreFinite
  <2>2. state.links \subseteq Range(g.edges)
    BY <1>2, LayoutOperators DEF L!Links
  <2> QED BY <2>1, <2>2, FS_Subset
<1>5. ColumnsKept
  BY <1>1, <1>2, <1>3 DEF ColumnsKept
<1>6. CrossingsKept
  <2>1. state.best \in Nat
    BY <1>2, <1>4, CrossingsAreCounted
  <2>2. state.best = AuthoredCrossings
    BY <1>2 DEF AuthoredCrossings
  <2> QED BY <1>2, <1>4, <2>1, <2>2 DEF CrossingsKept
<1>7. SweepTried
  <2>1. L!Sweep(state.columns) \in Seq(Nat \X Nat)
    BY <1>2, <1>3, SweepPairs DEF Grids
  <2>2. \A k \in DOMAIN L!Sweep(state.columns) : ~(k < 1)
    BY <2>1
  <2>3. \A k \in DOMAIN L!Sweep(state.columns) : k < state.next => NoBetter(k)
    BY <1>2, <2>2
  <2>4. state.next \in Nat \ {0}
    BY <1>2
  <2> QED BY <1>2, <2>3, <2>4, Zenon DEF SweepTried
<1> QED BY <1>2, <1>5, <1>6, <1>7 DEF LayoutGood

(* ... after a pair was tried, ...                                          *)
LEMMA TryPairKeeps ==
  ASSUME LayoutGood, L!TryPair
  PROVE  LayoutGood'
<1> DEFINE c == state.columns
           sweep == L!Sweep(c)
           pair == sweep[state.next]
           moved == L!Moved(state.position, c, pair[1], pair[2])
           crossings == L!Crossings(moved, state.links)
           swapped == L!Exchange(c, pair[1], pair[2])
<1>0. /\ DOMAIN state = LayoutFields /\ ColumnsKept /\ CrossingsKept /\ SweepTried
      /\ ~state.done /\ state.next <= Len(sweep)
      /\ state' = IF L!Better(crossings)
                  THEN [state EXCEPT !.columns = L!Exchange(@, pair[1], pair[2]),
                                     !.position = moved, !.best = crossings,
                                     !.improved = TRUE, !.next = @ + 1]
                  ELSE [state EXCEPT !.next = @ + 1]
  BY Zenon DEF LayoutGood, L!TryPair
<1>1. /\ sweep \in Seq(Nat \X Nat)
      /\ \A k \in DOMAIN sweep : \E i \in DOMAIN c : \E j \in 2..Len(c[i]) : sweep[k] = <<i, j>>
  BY <1>0, SweepPairs DEF ColumnsKept, Grids
<1>2. /\ Len(sweep) \in Nat /\ DOMAIN sweep = 1..Len(sweep)
      /\ state.next \in Nat \ {0} /\ state.next \in DOMAIN sweep
  BY <1>0, <1>1 DEF SweepTried
<1>3. PICK i \in DOMAIN c : \E j \in 2..Len(c[i]) : pair = <<i, j>>
  BY <1>1, <1>2
<1>4. PICK j \in 2..Len(c[i]) : pair[1] = i /\ pair[2] = j
  BY <1>3
<1>5. crossings \in Nat /\ state.best \in Nat
  BY <1>0, CrossingsAreCounted DEF CrossingsKept
<1> HIDE DEF pair, moved, crossings, swapped
<1>6. CASE L!Better(crossings)
  <2>0. state' = [state EXCEPT !.columns = swapped, !.position = moved, !.best = crossings,
                               !.improved = TRUE, !.next = @ + 1]
    BY <1>0, <1>6 DEF swapped
  <2>1. /\ DOMAIN state' = LayoutFields
        /\ state'.input = state.input /\ state'.links = state.links
        /\ state'.columns = swapped /\ state'.position = moved
        /\ state'.best = crossings /\ state'.improved = TRUE
        /\ state'.next = state.next + 1 /\ state'.done = state.done
    BY <1>0, <2>0 DEF LayoutFields
  <2>2. Authored' = Authored /\ AuthoredCrossings' = AuthoredCrossings
    BY <2>1 DEF Authored, AuthoredCrossings
  <2>3. crossings < state.best
    BY <1>6 DEF L!Better
  <2>4. ColumnsKept'
    <3>1. c \in Seq(Seq(Standing(Authored)))
      BY <1>0 DEF ColumnsKept, Grids
    <3>2. /\ swapped \in Seq(Seq(Standing(Authored))) /\ Len(swapped) = Len(c)
          /\ \A k \in DOMAIN swapped :
               Len(swapped[k]) = Len(c[k]) /\ Range(swapped[k]) = Range(c[k])
      BY <1>4, <3>1, ExchangeKeeps DEF swapped
    <3>3. Located(swapped, moved)
      BY <1>0, <1>4, <3>1, MovedLocates DEF swapped, moved, ColumnsKept
    <3>4. DOMAIN swapped = DOMAIN c
      BY <3>1, <3>2
    <3>5. /\ state.input \in LayoutInputs /\ Len(c) = Len(Authored)
          /\ \A k \in DOMAIN c :
               Len(c[k]) = Len(Authored[k]) /\ Range(c[k]) = Range(Authored[k])
      BY <1>0 DEF ColumnsKept
    <3> HIDE DEF c
    <3>6. \A k \in DOMAIN swapped : Len(swapped[k]) = Len(Authored[k])
                                    /\ Range(swapped[k]) = Range(Authored[k])
      BY <3>2, <3>4, <3>5
    <3> QED BY <2>1, <2>2, <3>2, <3>3, <3>5, <3>6 DEF ColumnsKept, Grids
  <2>5. CrossingsKept'
    <3>1. AuthoredCrossings \in Nat
      BY <1>0, CrossingsAreCounted DEF AuthoredCrossings, CrossingsKept
    <3>2. state.best <= AuthoredCrossings /\ IsFiniteSet(state.links)
      BY <1>0 DEF CrossingsKept
    <3>3. crossings = L!Crossings(moved, state.links)
      BY DEF crossings
    <3>4. crossings < AuthoredCrossings
      BY <1>5, <2>3, <3>1, <3>2
    <3>5. crossings <= AuthoredCrossings
      BY <1>5, <3>1, <3>4
    <3> QED BY <2>1, <2>2, <3>2, <3>3, <3>4, <3>5 DEF CrossingsKept
  <2>6. SweepTried'
    <3>1. state'.next \in Nat \ {0} /\ state'.improved = TRUE /\ state'.done = FALSE
      BY <1>0, <1>2, <2>1 DEF SweepTried
    <3> QED BY <3>1 DEF SweepTried
  <2> QED BY <2>1, <2>4, <2>5, <2>6 DEF LayoutGood
<1>7. CASE ~L!Better(crossings)
  <2>0. state' = [state EXCEPT !.next = @ + 1]
    BY <1>0, <1>7
  <2>1. /\ DOMAIN state' = LayoutFields
        /\ state'.input = state.input /\ state'.links = state.links
        /\ state'.columns = state.columns /\ state'.position = state.position
        /\ state'.best = state.best /\ state'.improved = state.improved
        /\ state'.next = state.next + 1 /\ state'.done = state.done
    BY <1>0, <2>0 DEF LayoutFields
  <2>2. Authored' = Authored /\ AuthoredCrossings' = AuthoredCrossings
    BY <2>1 DEF Authored, AuthoredCrossings
  <2>3. ColumnsKept'
    BY <1>0, <2>1, <2>2 DEF ColumnsKept
  <2>4. CrossingsKept'
    BY <1>0, <2>1, <2>2 DEF CrossingsKept
  <2>5. NoBetter(state.next)
    <3>1. crossings >= state.best
      BY <1>5, <1>7 DEF L!Better
    <3> QED BY <3>1 DEF NoBetter, crossings, moved, pair
  <2>6. SweepTried'
    <3>1. \A k : NoBetter(k)' <=> NoBetter(k)
      BY <2>1 DEF NoBetter
    <3>2. \A k \in DOMAIN sweep : k < state.next + 1 => k < state.next \/ k = state.next
      BY <1>2
    <3>3. ~state.improved => \A k \in DOMAIN sweep : k < state.next => NoBetter(k)
      BY <1>0 DEF SweepTried
    <3>4. ~state.improved => \A k \in DOMAIN sweep : k < state.next + 1 => NoBetter(k)
      BY <2>5, <3>2, <3>3
    <3>5. state.improved \in BOOLEAN /\ ~state.done /\ state.next + 1 \in Nat \ {0}
      BY <1>0, <1>2 DEF SweepTried
    <3>6. L!Sweep(state.columns)' = sweep
      BY <2>1
    <3> HIDE DEF sweep
    <3>7. ~state'.improved => \A k \in DOMAIN sweep : k < state'.next => NoBetter(k)'
      BY <2>1, <3>1, <3>4
    <3> QED BY <1>0, <2>1, <3>5, <3>6, <3>7 DEF SweepTried
  <2> QED BY <2>1, <2>3, <2>4, <2>6 DEF LayoutGood
<1> QED BY <1>6, <1>7

(* ... and at the end of a sweep, ...                                       *)
LEMMA EndSweepKeeps ==
  ASSUME LayoutGood, L!EndSweep
  PROVE  LayoutGood'
<1>0. /\ DOMAIN state = LayoutFields /\ ColumnsKept /\ CrossingsKept /\ SweepTried
      /\ ~state.done /\ state.next > Len(L!Sweep(state.columns))
      /\ state' = IF state.improved
                  THEN [state EXCEPT !.next = 1, !.improved = FALSE]
                  ELSE [state EXCEPT !.done = TRUE]
  BY DEF LayoutGood, L!EndSweep
<1>1. /\ DOMAIN state' = LayoutFields
      /\ state'.input = state.input /\ state'.links = state.links
      /\ state'.columns = state.columns /\ state'.position = state.position
      /\ state'.best = state.best
  BY <1>0 DEF LayoutFields
<1>2. Authored' = Authored /\ AuthoredCrossings' = AuthoredCrossings
  BY <1>1 DEF Authored, AuthoredCrossings
<1>3. ColumnsKept'
  BY <1>0, <1>1, <1>2 DEF ColumnsKept
<1>4. CrossingsKept'
  BY <1>0, <1>1, <1>2 DEF CrossingsKept
<1>5. L!Sweep(state.columns) \in Seq(Nat \X Nat)
  BY <1>0, SweepPairs DEF ColumnsKept, Grids
<1>6. \A k : NoBetter(k)' <=> NoBetter(k)
  BY <1>1 DEF NoBetter
<1>7. SweepTried'
  <2> DEFINE sweep == L!Sweep(state.columns)
  <2>1. sweep' = sweep
    BY <1>1
  <2>2. CASE state.improved
    <3>1. state'.next = 1 /\ state'.improved = FALSE /\ state'.done = state.done
      BY <1>0, <2>2 DEF LayoutFields
    <3>2. \A k \in DOMAIN sweep : ~(k < 1)
      BY <1>5
    <3>3. L!Sweep(state.columns)' = sweep
      BY <2>1
    <3>4. \A k \in DOMAIN sweep : k < state'.next => NoBetter(k)'
      BY <3>1, <3>2
    <3>5. state'.next \in Nat \ {0}
      BY <3>1
    <3>6. state'.done = FALSE
      BY <1>0, <3>1, Zenon DEF SweepTried
    <3> HIDE DEF sweep
    <3> QED BY <3>1, <3>3, <3>4, <3>5, <3>6, Zenon DEF SweepTried
  <2>3. CASE ~state.improved
    <3>1. state'.next = state.next /\ state'.improved = state.improved /\ state'.done = TRUE
      BY <1>0, <2>3 DEF LayoutFields
    <3>2. /\ state.next \in Nat \ {0} /\ state.improved \in BOOLEAN
          /\ \A k \in DOMAIN sweep : k < state.next => NoBetter(k)
      BY <1>0, <2>3 DEF SweepTried
    <3>3. state.next > Len(sweep)
      BY <1>0
    <3>4. L!Sweep(state.columns)' = sweep
      BY <2>1
    <3> HIDE DEF sweep
    <3>5. \A k \in DOMAIN sweep : k < state'.next => NoBetter(k)'
      BY <1>6, <3>1, <3>2
    <3> QED BY <2>3, <3>1, <3>2, <3>3, <3>4, <3>5 DEF SweepTried
  <2> QED BY <1>0, <2>2, <2>3 DEF SweepTried
<1> QED BY <1>1, <1>3, <1>4, <1>7 DEF LayoutGood

(* ... and makes the layout sound.                                          *)
LEMMA GoodLayoutIsSound ==
  ASSUME LayoutGood
  PROVE  L!LayoutSound
<1> DEFINE c == state.columns
<1>0. ColumnsKept /\ CrossingsKept /\ SweepTried
  BY DEF LayoutGood
<1>1. c \in Seq(Seq(Standing(Authored)))
  BY <1>0 DEF ColumnsKept, Grids
<1>2. \A i \in DOMAIN c : Len(c[i]) = Len(Authored[i]) /\ L!Range(c[i]) = L!Range(Authored[i])
  BY <1>0, LayoutOperators DEF ColumnsKept
<1>3. \A id \in DOMAIN state.position :
        c[state.position[id][1]][state.position[id][2]] = id
  BY <1>0 DEF ColumnsKept, Located
<1>4. state.best \in Nat /\ AuthoredCrossings \in Nat
  BY <1>0, CrossingsAreCounted DEF CrossingsKept, AuthoredCrossings
<1>5. state.best <= AuthoredCrossings /\ (AuthoredCrossings = 0 => c = Authored)
  BY <1>0, <1>4 DEF CrossingsKept
<1>6. ASSUME state.done, NEW p \in L!Range(L!Sweep(c))
      PROVE  L!Crossings(L!Moved(state.position, c, p[1], p[2]), state.links) >= state.best
  <2>1. L!Sweep(c) \in Seq(Nat \X Nat)
    BY <1>1, SweepPairs
  <2>2. PICK k \in DOMAIN L!Sweep(c) : p = L!Sweep(c)[k]
    BY <1>6, LayoutOperators DEF Range
  <2>3. k < state.next
    BY <1>0, <1>6, <2>1 DEF SweepTried
  <2>4. NoBetter(k)
    BY <1>0, <1>6, <2>3 DEF SweepTried
  <2> QED BY <2>2, <2>4 DEF NoBetter
<1>7. state.best = L!Crossings(state.position, state.links)
  BY <1>0 DEF CrossingsKept
<1> QED BY <1>2, <1>3, <1>5, <1>6, <1>7 DEF L!LayoutSound, Authored, AuthoredCrossings

(* What a layout keeps, the layout's entry keeps.                           *)
LayoutInv == entry = "layout" => LayoutGood

(* An entry that is the overviews begins as a layout does, ...              *)
LEMMA LayoutBegins == Init => LayoutInv
<1> SUFFICES ASSUME Init, entry = "layout" PROVE LayoutGood
  BY DEF LayoutInv
<1>1. ~SolutionInit
  <2> SUFFICES ASSUME SolutionInit PROVE FALSE
    OBVIOUS
  <2>1. entry \in Slugs
    BY DEF SolutionInit
  <2> QED BY <2>1, EntriesAssumption
<1> QED BY <1>1, LayoutStarts DEF Init

(* ... and goes on as one.                                                  *)
LEMMA LayoutGoesOn == LayoutInv /\ [Next]_vars => LayoutInv'
<1> SUFFICES ASSUME LayoutInv, [Next]_vars, entry' = "layout" PROVE LayoutGood'
  BY DEF LayoutInv
<1>1. entry = "layout"
  BY DEF Next, SolutionStep, ModuleStep, vars
<1>2. LayoutGood
  BY <1>1 DEF LayoutInv
<1>3. L!LayoutStep \/ state' = state
  BY <1>1 DEF Next, SolutionStep, ModuleStep, vars
<1>4. CASE L!LayoutStep
  BY <1>2, <1>4, TryPairKeeps, EndSweepKeeps DEF L!LayoutStep
<1>5. CASE state' = state
  <2>1. ColumnsKept => ColumnsKept'
    BY <1>5 DEF ColumnsKept, Authored
  <2>2. CrossingsKept => CrossingsKept'
    BY <1>5 DEF CrossingsKept, AuthoredCrossings, Authored
  <2>3. SweepTried => SweepTried'
    BY <1>5 DEF SweepTried, NoBetter
  <2> QED BY <1>2, <1>5, <2>1, <2>2, <2>3 DEF LayoutGood
<1> QED BY <1>3, <1>4, <1>5

(* An overview is laid out with every node in the column it was given and  *)
(* no more crossings than it was authored with, as authored if it had none, *)
(* and no exchange of neighbours would still be an improvement at the end: *)
(* orderedColumns of docs/atlas/graph.mjs, for every overview.             *)
THEOREM OverviewsLaidOut == Spec => []LayoutSound
<1>1. Init => LayoutInv
  BY LayoutBegins
<1>2. LayoutInv /\ [Next]_vars => LayoutInv'
  BY LayoutGoesOn
<1>3. LayoutInv => LayoutSound
  BY GoodLayoutIsSound DEF LayoutInv, LayoutSound
<1> QED BY <1>1, <1>2, <1>3, PTL DEF Spec

(* A pair that was tried leaves fewer crossings or fewer pairs to try; the *)
(* end of a sweep takes back that another one is owed, or ends the layout. *)
LEMMA LayoutDescends ==
  ASSUME LayoutGood, L!LayoutStep
  PROVE  L!Descends
<1> DEFINE sweep == L!Sweep(state.columns)
<1>1. /\ DOMAIN state = LayoutFields /\ ColumnsKept /\ CrossingsKept /\ SweepTried
  BY DEF LayoutGood
<1>2. Len(sweep) \in Nat
  <2>1. sweep \in Seq(Nat \X Nat)
    BY <1>1, SweepPairs DEF ColumnsKept, Grids
  <2> QED BY <2>1
<1>3. /\ state.best \in Nat /\ state.next \in Nat \ {0}
      /\ state.improved \in BOOLEAN /\ state.done \in BOOLEAN
  BY <1>1, CrossingsAreCounted DEF CrossingsKept, SweepTried
<1> DEFINE Left(n) == L!Cardinality(n..Len(sweep))
<1>4. \A n \in Nat : Left(n) \in Nat /\ (n <= Len(sweep) => Left(n + 1) < Left(n))
  <2> SUFFICES ASSUME NEW n \in Nat
               PROVE  Left(n) \in Nat /\ (n <= Len(sweep) => Left(n + 1) < Left(n))
    OBVIOUS
  <2> HIDE DEF sweep
  <2>1. /\ Left(n) = IF n > Len(sweep) THEN 0 ELSE Len(sweep) - n + 1
        /\ Left(n + 1) = IF n + 1 > Len(sweep) THEN 0 ELSE Len(sweep) - (n + 1) + 1
    <3>1. \A m \in Int : Cardinality(m..Len(sweep)) = IF m > Len(sweep) THEN 0
                                                     ELSE Len(sweep) - m + 1
      BY <1>2, FS_Interval
    <3>2. \A S : L!Cardinality(S) = Cardinality(S)
      BY LayoutOperators
    <3>3. /\ Left(n) = Cardinality(n..Len(sweep))
          /\ Left(n + 1) = Cardinality((n + 1)..Len(sweep))
      BY <3>2
    <3>4. n \in Int /\ n + 1 \in Int
      OBVIOUS
    <3> HIDE DEF Left
    <3> QED BY <3>1, <3>3, <3>4
  <2> HIDE DEF Left
  <2> QED BY <1>2, <2>1
<1>5. L!Ahead = Left(state.next) + (IF state.done THEN 0 ELSE 1)
  BY DEF L!Ahead
<1>6. L!Ahead \in Nat
  <2>1. Left(state.next) \in Nat
    BY <1>3, <1>4
  <2> HIDE DEF Left
  <2>2. CASE state.done
    BY <1>5, <2>1, <2>2
  <2>3. CASE ~state.done
    BY <1>5, <2>1, <2>3
  <2> QED BY <2>2, <2>3
<1>7. CASE L!TryPair
  <2> DEFINE pair == sweep[state.next]
             moved == L!Moved(state.position, state.columns, pair[1], pair[2])
             crossings == L!Crossings(moved, state.links)
  <2>1. /\ ~state.done /\ state.next <= Len(sweep)
        /\ state' = IF L!Better(crossings)
                    THEN [state EXCEPT !.columns = L!Exchange(@, pair[1], pair[2]),
                                       !.position = moved, !.best = crossings,
                                       !.improved = TRUE, !.next = @ + 1]
                    ELSE [state EXCEPT !.next = @ + 1]
    BY <1>7, Zenon DEF L!TryPair
  <2> HIDE DEF pair, moved, crossings
  <2>3. CASE L!Better(crossings)
    <3>1. state'.best = crossings
      BY <1>1, <2>1, <2>3 DEF LayoutFields
    <3> QED BY <1>3, <1>6, <2>3, <3>1 DEF L!Better, L!Descends
  <2>4. CASE ~L!Better(crossings)
    <3>1. /\ state'.best = state.best /\ state'.improved = state.improved
          /\ state'.done = state.done /\ state'.next = state.next + 1
          /\ state'.columns = state.columns
      BY <1>1, <2>1, <2>4 DEF LayoutFields
    <3>2. L!Ahead' = Left(state.next + 1) + 1 /\ L!Ahead = Left(state.next) + 1
      BY <2>1, <3>1 DEF L!Ahead
    <3>3. /\ Left(state.next + 1) < Left(state.next)
          /\ Left(state.next + 1) \in Nat /\ Left(state.next) \in Nat
      <4>1. state.next \in Nat /\ state.next + 1 \in Nat /\ state.next <= Len(sweep)
        BY <1>3, <2>1
      <4> HIDE DEF Left, sweep
      <4> QED BY <1>4, <4>1
    <3> HIDE DEF Left
    <3>4. L!Ahead' < L!Ahead
      BY <3>2, <3>3
    <3> QED BY <1>3, <1>6, <3>1, <3>4 DEF L!Descends
  <2> QED BY <2>3, <2>4
<1>8. CASE L!EndSweep
  <2>1. /\ ~state.done /\ state.next > Len(sweep)
        /\ state' = IF state.improved
                    THEN [state EXCEPT !.next = 1, !.improved = FALSE]
                    ELSE [state EXCEPT !.done = TRUE]
    BY <1>8 DEF L!EndSweep
  <2>2. CASE state.improved
    <3>1. state'.best = state.best /\ ~state'.improved
      BY <1>1, <2>1, <2>2 DEF LayoutFields
    <3> QED BY <1>3, <1>6, <2>2, <3>1 DEF L!Descends
  <2>3. CASE ~state.improved
    <3>1. /\ state'.best = state.best /\ state'.improved = state.improved
          /\ state'.done = TRUE /\ state'.next = state.next
          /\ state'.columns = state.columns
      BY <1>1, <2>1, <2>3 DEF LayoutFields
    <3>2. L!Ahead' = Left(state.next)
      <4>1. L!Ahead' = Left(state.next) + 0
        BY <3>1 DEF L!Ahead
      <4> HIDE DEF Left
      <4> QED BY <1>3, <1>4, <4>1
    <3> HIDE DEF Left
    <3>3. L!Ahead' < L!Ahead
      BY <1>3, <1>4, <1>5, <2>1, <3>2
    <3> QED BY <1>3, <1>6, <3>1, <3>3 DEF L!Descends
  <2> QED BY <2>2, <2>3
<1> QED BY <1>7, <1>8 DEF L!LayoutStep

(* The sweep of orderedColumns comes to an end for every overview: each of *)
(* its steps descends in an order without infinite descents.               *)
THEOREM OverviewsGetLaidOut == Spec => LayoutEnds
<1>1. Init => LayoutInv
  BY LayoutBegins
<1>2. LayoutInv /\ [Next]_vars => LayoutInv'
  BY LayoutGoesOn
<1>3. LayoutInv /\ [Next]_vars => [entry = "layout" => L!Descends]_vars
  <2> SUFFICES ASSUME LayoutInv, Next, entry = "layout" PROVE L!Descends
    OBVIOUS
  <2>1. entry \notin Slugs
    BY EntriesAssumption
  <2>2. L!LayoutStep
    BY <2>1 DEF Next, SolutionStep, ModuleStep
  <2> QED BY <2>2, LayoutDescends DEF LayoutInv
<1> QED BY <1>1, <1>2, <1>3, PTL DEF Spec, LayoutEnds

-----------------------------------------------------------------------------
(* Walks along the arrows of a graph.                                       *)

Arrow(g, x, y) == <<x, y>> \in Range(g.edges)

(* p goes from x to y.                                                      *)
Walk(g, p, x, y) ==
  /\ \E S : p \in Seq(S)
  /\ Len(p) >= 1 /\ p[1] = x /\ p[Len(p)] = y
  /\ \A i \in 1..(Len(p) - 1) : Arrow(g, p[i], p[i + 1])

(* What the groups of rows a graph is written in stand for: nodes, ...      *)
RowsIn(groups) ==
  [g \in DOMAIN groups |->
    [j \in 1..(Len(groups[g]) - 1) |-> <<groups[g][1], groups[g][j + 1]>>]]

(* These are sequences of pairs, one for each group.                        *)
LEMMA RowsAre ==
  ASSUME NEW T, NEW groups \in Seq(Seq(T))
  PROVE  /\ RowsIn(groups) \in Seq(Seq(T \X T)) /\ DOMAIN RowsIn(groups) = DOMAIN groups
         /\ \A n \in DOMAIN groups :
              /\ Len(groups[n]) \in Nat
              /\ DOMAIN RowsIn(groups)[n] = 1..(Len(groups[n]) - 1)
<1> DEFINE rows == RowsIn(groups)
<1>2. /\ DOMAIN groups = 1..Len(groups) /\ Len(groups) \in Nat
      /\ \A g \in DOMAIN groups : groups[g] \in Seq(T)
  OBVIOUS
<1>3. \A g \in DOMAIN groups : rows[g] \in Seq(T \X T)
                               /\ DOMAIN rows[g] = 1..(Len(groups[g]) - 1)
  <2>1. ASSUME NEW g \in DOMAIN groups PROVE rows[g] \in Seq(T \X T)
                                             /\ DOMAIN rows[g] = 1..(Len(groups[g]) - 1)
    <3> DEFINE row == groups[g]
    <3>1. row \in Seq(T) /\ Len(row) \in Nat /\ \A j \in 1..Len(row) : row[j] \in T
      BY <1>2
    <3>2. rows[g] = [j \in 1..(Len(row) - 1) |-> <<row[1], row[j + 1]>>]
      BY DEF RowsIn
    <3> HIDE DEF rows, row
    <3>3. CASE Len(row) = 0
      <4>1. 1..(Len(row) - 1) = 1..0
        BY <3>3
      <4>2. rows[g] \in [1..0 -> T \X T]
        BY <3>2, <4>1
      <4>3. rows[g] \in Seq(T \X T) /\ DOMAIN rows[g] = 1..0
        BY <4>2, SequenceOf
      <4> QED BY <4>1, <4>3 DEF row
    <3>4. CASE Len(row) # 0
      <4>1. \A j \in 1..(Len(row) - 1) : row[1] \in T /\ row[j + 1] \in T
        BY <3>1, <3>4
      <4>2. rows[g] \in [1..(Len(row) - 1) -> T \X T]
        BY <3>2, <4>1
      <4>3. Len(row) - 1 \in Nat
        BY <3>1, <3>4
      <4>4. rows[g] \in Seq(T \X T) /\ DOMAIN rows[g] = 1..(Len(row) - 1)
        BY <4>2, <4>3, SequenceOf
      <4> QED BY <4>4 DEF row
    <3> QED BY <3>3, <3>4
  <2> QED BY <2>1
<1>5. DOMAIN rows = DOMAIN groups /\ rows \in Seq(Seq(T \X T))
  <2>1. DOMAIN rows = DOMAIN groups
    BY DEF RowsIn
  <2> HIDE DEF rows
  <2>2. rows \in [1..Len(groups) -> Seq(T \X T)]
    <3>1. rows = [g \in DOMAIN groups |-> rows[g]]
      BY DEF rows, RowsIn
    <3> QED BY <1>2, <1>3, <2>1, <3>1
  <2> QED BY <1>2, <2>1, <2>2, SequenceOf
<1>6. \A n \in DOMAIN groups : Len(groups[n]) \in Nat
  BY <1>2
<1> QED BY <1>3, <1>5, <1>6

(* Rows holds the pair of a first name with each later name of its group.   *)
LEMMA RowsHold ==
  ASSUME NEW T, NEW groups \in Seq(Seq(T)), NEW n \in DOMAIN groups,
         NEW i \in 2..Len(groups[n])
  PROVE  /\ \E k \in DOMAIN Rows(groups) : Rows(groups)[k] = <<groups[n][1], groups[n][i]>>
         /\ \A k \in DOMAIN Rows(groups) : Rows(groups)[k] \in T \X T
<1> DEFINE rows == RowsIn(groups)
<1>1. Rows(groups) = Concat(rows)
  BY DEF Rows, RowsIn
<1>2. rows \in Seq(Seq(T \X T)) /\ DOMAIN rows = DOMAIN groups
  BY RowsAre
<1>3. Len(groups[n]) \in Nat /\ DOMAIN rows[n] = 1..(Len(groups[n]) - 1)
  BY RowsAre
<1>4. rows[n][i - 1] = <<groups[n][1], groups[n][i]>> /\ i - 1 \in 1..(Len(groups[n]) - 1)
  <2>1. i - 1 \in 1..(Len(groups[n]) - 1) /\ (i - 1) + 1 = i
    BY <1>3
  <2>2. rows[n] = [j \in 1..(Len(groups[n]) - 1) |-> <<groups[n][1], groups[n][j + 1]>>]
    BY DEF RowsIn
  <2> QED BY <2>1, <2>2
<1> HIDE DEF rows
<1>5. n \in DOMAIN rows /\ i - 1 \in DOMAIN rows[n]
  BY <1>2, <1>3, <1>4
<1>6. \E k \in DOMAIN Concat(rows) : Concat(rows)[k] = rows[n][i - 1]
  BY <1>2, <1>5, ConcatHolds
<1>7. Concat(rows) \in Seq(T \X T)
  BY <1>2, ConcatIsSeq
<1> QED BY <1>1, <1>4, <1>6, <1>7

(* ... and arrows.  Said for groups of each length there is.                *)
LEMMA GraphHolds ==
  ASSUME NEW T, NEW view, NEW nodes \in Seq(Seq(T)), NEW edges \in Seq(Seq(T)),
         NEW g, g = Graph(view, nodes, edges)
  PROVE  /\ \A n \in DOMAIN nodes : \A i \in 2..Len(nodes[n]) : nodes[n][i] \in Ids(g)
         /\ \A n \in DOMAIN edges : \A i \in 2..Len(edges[n]) :
              Arrow(g, edges[n][1], edges[n][i])
<1>1. /\ g.nodes = [i \in DOMAIN Rows(nodes) |-> [kind |-> Rows(nodes)[i][1],
                                                  id |-> Rows(nodes)[i][2]]]
      /\ g.edges = Rows(edges)
  BY DEF Graph
<1>2. ASSUME NEW n \in DOMAIN nodes, NEW i \in 2..Len(nodes[n])
      PROVE  nodes[n][i] \in Ids(g)
  <2>1. PICK k \in DOMAIN Rows(nodes) : Rows(nodes)[k] = <<nodes[n][1], nodes[n][i]>>
    BY RowsHold
  <2>2. k \in DOMAIN g.nodes /\ g.nodes[k].id = nodes[n][i]
    BY <1>1, <2>1
  <2> QED BY <2>2 DEF Ids
<1>3. ASSUME NEW n \in DOMAIN edges, NEW i \in 2..Len(edges[n])
      PROVE  Arrow(g, edges[n][1], edges[n][i])
  <2>1. PICK k \in DOMAIN Rows(edges) : Rows(edges)[k] = <<edges[n][1], edges[n][i]>>
    BY RowsHold
  <2>2. k \in DOMAIN g.edges /\ g.edges[k] = <<edges[n][1], edges[n][i]>>
    BY <1>1, <2>1
  <2> QED BY <2>2 DEF Arrow, Range
<1> QED BY <1>2, <1>3

(* The same by the length of the group, as the diagrams write them.         *)
LEMMA GraphRows ==
  ASSUME NEW T, NEW view, NEW nodes \in Seq(Seq(T)), NEW edges \in Seq(Seq(T)),
         NEW g, g = Graph(view, nodes, edges)
  PROVE  /\ \A n \in DOMAIN nodes : \A kind, a : nodes[n] = <<kind, a>> => a \in Ids(g)
         /\ \A n \in DOMAIN edges : \A x, a : edges[n] = <<x, a>> => Arrow(g, x, a)
         /\ \A n \in DOMAIN edges : \A x, a, b :
              edges[n] = <<x, a, b>> => Arrow(g, x, a) /\ Arrow(g, x, b)
         /\ \A n \in DOMAIN edges : \A x, a, b, c : edges[n] = <<x, a, b, c>> =>
              Arrow(g, x, a) /\ Arrow(g, x, b) /\ Arrow(g, x, c)
         /\ \A n \in DOMAIN edges : \A x, a, b, c, d : edges[n] = <<x, a, b, c, d>> =>
              Arrow(g, x, a) /\ Arrow(g, x, b) /\ Arrow(g, x, c) /\ Arrow(g, x, d)
<1>1. /\ \A n \in DOMAIN nodes : \A i \in 2..Len(nodes[n]) : nodes[n][i] \in Ids(g)
      /\ \A n \in DOMAIN edges : \A i \in 2..Len(edges[n]) :
           Arrow(g, edges[n][1], edges[n][i])
  BY GraphHolds
<1>2. ASSUME NEW n \in DOMAIN edges, NEW x, NEW a, edges[n] = <<x, a>>
      PROVE  Arrow(g, x, a)
  <2>1. edges[n][1] = x /\ Len(edges[n]) = 2 /\ edges[n][2] = a
    BY <1>2
  <2>2. {2} \subseteq 2..Len(edges[n])
    BY <2>1
  <2>3. Arrow(g, edges[n][1], edges[n][2])
    BY <1>1, <2>2
  <2> QED BY <2>1, <2>3
<1>3. ASSUME NEW n \in DOMAIN edges, NEW x, NEW a, NEW b, edges[n] = <<x, a, b>>
      PROVE  Arrow(g, x, a) /\ Arrow(g, x, b)
  <2>1. edges[n][1] = x /\ Len(edges[n]) = 3 /\ edges[n][2] = a /\ edges[n][3] = b
    BY <1>3
  <2>2. {2, 3} \subseteq 2..Len(edges[n])
    BY <2>1
  <2>3. Arrow(g, edges[n][1], edges[n][2]) /\ Arrow(g, edges[n][1], edges[n][3])
    BY <1>1, <2>2
  <2> QED BY <2>1, <2>3
<1>4. ASSUME NEW n \in DOMAIN edges, NEW x, NEW a, NEW b, NEW c, edges[n] = <<x, a, b, c>>
      PROVE  Arrow(g, x, a) /\ Arrow(g, x, b) /\ Arrow(g, x, c)
  <2>1. edges[n][1] = x /\ Len(edges[n]) = 4 /\ edges[n][2] = a /\ edges[n][3] = b /\ edges[n][4] = c
    BY <1>4
  <2>2. {2, 3, 4} \subseteq 2..Len(edges[n])
    BY <2>1
  <2>3. Arrow(g, edges[n][1], edges[n][2]) /\ Arrow(g, edges[n][1], edges[n][3]) /\ Arrow(g, edges[n][1], edges[n][4])
    BY <1>1, <2>2
  <2> QED BY <2>1, <2>3
<1>5. ASSUME NEW n \in DOMAIN edges, NEW x, NEW a, NEW b, NEW c, NEW d, edges[n] = <<x, a, b, c, d>>
      PROVE  Arrow(g, x, a) /\ Arrow(g, x, b) /\ Arrow(g, x, c) /\ Arrow(g, x, d)
  <2>1. edges[n][1] = x /\ Len(edges[n]) = 5 /\ edges[n][2] = a /\ edges[n][3] = b /\ edges[n][4] = c /\ edges[n][5] = d
    BY <1>5
  <2>2. {2, 3, 4, 5} \subseteq 2..Len(edges[n])
    BY <2>1
  <2>3. Arrow(g, edges[n][1], edges[n][2]) /\ Arrow(g, edges[n][1], edges[n][3]) /\ Arrow(g, edges[n][1], edges[n][4]) /\ Arrow(g, edges[n][1], edges[n][5])
    BY <1>1, <2>2
  <2> QED BY <2>1, <2>3
<1>6. ASSUME NEW n \in DOMAIN nodes, NEW kind, NEW a, nodes[n] = <<kind, a>>
      PROVE  a \in Ids(g)
  <2>1. nodes[n][2] = a /\ Len(nodes[n]) = 2 /\ 2 \in 2..Len(nodes[n])
    BY <1>6
  <2>2. nodes[n][2] \in Ids(g)
    BY <1>1, <2>1
  <2> QED BY <2>1, <2>2
<1> HIDE DEF Arrow
<1> QED BY <1>2, <1>3, <1>4, <1>5, <1>6

(* A walk from a node of the graph is one Follows accepts.                  *)
LEMMA WalkFollows ==
  ASSUME NEW g, NEW p, NEW x \in Ids(g), NEW y, Walk(g, p, x, y)
  PROVE  Follows(g, p)
BY DEF Walk, Follows, Arrow

(* Short walks.                                                             *)
LEMMA ShortWalks ==
  ASSUME NEW g
  PROVE  /\ \A a : Walk(g, <<a>>, a, a)
         /\ \A a, b : Arrow(g, a, b) => Walk(g, <<a, b>>, a, b)
         /\ \A a, b, c : Arrow(g, a, b) /\ Arrow(g, b, c) => Walk(g, <<a, b, c>>, a, c)
         /\ \A a, b, c, d : Arrow(g, a, b) /\ Arrow(g, b, c) /\ Arrow(g, c, d)
              => Walk(g, <<a, b, c, d>>, a, d)
         /\ \A a, b, c, d, e : Arrow(g, a, b) /\ Arrow(g, b, c) /\ Arrow(g, c, d)
              /\ Arrow(g, d, e)
              => Walk(g, <<a, b, c, d, e>>, a, e)
         /\ \A a, b, c, d, e, f : Arrow(g, a, b) /\ Arrow(g, b, c) /\ Arrow(g, c, d)
              /\ Arrow(g, d, e) /\ Arrow(g, e, f)
              => Walk(g, <<a, b, c, d, e, f>>, a, f)
         /\ \A a, b, c, d, e, f, h : Arrow(g, a, b) /\ Arrow(g, b, c) /\ Arrow(g, c, d)
              /\ Arrow(g, d, e) /\ Arrow(g, e, f) /\ Arrow(g, f, h)
              => Walk(g, <<a, b, c, d, e, f, h>>, a, h)
<1>1. ASSUME NEW a
      PROVE  Walk(g, <<a>>, a, a)
  <2> DEFINE p == <<a>>
  <2>1. p \in Seq({a}) /\ Len(p) = 1
        /\ p[1] = a
    OBVIOUS
  <2> HIDE DEF p
  <2>2. \A i \in 1..(Len(p) - 1) : FALSE
    BY <2>1
  <2>3. \A i \in 1..(Len(p) - 1) : Arrow(g, p[i], p[i + 1])
    BY <2>1, <2>2
  <2>4. Walk(g, p, a, a)
    BY <2>1, <2>3 DEF Walk
  <2> QED BY <2>4 DEF p
<1>2. ASSUME NEW a, NEW b, Arrow(g, a, b)
      PROVE  Walk(g, <<a, b>>, a, b)
  <2> DEFINE p == <<a, b>>
  <2>1. p \in Seq({a, b}) /\ Len(p) = 2
        /\ p[1] = a /\ p[2] = b
    OBVIOUS
  <2> HIDE DEF p
  <2>2. \A i \in 1..(Len(p) - 1) : i = 1
    BY <2>1
  <2>3. \A i \in 1..(Len(p) - 1) : Arrow(g, p[i], p[i + 1])
    BY <1>2, <2>1, <2>2
  <2>4. Walk(g, p, a, b)
    BY <2>1, <2>3 DEF Walk
  <2> QED BY <2>4 DEF p
<1>3. ASSUME NEW a, NEW b, NEW c, Arrow(g, a, b), Arrow(g, b, c)
      PROVE  Walk(g, <<a, b, c>>, a, c)
  <2> DEFINE p == <<a, b, c>>
  <2>1. p \in Seq({a, b, c}) /\ Len(p) = 3
        /\ p[1] = a /\ p[2] = b /\ p[3] = c
    OBVIOUS
  <2> HIDE DEF p
  <2>2. \A i \in 1..(Len(p) - 1) : i = 1 \/ i = 2
    BY <2>1
  <2>3. \A i \in 1..(Len(p) - 1) : Arrow(g, p[i], p[i + 1])
    BY <1>3, <2>1, <2>2
  <2>4. Walk(g, p, a, c)
    BY <2>1, <2>3 DEF Walk
  <2> QED BY <2>4 DEF p
<1>4. ASSUME NEW a, NEW b, NEW c, NEW d, Arrow(g, a, b), Arrow(g, b, c), Arrow(g, c, d)
      PROVE  Walk(g, <<a, b, c, d>>, a, d)
  <2> DEFINE p == <<a, b, c, d>>
  <2>1. p \in Seq({a, b, c, d}) /\ Len(p) = 4
        /\ p[1] = a /\ p[2] = b /\ p[3] = c /\ p[4] = d
    OBVIOUS
  <2> HIDE DEF p
  <2>2. \A i \in 1..(Len(p) - 1) : i = 1 \/ i = 2 \/ i = 3
    BY <2>1
  <2>3. \A i \in 1..(Len(p) - 1) : Arrow(g, p[i], p[i + 1])
    BY <1>4, <2>1, <2>2
  <2>4. Walk(g, p, a, d)
    BY <2>1, <2>3 DEF Walk
  <2> QED BY <2>4 DEF p
<1>5. ASSUME NEW a, NEW b, NEW c, NEW d, NEW e, Arrow(g, a, b), Arrow(g, b, c), Arrow(g,
             c, d), Arrow(g, d, e)
      PROVE  Walk(g, <<a, b, c, d, e>>, a, e)
  <2> DEFINE p == <<a, b, c, d, e>>
  <2>1. p \in Seq({a, b, c, d, e}) /\ Len(p) = 5
        /\ p[1] = a /\ p[2] = b /\ p[3] = c /\ p[4] = d /\ p[5] = e
    OBVIOUS
  <2> HIDE DEF p
  <2>2. \A i \in 1..(Len(p) - 1) : i = 1 \/ i = 2 \/ i = 3 \/ i = 4
    BY <2>1
  <2>3. \A i \in 1..(Len(p) - 1) : Arrow(g, p[i], p[i + 1])
    BY <1>5, <2>1, <2>2
  <2>4. Walk(g, p, a, e)
    BY <2>1, <2>3 DEF Walk
  <2> QED BY <2>4 DEF p
<1>6. ASSUME NEW a, NEW b, NEW c, NEW d, NEW e, NEW f, Arrow(g, a, b), Arrow(g, b, c),
             Arrow(g, c, d), Arrow(g, d, e), Arrow(g, e, f)
      PROVE  Walk(g, <<a, b, c, d, e, f>>, a, f)
  <2> DEFINE p == <<a, b, c, d, e, f>>
  <2>1. p \in Seq({a, b, c, d, e, f}) /\ Len(p) = 6
        /\ p[1] = a /\ p[2] = b /\ p[3] = c /\ p[4] = d /\ p[5] = e /\ p[6] = f
    OBVIOUS
  <2> HIDE DEF p
  <2>2. \A i \in 1..(Len(p) - 1) : i = 1 \/ i = 2 \/ i = 3 \/ i = 4 \/ i = 5
    BY <2>1
  <2>3. \A i \in 1..(Len(p) - 1) : Arrow(g, p[i], p[i + 1])
    BY <1>6, <2>1, <2>2
  <2>4. Walk(g, p, a, f)
    BY <2>1, <2>3 DEF Walk
  <2> QED BY <2>4 DEF p
<1>7. ASSUME NEW a, NEW b, NEW c, NEW d, NEW e, NEW f, NEW h, Arrow(g, a, b), Arrow(g, b,
             c), Arrow(g, c, d), Arrow(g, d, e), Arrow(g, e, f), Arrow(g, f, h)
      PROVE  Walk(g, <<a, b, c, d, e, f, h>>, a, h)
  <2> DEFINE p == <<a, b, c, d, e, f, h>>
  <2>1. p \in Seq({a, b, c, d, e, f, h}) /\ Len(p) = 7
        /\ p[1] = a /\ p[2] = b /\ p[3] = c /\ p[4] = d /\ p[5] = e /\ p[6] = f /\ p[7] = h
    OBVIOUS
  <2> HIDE DEF p
  <2>2. \A i \in 1..(Len(p) - 1) : i = 1 \/ i = 2 \/ i = 3 \/ i = 4 \/ i = 5 \/ i = 6
    BY <2>1
  <2>3. \A i \in 1..(Len(p) - 1) : Arrow(g, p[i], p[i + 1])
    BY <1>7, <2>1, <2>2
  <2>4. Walk(g, p, a, h)
    BY <2>1, <2>3 DEF Walk
  <2> QED BY <2>4 DEF p
<1> QED BY <1>1, <1>2, <1>3, <1>4, <1>5, <1>6, <1>7

(* A walk goes on where an arrow leads from its end.                        *)
LEMMA WalkOn ==
  ASSUME NEW g, NEW p, NEW q, NEW x, NEW y, NEW z, NEW w,
         Walk(g, p, x, y), Walk(g, q, z, w), Arrow(g, y, z)
  PROVE  Walk(g, p \o q, x, w)
<1>1. PICK S : p \in Seq(S)
  BY DEF Walk
<1>2. PICK U : q \in Seq(U)
  BY DEF Walk
<1> DEFINE V == S \cup U
           r == p \o q
<1>3. p \in Seq(V) /\ q \in Seq(V)
  <2>1. \A i \in 1..Len(p) : p[i] \in V
    BY <1>1
  <2>2. \A i \in 1..Len(q) : q[i] \in V
    BY <1>2
  <2>3. p = [i \in 1..Len(p) |-> p[i]] /\ q = [i \in 1..Len(q) |-> q[i]]
        /\ Len(p) \in Nat /\ Len(q) \in Nat
    BY <1>1, <1>2
  <2> HIDE DEF V
  <2>4. p \in [1..Len(p) -> V] /\ q \in [1..Len(q) -> V]
    BY <2>1, <2>2, <2>3
  <2> QED BY <2>3, <2>4, SequenceOf
<1> HIDE DEF V
<1>4. /\ r \in Seq(V) /\ Len(r) = Len(p) + Len(q) /\ Len(p) \in Nat /\ Len(q) \in Nat
      /\ \A i \in 1..(Len(p) + Len(q)) : r[i] = IF i <= Len(p) THEN p[i] ELSE q[i - Len(p)]
  BY <1>3
<1> HIDE DEF r
<1>5. Len(p) >= 1 /\ Len(q) >= 1
  BY DEF Walk
<1>6. r[1] = x /\ r[Len(r)] = w
  <2>1. p[1] = x /\ q[Len(q)] = w
    BY DEF Walk
  <2>2. r[1] = p[1]
    BY <1>4, <1>5
  <2>3. r[Len(r)] = q[Len(q)]
    BY <1>4, <1>5
  <2> QED BY <2>1, <2>2, <2>3
<1>7. ASSUME NEW i \in 1..(Len(r) - 1) PROVE Arrow(g, r[i], r[i + 1])
  <2>1. CASE i < Len(p)
    <3>1. r[i] = p[i] /\ r[i + 1] = p[i + 1] /\ i \in 1..(Len(p) - 1)
      BY <1>4, <1>5, <2>1
    <3> QED BY <3>1 DEF Walk
  <2>2. CASE i = Len(p)
    <3>1. i \in 1..(Len(p) + Len(q)) /\ i + 1 \in 1..(Len(p) + Len(q))
          /\ (i + 1) - Len(p) = 1 /\ ~(i + 1 <= Len(p))
      BY <1>4, <1>5, <2>2
    <3>2. r[i] = p[Len(p)] /\ r[i + 1] = q[1]
      BY <1>4, <2>2, <3>1
    <3> QED BY <3>2 DEF Walk
  <2>3. CASE i > Len(p)
    <3>1. r[i] = q[i - Len(p)] /\ r[i + 1] = q[(i - Len(p)) + 1]
          /\ i - Len(p) \in 1..(Len(q) - 1)
      BY <1>4, <1>5, <2>3
    <3> QED BY <3>1 DEF Walk
  <2> QED BY <1>4, <1>5, <2>1, <2>2, <2>3
<1>8. Len(r) >= 1 /\ \E A : r \in Seq(A)
  BY <1>4, <1>5
<1>9. Walk(g, r, x, w)
  BY <1>6, <1>7, <1>8 DEF Walk
<1> QED BY <1>9 DEF r

(* The nodes of a command's checks, up to the one that refuses it.          *)
Refused(checks) == {i \in DOMAIN checks : ~checks[i][2]}
Least(S) == CHOOSE x \in S : \A y \in S : x <= y
Visited(checks) ==
  [i \in 1..(IF Refused(checks) = {} THEN Len(checks) ELSE Least(Refused(checks)))
     |-> checks[i][1]]

(* Checks drawn one after the other make a walk from the first to the last  *)
(* when none refuses, and to one that refuses otherwise.                    *)
LEMMA ChecksWalk ==
  ASSUME NEW g, NEW n \in Nat \ {0}, NEW checks, DOMAIN checks = 1..n, Len(checks) = n,
         \A i \in 1..(n - 1) : Arrow(g, checks[i][1], checks[i + 1][1])
  PROVE  \/ /\ Refused(checks) = {}
            /\ Walk(g, Visited(checks), checks[1][1], checks[n][1])
         \/ /\ Refused(checks) # {}
            /\ \E k \in 1..n : /\ ~checks[k][2]
                              /\ Walk(g, Visited(checks), checks[1][1], checks[k][1])
<1> DEFINE k == IF Refused(checks) = {} THEN n ELSE Least(Refused(checks))
           p == Visited(checks)
<1>1. n \in Nat /\ DOMAIN checks = 1..n
  OBVIOUS
<1>2. k \in 1..n /\ IF Refused(checks) = {} THEN k = n ELSE k \in Refused(checks)
  <2>1. CASE Refused(checks) = {}
    BY <1>1, <2>1
  <2>2. CASE Refused(checks) # {}
    <3>1. Refused(checks) \in SUBSET Nat /\ Refused(checks) \subseteq 1..n
      BY <1>1 DEF Refused
    <3>2. \E x \in Refused(checks) : \A y \in Refused(checks) : x <= y
      BY <2>2, <3>1, LeastElement
    <3>3. Least(Refused(checks)) \in Refused(checks)
      BY <3>2 DEF Least
    <3> QED BY <2>2, <3>1, <3>3
  <2> QED BY <2>1, <2>2
<1>3. p = [i \in 1..k |-> checks[i][1]]
  BY DEF Visited
<1> DEFINE T == {checks[i][1] : i \in 1..n}
<1>4. p \in [1..k -> T]
  BY <1>1, <1>2, <1>3
<1> HIDE DEF p, k, T
<1>5. p \in Seq(T) /\ Len(p) = k /\ DOMAIN p = 1..k /\ k \in Nat
  BY <1>1, <1>2, <1>4, SequenceOf
<1>6. \A i \in 1..k : p[i] = checks[i][1]
  BY <1>3
<1>7. p[1] = checks[1][1] /\ p[Len(p)] = checks[k][1] /\ Len(p) >= 1
  BY <1>1, <1>2, <1>5, <1>6
<1>8. ASSUME NEW i \in 1..(Len(p) - 1) PROVE Arrow(g, p[i], p[i + 1])
  <2>1. i \in 1..(n - 1) /\ p[i] = checks[i][1] /\ p[i + 1] = checks[i + 1][1]
    BY <1>1, <1>2, <1>5, <1>6
  <2> QED BY <2>1
<1>9. Walk(g, p, checks[1][1], checks[k][1])
  BY <1>5, <1>7, <1>8 DEF Walk
<1>10. Refused(checks) # {} => ~checks[k][2]
  BY <1>2 DEF Refused
<1> QED BY <1>2, <1>9, <1>10 DEF p

(* The same by the number of checks.                                        *)
LEMMA OneWalked ==
  ASSUME NEW g, NEW a1, NEW b1, NEW p1 \in BOOLEAN,
         NEW checks, checks = << <<a1, p1, b1>> >>
  PROVE  \/ Refused(checks) = {} /\ Walk(g, Visited(checks), a1, a1)
         \/ /\ Refused(checks) # {}
            /\ \/ ~p1 /\ Walk(g, Visited(checks), a1, a1)
<1>1. /\ checks[1][1] = a1 /\ (checks[1][2] <=> p1)
  OBVIOUS
<1>2. DOMAIN checks = 1..1 /\ Len(checks) = 1
  OBVIOUS
<1> HIDE DEF Arrow
<1>3. \A i \in 1..(1 - 1) : Arrow(g, checks[i][1], checks[i + 1][1])
  OBVIOUS
<1>4. \/ Refused(checks) = {} /\ Walk(g, Visited(checks), checks[1][1], checks[1][1])
      \/ /\ Refused(checks) # {}
         /\ \E k \in 1..1 : ~checks[k][2] /\ Walk(g, Visited(checks), checks[1][1], checks[k][1])
  <2>1. 1 \in Nat \ {0}
    OBVIOUS
  <2> QED BY <1>2, <1>3, <2>1, ChecksWalk
<1>5. \A k \in 1..1 : k = 1
  OBVIOUS
<1> QED BY <1>1, <1>4, <1>5

(* Two checks.                                                              *)
LEMMA TwoWalked ==
  ASSUME NEW g, NEW a1, NEW b1, NEW p1 \in BOOLEAN, NEW a2, NEW b2, NEW p2 \in BOOLEAN,
         NEW checks, checks = << <<a1, p1, b1>>, <<a2, p2, b2>> >>, Arrow(g, a1, a2)
  PROVE  \/ Refused(checks) = {} /\ Walk(g, Visited(checks), a1, a2)
         \/ /\ Refused(checks) # {}
            /\ \/ ~p1 /\ Walk(g, Visited(checks), a1, a1)
               \/ ~p2 /\ Walk(g, Visited(checks), a1, a2)
<1>1. /\ checks[1][1] = a1 /\ (checks[1][2] <=> p1)
      /\ checks[2][1] = a2 /\ (checks[2][2] <=> p2)
  OBVIOUS
<1>2. DOMAIN checks = 1..2 /\ Len(checks) = 2
  OBVIOUS
<1> HIDE DEF Arrow
<1>3. ASSUME NEW i \in 1..(2 - 1)
      PROVE  Arrow(g, checks[i][1], checks[i + 1][1])
  <2>1. i = 1
    OBVIOUS
  <2> QED BY <1>1, <2>1
<1>4. \/ Refused(checks) = {} /\ Walk(g, Visited(checks), checks[1][1], checks[2][1])
      \/ /\ Refused(checks) # {}
         /\ \E k \in 1..2 : ~checks[k][2] /\ Walk(g, Visited(checks), checks[1][1], checks[k][1])
  <2>1. 2 \in Nat \ {0}
    OBVIOUS
  <2> QED BY <1>2, <1>3, <2>1, ChecksWalk
<1>5. \A k \in 1..2 : k = 1 \/ k = 2
  OBVIOUS
<1> QED BY <1>1, <1>4, <1>5

(* Three.                                                                   *)
LEMMA ThreeWalked ==
  ASSUME NEW g, NEW a1, NEW b1, NEW p1 \in BOOLEAN, NEW a2, NEW b2, NEW p2 \in BOOLEAN, NEW a3,
         NEW b3, NEW p3 \in BOOLEAN,
         NEW checks, checks = << <<a1, p1, b1>>, <<a2, p2, b2>>, <<a3, p3, b3>> >>, Arrow(g, a1, a2), Arrow(g, a2, a3)
  PROVE  \/ Refused(checks) = {} /\ Walk(g, Visited(checks), a1, a3)
         \/ /\ Refused(checks) # {}
            /\ \/ ~p1 /\ Walk(g, Visited(checks), a1, a1)
               \/ ~p2 /\ Walk(g, Visited(checks), a1, a2)
               \/ ~p3 /\ Walk(g, Visited(checks), a1, a3)
<1>1. /\ checks[1][1] = a1 /\ (checks[1][2] <=> p1)
      /\ checks[2][1] = a2 /\ (checks[2][2] <=> p2)
      /\ checks[3][1] = a3 /\ (checks[3][2] <=> p3)
  OBVIOUS
<1>2. DOMAIN checks = 1..3 /\ Len(checks) = 3
  OBVIOUS
<1> HIDE DEF Arrow
<1>3. ASSUME NEW i \in 1..(3 - 1)
      PROVE  Arrow(g, checks[i][1], checks[i + 1][1])
  <2>1. i = 1 \/ i = 2
    OBVIOUS
  <2> QED BY <1>1, <2>1
<1>4. \/ Refused(checks) = {} /\ Walk(g, Visited(checks), checks[1][1], checks[3][1])
      \/ /\ Refused(checks) # {}
         /\ \E k \in 1..3 : ~checks[k][2] /\ Walk(g, Visited(checks), checks[1][1], checks[k][1])
  <2>1. 3 \in Nat \ {0}
    OBVIOUS
  <2> QED BY <1>2, <1>3, <2>1, ChecksWalk
<1>5. \A k \in 1..3 : k = 1 \/ k = 2 \/ k = 3
  OBVIOUS
<1> QED BY <1>1, <1>4, <1>5

(* That a command has four checks, these.                                     *)
ChecksAre(checks, a1, p1, a2, p2, a3, p3, a4, p4) ==
  /\ DOMAIN checks = 1..4 /\ Len(checks) = 4
  /\ checks[1][1] = a1 /\ (checks[1][2] <=> p1)
  /\ checks[2][1] = a2 /\ (checks[2][2] <=> p2)
  /\ checks[3][1] = a3 /\ (checks[3][2] <=> p3)
  /\ checks[4][1] = a4 /\ (checks[4][2] <=> p4)

(* That they walk the arrows of a graph from a1 to a4 when none is refused,   *)
(* and to one that is refused otherwise.                                      *)
FourWalks(g, checks, a1, p1, a2, p2, a3, p3, a4, p4) ==
  \/ Refused(checks) = {} /\ Walk(g, Visited(checks), a1, a4)
  \/ /\ Refused(checks) # {}
     /\ \/ ~p1 /\ Walk(g, Visited(checks), a1, a1)
        \/ ~p2 /\ Walk(g, Visited(checks), a1, a2)
        \/ ~p3 /\ Walk(g, Visited(checks), a1, a3)
        \/ ~p4 /\ Walk(g, Visited(checks), a1, a4)

(* Four checks.                                                              *)
LEMMA FourWalked ==
  ASSUME NEW g, NEW checks, NEW a1, NEW p1, NEW a2, NEW p2, NEW a3, NEW p3, NEW a4, NEW p4,
         ChecksAre(checks, a1, p1, a2, p2, a3, p3, a4, p4),
         Arrow(g, a1, a2), Arrow(g, a2, a3), Arrow(g, a3, a4)
  PROVE  FourWalks(g, checks, a1, p1, a2, p2, a3, p3, a4, p4)
<1>1. /\ checks[1][1] = a1 /\ (checks[1][2] <=> p1)
      /\ checks[2][1] = a2 /\ (checks[2][2] <=> p2)
      /\ checks[3][1] = a3 /\ (checks[3][2] <=> p3)
      /\ checks[4][1] = a4 /\ (checks[4][2] <=> p4)
  BY DEF ChecksAre
<1>2. DOMAIN checks = 1..4 /\ Len(checks) = 4
  BY DEF ChecksAre
<1> HIDE DEF Arrow
<1>3. ASSUME NEW i \in 1..(4 - 1)
      PROVE  Arrow(g, checks[i][1], checks[i + 1][1])
  <2>1. i = 1 \/ i = 2 \/ i = 3
    OBVIOUS
  <2> QED BY <1>1, <2>1
<1>4. \/ Refused(checks) = {} /\ Walk(g, Visited(checks), checks[1][1], checks[4][1])
      \/ /\ Refused(checks) # {}
         /\ \E k \in 1..4 : ~checks[k][2] /\ Walk(g, Visited(checks), checks[1][1], checks[k][1])
  <2>1. 4 \in Nat \ {0}
    OBVIOUS
  <2> QED BY <1>2, <1>3, <2>1, ChecksWalk
<1>5. \A k \in 1..4 : k = 1 \/ k = 2 \/ k = 3 \/ k = 4
  OBVIOUS
<1> QED BY <1>1, <1>4, <1>5 DEF FourWalks

-----------------------------------------------------------------------------
(* The reference solutions along their diagrams.                            *)

(* The arrows of a run of anti.                                             *)
LEMMA AntiArrows ==
  LET g == AntiDiagram IN
  /\ Arrow(g, "start", "more")
  /\ Arrow(g, "more", "answer") /\ Arrow(g, "more", "type")
  /\ Arrow(g, "type", "wildcard") /\ Arrow(g, "type", "definite")
     /\ Arrow(g, "type", "lower")
  /\ Arrow(g, "definite", "repeat") /\ Arrow(g, "definite", "split")
  /\ Arrow(g, "wildcard", "more")
  /\ Arrow(g, "repeat", "more")
  /\ Arrow(g, "split", "more")
  /\ Arrow(g, "lower", "more")
<1> DEFINE names == {"answer", "decision", "definite", "end", "etl", "event",
                    "lower", "more", "repeat", "split", "start", "type",
                    "wildcard"}
           nodes == << <<"event", "start">>, <<"decision", "more">>,
                       <<"end", "answer">>, <<"decision", "type">>,
                       <<"etl", "wildcard">>, <<"decision", "definite">>,
                       <<"etl", "repeat", "split", "lower">> >>
           edges == << <<"start", "more">>, <<"more", "answer", "type">>,
                       <<"type", "wildcard", "definite", "lower">>,
                       <<"definite", "repeat", "split">>,
                       <<"wildcard", "more">>, <<"repeat", "more">>,
                       <<"split", "more">>, <<"lower", "more">> >>
           g == AntiDiagram
<1>1. g = Graph("td", nodes, edges)
  BY DEF AntiDiagram, Scenario
<1>2. nodes \in Seq(Seq(names)) /\ edges \in Seq(Seq(names))
  OBVIOUS
<1> HIDE DEF g, nodes, edges, names
<1>3. /\ \A n \in DOMAIN edges : \A x, a : edges[n] = <<x, a>> =>
           Arrow(g, x, a)
      /\ \A n \in DOMAIN edges : \A x, a, b : edges[n] = <<x, a, b>> =>
           Arrow(g, x, a) /\ Arrow(g, x, b)
      /\ \A n \in DOMAIN edges : \A x, a, b, c : edges[n] = <<x, a, b, c>> =>
           Arrow(g, x, a) /\ Arrow(g, x, b) /\ Arrow(g, x, c)
  BY <1>1, <1>2, GraphRows
<1>4. /\ Arrow(g, "start", "more")
      /\ Arrow(g, "more", "answer") /\ Arrow(g, "more", "type")
      /\ Arrow(g, "type", "wildcard") /\ Arrow(g, "type", "definite") /\ Arrow(g, "type", "lower")
      /\ Arrow(g, "definite", "repeat") /\ Arrow(g, "definite", "split")
      /\ Arrow(g, "wildcard", "more")
      /\ Arrow(g, "repeat", "more")
  BY <1>3 DEF edges
<1>5. /\ Arrow(g, "split", "more")
      /\ Arrow(g, "lower", "more")
  BY <1>3 DEF edges
<1> QED BY <1>4, <1>5 DEF g

(* The arrows of a run of atcoder-cards.                                    *)
LEMMA CardsArrows ==
  LET g == CardsDiagram IN
  /\ Arrow(g, "start", "loop")
  /\ Arrow(g, "loop", "wildcard")
  /\ Arrow(g, "wildcard", "loop") /\ Arrow(g, "wildcard", "allowed")
  /\ Arrow(g, "allowed", "deficit")
  /\ Arrow(g, "deficit", "loop")
  /\ Arrow(g, "allowed", "equal")
  /\ Arrow(g, "equal", "invalid") /\ Arrow(g, "equal", "loop")
  /\ Arrow(g, "invalid", "loop")
  /\ Arrow(g, "loop", "budget")
  /\ Arrow(g, "budget", "yes") /\ Arrow(g, "budget", "no")
<1> DEFINE names == {"allowed", "budget", "decision", "deficit", "end", "equal",
                    "etl", "event", "invalid", "loop", "no", "start",
                    "wildcard", "yes"}
           nodes == << <<"event", "start">>,
                       <<"decision", "loop", "wildcard", "allowed">>,
                       <<"etl", "deficit">>, <<"decision", "equal">>,
                       <<"etl", "invalid">>, <<"decision", "budget">>,
                       <<"end", "yes", "no">> >>
           edges == << <<"start", "loop">>, <<"loop", "wildcard">>,
                       <<"wildcard", "loop", "allowed">>,
                       <<"allowed", "deficit">>, <<"deficit", "loop">>,
                       <<"allowed", "equal">>, <<"equal", "invalid", "loop">>,
                       <<"invalid", "loop">>, <<"loop", "budget">>,
                       <<"budget", "yes", "no">> >>
           g == CardsDiagram
<1>1. g = Graph("td", nodes, edges)
  BY DEF CardsDiagram, Scenario
<1>2. nodes \in Seq(Seq(names)) /\ edges \in Seq(Seq(names))
  OBVIOUS
<1> HIDE DEF g, nodes, edges, names
<1>3. /\ \A n \in DOMAIN edges : \A x, a : edges[n] = <<x, a>> =>
           Arrow(g, x, a)
      /\ \A n \in DOMAIN edges : \A x, a, b : edges[n] = <<x, a, b>> =>
           Arrow(g, x, a) /\ Arrow(g, x, b)
  BY <1>1, <1>2, GraphRows
<1>4. /\ Arrow(g, "start", "loop")
      /\ Arrow(g, "loop", "wildcard")
      /\ Arrow(g, "wildcard", "loop") /\ Arrow(g, "wildcard", "allowed")
      /\ Arrow(g, "allowed", "deficit")
      /\ Arrow(g, "deficit", "loop")
      /\ Arrow(g, "allowed", "equal")
  BY <1>3 DEF edges
<1>5. /\ Arrow(g, "equal", "invalid") /\ Arrow(g, "equal", "loop")
      /\ Arrow(g, "invalid", "loop")
      /\ Arrow(g, "loop", "budget")
      /\ Arrow(g, "budget", "yes") /\ Arrow(g, "budget", "no")
  BY <1>3 DEF edges
<1> QED BY <1>4, <1>5 DEF g

(* The arrows of a run of attack.                                           *)
LEMMA AttackArrows ==
  LET g == AttackDiagram IN
  /\ Arrow(g, "start", "parse")
  /\ Arrow(g, "parse", "ceil")
  /\ Arrow(g, "ceil", "out")
<1> DEFINE names == {"ceil", "end", "etl", "event", "out", "parse", "start"}
           nodes == << <<"event", "start">>, <<"etl", "parse", "ceil">>,
                       <<"end", "out">> >>
           edges == << <<"start", "parse">>, <<"parse", "ceil">>,
                       <<"ceil", "out">> >>
           g == AttackDiagram
<1>1. g = Graph("td", nodes, edges)
  BY DEF AttackDiagram, Scenario
<1>2. nodes \in Seq(Seq(names)) /\ edges \in Seq(Seq(names))
  OBVIOUS
<1> HIDE DEF g, nodes, edges, names
<1>3. \A n \in DOMAIN edges : \A x, a : edges[n] = <<x, a>> =>
        Arrow(g, x, a)
  BY <1>1, <1>2, GraphRows
<1>4. /\ Arrow(g, "start", "parse")
      /\ Arrow(g, "parse", "ceil")
      /\ Arrow(g, "ceil", "out")
  BY <1>3 DEF edges
<1> QED BY <1>4 DEF g

(* The arrows of a run of bitmask.                                          *)
LEMMA BitmaskArrows ==
  LET g == BitmaskDiagram IN
  /\ Arrow(g, "start", "all")
  /\ Arrow(g, "all", "max") /\ Arrow(g, "all", "loop")
  /\ Arrow(g, "loop", "exact") /\ Arrow(g, "loop", "bit")
  /\ Arrow(g, "bit", "loose") /\ Arrow(g, "bit", "fallback")
     /\ Arrow(g, "bit", "save") /\ Arrow(g, "bit", "stay")
  /\ Arrow(g, "save", "loop")
  /\ Arrow(g, "stay", "loop")
<1> DEFINE names == {"all", "bit", "decision", "end", "etl", "event", "exact",
                    "fallback", "loop", "loose", "max", "save", "start", "stay"}
           nodes == << <<"event", "start">>, <<"decision", "all">>,
                       <<"end", "max">>, <<"decision", "loop">>,
                       <<"end", "exact">>, <<"decision", "bit">>,
                       <<"end", "loose", "fallback">>, <<"etl", "save", "stay">> >>
           edges == << <<"start", "all">>, <<"all", "max", "loop">>,
                       <<"loop", "exact", "bit">>,
                       <<"bit", "loose", "fallback", "save", "stay">>,
                       <<"save", "loop">>, <<"stay", "loop">> >>
           g == BitmaskDiagram
<1>1. g = Graph("td", nodes, edges)
  BY DEF BitmaskDiagram, Scenario
<1>2. nodes \in Seq(Seq(names)) /\ edges \in Seq(Seq(names))
  OBVIOUS
<1> HIDE DEF g, nodes, edges, names
<1>3. /\ \A n \in DOMAIN edges : \A x, a : edges[n] = <<x, a>> =>
           Arrow(g, x, a)
      /\ \A n \in DOMAIN edges : \A x, a, b : edges[n] = <<x, a, b>> =>
           Arrow(g, x, a) /\ Arrow(g, x, b)
      /\ \A n \in DOMAIN edges : \A x, a, b, c, d : edges[n] = <<x, a, b, c, d>> =>
           Arrow(g, x, a) /\ Arrow(g, x, b) /\ Arrow(g, x, c) /\ Arrow(g, x, d)
  BY <1>1, <1>2, GraphRows
<1>4. /\ Arrow(g, "start", "all")
      /\ Arrow(g, "all", "max") /\ Arrow(g, "all", "loop")
      /\ Arrow(g, "loop", "exact") /\ Arrow(g, "loop", "bit")
      /\ Arrow(g, "bit", "loose") /\ Arrow(g, "bit", "fallback") /\ Arrow(g, "bit", "save") /\ Arrow(g, "bit", "stay")
      /\ Arrow(g, "save", "loop")
      /\ Arrow(g, "stay", "loop")
  BY <1>3 DEF edges
<1> QED BY <1>4 DEF g

(* The arrows of a run of fill-the-gaps.                                    *)
LEMMA GapsArrows ==
  LET g == GapsDiagram IN
  /\ Arrow(g, "start", "pair")
  /\ Arrow(g, "pair", "end") /\ Arrow(g, "pair", "direction")
  /\ Arrow(g, "direction", "up") /\ Arrow(g, "direction", "down")
  /\ Arrow(g, "up", "init")
  /\ Arrow(g, "down", "init")
  /\ Arrow(g, "init", "more")
  /\ Arrow(g, "more", "append")
  /\ Arrow(g, "append", "more")
  /\ Arrow(g, "more", "next")
  /\ Arrow(g, "next", "pair")
<1> DEFINE names == {"append", "decision", "direction", "down", "end", "etl",
                    "event", "init", "more", "next", "pair", "start", "up"}
           nodes == << <<"event", "start">>,
                       <<"decision", "pair", "direction">>,
                       <<"etl", "up", "down", "init">>, <<"decision", "more">>,
                       <<"etl", "append", "next">>, <<"end", "end">> >>
           edges == << <<"start", "pair">>, <<"pair", "end", "direction">>,
                       <<"direction", "up", "down">>, <<"up", "init">>,
                       <<"down", "init">>, <<"init", "more">>,
                       <<"more", "append">>, <<"append", "more">>,
                       <<"more", "next">>, <<"next", "pair">> >>
           g == GapsDiagram
<1>1. g = Graph("td", nodes, edges)
  BY DEF GapsDiagram, Scenario
<1>2. nodes \in Seq(Seq(names)) /\ edges \in Seq(Seq(names))
  OBVIOUS
<1> HIDE DEF g, nodes, edges, names
<1>3. /\ \A n \in DOMAIN edges : \A x, a : edges[n] = <<x, a>> =>
           Arrow(g, x, a)
      /\ \A n \in DOMAIN edges : \A x, a, b : edges[n] = <<x, a, b>> =>
           Arrow(g, x, a) /\ Arrow(g, x, b)
  BY <1>1, <1>2, GraphRows
<1>4. /\ Arrow(g, "start", "pair")
      /\ Arrow(g, "pair", "end") /\ Arrow(g, "pair", "direction")
      /\ Arrow(g, "direction", "up") /\ Arrow(g, "direction", "down")
      /\ Arrow(g, "up", "init")
      /\ Arrow(g, "down", "init")
      /\ Arrow(g, "init", "more")
  BY <1>3 DEF edges
<1>5. /\ Arrow(g, "more", "append")
      /\ Arrow(g, "append", "more")
      /\ Arrow(g, "more", "next")
      /\ Arrow(g, "next", "pair")
  BY <1>3 DEF edges
<1> QED BY <1>4, <1>5 DEF g

(* The arrows of a run of overall-winner.                                   *)
LEMMA WinnerArrows ==
  LET g == WinnerDiagram IN
  /\ Arrow(g, "start", "count")
  /\ Arrow(g, "count", "totals")
  /\ Arrow(g, "totals", "t") /\ Arrow(g, "totals", "a")
     /\ Arrow(g, "totals", "scan")
  /\ Arrow(g, "scan", "type")
  /\ Arrow(g, "type", "tc") /\ Arrow(g, "type", "ac")
  /\ Arrow(g, "tc", "t")
  /\ Arrow(g, "ac", "a")
  /\ Arrow(g, "tc", "scan")
  /\ Arrow(g, "ac", "scan")
<1> DEFINE names == {"a", "ac", "count", "decision", "end", "etl", "event",
                    "scan", "start", "t", "tc", "totals", "type"}
           nodes == << <<"event", "start">>, <<"etl", "count">>,
                       <<"decision", "totals">>, <<"end", "t", "a">>,
                       <<"etl", "scan">>, <<"decision", "type", "tc", "ac">> >>
           edges == << <<"start", "count">>, <<"count", "totals">>,
                       <<"totals", "t", "a", "scan">>, <<"scan", "type">>,
                       <<"type", "tc", "ac">>, <<"tc", "t">>, <<"ac", "a">>,
                       <<"tc", "scan">>, <<"ac", "scan">> >>
           g == WinnerDiagram
<1>1. g = Graph("td", nodes, edges)
  BY DEF WinnerDiagram, Scenario
<1>2. nodes \in Seq(Seq(names)) /\ edges \in Seq(Seq(names))
  OBVIOUS
<1> HIDE DEF g, nodes, edges, names
<1>3. /\ \A n \in DOMAIN edges : \A x, a : edges[n] = <<x, a>> =>
           Arrow(g, x, a)
      /\ \A n \in DOMAIN edges : \A x, a, b : edges[n] = <<x, a, b>> =>
           Arrow(g, x, a) /\ Arrow(g, x, b)
      /\ \A n \in DOMAIN edges : \A x, a, b, c : edges[n] = <<x, a, b, c>> =>
           Arrow(g, x, a) /\ Arrow(g, x, b) /\ Arrow(g, x, c)
  BY <1>1, <1>2, GraphRows
<1>4. /\ Arrow(g, "start", "count")
      /\ Arrow(g, "count", "totals")
      /\ Arrow(g, "totals", "t") /\ Arrow(g, "totals", "a") /\ Arrow(g, "totals", "scan")
      /\ Arrow(g, "scan", "type")
      /\ Arrow(g, "type", "tc") /\ Arrow(g, "type", "ac")
      /\ Arrow(g, "tc", "t")
  BY <1>3 DEF edges
<1>5. /\ Arrow(g, "ac", "a")
      /\ Arrow(g, "tc", "scan")
      /\ Arrow(g, "ac", "scan")
  BY <1>3 DEF edges
<1> QED BY <1>4, <1>5 DEF g

(* The arrows of a run of almost-equal.                                     *)
LEMMA AlmostEqualArrows ==
  LET g == AlmostEqualDiagram IN
  /\ Arrow(g, "start", "stack")
  /\ Arrow(g, "stack", "no") /\ Arrow(g, "stack", "pop")
  /\ Arrow(g, "pop", "complete")
  /\ Arrow(g, "complete", "yes") /\ Arrow(g, "complete", "candidate")
  /\ Arrow(g, "candidate", "used")
  /\ Arrow(g, "used", "push") /\ Arrow(g, "used", "next")
  /\ Arrow(g, "push", "next")
  /\ Arrow(g, "next", "candidate") /\ Arrow(g, "next", "stack")
<1> DEFINE names == {"candidate", "complete", "decision", "end", "etl", "event",
                    "next", "no", "pop", "push", "stack", "start", "used", "yes"}
           nodes == << <<"event", "start">>, <<"decision", "stack">>,
                       <<"end", "no">>, <<"etl", "pop">>,
                       <<"decision", "complete">>, <<"end", "yes">>,
                       <<"etl", "candidate">>, <<"decision", "used">>,
                       <<"etl", "push", "next">> >>
           edges == << <<"start", "stack">>, <<"stack", "no", "pop">>,
                       <<"pop", "complete">>,
                       <<"complete", "yes", "candidate">>,
                       <<"candidate", "used">>, <<"used", "push", "next">>,
                       <<"push", "next">>, <<"next", "candidate", "stack">> >>
           g == AlmostEqualDiagram
<1>1. g = Graph("td", nodes, edges)
  BY DEF AlmostEqualDiagram, Scenario
<1>2. nodes \in Seq(Seq(names)) /\ edges \in Seq(Seq(names))
  OBVIOUS
<1> HIDE DEF g, nodes, edges, names
<1>3. /\ \A n \in DOMAIN edges : \A x, a : edges[n] = <<x, a>> =>
           Arrow(g, x, a)
      /\ \A n \in DOMAIN edges : \A x, a, b : edges[n] = <<x, a, b>> =>
           Arrow(g, x, a) /\ Arrow(g, x, b)
  BY <1>1, <1>2, GraphRows
<1>4. /\ Arrow(g, "start", "stack")
      /\ Arrow(g, "stack", "no") /\ Arrow(g, "stack", "pop")
      /\ Arrow(g, "pop", "complete")
      /\ Arrow(g, "complete", "yes") /\ Arrow(g, "complete", "candidate")
      /\ Arrow(g, "candidate", "used")
      /\ Arrow(g, "used", "push") /\ Arrow(g, "used", "next")
  BY <1>3 DEF edges
<1>5. /\ Arrow(g, "push", "next")
      /\ Arrow(g, "next", "candidate") /\ Arrow(g, "next", "stack")
  BY <1>3 DEF edges
<1> QED BY <1>4, <1>5 DEF g

(* The arrows of a run of find-snuke.                                       *)
LEMMA FindSnukeArrows ==
  LET g == FindSnukeDiagram IN
  /\ Arrow(g, "start", "cell")
  /\ Arrow(g, "cell", "s")
  /\ Arrow(g, "s", "cell") /\ Arrow(g, "s", "dir")
  /\ Arrow(g, "dir", "bounds")
  /\ Arrow(g, "bounds", "next") /\ Arrow(g, "bounds", "match")
  /\ Arrow(g, "match", "result") /\ Arrow(g, "match", "step")
  /\ Arrow(g, "step", "bounds")
  /\ Arrow(g, "next", "dir") /\ Arrow(g, "next", "cell")
<1> DEFINE names == {"bounds", "cell", "decision", "dir", "end", "etl", "event",
                    "match", "next", "result", "s", "start", "step"}
           nodes == << <<"event", "start">>, <<"etl", "cell">>,
                       <<"decision", "s">>, <<"etl", "dir">>,
                       <<"decision", "bounds", "match">>, <<"etl", "step">>,
                       <<"decision", "next">>, <<"end", "result">> >>
           edges == << <<"start", "cell">>, <<"cell", "s">>,
                       <<"s", "cell", "dir">>, <<"dir", "bounds">>,
                       <<"bounds", "next", "match">>,
                       <<"match", "result", "step">>, <<"step", "bounds">>,
                       <<"next", "dir", "cell">> >>
           g == FindSnukeDiagram
<1>1. g = Graph("td", nodes, edges)
  BY DEF FindSnukeDiagram, Scenario
<1>2. nodes \in Seq(Seq(names)) /\ edges \in Seq(Seq(names))
  OBVIOUS
<1> HIDE DEF g, nodes, edges, names
<1>3. /\ \A n \in DOMAIN edges : \A x, a : edges[n] = <<x, a>> =>
           Arrow(g, x, a)
      /\ \A n \in DOMAIN edges : \A x, a, b : edges[n] = <<x, a, b>> =>
           Arrow(g, x, a) /\ Arrow(g, x, b)
  BY <1>1, <1>2, GraphRows
<1>4. /\ Arrow(g, "start", "cell")
      /\ Arrow(g, "cell", "s")
      /\ Arrow(g, "s", "cell") /\ Arrow(g, "s", "dir")
      /\ Arrow(g, "dir", "bounds")
      /\ Arrow(g, "bounds", "next") /\ Arrow(g, "bounds", "match")
      /\ Arrow(g, "match", "result") /\ Arrow(g, "match", "step")
  BY <1>3 DEF edges
<1>5. /\ Arrow(g, "step", "bounds")
      /\ Arrow(g, "next", "dir") /\ Arrow(g, "next", "cell")
  BY <1>3 DEF edges
<1> QED BY <1>4, <1>5 DEF g

(* The arrows of a run of impartial-gift.                                   *)
LEMMA ImpartialGiftArrows ==
  LET g == ImpartialGiftDiagram IN
  /\ Arrow(g, "start", "a")
  /\ Arrow(g, "a", "end") /\ Arrow(g, "a", "search")
  /\ Arrow(g, "search", "mid")
  /\ Arrow(g, "mid", "compare")
  /\ Arrow(g, "compare", "right") /\ Arrow(g, "compare", "left")
  /\ Arrow(g, "right", "mid")
  /\ Arrow(g, "left", "mid")
  /\ Arrow(g, "mid", "valid")
  /\ Arrow(g, "valid", "update") /\ Arrow(g, "valid", "a")
  /\ Arrow(g, "update", "a")
<1> DEFINE names == {"a", "compare", "decision", "end", "etl", "event", "left",
                    "mid", "right", "search", "start", "update", "valid"}
           nodes == << <<"event", "start">>, <<"decision", "a">>,
                       <<"end", "end">>, <<"etl", "search">>,
                       <<"decision", "mid", "compare">>,
                       <<"etl", "right", "left">>, <<"decision", "valid">>,
                       <<"etl", "update">> >>
           edges == << <<"start", "a">>, <<"a", "end", "search">>,
                       <<"search", "mid">>, <<"mid", "compare">>,
                       <<"compare", "right", "left">>, <<"right", "mid">>,
                       <<"left", "mid">>, <<"mid", "valid">>,
                       <<"valid", "update", "a">>, <<"update", "a">> >>
           g == ImpartialGiftDiagram
<1>1. g = Graph("td", nodes, edges)
  BY DEF ImpartialGiftDiagram, Scenario
<1>2. nodes \in Seq(Seq(names)) /\ edges \in Seq(Seq(names))
  OBVIOUS
<1> HIDE DEF g, nodes, edges, names
<1>3. /\ \A n \in DOMAIN edges : \A x, a : edges[n] = <<x, a>> =>
           Arrow(g, x, a)
      /\ \A n \in DOMAIN edges : \A x, a, b : edges[n] = <<x, a, b>> =>
           Arrow(g, x, a) /\ Arrow(g, x, b)
  BY <1>1, <1>2, GraphRows
<1>4. /\ Arrow(g, "start", "a")
      /\ Arrow(g, "a", "end") /\ Arrow(g, "a", "search")
      /\ Arrow(g, "search", "mid")
      /\ Arrow(g, "mid", "compare")
      /\ Arrow(g, "compare", "right") /\ Arrow(g, "compare", "left")
      /\ Arrow(g, "right", "mid")
  BY <1>3 DEF edges
<1>5. /\ Arrow(g, "left", "mid")
      /\ Arrow(g, "mid", "valid")
      /\ Arrow(g, "valid", "update") /\ Arrow(g, "valid", "a")
      /\ Arrow(g, "update", "a")
  BY <1>3 DEF edges
<1> QED BY <1>4, <1>5 DEF g

(* The arrows of a run of pac.                                              *)
LEMMA PacArrows ==
  LET g == PacDiagram IN
  /\ Arrow(g, "start", "zero")
  /\ Arrow(g, "zero", "direct")
  /\ Arrow(g, "direct", "yes") /\ Arrow(g, "direct", "no")
  /\ Arrow(g, "zero", "init")
  /\ Arrow(g, "init", "state")
  /\ Arrow(g, "state", "reachable")
  /\ Arrow(g, "reachable", "state") /\ Arrow(g, "reachable", "target")
  /\ Arrow(g, "target", "state") /\ Arrow(g, "target", "better")
  /\ Arrow(g, "better", "update") /\ Arrow(g, "better", "state")
  /\ Arrow(g, "update", "state")
  /\ Arrow(g, "state", "scan")
  /\ Arrow(g, "scan", "result")
<1> DEFINE names == {"better", "decision", "direct", "end", "etl", "event",
                    "init", "no", "reachable", "result", "scan", "start",
                    "state", "target", "update", "yes", "zero"}
           nodes == << <<"event", "start">>, <<"decision", "zero", "direct">>,
                       <<"etl", "init", "state">>,
                       <<"decision", "reachable", "target", "better">>,
                       <<"etl", "update", "scan">>,
                       <<"end", "result", "no", "yes">> >>
           edges == << <<"start", "zero">>, <<"zero", "direct">>,
                       <<"direct", "yes", "no">>, <<"zero", "init">>,
                       <<"init", "state">>, <<"state", "reachable">>,
                       <<"reachable", "state", "target">>,
                       <<"target", "state", "better">>,
                       <<"better", "update", "state">>, <<"update", "state">>,
                       <<"state", "scan">>, <<"scan", "result">> >>
           g == PacDiagram
<1>1. g = Graph("td", nodes, edges)
  BY DEF PacDiagram, Scenario
<1>2. nodes \in Seq(Seq(names)) /\ edges \in Seq(Seq(names))
  OBVIOUS
<1> HIDE DEF g, nodes, edges, names
<1>3. /\ \A n \in DOMAIN edges : \A x, a : edges[n] = <<x, a>> =>
           Arrow(g, x, a)
      /\ \A n \in DOMAIN edges : \A x, a, b : edges[n] = <<x, a, b>> =>
           Arrow(g, x, a) /\ Arrow(g, x, b)
  BY <1>1, <1>2, GraphRows
<1>4. /\ Arrow(g, "start", "zero")
      /\ Arrow(g, "zero", "direct")
      /\ Arrow(g, "direct", "yes") /\ Arrow(g, "direct", "no")
      /\ Arrow(g, "zero", "init")
      /\ Arrow(g, "init", "state")
      /\ Arrow(g, "state", "reachable")
  BY <1>3 DEF edges
<1>5. /\ Arrow(g, "reachable", "state") /\ Arrow(g, "reachable", "target")
      /\ Arrow(g, "target", "state") /\ Arrow(g, "target", "better")
      /\ Arrow(g, "better", "update") /\ Arrow(g, "better", "state")
      /\ Arrow(g, "update", "state")
      /\ Arrow(g, "state", "scan")
      /\ Arrow(g, "scan", "result")
  BY <1>3 DEF edges
<1> QED BY <1>4, <1>5 DEF g

(* The step goes to a node, or along an arrow.                              *)
Goes(node) == \E m : Go(node, m)
DrawnIn(g) == Arrow(g, state.at, state'.at) /\ "at" \in DOMAIN state'

(* The forms of the steps of a solution, by the nodes they go to.           *)
LEMMA GoesOn ==
  ASSUME "at" \in DOMAIN state
  PROVE  /\ \A node, m : Go(node, m) => Goes(node)
         /\ \A node : Goes(node) => state'.at = node /\ "at" \in DOMAIN state'
         /\ \A p, yes, no : Branch(p, yes, no) => Goes(yes) \/ Goes(no)
         /\ \A p, yes, no, m : Go(IF p THEN yes ELSE no, m) => Goes(yes) \/ Goes(no)
<1>1. \A node, m : Go(node, m) => Goes(node)
  BY DEF Goes
<1>2. \A node : Goes(node) => state'.at = node /\ "at" \in DOMAIN state'
  BY DEF Goes, Go
<1>3. ASSUME NEW p, NEW yes, NEW no, NEW m, Go(IF p THEN yes ELSE no, m)
      PROVE  Goes(yes) \/ Goes(no)
  <2>1. CASE p
    BY <1>3, <2>1 DEF Goes
  <2>2. CASE ~p
    BY <1>3, <2>2 DEF Goes
  <2> QED BY <2>1, <2>2
<1>4. \A p, yes, no : Branch(p, yes, no) => Goes(yes) \/ Goes(no)
  BY <1>3 DEF Branch
<1> QED BY <1>1, <1>2, <1>3, <1>4

(* Every step of each of the others is an arrow of its scenario: of the     *)
(* cards, ...                                                               *)
LEMMA CardsDrawn ==
  ASSUME "at" \in DOMAIN state, CardsStep
  PROVE  DrawnIn(CardsDiagram)
<1> DEFINE g == CardsDiagram
<1>1. \/ At("start") /\ Goes("loop")
      \/ At("loop") /\ (Goes("wildcard") \/ Goes("budget"))
      \/ At("wildcard") /\ (Goes("loop") \/ Goes("allowed"))
      \/ At("allowed") /\ (Goes("deficit") \/ Goes("equal"))
      \/ At("deficit") /\ Goes("loop")
      \/ At("equal") /\ (Goes("loop") \/ Goes("invalid"))
      \/ At("invalid") /\ Goes("loop")
      \/ At("budget") /\ (Goes("yes") \/ Goes("no"))
  BY ZenonT(30), GoesOn DEF CardsStep
<1>2. /\ Arrow(g, "start", "loop") /\ Arrow(g, "loop", "wildcard")
      /\ Arrow(g, "loop", "budget") /\ Arrow(g, "wildcard", "loop")
      /\ Arrow(g, "wildcard", "allowed") /\ Arrow(g, "allowed", "deficit")
      /\ Arrow(g, "allowed", "equal") /\ Arrow(g, "deficit", "loop")
      /\ Arrow(g, "equal", "loop") /\ Arrow(g, "equal", "invalid")
      /\ Arrow(g, "invalid", "loop") /\ Arrow(g, "budget", "yes")
      /\ Arrow(g, "budget", "no")
  BY CardsArrows
<1> HIDE DEF g
<1>3. DrawnIn(g)
  BY <1>1, <1>2, GoesOn DEF DrawnIn, At
<1> QED BY <1>3 DEF g

(* ... of the attack, ...                                                   *)
LEMMA AttackDrawn ==
  ASSUME "at" \in DOMAIN state, AttackStep
  PROVE  DrawnIn(AttackDiagram)
<1> DEFINE g == AttackDiagram
<1>1. \/ At("start") /\ Goes("parse")
      \/ At("parse") /\ Goes("ceil")
      \/ At("ceil") /\ Goes("out")
  BY ZenonT(30), GoesOn DEF AttackStep
<1>2. /\ Arrow(g, "start", "parse") /\ Arrow(g, "parse", "ceil")
      /\ Arrow(g, "ceil", "out")
  BY AttackArrows
<1> HIDE DEF g
<1>3. DrawnIn(g)
  BY <1>1, <1>2, GoesOn DEF DrawnIn, At
<1> QED BY <1>3 DEF g

(* ... of the bitmask, ...                                                  *)
LEMMA BitmaskDrawn ==
  ASSUME "at" \in DOMAIN state, BitmaskStep
  PROVE  DrawnIn(BitmaskDiagram)
<1> DEFINE g == BitmaskDiagram
<1>1. \/ At("start") /\ Goes("all")
      \/ At("all") /\ (Goes("max") \/ Goes("loop"))
      \/ At("loop") /\ (Goes("exact") \/ Goes("bit"))
      \/ At("bit") /\ (Goes("loose") \/ Goes("fallback") \/ Goes("save") \/ Goes("stay"))
      \/ At("save") /\ Goes("loop")
      \/ At("stay") /\ Goes("loop")
  BY ZenonT(30), GoesOn DEF BitmaskStep
<1>2. /\ Arrow(g, "start", "all") /\ Arrow(g, "all", "max")
      /\ Arrow(g, "all", "loop") /\ Arrow(g, "loop", "exact")
      /\ Arrow(g, "loop", "bit") /\ Arrow(g, "bit", "loose")
      /\ Arrow(g, "bit", "fallback") /\ Arrow(g, "bit", "save")
      /\ Arrow(g, "bit", "stay") /\ Arrow(g, "save", "loop")
      /\ Arrow(g, "stay", "loop")
  BY BitmaskArrows
<1> HIDE DEF g
<1>3. DrawnIn(g)
  BY <1>1, <1>2, GoesOn DEF DrawnIn, At
<1> QED BY <1>3 DEF g

(* ... of the gaps, ...                                                     *)
LEMMA GapsDrawn ==
  ASSUME "at" \in DOMAIN state, GapsStep
  PROVE  DrawnIn(GapsDiagram)
<1> DEFINE g == GapsDiagram
<1>1. \/ At("start") /\ Goes("pair")
      \/ At("pair") /\ (Goes("end") \/ Goes("direction"))
      \/ At("direction") /\ (Goes("up") \/ Goes("down"))
      \/ At("up") /\ Goes("init")
      \/ At("down") /\ Goes("init")
      \/ At("init") /\ Goes("more")
      \/ At("more") /\ (Goes("append") \/ Goes("next"))
      \/ At("append") /\ Goes("more")
      \/ At("next") /\ Goes("pair")
  BY ZenonT(30), GoesOn DEF GapsStep
<1>2. /\ Arrow(g, "start", "pair") /\ Arrow(g, "pair", "end")
      /\ Arrow(g, "pair", "direction") /\ Arrow(g, "direction", "up")
      /\ Arrow(g, "direction", "down") /\ Arrow(g, "up", "init")
      /\ Arrow(g, "down", "init") /\ Arrow(g, "init", "more")
      /\ Arrow(g, "more", "append") /\ Arrow(g, "more", "next")
      /\ Arrow(g, "append", "more") /\ Arrow(g, "next", "pair")
  BY GapsArrows
<1> HIDE DEF g
<1>3. DrawnIn(g)
  BY <1>1, <1>2, GoesOn DEF DrawnIn, At
<1> QED BY <1>3 DEF g

(* ... of the overall winner, ...                                           *)
LEMMA WinnerDrawn ==
  ASSUME "at" \in DOMAIN state, WinnerStep
  PROVE  DrawnIn(WinnerDiagram)
<1> DEFINE g == WinnerDiagram
<1>1. \/ At("start") /\ Goes("count")
      \/ At("count") /\ Goes("totals")
      \/ At("totals") /\ (Goes("t") \/ Goes("a") \/ Goes("scan"))
      \/ At("scan") /\ Goes("type")
      \/ At("type") /\ (Goes("tc") \/ Goes("ac"))
      \/ At("tc") /\ (Goes("t") \/ Goes("scan"))
      \/ At("ac") /\ (Goes("a") \/ Goes("scan"))
  BY ZenonT(30), GoesOn DEF WinnerStep
<1>2. /\ Arrow(g, "start", "count") /\ Arrow(g, "count", "totals")
      /\ Arrow(g, "totals", "t") /\ Arrow(g, "totals", "a")
      /\ Arrow(g, "totals", "scan") /\ Arrow(g, "scan", "type")
      /\ Arrow(g, "type", "tc") /\ Arrow(g, "type", "ac")
      /\ Arrow(g, "tc", "t") /\ Arrow(g, "tc", "scan")
      /\ Arrow(g, "ac", "a") /\ Arrow(g, "ac", "scan")
  BY WinnerArrows
<1> HIDE DEF g
<1>3. DrawnIn(g)
  BY <1>1, <1>2, GoesOn DEF DrawnIn, At
<1> QED BY <1>3 DEF g

(* ... of the strings almost equal, ...                                     *)
LEMMA AlmostEqualDrawn ==
  ASSUME "at" \in DOMAIN state, AlmostEqualStep
  PROVE  DrawnIn(AlmostEqualDiagram)
<1> DEFINE g == AlmostEqualDiagram
<1>1. \/ At("start") /\ Goes("stack")
      \/ At("stack") /\ (Goes("no") \/ Goes("pop"))
      \/ At("pop") /\ Goes("complete")
      \/ At("complete") /\ (Goes("yes") \/ Goes("candidate"))
      \/ At("candidate") /\ Goes("used")
      \/ At("used") /\ (Goes("push") \/ Goes("next"))
      \/ At("push") /\ Goes("next")
      \/ At("next") /\ (Goes("candidate") \/ Goes("stack"))
  BY ZenonT(30), GoesOn DEF AlmostEqualStep
<1>2. /\ Arrow(g, "start", "stack") /\ Arrow(g, "stack", "no")
      /\ Arrow(g, "stack", "pop") /\ Arrow(g, "pop", "complete")
      /\ Arrow(g, "complete", "yes") /\ Arrow(g, "complete", "candidate")
      /\ Arrow(g, "candidate", "used") /\ Arrow(g, "used", "push")
      /\ Arrow(g, "used", "next") /\ Arrow(g, "push", "next")
      /\ Arrow(g, "next", "candidate") /\ Arrow(g, "next", "stack")
  BY AlmostEqualArrows
<1> HIDE DEF g
<1>3. DrawnIn(g)
  BY <1>1, <1>2, GoesOn DEF DrawnIn, At
<1> QED BY <1>3 DEF g

(* ... of the search for snuke, ...                                         *)
LEMMA FindSnukeDrawn ==
  ASSUME "at" \in DOMAIN state, FindSnukeStep
  PROVE  DrawnIn(FindSnukeDiagram)
<1> DEFINE g == FindSnukeDiagram
<1>1. \/ At("start") /\ Goes("cell")
      \/ At("cell") /\ Goes("s")
      \/ At("s") /\ (Goes("dir") \/ Goes("cell"))
      \/ At("dir") /\ Goes("bounds")
      \/ At("bounds") /\ (Goes("match") \/ Goes("next"))
      \/ At("match") /\ (Goes("result") \/ Goes("step"))
      \/ At("step") /\ Goes("bounds")
      \/ At("next") /\ (Goes("dir") \/ Goes("cell"))
  BY ZenonT(30), GoesOn DEF FindSnukeStep
<1>2. /\ Arrow(g, "start", "cell") /\ Arrow(g, "cell", "s")
      /\ Arrow(g, "s", "dir") /\ Arrow(g, "s", "cell")
      /\ Arrow(g, "dir", "bounds") /\ Arrow(g, "bounds", "match")
      /\ Arrow(g, "bounds", "next") /\ Arrow(g, "match", "result")
      /\ Arrow(g, "match", "step") /\ Arrow(g, "step", "bounds")
      /\ Arrow(g, "next", "dir") /\ Arrow(g, "next", "cell")
  BY FindSnukeArrows
<1> HIDE DEF g
<1>3. DrawnIn(g)
  BY <1>1, <1>2, GoesOn DEF DrawnIn, At
<1> QED BY <1>3 DEF g

(* ... of the gift, ...                                                     *)
LEMMA ImpartialGiftDrawn ==
  ASSUME "at" \in DOMAIN state, ImpartialGiftStep
  PROVE  DrawnIn(ImpartialGiftDiagram)
<1> DEFINE g == ImpartialGiftDiagram
<1>1. \/ At("start") /\ Goes("a")
      \/ At("a") /\ (Goes("end") \/ Goes("search"))
      \/ At("search") /\ Goes("mid")
      \/ At("mid") /\ (Goes("compare") \/ Goes("valid"))
      \/ At("compare") /\ (Goes("right") \/ Goes("left"))
      \/ At("right") /\ Goes("mid")
      \/ At("left") /\ Goes("mid")
      \/ At("valid") /\ (Goes("update") \/ Goes("a"))
      \/ At("update") /\ Goes("a")
  BY ZenonT(30), GoesOn DEF ImpartialGiftStep
<1>2. /\ Arrow(g, "start", "a") /\ Arrow(g, "a", "end")
      /\ Arrow(g, "a", "search") /\ Arrow(g, "search", "mid")
      /\ Arrow(g, "mid", "compare") /\ Arrow(g, "mid", "valid")
      /\ Arrow(g, "compare", "right") /\ Arrow(g, "compare", "left")
      /\ Arrow(g, "right", "mid") /\ Arrow(g, "left", "mid")
      /\ Arrow(g, "valid", "update") /\ Arrow(g, "valid", "a")
      /\ Arrow(g, "update", "a")
  BY ImpartialGiftArrows
<1> HIDE DEF g
<1>3. DrawnIn(g)
  BY <1>1, <1>2, GoesOn DEF DrawnIn, At
<1> QED BY <1>3 DEF g

(* ... and of the walk for the candies.                                      *)
LEMMA PacDrawn ==
  ASSUME "at" \in DOMAIN state, PacStep
  PROVE  DrawnIn(PacDiagram)
<1> DEFINE g == PacDiagram
<1>1. \/ At("start") /\ Goes("zero")
      \/ At("zero") /\ (Goes("direct") \/ Goes("init"))
      \/ At("direct") /\ (Goes("yes") \/ Goes("no"))
      \/ At("init") /\ Goes("state")
      \/ At("state") /\ (Goes("reachable") \/ Goes("scan"))
      \/ At("reachable") /\ (Goes("target") \/ Goes("state"))
      \/ At("target") /\ (Goes("better") \/ Goes("state"))
      \/ At("better") /\ (Goes("update") \/ Goes("state"))
      \/ At("update") /\ Goes("state")
      \/ At("scan") /\ Goes("result")
  BY ZenonT(30), GoesOn DEF PacStep
<1>2. /\ Arrow(g, "start", "zero") /\ Arrow(g, "zero", "direct")
      /\ Arrow(g, "zero", "init") /\ Arrow(g, "direct", "yes")
      /\ Arrow(g, "direct", "no") /\ Arrow(g, "init", "state")
      /\ Arrow(g, "state", "reachable") /\ Arrow(g, "state", "scan")
      /\ Arrow(g, "reachable", "target") /\ Arrow(g, "reachable", "state")
      /\ Arrow(g, "target", "better") /\ Arrow(g, "target", "state")
      /\ Arrow(g, "better", "update") /\ Arrow(g, "better", "state")
      /\ Arrow(g, "update", "state") /\ Arrow(g, "scan", "result")
  BY PacArrows
<1> HIDE DEF g
<1>3. DrawnIn(g)
  BY <1>1, <1>2, GoesOn DEF DrawnIn, At
<1> QED BY <1>3 DEF g

(* A run of anti reads letters and question marks, one after the other.     *)
AntiGood ==
  /\ DOMAIN state = {"at", "in", "m"}
  /\ state.in \in Seq(Upper \cup Lower \cup {"?"})
  /\ ~At("start") => "i" \in DOMAIN state.m /\ state.m.i \in Nat \ {0}
  /\ At("type") => state.m.i <= Len(state.in)

(* Every step of anti is an arrow of its scenario: one that takes a letter  *)
(* goes to its kind, and after the last there is none to take.              *)
LEMMA AntiDrawn ==
  ASSUME AntiGood, AntiStep
  PROVE  DrawnIn(AntiDiagram) /\ AntiGood'
<1> DEFINE g == AntiDiagram
           m == state.m
           letter == state.in[m.i]
           begun == [i |-> 1, dp0 |-> [Zero EXCEPT ![0] = 1], dp1 |-> 0, dp2 |-> 0, D |-> {}]
           node == CASE letter = "?" -> "wildcard"
                     [] letter \in Upper -> "definite"
                     [] letter \in Lower -> "lower"
           repeated == [m EXCEPT !.i = @ + 1, !.dp0 = Zero, !.dp2 = 0,
                                 !.dp1 = (@ + SumOver(m.dp0)) % Modulus]
           lowered == [m EXCEPT !.i = @ + 1, !.dp1 = 0, !.dp2 = (@ + m.dp1) % Modulus]
           steps(n) == "i" \in DOMAIN n /\ n.i = m.i + 1
           moves(from, to) == At(from) /\ \E n : Go(to, n) /\ steps(n)
           stays(from, to) == At(from) /\ Go(to, m)
<1>1. \/ At("start") /\ \E n : Go("more", n) /\ "i" \in DOMAIN n /\ n.i = 1
      \/ stays("more", "answer") /\ m.i > Len(state.in)
      \/ stays("more", "type") /\ ~(m.i > Len(state.in))
      \/ stays("type", node)
      \/ stays("definite", "repeat") \/ stays("definite", "split")
      \/ moves("wildcard", "more") \/ moves("repeat", "more") \/ moves("split", "more")
      \/ moves("lower", "more")
  <2>1. \/ At("start") /\ Go("more", begun)
        \/ At("more") /\ Branch(m.i > Len(state.in), "answer", "type")
        \/ stays("type", node)
        \/ At("definite") /\ Branch(letter \in m.D, "repeat", "split")
        \/ At("wildcard") /\ Go("more", Wildcard(m))
        \/ At("repeat") /\ Go("more", repeated)
        \/ At("split") /\ Go("more", Split(m, letter))
        \/ At("lower") /\ Go("more", lowered)
    BY Zenon DEF AntiStep
  <2>2. "i" \in DOMAIN begun /\ begun.i = 1
    OBVIOUS
  <2>3. ~At("start") => steps(Wildcard(m)) /\ steps(Split(m, letter))
                        /\ steps(repeated) /\ steps(lowered)
    <3> SUFFICES ASSUME ~At("start")
                 PROVE  steps(Wildcard(m)) /\ steps(Split(m, letter))
                        /\ steps(repeated) /\ steps(lowered)
      OBVIOUS
    <3>1. "i" \in DOMAIN m
      BY DEF AntiGood
    <3> HIDE DEF m, letter
    <3>2. steps(Wildcard(m))
      BY <3>1 DEF Wildcard
    <3>3. steps(Split(m, letter))
      BY <3>1 DEF Split
    <3>4. steps(repeated)
      BY <3>1
    <3>5. steps(lowered)
      BY <3>1
    <3> QED BY <3>2, <3>3, <3>4, <3>5
  <2>4. \A p, yes, no : Branch(p, yes, no) => (p /\ Go(yes, m)) \/ (~p /\ Go(no, m))
    BY DEF Branch
  <2>5. /\ At("wildcard") => ~At("start")
        /\ At("repeat") => ~At("start")
        /\ At("split") => ~At("start")
        /\ At("lower") => ~At("start")
    BY DEF At
  <2> HIDE DEF begun, repeated, lowered, node, letter, steps, m
  <2> QED BY Zenon, <2>1, <2>2, <2>3, <2>4, <2>5
<1>2. At("type") => node \in {"wildcard", "definite", "lower"}
  <2> SUFFICES ASSUME At("type") PROVE node \in {"wildcard", "definite", "lower"}
    OBVIOUS
  <2>1. m.i \in 1..Len(state.in)
    BY DEF AntiGood, At
  <2>2. letter \in Upper \cup Lower \cup {"?"}
    BY <2>1 DEF AntiGood
  <2> HIDE DEF letter
  <2> QED BY <2>2
<1>3. \A to, n : Go(to, n) => /\ state'.at = to /\ state'.m = n /\ state'.in = state.in
                              /\ DOMAIN state' = {"at", "in", "m"}
  BY DEF Go, AntiGood
<1>4. /\ Arrow(g, "start", "more") /\ Arrow(g, "more", "answer") /\ Arrow(g, "more", "type")
      /\ Arrow(g, "type", "wildcard") /\ Arrow(g, "type", "definite") /\ Arrow(g, "type", "lower")
      /\ Arrow(g, "definite", "repeat") /\ Arrow(g, "definite", "split")
      /\ Arrow(g, "wildcard", "more") /\ Arrow(g, "repeat", "more") /\ Arrow(g, "split", "more")
      /\ Arrow(g, "lower", "more")
  BY AntiArrows
<1> HIDE DEF g, node, letter, begun, repeated, lowered
<1>5. DrawnIn(g)
  BY <1>1, <1>2, <1>3, <1>4 DEF DrawnIn, At
<1>6. AntiGood'
  <2>1. state'.in = state.in /\ DOMAIN state' = {"at", "in", "m"}
    BY <1>1, <1>3
  <2>2. "i" \in DOMAIN state'.m /\ state'.m.i \in Nat \ {0}
    <3>1. ~At("start") => "i" \in DOMAIN m /\ m.i \in Nat \ {0}
      BY DEF AntiGood
    <3> HIDE DEF m
    <3> QED BY <1>1, <1>3, <3>1 DEF At
  <2>3. state'.at = "type" => state'.m.i <= Len(state'.in)
    <3>1. Len(state.in) \in Nat
      BY DEF AntiGood
    <3>2. ~At("start") => m.i \in Nat \ {0}
      BY DEF AntiGood
    <3> HIDE DEF m
    <3>3. state'.at = "type" => stays("more", "type") /\ ~(m.i > Len(state.in))
      BY <1>1, <1>2, <1>3
    <3> QED BY <1>3, <2>1, <3>1, <3>2, <3>3 DEF At
  <2> QED BY <2>1, <2>2, <2>3 DEF AntiGood, At
<1> QED BY <1>5, <1>6 DEF g

(* A solution can be followed wherever it is.                               *)
SolutionGood ==
  /\ "at" \in DOMAIN state
  /\ entry = "anti" => AntiGood

(* A solution starts at the start, its input unread.                        *)
LEMMA SolutionsBegin == SolutionInit => SolutionGood
<1> SUFFICES ASSUME SolutionInit PROVE SolutionGood
  OBVIOUS
<1>1. PICK slug \in Slugs : entry = slug /\ Begin(SolutionInputs[slug])
  BY DEF SolutionInit
<1>2. PICK x \in SolutionInputs[slug] : state = [at |-> "start", in |-> x, m |-> <<>>]
  BY <1>1 DEF Begin
<1>3. entry = "anti" => x \in Seq(Upper \cup Lower \cup {"?"})
  BY <1>1, <1>2, InputsAssumption
<1> QED BY <1>2, <1>3 DEF SolutionGood, AntiGood, At

(* Every step of a solution is an arrow of its scenario.                    *)
LEMMA SolutionsDrawn ==
  ASSUME SolutionGood, entry \in Slugs, SolutionStep
  PROVE  <<state.at, state'.at>> \in SolutionArrows[entry] /\ SolutionGood'
<1>1. DrawnIn(DiagramOf(entry)) /\ (entry = "anti" => AntiGood')
  <2>1. CASE entry = "almost-equal"
    BY <2>1, AlmostEqualDrawn DEF SolutionStep, SolutionGood, DiagramOf
  <2>2. CASE entry = "anti"
    BY <2>2, AntiDrawn DEF SolutionStep, SolutionGood, DiagramOf
  <2>3. CASE entry = "atcoder-cards"
    BY <2>3, CardsDrawn DEF SolutionStep, SolutionGood, DiagramOf
  <2>4. CASE entry = "attack"
    BY <2>4, AttackDrawn DEF SolutionStep, SolutionGood, DiagramOf
  <2>5. CASE entry = "bitmask"
    BY <2>5, BitmaskDrawn DEF SolutionStep, SolutionGood, DiagramOf
  <2>6. CASE entry = "fill-the-gaps"
    BY <2>6, GapsDrawn DEF SolutionStep, SolutionGood, DiagramOf
  <2>7. CASE entry = "find-snuke"
    BY <2>7, FindSnukeDrawn DEF SolutionStep, SolutionGood, DiagramOf
  <2>8. CASE entry = "impartial-gift"
    BY <2>8, ImpartialGiftDrawn DEF SolutionStep, SolutionGood, DiagramOf
  <2>9. CASE entry = "overall-winner"
    BY <2>9, WinnerDrawn DEF SolutionStep, SolutionGood, DiagramOf
  <2>10. CASE entry = "pac"
    BY <2>10, PacDrawn DEF SolutionStep, SolutionGood, DiagramOf
  <2> QED BY <2>1, <2>2, <2>3, <2>4, <2>5, <2>6, <2>7, <2>8, <2>9, <2>10 DEF SolutionStep
<1>2. SolutionArrows[entry] = Range(DiagramOf(entry).edges)
  BY DEF SolutionArrows
<1>3. entry' = entry
  BY DEF SolutionStep
<1> QED BY <1>1, <1>2, <1>3 DEF DrawnIn, Arrow, SolutionGood

-----------------------------------------------------------------------------
(* What some of the solutions answer.                                      *)

(* A graph has no nodes but those of its rows, and so no other ends.        *)
LEMMA RowsTake ==
  ASSUME NEW T, NEW groups \in Seq(Seq(T)), NEW k \in DOMAIN Rows(groups)
  PROVE  \E n \in DOMAIN groups : \E i \in 2..Len(groups[n]) :
           Rows(groups)[k] = <<groups[n][1], groups[n][i]>>
<1> DEFINE rows == RowsIn(groups)
<1>1. Rows(groups) = Concat(rows)
  BY DEF Rows, RowsIn
<1>2. rows \in Seq(Seq(T \X T)) /\ DOMAIN rows = DOMAIN groups
  BY RowsAre, Zenon
<1>3. \A n \in DOMAIN groups : \A j \in DOMAIN rows[n] :
        /\ j + 1 \in 2..Len(groups[n])
        /\ rows[n][j] = <<groups[n][1], groups[n][j + 1]>>
  <2> SUFFICES ASSUME NEW n \in DOMAIN groups, NEW j \in DOMAIN rows[n]
               PROVE  /\ j + 1 \in 2..Len(groups[n])
                      /\ rows[n][j] = <<groups[n][1], groups[n][j + 1]>>
    OBVIOUS
  <2>1. Len(groups[n]) \in Nat /\ DOMAIN rows[n] = 1..(Len(groups[n]) - 1)
    BY RowsAre
  <2>2. rows[n] = [i \in 1..(Len(groups[n]) - 1) |-> <<groups[n][1], groups[n][i + 1]>>]
    BY DEF RowsIn
  <2> HIDE DEF rows
  <2> QED BY <2>1, <2>2
<1> HIDE DEF rows
<1>4. PICK n \in DOMAIN rows : \E j \in DOMAIN rows[n] : Concat(rows)[k] = rows[n][j]
  BY <1>1, <1>2, ConcatTakes
<1>5. PICK j \in DOMAIN rows[n] : Concat(rows)[k] = rows[n][j]
  BY <1>4
<1>6. Rows(groups)[k] = <<groups[n][1], groups[n][j + 1]>> /\ j + 1 \in 2..Len(groups[n])
  BY <1>1, <1>2, <1>3, <1>5
<1> QED BY <1>2, <1>6

(* So an end is in a row of ends.                                           *)
LEMMA EndsAre ==
  ASSUME NEW T, NEW view, NEW nodes \in Seq(Seq(T)), NEW edges,
         NEW g, g = Graph(view, nodes, edges), NEW id \in Ends(g)
  PROVE  \E n \in DOMAIN nodes : \E i \in 2..Len(nodes[n]) :
           nodes[n][1] = "end" /\ id = nodes[n][i]
<1> DEFINE rows == Rows(nodes)
<1>1. g.nodes = [i \in DOMAIN rows |-> [kind |-> rows[i][1], id |-> rows[i][2]]]
  BY DEF Graph
<1>2. PICK k \in DOMAIN rows : rows[k][1] = "end" /\ id = rows[k][2]
  BY <1>1 DEF Ends
<1>3. PICK n \in DOMAIN nodes : \E i \in 2..Len(nodes[n]) : rows[k] = <<nodes[n][1], nodes[n][i]>>
  BY RowsTake
<1> QED BY <1>2, <1>3

(* A finite set of numbers has a greatest element.                          *)
LEMMA GreatestElement ==
  ASSUME NEW D \in SUBSET Nat, IsFiniteSet(D), D # {}
  PROVE  \E m \in D : \A n \in D : n <= m
<1> DEFINE G == {S \in SUBSET D : S = {} \/ \E m \in S : \A n \in S : n <= m}
<1>1. {} \in G
  OBVIOUS
<1>2. ASSUME NEW S \in SUBSET D, NEW x \in D \ S, S \in G PROVE S \cup {x} \in G
  <2>1. CASE S = {}
    BY <2>1
  <2>2. CASE \E m \in S : \A n \in S : n <= m
    <3>1. PICK m \in S : \A n \in S : n <= m
      BY <2>2
    <3>2. CASE x <= m
      BY <3>1, <3>2
    <3>3. CASE ~(x <= m)
      BY <3>1, <3>3
    <3> QED BY <3>2, <3>3
  <2> QED BY <1>2, <2>1, <2>2
<1> HIDE DEF G
<1>3. D \in G
  BY <1>1, <1>2, InductionOnSubsets
<1> QED BY <1>3 DEF G

(* A solution's run has a place, an input and variables.                    *)
Running == DOMAIN state = {"at", "in", "m"}

(* What its steps do.                                                       *)
LEMMA StepsGo ==
  ASSUME Running
  PROVE  /\ \A node, m : Go(node, m) =>
              Running' /\ state'.at = node /\ state'.in = state.in /\ state'.m = m
         /\ \A p, yes, no : Branch(p, yes, no) =>
              /\ Running' /\ state'.in = state.in /\ state'.m = state.m
              /\ state'.at = IF p THEN yes ELSE no
<1>1. ASSUME NEW node, NEW m, Go(node, m)
      PROVE  Running' /\ state'.at = node /\ state'.in = state.in /\ state'.m = m
  BY <1>1 DEF Go, Running
<1> QED BY <1>1 DEF Branch

(* attack: the blows are counted by a division.                             *)
AttackGood ==
  /\ Running /\ state.in.a \in Nat \ {0} /\ state.in.b \in Nat \ {0}
  /\ At("parse") \/ At("ceil") => state.m = [a |-> state.in.a, b |-> state.in.b]
  /\ At("out") => state.m = AttackAnswer(state.in)

(* As many blows as it takes, rounding up.                                  *)
LEMMA BlowsCounted ==
  ASSUME NEW x, x.a \in Nat \ {0}, x.b \in Nat \ {0}
  PROVE  (x.a + x.b - 1) \div x.b = AttackAnswer(x)
<1> DEFINE a == x.a
           b == x.b
           q == (a + b - 1) \div b
           is(k) == k \in 1..a /\ k * b >= a /\ \A j \in 0..(k - 1) : j * b < a
<1>0. a \in Nat \ {0} /\ b \in Nat \ {0}
  OBVIOUS
<1> HIDE DEF a, b
<1>1. q \in Int /\ q * b <= a + b - 1 /\ a + b - 1 < q * b + b
  BY <1>0
<1> HIDE DEF q
<1>2. q * b >= a
  BY <1>0, <1>1
<1>3. \A j \in Int : j <= q - 1 => j * b < a
  <2> SUFFICES ASSUME NEW j \in Int, j <= q - 1 PROVE j * b < a
    OBVIOUS
  <2>1. (q - 1 - j) * b >= 0
    BY <1>0, <1>1
  <2>2. (q - 1 - j) * b = q * b - b - j * b
    BY <1>0, <1>1
  <2> QED BY <1>0, <1>1, <2>1, <2>2
<1>4. q >= 1
  <2>1. CASE q <= 0
    <3>1. q * b <= 0
      BY <1>0, <1>1, <2>1
    <3> QED BY <1>0, <1>1, <1>2, <3>1
  <2> QED BY <1>1, <2>1
<1>5. q <= a
  <2>1. CASE q >= a + 1
    <3>1. a * b < a
      BY <1>0, <1>1, <1>3, <2>1
    <3>2. a * b >= a
      BY <1>0
    <3> QED BY <1>0, <3>1, <3>2
  <2> QED BY <1>0, <1>1, <2>1
<1>6. is(q)
  BY <1>0, <1>1, <1>2, <1>3, <1>4, <1>5
<1>7. ASSUME NEW k, is(k) PROVE k = q
  <2>1. k \in Int /\ k >= 1 /\ k * b >= a /\ \A j \in 0..(k - 1) : j * b < a
    BY <1>7
  <2>2. ~(k <= q - 1)
    BY <1>0, <1>3, <2>1
  <2>3. ~(q <= k - 1)
    <3>1. q \in 0..(k - 1) => q * b < a
      BY <2>1
    <3>2. q * b \in Int
      BY <1>0, <1>1
    <3> HIDE DEF is
    <3> QED BY <1>0, <1>1, <1>2, <1>4, <2>1, <3>1, <3>2
  <2> QED BY <1>1, <2>1, <2>2, <2>3
<1>8. AttackAnswer(x) = CHOOSE k \in 1..a : k * b >= a /\ \A j \in 0..(k - 1) : j * b < a
  BY DEF AttackAnswer, a, b
<1>9. (CHOOSE k \in 1..a : k * b >= a /\ \A j \in 0..(k - 1) : j * b < a) = q
  BY <1>6, <1>7
<1> QED BY <1>8, <1>9 DEF q, a, b

(* attack: every step keeps what it works with, and rounds up.              *)
LEMMA AttackGoesOn == AttackGood /\ AttackStep => AttackGood'
<1> SUFFICES ASSUME AttackGood, AttackStep PROVE AttackGood'
  OBVIOUS
<1>0. Running /\ state.in.a \in Nat \ {0} /\ state.in.b \in Nat \ {0}
  BY DEF AttackGood
<1>1. CASE At("start") /\ Go("parse", [a |-> state.in.a, b |-> state.in.b])
  BY <1>0, <1>1, StepsGo DEF AttackGood, At
<1>2. CASE At("parse") /\ Go("ceil", state.m)
  BY <1>0, <1>2, StepsGo DEF AttackGood, At
<1>3. CASE At("ceil") /\ Go("out", (state.m.a + state.m.b - 1) \div state.m.b)
  <2>1. state.m.a = state.in.a /\ state.m.b = state.in.b
    BY <1>3 DEF AttackGood
  <2>2. state'.m = AttackAnswer(state.in) /\ state'.in = state.in /\ state'.at = "out" /\ Running'
    BY <1>0, <1>3, <2>1, StepsGo, BlowsCounted
  <2> QED BY <1>0, <2>2 DEF AttackGood, At
<1> QED BY <1>1, <1>2, <1>3 DEF AttackStep

(* out is the one end of its scenario.                                      *)
LEMMA AttackEnds == \A id \in Ends(AttackDiagram) : id = "out"
<1> DEFINE names == {"event", "start", "etl", "parse", "ceil", "end", "out"}
           nodes == << <<"event", "start">>, <<"etl", "parse", "ceil">>, <<"end", "out">> >>
           edges == << <<"start", "parse">>, <<"parse", "ceil">>, <<"ceil", "out">> >>
<1>1. AttackDiagram = Graph("td", nodes, edges)
  BY DEF AttackDiagram, Scenario
<1>2. nodes \in Seq(Seq(names))
  OBVIOUS
<1>3. /\ DOMAIN nodes = 1..3 /\ nodes[1][1] # "end" /\ nodes[2][1] # "end"
      /\ Len(nodes[3]) = 2 /\ nodes[3][2] = "out"
  OBVIOUS
<1> HIDE DEF nodes, edges, names
<1>4. \A n \in DOMAIN nodes : nodes[n][1] = "end" => n = 3
  BY <1>3
<1>5. \A i \in 2..Len(nodes[3]) : nodes[3][i] = "out"
  BY <1>3
<1> QED BY <1>1, <1>2, <1>4, <1>5, EndsAre

(* find-snuke: what is matched so far lies on one line from one cell.       *)
SnukeInput(grid) ==
  /\ Len(grid[1]) \in Nat \ {0} /\ \E cells : Spellings(grid) = {cells}
  /\ Len(Target) \in Nat \ {0} /\ DOMAIN Target = 1..Len(Target)
Spelled(m, grid) ==
  /\ m.dir \in 1..8
  /\ \A i \in 1..Len(m.cells) :
       /\ m.cells[i] = Along(CellAt(grid, m.n), Dirs[m.dir], i - 1)
       /\ Letter(grid, m.cells[i]) = Target[i]
SnukeGood ==
  /\ Running /\ SnukeInput(state.in)
  /\ ~At("start") =>
       /\ DOMAIN state.m = {"n", "dir", "step", "cells"}
       /\ state.m.n \in Nat /\ state.m.dir \in 0..8 /\ state.m.step \in Nat
       /\ state.m.cells \in Seq(Cells(state.in))
  /\ At("s") => state.m.dir = 0
  /\ At("dir") => state.m.dir < 8
  /\ At("bounds") => /\ Spelled(state.m, state.in) /\ Len(state.m.cells) = state.m.step
                     /\ state.m.step < Len(Target)
  /\ At("match") \/ At("step") => /\ Spelled(state.m, state.in)
                                  /\ Len(state.m.cells) = state.m.step + 1
                                  /\ state.m.step + 1 <= Len(Target)
  /\ At("step") => state.m.step + 1 < Len(Target)
  /\ At("result") => Spelled(state.m, state.in) /\ Len(state.m.cells) = Len(Target)

(* A direction is a step to a neighbour, ...                                *)
LEMMA DirsAre ==
  ASSUME NEW dir \in 1..8
  PROVE  /\ Dirs[dir] = <<Dirs[dir][1], Dirs[dir][2]>>
         /\ Dirs[dir][1] \in -1..1 /\ Dirs[dir][2] \in -1..1 /\ Dirs[dir] # <<0, 0>>
<1>1. dir = 1 \/ dir = 2 \/ dir = 3 \/ dir = 4 \/ dir = 5 \/ dir = 6 \/ dir = 7 \/ dir = 8
  OBVIOUS
<1> QED BY <1>1 DEF Dirs

(* ... and the cells along it are one such step apart.                      *)
Beyond(cell, dir) == <<cell[1] + dir[1], cell[2] + dir[2]>>

(* Each cell of a line follows the one before it.                           *)
LEMMA AlongTheLine ==
  ASSUME NEW grid, SnukeInput(grid), NEW n \in Nat, NEW dir \in 1..8, NEW i \in Nat \ {0}
  PROVE  Along(CellAt(grid, n), Dirs[dir], i)
           = Beyond(Along(CellAt(grid, n), Dirs[dir], i - 1), Dirs[dir])
<1> DEFINE here == CellAt(grid, n)
           x == here[1]
           y == here[2]
           r == Dirs[dir][1]
           s == Dirs[dir][2]
<1>1. x \in Int /\ y \in Int
  BY DEF CellAt, SnukeInput
<1>2. r \in Int /\ s \in Int
  BY DirsAre
<1>3. /\ Along(here, Dirs[dir], i) = <<x + i * r, y + i * s>>
      /\ Along(here, Dirs[dir], i - 1) = <<x + (i - 1) * r, y + (i - 1) * s>>
  BY DEF Along
<1> HIDE DEF here, x, y, r, s
<1>4. x + i * r = (x + (i - 1) * r) + r /\ y + i * s = (y + (i - 1) * s) + s
  BY <1>1, <1>2
<1> QED BY <1>3, <1>4 DEF Beyond, here, r, s

(* A line matched to its end is the one spelling there is.                  *)
LEMMA SpelledIsSpelling ==
  ASSUME NEW grid, SnukeInput(grid), NEW m, m.n \in Nat, m.cells \in Seq(Cells(grid)),
         Spelled(m, grid), Len(m.cells) = Len(Target)
  PROVE  {m.cells} = Spellings(grid)
<1> DEFINE c == m.cells
           d == Dirs[m.dir]
           line(k) == Along(CellAt(grid, m.n), d, k)
<1>1. Len(Target) \in Nat \ {0} /\ DOMAIN Target = 1..Len(Target) /\ m.dir \in 1..8
  BY DEF SnukeInput, Spelled
<1>2. c \in [DOMAIN Target -> Cells(grid)]
  BY <1>1
<1>3. \A i \in DOMAIN Target : Letter(grid, c[i]) = Target[i]
  BY <1>1 DEF Spelled
<1>4. \A i \in 1..Len(Target) : c[i] = line(i - 1)
  BY DEF Spelled
<1>5. d = <<d[1], d[2]>> /\ d[1] \in -1..1 /\ d[2] \in -1..1 /\ d # <<0, 0>>
  BY <1>1, DirsAre
<1>6. \A i \in Nat \ {0} : line(i) = Beyond(line(i - 1), d)
  BY <1>1, AlongTheLine
<1> HIDE DEF c, d, line
<1>7. ASSUME NEW i \in 2..Len(Target) PROVE c[i] = Beyond(c[i - 1], d)
  <2>1. i - 1 \in Nat \ {0} /\ i \in 1..Len(Target) /\ i - 1 \in 1..Len(Target)
    BY <1>1
  <2>2. c[i] = line(i - 1) /\ c[i - 1] = line((i - 1) - 1)
    BY <1>4, <2>1
  <2> QED BY <1>6, <2>1, <2>2
<1>8. \E dr, dc \in -1..1 :
        /\ <<dr, dc>> # <<0, 0>>
        /\ \A i \in 2..Len(Target) : c[i] = <<c[i - 1][1] + dr, c[i - 1][2] + dc>>
  BY <1>5, <1>7 DEF Beyond
<1>9. c \in Spellings(grid)
  BY <1>2, <1>3, <1>8, Zenon DEF Spellings
<1>10. PICK cells : Spellings(grid) = {cells}
  BY DEF SnukeInput
<1> QED BY <1>9, <1>10 DEF c

(* So it goes on: a direction is tried letter by letter, then the next.     *)
LEMMA SnukeGoesOn == SnukeGood /\ FindSnukeStep => SnukeGood'
<1> DEFINE m == state.m
           grid == state.in
           here == CellAt(grid, m.n)
           there == Along(here, Dirs[m.dir], m.step)
<1> SUFFICES ASSUME SnukeGood, FindSnukeStep PROVE SnukeGood'
  OBVIOUS
<1>0. Running /\ SnukeInput(grid) /\ Len(Target) \in Nat \ {0} /\ Len(Dirs) = 8
  BY DEF SnukeGood, SnukeInput, Dirs
<1>t. ~At("start") =>
        /\ DOMAIN m = {"n", "dir", "step", "cells"}
        /\ m.n \in Nat /\ m.dir \in 0..8 /\ m.step \in Nat /\ m.cells \in Seq(Cells(grid))
  BY DEF SnukeGood
<1>1. CASE At("start") /\ Go("cell", [n |-> 0, dir |-> 0, step |-> 0, cells |-> <<>>])
  <2> DEFINE k == [n |-> 0, dir |-> 0, step |-> 0, cells |-> <<>>]
  <2>1. /\ DOMAIN k = {"n", "dir", "step", "cells"} /\ k.n \in Nat /\ k.dir \in 0..8
        /\ k.step \in Nat /\ k.cells \in Seq(Cells(grid))
    OBVIOUS
  <2> HIDE DEF k
  <2>2. Running' /\ state'.at = "cell" /\ state'.in = grid /\ state'.m = k
    BY <1>0, <1>1, StepsGo DEF k
  <2> QED BY <1>0, <2>1, <2>2 DEF SnukeGood, At
<1>2. CASE At("cell") /\ Go("s", [m EXCEPT !.n = @ + 1, !.dir = 0])
  <2> DEFINE k == [m EXCEPT !.n = @ + 1, !.dir = 0]
  <2>1. /\ DOMAIN k = {"n", "dir", "step", "cells"} /\ k.n \in Nat /\ k.dir = 0
        /\ k.step \in Nat /\ k.cells \in Seq(Cells(grid))
    BY <1>2, <1>t DEF At
  <2> HIDE DEF k
  <2>2. Running' /\ state'.at = "s" /\ state'.in = grid /\ state'.m = k
    BY <1>0, <1>2, StepsGo DEF k
  <2> QED BY <1>0, <2>1, <2>2 DEF SnukeGood, At
<1>3. CASE At("s") /\ Branch(Letter(grid, here) = Target[1], "dir", "cell")
  BY <1>0, <1>3, <1>t, StepsGo DEF SnukeGood, At
<1>4. CASE At("dir") /\ Go("bounds", [m EXCEPT !.dir = @ + 1, !.step = 0, !.cells = <<>>])
  <2> DEFINE k == [m EXCEPT !.dir = @ + 1, !.step = 0, !.cells = <<>>]
  <2>1. /\ DOMAIN k = {"n", "dir", "step", "cells"} /\ k.n \in Nat /\ k.dir \in 1..8
        /\ k.step = 0 /\ k.cells = <<>>
    BY <1>4, <1>t DEF SnukeGood, At
  <2> HIDE DEF k
  <2>2. Running' /\ state'.at = "bounds" /\ state'.in = grid /\ state'.m = k
    BY <1>0, <1>4, StepsGo DEF k
  <2>3. Spelled(k, grid) /\ Len(k.cells) = 0 /\ k.cells \in Seq(Cells(grid))
    BY <2>1 DEF Spelled
  <2>4. k.dir \in 0..8 /\ k.step \in Nat /\ Len(k.cells) = k.step /\ k.step < Len(Target)
    BY <1>0, <2>1, <2>3
  <2> QED BY <1>0, <2>1, <2>2, <2>3, <2>4 DEF SnukeGood, At
<1>5. CASE /\ At("bounds")
           /\ IF there \in Cells(grid) /\ Letter(grid, there) = Target[m.step + 1]
              THEN Go("match", [m EXCEPT !.cells = Append(@, there)])
              ELSE Go("next", m)
  <2>0. /\ m.dir \in 1..8 /\ Len(m.cells) = m.step /\ m.step < Len(Target)
        /\ m.step \in Nat /\ m.cells \in Seq(Cells(grid)) /\ Spelled(m, grid)
    BY <1>5, <1>t DEF SnukeGood, At, Spelled
  <2>1. CASE there \in Cells(grid) /\ Letter(grid, there) = Target[m.step + 1]
    <3> DEFINE k == [m EXCEPT !.cells = Append(@, there)]
               c == Append(m.cells, there)
    <3>1. /\ DOMAIN k = {"n", "dir", "step", "cells"} /\ k.n = m.n /\ k.dir = m.dir
          /\ k.step = m.step /\ k.cells = c
      BY <1>5, <1>t DEF At
    <3>2. Go("match", k)
      BY <1>5, <2>1
    <3>3. /\ c \in Seq(Cells(grid)) /\ Len(c) = m.step + 1 /\ c[m.step + 1] = there
          /\ \A i \in 1..m.step : c[i] = m.cells[i]
      BY <2>0, <2>1
    <3> HIDE DEF k, c, there
    <3>4. \A i \in 1..(m.step + 1) : i \in 1..m.step \/ (i = m.step + 1 /\ i - 1 = m.step)
      BY <2>0
    <3>5. \A i \in 1..(m.step + 1) : c[i] = Along(here, Dirs[m.dir], i - 1)
                                     /\ Letter(grid, c[i]) = Target[i]
      BY <2>0, <2>1, <3>3, <3>4 DEF Spelled, there
    <3>6. Spelled(k, grid)
      BY <2>0, <3>1, <3>3, <3>5 DEF Spelled
    <3>7. Running' /\ state'.at = "match" /\ state'.in = grid /\ state'.m = k
      BY <1>0, <3>2, StepsGo
    <3>8. m.n \in Nat /\ m.step + 1 <= Len(Target)
      BY <1>0, <1>5, <1>t, <2>0 DEF At
    <3> QED BY <1>0, <2>0, <3>1, <3>3, <3>6, <3>7, <3>8 DEF SnukeGood, At
  <2>2. CASE ~(there \in Cells(grid) /\ Letter(grid, there) = Target[m.step + 1])
    <3>1. Running' /\ state'.at = "next" /\ state'.in = grid /\ state'.m = m
      BY <1>0, <1>5, <2>2, StepsGo
    <3> QED BY <1>0, <1>5, <1>t, <2>0, <3>1 DEF SnukeGood, At
  <2> QED BY <2>1, <2>2
<1>6. CASE At("match") /\ Branch(Len(m.cells) = Len(Target), "result", "step")
  <2>1. /\ Running' /\ state'.in = grid /\ state'.m = m
        /\ state'.at = IF Len(m.cells) = Len(Target) THEN "result" ELSE "step"
    BY <1>0, <1>6, StepsGo
  <2>2. /\ Spelled(m, grid) /\ Len(m.cells) = m.step + 1 /\ m.step + 1 <= Len(Target)
        /\ m.step \in Nat
    BY <1>6, <1>t DEF SnukeGood, At
  <2>3. CASE Len(m.cells) = Len(Target)
    BY <1>0, <1>6, <1>t, <2>1, <2>2, <2>3 DEF SnukeGood, At
  <2>4. CASE Len(m.cells) # Len(Target)
    BY <1>0, <1>6, <1>t, <2>1, <2>2, <2>4 DEF SnukeGood, At
  <2> QED BY <2>3, <2>4
<1>7. CASE At("step") /\ Go("bounds", [m EXCEPT !.step = @ + 1])
  <2> DEFINE k == [m EXCEPT !.step = @ + 1]
  <2>1. /\ Spelled(m, grid) /\ Len(m.cells) = m.step + 1 /\ m.step + 1 < Len(Target)
        /\ m.step \in Nat
    BY <1>7, <1>t DEF SnukeGood, At
  <2>2. /\ DOMAIN k = {"n", "dir", "step", "cells"} /\ k.n = m.n /\ k.dir = m.dir
        /\ k.step = m.step + 1 /\ k.cells = m.cells
    BY <1>7, <1>t DEF At
  <2> HIDE DEF k
  <2>3. Spelled(k, grid)
    BY <2>1, <2>2 DEF Spelled
  <2>4. Running' /\ state'.at = "bounds" /\ state'.in = grid /\ state'.m = k
    BY <1>0, <1>7, StepsGo DEF k
  <2> QED BY <1>0, <1>7, <1>t, <2>1, <2>2, <2>3, <2>4 DEF SnukeGood, At
<1>8. CASE At("next") /\ Branch(m.dir < Len(Dirs), "dir", "cell")
  <2>1. /\ Running' /\ state'.in = grid /\ state'.m = m
        /\ state'.at = IF m.dir < 8 THEN "dir" ELSE "cell"
    BY <1>0, <1>8, StepsGo
  <2>2. /\ DOMAIN m = {"n", "dir", "step", "cells"}
        /\ m.n \in Nat /\ m.dir \in 0..8 /\ m.step \in Nat /\ m.cells \in Seq(Cells(grid))
    BY <1>8, <1>t DEF At
  <2>3. CASE m.dir < 8
    BY <1>0, <2>1, <2>2, <2>3 DEF SnukeGood, At
  <2>4. CASE ~(m.dir < 8)
    BY <1>0, <2>1, <2>2, <2>4 DEF SnukeGood, At
  <2> QED BY <2>3, <2>4
<1> QED BY <1>1, <1>2, <1>3, <1>4, <1>5, <1>6, <1>7, <1>8 DEF FindSnukeStep

(* result is the one end of its scenario.                                   *)
LEMMA SnukeEnds == \A id \in Ends(FindSnukeDiagram) : id = "result"
<1> DEFINE names == {"event", "start", "etl", "cell", "decision", "s", "dir", "bounds",
                     "match", "step", "next", "end", "result"}
           nodes == << <<"event", "start">>, <<"etl", "cell">>, <<"decision", "s">>,
                       <<"etl", "dir">>, <<"decision", "bounds", "match">>, <<"etl", "step">>,
                       <<"decision", "next">>, <<"end", "result">> >>
           edges == << <<"start", "cell">>, <<"cell", "s">>, <<"s", "cell", "dir">>,
                       <<"dir", "bounds">>, <<"bounds", "next", "match">>,
                       <<"match", "result", "step">>, <<"step", "bounds">>,
                       <<"next", "dir", "cell">> >>
<1>1. FindSnukeDiagram = Graph("td", nodes, edges)
  BY DEF FindSnukeDiagram, Scenario
<1>2. nodes \in Seq(Seq(names))
  OBVIOUS
<1>3. /\ DOMAIN nodes = 1..8 /\ Len(nodes[8]) = 2 /\ nodes[8][2] = "result"
      /\ \A n \in DOMAIN nodes : nodes[n][1] = "end" => n = 8
  OBVIOUS
<1> HIDE DEF nodes, edges, names
<1>4. \A i \in 2..Len(nodes[8]) : nodes[8][i] = "result"
  BY <1>3
<1> SUFFICES ASSUME NEW id \in Ends(FindSnukeDiagram) PROVE id = "result"
  OBVIOUS
<1>5. \E n \in DOMAIN nodes : \E i \in 2..Len(nodes[n]) :
        nodes[n][1] = "end" /\ id = nodes[n][i]
  BY <1>1, <1>2, EndsAre
<1> QED BY <1>3, <1>4, <1>5

(* overall-winner: where one of the two has won, up to a round.             *)
Places(s, p, i) == {k \in 1..i : s[k] = p}
Won(s, p, i) == Cardinality(Places(s, p, i))
WinnerInput(s) == s \in Seq({"T", "A"}) /\ s # <<>>

(* One more round, and one more win or none.                                *)
LEMMA WonNext ==
  ASSUME NEW s, NEW p, NEW i \in Nat
  PROVE  /\ IsFiniteSet(Places(s, p, i)) /\ Won(s, p, i) \in Nat
         /\ s[i + 1] = p => Won(s, p, i + 1) = Won(s, p, i) + 1
         /\ s[i + 1] # p => Won(s, p, i + 1) = Won(s, p, i)
<1>1. IsFiniteSet(Places(s, p, i)) /\ Won(s, p, i) \in Nat
  <2>1. IsFiniteSet(1..i)
    BY FS_Interval
  <2>2. IsFiniteSet(Places(s, p, i))
    BY <2>1, FS_Subset DEF Places
  <2> QED BY <2>2, FS_CardinalityType DEF Won
<1>2. 1..(i + 1) = 1..i \cup {i + 1} /\ i + 1 \notin 1..i
  OBVIOUS
<1>3. ASSUME s[i + 1] = p PROVE Won(s, p, i + 1) = Won(s, p, i) + 1
  <2>1. Places(s, p, i + 1) = Places(s, p, i) \cup {i + 1} /\ i + 1 \notin Places(s, p, i)
    BY <1>2, <1>3 DEF Places
  <2> QED BY <1>1, <2>1, FS_AddElement DEF Won
<1>4. ASSUME s[i + 1] # p PROVE Won(s, p, i + 1) = Won(s, p, i)
  <2>1. Places(s, p, i + 1) = Places(s, p, i)
    BY <1>2, <1>4 DEF Places
  <2> QED BY <2>1 DEF Won
<1> QED BY <1>1, <1>3, <1>4

(* Later rounds take no win back.                                           *)
LEMMA WonGrows ==
  ASSUME NEW s, NEW p, NEW i \in Nat, NEW j \in Nat, i <= j
  PROVE  Won(s, p, i) <= Won(s, p, j)
<1>1. Places(s, p, i) \subseteq Places(s, p, j)
  BY DEF Places
<1> QED BY <1>1, WonNext, FS_Subset DEF Won

(* A round that a player wins gives it more than it had.                    *)
LEMMA WonMore ==
  ASSUME NEW s, NEW p, NEW i \in Nat, NEW j \in Nat, i < j, s[j] = p
  PROVE  Won(s, p, i) < Won(s, p, j)
<1> DEFINE k == j - 1
<1>1. k \in Nat /\ i <= k /\ k + 1 = j
  OBVIOUS
<1> HIDE DEF k
<1>2. Won(s, p, i) <= Won(s, p, k)
  BY <1>1, WonGrows
<1>3. Won(s, p, k + 1) = Won(s, p, k) + 1 /\ Won(s, p, k) \in Nat /\ Won(s, p, i) \in Nat
  BY <1>1, WonNext
<1> QED BY <1>1, <1>2, <1>3

(* The counts of the problem are these.                                     *)
LEMMA WinsAreWon ==
  ASSUME NEW s, WinnerInput(s), NEW p
  PROVE  /\ Wins(s, p) = Won(s, p, Len(s))
         /\ \A i \in 1..Len(s) : Wins(SubSeq(s, 1, i), p) = Won(s, p, i)
<1>1. s \in Seq({"T", "A"}) /\ DOMAIN s = 1..Len(s)
  BY DEF WinnerInput
<1>2. Wins(s, p) = Won(s, p, Len(s))
  BY <1>1 DEF Wins, Count, Won, Places
<1>3. ASSUME NEW i \in 1..Len(s) PROVE Wins(SubSeq(s, 1, i), p) = Won(s, p, i)
  <2>1. /\ DOMAIN SubSeq(s, 1, i) = 1..i
        /\ \A k \in 1..i : SubSeq(s, 1, i)[k] = s[k]
    BY <1>1
  <2>2. {k \in DOMAIN SubSeq(s, 1, i) : SubSeq(s, 1, i)[k] = p} = Places(s, p, i)
    BY <2>1 DEF Places
  <2> QED BY <2>2 DEF Wins, Count, Won
<1> QED BY <1>2, <1>3

(* The round that one of them reaches the total in: there is one and it is  *)
(* the only one, after every round that leaves something to win.            *)
Reached(s, p) ==
  CHOOSE i \in DOMAIN s : Wins(SubSeq(s, 1, i), p) = Wins(s, p) /\ s[i] = p

(* It is such a round, and after every round that leaves something to win.  *)
LEMMA ReachedIs ==
  ASSUME NEW s, WinnerInput(s), NEW p
  PROVE  /\ \A i \in 1..Len(s) :
              s[i] = p /\ Won(s, p, i) = Won(s, p, Len(s)) => Reached(s, p) = i
         /\ \A i \in 0..Len(s) :
              Won(s, p, i) < Won(s, p, Len(s)) => Reached(s, p) \in Nat /\ Reached(s, p) > i
<1> DEFINE n == Len(s)
           is(i) == i \in 1..n /\ Won(s, p, i) = Won(s, p, n) /\ s[i] = p
<1>0. n \in Nat /\ DOMAIN s = 1..n
  BY DEF WinnerInput
<1>1. \A i \in DOMAIN s : (Wins(SubSeq(s, 1, i), p) = Wins(s, p) /\ s[i] = p) <=> is(i)
  BY <1>0, WinsAreWon
<1>2. ASSUME NEW i, is(i) PROVE Reached(s, p) = i
  <2>1. is(Reached(s, p))
    BY <1>0, <1>1, <1>2 DEF Reached
  <2> DEFINE j == Reached(s, p)
  <2> HIDE DEF j
  <2>2. is(j)
    BY <2>1 DEF j
  <2>3. i \in Nat /\ j \in Nat
    BY <1>0, <1>2, <2>2
  <2>4. i < j => Won(s, p, i) < Won(s, p, j)
    BY <2>2, <2>3, WonMore
  <2>5. j < i => Won(s, p, j) < Won(s, p, i)
    BY <1>2, <2>3, WonMore
  <2>6. Won(s, p, i) = Won(s, p, n) /\ Won(s, p, j) = Won(s, p, n) /\ Won(s, p, n) \in Nat
    BY <1>0, <1>2, <2>2, WonNext
  <2>7. i = j
    BY <2>3, <2>4, <2>5, <2>6
  <2> QED BY <2>7 DEF j
<1>3. ASSUME NEW i \in 0..n, Won(s, p, i) < Won(s, p, n)
      PROVE  Reached(s, p) \in Nat /\ Reached(s, p) > i
  <2> DEFINE S == {k \in 0..n : Won(s, p, k) = Won(s, p, n)}
  <2>1. S \in SUBSET Nat /\ n \in S
    BY <1>0
  <2>2. PICK k \in S : \A l \in S : k <= l
    BY <2>1, LeastElement
  <2>3. k \in Nat /\ k <= n /\ Won(s, p, k) = Won(s, p, n) /\ i \in Nat
    BY <1>0, <2>2
  <2>4. k > i
    <3>1. CASE k <= i
      <4>1. Won(s, p, k) <= Won(s, p, i) /\ Won(s, p, i) \in Nat /\ Won(s, p, n) \in Nat
        BY <1>0, <2>3, <3>1, WonGrows, WonNext
      <4> QED BY <1>3, <2>3, <4>1
    <3> QED BY <2>3, <3>1
  <2>5. s[k] = p
    <3>1. k - 1 \in 0..n /\ k - 1 \in Nat /\ (k - 1) + 1 = k
      BY <1>0, <2>3, <2>4
    <3>2. k - 1 \notin S
      BY <2>2, <2>3
    <3>3. s[(k - 1) + 1] # p => Won(s, p, (k - 1) + 1) = Won(s, p, k - 1)
      BY <3>1, WonNext
    <3> QED BY <2>3, <3>1, <3>2, <3>3
  <2>6. is(k)
    BY <1>0, <2>3, <2>4, <2>5
  <2>7. Reached(s, p) = k
    BY <1>2, <2>6
  <2> QED BY <2>3, <2>4, <2>7
<1>4. \A i \in 1..n : s[i] = p /\ Won(s, p, i) = Won(s, p, n) => is(i)
  OBVIOUS
<1> QED BY <1>2, <1>3, <1>4


(* overall-winner: the wins counted so far are those of the rounds so far,  *)
(* and as long as it goes on neither has all of theirs.                     *)
WinnerGood ==
  LET s == state.in
      m == state.m
      T == Won(s, "T", Len(s))
      A == Won(s, "A", Len(s)) IN
  /\ Running /\ WinnerInput(s)
  /\ At("scan") \/ At("type") \/ At("tc") \/ At("ac") =>
       /\ T = A /\ DOMAIN m = {"i", "t", "a"} /\ m.i \in 0..Len(s)
  /\ At("scan") => m.t = Won(s, "T", m.i) /\ m.a = Won(s, "A", m.i) /\ m.t < T /\ m.a < A
  /\ At("type") => /\ m.i > 0 /\ m.t = Won(s, "T", m.i - 1) /\ m.a = Won(s, "A", m.i - 1)
                   /\ m.t < T /\ m.a < A
  /\ At("tc") => /\ m.i > 0 /\ s[m.i] = "T" /\ m.a < A
                 /\ m.t = Won(s, "T", m.i) /\ m.a = Won(s, "A", m.i)
  /\ At("ac") => /\ m.i > 0 /\ s[m.i] = "A" /\ m.t < T
                 /\ m.t = Won(s, "T", m.i) /\ m.a = Won(s, "A", m.i)
  /\ At("t") => WinnerAnswer(s) = "t"
  /\ At("a") => WinnerAnswer(s) = "a"

(* Who has all their wins with the other still short of theirs has won.     *)
LEMMA AheadWins ==
  ASSUME NEW s, WinnerInput(s), NEW i \in 1..Len(s), NEW p, NEW q,
         s[i] = p, Won(s, p, i) = Won(s, p, Len(s)), Won(s, q, i) < Won(s, q, Len(s))
  PROVE  Reached(s, p) \in Nat /\ Reached(s, q) \in Nat /\ Reached(s, p) < Reached(s, q)
<1>1. Reached(s, p) = i /\ i \in Nat
  BY ReachedIs DEF WinnerInput
<1>2. i \in 0..Len(s)
  BY DEF WinnerInput
<1>3. Reached(s, q) \in Nat /\ Reached(s, q) > i
  BY <1>2, ReachedIs
<1> QED BY <1>1, <1>3

(* The answer, from the wins of the two and the rounds they end in.         *)
LEMMA WinnerIs ==
  ASSUME NEW s, WinnerInput(s)
  PROVE  LET T == Won(s, "T", Len(s))
             A == Won(s, "A", Len(s)) IN
         /\ T \in Nat /\ A \in Nat /\ Wins(s, "T") = T /\ Wins(s, "A") = A
         /\ T > A => WinnerAnswer(s) = "t"
         /\ A > T => WinnerAnswer(s) = "a"
         /\ T = A => WinnerAnswer(s) = IF Reached(s, "T") < Reached(s, "A") THEN "t" ELSE "a"
<1> DEFINE T == Won(s, "T", Len(s))
           A == Won(s, "A", Len(s))
<1>1. T \in Nat /\ A \in Nat
  BY WonNext DEF WinnerInput
<1>2. Wins(s, "T") = T /\ Wins(s, "A") = A
  BY WinsAreWon
<1>3. WinnerAnswer(s) =
        CASE Wins(s, "T") > Wins(s, "A") -> "t"
          [] Wins(s, "T") < Wins(s, "A") -> "a"
          [] OTHER -> IF Reached(s, "T") < Reached(s, "A") THEN "t" ELSE "a"
  BY DEF WinnerAnswer, Reached
<1> HIDE DEF T, A
<1>4. /\ T > A => WinnerAnswer(s) = "t"
      /\ A > T => WinnerAnswer(s) = "a"
      /\ T = A => WinnerAnswer(s) = IF Reached(s, "T") < Reached(s, "A") THEN "t" ELSE "a"
  BY <1>1, <1>2, <1>3
<1> QED BY <1>1, <1>2, <1>4 DEF T, A

(* Each of its steps keeps that.                                            *)
LEMMA WinnerGoesOn == WinnerGood /\ WinnerStep => WinnerGood'
<1> SUFFICES ASSUME WinnerGood, WinnerStep PROVE WinnerGood'
  OBVIOUS
<1> DEFINE s == state.in
           m == state.m
           n == state'.m
           T == Won(s, "T", Len(s))
           A == Won(s, "A", Len(s))
<1>0. Running /\ WinnerInput(s) /\ Len(s) \in Nat /\ DOMAIN s = 1..Len(s)
      /\ \A k \in 1..Len(s) : s[k] \in {"T", "A"}
  BY DEF WinnerGood, WinnerInput
<1>1. /\ T \in Nat /\ A \in Nat /\ Wins(s, "T") = T /\ Wins(s, "A") = A
      /\ T > A => WinnerAnswer(s) = "t"
      /\ A > T => WinnerAnswer(s) = "a"
      /\ T = A => WinnerAnswer(s) = IF Reached(s, "T") < Reached(s, "A") THEN "t" ELSE "a"
  BY <1>0, WinnerIs
<1>2. /\ Won(s, "T", 0) = 0 /\ Won(s, "A", 0) = 0
      /\ 0 < Len(s) /\ T + A > 0
  <2>1. Won(s, "T", 0) = 0 /\ Won(s, "A", 0) = 0
    <3>1. ASSUME NEW p PROVE Won(s, p, 0) = 0
      <4>1. Places(s, p, 0) = {}
        BY DEF Places
      <4> QED BY <4>1, FS_EmptySet DEF Won
    <3> QED BY <3>1
  <2>2. 0 < Len(s)
    BY <1>0 DEF WinnerInput
  <2>3. CASE s[1] = "T"
    <3>1. 0 <= Len(s) - 1 /\ Won(s, "T", 0) < Won(s, "T", 1)
      BY <2>2, <2>3, <1>0, WonMore
    <3>2. Won(s, "T", 1) <= T
      BY <1>0, <2>2, WonGrows
    <3>3. Won(s, "T", 1) \in Nat
      BY WonNext
    <3> QED BY <1>1, <2>1, <2>2, <3>1, <3>2, <3>3
  <2>4. CASE s[1] = "A"
    <3>1. 0 <= Len(s) - 1 /\ Won(s, "A", 0) < Won(s, "A", 1)
      BY <2>2, <2>4, <1>0, WonMore
    <3>2. Won(s, "A", 1) <= A
      BY <1>0, <2>2, WonGrows
    <3>3. Won(s, "A", 1) \in Nat
      BY WonNext
    <3> QED BY <1>1, <2>1, <2>2, <3>1, <3>2, <3>3
  <2> QED BY <1>0, <2>2, <2>3, <2>4
<1>3. WinnerGood' <=>
        LET S == state'.in
            T1 == Won(S, "T", Len(S))
            A1 == Won(S, "A", Len(S)) IN
        /\ Running' /\ WinnerInput(S)
        /\ state'.at \in {"scan", "type", "tc", "ac"} =>
             T1 = A1 /\ DOMAIN n = {"i", "t", "a"} /\ n.i \in 0..Len(S)
        /\ state'.at = "scan" =>
             n.t = Won(S, "T", n.i) /\ n.a = Won(S, "A", n.i) /\ n.t < T1 /\ n.a < A1
        /\ state'.at = "type" =>
             /\ n.i > 0 /\ n.t = Won(S, "T", n.i - 1) /\ n.a = Won(S, "A", n.i - 1)
             /\ n.t < T1 /\ n.a < A1
        /\ state'.at = "tc" => /\ n.i > 0 /\ S[n.i] = "T" /\ n.a < A1
                               /\ n.t = Won(S, "T", n.i) /\ n.a = Won(S, "A", n.i)
        /\ state'.at = "ac" => /\ n.i > 0 /\ S[n.i] = "A" /\ n.t < T1
                               /\ n.t = Won(S, "T", n.i) /\ n.a = Won(S, "A", n.i)
        /\ state'.at = "t" => WinnerAnswer(S) = "t"
        /\ state'.at = "a" => WinnerAnswer(S) = "a"
  BY DEF WinnerGood, At
<1> HIDE DEF n
<1>4. CASE At("start") /\ Go("count", m)
  <2>1. Running' /\ state'.at = "count" /\ state'.in = s
    BY <1>0, <1>4, StepsGo
  <2> QED BY <1>0, <1>3, <2>1
<1>5. CASE At("count") /\ Go("totals", m)
  <2>1. Running' /\ state'.at = "totals" /\ state'.in = s
    BY <1>0, <1>5, StepsGo
  <2> QED BY <1>0, <1>3, <2>1
<1>6. CASE At("totals") /\ T # A /\ Go(IF T > A THEN "t" ELSE "a", m)
  <2>1. Running' /\ state'.at = (IF T > A THEN "t" ELSE "a") /\ state'.in = s
    BY <1>0, <1>6, StepsGo
  <2>2. WinnerAnswer(s) = IF T > A THEN "t" ELSE "a"
    BY <1>1, <1>6
  <2> QED BY <1>0, <1>3, <2>1, <2>2
<1>7. CASE At("totals") /\ T = A /\ Go("scan", [i |-> 0, t |-> 0, a |-> 0])
  <2>1. /\ Running' /\ state'.at = "scan" /\ state'.in = s
        /\ DOMAIN n = {"i", "t", "a"} /\ n.i = 0 /\ n.t = 0 /\ n.a = 0
    BY <1>0, <1>7, StepsGo DEF n
  <2> QED BY <1>0, <1>1, <1>2, <1>3, <1>7, <2>1
<1>8. CASE At("scan") /\ Go("type", [m EXCEPT !.i = @ + 1])
  <2>0. /\ T = A /\ DOMAIN m = {"i", "t", "a"} /\ m.i \in 0..Len(s)
        /\ m.t = Won(s, "T", m.i) /\ m.a = Won(s, "A", m.i) /\ m.t < T /\ m.a < A
    BY <1>8 DEF WinnerGood
  <2>1. /\ Running' /\ state'.at = "type" /\ state'.in = s /\ n = [m EXCEPT !.i = @ + 1]
    BY <1>0, <1>8, StepsGo DEF n
  <2>2. DOMAIN n = {"i", "t", "a"} /\ n.i = m.i + 1 /\ n.t = m.t /\ n.a = m.a
    BY <2>0, <2>1
  <2>3. m.i # Len(s)
    <3>1. m.i = Len(s) => m.t = T
      BY <2>0
    <3> HIDE DEF T
    <3> QED BY <1>1, <2>0, <3>1
  <2> HIDE DEF s, m, T, A
  <2>4. n.i \in 0..Len(s) /\ n.i > 0 /\ n.i - 1 = m.i
    BY <1>0, <2>0, <2>2, <2>3
  <2>5. n.t = Won(s, "T", n.i - 1) /\ n.a = Won(s, "A", n.i - 1)
    BY <2>0, <2>2, <2>4
  <2> QED BY <1>0, <1>3, <2>0, <2>1, <2>2, <2>4, <2>5 DEF T, A
<1>9. CASE At("type") /\ s[m.i] = "T" /\ Go("tc", [m EXCEPT !.t = @ + 1])
  <2>0. /\ T = A /\ DOMAIN m = {"i", "t", "a"} /\ m.i \in 0..Len(s) /\ m.i > 0
        /\ m.t = Won(s, "T", m.i - 1) /\ m.a = Won(s, "A", m.i - 1) /\ m.t < T /\ m.a < A
    BY <1>9 DEF WinnerGood
  <2>1. /\ Running' /\ state'.at = "tc" /\ state'.in = s /\ n = [m EXCEPT !.t = @ + 1]
    BY <1>0, <1>9, StepsGo DEF n
  <2>2. DOMAIN n = {"i", "t", "a"} /\ n.i = m.i /\ n.t = m.t + 1 /\ n.a = m.a
    BY <2>0, <2>1
  <2>3. s[m.i] = "T"
    BY <1>9
  <2> HIDE DEF s, m, T, A
  <2>4. m.i - 1 \in Nat /\ (m.i - 1) + 1 = m.i
    BY <1>0, <2>0
  <2>5. /\ s[(m.i - 1) + 1] = "T" => Won(s, "T", (m.i - 1) + 1) = Won(s, "T", m.i - 1) + 1
        /\ s[(m.i - 1) + 1] # "A" => Won(s, "A", (m.i - 1) + 1) = Won(s, "A", m.i - 1)
    BY <2>4, WonNext
  <2>6. n.t = Won(s, "T", n.i) /\ n.a = Won(s, "A", n.i)
    BY <2>0, <2>2, <2>3, <2>4, <2>5
  <2> QED BY <1>0, <1>3, <2>0, <2>1, <2>2, <2>3, <2>6 DEF T, A
<1>10. CASE At("type") /\ s[m.i] = "A" /\ Go("ac", [m EXCEPT !.a = @ + 1])
  <2>0. /\ T = A /\ DOMAIN m = {"i", "t", "a"} /\ m.i \in 0..Len(s) /\ m.i > 0
        /\ m.t = Won(s, "T", m.i - 1) /\ m.a = Won(s, "A", m.i - 1) /\ m.t < T /\ m.a < A
    BY <1>10 DEF WinnerGood
  <2>1. /\ Running' /\ state'.at = "ac" /\ state'.in = s /\ n = [m EXCEPT !.a = @ + 1]
    BY <1>0, <1>10, StepsGo DEF n
  <2>2. DOMAIN n = {"i", "t", "a"} /\ n.i = m.i /\ n.t = m.t /\ n.a = m.a + 1
    BY <2>0, <2>1
  <2>3. s[m.i] = "A"
    BY <1>10
  <2> HIDE DEF s, m, T, A
  <2>4. m.i - 1 \in Nat /\ (m.i - 1) + 1 = m.i
    BY <1>0, <2>0
  <2>5. /\ s[(m.i - 1) + 1] = "A" => Won(s, "A", (m.i - 1) + 1) = Won(s, "A", m.i - 1) + 1
        /\ s[(m.i - 1) + 1] # "T" => Won(s, "T", (m.i - 1) + 1) = Won(s, "T", m.i - 1)
    BY <2>4, WonNext
  <2>6. n.t = Won(s, "T", n.i) /\ n.a = Won(s, "A", n.i)
    BY <2>0, <2>2, <2>3, <2>4, <2>5
  <2> QED BY <1>0, <1>3, <2>0, <2>1, <2>2, <2>3, <2>6 DEF T, A
<1>11. CASE At("tc") /\ Branch(m.t = T, "t", "scan")
  <2>0. /\ T = A /\ DOMAIN m = {"i", "t", "a"} /\ m.i \in 0..Len(s) /\ m.i > 0 /\ s[m.i] = "T"
        /\ m.a < A /\ m.t = Won(s, "T", m.i) /\ m.a = Won(s, "A", m.i)
    BY <1>11 DEF WinnerGood
  <2>1. /\ Running' /\ state'.at = (IF m.t = T THEN "t" ELSE "scan") /\ state'.in = s /\ n = m
    BY <1>0, <1>11, StepsGo DEF n
  <2> HIDE DEF s, m, T, A
  <2>2. CASE m.t = T
    <3>1. m.i \in 1..Len(s)
      BY <1>0, <2>0
    <3>2. /\ Reached(s, "T") \in Nat /\ Reached(s, "A") \in Nat
          /\ Reached(s, "T") < Reached(s, "A")
      BY <1>0, <2>0, <2>2, <3>1, AheadWins DEF T, A
    <3>3. WinnerAnswer(s) = "t"
      BY <1>1, <2>0, <3>2
    <3> QED BY <1>0, <1>3, <2>1, <2>2, <3>3
  <2>3. CASE m.t # T
    <3>1. Won(s, "T", m.i) <= T /\ Won(s, "T", m.i) \in Nat
      BY <1>0, <2>0, WonGrows, WonNext DEF T
    <3>2. m.t < T
      BY <1>1, <2>0, <2>3, <3>1
    <3> QED BY <1>0, <1>3, <2>0, <2>1, <2>3, <3>2 DEF T, A
  <2> QED BY <2>2, <2>3
<1>12. CASE At("ac") /\ Branch(m.a = A, "a", "scan")
  <2>0. /\ T = A /\ DOMAIN m = {"i", "t", "a"} /\ m.i \in 0..Len(s) /\ m.i > 0 /\ s[m.i] = "A"
        /\ m.t < T /\ m.t = Won(s, "T", m.i) /\ m.a = Won(s, "A", m.i)
    BY <1>12 DEF WinnerGood
  <2>1. /\ Running' /\ state'.at = (IF m.a = A THEN "a" ELSE "scan") /\ state'.in = s /\ n = m
    BY <1>0, <1>12, StepsGo DEF n
  <2> HIDE DEF s, m, T, A
  <2>2. CASE m.a = A
    <3>1. m.i \in 1..Len(s)
      BY <1>0, <2>0
    <3>2. /\ Reached(s, "A") \in Nat /\ Reached(s, "T") \in Nat
          /\ Reached(s, "A") < Reached(s, "T")
      BY <1>0, <2>0, <2>2, <3>1, AheadWins DEF T, A
    <3>3. WinnerAnswer(s) = "a"
      BY <1>1, <2>0, <3>2
    <3> QED BY <1>0, <1>3, <2>1, <2>2, <3>3
  <2>3. CASE m.a # A
    <3>1. Won(s, "A", m.i) <= A /\ Won(s, "A", m.i) \in Nat
      BY <1>0, <2>0, WonGrows, WonNext DEF A
    <3>2. m.a < A
      BY <1>1, <2>0, <2>3, <3>1
    <3> QED BY <1>0, <1>3, <2>0, <2>1, <2>3, <3>2 DEF T, A
  <2> QED BY <2>2, <2>3
<1>13. \/ At("start") /\ Go("count", m)
       \/ At("count") /\ Go("totals", m)
       \/ At("totals") /\ T # A /\ Go(IF T > A THEN "t" ELSE "a", m)
       \/ At("totals") /\ T = A /\ Go("scan", [i |-> 0, t |-> 0, a |-> 0])
       \/ At("scan") /\ Go("type", [m EXCEPT !.i = @ + 1])
       \/ At("type") /\ s[m.i] = "T" /\ Go("tc", [m EXCEPT !.t = @ + 1])
       \/ At("type") /\ s[m.i] = "A" /\ Go("ac", [m EXCEPT !.a = @ + 1])
       \/ At("tc") /\ Branch(m.t = T, "t", "scan")
       \/ At("ac") /\ Branch(m.a = A, "a", "scan")
  BY <1>1 DEF WinnerStep
<1> HIDE DEF s, m, T, A
<1> QED BY <1>4, <1>5, <1>6, <1>7, <1>8, <1>9, <1>10, <1>11, <1>12, <1>13

(* Its scenario ends with one of the two.                                   *)
LEMMA WinnerEnds == \A id \in Ends(WinnerDiagram) : id \in {"t", "a"}
<1> SUFFICES ASSUME NEW id \in Ends(WinnerDiagram) PROVE id \in {"t", "a"}
  OBVIOUS
<1> DEFINE names == {"event", "start", "etl", "count", "decision", "totals", "end", "t", "a",
                     "scan", "type", "tc", "ac"}
           nodes == << <<"event", "start">>, <<"etl", "count">>, <<"decision", "totals">>,
                       <<"end", "t", "a">>, <<"etl", "scan">>,
                       <<"decision", "type", "tc", "ac">> >>
           edges == << <<"start", "count">>, <<"count", "totals">>, <<"totals", "t", "a", "scan">>,
                       <<"scan", "type">>, <<"type", "tc", "ac">>, <<"tc", "t">>, <<"ac", "a">>,
                       <<"tc", "scan">>, <<"ac", "scan">> >>
<1>1. WinnerDiagram = Graph("td", nodes, edges)
  BY DEF WinnerDiagram, Scenario
<1>2. nodes \in Seq(Seq(names))
  OBVIOUS
<1>3. /\ DOMAIN nodes = 1..6 /\ nodes[1][1] # "end" /\ nodes[2][1] # "end" /\ nodes[3][1] # "end"
      /\ nodes[5][1] # "end" /\ nodes[6][1] # "end"
      /\ Len(nodes[4]) = 3 /\ nodes[4][2] = "t" /\ nodes[4][3] = "a"
  OBVIOUS
<1> HIDE DEF nodes, edges, names
<1>4. \A n \in DOMAIN nodes : nodes[n][1] = "end" => n = 4
  BY <1>3
<1>5. \A i \in 2..Len(nodes[4]) : nodes[4][i] \in {"t", "a"}
  BY <1>3
<1>6. PICK n \in DOMAIN nodes : \E i \in 2..Len(nodes[n]) : nodes[n][1] = "end" /\ id = nodes[n][i]
  BY <1>1, <1>2, EndsAre
<1> QED BY <1>4, <1>5, <1>6

(* impartial-gift: how many gifts are below a value, and not above it.      *)
Under(s, v) == {i \in DOMAIN s : s[i] < v}
UpTo(s, v) == {i \in DOMAIN s : s[i] <= v}
AtRank(s, v, k) == v \in Range(s) /\ Cardinality(Under(s, v)) < k /\ Cardinality(UpTo(s, v)) >= k

(* The first so many of a sequence.                                         *)
LEMMA UpToSize == ASSUME NEW n \in Nat PROVE IsFiniteSet(1..n) /\ Cardinality(1..n) = n
<1>1. IsFiniteSet(1..n) /\ Cardinality(1..n) = IF 1 > n THEN 0 ELSE n - 1 + 1
  BY FS_Interval
<1> QED BY <1>1

(* The more the greater the value.                                          *)
LEMMA UnderUpTo ==
  ASSUME NEW s \in Seq(Nat), NEW v \in Nat, NEW w \in Nat
  PROVE  /\ Cardinality(Under(s, v)) \in Nat /\ Cardinality(UpTo(s, v)) \in Nat
         /\ v < w => Cardinality(UpTo(s, v)) <= Cardinality(Under(s, w))
<1>0. IsFiniteSet(DOMAIN s) /\ \A i \in DOMAIN s : s[i] \in Nat
  BY FS_Interval
<1>1. IsFiniteSet(Under(s, v)) /\ IsFiniteSet(UpTo(s, v)) /\ IsFiniteSet(Under(s, w))
  BY <1>0, FS_Subset DEF Under, UpTo
<1>2. v < w => UpTo(s, v) \subseteq Under(s, w)
  BY <1>0 DEF Under, UpTo
<1> QED BY <1>1, <1>2, FS_CardinalityType, FS_Subset

(* No two values are the k-th, and there is one: the least that has k or    *)
(* more not above it.                                                       *)
LEMMA HoldsOne ==
  ASSUME NEW s \in Seq(Nat), NEW k \in Nat, NEW l \in Nat, k <= l,
         NEW v, AtRank(s, v, k), NEW w, AtRank(s, w, l)
  PROVE  v \in Nat /\ w \in Nat /\ v <= w
<1>1. v \in Nat /\ w \in Nat
  BY DEF AtRank, Range
<1>2. /\ Cardinality(Under(s, v)) < k /\ Cardinality(UpTo(s, w)) >= l
      /\ Cardinality(Under(s, v)) \in Nat /\ Cardinality(UpTo(s, w)) \in Nat
  BY <1>1, UnderUpTo DEF AtRank
<1>3. w < v => Cardinality(UpTo(s, w)) <= Cardinality(Under(s, v))
  BY <1>1, UnderUpTo
<1> QED BY <1>1, <1>2, <1>3

(* Every rank is held.                                                      *)
LEMMA HoldsSome ==
  ASSUME NEW s \in Seq(Nat), NEW k \in DOMAIN s
  PROVE  \E v : AtRank(s, v, k)
<1> DEFINE V == {v \in Range(s) : Cardinality(UpTo(s, v)) >= k}
<1>0. /\ IsFiniteSet(DOMAIN s) /\ DOMAIN s = 1..Len(s) /\ Len(s) \in Nat
      /\ Cardinality(DOMAIN s) = Len(s) /\ \A i \in DOMAIN s : s[i] \in Nat
      /\ k \in Nat /\ k >= 1 /\ k <= Len(s)
  <2>1. DOMAIN s = 1..Len(s) /\ Len(s) \in Nat /\ \A i \in DOMAIN s : s[i] \in Nat
    OBVIOUS
  <2>2. IsFiniteSet(1..Len(s)) /\ Cardinality(1..Len(s)) = Len(s)
    BY <2>1, UpToSize
  <2> QED BY <2>1, <2>2
<1>1. IsFiniteSet(Range(s)) /\ Range(s) \in SUBSET Nat /\ s[k] \in Range(s)
  <2>1. Range(s) \in SUBSET Nat /\ s[k] \in Range(s)
    BY <1>0 DEF Range
  <2>2. s \in Surjection(DOMAIN s, Range(s))
    <3>1. s \in [DOMAIN s -> Range(s)]
      <4>1. s = [i \in DOMAIN s |-> s[i]]
        OBVIOUS
      <4>2. \A i \in DOMAIN s : s[i] \in Range(s)
        BY DEF Range
      <4> QED BY <4>1, <4>2
    <3>2. \A v \in Range(s) : \E i \in DOMAIN s : s[i] = v
      BY DEF Range
    <3> QED BY <3>1, <3>2 DEF Surjection
  <2> QED BY <1>0, <2>1, <2>2, FS_Surjection
<1>2. V # {}
  <2>1. PICK t \in Range(s) : \A v \in Range(s) : v <= t
    BY <1>1, GreatestElement
  <2>2. UpTo(s, t) = DOMAIN s
    BY <2>1 DEF UpTo, Range
  <2> QED BY <1>0, <2>1, <2>2
<1>3. PICK v \in V : \A w \in V : v <= w
  BY <1>1, <1>2, LeastElement
<1>4. v \in Nat /\ v \in Range(s) /\ Cardinality(UpTo(s, v)) >= k
  BY <1>1, <1>3
<1>5. Cardinality(Under(s, v)) < k
  <2> DEFINE W == {w \in Range(s) : w < v}
  <2>1. CASE W = {}
    <3>1. Under(s, v) = {}
      BY <2>1 DEF Under, Range
    <3> QED BY <1>0, <3>1, FS_EmptySet
  <2>2. CASE W # {}
    <3>1. IsFiniteSet(W) /\ W \in SUBSET Nat
      BY <1>1, FS_Subset
    <3>2. PICK u \in W : \A w \in W : w <= u
      BY <2>2, <3>1, GreatestElement
    <3>3. u \in Nat /\ u \in Range(s) /\ u < v /\ \A w \in Range(s) : w < v => w <= u
      BY <1>1, <3>2
    <3>4. Under(s, v) = UpTo(s, u)
      <4>1. \A i \in DOMAIN s : s[i] \in Range(s) /\ s[i] \in Nat
        BY <1>0 DEF Range
      <4>2. \A i \in DOMAIN s : s[i] < v <=> s[i] <= u
        BY <1>4, <3>3, <4>1
      <4> QED BY <4>2 DEF Under, UpTo
    <3>5. u \notin V
      BY <1>3, <1>4, <3>3
    <3>6. Cardinality(UpTo(s, u)) \in Nat
      BY <3>3, UnderUpTo
    <3> QED BY <1>0, <3>3, <3>4, <3>5, <3>6
  <2> QED BY <2>1, <2>2
<1> QED BY <1>4, <1>5 DEF AtRank

(* So sorting leaves the same gifts in order.                               *)
LEMMA SortedIs ==
  ASSUME NEW s \in Seq(Nat)
  PROVE  /\ Sorted(s) \in Seq(Nat) /\ Len(Sorted(s)) = Len(s) /\ Range(Sorted(s)) = Range(s)
         /\ \A k, l \in 1..Len(s) : k <= l => Sorted(s)[k] <= Sorted(s)[l]
<1> DEFINE t == Sorted(s)
<1>0. DOMAIN s = 1..Len(s) /\ Len(s) \in Nat
  OBVIOUS
<1>1. DOMAIN t = 1..Len(s)
  BY <1>0 DEF Sorted
<1>2. ASSUME NEW k \in 1..Len(s) PROVE AtRank(s, t[k], k)
  <2>1. t[k] = CHOOSE v \in Range(s) : /\ Cardinality(Under(s, v)) < k
                                       /\ Cardinality(UpTo(s, v)) >= k
    BY <1>0 DEF Sorted, Under, UpTo
  <2>2. \E v \in Range(s) : Cardinality(Under(s, v)) < k /\ Cardinality(UpTo(s, v)) >= k
    BY <1>0, HoldsSome DEF AtRank
  <2> HIDE DEF t
  <2> QED BY <2>1, <2>2 DEF AtRank
<1> DEFINE of(k) == CHOOSE v \in Range(s) : /\ Cardinality({i \in DOMAIN s : s[i] < v}) < k
                                            /\ Cardinality({i \in DOMAIN s : s[i] <= v}) >= k
<1>7. t = [k \in 1..Len(s) |-> t[k]]
  <2>1. t = [k \in DOMAIN s |-> of(k)]
    BY DEF Sorted
  <2> HIDE DEF t, of
  <2> QED BY <1>0, <2>1
<1> HIDE DEF t, of
<1>3. \A k \in 1..Len(s) : t[k] \in Nat /\ t[k] \in Range(s)
  BY <1>2 DEF AtRank, Range
<1>4. t \in Seq(Nat) /\ Len(t) = Len(s)
  BY <1>0, <1>1, <1>3, <1>7
<1>5. ASSUME NEW k \in 1..Len(s), NEW l \in 1..Len(s), k <= l PROVE t[k] <= t[l]
  BY <1>2, <1>5, HoldsOne
<1>6. ASSUME NEW v \in Range(s) PROVE v \in Range(t)
  <2> DEFINE k == Cardinality(UpTo(s, v))
  <2>1. PICK i \in DOMAIN s : s[i] = v
    BY DEF Range
  <2>2. v \in Nat /\ i \in UpTo(s, v) \ Under(s, v) /\ Under(s, v) \subseteq UpTo(s, v)
    BY <2>1 DEF UpTo, Under
  <2>3. IsFiniteSet(DOMAIN s) /\ Cardinality(DOMAIN s) = Len(s)
    <3>1. IsFiniteSet(1..Len(s)) /\ Cardinality(1..Len(s)) = Len(s)
      BY <1>0, UpToSize
    <3> QED BY <1>0, <3>1
  <2>4. IsFiniteSet(UpTo(s, v)) /\ k <= Len(s) /\ k \in Nat
    BY <2>3, FS_Subset, FS_CardinalityType DEF UpTo
  <2>5. Cardinality(Under(s, v)) < k /\ Cardinality(Under(s, v)) \in Nat
    <3>1. IsFiniteSet(Under(s, v)) /\ Under(s, v) # UpTo(s, v)
      BY <2>2, <2>4, FS_Subset
    <3>2. /\ Cardinality(Under(s, v)) <= Cardinality(UpTo(s, v))
          /\ Cardinality(Under(s, v)) = Cardinality(UpTo(s, v)) => Under(s, v) = UpTo(s, v)
      BY <2>2, <2>4, FS_Subset
    <3>3. Cardinality(Under(s, v)) \in Nat
      BY <3>1, FS_CardinalityType
    <3> HIDE DEF k
    <3> QED BY <2>4, <3>1, <3>2, <3>3 DEF k
  <2>6. AtRank(s, v, k) /\ k \in 1..Len(s)
    BY <1>0, <2>4, <2>5 DEF AtRank
  <2> HIDE DEF k
  <2>7. AtRank(s, t[k], k)
    BY <1>2, <2>6
  <2>8. v <= t[k] /\ t[k] <= v /\ v \in Nat /\ t[k] \in Nat
    BY <2>4, <2>6, <2>7, HoldsOne
  <2> QED BY <1>1, <2>6, <2>8 DEF Range
<1>8. Range(t) \subseteq Range(s)
  BY <1>1, <1>3 DEF Range
<1> QED BY <1>4, <1>5, <1>6, <1>8 DEF t

(* A gift of A and one of B that are near enough, and the best of the gifts *)
(* of A before one and those of B.                                          *)
NearEnough(D, a, b) == a - D <= b /\ b <= a + D
IsBest(x, B, i, best) ==
  /\ best \in Int /\ best >= -1
  /\ \A j \in 1..(i - 1), k \in 1..Len(B) : NearEnough(x.D, x.A[j], B[k]) => x.A[j] + B[k] <= best
  /\ best # -1 => \E j \in 1..(i - 1), k \in 1..Len(B) :
                    NearEnough(x.D, x.A[j], B[k]) /\ x.A[j] + B[k] = best

(* Near enough: no further apart than D, either way.                        *)
LEMMA NearIs ==
  \A D, a, b \in Nat : NearEnough(D, a, b) <=> a - b \in -D..D
<1> SUFFICES ASSUME NEW D \in Nat, NEW a \in Nat, NEW b \in Nat
             PROVE  NearEnough(D, a, b) <=> a - b \in -D..D
  OBVIOUS
<1>1. a - b \in -D..D <=> a - b \in Int /\ -D <= a - b /\ a - b <= D
  OBVIOUS
<1> QED BY <1>1 DEF NearEnough

(* impartial-gift: the gifts of B are in order; what is left of the index   *)
(* found is not above the gift of A and D, what is right of the search is.  *)
GiftInput(x) == x.A \in Seq(Nat) /\ x.B \in Seq(Nat) /\ x.D \in Nat
GiftSearched(m) ==
  /\ m.left \in Nat /\ m.right \in Nat /\ m.idx \in Nat
  /\ m.left >= 1 /\ m.left <= m.right + 1 /\ m.right <= Len(m.B) /\ m.idx = m.left - 1
GiftSplit(x, m) ==
  \A k \in 1..Len(m.B) : /\ k < m.left => m.B[k] <= x.A[m.i] + x.D
                         /\ k > m.right => m.B[k] > x.A[m.i] + x.D
GiftGood ==
  LET x == state.in
      m == state.m
      mid == (m.left + m.right) \div 2
      searching == {"mid", "compare", "right", "left", "valid", "update"} IN
  /\ Running /\ GiftInput(x)
  /\ state.at # "start" => /\ DOMAIN m = {"i", "best", "B", "left", "right", "idx"}
                           /\ m.B = Sorted(x.B) /\ m.i \in 1..(Len(x.A) + 1)
                           /\ IsBest(x, m.B, m.i, m.best)
  /\ At("search") \/ state.at \in searching => m.i <= Len(x.A)
  /\ state.at \in searching => GiftSearched(m) /\ GiftSplit(x, m)
  /\ state.at \in {"compare", "right", "left"} => m.left <= m.right
  /\ At("right") => m.B[mid] <= x.A[m.i] + x.D
  /\ At("left") => m.B[mid] > x.A[m.i] + x.D
  /\ At("valid") \/ At("update") => m.left = m.right + 1
  /\ At("update") => m.idx # 0 /\ m.B[m.idx] >= x.A[m.i] - x.D
  /\ At("end") => m.i = Len(x.A) + 1

(* What is known of a gift of A and the gifts of B that the search split.   *)
LEMMA GiftsSplit ==
  ASSUME NEW x, GiftInput(x), NEW m, m.B = Sorted(x.B), m.i \in 1..Len(x.A),
         GiftSearched(m), GiftSplit(x, m), m.left = m.right + 1
  PROVE  /\ m.idx # 0 => m.idx \in 1..Len(m.B) /\ m.B[m.idx] <= x.A[m.i] + x.D
         /\ \A k \in 1..Len(m.B) : NearEnough(x.D, x.A[m.i], m.B[k]) =>
              m.idx # 0 /\ m.B[k] <= m.B[m.idx] /\ m.B[m.idx] >= x.A[m.i] - x.D
<1>1. /\ m.B \in Seq(Nat) /\ Len(m.B) = Len(x.B) /\ Len(m.B) \in Nat
      /\ \A k, l \in 1..Len(m.B) : k <= l => m.B[k] <= m.B[l]
  <2> DEFINE b == Sorted(x.B)
  <2>1. x.B \in Seq(Nat) /\ Len(x.B) \in Nat
    BY DEF GiftInput
  <2>2. /\ b \in Seq(Nat) /\ Len(b) = Len(x.B)
        /\ \A k, l \in 1..Len(x.B) : k <= l => b[k] <= b[l]
    BY <2>1, SortedIs, Zenon
  <2> HIDE DEF b
  <2>3. /\ b \in Seq(Nat) /\ Len(b) = Len(x.B) /\ Len(b) \in Nat
        /\ \A k, l \in 1..Len(b) : k <= l => b[k] <= b[l]
    BY <2>1, <2>2
  <2> QED BY <2>3 DEF b
<1>2. /\ m.idx \in Nat /\ m.right = m.idx /\ m.left = m.idx + 1 /\ m.idx <= Len(m.B)
  BY DEF GiftSearched
<1>3. x.A[m.i] \in Nat /\ x.D \in Nat
  BY DEF GiftInput
<1> DEFINE a == x.A[m.i]
           D == x.D
           B == m.B
           t == m.idx
<1>4. \A k \in 1..Len(B) : B[k] \in Nat /\ (k <= t => B[k] <= a + D) /\ (k > t => B[k] > a + D)
  BY <1>1, <1>2 DEF GiftSplit
<1>5. t # 0 => t \in 1..Len(B)
  BY <1>1, <1>2
<1>6. a \in Nat /\ D \in Nat /\ t \in Nat
      /\ \A k, l \in 1..Len(B) : k <= l => B[k] <= B[l]
  BY <1>1, <1>2, <1>3
<1>7. (t # 0 => B[t] <= a + D)
      /\ \A k \in 1..Len(B) : NearEnough(D, a, B[k]) => t # 0 /\ B[k] <= B[t] /\ B[t] >= a - D
  <2> HIDE DEF a, B, D, t
  <2>1. t # 0 => B[t] <= a + D
    BY <1>4, <1>5, <1>6
  <2>2. ASSUME NEW k \in 1..Len(B), NearEnough(D, a, B[k])
        PROVE  t # 0 /\ B[k] <= B[t] /\ B[t] >= a - D
    <3>1. B[k] \in Nat /\ a - D <= B[k] /\ B[k] <= a + D /\ k \in Nat
      BY <1>4, <2>2 DEF NearEnough
    <3>2. k <= t
      BY <1>4, <1>6, <3>1
    <3>3. t # 0 /\ t \in 1..Len(B)
      BY <1>5, <1>6, <3>2
    <3>4. B[k] <= B[t] /\ B[t] \in Nat
      BY <1>4, <1>6, <3>2, <3>3
    <3> QED BY <1>6, <3>1, <3>3, <3>4
  <2> QED BY <2>1, <2>2
<1> QED BY <1>5, <1>7

(* One more gift of A, with its best or with none.                          *)
LEMMA BestGoesOn ==
  ASSUME NEW x, GiftInput(x), NEW m, m.B = Sorted(x.B), m.i \in 1..Len(x.A),
         GiftSearched(m), GiftSplit(x, m), m.left = m.right + 1,
         IsBest(x, m.B, m.i, m.best)
  PROVE  /\ m.idx = 0 \/ m.B[m.idx] < x.A[m.i] - x.D => IsBest(x, m.B, m.i + 1, m.best)
         /\ m.idx # 0 /\ m.B[m.idx] >= x.A[m.i] - x.D =>
              IsBest(x, m.B, m.i + 1, Max({m.best, x.A[m.i] + m.B[m.idx]}))
<1> DEFINE a == x.A[m.i]
           B == m.B
           t == m.idx
           D == x.D
           i == m.i
           near == t # 0 /\ B[t] >= a - D
<1>1. /\ t # 0 => t \in 1..Len(B) /\ B[t] <= a + D
      /\ \A k \in 1..Len(B) : NearEnough(D, a, B[k]) => t # 0 /\ B[k] <= B[t] /\ B[t] >= a - D
  BY GiftsSplit
<1>2. /\ a \in Nat /\ D \in Nat /\ i \in Nat /\ i >= 1 /\ Len(x.A) \in Nat
      /\ \A j \in 1..Len(x.A) : x.A[j] \in Nat
  BY DEF GiftInput
<1>3. \A k \in 1..Len(B) : B[k] \in Nat
  <2>1. B \in Seq(Nat)
    BY SortedIs DEF GiftInput
  <2> QED BY <2>1
<1>4. t = 0 \/ (t \in Nat /\ t # 0)
  BY DEF GiftSearched
<1>5. /\ m.best \in Int /\ m.best >= -1
      /\ \A j \in 1..(i - 1), k \in 1..Len(B) : NearEnough(D, x.A[j], B[k]) => x.A[j] + B[k] <= m.best
      /\ m.best # -1 => \E j \in 1..(i - 1), k \in 1..Len(B) :
                          NearEnough(D, x.A[j], B[k]) /\ x.A[j] + B[k] = m.best
  BY DEF IsBest
<1>a. (i + 1) - 1 = i /\ 1..i = 1..(i - 1) \cup {i} /\ x.A[i] = a /\ i \in 1..Len(x.A)
  <2>1. (i + 1) - 1 = i /\ 1..i = 1..(i - 1) \cup {i}
    BY <1>2
  <2> QED BY <2>1
<1> HIDE DEF a, B, t, D, i
<1>6. ASSUME ~near PROVE IsBest(x, B, i + 1, m.best)
  <2>1. \A k \in 1..Len(B) : ~NearEnough(D, a, B[k])
    BY <1>1, <1>6
  <2>2. \A j \in 1..i, k \in 1..Len(B) : NearEnough(D, x.A[j], B[k]) => x.A[j] + B[k] <= m.best
    BY <1>5, <1>a, <2>1
  <2>3. m.best # -1 => \E j \in 1..i, k \in 1..Len(B) :
                         NearEnough(D, x.A[j], B[k]) /\ x.A[j] + B[k] = m.best
    BY <1>5, <1>a
  <2> QED BY <1>5, <1>a, <2>2, <2>3 DEF IsBest, D
<1>7. ASSUME near PROVE IsBest(x, B, i + 1, Max({m.best, a + B[t]}))
  <2> DEFINE best == Max({m.best, a + B[t]})
  <2>1. t \in 1..Len(B) /\ B[t] \in Nat /\ NearEnough(D, a, B[t])
    BY <1>1, <1>3, <1>7 DEF NearEnough
  <2>2. /\ best \in {m.best, a + B[t]} /\ best \in Int /\ best >= m.best /\ best >= a + B[t]
    <3>1. m.best \in Int /\ a + B[t] \in Int
      BY <1>2, <1>5, <2>1
    <3>2. \E v \in {m.best, a + B[t]} : \A w \in {m.best, a + B[t]} : v >= w
      BY <3>1
    <3>3. best \in {m.best, a + B[t]} /\ \A w \in {m.best, a + B[t]} : best >= w
      BY <3>2 DEF Max
    <3> QED BY <3>1, <3>3
  <2> HIDE DEF best
  <2>3. ASSUME NEW j \in 1..i, NEW k \in 1..Len(B), NearEnough(D, x.A[j], B[k])
        PROVE  x.A[j] + B[k] <= best
    <3>1. CASE j = i
      <4>1. B[k] <= B[t] /\ B[k] \in Nat
        BY <1>1, <1>3, <1>a, <2>3, <3>1
      <4>2. x.A[j] = a
        BY <1>a, <3>1
      <4>3. a + B[k] <= a + B[t] /\ a + B[t] <= best
        BY <1>2, <2>1, <2>2, <4>1
      <4>4. a + B[k] \in Int /\ a + B[t] \in Int
        BY <1>2, <2>1, <4>1
      <4> QED BY <2>2, <4>2, <4>3, <4>4
    <3>2. CASE j # i
      <4>0. j \in 1..(i - 1)
        BY <1>2, <3>2
      <4>1. x.A[j] + B[k] <= m.best
        BY <1>5, <2>3, <4>0, Zenon
      <4>2. j \in 1..Len(x.A)
        <5>1. i <= Len(x.A)
          BY <1>a
        <5> QED BY <1>2, <4>0, <5>1
      <4> DEFINE v == x.A[j] + B[k]
                 so == m.best
      <4>3. v \in Int
        BY <1>2, <1>3, <4>2
      <4>4. v <= so /\ so \in Int /\ best >= so /\ best \in Int
        BY <1>5, <2>2, <4>1, Zenon
      <4> HIDE DEF v, so
      <4>5. v <= best
        BY <4>3, <4>4
      <4> QED BY <4>5 DEF v
    <3> QED BY <3>1, <3>2
  <2>4. ASSUME best # -1
        PROVE  \E j \in 1..i, k \in 1..Len(B) : NearEnough(D, x.A[j], B[k]) /\ x.A[j] + B[k] = best
    <3>1. CASE best = a + B[t]
      BY <1>a, <2>1, <3>1
    <3>2. CASE best = m.best
      BY <1>5, <1>a, <2>4, <3>2
    <3> QED BY <2>2, <3>1, <3>2
  <2>5. best >= -1
    BY <1>5, <2>2
  <2> QED BY <1>a, <2>2, <2>3, <2>4, <2>5 DEF IsBest, best, D
<1>8. t = 0 \/ B[t] < a - D => ~near
  <2>1. CASE t = 0
    BY <2>1
  <2>2. CASE t # 0
    <3>1. B[t] \in Nat
      BY <1>1, <1>3, <2>2
    <3> QED BY <1>2, <2>2, <3>1
  <2> QED BY <2>1, <2>2
<1> QED BY <1>6, <1>7, <1>8 DEF a, B, t, D, i

(* With no gift of A left, it is the best of them all.                      *)
LEMMA BestAnswers ==
  ASSUME NEW x, GiftInput(x), NEW best, IsBest(x, Sorted(x.B), Len(x.A) + 1, best)
  PROVE  best = ImpartialGiftAnswer(x)
<1> DEFINE B == Sorted(x.B)
           P == {p \in Range(x.A) \X Range(x.B) : p[1] - p[2] \in -x.D..x.D}
           S == {-1} \cup {p[1] + p[2] : p \in P}
<1>1. B \in Seq(Nat) /\ Range(B) = Range(x.B)
  BY SortedIs DEF GiftInput
<1>2. /\ (Len(x.A) + 1) - 1 = Len(x.A) /\ DOMAIN x.A = 1..Len(x.A) /\ DOMAIN B = 1..Len(B)
      /\ x.D \in Nat /\ \A j \in 1..Len(x.A) : x.A[j] \in Nat
      /\ \A k \in 1..Len(B) : B[k] \in Nat
  <2>1. x.A \in Seq(Nat) /\ x.D \in Nat
    BY DEF GiftInput
  <2> HIDE DEF B
  <2>2. Len(x.A) \in Nat /\ DOMAIN x.A = 1..Len(x.A) /\ \A j \in 1..Len(x.A) : x.A[j] \in Nat
    BY <2>1
  <2>3. DOMAIN B = 1..Len(B) /\ \A k \in 1..Len(B) : B[k] \in Nat
    BY <1>1
  <2> QED BY <2>1, <2>2, <2>3
<1> HIDE DEF B
<1>3. /\ best \in Int /\ best >= -1
      /\ \A j \in 1..Len(x.A), k \in 1..Len(B) : NearEnough(x.D, x.A[j], B[k]) => x.A[j] + B[k] <= best
      /\ best # -1 => \E j \in 1..Len(x.A), k \in 1..Len(B) :
                        NearEnough(x.D, x.A[j], B[k]) /\ x.A[j] + B[k] = best
  BY <1>2 DEF IsBest, B
<1>4. \A j \in 1..Len(x.A), k \in 1..Len(B) :
        NearEnough(x.D, x.A[j], B[k]) <=> x.A[j] - B[k] \in -x.D..x.D
  BY <1>2, NearIs
<1>5. best \in S
  <2>1. CASE best = -1
    BY <2>1
  <2>2. CASE best # -1
    <3>1. PICK j \in 1..Len(x.A), k \in 1..Len(B) :
            NearEnough(x.D, x.A[j], B[k]) /\ x.A[j] + B[k] = best
      BY <1>3, <2>2
    <3>2. x.A[j] \in Range(x.A) /\ B[k] \in Range(x.B)
      BY <1>1, <1>2 DEF Range
    <3>3. <<x.A[j], B[k]>> \in P
      BY <1>4, <3>1, <3>2
    <3> QED BY <3>1, <3>3
  <2> QED BY <2>1, <2>2
<1>6. ASSUME NEW v \in S PROVE v \in Int /\ best >= v
  <2>1. CASE v = -1
    BY <1>3, <2>1
  <2>2. CASE v # -1
    <3>1. PICK p \in P : v = p[1] + p[2]
      BY <2>2
    <3>2. PICK j \in DOMAIN x.A : p[1] = x.A[j]
      BY DEF Range
    <3>3. p[2] \in Range(B)
      BY <1>1
    <3>4. PICK k \in DOMAIN B : p[2] = B[k]
      BY <3>3 DEF Range
    <3> HIDE DEF P
    <3>5. p[1] - p[2] \in -x.D..x.D
      BY DEF P
    <3>6. NearEnough(x.D, x.A[j], B[k]) /\ v = x.A[j] + B[k] /\ x.A[j] \in Nat /\ B[k] \in Nat
      BY <1>2, <1>4, <3>1, <3>2, <3>4, <3>5
    <3>7. x.A[j] + B[k] <= best
      BY <1>2, <1>3, <3>2, <3>4, <3>6
    <3> QED BY <1>3, <3>6, <3>7
  <2> QED BY <2>1, <2>2
<1> HIDE DEF S
<1>7. \A v \in S : (\A w \in S : v >= w) => v = best
  BY <1>3, <1>5, <1>6
<1>8. Max(S) = best
  BY <1>5, <1>6, <1>7 DEF Max
<1> QED BY <1>8 DEF ImpartialGiftAnswer, S

(* A search halves what is left of it.                                      *)
LEMMA MidIs ==
  ASSUME NEW m, GiftSearched(m), m.left <= m.right
  PROVE  LET mid == (m.left + m.right) \div 2 IN
         mid \in Nat /\ m.left <= mid /\ mid <= m.right /\ mid \in 1..Len(m.B)
<1> DEFINE l == m.left
           r == m.right
           mid == (l + r) \div 2
           n == Len(m.B)
<1>1. l \in Nat /\ r \in Nat /\ l >= 1 /\ l <= r /\ r <= n
  BY DEF GiftSearched
<1>2. n \in Int
  BY <1>1 DEF GiftSearched
<1> HIDE DEF l, r, n
<1>3. mid \in Nat /\ l <= mid /\ mid <= r
  BY <1>1
<1>4. mid \in 1..n
  BY <1>1, <1>2, <1>3
<1> QED BY <1>3, <1>4 DEF l, r, n

(* Taking the right half and taking the left keeps what the search split.   *)
LEMMA SplitGoesOn ==
  ASSUME NEW x, GiftInput(x), NEW m, m.B = Sorted(x.B), m.i \in 1..Len(x.A),
         GiftSearched(m), GiftSplit(x, m), m.left <= m.right, NEW n, n.B = m.B, n.i = m.i
  PROVE  LET mid == (m.left + m.right) \div 2 IN
         /\ /\ m.B[mid] <= x.A[m.i] + x.D
            /\ n.left = mid + 1 /\ n.idx = mid /\ n.right = m.right
            => GiftSearched(n) /\ GiftSplit(x, n)
         /\ /\ m.B[mid] > x.A[m.i] + x.D
            /\ n.left = m.left /\ n.idx = m.idx /\ n.right = mid - 1
            => GiftSearched(n) /\ GiftSplit(x, n)
<1> DEFINE mid == (m.left + m.right) \div 2
           limit == x.A[m.i] + x.D
           B == m.B
<1>1. /\ B \in Seq(Nat) /\ Len(B) \in Nat
      /\ \A k, l \in 1..Len(B) : k <= l => B[k] <= B[l]
  BY SortedIs DEF GiftInput
<1>2. limit \in Nat /\ \A k \in 1..Len(B) : B[k] \in Nat
  <2>1. x.A \in Seq(Nat) /\ m.i \in 1..Len(x.A) /\ x.D \in Nat
    BY DEF GiftInput
  <2> HIDE DEF B
  <2>2. x.A[m.i] \in Nat
    BY <2>1
  <2>3. limit \in Nat
    BY <2>1, <2>2
  <2> QED BY <1>1, <2>3
<1>3. mid \in Nat /\ m.left <= mid /\ mid <= m.right /\ mid \in 1..Len(B)
  BY MidIs
<1>4. /\ m.left \in Nat /\ m.right \in Nat /\ m.idx \in Nat
      /\ m.left >= 1 /\ m.left <= m.right + 1 /\ m.right <= Len(B) /\ m.idx = m.left - 1
      /\ \A k \in 1..Len(B) : (k < m.left => B[k] <= limit) /\ (k > m.right => B[k] > limit)
  BY DEF GiftSearched, GiftSplit
<1> HIDE DEF mid, limit, B
<1>5. ASSUME B[mid] <= limit, n.left = mid + 1, n.idx = mid, n.right = m.right
      PROVE  GiftSearched(n) /\ GiftSplit(x, n)
  <2>1. GiftSearched(n)
    BY <1>3, <1>4, <1>5 DEF GiftSearched, B
  <2>2. ASSUME NEW k \in 1..Len(B) PROVE (k < mid + 1 => B[k] <= limit) /\ (k > m.right => B[k] > limit)
    <3>1. CASE k < mid + 1
      <4>1. k <= mid /\ B[k] <= B[mid]
        BY <1>1, <1>3, <3>1
      <4>2. B[k] \in Nat /\ B[mid] \in Nat /\ k \in Nat
        BY <1>2, <1>3
      <4>3. B[k] <= limit /\ ~(k > m.right)
        BY <1>2, <1>3, <1>4, <1>5, <4>1, <4>2
      <4> QED BY <4>3
    <3> QED BY <1>4, <3>1
  <2> QED BY <1>5, <2>1, <2>2 DEF GiftSplit, B, limit
<1>6. ASSUME B[mid] > limit, n.left = m.left, n.idx = m.idx, n.right = mid - 1
      PROVE  GiftSearched(n) /\ GiftSplit(x, n)
  <2>1. GiftSearched(n)
    BY <1>3, <1>4, <1>6 DEF GiftSearched, B
  <2>2. ASSUME NEW k \in 1..Len(B) PROVE (k < m.left => B[k] <= limit) /\ (k > mid - 1 => B[k] > limit)
    <3>1. CASE k > mid - 1
      <4>1. mid <= k /\ B[mid] <= B[k]
        BY <1>1, <1>3, <3>1
      <4>2. B[k] \in Nat /\ B[mid] \in Nat /\ k \in Nat
        BY <1>2, <1>3
      <4>3. B[k] > limit /\ ~(k < m.left)
        BY <1>2, <1>3, <1>4, <1>6, <4>1, <4>2
      <4> QED BY <4>3
    <3> QED BY <1>4, <3>1
  <2> QED BY <1>6, <2>1, <2>2 DEF GiftSplit, B, limit
<1> QED BY <1>5, <1>6 DEF mid, limit, B

(* Each of its steps keeps that.                                            *)
LEMMA GiftGoesOn == GiftGood /\ ImpartialGiftStep => GiftGood'
<1> SUFFICES ASSUME GiftGood, ImpartialGiftStep PROVE GiftGood'
  OBVIOUS
<1> DEFINE x == state.in
           m == state.m
           n == state'.m
           mid == (m.left + m.right) \div 2
           names == {"i", "best", "B", "left", "right", "idx"}
           searching == {"mid", "compare", "right", "left", "valid", "update"}
           mids(k) == (k.left + k.right) \div 2
<1>0. Running /\ GiftInput(x) /\ Len(x.A) \in Nat
  BY DEF GiftGood, GiftInput
<1>1. state.at # "start" => /\ DOMAIN m = names /\ m.B = Sorted(x.B) /\ m.i \in 1..(Len(x.A) + 1)
                            /\ IsBest(x, m.B, m.i, m.best)
  BY DEF GiftGood
<1>2. state.at \in searching => m.i \in 1..Len(x.A) /\ GiftSearched(m) /\ GiftSplit(x, m)
  <2>1. state.at \in searching =>
          /\ m.i <= Len(x.A) /\ GiftSearched(m) /\ GiftSplit(x, m) /\ m.i \in 1..(Len(x.A) + 1)
    BY DEF GiftGood
  <2> HIDE DEF x, m, searching
  <2> QED BY <1>0, <2>1
<1>3. GiftGood' <=>
        LET X == state'.in IN
        /\ Running' /\ GiftInput(X)
        /\ state'.at # "start" => /\ DOMAIN n = names
                                  /\ n.B = Sorted(X.B) /\ n.i \in 1..(Len(X.A) + 1)
                                  /\ IsBest(X, n.B, n.i, n.best)
        /\ state'.at = "search" \/ state'.at \in searching => n.i <= Len(X.A)
        /\ state'.at \in searching => GiftSearched(n) /\ GiftSplit(X, n)
        /\ state'.at \in {"compare", "right", "left"} => n.left <= n.right
        /\ state'.at = "right" => n.B[mids(n)] <= X.A[n.i] + X.D
        /\ state'.at = "left" => n.B[mids(n)] > X.A[n.i] + X.D
        /\ state'.at = "valid" \/ state'.at = "update" => n.left = n.right + 1
        /\ state'.at = "update" => n.idx # 0 /\ n.B[n.idx] >= X.A[n.i] - X.D
        /\ state'.at = "end" => n.i = Len(X.A) + 1
  BY DEF GiftGood, At
<1> HIDE DEF n
<1>4. CASE At("start") /\ Go("a", [i |-> 1, best |-> -1, B |-> Sorted(x.B),
                                   left |-> 0, right |-> 0, idx |-> 0])
  <2>1. /\ Running' /\ state'.at = "a" /\ state'.in = x
        /\ n = [i |-> 1, best |-> -1, B |-> Sorted(x.B), left |-> 0, right |-> 0, idx |-> 0]
    BY <1>0, <1>4, StepsGo DEF n
  <2> HIDE DEF x
  <2>2. DOMAIN n = names /\ n.i = 1 /\ n.best = -1 /\ n.B = Sorted(x.B)
    BY <2>1
  <2>3. n.i \in 1..(Len(x.A) + 1)
    BY <1>0, <2>2
  <2>4. IsBest(x, n.B, n.i, n.best)
    BY <2>2 DEF IsBest
  <2> QED BY <1>0, <1>3, <2>1, <2>2, <2>3, <2>4
<1>5. CASE At("a") /\ Branch(m.i > Len(x.A), "end", "search")
  <2>1. /\ Running' /\ state'.at = (IF m.i > Len(x.A) THEN "end" ELSE "search")
        /\ state'.in = x /\ n = m /\ state.at # "start"
    BY <1>0, <1>5, StepsGo DEF n, At
  <2>2. m.i \in 1..(Len(x.A) + 1)
    BY <1>1, <2>1
  <2> HIDE DEF x, m
  <2>3. /\ m.i > Len(x.A) => m.i = Len(x.A) + 1
        /\ ~(m.i > Len(x.A)) => m.i <= Len(x.A)
    BY <1>0, <2>2
  <2> QED BY <1>0, <1>1, <1>3, <2>1, <2>3
<1>6. CASE At("search") /\ Go("mid", SearchBounds(m))
  <2>1. /\ Running' /\ state'.at = "mid" /\ state'.in = x /\ n = SearchBounds(m)
        /\ state.at # "start" /\ m.i <= Len(x.A)
    BY <1>0, <1>6, StepsGo DEF n, At, GiftGood
  <2>2. DOMAIN m = names
    BY <1>1, <2>1
  <2>3. /\ DOMAIN n = names /\ n.i = m.i /\ n.best = m.best /\ n.B = m.B
        /\ n.left = 1 /\ n.right = Len(m.B) /\ n.idx = 0
    BY <2>1, <2>2 DEF SearchBounds
  <2>4. Len(m.B) \in Nat
    BY <1>0, <1>1, <2>1, SortedIs DEF GiftInput
  <2> HIDE DEF x, m
  <2>5. GiftSearched(n)
    BY <2>3, <2>4 DEF GiftSearched
  <2>6. GiftSplit(x, n)
    BY <2>3, <2>4 DEF GiftSplit
  <2> QED BY <1>0, <1>1, <1>3, <2>1, <2>3, <2>5, <2>6
<1>7. CASE At("mid") /\ Branch(m.left <= m.right, "compare", "valid")
  <2>1. /\ Running' /\ state'.at = (IF m.left <= m.right THEN "compare" ELSE "valid")
        /\ state'.in = x /\ n = m /\ state.at \in searching /\ state.at # "start"
    BY <1>0, <1>7, StepsGo DEF n, At
  <2>2. GiftSearched(m) /\ m.i <= Len(x.A)
    BY <1>0, <1>2, <2>1
  <2> HIDE DEF x, m
  <2>3. ~(m.left <= m.right) => m.left = m.right + 1
    BY <2>2 DEF GiftSearched
  <2> QED BY <1>0, <1>1, <1>2, <1>3, <2>1, <2>2, <2>3
<1>8. CASE At("compare") /\ Branch(m.B[mid] <= x.A[m.i] + x.D, "right", "left")
  <2>1. /\ Running' /\ state'.at = (IF m.B[mid] <= x.A[m.i] + x.D THEN "right" ELSE "left")
        /\ state'.in = x /\ n = m /\ state.at \in searching /\ state.at # "start"
        /\ m.left <= m.right
    BY <1>0, <1>8, StepsGo DEF n, At, GiftGood
  <2>2. GiftSearched(m) /\ m.i <= Len(x.A) /\ m.i \in 1..Len(x.A) /\ GiftSplit(x, m)
    BY <1>0, <1>2, <2>1
  <2>3. m.B[mid] \in Nat /\ x.A[m.i] + x.D \in Nat
    <3>1. m.B \in Seq(Nat)
      BY <1>0, <1>1, <2>1, SortedIs DEF GiftInput
    <3>2. mid \in 1..Len(m.B)
      BY <2>1, <2>2, MidIs
    <3>3. x.A \in Seq(Nat) /\ x.D \in Nat
      BY <1>0 DEF GiftInput
    <3> HIDE DEF x, m, mid
    <3>4. m.i \in 1..Len(x.A)
      BY <2>2
    <3>5. x.A[m.i] \in Nat
      BY <3>3, <3>4
    <3>6. m.B[mid] \in Nat
      BY <3>1, <3>2
    <3> QED BY <3>3, <3>5, <3>6
  <2> DEFINE low == m.B[mid] <= x.A[m.i] + x.D
  <2>4. ~low => m.B[mid] > x.A[m.i] + x.D
    BY <2>3
  <2>5. mids(n) = mid
    BY <2>1
  <2> HIDE DEF x, m, mid, mids
  <2> QED BY <1>0, <1>1, <1>3, <2>1, <2>2, <2>4, <2>5
<1>9. CASE At("right") /\ Go("mid", [m EXCEPT !.left = mid + 1, !.idx = mid])
  <2>1. /\ Running' /\ state'.at = "mid" /\ state'.in = x
        /\ n = [m EXCEPT !.left = mid + 1, !.idx = mid]
        /\ state.at \in searching /\ state.at # "start"
        /\ m.left <= m.right /\ m.B[mid] <= x.A[m.i] + x.D
    BY <1>0, <1>9, StepsGo DEF n, At, GiftGood
  <2>2. DOMAIN m = names /\ m.i \in 1..Len(x.A) /\ m.i <= Len(x.A)
    BY <1>0, <1>1, <1>2, <2>1
  <2>3. /\ DOMAIN n = names /\ n.i = m.i /\ n.best = m.best /\ n.B = m.B
        /\ n.left = mid + 1 /\ n.right = m.right /\ n.idx = mid
    BY <2>1, <2>2
  <2>4. GiftSearched(n) /\ GiftSplit(x, n)
    BY <1>0, <1>1, <1>2, <2>1, <2>2, <2>3, SplitGoesOn
  <2> HIDE DEF x, m, mid
  <2> QED BY <1>0, <1>1, <1>3, <2>1, <2>2, <2>3, <2>4
<1>10. CASE At("left") /\ Go("mid", [m EXCEPT !.right = mid - 1])
  <2>1. /\ Running' /\ state'.at = "mid" /\ state'.in = x
        /\ n = [m EXCEPT !.right = mid - 1]
        /\ state.at \in searching /\ state.at # "start"
        /\ m.left <= m.right /\ m.B[mid] > x.A[m.i] + x.D
    BY <1>0, <1>10, StepsGo DEF n, At, GiftGood
  <2>2. DOMAIN m = names /\ m.i \in 1..Len(x.A) /\ m.i <= Len(x.A)
    BY <1>0, <1>1, <1>2, <2>1
  <2>3. /\ DOMAIN n = names /\ n.i = m.i /\ n.best = m.best /\ n.B = m.B
        /\ n.left = m.left /\ n.right = mid - 1 /\ n.idx = m.idx
    BY <2>1, <2>2
  <2>4. GiftSearched(n) /\ GiftSplit(x, n)
    BY <1>0, <1>1, <1>2, <2>1, <2>2, <2>3, SplitGoesOn
  <2> HIDE DEF x, m, mid
  <2> QED BY <1>0, <1>1, <1>3, <2>1, <2>2, <2>3, <2>4
<1>11. CASE At("valid") /\ m.idx # 0 /\ m.B[m.idx] >= x.A[m.i] - x.D /\ Go("update", m)
  <2>1. /\ Running' /\ state'.at = "update" /\ state'.in = x /\ n = m
        /\ state.at \in searching /\ state.at # "start" /\ m.left = m.right + 1
    BY <1>0, <1>11, StepsGo DEF n, At, GiftGood
  <2>2. m.i <= Len(x.A)
    BY <1>0, <1>2, <2>1
  <2> HIDE DEF x, m
  <2> QED BY <1>0, <1>1, <1>2, <1>3, <1>11, <2>1, <2>2
<1>12. CASE /\ At("valid") /\ ~(m.idx # 0 /\ m.B[m.idx] >= x.A[m.i] - x.D)
            /\ Go("a", [m EXCEPT !.i = @ + 1])
  <2>1. /\ Running' /\ state'.at = "a" /\ state'.in = x /\ n = [m EXCEPT !.i = @ + 1]
        /\ state.at \in searching /\ state.at # "start" /\ m.left = m.right + 1
    BY <1>0, <1>12, StepsGo DEF n, At, GiftGood
  <2>2. DOMAIN m = names /\ m.i \in 1..Len(x.A)
    BY <1>0, <1>1, <1>2, <2>1
  <2>3. DOMAIN n = names /\ n.i = m.i + 1 /\ n.best = m.best /\ n.B = m.B
    BY <2>1, <2>2
  <2>4. m.idx = 0 \/ m.B[m.idx] < x.A[m.i] - x.D
    <3>1. GiftSearched(m) /\ m.B = Sorted(x.B) /\ GiftSplit(x, m)
      BY <1>1, <1>2, <2>1
    <3>2. m.idx # 0 => m.idx \in 1..Len(m.B)
      BY <1>0, <2>1, <2>2, <3>1, GiftsSplit
    <3>3. m.B \in Seq(Nat)
      BY <1>0, <3>1, SortedIs DEF GiftInput
    <3>4. x.A \in Seq(Nat) /\ x.D \in Nat
      BY <1>0 DEF GiftInput
    <3>5. ~(m.idx # 0 /\ m.B[m.idx] >= x.A[m.i] - x.D)
      BY <1>12
    <3> HIDE DEF x, m
    <3>6. x.A[m.i] \in Nat /\ (m.idx # 0 => m.B[m.idx] \in Nat)
      BY <2>2, <3>2, <3>3, <3>4
    <3> QED BY <3>4, <3>5, <3>6
  <2>5. IsBest(x, m.B, m.i + 1, m.best)
    BY <1>0, <1>1, <1>2, <2>1, <2>2, <2>4, BestGoesOn
  <2> HIDE DEF x, m
  <2>6. n.i \in 1..(Len(x.A) + 1)
    BY <1>0, <2>2, <2>3
  <2> QED BY <1>0, <1>1, <1>3, <2>1, <2>3, <2>5, <2>6
<1>13. CASE /\ At("update")
            /\ Go("a", [m EXCEPT !.i = @ + 1, !.best = Max({@, x.A[m.i] + m.B[m.idx]})])
  <2>1. /\ Running' /\ state'.at = "a" /\ state'.in = x
        /\ n = [m EXCEPT !.i = @ + 1, !.best = Max({@, x.A[m.i] + m.B[m.idx]})]
        /\ state.at \in searching /\ state.at # "start" /\ m.left = m.right + 1
        /\ m.idx # 0 /\ m.B[m.idx] >= x.A[m.i] - x.D
    BY <1>0, <1>13, StepsGo DEF n, At, GiftGood
  <2>2. DOMAIN m = names /\ m.i \in 1..Len(x.A)
    BY <1>0, <1>1, <1>2, <2>1
  <2>3. /\ DOMAIN n = names /\ n.i = m.i + 1 /\ n.B = m.B
        /\ n.best = Max({m.best, x.A[m.i] + m.B[m.idx]})
    BY <2>1, <2>2
  <2>4. IsBest(x, m.B, m.i + 1, Max({m.best, x.A[m.i] + m.B[m.idx]}))
    BY <1>0, <1>1, <1>2, <2>1, <2>2, BestGoesOn
  <2> HIDE DEF x, m
  <2>5. n.i \in 1..(Len(x.A) + 1)
    BY <1>0, <2>2, <2>3
  <2> QED BY <1>0, <1>1, <1>3, <2>1, <2>3, <2>4, <2>5
<1>14. \/ At("start") /\ Go("a", [i |-> 1, best |-> -1, B |-> Sorted(x.B),
                                  left |-> 0, right |-> 0, idx |-> 0])
       \/ At("a") /\ Branch(m.i > Len(x.A), "end", "search")
       \/ At("search") /\ Go("mid", SearchBounds(m))
       \/ At("mid") /\ Branch(m.left <= m.right, "compare", "valid")
       \/ At("compare") /\ Branch(m.B[mid] <= x.A[m.i] + x.D, "right", "left")
       \/ At("right") /\ Go("mid", [m EXCEPT !.left = mid + 1, !.idx = mid])
       \/ At("left") /\ Go("mid", [m EXCEPT !.right = mid - 1])
       \/ At("valid") /\ m.idx # 0 /\ m.B[m.idx] >= x.A[m.i] - x.D /\ Go("update", m)
       \/ /\ At("valid") /\ ~(m.idx # 0 /\ m.B[m.idx] >= x.A[m.i] - x.D)
          /\ Go("a", [m EXCEPT !.i = @ + 1])
       \/ /\ At("update")
          /\ Go("a", [m EXCEPT !.i = @ + 1, !.best = Max({@, x.A[m.i] + m.B[m.idx]})])
  BY Zenon DEF ImpartialGiftStep
<1> HIDE DEF x, m, mid, names, searching
<1> QED BY <1>4, <1>5, <1>6, <1>7, <1>8, <1>9, <1>10, <1>11, <1>12, <1>13, <1>14

(* Its scenario ends in one place.                                          *)
LEMMA GiftEnds == \A id \in Ends(ImpartialGiftDiagram) : id = "end"
<1> SUFFICES ASSUME NEW id \in Ends(ImpartialGiftDiagram) PROVE id = "end"
  OBVIOUS
<1> DEFINE names == {"event", "start", "decision", "a", "end", "etl", "search", "mid", "compare",
                     "right", "left", "valid", "update"}
           nodes == << <<"event", "start">>, <<"decision", "a">>, <<"end", "end">>,
                       <<"etl", "search">>, <<"decision", "mid", "compare">>,
                       <<"etl", "right", "left">>, <<"decision", "valid">>, <<"etl", "update">> >>
           edges == << <<"start", "a">>, <<"a", "end", "search">>, <<"search", "mid">>,
                       <<"mid", "compare">>, <<"compare", "right", "left">>, <<"right", "mid">>,
                       <<"left", "mid">>, <<"mid", "valid">>, <<"valid", "update", "a">>,
                       <<"update", "a">> >>
<1>1. ImpartialGiftDiagram = Graph("td", nodes, edges)
  BY DEF ImpartialGiftDiagram, Scenario
<1>2. nodes \in Seq(Seq(names))
  OBVIOUS
<1>3. /\ DOMAIN nodes = 1..8 /\ Len(nodes[3]) = 2 /\ nodes[3][2] = "end"
      /\ \A n \in (1..8) \ {3} : nodes[n][1] # "end"
  OBVIOUS
<1> HIDE DEF nodes, edges, names
<1>4. PICK n \in DOMAIN nodes : \E i \in 2..Len(nodes[n]) : nodes[n][1] = "end" /\ id = nodes[n][i]
  BY <1>1, <1>2, EndsAre
<1>5. PICK i \in 2..Len(nodes[n]) : nodes[n][1] = "end" /\ id = nodes[n][i]
  BY <1>4
<1>6. n = 3
  BY <1>3, <1>5
<1>7. i = 2
  <2>1. Len(nodes[n]) = 2
    BY <1>3, <1>6
  <2>2. i \in 2..2
    BY <2>1
  <2> QED BY <2>2
<1> QED BY <1>3, <1>5, <1>6, <1>7

(* almost-equal: strings of one length; the good starts of a row.           *)
AlmostInput(x) ==
  /\ Len(x) \in Nat /\ DOMAIN x = 1..Len(x)
  /\ \A i, j \in DOMAIN x : IsFiniteSet(DOMAIN x[i]) /\ DOMAIN x[i] = DOMAIN x[j]
NextTo(x, a, b) == CountDiffs(x[a], x[b]) = 1
RowStarts(x, n) ==
  {r \in [1..n -> DOMAIN x] : /\ \A i, j \in 1..n : r[i] = r[j] => i = j
                              /\ \A i \in 1..(n - 1) : NextTo(x, r[i], r[i + 1])}

(* The frame of such a start.                                               *)
StartFrame(r, n) == <<{r[i] : i \in 1..n}, IF n = 0 THEN 0 ELSE r[n], n>>
Frames(x) == UNION {{StartFrame(r, n) : r \in RowStarts(x, n)} : n \in Nat}

OneApart(a, b) == \E k \in DOMAIN a : \A j \in DOMAIN a : (a[j] = b[j]) = (j # k)

(* Strings that differ in one place are those CountDiffs counts one for.    *)
LEMMA DiffersInOne ==
  ASSUME NEW a, NEW b, IsFiniteSet(DOMAIN a)
  PROVE  CountDiffs(a, b) = 1 <=> OneApart(a, b)
<1> DEFINE S == {k \in DOMAIN a : a[k] # b[k]}
           c == Cardinality(S)
<1>1. IsFiniteSet(S) /\ c \in Nat
  BY FS_Subset, FS_CardinalityType
<1>2. c = 1 <=> \E k : S = {k}
  BY <1>1, FS_Singleton
<1>3. CountDiffs(a, b) = Min({2, c})
  BY DEF CountDiffs
<1>4. (\E k : S = {k}) <=> \E k \in DOMAIN a : \A j \in DOMAIN a : (a[j] = b[j]) = (j # k)
  <2>1. ASSUME NEW k, S = {k}
        PROVE  k \in DOMAIN a /\ \A j \in DOMAIN a : (a[j] = b[j]) = (j # k)
    BY <2>1
  <2>2. ASSUME NEW k \in DOMAIN a, \A j \in DOMAIN a : (a[j] = b[j]) = (j # k)
        PROVE  S = {k}
    <3>1. \A j \in DOMAIN a : a[j] # b[j] <=> j = k
      BY <2>2
    <3> QED BY <3>1
  <2> HIDE DEF S
  <2> QED BY <2>1, <2>2
<1> HIDE DEF S, c
<1>5. Min({2, c}) = 1 <=> c = 1
  <2>1. Min({2, c}) = IF c <= 2 THEN c ELSE 2
    <3>1. ASSUME NEW v \in {2, c}, \A w \in {2, c} : v <= w
          PROVE  v = IF c <= 2 THEN c ELSE 2
      BY <1>1, <3>1
    <3>2. \E v \in {2, c} : \A w \in {2, c} : v <= w
      BY <1>1
    <3> QED BY <3>1, <3>2 DEF Min
  <2> QED BY <1>1, <2>1
<1> QED BY <1>2, <1>3, <1>4, <1>5 DEF OneApart

(* A row of all the strings is a start as long as they are many.            *)
LEMMA RowsAreStarts ==
  ASSUME NEW x, AlmostInput(x)
  PROVE  AlmostEqualAnswer(x) <=> RowStarts(x, Len(x)) # {}
<1> DEFINE N == Len(x)
           D == DOMAIN x
<1>1. N \in Nat /\ D = 1..N
  BY DEF AlmostInput
<1>2. IsFiniteSet(D) /\ Cardinality(D) = Cardinality(D)
  BY <1>1, FS_Interval
<1>3. \A r : r \in RowStarts(x, N) <=>
        /\ r \in [D -> D] /\ \A i, j \in D : r[i] = r[j] => i = j
        /\ \A i \in 1..(N - 1) : NextTo(x, r[i], r[i + 1])
  BY <1>1 DEF RowStarts
<1>4. \A r \in [D -> D] : \A i \in 1..(N - 1) : i \in D /\ i + 1 \in D /\ r[i] \in D /\ r[i + 1] \in D
  <2> HIDE DEF D
  <2>1. \A i \in 1..(N - 1) : i \in D /\ i + 1 \in D
    BY <1>1
  <2> QED BY <2>1
<1>5. \A a, b \in D : NextTo(x, a, b) <=> OneApart(x[a], x[b])
  BY DiffersInOne DEF NextTo, AlmostInput
<1> HIDE DEF D, N
<1>6. AlmostEqualAnswer(x) <=>
        \E r \in Bijection(D, D) : \A i \in 1..(N - 1) : OneApart(x[r[i]], x[r[i + 1]])
  BY DEF AlmostEqualAnswer, OneApart, D, N
<1>7. \A r : r \in Bijection(D, D) <=>
        r \in [D -> D] /\ \A i, j \in D : r[i] = r[j] => i = j
  <2>1. \A r : r \in Injection(D, D) <=> r \in [D -> D] /\ \A i, j \in D : r[i] = r[j] => i = j
    BY DEF Injection, IsInjective
  <2>2. \A r \in Injection(D, D) : r \in Surjection(D, D)
    BY <1>2, FS_Injection
  <2> QED BY <2>1, <2>2 DEF Bijection
<1>8. ASSUME NEW r \in [D -> D]
      PROVE  (\A i \in 1..(N - 1) : OneApart(x[r[i]], x[r[i + 1]]))
             <=> \A i \in 1..(N - 1) : NextTo(x, r[i], r[i + 1])
  <2>1. \A i \in 1..(N - 1) : OneApart(x[r[i]], x[r[i + 1]]) <=> NextTo(x, r[i], r[i + 1])
    BY <1>4, <1>5
  <2> QED BY <2>1
<1>9. AlmostEqualAnswer(x) <=> \E r : r \in RowStarts(x, N)
  <2>1. ASSUME NEW r \in Bijection(D, D), \A i \in 1..(N - 1) : OneApart(x[r[i]], x[r[i + 1]])
        PROVE  r \in RowStarts(x, N)
    BY <1>3, <1>7, <1>8, <2>1
  <2>2. ASSUME NEW r \in RowStarts(x, N)
        PROVE  r \in Bijection(D, D) /\ \A i \in 1..(N - 1) : OneApart(x[r[i]], x[r[i + 1]])
    BY <1>3, <1>7, <1>8
  <2> QED BY <1>6, <2>1, <2>2
<1> QED BY <1>9 DEF N

(* Pushing on a stack and popping from it.                                  *)
LEMMA PushedAndPopped ==
  ASSUME NEW F, NEW s \in Seq(F)
  PROVE  /\ \A f \in F : /\ Append(s, f) \in Seq(F)
                         /\ \A e : e = f \/ e \in Range(s) => e \in Range(Append(s, f))
         /\ s # <<>> => /\ s[Len(s)] \in F /\ SubSeq(s, 1, Len(s) - 1) \in Seq(F)
                        /\ \A e \in Range(s) :
                             e = s[Len(s)] \/ e \in Range(SubSeq(s, 1, Len(s) - 1))
<1>1. ASSUME NEW f \in F
      PROVE  /\ Append(s, f) \in Seq(F)
             /\ \A e : e = f \/ e \in Range(s) => e \in Range(Append(s, f))
  <2> DEFINE t == Append(s, f)
  <2>1. /\ t \in Seq(F) /\ DOMAIN t = 1..(Len(s) + 1) /\ t[Len(s) + 1] = f
        /\ \A i \in 1..Len(s) : t[i] = s[i]
    OBVIOUS
  <2>2. Len(s) \in Nat /\ DOMAIN s = 1..Len(s)
    OBVIOUS
  <2> HIDE DEF t
  <2>3. Len(s) + 1 \in DOMAIN t /\ \A i \in DOMAIN s : i \in DOMAIN t
    BY <2>1, <2>2
  <2>4. \A e : e = f \/ e \in Range(s) => e \in Range(t)
    BY <2>1, <2>2, <2>3 DEF Range
  <2> QED BY <2>1, <2>4 DEF t
<1>2. ASSUME s # <<>>
      PROVE  /\ s[Len(s)] \in F /\ SubSeq(s, 1, Len(s) - 1) \in Seq(F)
             /\ \A e \in Range(s) : e = s[Len(s)] \/ e \in Range(SubSeq(s, 1, Len(s) - 1))
  <2> DEFINE t == SubSeq(s, 1, Len(s) - 1)
  <2>1. Len(s) \in Nat /\ Len(s) > 0 /\ DOMAIN s = 1..Len(s)
    BY <1>2
  <2>2. s[Len(s)] \in F
    BY <2>1
  <2>3. /\ t \in Seq(F) /\ DOMAIN t = 1..(Len(s) - 1)
        /\ \A i \in 1..(Len(s) - 1) : t[i] = s[i]
    BY <2>1
  <2> HIDE DEF t
  <2>4. \A i \in DOMAIN s : i = Len(s) \/ i \in DOMAIN t
    BY <2>1, <2>3
  <2>5. \A e \in Range(s) : e = s[Len(s)] \/ e \in Range(t)
    BY <2>3, <2>4 DEF Range
  <2> QED BY <2>2, <2>3, <2>5 DEF t
<1> QED BY <1>1, <1>2

(* What a frame pushed for a string is a frame of.                          *)
LEMMA StartGrows ==
  ASSUME NEW x, AlmostInput(x), NEW f \in Frames(x), NEW i \in DOMAIN x, i \notin f[1],
         f[2] = 0 \/ NextTo(x, f[2], i)
  PROVE  <<f[1] \cup {i}, i, f[3] + 1>> \in Frames(x)
<1>1. PICK n \in Nat : \E r \in RowStarts(x, n) : f = StartFrame(r, n)
  BY DEF Frames
<1>2. PICK r \in RowStarts(x, n) : f = StartFrame(r, n)
  BY <1>1
<1>3. /\ r \in [1..n -> DOMAIN x] /\ \A k, j \in 1..n : r[k] = r[j] => k = j
      /\ \A k \in 1..(n - 1) : NextTo(x, r[k], r[k + 1])
  BY DEF RowStarts
<1>4. f[1] = {r[k] : k \in 1..n} /\ f[2] = (IF n = 0 THEN 0 ELSE r[n]) /\ f[3] = n
  BY <1>2 DEF StartFrame
<1> DEFINE q == [k \in 1..(n + 1) |-> IF k = n + 1 THEN i ELSE r[k]]
<1>5. /\ q \in [1..(n + 1) -> DOMAIN x] /\ q[n + 1] = i /\ \A k \in 1..n : q[k] = r[k]
      /\ 1..(n + 1) = 1..n \cup {n + 1} /\ n + 1 \notin 1..n
  <2>1. 1..(n + 1) = 1..n \cup {n + 1} /\ n + 1 \notin 1..n
    OBVIOUS
  <2>2. \A k \in 1..(n + 1) : q[k] = (IF k = n + 1 THEN i ELSE r[k])
    OBVIOUS
  <2> QED BY <1>3, <2>1, <2>2
<1> HIDE DEF q
<1>6. \A k, j \in 1..(n + 1) : q[k] = q[j] => k = j
  <2>1. \A k \in 1..n : r[k] # i
    BY <1>4
  <2> QED BY <1>3, <1>5, <2>1
<1>7. ASSUME NEW k \in 1..((n + 1) - 1) PROVE NextTo(x, q[k], q[k + 1])
  <2>1. CASE k = n
    <3>1. n # 0 /\ n \in 1..n /\ f[2] = r[n] /\ r[n] \in DOMAIN x
      BY <1>3, <1>4, <1>7, <2>1
    <3>2. f[2] # 0
      BY <3>1 DEF AlmostInput
    <3>3. q[k] = r[n] /\ q[k + 1] = i
      BY <1>5, <2>1, <3>1
    <3> QED BY <3>1, <3>2, <3>3
  <2>2. CASE k # n
    <3>1. k \in 1..(n - 1) /\ k \in 1..n /\ k + 1 \in 1..n
      BY <1>7, <2>2
    <3> QED BY <1>3, <1>5, <3>1
  <2> QED BY <2>1, <2>2
<1>8. q \in RowStarts(x, n + 1)
  BY <1>5, <1>6, <1>7 DEF RowStarts
<1>9. {q[k] : k \in 1..(n + 1)} = f[1] \cup {i}
  BY <1>4, <1>5
<1>10. StartFrame(q, n + 1) = <<f[1] \cup {i}, i, f[3] + 1>>
  <2>1. n + 1 # 0
    OBVIOUS
  <2> QED BY <1>4, <1>5, <1>9, <2>1 DEF StartFrame
<1>11. n + 1 \in Nat /\ StartFrame(q, n + 1) \in {StartFrame(p, n + 1) : p \in RowStarts(x, n + 1)}
  BY <1>8
<1> QED BY <1>10, <1>11 DEF Frames

(* The string after a row's start passes the checks, and its frame is the   *)
(* next start of the row.                                                   *)
LEMMA StartsGrow ==
  ASSUME NEW x, AlmostInput(x), NEW r \in RowStarts(x, Len(x)), NEW n \in 0..(Len(x) - 1)
  PROVE  /\ r[n + 1] \in DOMAIN x /\ r[n + 1] \notin StartFrame(r, n)[1]
         /\ StartFrame(r, n)[2] = 0 \/ NextTo(x, StartFrame(r, n)[2], r[n + 1])
         /\ StartFrame(r, n + 1) = <<StartFrame(r, n)[1] \cup {r[n + 1]}, r[n + 1], StartFrame(r, n)[3] + 1>>
<1> DEFINE N == Len(x)
<1>1. N \in Nat /\ n \in Nat /\ n + 1 \in 1..N /\ \A k \in 1..n : k \in 1..N /\ k # n + 1
  BY DEF AlmostInput
<1>2. /\ r \in [1..N -> DOMAIN x] /\ \A k, j \in 1..N : r[k] = r[j] => k = j
      /\ \A k \in 1..(N - 1) : NextTo(x, r[k], r[k + 1])
  BY DEF RowStarts
<1> HIDE DEF N
<1>3. StartFrame(r, n)[1] = {r[k] : k \in 1..n} /\ StartFrame(r, n)[2] = (IF n = 0 THEN 0 ELSE r[n])
      /\ StartFrame(r, n)[3] = n
  BY DEF StartFrame
<1>4. n # 0 => NextTo(x, r[n], r[n + 1])
  <2>1. n # 0 => n \in 1..(N - 1)
    BY <1>1
  <2> QED BY <1>2, <2>1
<1>5. {r[k] : k \in 1..(n + 1)} = {r[k] : k \in 1..n} \cup {r[n + 1]} /\ n + 1 # 0
  <2>1. 1..(n + 1) = 1..n \cup {n + 1} /\ n + 1 # 0
    BY <1>1
  <2> QED BY <2>1
<1> QED BY <1>1, <1>2, <1>3, <1>4, <1>5 DEF StartFrame

(* What is still to be tried of a row of all the strings: a start of it is  *)
(* on the stack, or it is the frame at hand and its next string is yet to   *)
(* come.                                                                    *)
Pending(r, N, at, m) ==
  \/ \E n \in 0..N : StartFrame(r, n) \in Range(m.stack)
  \/ at = "complete" /\ \E n \in 0..N : m.frame = StartFrame(r, n)
  \/ /\ at \in {"candidate", "used", "push", "next"}
     /\ \E n \in 0..(N - 1) : /\ m.frame = StartFrame(r, n)
                              /\ m.i < r[n + 1] \/ (at # "next" /\ m.i = r[n + 1])
AlmostGood ==
  LET x == state.in
      m == state.m
      at == state.at
      trying == {"candidate", "used", "push", "next"} IN
  /\ Running /\ AlmostInput(x)
  /\ at # "start" => DOMAIN m = {"stack", "frame", "i"} /\ m.stack \in Seq(Frames(x))
  /\ at = "pop" => m.stack # <<>>
  /\ at \in trying \cup {"complete", "yes"} => m.frame \in Frames(x)
  /\ at \in trying => m.i \in 1..Len(x)
  /\ at = "complete" => m.i = 1
  /\ at = "push" => m.i \notin m.frame[1] /\ (m.frame[2] = 0 \/ NextTo(x, m.frame[2], m.i))
  /\ at \notin {"start", "yes"} => \A r \in RowStarts(x, Len(x)) : Pending(r, Len(x), at, m)
  /\ at = "no" => m.stack = <<>>
  /\ at = "yes" => m.frame[3] = Len(x)

(* A frame has the length of a start; with all the strings, a row is good.  *)
LEMMA FramesAre ==
  ASSUME NEW x, AlmostInput(x), NEW f \in Frames(x)
  PROVE  /\ f[3] \in Nat /\ RowStarts(x, f[3]) # {}
         /\ f[3] # Len(x) => 1 \in 1..Len(x)
<1>1. PICK n \in Nat : \E r \in RowStarts(x, n) : f = StartFrame(r, n)
  BY DEF Frames
<1>2. PICK r \in RowStarts(x, n) : f = StartFrame(r, n)
  BY <1>1
<1>3. f[3] = n /\ r \in RowStarts(x, n)
  BY <1>2 DEF StartFrame
<1>4. Len(x) \in Nat /\ DOMAIN x = 1..Len(x)
  BY DEF AlmostInput
<1>5. ASSUME n # Len(x) PROVE 1 \in 1..Len(x)
  <2>1. CASE Len(x) = 0
    <3>1. n # 0 /\ 1 \in 1..n
      BY <1>5, <2>1
    <3>2. r \in [1..n -> DOMAIN x]
      BY DEF RowStarts
    <3>3. r[1] \in DOMAIN x /\ DOMAIN x = {}
      BY <1>4, <2>1, <3>1, <3>2
    <3> QED BY <3>3
  <2> QED BY <1>4, <2>1
<1> QED BY <1>3, <1>5

(* The first frame is the start of every row.                               *)
LEMMA FirstFrame ==
  ASSUME NEW x, AlmostInput(x)
  PROVE  <<{}, 0, 0>> \in Frames(x) /\ \A r : StartFrame(r, 0) = <<{}, 0, 0>>
<1>1. \A r : StartFrame(r, 0) = <<{}, 0, 0>>
  <2>1. \A r : {r[i] : i \in 1..0} = {}
    OBVIOUS
  <2> QED BY <2>1 DEF StartFrame
<1> DEFINE r == [i \in 1..0 |-> 0]
<1>2. r \in RowStarts(x, 0)
  BY DEF RowStarts
<1>3. StartFrame(r, 0) \in {StartFrame(p, 0) : p \in RowStarts(x, 0)}
  BY <1>2
<1> QED BY <1>1, <1>3 DEF Frames

(* Each of its steps keeps that.                                            *)
LEMMA AlmostGoesOn == AlmostGood /\ AlmostEqualStep => AlmostGood'
<1> SUFFICES ASSUME AlmostGood, AlmostEqualStep PROVE AlmostGood'
  OBVIOUS
<1> DEFINE x == state.in
           m == state.m
           n == state'.m
           N == Len(x)
           names == {"stack", "frame", "i"}
           trying == {"candidate", "used", "push", "next"}
           frame == <<m.frame[1] \cup {m.i}, m.i, m.frame[3] + 1>>
           free == m.i \notin m.frame[1] /\ (m.frame[2] = 0 \/ NextTo(x, m.frame[2], m.i))
<1>0. Running /\ AlmostInput(x) /\ N \in Nat /\ DOMAIN x = 1..N
  BY DEF AlmostGood, AlmostInput
<1>1. state.at # "start" => DOMAIN m = names /\ m.stack \in Seq(Frames(x))
  BY DEF AlmostGood
<1>2. state.at \in trying => m.frame \in Frames(x) /\ m.i \in 1..N
  BY DEF AlmostGood
<1>3. \A r \in RowStarts(x, N) : state.at \notin {"start", "yes"} =>
        Pending(r, N, state.at, m)
  BY DEF AlmostGood
<1>4. AlmostGood' <=>
        LET X == state'.in IN
        /\ Running' /\ AlmostInput(X)
        /\ state'.at # "start" => DOMAIN n = names /\ n.stack \in Seq(Frames(X))
        /\ state'.at = "pop" => n.stack # <<>>
        /\ state'.at \in trying \cup {"complete", "yes"} => n.frame \in Frames(X)
        /\ state'.at \in trying => n.i \in 1..Len(X)
        /\ state'.at = "complete" => n.i = 1
        /\ state'.at = "push" =>
             n.i \notin n.frame[1] /\ (n.frame[2] = 0 \/ NextTo(X, n.frame[2], n.i))
        /\ state'.at \notin {"start", "yes"} =>
             \A r \in RowStarts(X, Len(X)) : Pending(r, Len(X), state'.at, n)
        /\ state'.at = "no" => n.stack = <<>>
        /\ state'.at = "yes" => n.frame[3] = Len(X)
  BY DEF AlmostGood
<1>a. \A r \in RowStarts(x, N) : \A k \in 0..(N - 1) : r[k + 1] \in 1..N
  BY <1>0, StartsGrow
<1> HIDE DEF n
<1>5. CASE At("start") /\ Go("stack", [stack |-> << <<{}, 0, 0>> >>, frame |-> <<>>, i |-> 0])
  <2>1. /\ Running' /\ state'.at = "stack" /\ state'.in = x
        /\ n = [stack |-> << <<{}, 0, 0>> >>, frame |-> <<>>, i |-> 0]
    BY <1>0, <1>5, StepsGo DEF n
  <2> HIDE DEF x, N
  <2>2. DOMAIN n = names /\ n.stack = << <<{}, 0, 0>> >>
    BY <2>1
  <2>3. <<{}, 0, 0>> \in Frames(x) /\ \A r : StartFrame(r, 0) = <<{}, 0, 0>>
    BY <1>0, FirstFrame
  <2> DEFINE f == <<{}, 0, 0>>
  <2>4. n.stack \in Seq(Frames(x)) /\ f \in Range(n.stack)
    <3>1. n.stack = <<f>>
      BY <2>2
    <3> HIDE DEF f
    <3>2. f \in Frames(x)
      BY <2>3 DEF f
    <3> QED BY <3>1, <3>2 DEF Range
  <2> HIDE DEF f
  <2>5. 0 \in 0..N /\ \A r : StartFrame(r, 0) = f
    BY <1>0, <2>3 DEF f
  <2>6. \A r : Pending(r, N, "stack", n)
    BY <2>4, <2>5 DEF Pending
  <2> QED BY <1>0, <1>4, <2>1, <2>2, <2>4, <2>6 DEF N
<1>6. CASE At("stack") /\ Branch(m.stack = <<>>, "no", "pop")
  <2>1. /\ Running' /\ state'.at = (IF m.stack = <<>> THEN "no" ELSE "pop")
        /\ state'.in = x /\ n = m /\ state.at = "stack"
    BY <1>0, <1>6, StepsGo DEF n, At
  <2> HIDE DEF x, m, N, trying
  <2>2. ASSUME NEW r \in RowStarts(x, N) PROVE Pending(r, N, state'.at, n)
    <3>1. Pending(r, N, "stack", m) /\ "stack" \notin trying
      BY <1>3, <2>1 DEF trying
    <3>2. \E k \in 0..N : StartFrame(r, k) \in Range(m.stack)
      BY <3>1 DEF Pending, trying
    <3> QED BY <2>1, <3>2 DEF Pending
  <2> QED BY <1>0, <1>1, <1>4, <2>1, <2>2 DEF N, trying
<1>7. CASE /\ At("pop")
           /\ Go("complete", [m EXCEPT !.frame = m.stack[Len(m.stack)], !.i = 1,
                                       !.stack = SubSeq(@, 1, Len(@) - 1)])
  <2>1. /\ Running' /\ state'.at = "complete" /\ state'.in = x
        /\ n = [m EXCEPT !.frame = m.stack[Len(m.stack)], !.i = 1,
                         !.stack = SubSeq(@, 1, Len(@) - 1)]
        /\ state.at = "pop" /\ m.stack # <<>>
    BY <1>0, <1>7, StepsGo DEF n, At, AlmostGood
  <2>2. DOMAIN m = names /\ m.stack \in Seq(Frames(x))
    BY <1>1, <2>1
  <2>3. /\ DOMAIN n = names /\ n.frame = m.stack[Len(m.stack)] /\ n.i = 1
        /\ n.stack = SubSeq(m.stack, 1, Len(m.stack) - 1)
    BY <2>1, <2>2
  <2>4. /\ n.frame \in Frames(x) /\ n.stack \in Seq(Frames(x))
        /\ \A e \in Range(m.stack) : e = n.frame \/ e \in Range(n.stack)
    BY <2>1, <2>2, <2>3, PushedAndPopped
  <2> HIDE DEF x, m, N, trying
  <2>5. ASSUME NEW r \in RowStarts(x, N) PROVE Pending(r, N, "complete", n)
    <3>1. \E k \in 0..N : StartFrame(r, k) \in Range(m.stack)
      BY <1>3, <2>1 DEF Pending
    <3> QED BY <2>4, <3>1 DEF Pending
  <2> QED BY <1>0, <1>4, <2>1, <2>3, <2>4, <2>5 DEF N, trying
<1>8. CASE At("complete") /\ Branch(m.frame[3] = N, "yes", "candidate")
  <2>1. /\ Running' /\ state'.at = (IF m.frame[3] = N THEN "yes" ELSE "candidate")
        /\ state'.in = x /\ n = m /\ state.at = "complete" /\ m.i = 1 /\ m.frame \in Frames(x)
    BY <1>0, <1>8, StepsGo DEF n, At, AlmostGood
  <2>2. m.frame[3] # N => 1 \in 1..N
    BY <1>0, <2>1, FramesAre
  <2> HIDE DEF x, m, N
  <2>3. ASSUME NEW r \in RowStarts(x, N), m.frame[3] # N PROVE Pending(r, N, "candidate", n)
    <3>1. \/ \E k \in 0..N : StartFrame(r, k) \in Range(m.stack)
          \/ \E k \in 0..N : m.frame = StartFrame(r, k)
      BY <1>3, <2>1 DEF Pending
    <3>2. CASE \E k \in 0..N : m.frame = StartFrame(r, k)
      <4>1. PICK k \in 0..N : m.frame = StartFrame(r, k)
        BY <3>2
      <4>2. m.frame[3] = k
        BY <4>1 DEF StartFrame
      <4>3. k \in 0..(N - 1)
        BY <1>0, <2>3, <4>2
      <4>4. r[k + 1] \in 1..N
        BY <1>a, <4>3
      <4>5. m.i < r[k + 1] \/ m.i = r[k + 1]
        BY <1>0, <2>1, <4>4
      <4>6. \E l \in 0..(N - 1) : n.frame = StartFrame(r, l) /\ (n.i < r[l + 1] \/ n.i = r[l + 1])
        BY <2>1, <4>1, <4>3, <4>5
      <4> QED BY <4>6 DEF Pending
    <3> QED BY <2>1, <3>1, <3>2 DEF Pending
  <2> QED BY <1>0, <1>1, <1>4, <2>1, <2>2, <2>3 DEF N
<1>9. CASE At("candidate") /\ Go("used", m)
  <2>1. /\ Running' /\ state'.at = "used" /\ state'.in = x /\ n = m
        /\ state.at = "candidate" /\ state.at \in trying
    BY <1>0, <1>9, StepsGo DEF n, At
  <2> HIDE DEF x, m, N
  <2>2. ASSUME NEW r \in RowStarts(x, N) PROVE Pending(r, N, "used", n)
    BY <1>3, <2>1 DEF Pending
  <2> QED BY <1>0, <1>1, <1>2, <1>4, <2>1, <2>2 DEF N
<1>10. CASE At("used") /\ Branch(free, "push", "next")
  <2>1. /\ Running' /\ state'.at = (IF free THEN "push" ELSE "next") /\ state'.in = x /\ n = m
        /\ state.at = "used" /\ state.at \in trying
    BY <1>0, <1>10, StepsGo DEF n, At
  <2>2. free <=> m.i \notin m.frame[1] /\ (m.frame[2] = 0 \/ NextTo(x, m.frame[2], m.i))
    OBVIOUS
  <2> HIDE DEF x, m, N, free
  <2>3. ASSUME NEW r \in RowStarts(x, N) PROVE Pending(r, N, state'.at, n)
    <3>1. \/ \E k \in 0..N : StartFrame(r, k) \in Range(m.stack)
          \/ \E k \in 0..(N - 1) : m.frame = StartFrame(r, k) /\ (m.i < r[k + 1] \/ m.i = r[k + 1])
      BY <1>3, <2>1 DEF Pending
    <3>2. ASSUME NEW k \in 0..(N - 1), m.frame = StartFrame(r, k), m.i = r[k + 1] PROVE free
      <4>1. /\ r[k + 1] \notin StartFrame(r, k)[1]
            /\ StartFrame(r, k)[2] = 0 \/ NextTo(x, StartFrame(r, k)[2], r[k + 1])
        BY <1>0, StartsGrow DEF N
      <4> QED BY <2>2, <3>2, <4>1
    <3>3. CASE \E k \in 0..N : StartFrame(r, k) \in Range(m.stack)
      BY <2>1, <3>3 DEF Pending
    <3>4. CASE \E k \in 0..(N - 1) : m.frame = StartFrame(r, k) /\ (m.i < r[k + 1] \/ m.i = r[k + 1])
      <4>1. PICK k \in 0..(N - 1) :
              m.frame = StartFrame(r, k) /\ (m.i < r[k + 1] \/ m.i = r[k + 1])
        BY <3>4
      <4>2. CASE free
        <5>1. \E l \in 0..(N - 1) : n.frame = StartFrame(r, l) /\ (n.i < r[l + 1] \/ n.i = r[l + 1])
          BY <2>1, <4>1
        <5> QED BY <2>1, <4>2, <5>1 DEF Pending
      <4>3. CASE ~free
        <5>1. m.i < r[k + 1]
          BY <3>2, <4>1, <4>3
        <5>2. \E l \in 0..(N - 1) : n.frame = StartFrame(r, l) /\ n.i < r[l + 1]
          BY <2>1, <4>1, <5>1
        <5> QED BY <2>1, <4>3, <5>2 DEF Pending
      <4> QED BY <4>2, <4>3
    <3> QED BY <3>1, <3>3, <3>4
  <2> QED BY <1>0, <1>1, <1>2, <1>4, <2>1, <2>2, <2>3 DEF N
<1>11. CASE At("push") /\ Go("next", [m EXCEPT !.stack = Append(@, frame)])
  <2>1. /\ Running' /\ state'.at = "next" /\ state'.in = x
        /\ n = [m EXCEPT !.stack = Append(@, frame)]
        /\ state.at = "push" /\ state.at \in trying
        /\ m.i \notin m.frame[1] /\ (m.frame[2] = 0 \/ NextTo(x, m.frame[2], m.i))
    BY <1>0, <1>11, StepsGo DEF n, At, AlmostGood
  <2>2. DOMAIN m = names /\ m.stack \in Seq(Frames(x)) /\ m.frame \in Frames(x) /\ m.i \in DOMAIN x
    BY <1>0, <1>1, <1>2, <2>1
  <2>3. DOMAIN n = names /\ n.frame = m.frame /\ n.i = m.i /\ n.stack = Append(m.stack, frame)
    BY <2>1, <2>2
  <2>4. frame \in Frames(x)
    BY <1>0, <2>1, <2>2, StartGrows
  <2>5. frame = <<m.frame[1] \cup {m.i}, m.i, m.frame[3] + 1>>
    OBVIOUS
  <2> HIDE DEF x, m, N, frame
  <2>6. /\ n.stack \in Seq(Frames(x)) /\ frame \in Range(n.stack)
        /\ \A e \in Range(m.stack) : e \in Range(n.stack)
    BY <2>2, <2>3, <2>4, PushedAndPopped
  <2>7. ASSUME NEW r \in RowStarts(x, N) PROVE Pending(r, N, "next", n)
    <3>1. \/ \E k \in 0..N : StartFrame(r, k) \in Range(m.stack)
          \/ \E k \in 0..(N - 1) : m.frame = StartFrame(r, k) /\ (m.i < r[k + 1] \/ m.i = r[k + 1])
      BY <1>3, <2>1 DEF Pending
    <3>2. ASSUME NEW k \in 0..(N - 1), m.frame = StartFrame(r, k), m.i = r[k + 1]
          PROVE  \E l \in 0..N : StartFrame(r, l) \in Range(n.stack)
      <4>1. StartFrame(r, k + 1) = <<StartFrame(r, k)[1] \cup {r[k + 1]}, r[k + 1], StartFrame(r, k)[3] + 1>>
        BY <1>0, StartsGrow DEF N
      <4>2. StartFrame(r, k + 1) = frame
        BY <2>5, <3>2, <4>1
      <4>3. k + 1 \in 0..N
        BY <1>0
      <4> QED BY <2>6, <4>2, <4>3
    <3>3. CASE \E k \in 0..(N - 1) : m.frame = StartFrame(r, k) /\ m.i < r[k + 1]
      <4>1. \E k \in 0..(N - 1) : n.frame = StartFrame(r, k) /\ n.i < r[k + 1]
        BY <2>3, <3>3
      <4> QED BY <4>1 DEF Pending
    <3>4. CASE \E k \in 0..N : StartFrame(r, k) \in Range(m.stack)
      BY <2>6, <3>4 DEF Pending
    <3>5. CASE \E k \in 0..(N - 1) : m.frame = StartFrame(r, k) /\ m.i = r[k + 1]
      BY <3>2, <3>5 DEF Pending
    <3> QED BY <3>1, <3>3, <3>4, <3>5
  <2> QED BY <1>0, <1>2, <1>4, <2>1, <2>3, <2>6, <2>7 DEF N
<1>12. CASE At("next") /\ Go(IF m.i < N THEN "candidate" ELSE "stack", [m EXCEPT !.i = @ + 1])
  <2>1. /\ Running' /\ state'.at = (IF m.i < N THEN "candidate" ELSE "stack") /\ state'.in = x
        /\ n = [m EXCEPT !.i = @ + 1] /\ state.at = "next" /\ state.at \in trying
    BY <1>0, <1>12, StepsGo DEF n, At
  <2>2. DOMAIN m = names /\ m.i \in 1..N
    BY <1>1, <1>2, <2>1
  <2>3. DOMAIN n = names /\ n.frame = m.frame /\ n.i = m.i + 1 /\ n.stack = m.stack
    BY <2>1, <2>2
  <2> HIDE DEF x, m, N
  <2>4. ASSUME NEW r \in RowStarts(x, N) PROVE Pending(r, N, state'.at, n)
    <3>1. \/ \E k \in 0..N : StartFrame(r, k) \in Range(m.stack)
          \/ \E k \in 0..(N - 1) : m.frame = StartFrame(r, k) /\ m.i < r[k + 1]
      BY <1>3, <2>1 DEF Pending
    <3>2. ASSUME NEW k \in 0..(N - 1), m.frame = StartFrame(r, k), m.i < r[k + 1]
          PROVE  m.i < N /\ (n.i < r[k + 1] \/ n.i = r[k + 1])
      <4>1. r[k + 1] \in 1..N
        BY <1>a
      <4> QED BY <1>0, <2>2, <2>3, <3>2, <4>1
    <3>3. CASE \E k \in 0..(N - 1) : m.frame = StartFrame(r, k) /\ m.i < r[k + 1]
      <4>1. PICK k \in 0..(N - 1) : m.frame = StartFrame(r, k) /\ m.i < r[k + 1]
        BY <3>3
      <4>2. state'.at = "candidate" /\ n.frame = StartFrame(r, k)
            /\ (n.i < r[k + 1] \/ n.i = r[k + 1])
        BY <2>1, <2>3, <3>2, <4>1
      <4>3. \E l \in 0..(N - 1) : n.frame = StartFrame(r, l) /\ (n.i < r[l + 1] \/ n.i = r[l + 1])
        BY <4>2
      <4> QED BY <4>2, <4>3 DEF Pending
    <3>4. CASE \E k \in 0..N : StartFrame(r, k) \in Range(m.stack)
      BY <2>3, <3>4 DEF Pending
    <3> QED BY <3>1, <3>3, <3>4
  <2>5. m.i < N => n.i \in 1..N
    BY <1>0, <2>2, <2>3
  <2> QED BY <1>0, <1>1, <1>2, <1>4, <2>1, <2>3, <2>4, <2>5 DEF N
<1>13. \/ At("start") /\ Go("stack", [stack |-> << <<{}, 0, 0>> >>, frame |-> <<>>, i |-> 0])
       \/ At("stack") /\ Branch(m.stack = <<>>, "no", "pop")
       \/ /\ At("pop")
          /\ Go("complete", [m EXCEPT !.frame = m.stack[Len(m.stack)], !.i = 1,
                                      !.stack = SubSeq(@, 1, Len(@) - 1)])
       \/ At("complete") /\ Branch(m.frame[3] = N, "yes", "candidate")
       \/ At("candidate") /\ Go("used", m)
       \/ At("used") /\ Branch(free, "push", "next")
       \/ At("push") /\ Go("next", [m EXCEPT !.stack = Append(@, frame)])
       \/ At("next") /\ Go(IF m.i < N THEN "candidate" ELSE "stack", [m EXCEPT !.i = @ + 1])
  BY Zenon DEF AlmostEqualStep, NextTo
<1> HIDE DEF x, m, N, names, trying, frame, free
<1> QED BY <1>5, <1>6, <1>7, <1>8, <1>9, <1>10, <1>11, <1>12, <1>13

(* What it answers at an end is what the problem asks for.                  *)
LEMMA AlmostAnswers ==
  AlmostGood /\ state.at \in {"yes", "no"} => At("yes") = AlmostEqualAnswer(state.in)
<1> SUFFICES ASSUME AlmostGood, state.at \in {"yes", "no"}
             PROVE  At("yes") = AlmostEqualAnswer(state.in)
  OBVIOUS
<1> DEFINE x == state.in
           m == state.m
<1>1. AlmostInput(x) /\ (AlmostEqualAnswer(x) <=> RowStarts(x, Len(x)) # {})
      /\ AlmostEqualAnswer(x) \in BOOLEAN
  <2>1. AlmostInput(x)
    BY DEF AlmostGood
  <2>2. AlmostEqualAnswer(x) \in BOOLEAN
    BY DEF AlmostEqualAnswer
  <2> QED BY <2>1, <2>2, RowsAreStarts
<1>2. CASE state.at = "yes"
  <2>1. m.frame \in Frames(x) /\ m.frame[3] = Len(x)
    BY <1>2 DEF AlmostGood
  <2>2. RowStarts(x, Len(x)) # {}
    BY <1>1, <2>1, FramesAre
  <2> QED BY <1>1, <1>2, <2>2 DEF At
<1>3. CASE state.at = "no"
  <2>1. m.stack = <<>> /\ \A r \in RowStarts(x, Len(x)) : Pending(r, Len(x), "no", m)
    BY <1>3 DEF AlmostGood
  <2>2. Range(m.stack) = {}
    BY <2>1 DEF Range
  <2>3. RowStarts(x, Len(x)) = {}
    BY <2>1, <2>2 DEF Pending
  <2> QED BY <1>1, <1>3, <2>3 DEF At
<1> QED BY <1>2, <1>3

(* Its scenario ends with one of the two.                                   *)
LEMMA AlmostEnds == \A id \in Ends(AlmostEqualDiagram) : id \in {"yes", "no"}
<1> SUFFICES ASSUME NEW id \in Ends(AlmostEqualDiagram) PROVE id \in {"yes", "no"}
  OBVIOUS
<1> DEFINE names == {"event", "start", "decision", "stack", "end", "no", "etl", "pop", "complete",
                     "yes", "candidate", "used", "push", "next"}
           nodes == << <<"event", "start">>, <<"decision", "stack">>, <<"end", "no">>,
                       <<"etl", "pop">>, <<"decision", "complete">>, <<"end", "yes">>,
                       <<"etl", "candidate">>, <<"decision", "used">>, <<"etl", "push", "next">> >>
           edges == << <<"start", "stack">>, <<"stack", "no", "pop">>, <<"pop", "complete">>,
                       <<"complete", "yes", "candidate">>, <<"candidate", "used">>,
                       <<"used", "push", "next">>, <<"push", "next">>,
                       <<"next", "candidate", "stack">> >>
<1>1. AlmostEqualDiagram = Graph("td", nodes, edges)
  BY DEF AlmostEqualDiagram, Scenario
<1>2. nodes \in Seq(Seq(names))
  OBVIOUS
<1>3. /\ DOMAIN nodes = 1..9 /\ Len(nodes[3]) = 2 /\ nodes[3][2] = "no"
      /\ Len(nodes[6]) = 2 /\ nodes[6][2] = "yes"
      /\ \A n \in (1..9) \ {3, 6} : nodes[n][1] # "end"
  OBVIOUS
<1> HIDE DEF nodes, edges, names
<1>4. PICK n \in DOMAIN nodes : \E i \in 2..Len(nodes[n]) : nodes[n][1] = "end" /\ id = nodes[n][i]
  BY <1>1, <1>2, EndsAre
<1>5. PICK i \in 2..Len(nodes[n]) : nodes[n][1] = "end" /\ id = nodes[n][i]
  BY <1>4
<1>6. n = 3 \/ n = 6
  BY <1>3, <1>5
<1>7. i = 2
  <2>1. Len(nodes[n]) = 2
    BY <1>3, <1>6
  <2>2. i \in 2..2
    BY <2>1
  <2> QED BY <2>2
<1> QED BY <1>3, <1>5, <1>6, <1>7

-----------------------------------------------------------------------------
(* fill-the-gaps: the sequence after so many gaps were filled.              *)
Filled(a) ==
  CHOOSE filled : filled = [i \in 0..Len(a) |-> IF i = 0 THEN a ELSE Fill(filled[i - 1])]

(* The last of them is what the problem asks for.                           *)
LEMMA FilledIs ==
  ASSUME NEW a
  PROVE  GapsAnswer(a) = Filled(a)[Len(a)]
BY DEF GapsAnswer, Filled

(* There is such a function: one gap more at a time.                        *)
LEMMA FilledRecurs ==
  ASSUME NEW a, Len(a) \in Nat
  PROVE  \A i \in 0..Len(a) : Filled(a)[i] = IF i = 0 THEN a ELSE Fill(Filled(a)[i - 1])
<1> DEFINE next(f, i) == IF i = 0 THEN a ELSE Fill(f[i - 1])
           solves(k, f) == f = [i \in 0..k |-> next(f, i)]
           G == {k \in Nat : \E f : solves(k, f)}
<1>1. 0 \in G
  <2> DEFINE f == [i \in 0..0 |-> a]
  <2>1. f = [i \in 0..0 |-> next(f, i)]
    <3>1. \A i \in 0..0 : i = 0
      OBVIOUS
    <3>2. \A i \in 0..0 : next(f, i) = a
      BY <3>1
    <3> QED BY <3>2
  <2>2. solves(0, f)
    BY <2>1
  <2> HIDE DEF solves, f
  <2>3. \E h : solves(0, h)
    BY <2>2
  <2> QED BY <2>3
<1>2. ASSUME NEW k \in Nat, k \in G PROVE k + 1 \in G
  <2>1. PICK f : solves(k, f)
    BY <1>2
  <2> DEFINE g == [i \in 0..(k + 1) |-> next(f, i)]
  <2>2. \A i \in 0..k : g[i] = f[i]
    <3>1. \A i \in 0..k : i \in 0..(k + 1)
      OBVIOUS
    <3>2. f = [i \in 0..k |-> next(f, i)]
      BY <2>1
    <3> HIDE DEF next
    <3>3. \A i \in 0..k : f[i] = next(f, i)
      BY <3>2
    <3> QED BY <3>1, <3>3
  <2>3. \A i \in 0..(k + 1) : next(g, i) = next(f, i)
    <3>1. \A i \in 0..(k + 1) : i # 0 => i - 1 \in 0..k
      OBVIOUS
    <3> HIDE DEF g
    <3> QED BY <2>2, <3>1
  <2>4. g = [i \in 0..(k + 1) |-> next(g, i)]
    <3> DEFINE h == [i \in 0..(k + 1) |-> next(g, i)]
    <3>1. g = h
      <4>1. \A i \in 0..(k + 1) : g[i] = next(f, i)
        OBVIOUS
      <4>2. \A i \in 0..(k + 1) : h[i] = next(g, i)
        OBVIOUS
      <4>3. g = [i \in 0..(k + 1) |-> g[i]] /\ h = [i \in 0..(k + 1) |-> h[i]]
        OBVIOUS
      <4> HIDE DEF g, h, next
      <4> QED BY <2>3, <4>1, <4>2, <4>3
    <3> QED BY <3>1
  <2>5. \E h : solves(k + 1, h)
    <3>1. solves(k + 1, g)
      BY <2>4
    <3> HIDE DEF solves, g
    <3> QED BY <3>1
  <2> HIDE DEF solves
  <2> QED BY <2>5
<1> HIDE DEF G
<1>3. Len(a) \in G
  BY <1>1, <1>2, InductionOnNat
<1>4. \E f : solves(Len(a), f)
  BY <1>3 DEF G
<1>5. Filled(a) = CHOOSE f : solves(Len(a), f)
  BY DEF Filled
<1>6. solves(Len(a), Filled(a))
  <2> HIDE DEF solves
  <2> QED BY <1>4, <1>5
<1> DEFINE F == Filled(a)
<1>7. F = [i \in 0..Len(a) |-> next(F, i)]
  BY <1>6
<1> HIDE DEF F, next
<1>8. \A i \in 0..Len(a) : F[i] = next(F, i)
  BY <1>7
<1> QED BY <1>8 DEF F, next

(* Nothing is filled at first, then one gap at a time.                      *)
LEMMA FilledGrows ==
  ASSUME NEW a, Len(a) \in Nat
  PROVE  /\ Filled(a)[0] = a
         /\ \A k \in 0..(Len(a) - 1) : Filled(a)[k + 1] = Fill(Filled(a)[k])
<1>1. Filled(a)[0] = a
  BY FilledRecurs
<1>2. ASSUME NEW k \in 0..(Len(a) - 1)
      PROVE  Filled(a)[k + 1] = Fill(Filled(a)[k])
  <2>1. k + 1 \in 0..Len(a) /\ k + 1 # 0 /\ (k + 1) - 1 = k
    OBVIOUS
  <2> QED BY <2>1, FilledRecurs
<1> QED BY <1>1, <1>2

(* Sequences with the same elements in the same places are the same.        *)
LEMMA SameSequence ==
  ASSUME NEW S, NEW a \in Seq(S), NEW b \in Seq(S), Len(a) = Len(b),
         \A i \in 1..Len(a) : a[i] = b[i]
  PROVE  a = b
<1>1. a = [i \in 1..Len(a) |-> a[i]] /\ b = [i \in 1..Len(b) |-> b[i]]
  OBVIOUS
<1> QED BY <1>1

(* A sequence without gaps stays as it is, ...                              *)
Smooth(a) == \A i \in 1..(Len(a) - 1) : a[i] - a[i + 1] \in {1, -1}
LEMMA FilledOnce ==
  ASSUME NEW a, Len(a) \in Nat, NEW k \in 0..Len(a), Smooth(Filled(a)[k])
  PROVE  GapsAnswer(a) = Filled(a)[k]
<1> DEFINE b == Filled(a)[k]
           G == {n \in Nat : k + n <= Len(a) => Filled(a)[k + n] = b}
<1>0. Fill(b) = b
  BY DEF Fill, Smooth
<1>1. 0 \in G
  OBVIOUS
<1>2. ASSUME NEW n \in Nat, n \in G PROVE n + 1 \in G
  <2>1. SUFFICES ASSUME k + (n + 1) <= Len(a) PROVE Filled(a)[k + (n + 1)] = b
    OBVIOUS
  <2>2. k + n \in 0..(Len(a) - 1) /\ k + (n + 1) = (k + n) + 1
    BY <2>1
  <2>3. Filled(a)[k + n] = b
    BY <1>2, <2>2
  <2> HIDE DEF b
  <2>4. Filled(a)[(k + n) + 1] = Fill(Filled(a)[k + n])
    BY <2>2, FilledGrows
  <2> QED BY <1>0, <2>2, <2>3, <2>4
<1> HIDE DEF G
<1>3. Len(a) - k \in G
  <2>1. Len(a) - k \in Nat
    OBVIOUS
  <2> QED BY <1>1, <1>2, <2>1, InductionOnNat
<1>4. Filled(a)[k + (Len(a) - k)] = b
  BY <1>3 DEF G
<1>5. k + (Len(a) - k) = Len(a)
  OBVIOUS
<1> QED BY <1>4, <1>5, FilledIs

(* ... and of another the first gap is filled.                              *)
LEMMA FillsGap ==
  ASSUME NEW p \in Seq(Int), Len(p) >= 1, Smooth(p), NEW r \in Seq(Int), Len(r) >= 1,
         p[Len(p)] - r[1] \notin {1, -1}
  PROVE  Fill(p \o r) = p \o Filling(p[Len(p)], r[1]) \o r
<1> DEFINE a == p \o r
           n == Len(p)
<1>1. /\ n \in Nat /\ n >= 1 /\ Len(r) \in Nat /\ Len(a) = n + Len(r) /\ a \in Seq(Int)
      /\ \A i \in 1..n : a[i] = p[i]
      /\ a[n + 1] = r[1]
  OBVIOUS
<1>2. SubSeq(a, 1, n) = p
  <2>1. /\ SubSeq(a, 1, n) \in Seq(Int) /\ Len(SubSeq(a, 1, n)) = n
        /\ \A i \in 1..n : SubSeq(a, 1, n)[i] = a[i]
    BY <1>1
  <2> QED BY <1>1, <2>1
<1>3. SubSeq(a, n + 1, Len(a)) = r
  <2> DEFINE s == SubSeq(a, n + 1, Len(a))
  <2>1. \A i \in 1..Len(r) : a[n + i] = r[i]
    OBVIOUS
  <2> HIDE DEF a, n
  <2>2. n + 1 \in 1..Len(a) /\ Len(a) \in Nat /\ Len(a) - (n + 1) + 1 = Len(r)
    BY <1>1
  <2>3. s \in Seq(Int) /\ Len(s) = Len(r)
    BY <1>1, <2>2
  <2>4. \A i \in 1..Len(r) : s[i] = a[n + i]
    BY <1>1, <2>2
  <2> HIDE DEF s
  <2>5. \A i \in 1..Len(r) : s[i] = r[i]
    BY <2>1, <2>4
  <2>6. s = r
    BY <2>3, <2>5, SameSequence
  <2> QED BY <2>6 DEF s
<1>4. n \in 1..(Len(a) - 1) /\ a[n] = p[n] /\ a[n] - a[n + 1] \notin {1, -1}
  BY <1>1
<1>5. \A j \in 1..(n - 1) : a[j] - a[j + 1] \in {1, -1}
  <2>1. \A j \in 1..(n - 1) : j \in 1..n /\ j + 1 \in 1..n
    BY <1>1
  <2> HIDE DEF a
  <2> QED BY <1>1, <2>1 DEF Smooth
<1> HIDE DEF a, n
<1>6. FirstGap(a) = n
  <2> DEFINE is(i) == /\ a[i] - a[i + 1] \notin {1, -1}
                      /\ \A j \in 1..(i - 1) : a[j] - a[j + 1] \in {1, -1}
  <2>1. is(n)
    BY <1>4, <1>5
  <2>2. ASSUME NEW i \in 1..(Len(a) - 1), is(i) PROVE i = n
    <3>1. CASE i < n
      <4>1. i \in 1..(n - 1)
        BY <1>1, <3>1
      <4> QED BY <1>5, <2>2, <4>1
    <3>2. CASE n < i
      <4>1. n \in 1..(i - 1)
        BY <1>1, <3>2
      <4> QED BY <1>4, <2>2, <4>1
    <3> QED BY <1>1, <3>1, <3>2
  <2>3. FirstGap(a) = CHOOSE i \in 1..(Len(a) - 1) : is(i)
    BY DEF FirstGap
  <2> HIDE DEF is
  <2> QED BY <1>4, <2>1, <2>2, <2>3
<1>7. ~\A i \in 1..(Len(a) - 1) : a[i] - a[i + 1] \in {1, -1}
  BY <1>4
<1>8. Fill(a) = SubSeq(a, 1, n) \o Filling(a[n], a[n + 1]) \o SubSeq(a, n + 1, Len(a))
  BY <1>6, <1>7 DEF Fill
<1>9. a[n] = p[n] /\ a[n + 1] = r[1]
  BY <1>1, <1>4
<1> QED BY <1>2, <1>3, <1>8, <1>9 DEF a, n

(* What is in the join of two sequences.                                    *)
LEMMA JoinIs ==
  ASSUME NEW a \in Seq(Int), NEW b \in Seq(Int)
  PROVE  /\ a \o b \in Seq(Int) /\ Len(a \o b) = Len(a) + Len(b)
         /\ \A i \in 1..(Len(a) + Len(b)) :
              (a \o b)[i] = IF i <= Len(a) THEN a[i] ELSE b[i - Len(a)]
OBVIOUS

(* Sequences are joined in any order of joining.                            *)
LEMMA Joins ==
  ASSUME NEW a \in Seq(Int), NEW b \in Seq(Int), NEW c \in Seq(Int)
  PROVE  (a \o b) \o c = a \o (b \o c)
<1> DEFINE p == a \o b
           q == b \o c
<1>1. /\ Len(a) \in Nat /\ Len(b) \in Nat /\ Len(c) \in Nat
      /\ p \in Seq(Int) /\ Len(p) = Len(a) + Len(b)
      /\ q \in Seq(Int) /\ Len(q) = Len(b) + Len(c)
      /\ \A i \in 1..Len(p) : p[i] = IF i <= Len(a) THEN a[i] ELSE b[i - Len(a)]
      /\ \A i \in 1..Len(q) : q[i] = IF i <= Len(b) THEN b[i] ELSE c[i - Len(b)]
  OBVIOUS
<1> HIDE DEF p, q
<1>2. /\ p \o c \in Seq(Int) /\ Len(p \o c) = Len(a) + Len(b) + Len(c)
      /\ a \o q \in Seq(Int) /\ Len(a \o q) = Len(a) + Len(b) + Len(c)
      /\ \A i \in 1..(Len(a) + Len(b) + Len(c)) :
           /\ (p \o c)[i] = IF i <= Len(p) THEN p[i] ELSE c[i - Len(p)]
           /\ (a \o q)[i] = IF i <= Len(a) THEN a[i] ELSE q[i - Len(a)]
  <2>1. /\ p \o c \in Seq(Int) /\ Len(p \o c) = Len(p) + Len(c)
        /\ \A i \in 1..(Len(p) + Len(c)) :
             (p \o c)[i] = IF i <= Len(p) THEN p[i] ELSE c[i - Len(p)]
    BY <1>1, JoinIs, Zenon
  <2>2. /\ a \o q \in Seq(Int) /\ Len(a \o q) = Len(a) + Len(q)
        /\ \A i \in 1..(Len(a) + Len(q)) :
             (a \o q)[i] = IF i <= Len(a) THEN a[i] ELSE q[i - Len(a)]
    BY <1>1, JoinIs, Zenon
  <2>3. Len(p) + Len(c) = Len(a) + Len(b) + Len(c) /\ Len(a) + Len(q) = Len(a) + Len(b) + Len(c)
    BY <1>1
  <2> QED BY <2>1, <2>2, <2>3
<1>3. ASSUME NEW i \in 1..(Len(a) + Len(b) + Len(c)) PROVE (p \o c)[i] = (a \o q)[i]
  <2>1. CASE i <= Len(a)
    <3>1. i <= Len(p) /\ i \in 1..Len(p)
      BY <1>1, <2>1
    <3>2. (p \o c)[i] = a[i]
      <4>1. (p \o c)[i] = p[i]
        BY <1>2, <3>1, Zenon
      <4>2. p[i] = a[i]
        BY <1>1, <2>1, <3>1, Zenon
      <4> QED BY <4>1, <4>2
    <3>3. (a \o q)[i] = a[i]
      BY <1>2, <2>1, Zenon
    <3> QED BY <3>2, <3>3
  <2>2. CASE i > Len(a) /\ i <= Len(a) + Len(b)
    <3>1. /\ i \in 1..Len(p) /\ ~(i <= Len(a)) /\ i <= Len(p)
          /\ i - Len(a) \in 1..Len(q) /\ i - Len(a) <= Len(b)
      BY <1>1, <2>2
    <3>2. (p \o c)[i] = b[i - Len(a)]
      <4>1. (p \o c)[i] = p[i]
        BY <1>2, <3>1, Zenon
      <4>2. p[i] = b[i - Len(a)]
        BY <1>1, <3>1, Zenon
      <4> QED BY <4>1, <4>2
    <3>3. (a \o q)[i] = b[i - Len(a)]
      <4>1. (a \o q)[i] = q[i - Len(a)]
        BY <1>2, <3>1, Zenon
      <4>2. q[i - Len(a)] = b[i - Len(a)]
        BY <1>1, <3>1, Zenon
      <4> QED BY <4>1, <4>2
    <3> QED BY <3>2, <3>3
  <2>3. CASE i > Len(a) + Len(b)
    <3>1. /\ ~(i <= Len(p)) /\ ~(i <= Len(a)) /\ i - Len(a) \in 1..Len(q)
          /\ ~(i - Len(a) <= Len(b)) /\ (i - Len(a)) - Len(b) = i - Len(p)
      BY <1>1, <2>3
    <3>2. (p \o c)[i] = c[i - Len(p)]
      BY <1>2, <3>1, Zenon
    <3>3. (a \o q)[i] = c[i - Len(p)]
      <4>1. (a \o q)[i] = q[i - Len(a)]
        BY <1>2, <3>1, Zenon
      <4>2. q[i - Len(a)] = c[(i - Len(a)) - Len(b)]
        BY <1>1, <3>1, Zenon
      <4> QED BY <3>1, <4>1, <4>2
    <3> QED BY <3>2, <3>3
  <2>4. i <= Len(a) \/ (i > Len(a) /\ i <= Len(a) + Len(b)) \/ i > Len(a) + Len(b)
    <3> DEFINE la == Len(a)
               lb == Len(b)
    <3>1. la \in Nat /\ lb \in Nat /\ i \in Nat
      BY <1>1
    <3> HIDE DEF la, lb
    <3>2. i <= la \/ (i > la /\ i <= la + lb) \/ i > la + lb
      BY <3>1
    <3> QED BY <3>2 DEF la, lb
  <2> QED BY <2>1, <2>2, <2>3, <2>4, Zenon
<1>4. p \o c = a \o q
  BY <1>2, <1>3, SameSequence, Zenon
<1> QED BY <1>4 DEF p, q

(* The loop goes up by one or down by one.                                  *)
Sign(step) == step \in {1, -1}

(* What the loop has still to put after the gap's first number: from j to y.*)
ToCome(j, y, step) == [n \in 1..((y - j) * step + 1) |-> j + step * (n - 1)]

(* Its length, and what it begins with.                                     *)
LEMMA ToComeIs ==
  ASSUME NEW j \in Int, NEW y \in Int, NEW step \in {1, -1}, (y - j) * step >= -1
  PROVE  /\ ToCome(j, y, step) \in Seq(Int)
         /\ Len(ToCome(j, y, step)) = (y - j) * step + 1
         /\ (y - j) * step + 1 \in Nat
         /\ \A n \in 1..((y - j) * step + 1) : ToCome(j, y, step)[n] = j + step * (n - 1)
<1> DEFINE m == (y - j) * step + 1
<1>1. m \in Nat
  <2>1. CASE step = 1
    BY <2>1
  <2>2. CASE step = -1
    BY <2>2
  <2> QED BY <2>1, <2>2
<1>2. \A n \in 1..m : j + step * (n - 1) \in Int
  <2>1. CASE step = 1
    BY <2>1
  <2>2. CASE step = -1
    BY <2>2
  <2> QED BY <2>1, <2>2
<1>3. ToCome(j, y, step) = [n \in 1..m |-> j + step * (n - 1)]
  BY DEF ToCome
<1> HIDE DEF m
<1>4. \A n \in 1..m : ToCome(j, y, step)[n] = j + step * (n - 1)
  BY <1>3
<1>5. ToCome(j, y, step) \in [1..m -> Int]
  BY <1>2, <1>3
<1>6. ToCome(j, y, step) \in Seq(Int) /\ Len(ToCome(j, y, step)) = m
  BY <1>1, <1>5
<1> QED BY <1>1, <1>4, <1>6 DEF m

(* A number the loop appends is the first of those it had to put.           *)
Shrinks(j, y, step) ==
  \A out, rest \in Seq(Int) :
    Append(out, j) \o (ToCome(j + step, y, step) \o rest) = out \o (ToCome(j, y, step) \o rest)

(* One number more at the end of what there is, one less to come.           *)
LEMMA ToComeShrinks ==
  ASSUME NEW j \in Int, NEW y \in Int, NEW step, Sign(step), (y - j) * step >= 0
  PROVE  Shrinks(j, y, step)
<1>0. step \in {1, -1}
  BY DEF Sign
<1> SUFFICES ASSUME NEW out \in Seq(Int), NEW rest \in Seq(Int)
             PROVE  Append(out, j) \o (ToCome(j + step, y, step) \o rest)
                      = out \o (ToCome(j, y, step) \o rest)
  BY DEF Shrinks
<1> DEFINE k == j + step
           l == ToCome(j, y, step)
           s == ToCome(j + step, y, step)
           m == (y - j) * step
<1>1. /\ k \in Int /\ (y - k) * step >= -1 /\ (y - k) * step + 1 = m /\ m \in Nat
      /\ (y - j) * step >= -1
  <2>1. CASE step = 1
    BY <2>1
  <2>2. CASE step = -1
    BY <2>2
  <2> QED BY <1>0, <2>1, <2>2
<1>2. l \in Seq(Int) /\ Len(l) = m + 1 /\ \A n \in 1..(m + 1) : l[n] = j + step * (n - 1)
  BY <1>0, <1>1, ToComeIs
<1> HIDE DEF l
<1>3. /\ s \in Seq(Int) /\ Len(s) = m
      /\ \A n \in 1..m : s[n] = k + step * (n - 1)
  <2> HIDE DEF m
  <2>1. /\ ToCome(k, y, step) \in Seq(Int) /\ Len(ToCome(k, y, step)) = (y - k) * step + 1
        /\ \A n \in 1..((y - k) * step + 1) : ToCome(k, y, step)[n] = k + step * (n - 1)
    <3> HIDE DEF k
    <3> QED BY <1>0, <1>1, ToComeIs
  <2> QED BY <1>1, <2>1
<1> HIDE DEF s, m
<1>4. l[1] = j
  <2>1. 1 \in 1..(m + 1) /\ j + step * (1 - 1) = j
    BY <1>0, <1>1
  <2>2. l[1] = j + step * (1 - 1)
    BY <1>2, <2>1, Zenon
  <2> QED BY <2>1, <2>2, Zenon
<1>5. \A n \in 1..m : l[n + 1] = s[n]
  <2> SUFFICES ASSUME NEW n \in 1..m PROVE l[n + 1] = s[n]
    OBVIOUS
  <2>1. n + 1 \in 1..(m + 1)
    BY <1>1
  <2>2. j + step * ((n + 1) - 1) = k + step * (n - 1)
    <3>1. CASE step = 1
      BY <1>1, <3>1
    <3>2. CASE step = -1
      BY <1>1, <3>2
    <3> QED BY <1>0, <3>1, <3>2
  <2> QED BY <1>0, <1>2, <1>3, <2>1, <2>2
<1> HIDE DEF k
<1>6. l = <<j>> \o s
  <2>1. <<j>> \o s \in Seq(Int) /\ Len(<<j>> \o s) = m + 1
    BY <1>1, <1>3
  <2>2. \A i \in 1..(m + 1) : (<<j>> \o s)[i] = l[i]
    <3> SUFFICES ASSUME NEW i \in 1..(m + 1) PROVE (<<j>> \o s)[i] = l[i]
      OBVIOUS
    <3>1. CASE i = 1
      BY <1>3, <1>4, <3>1
    <3>2. CASE i # 1
      <4>1. i - 1 \in 1..m /\ (i - 1) + 1 = i
        BY <1>1, <3>2
      <4>2. (<<j>> \o s)[i] = s[i - 1]
        BY <1>3, <4>1
      <4> QED BY <1>5, <4>1, <4>2
    <3> QED BY <3>1, <3>2
  <2> QED BY <1>2, <2>1, <2>2, SameSequence
<1>7. Append(out, j) = out \o <<j>>
  <2>1. /\ Append(out, j) \in Seq(Int) /\ out \o <<j>> \in Seq(Int)
        /\ Len(Append(out, j)) = Len(out) + 1 /\ Len(out \o <<j>>) = Len(out) + 1
        /\ Len(out) \in Nat
    OBVIOUS
  <2>2. \A i \in 1..(Len(out) + 1) : Append(out, j)[i] = (out \o <<j>>)[i]
    OBVIOUS
  <2> QED BY <2>1, <2>2, SameSequence
<1>8. (out \o <<j>>) \o (s \o rest) = out \o ((<<j>> \o s) \o rest)
  <2> DEFINE one == <<j>>
  <2>0. one \in Seq(Int)
    OBVIOUS
  <2> HIDE DEF one
  <2>1. s \o rest \in Seq(Int)
    BY <1>3
  <2>2. (out \o one) \o (s \o rest) = out \o (one \o (s \o rest))
    BY <2>0, <2>1, Joins, Zenon
  <2>3. (one \o s) \o rest = one \o (s \o rest)
    <3>1. s \in Seq(Int) /\ rest \in Seq(Int)
      BY <1>3
    <3> QED BY <2>0, <3>1, Joins, Zenon
  <2> QED BY <2>2, <2>3 DEF one
<1> QED BY <1>6, <1>7, <1>8 DEF l, s

(* The numbers between two neighbours and the second of them are what the   *)
(* loop puts after the first.                                               *)
LEMMA FillingIsToCome ==
  ASSUME NEW x \in Int, NEW y \in Int, NEW step \in {1, -1}, step = 1 <=> x < y, x # y
  PROVE  /\ (y - (x + step)) * step >= 0
         /\ ToCome(x + step, y, step) = Filling(x, y) \o <<y>>
         /\ Filling(x, y) \in Seq(Int)
         /\ x - y \in {1, -1} => Filling(x, y) = <<>>
<1> DEFINE j == x + step
           m == (y - j) * step
           f == Filling(x, y)
           l == ToCome(j, y, step)
<1>1. m \in Nat /\ j \in Int /\ (y - j) * step >= -1 /\ (x - y \in {1, -1} => m = 0)
  <2>1. CASE step = 1
    BY <2>1
  <2>2. CASE step = -1
    BY <2>2
  <2> QED BY <2>1, <2>2
<1>2. \A n \in 1..m : x + step * n \in Int
  <2>1. CASE step = 1
    BY <2>1
  <2>2. CASE step = -1
    BY <2>2
  <2> QED BY <2>1, <2>2
<1>3. f = [n \in 1..m |-> x + step * n]
  <2>1. CASE step = 1
    <3>1. x < y /\ m = y - x - 1 /\ \A n \in 1..(y - x - 1) : x + step * n = x + n
      BY <2>1
    <3> HIDE DEF m
    <3> QED BY <3>1 DEF Filling
  <2>2. CASE step = -1
    <3>1. ~(x < y) /\ m = x - y - 1 /\ \A n \in 1..(x - y - 1) : x + step * n = x - n
      BY <2>2
    <3> HIDE DEF m
    <3> QED BY <3>1 DEF Filling
  <2> QED BY <2>1, <2>2
<1>4. l \in Seq(Int) /\ Len(l) = m + 1 /\ \A n \in 1..(m + 1) : l[n] = j + step * (n - 1)
  <2> HIDE DEF j
  <2> QED BY <1>1, ToComeIs
<1>5. \A n \in 1..m : l[n] = x + step * n
  <2> SUFFICES ASSUME NEW n \in 1..m PROVE l[n] = x + step * n
    OBVIOUS
  <2> HIDE DEF m
  <2>1. n \in 1..(m + 1)
    BY <1>1
  <2>2. j + step * (n - 1) = x + step * n
    <3>1. CASE step = 1
      BY <1>1, <3>1
    <3>2. CASE step = -1
      BY <1>1, <3>2
    <3> QED BY <3>1, <3>2
  <2> HIDE DEF l, j
  <2> QED BY <1>4, <2>1, <2>2
<1>6. l[m + 1] = y
  <2>1. j + step * ((m + 1) - 1) = y
    <3>1. CASE step = 1
      BY <3>1
    <3>2. CASE step = -1
      BY <3>2
    <3> QED BY <3>1, <3>2
  <2> HIDE DEF l, j, m
  <2>2. m + 1 \in 1..(m + 1)
    BY <1>1
  <2> QED BY <1>4, <2>1, <2>2
<1> HIDE DEF m, l, j, f
<1>7. f \in Seq(Int) /\ Len(f) = m /\ \A n \in 1..m : f[n] = x + step * n
  <2>1. f \in [1..m -> Int]
    BY <1>2, <1>3
  <2>2. f \in Seq(Int) /\ Len(f) = m
    BY <1>1, <2>1
  <2>3. \A n \in 1..m : f[n] = x + step * n
    BY <1>3
  <2> QED BY <2>2, <2>3
<1>8. l = f \o <<y>>
  <2>1. /\ f \o <<y>> \in Seq(Int) /\ Len(f \o <<y>>) = m + 1
        /\ \A n \in 1..m : (f \o <<y>>)[n] = f[n]
        /\ (f \o <<y>>)[m + 1] = y
    BY <1>1, <1>7
  <2>2. \A n \in 1..(m + 1) : n \in 1..m \/ n = m + 1
    BY <1>1
  <2>3. \A n \in 1..(m + 1) : l[n] = (f \o <<y>>)[n]
    BY <1>5, <1>6, <1>7, <2>1, <2>2
  <2> QED BY <1>4, <2>1, <2>3, SameSequence
<1>9. x - y \in {1, -1} => f = <<>>
  BY <1>1, <1>7
<1> QED BY <1>1, <1>7, <1>8, <1>9 DEF m, j, l, f

(* What is left of the input from a place on.                               *)
From(a, i) == SubSeq(a, i, Len(a))
LEMMA FromIs ==
  ASSUME NEW a \in Seq(Int), NEW i \in 1..Len(a)
  PROVE  /\ From(a, i) \in Seq(Int) /\ Len(From(a, i)) >= 1 /\ From(a, i)[1] = a[i]
         /\ From(a, i + 1) \in Seq(Int)
         /\ From(a, i) = <<a[i]>> \o From(a, i + 1)
<1> DEFINE r == From(a, i)
           s == From(a, i + 1)
           m == Len(a) - i
<1>1. /\ Len(a) \in Nat /\ i \in Nat /\ i >= 1 /\ m \in Nat /\ i <= Len(a)
      /\ \A n \in 1..(m + 1) : i + n - 1 \in 1..Len(a)
      /\ \A n \in 1..Len(a) : a[n] \in Int
  OBVIOUS
<1>2. r = [n \in 1..(m + 1) |-> a[i + n - 1]]
  BY <1>1 DEF From
<1>3. s = [n \in 1..m |-> a[(i + 1) + n - 1]]
  BY <1>1 DEF From
<1>4. \A n \in 1..m : n + 1 \in 1..(m + 1) /\ i + (n + 1) - 1 = (i + 1) + n - 1
  BY <1>1
<1>5. \A n \in 1..(m + 1) : a[i + n - 1] \in Int
  BY <1>1
<1> HIDE DEF r, s, m
<1>6. r \in Seq(Int) /\ Len(r) = m + 1 /\ \A n \in 1..(m + 1) : r[n] = a[i + n - 1]
  <2>1. r \in [1..(m + 1) -> Int] /\ \A n \in 1..(m + 1) : r[n] = a[i + n - 1]
    BY <1>2, <1>5
  <2> QED BY <1>1, <2>1
<1>7. s \in Seq(Int) /\ Len(s) = m /\ \A n \in 1..m : s[n] = r[n + 1]
  <2>1. \A n \in 1..m : s[n] = a[(i + 1) + n - 1]
    BY <1>3
  <2>2. \A n \in 1..m : s[n] = r[n + 1]
    BY <1>4, <1>6, <2>1
  <2>3. \A n \in 1..m : r[n + 1] \in Int
    BY <1>4, <1>5, <1>6
  <2>4. s \in [1..m -> Int]
    BY <1>3, <2>1, <2>2, <2>3
  <2> QED BY <1>1, <2>2, <2>4
<1>8. r[1] = a[i] /\ Len(r) >= 1
  <2>1. 1 \in 1..(m + 1) /\ i + 1 - 1 = i /\ m + 1 >= 1
    BY <1>1
  <2> QED BY <1>6, <2>1
<1>9. r = <<a[i]>> \o s
  <2> DEFINE one == <<a[i]>>
  <2>0. one \in Seq(Int) /\ Len(one) = 1 /\ one[1] = a[i]
    BY <1>1
  <2> HIDE DEF one
  <2> DEFINE t == one \o s
  <2>a. /\ t \in Seq(Int) /\ Len(t) = Len(one) + Len(s)
        /\ \A n \in 1..(Len(one) + Len(s)) :
             t[n] = IF n <= Len(one) THEN one[n] ELSE s[n - Len(one)]
    BY <1>7, <2>0, JoinIs, Zenon
  <2> HIDE DEF t
  <2>1. /\ t \in Seq(Int) /\ Len(t) = 1 + m
        /\ \A n \in 1..(1 + m) : t[n] = IF n <= 1 THEN one[n] ELSE s[n - 1]
    BY <1>7, <2>0, <2>a
  <2>2. \A n \in 1..(m + 1) : n = 1 \/ (n - 1 \in 1..m /\ (n - 1) + 1 = n /\ ~(n <= 1))
    BY <1>1
  <2>3. 1 + m = m + 1
    BY <1>1
  <2>4. \A n \in 1..(m + 1) : r[n] = t[n]
    <3> SUFFICES ASSUME NEW n \in 1..(m + 1) PROVE r[n] = t[n]
      OBVIOUS
    <3>1. CASE n = 1
      BY <1>1, <1>8, <2>0, <2>1, <3>1
    <3>2. CASE n - 1 \in 1..m /\ (n - 1) + 1 = n /\ ~(n <= 1)
      <4>1. s[n - 1] = r[n]
        BY <1>7, <3>2
      <4>2. t[n] = s[n - 1]
        BY <2>1, <2>3, <3>2
      <4> QED BY <4>1, <4>2
    <3> QED BY <2>2, <3>1, <3>2
  <2>5. r = t
    BY <1>6, <2>1, <2>3, <2>4, SameSequence
  <2> QED BY <2>5 DEF one, t
<1> QED BY <1>6, <1>7, <1>8, <1>9 DEF r, s

(* What the problem promises; where the loop over the pairs is, ...         *)
GapsInput(a) ==
  a \in Seq(Nat) /\ Len(a) > 1 /\ \A i \in 1..(Len(a) - 1) : a[i] # a[i + 1]
GapsLoop(m, a) ==
  /\ DOMAIN m = {"i", "out", "step", "j"}
  /\ m.i \in 2..(Len(a) + 1) /\ m.out \in Seq(Int) /\ Len(m.out) >= 1 /\ Smooth(m.out)

(* ... that what it has put is the beginning of a sequence some of whose    *)
(* gaps are filled, between two pairs, ...                                  *)
BeforePair(out, a, i) ==
  /\ out[Len(out)] = a[i - 1]
  /\ \E k \in 0..(i - 2) : Filled(a)[k] = out \o From(a, i)

(* ... and within one.                                                      *)
Upward(step, a, i) == step \in {1, -1} /\ (step = 1 <=> a[i - 1] < a[i])
WithinPair(out, j, step, a, i) ==
  /\ j \in Int /\ (a[i] - j) * step >= -1 /\ out[Len(out)] = j - step
  /\ \E k \in 0..(i - 1) : Filled(a)[k] = out \o (ToCome(j, a[i], step) \o From(a, i + 1))

(* The pair that the loop is at.                                            *)
LEMMA PairIs ==
  ASSUME NEW a, GapsInput(a), NEW i \in 2..Len(a)
  PROVE  /\ a \in Seq(Int) /\ Len(a) \in Nat /\ i \in 1..Len(a) /\ i \in Nat
         /\ a[i - 1] \in Nat /\ a[i] \in Nat /\ a[i - 1] # a[i]
<1>1. a \in Seq(Nat) /\ Len(a) \in Nat /\ \A n \in 1..Len(a) : a[n] \in Nat
  BY DEF GapsInput
<1>2. /\ i - 1 \in 1..(Len(a) - 1) /\ (i - 1) + 1 = i /\ i \in 1..Len(a)
      /\ i - 1 \in 1..Len(a) /\ i \in Nat
  BY <1>1
<1>3. a[i - 1] # a[(i - 1) + 1]
  BY <1>2 DEF GapsInput
<1>4. a \in Seq(Int)
  BY <1>1
<1> QED BY <1>1, <1>2, <1>3, <1>4

(* Going into a pair fills its gap, if it has one.                          *)
LEMMA IntoPair ==
  ASSUME NEW a, GapsInput(a), NEW i \in 2..Len(a),
         NEW out \in Seq(Int), Len(out) >= 1, Smooth(out), BeforePair(out, a, i),
         NEW step, Upward(step, a, i)
  PROVE  WithinPair(out, a[i - 1] + step, step, a, i)
<1> DEFINE x == a[i - 1]
           y == a[i]
           f == Filling(x, y)
           r == From(a, i)
           s == From(a, i + 1)
           l == ToCome(x + step, y, step)
<1>0. /\ a \in Seq(Int) /\ Len(a) \in Nat /\ i \in 1..Len(a) /\ i \in Nat
      /\ x \in Nat /\ y \in Nat /\ x # y
  BY PairIs
<1>1. step \in {1, -1} /\ (step = 1 <=> x < y)
  BY DEF Upward
<1>2. PICK k \in 0..(i - 2) : Filled(a)[k] = out \o r
  BY DEF BeforePair
<1>3. out[Len(out)] = x
  BY DEF BeforePair
<1> DEFINE one == <<y>>
<1>4. r \in Seq(Int) /\ Len(r) >= 1 /\ r[1] = y /\ s \in Seq(Int) /\ r = one \o s
  BY <1>0, FromIs
<1> HIDE DEF x, y
<1>5. /\ (y - (x + step)) * step >= 0 /\ l = f \o one /\ f \in Seq(Int)
      /\ x - y \in {1, -1} => f = <<>>
  <2>1. x \in Int /\ y \in Int
    BY <1>0
  <2> QED BY <1>0, <1>1, <2>1, FillingIsToCome, Zenon
<1>6. one \in Seq(Int)
  BY <1>0
<1> HIDE DEF one, f, r, s, l
<1>7. l \o s = f \o r
  <2>1. (f \o one) \o s = f \o (one \o s)
    <3>1. f \in Seq(Int) /\ one \in Seq(Int) /\ s \in Seq(Int)
      BY <1>4, <1>5, <1>6
    <3> QED BY <3>1, Joins, Zenon
  <2>2. r = one \o s
    BY <1>4, Zenon
  <2>3. l = f \o one
    BY <1>5, Zenon
  <2> QED BY <2>1, <2>2, <2>3, Zenon
<1>8. \E n \in 0..(i - 1) : Filled(a)[n] = out \o (l \o s)
  <2>1. CASE x - y \in {1, -1}
    <3>1. f \o r = r
      <4>1. <<>> \o r = r
        <5>1. /\ <<>> \in Seq(Int) /\ Len(<<>>) = 0
          OBVIOUS
        <5>2. /\ <<>> \o r \in Seq(Int) /\ Len(<<>> \o r) = Len(r)
              /\ \A n \in 1..Len(r) : (<<>> \o r)[n] = r[n]
          BY <1>4
        <5> QED BY <1>4, <5>2, SameSequence
      <4> QED BY <1>5, <2>1, <4>1
    <3>2. k \in 0..(i - 1)
      BY <1>0
    <3> QED BY <1>2, <1>7, <3>1, <3>2
  <2>2. CASE x - y \notin {1, -1}
    <3>1. Fill(out \o r) = out \o f \o r
      <4>1. Fill(out \o r) = out \o Filling(out[Len(out)], r[1]) \o r
        BY <1>3, <1>4, <2>2, FillsGap
      <4> QED BY <1>3, <1>4, <4>1 DEF f
    <3>2. k \in 0..(Len(a) - 1) /\ k + 1 \in 0..(i - 1)
      BY <1>0
    <3>3. Filled(a)[k + 1] = Fill(Filled(a)[k])
      BY <1>0, <3>2, FilledGrows
    <3>4. out \o f \o r = out \o (f \o r)
      BY <1>4, <1>5, Joins, Zenon
    <3> QED BY <1>2, <1>7, <3>1, <3>2, <3>3, <3>4
  <2> QED BY <2>1, <2>2
<1>9. x + step \in Int /\ (y - (x + step)) * step >= -1 /\ (x + step) - step = x
  <2>1. CASE step = 1
    BY <1>0, <1>5, <2>1
  <2>2. CASE step = -1
    BY <1>0, <1>5, <2>2
  <2> QED BY <1>1, <2>1, <2>2
<1> QED BY <1>3, <1>8, <1>9 DEF WithinPair, x, y, l, s

(* A number more that follows the last leaves no gap.                       *)
LEMMA StaysSmooth ==
  ASSUME NEW out \in Seq(Int), Len(out) >= 1, Smooth(out), NEW j \in Int,
         NEW step \in {1, -1}, out[Len(out)] = j - step
  PROVE  /\ Append(out, j) \in Seq(Int) /\ Len(Append(out, j)) >= 1 /\ Smooth(Append(out, j))
         /\ Append(out, j)[Len(Append(out, j))] = j
<1> DEFINE b == Append(out, j)
           n == Len(out)
<1>1. /\ b \in Seq(Int) /\ Len(b) = n + 1 /\ n \in Nat /\ n >= 1
      /\ \A i \in 1..n : b[i] = out[i]
      /\ b[n + 1] = j
  OBVIOUS
<1>2. ASSUME NEW i \in 1..(Len(b) - 1) PROVE b[i] - b[i + 1] \in {1, -1}
  <2> HIDE DEF b
  <2>1. CASE i = n
    <3>1. b[i] = j - step /\ b[i + 1] = j
      BY <1>1, <2>1
    <3>2. CASE step = 1
      BY <3>1, <3>2
    <3>3. CASE step = -1
      BY <3>1, <3>3
    <3> QED BY <3>2, <3>3
  <2>2. CASE i # n
    <3>1. i \in 1..(n - 1) /\ i \in 1..n /\ i + 1 \in 1..n
      BY <1>1, <2>2
    <3>2. out[i] - out[i + 1] \in {1, -1}
      BY <3>1 DEF Smooth, n
    <3> QED BY <1>1, <3>1, <3>2
  <2> QED BY <2>1, <2>2
<1> HIDE DEF b, n
<1>3. Smooth(b)
  BY <1>2 DEF Smooth
<1>4. Len(b) >= 1 /\ b[Len(b)] = j
  BY <1>1
<1> QED BY <1>1, <1>3, <1>4 DEF b

(* Going on within a pair, ...                                              *)
LEMMA OnInPair ==
  ASSUME NEW a, GapsInput(a), NEW i \in 2..Len(a),
         NEW out \in Seq(Int), Len(out) >= 1, Smooth(out), NEW j, NEW step, Upward(step, a, i),
         WithinPair(out, j, step, a, i), j # a[i] + step
  PROVE  /\ WithinPair(Append(out, j), j + step, step, a, i)
         /\ Append(out, j) \in Seq(Int) /\ Len(Append(out, j)) >= 1 /\ Smooth(Append(out, j))
<1> DEFINE y == a[i]
           s == From(a, i + 1)
           b == Append(out, j)
<1>0. a \in Seq(Int) /\ Len(a) \in Nat /\ i \in 1..Len(a) /\ y \in Nat
  BY PairIs
<1>1. step \in {1, -1}
  BY DEF Upward
<1>2. j \in Int /\ (y - j) * step >= -1 /\ out[Len(out)] = j - step
  BY DEF WithinPair
<1>3. PICK k \in 0..(i - 1) : Filled(a)[k] = out \o (ToCome(j, y, step) \o s)
  BY DEF WithinPair
<1>4. s \in Seq(Int)
  BY <1>0, FromIs
<1> HIDE DEF y, s, b
<1>5. j # y + step
  BY DEF y
<1>6. /\ (y - j) * step >= 0 /\ j + step \in Int /\ (j + step) - step = j
      /\ (y - (j + step)) * step >= -1
  <2>1. CASE step = 1
    BY <1>0, <1>2, <1>5, <2>1
  <2>2. CASE step = -1
    BY <1>0, <1>2, <1>5, <2>2
  <2> QED BY <1>1, <2>1, <2>2
<1>7. b \o (ToCome(j + step, y, step) \o s) = out \o (ToCome(j, y, step) \o s)
  <2>1. y \in Int
    BY <1>0
  <2>2. /\ j \in Int /\ out \in Seq(Int) /\ s \in Seq(Int)
        /\ (y - j) * step >= 0 /\ Sign(step)
    BY <1>1, <1>2, <1>4, <1>6, Zenon DEF Sign
  <2>3. Append(out, j) \o (ToCome(j + step, y, step) \o s) = out \o (ToCome(j, y, step) \o s)
    <3>1. Shrinks(j, y, step)
      BY <2>1, <2>2, ToComeShrinks, Zenon
    <3> QED BY <2>2, <3>1, Zenon DEF Shrinks
  <2> QED BY <2>3, Zenon DEF b
<1>8. b \in Seq(Int) /\ Len(b) >= 1 /\ Smooth(b) /\ b[Len(b)] = j
  BY <1>1, <1>2, StaysSmooth DEF b
<1>9. WithinPair(b, j + step, step, a, i)
  <2>1. \E n \in 0..(i - 1) : Filled(a)[n] = b \o (ToCome(j + step, y, step) \o s)
    BY <1>3, <1>7
  <2> QED BY <1>6, <1>8, <2>1 DEF WithinPair, y, s
<1> QED BY <1>8, <1>9 DEF b

(* ... until the second number has been put.                                *)
LEMMA OutOfPair ==
  ASSUME NEW a, GapsInput(a), NEW i \in 2..Len(a), NEW out \in Seq(Int),
         NEW j, NEW step, Upward(step, a, i), WithinPair(out, j, step, a, i), j = a[i] + step
  PROVE  BeforePair(out, a, i + 1)
<1> DEFINE y == a[i]
           s == From(a, i + 1)
           l == ToCome(j, y, step)
<1>0. /\ a \in Seq(Int) /\ Len(a) \in Nat /\ i \in 1..Len(a) /\ y \in Nat /\ i \in Nat
      /\ (i + 1) - 1 = i /\ (i + 1) - 2 = i - 1
  BY PairIs
<1>1. step \in {1, -1}
  BY DEF Upward
<1>2. j \in Int /\ (y - j) * step >= -1 /\ out[Len(out)] = j - step
  BY DEF WithinPair
<1>3. PICK k \in 0..(i - 1) : Filled(a)[k] = out \o (l \o s)
  BY DEF WithinPair
<1>4. s \in Seq(Int)
  BY <1>0, FromIs
<1>5. j = y + step
  OBVIOUS
<1> HIDE DEF y, s
<1>6. (y - j) * step + 1 = 0 /\ j - step = y
  <2>1. CASE step = 1
    BY SMTT(30), <1>0, <1>2, <1>5, <2>1
  <2>2. CASE step = -1
    BY SMTT(30), <1>0, <1>2, <1>5, <2>2
  <2> QED BY <1>1, <2>1, <2>2
<1>7. l \in Seq(Int) /\ Len(l) = 0
  <2>1. y \in Int
    BY <1>0
  <2>2. l \in Seq(Int) /\ Len(l) = (y - j) * step + 1
    BY <1>1, <1>2, <2>1, ToComeIs, Zenon
  <2> QED BY <1>6, <2>2
<1> HIDE DEF l
<1>8. l \o s = s
  <2>1. l \o s \in Seq(Int) /\ Len(l \o s) = Len(s) /\ \A n \in 1..Len(s) : (l \o s)[n] = s[n]
    BY <1>4, <1>7
  <2> QED BY <1>4, <2>1, SameSequence
<1>9. out[Len(out)] = y /\ \E n \in 0..(i - 1) : Filled(a)[n] = out \o s
  BY <1>2, <1>3, <1>6, <1>8
<1> QED BY <1>0, <1>9 DEF BeforePair, y, s

(* At each place of the scenario.                                           *)
GapsAt(at, m, a) ==
  /\ GapsLoop(m, a)
  /\ at \in {"pair", "direction", "up", "down", "init", "end"} => BeforePair(m.out, a, m.i)
  /\ at \in {"direction", "up", "down", "init", "more", "append", "next"} => m.i <= Len(a)
  /\ at = "end" => m.i = Len(a) + 1
  /\ at = "up" => a[m.i - 1] < a[m.i]
  /\ at = "down" => ~(a[m.i - 1] < a[m.i])
  /\ at \in {"init", "more", "append"} => Upward(m.step, a, m.i)
  /\ at \in {"more", "append"} => WithinPair(m.out, m.j, m.step, a, m.i)
  /\ at = "append" => m.j # a[m.i] + m.step
  /\ at = "next" => BeforePair(m.out, a, m.i + 1)
GapsPlaces == {"pair", "direction", "up", "down", "init", "more", "append", "next", "end"}
GapsGood ==
  /\ Running /\ GapsInput(state.in)
  /\ At("start") \/ (state.at \in GapsPlaces /\ GapsAt(state.at, state.m, state.in))

(* fill-the-gaps: every step keeps that.                                    *)
LEMMA GapsGoOn == GapsGood /\ GapsStep => GapsGood'
<1> DEFINE a == state.in
           m == state.m
           n == state.m'
           names == {"i", "out", "step", "j"}
<1> SUFFICES ASSUME GapsGood, GapsStep PROVE GapsGood'
  OBVIOUS
<1>0. /\ Running /\ GapsInput(a)
      /\ At("start") \/ (state.at \in GapsPlaces /\ GapsAt(state.at, m, a))
  BY DEF GapsGood
<1>1. /\ Len(a) \in Nat /\ Len(a) > 1 /\ a \in Seq(Int)
      /\ \A k \in 1..Len(a) : a[k] \in Nat
  BY <1>0 DEF GapsInput
<1>2. ASSUME ~At("start")
      PROVE  /\ GapsAt(state.at, m, a) /\ GapsLoop(m, a) /\ DOMAIN m = names
             /\ m.i \in 2..(Len(a) + 1) /\ m.out \in Seq(Int) /\ Len(m.out) >= 1 /\ Smooth(m.out)
  BY <1>0, <1>2 DEF GapsAt, GapsLoop
<1>3. GapsGood' <=> /\ Running' /\ GapsInput(state'.in)
                    /\ \/ state'.at = "start"
                       \/ state'.at \in GapsPlaces /\ GapsAt(state'.at, n, state'.in)
  BY Zenon DEF GapsGood, At
<1> HIDE DEF a, m, n
<1>4. ASSUME NEW at \in GapsPlaces, Running', state'.at = at, state'.in = a, GapsAt(at, n, a)
      PROVE  GapsGood'
  BY <1>0, <1>3, <1>4
<1>5. CASE At("start") /\ Go("pair", [i |-> 2, out |-> <<a[1]>>, step |-> 0, j |-> 0])
  <2>1. /\ Running' /\ state'.at = "pair" /\ state'.in = a
        /\ n = [i |-> 2, out |-> <<a[1]>>, step |-> 0, j |-> 0]
    BY <1>0, <1>5, StepsGo DEF n, a
  <2>2. /\ DOMAIN n = names /\ n.i = 2 /\ n.out = <<a[1]>>
    BY <2>1
  <2>3. /\ n.out \in Seq(Int) /\ Len(n.out) = 1 /\ n.out[1] = a[1] /\ n.i \in 2..(Len(a) + 1)
    BY <1>1, <2>2
  <2>4. Smooth(n.out)
    BY <2>3 DEF Smooth
  <2>5. BeforePair(n.out, a, n.i)
    <3>1. Filled(a)[0] = a
      BY <1>1, FilledGrows
    <3>2. a = From(a, 1)
      <4>1. /\ From(a, 1) \in Seq(Int) /\ Len(From(a, 1)) = Len(a)
            /\ \A k \in 1..Len(a) : From(a, 1)[k] = a[k]
        BY <1>1 DEF From
      <4> QED BY <1>1, <4>1, SameSequence
    <3>3. From(a, 1) = <<a[1]>> \o From(a, 2)
      <4>1. 1 \in 1..Len(a) /\ 1 + 1 = 2
        BY <1>1
      <4> QED BY <1>1, <4>1, FromIs
    <3>4. 0 \in 0..(2 - 2)
      OBVIOUS
    <3>5. \E k \in 0..(2 - 2) : Filled(a)[k] = <<a[1]>> \o From(a, 2)
      BY <3>1, <3>2, <3>3, <3>4
    <3>6. n.out[Len(n.out)] = a[2 - 1]
      BY <2>3
    <3> QED BY <2>2, <3>5, <3>6 DEF BeforePair
  <2>6. GapsAt("pair", n, a)
    BY <2>2, <2>3, <2>4, <2>5 DEF GapsAt, GapsLoop
  <2> QED BY <1>4, <2>1, <2>6 DEF GapsPlaces
<1>6. CASE At("pair") /\ Branch(m.i > Len(a), "end", "direction")
  <2>1. /\ Running' /\ state'.in = a /\ n = m
        /\ state'.at = IF m.i > Len(a) THEN "end" ELSE "direction"
    BY <1>0, <1>6, StepsGo DEF n, m, a
  <2>2. GapsLoop(m, a) /\ BeforePair(m.out, a, m.i) /\ m.i \in 2..(Len(a) + 1)
    BY <1>2, <1>6 DEF GapsAt, At
  <2>3. CASE m.i > Len(a)
    <3>1. m.i = Len(a) + 1
      BY <1>1, <2>2, <2>3
    <3>2. GapsAt("end", n, a)
      BY <2>1, <2>2, <3>1 DEF GapsAt
    <3> QED BY <1>4, <2>1, <2>3, <3>2 DEF GapsPlaces
  <2>4. CASE ~(m.i > Len(a))
    <3>1. m.i <= Len(a)
      BY <1>1, <2>2, <2>4
    <3>2. GapsAt("direction", n, a)
      BY <2>1, <2>2, <3>1 DEF GapsAt
    <3> QED BY <1>4, <2>1, <2>4, <3>2 DEF GapsPlaces
  <2> QED BY <2>3, <2>4
<1>7. CASE At("direction") /\ Branch(a[m.i - 1] < a[m.i], "up", "down")
  <2>1. /\ Running' /\ state'.in = a /\ n = m
        /\ state'.at = IF a[m.i - 1] < a[m.i] THEN "up" ELSE "down"
    BY <1>0, <1>7, StepsGo DEF n, m, a
  <2>2. GapsLoop(m, a) /\ BeforePair(m.out, a, m.i) /\ m.i <= Len(a)
    BY <1>2, <1>7 DEF GapsAt, At
  <2>3. CASE a[m.i - 1] < a[m.i]
    <3>1. GapsAt("up", n, a)
      BY <2>1, <2>2, <2>3 DEF GapsAt
    <3> QED BY <1>4, <2>1, <2>3, <3>1 DEF GapsPlaces
  <2>4. CASE ~(a[m.i - 1] < a[m.i])
    <3>1. GapsAt("down", n, a)
      BY <2>1, <2>2, <2>4 DEF GapsAt
    <3> QED BY <1>4, <2>1, <2>4, <3>1 DEF GapsPlaces
  <2> QED BY <2>3, <2>4
<1>8. CASE At("up") /\ Go("init", [m EXCEPT !.step = 1])
  <2>1. Running' /\ state'.in = a /\ state'.at = "init" /\ n = [m EXCEPT !.step = 1]
    BY <1>0, <1>8, StepsGo DEF n, m, a
  <2>2. /\ DOMAIN m = names /\ GapsLoop(m, a) /\ BeforePair(m.out, a, m.i) /\ m.i <= Len(a)
        /\ a[m.i - 1] < a[m.i]
    BY <1>2, <1>8 DEF GapsAt, At
  <2>3. DOMAIN n = names /\ n.i = m.i /\ n.out = m.out /\ n.step = 1
    BY <2>1, <2>2
  <2>4. Upward(n.step, a, n.i)
    BY <2>2, <2>3 DEF Upward
  <2>5. GapsAt("init", n, a)
    BY <2>2, <2>3, <2>4 DEF GapsAt, GapsLoop
  <2> QED BY <1>4, <2>1, <2>5 DEF GapsPlaces
<1>9. CASE At("down") /\ Go("init", [m EXCEPT !.step = -1])
  <2>1. Running' /\ state'.in = a /\ state'.at = "init" /\ n = [m EXCEPT !.step = -1]
    BY <1>0, <1>9, StepsGo DEF n, m, a
  <2>2. /\ DOMAIN m = names /\ GapsLoop(m, a) /\ BeforePair(m.out, a, m.i) /\ m.i <= Len(a)
        /\ ~(a[m.i - 1] < a[m.i])
    BY <1>2, <1>9 DEF GapsAt, At
  <2>3. DOMAIN n = names /\ n.i = m.i /\ n.out = m.out /\ n.step = -1
    BY <2>1, <2>2
  <2>4. Upward(n.step, a, n.i)
    BY <2>2, <2>3 DEF Upward
  <2>5. GapsAt("init", n, a)
    BY <2>2, <2>3, <2>4 DEF GapsAt, GapsLoop
  <2> QED BY <1>4, <2>1, <2>5 DEF GapsPlaces
<1>10. CASE At("init") /\ Go("more", [m EXCEPT !.j = a[m.i - 1] + m.step])
  <2>1. Running' /\ state'.in = a /\ state'.at = "more" /\ n = [m EXCEPT !.j = a[m.i - 1] + m.step]
    BY <1>0, <1>10, StepsGo DEF n, m, a
  <2>2. /\ DOMAIN m = names /\ GapsLoop(m, a) /\ BeforePair(m.out, a, m.i) /\ m.i <= Len(a)
        /\ Upward(m.step, a, m.i) /\ m.i \in 2..(Len(a) + 1)
        /\ m.out \in Seq(Int) /\ Len(m.out) >= 1 /\ Smooth(m.out)
    BY <1>2, <1>10 DEF GapsAt, At
  <2>3. /\ DOMAIN n = names /\ n.i = m.i /\ n.out = m.out /\ n.step = m.step
        /\ n.j = a[m.i - 1] + m.step
    BY <2>1, <2>2
  <2>4. m.i \in 2..Len(a)
    BY <1>1, <2>2
  <2>5. WithinPair(m.out, a[m.i - 1] + m.step, m.step, a, m.i)
    BY <1>0, <2>2, <2>4, IntoPair, Zenon
  <2>6. GapsAt("more", n, a)
    BY <2>2, <2>3, <2>5 DEF GapsAt, GapsLoop
  <2> QED BY <1>4, <2>1, <2>6 DEF GapsPlaces
<1>11. CASE At("more") /\ Branch(m.j # a[m.i] + m.step, "append", "next")
  <2>1. /\ Running' /\ state'.in = a /\ n = m
        /\ state'.at = IF m.j # a[m.i] + m.step THEN "append" ELSE "next"
    BY <1>0, <1>11, StepsGo DEF n, m, a
  <2>2. /\ GapsLoop(m, a) /\ m.i <= Len(a) /\ Upward(m.step, a, m.i)
        /\ WithinPair(m.out, m.j, m.step, a, m.i)
    BY <1>2, <1>11 DEF GapsAt, At
  <2>3. CASE m.j # a[m.i] + m.step
    <3>1. GapsAt("append", n, a)
      BY <2>1, <2>2, <2>3 DEF GapsAt
    <3> QED BY <1>4, <2>1, <2>3, <3>1 DEF GapsPlaces
  <2>4. CASE m.j = a[m.i] + m.step
    <3>1. m.i \in 2..Len(a) /\ m.out \in Seq(Int)
      BY <1>1, <1>2, <1>11, <2>2 DEF At
    <3>2. BeforePair(m.out, a, m.i + 1)
      BY <1>0, <2>2, <2>4, <3>1, OutOfPair, Zenon
    <3>3. GapsAt("next", n, a)
      BY <2>1, <2>2, <3>2 DEF GapsAt
    <3> QED BY <1>4, <2>1, <2>4, <3>3 DEF GapsPlaces
  <2> QED BY <2>3, <2>4
<1>12. CASE At("append") /\ Go("more", [m EXCEPT !.out = Append(@, m.j), !.j = @ + m.step])
  <2>1. /\ Running' /\ state'.in = a /\ state'.at = "more"
        /\ n = [m EXCEPT !.out = Append(@, m.j), !.j = @ + m.step]
    BY <1>0, <1>12, StepsGo DEF n, m, a
  <2>2. /\ DOMAIN m = names /\ GapsLoop(m, a) /\ m.i <= Len(a) /\ Upward(m.step, a, m.i)
        /\ WithinPair(m.out, m.j, m.step, a, m.i) /\ m.j # a[m.i] + m.step
        /\ m.i \in 2..(Len(a) + 1) /\ m.out \in Seq(Int) /\ Len(m.out) >= 1 /\ Smooth(m.out)
    BY <1>2, <1>12 DEF GapsAt, At
  <2>3. /\ DOMAIN n = names /\ n.i = m.i /\ n.out = Append(m.out, m.j) /\ n.step = m.step
        /\ n.j = m.j + m.step
    BY <2>1, <2>2
  <2>4. m.i \in 2..Len(a)
    BY <1>1, <2>2
  <2>5. /\ WithinPair(Append(m.out, m.j), m.j + m.step, m.step, a, m.i)
        /\ Append(m.out, m.j) \in Seq(Int) /\ Len(Append(m.out, m.j)) >= 1
        /\ Smooth(Append(m.out, m.j))
    BY <1>0, <2>2, <2>4, OnInPair, Zenon
  <2>6. GapsAt("more", n, a)
    BY <2>2, <2>3, <2>5 DEF GapsAt, GapsLoop
  <2> QED BY <1>4, <2>1, <2>6 DEF GapsPlaces
<1>13. CASE At("next") /\ Go("pair", [m EXCEPT !.i = @ + 1])
  <2>1. Running' /\ state'.in = a /\ state'.at = "pair" /\ n = [m EXCEPT !.i = @ + 1]
    BY <1>0, <1>13, StepsGo DEF n, m, a
  <2>2. /\ DOMAIN m = names /\ GapsLoop(m, a) /\ m.i <= Len(a) /\ BeforePair(m.out, a, m.i + 1)
        /\ m.i \in 2..(Len(a) + 1)
    BY <1>2, <1>13 DEF GapsAt, At
  <2>3. DOMAIN n = names /\ n.i = m.i + 1 /\ n.out = m.out
    BY <2>1, <2>2
  <2>4. n.i \in 2..(Len(a) + 1)
    BY <1>1, <2>2, <2>3
  <2>5. GapsAt("pair", n, a)
    BY <2>2, <2>3, <2>4 DEF GapsAt, GapsLoop
  <2> QED BY <1>4, <2>1, <2>5 DEF GapsPlaces
<1>14. \/ At("start") /\ Go("pair", [i |-> 2, out |-> <<a[1]>>, step |-> 0, j |-> 0])
       \/ At("pair") /\ Branch(m.i > Len(a), "end", "direction")
       \/ At("direction") /\ Branch(a[m.i - 1] < a[m.i], "up", "down")
       \/ At("up") /\ Go("init", [m EXCEPT !.step = 1])
       \/ At("down") /\ Go("init", [m EXCEPT !.step = -1])
       \/ At("init") /\ Go("more", [m EXCEPT !.j = a[m.i - 1] + m.step])
       \/ At("more") /\ Branch(m.j # a[m.i] + m.step, "append", "next")
       \/ At("append") /\ Go("more", [m EXCEPT !.out = Append(@, m.j), !.j = @ + m.step])
       \/ At("next") /\ Go("pair", [m EXCEPT !.i = @ + 1])
  BY Zenon DEF GapsStep, m, a
<1> QED BY <1>5, <1>6, <1>7, <1>8, <1>9, <1>10, <1>11, <1>12, <1>13, <1>14

(* ... so that what it has put at the end is the sequence without gaps.     *)
LEMMA GapsAnswers ==
  ASSUME GapsGood, At("end")
  PROVE  state.m.out = GapsAnswer(state.in)
<1> DEFINE a == state.in
           out == state.m.out
<1>1. /\ GapsInput(a) /\ out \in Seq(Int) /\ Smooth(out)
      /\ BeforePair(out, a, Len(a) + 1)
  BY DEF GapsGood, GapsAt, GapsLoop, At
<1>2. Len(a) \in Nat /\ Len(a) > 1 /\ a \in Seq(Int)
  BY <1>1 DEF GapsInput
<1> HIDE DEF a, out
<1>3. PICK k \in 0..((Len(a) + 1) - 2) : Filled(a)[k] = out \o From(a, Len(a) + 1)
  BY <1>1 DEF BeforePair
<1>4. out \o From(a, Len(a) + 1) = out
  <2> DEFINE r == From(a, Len(a) + 1)
  <2>1. r \in Seq(Int) /\ Len(r) = 0
    BY <1>2 DEF From
  <2> HIDE DEF r
  <2>2. /\ out \o r \in Seq(Int) /\ Len(out \o r) = Len(out)
        /\ \A i \in 1..Len(out) : (out \o r)[i] = out[i]
    BY <1>1, <2>1
  <2>3. out \o r = out
    BY <1>1, <2>2, SameSequence
  <2> QED BY <2>3 DEF r
<1>5. k \in 0..Len(a)
  BY <1>2
<1>6. GapsAnswer(a) = Filled(a)[k]
  BY <1>1, <1>2, <1>3, <1>4, <1>5, FilledOnce
<1> QED BY <1>3, <1>4, <1>6 DEF a, out

(* Its scenario ends in one place.                                          *)
LEMMA GapsEnds == \A id \in Ends(GapsDiagram) : id = "end"
<1> SUFFICES ASSUME NEW id \in Ends(GapsDiagram) PROVE id = "end"
  OBVIOUS
<1> DEFINE names == {"event", "start", "decision", "pair", "direction", "etl", "up", "down",
                     "init", "more", "append", "next", "end"}
           nodes == << <<"event", "start">>, <<"decision", "pair", "direction">>,
                       <<"etl", "up", "down", "init">>, <<"decision", "more">>,
                       <<"etl", "append", "next">>, <<"end", "end">> >>
           edges == << <<"start", "pair">>, <<"pair", "end", "direction">>,
                       <<"direction", "up", "down">>, <<"up", "init">>, <<"down", "init">>,
                       <<"init", "more">>, <<"more", "append">>, <<"append", "more">>,
                       <<"more", "next">>, <<"next", "pair">> >>
<1>1. GapsDiagram = Graph("td", nodes, edges)
  BY DEF GapsDiagram, Scenario
<1>2. nodes \in Seq(Seq(names))
  OBVIOUS
<1>3. /\ DOMAIN nodes = 1..6 /\ Len(nodes[6]) = 2 /\ nodes[6][2] = "end"
      /\ \A n \in (1..6) \ {6} : nodes[n][1] # "end"
  OBVIOUS
<1> HIDE DEF nodes, edges, names
<1>4. PICK n \in DOMAIN nodes : \E i \in 2..Len(nodes[n]) : nodes[n][1] = "end" /\ id = nodes[n][i]
  BY <1>1, <1>2, EndsAre
<1>5. PICK i \in 2..Len(nodes[n]) : nodes[n][1] = "end" /\ id = nodes[n][i]
  BY <1>4
<1>6. n = 6
  BY <1>3, <1>5
<1>7. i = 2
  <2>1. Len(nodes[n]) = 2
    BY <1>3, <1>6
  <2>2. i \in 2..2
    BY <2>1
  <2> QED BY <2>2
<1> QED BY <1>3, <1>5, <1>6, <1>7

(* The solutions whose answers are proved right, and what is known of the   *)
(* run of one.                                                              *)
Answering ==
  {"almost-equal", "attack", "fill-the-gaps", "find-snuke", "impartial-gift", "overall-winner"}
RunGood ==
  /\ entry = "almost-equal" => AlmostGood
  /\ entry = "attack" => AttackGood
  /\ entry = "fill-the-gaps" => GapsGood
  /\ entry = "find-snuke" => SnukeGood
  /\ entry = "impartial-gift" => GiftGood
  /\ entry = "overall-winner" => WinnerGood
AnswersInv == entry \in Slugs => RunGood

(* It holds of a run that starts on what its problem promises, ...          *)
LEMMA AnswersBegin == Init => AnswersInv
<1> SUFFICES ASSUME Init, entry \in Slugs PROVE RunGood
  BY DEF AnswersInv
<1>1. SolutionInit
  BY EntriesAssumption DEF Init
<1>2. PICK slug \in Slugs : entry = slug /\ Begin(SolutionInputs[slug])
  BY <1>1 DEF SolutionInit
<1>3. PICK x \in SolutionInputs[entry] : state = [at |-> "start", in |-> x, m |-> <<>>]
  BY <1>2 DEF Begin
<1>4. Running /\ state.at = "start" /\ state.in = x
  BY <1>3 DEF Running
<1>5. entry = "almost-equal" => AlmostGood
  <2>1. entry = "almost-equal" => AlmostInput(x)
    BY <1>3, InputsAssumption DEF AlmostInput
  <2> QED BY <1>4, <2>1 DEF AlmostGood
<1>6. entry = "attack" => AttackGood
  <2>1. entry = "attack" => {x.a, x.b} \subseteq Nat \ {0}
    BY <1>3, InputsAssumption
  <2> QED BY <1>4, <2>1 DEF AttackGood, At
<1>7. entry = "find-snuke" => SnukeGood
  <2>1. entry = "find-snuke" => SnukeInput(x)
    BY <1>3, InputsAssumption DEF SnukeInput
  <2> QED BY <1>4, <2>1 DEF SnukeGood, At
<1>8. entry = "impartial-gift" => GiftGood
  <2>1. entry = "impartial-gift" => GiftInput(x)
    BY <1>3, InputsAssumption DEF GiftInput
  <2> QED BY <1>4, <2>1 DEF GiftGood, At
<1>9. entry = "overall-winner" => WinnerGood
  <2>1. entry = "overall-winner" => WinnerInput(x)
    BY <1>3, InputsAssumption DEF WinnerInput
  <2> QED BY <1>4, <2>1 DEF WinnerGood, At
<1>10. entry = "fill-the-gaps" => GapsGood
  <2>1. entry = "fill-the-gaps" => GapsInput(x)
    BY <1>3, InputsAssumption DEF GapsInput
  <2> QED BY <1>4, <2>1 DEF GapsGood, At
<1> QED BY <1>5, <1>6, <1>7, <1>8, <1>9, <1>10 DEF RunGood

(* ... and goes on.                                                         *)
LEMMA AnswersGoOn == AnswersInv /\ [Next]_vars => AnswersInv'
<1> SUFFICES ASSUME AnswersInv, [Next]_vars, entry' \in Slugs PROVE RunGood'
  <2>1. Slugs' = Slugs
    BY DEF Slugs
  <2> QED BY <2>1 DEF AnswersInv
<1>1. entry' = entry
  BY DEF Next, SolutionStep, ModuleStep, vars
<1>2. RunGood
  BY <1>1 DEF AnswersInv
<1>3. CASE SolutionStep
  <2>1. /\ entry = "almost-equal" => AlmostEqualStep
        /\ entry = "attack" => AttackStep
        /\ entry = "fill-the-gaps" => GapsStep
        /\ entry = "find-snuke" => FindSnukeStep
        /\ entry = "impartial-gift" => ImpartialGiftStep
        /\ entry = "overall-winner" => WinnerStep
    BY <1>3 DEF SolutionStep
  <2> QED BY <1>1, <1>2, <2>1, AlmostGoesOn, AttackGoesOn, GapsGoOn, SnukeGoesOn, GiftGoesOn,
          WinnerGoesOn DEF RunGood
<1>4. CASE ModuleStep
  BY <1>1, <1>4, EntriesAssumption DEF ModuleStep
<1>5. CASE UNCHANGED vars
  <2>1. state' = state
    BY <1>5 DEF vars
  <2>2. AlmostGood => AlmostGood'
    BY <2>1 DEF AlmostGood, Running
  <2>3. AttackGood => AttackGood'
    BY <2>1 DEF AttackGood, Running, At
  <2>4. SnukeGood => SnukeGood'
    BY <2>1 DEF SnukeGood, Running, At
  <2>5. GiftGood => GiftGood'
    BY <2>1 DEF GiftGood, Running, At
  <2>6. WinnerGood => WinnerGood'
    BY <2>1 DEF WinnerGood, Running, At
  <2>7. GapsGood => GapsGood'
    BY <2>1 DEF GapsGood, Running, At
  <2> QED BY <1>1, <1>2, <2>2, <2>3, <2>4, <2>5, <2>6, <2>7 DEF RunGood
<1> QED BY <1>3, <1>4, <1>5 DEF Next

(* What a run answers at an end is what its problem asks for.               *)
LEMMA AnswersThen == AnswersInv => (entry \in Answering => AnswersRight)
<1> SUFFICES ASSUME AnswersInv, entry \in Slugs, entry \in Answering,
                    state.at \in Ends(DiagramOf(entry))
             PROVE  Answered
  BY DEF AnswersRight
<1>1. CASE entry = "almost-equal"
  <2>1. state.at \in {"yes", "no"}
    BY <1>1, AlmostEnds DEF DiagramOf
  <2>2. At("yes") = AlmostEqualAnswer(state.in)
    BY <1>1, <2>1, AlmostAnswers DEF AnswersInv, RunGood
  <2> QED BY <1>1, <2>2 DEF Answered
<1>2. CASE entry = "attack"
  <2>1. At("out")
    BY <1>2, AttackEnds DEF DiagramOf, At
  <2>2. state.m = AttackAnswer(state.in)
    BY <1>2, <2>1 DEF AnswersInv, RunGood, AttackGood
  <2> QED BY <1>2, <2>2 DEF Answered
<1>3. CASE entry = "find-snuke"
  <2>1. At("result")
    BY <1>3, SnukeEnds DEF DiagramOf, At
  <2>2. SnukeGood
    BY <1>3 DEF AnswersInv, RunGood
  <2>3. /\ SnukeInput(state.in) /\ Spelled(state.m, state.in)
        /\ Len(state.m.cells) = Len(Target) /\ state.m.n \in Nat
        /\ state.m.cells \in Seq(Cells(state.in))
    BY <2>1, <2>2 DEF SnukeGood, At
  <2>4. {state.m.cells} = Spellings(state.in)
    BY <2>3, SpelledIsSpelling
  <2> QED BY <1>3, <2>4 DEF Answered
<1>4. CASE entry = "impartial-gift"
  <2>1. At("end")
    BY <1>4, GiftEnds DEF DiagramOf, At
  <2>2. GiftGood
    BY <1>4 DEF AnswersInv, RunGood
  <2>3. /\ GiftInput(state.in) /\ state.m.B = Sorted(state.in.B)
        /\ IsBest(state.in, state.m.B, state.m.i, state.m.best)
        /\ state.m.i = Len(state.in.A) + 1
    BY <2>1, <2>2 DEF GiftGood, At
  <2>4. IsBest(state.in, Sorted(state.in.B), Len(state.in.A) + 1, state.m.best)
    BY <2>3
  <2>5. state.m.best = ImpartialGiftAnswer(state.in)
    BY <2>3, <2>4, BestAnswers
  <2> QED BY <1>4, <2>5 DEF Answered
<1>5. CASE entry = "overall-winner"
  <2>1. state.at \in {"t", "a"}
    BY <1>5, WinnerEnds DEF DiagramOf
  <2>2. WinnerAnswer(state.in) = state.at
    BY <1>5, <2>1 DEF AnswersInv, RunGood, WinnerGood, At
  <2> QED BY <1>5, <2>2 DEF Answered, At
<1>6. CASE entry = "fill-the-gaps"
  <2>1. At("end")
    BY <1>6, GapsEnds DEF DiagramOf, At
  <2>2. state.m.out = GapsAnswer(state.in)
    BY <1>6, <2>1, GapsAnswers DEF AnswersInv, RunGood
  <2> QED BY <1>6, <2>2 DEF Answered
<1> QED BY <1>1, <1>2, <1>3, <1>4, <1>5, <1>6 DEF Answering

(* Wherever their scenarios end, almost-equal, attack, fill-the-gaps,       *)
(* find-snuke, impartial-gift and overall-winner have the answer their      *)
(* problem asks for, whatever input it allows.                              *)
THEOREM SolutionsAnswerRight == Spec => [](entry \in Answering => AnswersRight)
<1>1. Init => AnswersInv
  BY AnswersBegin
<1>2. AnswersInv /\ [Next]_vars => AnswersInv'
  BY AnswersGoOn
<1>3. AnswersInv => (entry \in Answering => AnswersRight)
  BY AnswersThen
<1> QED BY <1>1, <1>2, <1>3, PTL DEF Spec

(* The modules' graphs are built alike.                                      *)
LEMMA DiagramOperators ==
  /\ \A v, n, e : TS!Graph(v, n, e) = Graph(v, n, e)
  /\ \A v, n, e : PS!Graph(v, n, e) = Graph(v, n, e)
  /\ \A v, n, e : SE!Graph(v, n, e) = Graph(v, n, e)
  /\ \A v, n, e : HR!Graph(v, n, e) = Graph(v, n, e)
  /\ \A v, n, e : JS!Graph(v, n, e) = Graph(v, n, e)
  /\ \A v, n, e : BT!Graph(v, n, e) = Graph(v, n, e)
  /\ \A v, n, e : AU!Graph(v, n, e) = Graph(v, n, e)
<1>1. \A v, n, e : TS!Graph(v, n, e) = Graph(v, n, e)
  BY DEF TS!Graph, Graph, TS!Rows, Rows, TS!Concat, Concat
<1>2. \A v, n, e : PS!Graph(v, n, e) = Graph(v, n, e)
  BY DEF PS!Graph, Graph, PS!Rows, Rows, PS!Concat, Concat
<1>3. \A v, n, e : SE!Graph(v, n, e) = Graph(v, n, e)
  BY DEF SE!Graph, Graph, SE!Rows, Rows, SE!Concat, Concat
<1>4. \A v, n, e : HR!Graph(v, n, e) = Graph(v, n, e)
  BY DEF HR!Graph, Graph, HR!Rows, Rows, HR!Concat, Concat
<1>5. \A v, n, e : JS!Graph(v, n, e) = Graph(v, n, e)
  BY DEF JS!Graph, Graph, JS!Rows, Rows, JS!Concat, Concat
<1>6. \A v, n, e : BT!Graph(v, n, e) = Graph(v, n, e)
  BY DEF BT!Graph, Graph, BT!Rows, Rows, BT!Concat, Concat
<1>7. \A v, n, e : AU!Graph(v, n, e) = Graph(v, n, e)
  BY DEF AU!Graph, Graph, AU!Rows, Rows, AU!Concat, Concat
<1> QED BY <1>1, <1>2, <1>3, <1>4, <1>5, <1>6, <1>7

(* The arrows of a request.                                                 *)
LEMMA RequestArrows ==
  LET g == TS!RequestDiagram IN
  /\ "event" \in Ids(g)
  /\ Arrow(g, "event", "prior")
  /\ Arrow(g, "prior", "dispatch") /\ Arrow(g, "prior", "equal")
  /\ Arrow(g, "equal", "replay") /\ Arrow(g, "equal", "conflict")
  /\ Arrow(g, "dispatch", "exists")
  /\ Arrow(g, "exists", "reject") /\ Arrow(g, "exists", "create")
  /\ Arrow(g, "create", "save")
  /\ Arrow(g, "dispatch", "seats")
  /\ Arrow(g, "seats", "reject") /\ Arrow(g, "seats", "add")
  /\ Arrow(g, "add", "save")
  /\ Arrow(g, "dispatch", "time")
  /\ Arrow(g, "time", "reject") /\ Arrow(g, "time", "advance")
  /\ Arrow(g, "advance", "save")
  /\ Arrow(g, "reject", "save")
<1> DEFINE names == {"add", "advance", "conflict", "create", "decision",
                    "dispatch", "end", "equal", "event", "exists", "prior",
                    "reject", "replay", "save", "seats", "state", "time"}
           nodes == << <<"event", "event">>, <<"decision", "prior", "equal">>,
                       <<"end", "replay">>, <<"state", "conflict">>,
                       <<"decision", "dispatch", "exists">>,
                       <<"state", "create">>, <<"decision", "seats">>,
                       <<"state", "add">>, <<"decision", "time">>,
                       <<"state", "advance">>, <<"end", "reject", "save">> >>
           edges == << <<"event", "prior">>, <<"prior", "dispatch", "equal">>,
                       <<"equal", "replay", "conflict">>,
                       <<"dispatch", "exists">>,
                       <<"exists", "reject", "create">>, <<"create", "save">>,
                       <<"dispatch", "seats">>, <<"seats", "reject", "add">>,
                       <<"add", "save">>, <<"dispatch", "time">>,
                       <<"time", "reject", "advance">>, <<"advance", "save">>,
                       <<"reject", "save">> >>
           g == TS!RequestDiagram
<1>1. g = Graph("td", nodes, edges)
  BY DiagramOperators DEF TS!RequestDiagram, TS!Scenario
<1>2. nodes \in Seq(Seq(names)) /\ edges \in Seq(Seq(names))
  OBVIOUS
<1> HIDE DEF g, nodes, edges, names
<1>3. /\ \A n \in DOMAIN nodes : \A kind, a : nodes[n] = <<kind, a>> => a \in Ids(g)
      /\ \A n \in DOMAIN edges : \A x, a : edges[n] = <<x, a>> =>
           Arrow(g, x, a)
      /\ \A n \in DOMAIN edges : \A x, a, b : edges[n] = <<x, a, b>> =>
           Arrow(g, x, a) /\ Arrow(g, x, b)
  BY <1>1, <1>2, GraphRows
<1>4. "event" \in Ids(g)
  BY <1>3 DEF nodes
<1>5. /\ Arrow(g, "event", "prior")
      /\ Arrow(g, "prior", "dispatch") /\ Arrow(g, "prior", "equal")
      /\ Arrow(g, "equal", "replay") /\ Arrow(g, "equal", "conflict")
      /\ Arrow(g, "dispatch", "exists")
      /\ Arrow(g, "exists", "reject") /\ Arrow(g, "exists", "create")
      /\ Arrow(g, "create", "save")
  BY <1>3 DEF edges
<1>6. /\ Arrow(g, "dispatch", "seats")
      /\ Arrow(g, "seats", "reject") /\ Arrow(g, "seats", "add")
      /\ Arrow(g, "add", "save")
      /\ Arrow(g, "dispatch", "time")
      /\ Arrow(g, "time", "reject") /\ Arrow(g, "time", "advance")
      /\ Arrow(g, "advance", "save")
  BY <1>3 DEF edges
<1>7. /\ Arrow(g, "reject", "save")
  BY <1>3 DEF edges
<1> QED BY <1>4, <1>5, <1>6, <1>7 DEF g

(* The arrows of a hold.                                                    *)
LEMMA HoldArrows ==
  LET g == TS!HoldDiagram IN
  /\ "event" \in Ids(g)
  /\ Arrow(g, "event", "clock")
  /\ Arrow(g, "clock", "reject") /\ Arrow(g, "clock", "seats")
  /\ Arrow(g, "seats", "reject") /\ Arrow(g, "seats", "deadline")
  /\ Arrow(g, "deadline", "reject") /\ Arrow(g, "deadline", "available")
  /\ Arrow(g, "available", "reject") /\ Arrow(g, "available", "hold")
  /\ Arrow(g, "hold", "writes")
  /\ Arrow(g, "writes", "done")
<1> DEFINE names == {"available", "clock", "deadline", "decision", "done", "end",
                    "event", "hold", "reject", "seats", "state", "writes"}
           nodes == << <<"event", "event">>,
                       <<"decision", "clock", "seats", "deadline", "available">>,
                       <<"end", "reject">>, <<"state", "hold", "writes">>,
                       <<"end", "done">> >>
           edges == << <<"event", "clock">>, <<"clock", "reject", "seats">>,
                       <<"seats", "reject", "deadline">>,
                       <<"deadline", "reject", "available">>,
                       <<"available", "reject", "hold">>, <<"hold", "writes">>,
                       <<"writes", "done">> >>
           g == TS!HoldDiagram
<1>1. g = Graph("td", nodes, edges)
  BY DiagramOperators DEF TS!HoldDiagram, TS!Scenario
<1>2. nodes \in Seq(Seq(names)) /\ edges \in Seq(Seq(names))
  OBVIOUS
<1> HIDE DEF g, nodes, edges, names
<1>3. /\ \A n \in DOMAIN nodes : \A kind, a : nodes[n] = <<kind, a>> => a \in Ids(g)
      /\ \A n \in DOMAIN edges : \A x, a : edges[n] = <<x, a>> =>
           Arrow(g, x, a)
      /\ \A n \in DOMAIN edges : \A x, a, b : edges[n] = <<x, a, b>> =>
           Arrow(g, x, a) /\ Arrow(g, x, b)
  BY <1>1, <1>2, GraphRows
<1>4. "event" \in Ids(g)
  BY <1>3 DEF nodes
<1>5. /\ Arrow(g, "event", "clock")
      /\ Arrow(g, "clock", "reject") /\ Arrow(g, "clock", "seats")
      /\ Arrow(g, "seats", "reject") /\ Arrow(g, "seats", "deadline")
      /\ Arrow(g, "deadline", "reject") /\ Arrow(g, "deadline", "available")
      /\ Arrow(g, "available", "reject") /\ Arrow(g, "available", "hold")
      /\ Arrow(g, "hold", "writes")
  BY <1>3 DEF edges
<1>6. /\ Arrow(g, "writes", "done")
  BY <1>3 DEF edges
<1> QED BY <1>4, <1>5, <1>6 DEF g

(* The arrows of a confirmation or a release.                               *)
LEMMA ConfirmArrows ==
  LET g == TS!ConfirmDiagram IN
  /\ "event" \in Ids(g)
  /\ Arrow(g, "event", "hold")
  /\ Arrow(g, "hold", "reject") /\ Arrow(g, "hold", "owner")
  /\ Arrow(g, "owner", "reject") /\ Arrow(g, "owner", "terminal")
  /\ Arrow(g, "terminal", "reject") /\ Arrow(g, "terminal", "expired")
  /\ Arrow(g, "expired", "reject") /\ Arrow(g, "expired", "transition")
  /\ Arrow(g, "reject", "compensate")
  /\ Arrow(g, "compensate", "seq") /\ Arrow(g, "compensate", "noop")
  /\ Arrow(g, "transition", "noop")
<1> DEFINE names == {"compensate", "decision", "end", "event", "expired", "hold",
                    "noop", "owner", "reject", "seq", "state", "terminal",
                    "transition"}
           nodes == << <<"event", "event">>,
                       <<"decision", "hold", "owner", "terminal", "expired", "compensate">>,
                       <<"state", "seq">>, <<"end", "reject">>,
                       <<"state", "transition">>, <<"end", "noop">> >>
           edges == << <<"event", "hold">>, <<"hold", "reject", "owner">>,
                       <<"owner", "reject", "terminal">>,
                       <<"terminal", "reject", "expired">>,
                       <<"expired", "reject", "transition">>,
                       <<"reject", "compensate">>,
                       <<"compensate", "seq", "noop">>, <<"transition", "noop">> >>
           g == TS!ConfirmDiagram
<1>1. g = Graph("td", nodes, edges)
  BY DiagramOperators DEF TS!ConfirmDiagram, TS!Scenario
<1>2. nodes \in Seq(Seq(names)) /\ edges \in Seq(Seq(names))
  OBVIOUS
<1> HIDE DEF g, nodes, edges, names
<1>3. /\ \A n \in DOMAIN nodes : \A kind, a : nodes[n] = <<kind, a>> => a \in Ids(g)
      /\ \A n \in DOMAIN edges : \A x, a : edges[n] = <<x, a>> =>
           Arrow(g, x, a)
      /\ \A n \in DOMAIN edges : \A x, a, b : edges[n] = <<x, a, b>> =>
           Arrow(g, x, a) /\ Arrow(g, x, b)
  BY <1>1, <1>2, GraphRows
<1>4. "event" \in Ids(g)
  BY <1>3 DEF nodes
<1>5. /\ Arrow(g, "event", "hold")
      /\ Arrow(g, "hold", "reject") /\ Arrow(g, "hold", "owner")
      /\ Arrow(g, "owner", "reject") /\ Arrow(g, "owner", "terminal")
      /\ Arrow(g, "terminal", "reject") /\ Arrow(g, "terminal", "expired")
      /\ Arrow(g, "expired", "reject") /\ Arrow(g, "expired", "transition")
      /\ Arrow(g, "reject", "compensate")
  BY <1>3 DEF edges
<1>6. /\ Arrow(g, "compensate", "seq") /\ Arrow(g, "compensate", "noop")
      /\ Arrow(g, "transition", "noop")
  BY <1>3 DEF edges
<1> QED BY <1>4, <1>5, <1>6 DEF g

(* The arrows of a command on the ledger.                                   *)
LEMMA CommandArrows ==
  LET g == PS!CommandDiagram IN
  /\ "call" \in Ids(g)
  /\ Arrow(g, "call", "valid")
  /\ Arrow(g, "valid", "depot") /\ Arrow(g, "valid", "invalid")
  /\ Arrow(g, "depot", "request")
  /\ Arrow(g, "request", "type") /\ Arrow(g, "request", "equal")
  /\ Arrow(g, "equal", "replay") /\ Arrow(g, "equal", "conflict")
  /\ Arrow(g, "type", "createTenant")
  /\ Arrow(g, "createTenant", "accept") /\ Arrow(g, "createTenant", "reject")
  /\ Arrow(g, "type", "tenant")
  /\ Arrow(g, "tenant", "reject") /\ Arrow(g, "tenant", "operation")
  /\ Arrow(g, "operation", "newAccount")
  /\ Arrow(g, "newAccount", "accept") /\ Arrow(g, "newAccount", "reject")
  /\ Arrow(g, "operation", "funded")
  /\ Arrow(g, "funded", "accept") /\ Arrow(g, "funded", "reject")
  /\ Arrow(g, "operation", "accounts")
  /\ Arrow(g, "accounts", "reject") /\ Arrow(g, "accounts", "funds")
  /\ Arrow(g, "funds", "reject") /\ Arrow(g, "funds", "accept")
  /\ Arrow(g, "accept", "save")
  /\ Arrow(g, "reject", "save")
<1> DEFINE names == {"accept", "accounts", "call", "conflict", "createTenant",
                    "decision", "depot", "end", "equal", "etl", "event",
                    "funded", "funds", "invalid", "newAccount", "operation",
                    "reject", "replay", "request", "save", "state", "tenant",
                    "type", "valid"}
           nodes == << <<"event", "call">>, <<"decision", "valid">>,
                       <<"depot", "depot">>, <<"decision", "request", "equal">>,
                       <<"end", "replay">>, <<"state", "conflict">>,
                       <<"decision", "type", "createTenant", "tenant", "operation", "newAccount", "funded", "accounts", "funds">>,
                       <<"etl", "accept", "reject">>, <<"end", "invalid">>,
                       <<"state", "save">> >>
           edges == << <<"call", "valid">>, <<"valid", "depot", "invalid">>,
                       <<"depot", "request">>, <<"request", "type", "equal">>,
                       <<"equal", "replay", "conflict">>,
                       <<"type", "createTenant">>,
                       <<"createTenant", "accept", "reject">>,
                       <<"type", "tenant">>,
                       <<"tenant", "reject", "operation">>,
                       <<"operation", "newAccount">>,
                       <<"newAccount", "accept", "reject">>,
                       <<"operation", "funded">>,
                       <<"funded", "accept", "reject">>,
                       <<"operation", "accounts">>,
                       <<"accounts", "reject", "funds">>,
                       <<"funds", "reject", "accept">>, <<"accept", "save">>,
                       <<"reject", "save">> >>
           g == PS!CommandDiagram
<1>1. g = Graph("td", nodes, edges)
  BY DiagramOperators DEF PS!CommandDiagram, PS!Scenario
<1>2. nodes \in Seq(Seq(names)) /\ edges \in Seq(Seq(names))
  OBVIOUS
<1> HIDE DEF g, nodes, edges, names
<1>3. /\ \A n \in DOMAIN nodes : \A kind, a : nodes[n] = <<kind, a>> => a \in Ids(g)
      /\ \A n \in DOMAIN edges : \A x, a : edges[n] = <<x, a>> =>
           Arrow(g, x, a)
      /\ \A n \in DOMAIN edges : \A x, a, b : edges[n] = <<x, a, b>> =>
           Arrow(g, x, a) /\ Arrow(g, x, b)
  BY <1>1, <1>2, GraphRows
<1>4. "call" \in Ids(g)
  BY <1>3 DEF nodes
<1>5. /\ Arrow(g, "call", "valid")
      /\ Arrow(g, "valid", "depot") /\ Arrow(g, "valid", "invalid")
      /\ Arrow(g, "depot", "request")
      /\ Arrow(g, "request", "type") /\ Arrow(g, "request", "equal")
      /\ Arrow(g, "equal", "replay") /\ Arrow(g, "equal", "conflict")
      /\ Arrow(g, "type", "createTenant")
  BY <1>3 DEF edges
<1>6. /\ Arrow(g, "createTenant", "accept") /\ Arrow(g, "createTenant", "reject")
      /\ Arrow(g, "type", "tenant")
      /\ Arrow(g, "tenant", "reject") /\ Arrow(g, "tenant", "operation")
      /\ Arrow(g, "operation", "newAccount")
      /\ Arrow(g, "newAccount", "accept") /\ Arrow(g, "newAccount", "reject")
      /\ Arrow(g, "operation", "funded")
  BY <1>3 DEF edges
<1>7. /\ Arrow(g, "funded", "accept") /\ Arrow(g, "funded", "reject")
      /\ Arrow(g, "operation", "accounts")
      /\ Arrow(g, "accounts", "reject") /\ Arrow(g, "accounts", "funds")
      /\ Arrow(g, "funds", "reject") /\ Arrow(g, "funds", "accept")
      /\ Arrow(g, "accept", "save")
      /\ Arrow(g, "reject", "save")
  BY <1>3 DEF edges
<1> QED BY <1>4, <1>5, <1>6, <1>7 DEF g

(* The arrows of a refund.                                                  *)
LEMMA RefundArrows ==
  LET g == PS!RefundDiagram IN
  /\ "event" \in Ids(g)
  /\ Arrow(g, "event", "tenant")
  /\ Arrow(g, "tenant", "reject") /\ Arrow(g, "tenant", "charge")
  /\ Arrow(g, "charge", "reject") /\ Arrow(g, "charge", "total")
  /\ Arrow(g, "total", "reject") /\ Arrow(g, "total", "balance")
  /\ Arrow(g, "balance", "reject") /\ Arrow(g, "balance", "accept")
  /\ Arrow(g, "accept", "update")
  /\ Arrow(g, "update", "journal")
  /\ Arrow(g, "journal", "done")
<1> DEFINE names == {"accept", "balance", "charge", "decision", "done", "end",
                    "etl", "event", "journal", "reject", "state", "tenant",
                    "total", "update"}
           nodes == << <<"event", "event">>,
                       <<"decision", "tenant", "charge", "total", "balance">>,
                       <<"end", "reject">>, <<"etl", "accept">>,
                       <<"state", "update", "journal">>, <<"end", "done">> >>
           edges == << <<"event", "tenant">>, <<"tenant", "reject", "charge">>,
                       <<"charge", "reject", "total">>,
                       <<"total", "reject", "balance">>,
                       <<"balance", "reject", "accept">>,
                       <<"accept", "update">>, <<"update", "journal">>,
                       <<"journal", "done">> >>
           g == PS!RefundDiagram
<1>1. g = Graph("td", nodes, edges)
  BY DiagramOperators DEF PS!RefundDiagram, PS!Scenario
<1>2. nodes \in Seq(Seq(names)) /\ edges \in Seq(Seq(names))
  OBVIOUS
<1> HIDE DEF g, nodes, edges, names
<1>3. /\ \A n \in DOMAIN nodes : \A kind, a : nodes[n] = <<kind, a>> => a \in Ids(g)
      /\ \A n \in DOMAIN edges : \A x, a : edges[n] = <<x, a>> =>
           Arrow(g, x, a)
      /\ \A n \in DOMAIN edges : \A x, a, b : edges[n] = <<x, a, b>> =>
           Arrow(g, x, a) /\ Arrow(g, x, b)
  BY <1>1, <1>2, GraphRows
<1>4. "event" \in Ids(g)
  BY <1>3 DEF nodes
<1>5. /\ Arrow(g, "event", "tenant")
      /\ Arrow(g, "tenant", "reject") /\ Arrow(g, "tenant", "charge")
      /\ Arrow(g, "charge", "reject") /\ Arrow(g, "charge", "total")
      /\ Arrow(g, "total", "reject") /\ Arrow(g, "total", "balance")
      /\ Arrow(g, "balance", "reject") /\ Arrow(g, "balance", "accept")
      /\ Arrow(g, "accept", "update")
  BY <1>3 DEF edges
<1>6. /\ Arrow(g, "update", "journal")
      /\ Arrow(g, "journal", "done")
  BY <1>3 DEF edges
<1> QED BY <1>4, <1>5, <1>6 DEF g

(* The arrows of an order.                                                  *)
LEMMA MatchArrows ==
  LET g == SE!MatchDiagram IN
  /\ "event" \in Ids(g)
  /\ Arrow(g, "event", "replay")
  /\ Arrow(g, "replay", "dup") /\ Arrow(g, "replay", "conflict")
     /\ Arrow(g, "replay", "init")
  /\ Arrow(g, "init", "best")
  /\ Arrow(g, "best", "cross")
  /\ Arrow(g, "cross", "maker") /\ Arrow(g, "cross", "rest")
  /\ Arrow(g, "maker", "trade")
  /\ Arrow(g, "trade", "partial")
  /\ Arrow(g, "partial", "dequeue") /\ Arrow(g, "partial", "retain")
  /\ Arrow(g, "dequeue", "continue")
  /\ Arrow(g, "retain", "continue")
  /\ Arrow(g, "continue", "best")
  /\ Arrow(g, "rest", "own") /\ Arrow(g, "rest", "ioc")
     /\ Arrow(g, "rest", "finish")
  /\ Arrow(g, "own", "finish")
  /\ Arrow(g, "ioc", "finish")
  /\ Arrow(g, "finish", "done")
<1> DEFINE names == {"best", "conflict", "continue", "cross", "decision",
                    "dequeue", "done", "dup", "end", "etl", "event", "finish",
                    "init", "ioc", "maker", "own", "partial", "replay", "rest",
                    "retain", "state", "trade"}
           nodes == << <<"event", "event">>, <<"decision", "replay">>,
                       <<"end", "dup", "conflict">>, <<"etl", "init">>,
                       <<"state", "best">>, <<"decision", "cross">>,
                       <<"state", "maker", "trade">>, <<"decision", "partial">>,
                       <<"state", "dequeue", "retain">>, <<"etl", "continue">>,
                       <<"decision", "rest">>, <<"state", "own">>,
                       <<"etl", "ioc">>, <<"state", "finish">>,
                       <<"end", "done">> >>
           edges == << <<"event", "replay">>,
                       <<"replay", "dup", "conflict", "init">>,
                       <<"init", "best">>, <<"best", "cross">>,
                       <<"cross", "maker", "rest">>, <<"maker", "trade">>,
                       <<"trade", "partial">>,
                       <<"partial", "dequeue", "retain">>,
                       <<"dequeue", "continue">>, <<"retain", "continue">>,
                       <<"continue", "best">>,
                       <<"rest", "own", "ioc", "finish">>, <<"own", "finish">>,
                       <<"ioc", "finish">>, <<"finish", "done">> >>
           g == SE!MatchDiagram
<1>1. g = Graph("td", nodes, edges)
  BY DiagramOperators DEF SE!MatchDiagram, SE!Scenario
<1>2. nodes \in Seq(Seq(names)) /\ edges \in Seq(Seq(names))
  OBVIOUS
<1> HIDE DEF g, nodes, edges, names
<1>3. /\ \A n \in DOMAIN nodes : \A kind, a : nodes[n] = <<kind, a>> => a \in Ids(g)
      /\ \A n \in DOMAIN edges : \A x, a : edges[n] = <<x, a>> =>
           Arrow(g, x, a)
      /\ \A n \in DOMAIN edges : \A x, a, b : edges[n] = <<x, a, b>> =>
           Arrow(g, x, a) /\ Arrow(g, x, b)
      /\ \A n \in DOMAIN edges : \A x, a, b, c : edges[n] = <<x, a, b, c>> =>
           Arrow(g, x, a) /\ Arrow(g, x, b) /\ Arrow(g, x, c)
  BY <1>1, <1>2, GraphRows
<1>4. "event" \in Ids(g)
  BY <1>3 DEF nodes
<1>5. /\ Arrow(g, "event", "replay")
      /\ Arrow(g, "replay", "dup") /\ Arrow(g, "replay", "conflict") /\ Arrow(g, "replay", "init")
      /\ Arrow(g, "init", "best")
      /\ Arrow(g, "best", "cross")
      /\ Arrow(g, "cross", "maker") /\ Arrow(g, "cross", "rest")
      /\ Arrow(g, "maker", "trade")
  BY <1>3 DEF edges
<1>6. /\ Arrow(g, "trade", "partial")
      /\ Arrow(g, "partial", "dequeue") /\ Arrow(g, "partial", "retain")
      /\ Arrow(g, "dequeue", "continue")
      /\ Arrow(g, "retain", "continue")
      /\ Arrow(g, "continue", "best")
      /\ Arrow(g, "rest", "own") /\ Arrow(g, "rest", "ioc") /\ Arrow(g, "rest", "finish")
  BY <1>3 DEF edges
<1>7. /\ Arrow(g, "own", "finish")
      /\ Arrow(g, "ioc", "finish")
      /\ Arrow(g, "finish", "done")
  BY <1>3 DEF edges
<1> QED BY <1>4, <1>5, <1>6, <1>7 DEF g

(* The arrows of an order's cancellation.                                   *)
LEMMA StockCancelArrows ==
  LET g == SE!CancelDiagram IN
  /\ "call" \in Ids(g)
  /\ Arrow(g, "call", "validate")
  /\ Arrow(g, "validate", "prior")
  /\ Arrow(g, "prior", "replay") /\ Arrow(g, "prior", "conflict")
     /\ Arrow(g, "prior", "exists")
  /\ Arrow(g, "exists", "missing") /\ Arrow(g, "exists", "owner")
  /\ Arrow(g, "owner", "notOwner") /\ Arrow(g, "owner", "open")
  /\ Arrow(g, "open", "closed") /\ Arrow(g, "open", "remove")
  /\ Arrow(g, "remove", "level")
  /\ Arrow(g, "level", "drop") /\ Arrow(g, "level", "reduce")
  /\ Arrow(g, "drop", "cancelled")
  /\ Arrow(g, "reduce", "cancelled")
  /\ Arrow(g, "missing", "outcome")
  /\ Arrow(g, "notOwner", "outcome")
  /\ Arrow(g, "closed", "outcome")
  /\ Arrow(g, "cancelled", "outcome")
<1> DEFINE names == {"call", "cancelled", "closed", "conflict", "decision",
                    "drop", "end", "etl", "event", "exists", "level", "missing",
                    "notOwner", "open", "outcome", "owner", "prior", "reduce",
                    "remove", "replay", "state", "validate"}
           nodes == << <<"event", "call">>, <<"etl", "validate">>,
                       <<"decision", "prior">>, <<"end", "replay">>,
                       <<"state", "conflict">>,
                       <<"decision", "exists", "owner", "open">>,
                       <<"end", "missing", "notOwner", "closed">>,
                       <<"state", "remove">>, <<"decision", "level">>,
                       <<"state", "drop", "reduce", "cancelled", "outcome">> >>
           edges == << <<"call", "validate">>, <<"validate", "prior">>,
                       <<"prior", "replay", "conflict", "exists">>,
                       <<"exists", "missing", "owner">>,
                       <<"owner", "notOwner", "open">>,
                       <<"open", "closed", "remove">>, <<"remove", "level">>,
                       <<"level", "drop", "reduce">>, <<"drop", "cancelled">>,
                       <<"reduce", "cancelled">>, <<"missing", "outcome">>,
                       <<"notOwner", "outcome">>, <<"closed", "outcome">>,
                       <<"cancelled", "outcome">> >>
           g == SE!CancelDiagram
<1>1. g = Graph("td", nodes, edges)
  BY DiagramOperators DEF SE!CancelDiagram, SE!Scenario
<1>2. nodes \in Seq(Seq(names)) /\ edges \in Seq(Seq(names))
  OBVIOUS
<1> HIDE DEF g, nodes, edges, names
<1>3. /\ \A n \in DOMAIN nodes : \A kind, a : nodes[n] = <<kind, a>> => a \in Ids(g)
      /\ \A n \in DOMAIN edges : \A x, a : edges[n] = <<x, a>> =>
           Arrow(g, x, a)
      /\ \A n \in DOMAIN edges : \A x, a, b : edges[n] = <<x, a, b>> =>
           Arrow(g, x, a) /\ Arrow(g, x, b)
      /\ \A n \in DOMAIN edges : \A x, a, b, c : edges[n] = <<x, a, b, c>> =>
           Arrow(g, x, a) /\ Arrow(g, x, b) /\ Arrow(g, x, c)
  BY <1>1, <1>2, GraphRows
<1>4. "call" \in Ids(g)
  BY <1>3 DEF nodes
<1>5. /\ Arrow(g, "call", "validate")
      /\ Arrow(g, "validate", "prior")
      /\ Arrow(g, "prior", "replay") /\ Arrow(g, "prior", "conflict") /\ Arrow(g, "prior", "exists")
      /\ Arrow(g, "exists", "missing") /\ Arrow(g, "exists", "owner")
      /\ Arrow(g, "owner", "notOwner") /\ Arrow(g, "owner", "open")
      /\ Arrow(g, "open", "closed") /\ Arrow(g, "open", "remove")
  BY <1>3 DEF edges
<1>6. /\ Arrow(g, "remove", "level")
      /\ Arrow(g, "level", "drop") /\ Arrow(g, "level", "reduce")
      /\ Arrow(g, "drop", "cancelled")
      /\ Arrow(g, "reduce", "cancelled")
      /\ Arrow(g, "missing", "outcome")
      /\ Arrow(g, "notOwner", "outcome")
  BY <1>3 DEF edges
<1>7. /\ Arrow(g, "closed", "outcome")
      /\ Arrow(g, "cancelled", "outcome")
  BY <1>3 DEF edges
<1> QED BY <1>4, <1>5, <1>6, <1>7 DEF g

(* The arrows of a reservation.                                             *)
LEMMA ReserveArrows ==
  LET g == HR!ReserveDiagram IN
  /\ "call" \in Ids(g)
  /\ Arrow(g, "call", "replay")
  /\ Arrow(g, "replay", "replayed") /\ Arrow(g, "replay", "conflict")
     /\ Arrow(g, "replay", "prop")
  /\ Arrow(g, "prop", "reject") /\ Arrow(g, "prop", "room")
  /\ Arrow(g, "room", "reject") /\ Arrow(g, "room", "scan")
  /\ Arrow(g, "scan", "missing")
  /\ Arrow(g, "missing", "reject") /\ Arrow(g, "missing", "capacity")
  /\ Arrow(g, "capacity", "short")
  /\ Arrow(g, "short", "total") /\ Arrow(g, "short", "reject")
  /\ Arrow(g, "total", "decrement")
  /\ Arrow(g, "decrement", "seq")
  /\ Arrow(g, "seq", "booking")
  /\ Arrow(g, "booking", "event")
  /\ Arrow(g, "event", "outcome")
  /\ Arrow(g, "reject", "outcome")
<1> DEFINE names == {"booking", "call", "capacity", "conflict", "decision",
                    "decrement", "end", "etl", "event", "missing", "outcome",
                    "prop", "reject", "replay", "replayed", "room", "scan",
                    "seq", "short", "state", "total"}
           nodes == << <<"event", "call">>, <<"decision", "replay">>,
                       <<"end", "replayed">>, <<"state", "conflict">>,
                       <<"decision", "prop", "room">>, <<"etl", "scan">>,
                       <<"decision", "missing">>, <<"etl", "capacity">>,
                       <<"decision", "short">>, <<"state", "reject">>,
                       <<"etl", "total">>,
                       <<"state", "decrement", "seq", "booking", "event", "outcome">> >>
           edges == << <<"call", "replay">>,
                       <<"replay", "replayed", "conflict", "prop">>,
                       <<"prop", "reject", "room">>,
                       <<"room", "reject", "scan">>, <<"scan", "missing">>,
                       <<"missing", "reject", "capacity">>,
                       <<"capacity", "short">>, <<"short", "total", "reject">>,
                       <<"total", "decrement">>, <<"decrement", "seq">>,
                       <<"seq", "booking">>, <<"booking", "event">>,
                       <<"event", "outcome">>, <<"reject", "outcome">> >>
           g == HR!ReserveDiagram
<1>1. g = Graph("td", nodes, edges)
  BY DiagramOperators DEF HR!ReserveDiagram, HR!Scenario
<1>2. nodes \in Seq(Seq(names)) /\ edges \in Seq(Seq(names))
  OBVIOUS
<1> HIDE DEF g, nodes, edges, names
<1>3. /\ \A n \in DOMAIN nodes : \A kind, a : nodes[n] = <<kind, a>> => a \in Ids(g)
      /\ \A n \in DOMAIN edges : \A x, a : edges[n] = <<x, a>> =>
           Arrow(g, x, a)
      /\ \A n \in DOMAIN edges : \A x, a, b : edges[n] = <<x, a, b>> =>
           Arrow(g, x, a) /\ Arrow(g, x, b)
      /\ \A n \in DOMAIN edges : \A x, a, b, c : edges[n] = <<x, a, b, c>> =>
           Arrow(g, x, a) /\ Arrow(g, x, b) /\ Arrow(g, x, c)
  BY <1>1, <1>2, GraphRows
<1>4. "call" \in Ids(g)
  BY <1>3 DEF nodes
<1>5. /\ Arrow(g, "call", "replay")
      /\ Arrow(g, "replay", "replayed") /\ Arrow(g, "replay", "conflict") /\ Arrow(g, "replay", "prop")
      /\ Arrow(g, "prop", "reject") /\ Arrow(g, "prop", "room")
      /\ Arrow(g, "room", "reject") /\ Arrow(g, "room", "scan")
      /\ Arrow(g, "scan", "missing")
      /\ Arrow(g, "missing", "reject") /\ Arrow(g, "missing", "capacity")
  BY <1>3 DEF edges
<1>6. /\ Arrow(g, "capacity", "short")
      /\ Arrow(g, "short", "total") /\ Arrow(g, "short", "reject")
      /\ Arrow(g, "total", "decrement")
      /\ Arrow(g, "decrement", "seq")
      /\ Arrow(g, "seq", "booking")
      /\ Arrow(g, "booking", "event")
  BY <1>3 DEF edges
<1>7. /\ Arrow(g, "event", "outcome")
      /\ Arrow(g, "reject", "outcome")
  BY <1>3 DEF edges
<1> QED BY <1>4, <1>5, <1>6, <1>7 DEF g

(* The arrows of a booking's cancellation.                                  *)
LEMMA HotelCancelArrows ==
  LET g == HR!CancelDiagram IN
  /\ "call" \in Ids(g)
  /\ Arrow(g, "call", "replay")
  /\ Arrow(g, "replay", "noop") /\ Arrow(g, "replay", "conflict")
     /\ Arrow(g, "replay", "prop")
  /\ Arrow(g, "prop", "reject") /\ Arrow(g, "prop", "booking")
  /\ Arrow(g, "booking", "reject") /\ Arrow(g, "booking", "guest")
  /\ Arrow(g, "guest", "reject") /\ Arrow(g, "guest", "state")
  /\ Arrow(g, "state", "reject") /\ Arrow(g, "state", "nights")
  /\ Arrow(g, "nights", "restore")
  /\ Arrow(g, "restore", "mark")
  /\ Arrow(g, "mark", "seq")
  /\ Arrow(g, "seq", "event")
  /\ Arrow(g, "event", "outcome")
  /\ Arrow(g, "reject", "outcome")
<1> DEFINE names == {"booking", "call", "conflict", "decision", "end", "etl",
                    "event", "guest", "mark", "nights", "noop", "outcome",
                    "prop", "reject", "replay", "restore", "seq", "state"}
           nodes == << <<"event", "call">>, <<"decision", "replay">>,
                       <<"end", "noop">>, <<"state", "conflict">>,
                       <<"decision", "prop", "booking", "guest", "state">>,
                       <<"state", "reject">>, <<"etl", "nights">>,
                       <<"state", "restore", "mark", "seq", "event", "outcome">> >>
           edges == << <<"call", "replay">>,
                       <<"replay", "noop", "conflict", "prop">>,
                       <<"prop", "reject", "booking">>,
                       <<"booking", "reject", "guest">>,
                       <<"guest", "reject", "state">>,
                       <<"state", "reject", "nights">>, <<"nights", "restore">>,
                       <<"restore", "mark">>, <<"mark", "seq">>,
                       <<"seq", "event">>, <<"event", "outcome">>,
                       <<"reject", "outcome">> >>
           g == HR!CancelDiagram
<1>1. g = Graph("td", nodes, edges)
  BY DiagramOperators DEF HR!CancelDiagram, HR!Scenario
<1>2. nodes \in Seq(Seq(names)) /\ edges \in Seq(Seq(names))
  OBVIOUS
<1> HIDE DEF g, nodes, edges, names
<1>3. /\ \A n \in DOMAIN nodes : \A kind, a : nodes[n] = <<kind, a>> => a \in Ids(g)
      /\ \A n \in DOMAIN edges : \A x, a : edges[n] = <<x, a>> =>
           Arrow(g, x, a)
      /\ \A n \in DOMAIN edges : \A x, a, b : edges[n] = <<x, a, b>> =>
           Arrow(g, x, a) /\ Arrow(g, x, b)
      /\ \A n \in DOMAIN edges : \A x, a, b, c : edges[n] = <<x, a, b, c>> =>
           Arrow(g, x, a) /\ Arrow(g, x, b) /\ Arrow(g, x, c)
  BY <1>1, <1>2, GraphRows
<1>4. "call" \in Ids(g)
  BY <1>3 DEF nodes
<1>5. /\ Arrow(g, "call", "replay")
      /\ Arrow(g, "replay", "noop") /\ Arrow(g, "replay", "conflict") /\ Arrow(g, "replay", "prop")
      /\ Arrow(g, "prop", "reject") /\ Arrow(g, "prop", "booking")
      /\ Arrow(g, "booking", "reject") /\ Arrow(g, "booking", "guest")
      /\ Arrow(g, "guest", "reject") /\ Arrow(g, "guest", "state")
      /\ Arrow(g, "state", "reject") /\ Arrow(g, "state", "nights")
  BY <1>3 DEF edges
<1>6. /\ Arrow(g, "nights", "restore")
      /\ Arrow(g, "restore", "mark")
      /\ Arrow(g, "mark", "seq")
      /\ Arrow(g, "seq", "event")
      /\ Arrow(g, "event", "outcome")
      /\ Arrow(g, "reject", "outcome")
  BY <1>3 DEF edges
<1> QED BY <1>4, <1>5, <1>6 DEF g

(* The arrows of a configuration.                                           *)
LEMMA ConfigureArrows ==
  LET g == HR!ConfigureDiagram IN
  /\ "event" \in Ids(g)
  /\ Arrow(g, "event", "type")
  /\ Arrow(g, "type", "property")
  /\ Arrow(g, "property", "create") /\ Arrow(g, "property", "reject")
  /\ Arrow(g, "type", "exists")
  /\ Arrow(g, "exists", "reject") /\ Arrow(g, "exists", "room")
  /\ Arrow(g, "room", "createRoom") /\ Arrow(g, "room", "reject")
     /\ Arrow(g, "room", "roomOp")
  /\ Arrow(g, "roomOp", "reject") /\ Arrow(g, "roomOp", "night")
  /\ Arrow(g, "night", "nightOp")
  /\ Arrow(g, "nightOp", "init") /\ Arrow(g, "nightOp", "rate")
     /\ Arrow(g, "nightOp", "reject")
  /\ Arrow(g, "create", "outcome")
  /\ Arrow(g, "createRoom", "outcome")
  /\ Arrow(g, "init", "outcome")
  /\ Arrow(g, "rate", "outcome")
  /\ Arrow(g, "reject", "outcome")
<1> DEFINE names == {"create", "createRoom", "decision", "etl", "event",
                    "exists", "init", "night", "nightOp", "outcome", "property",
                    "rate", "reject", "room", "roomOp", "state", "type"}
           nodes == << <<"event", "event">>, <<"decision", "type", "property">>,
                       <<"state", "create">>,
                       <<"decision", "exists", "room", "roomOp">>,
                       <<"state", "createRoom">>,
                       <<"decision", "night", "nightOp">>,
                       <<"state", "init", "rate">>, <<"etl", "reject">>,
                       <<"state", "outcome">> >>
           edges == << <<"event", "type">>, <<"type", "property">>,
                       <<"property", "create", "reject">>, <<"type", "exists">>,
                       <<"exists", "reject", "room">>,
                       <<"room", "createRoom", "reject", "roomOp">>,
                       <<"roomOp", "reject", "night">>, <<"night", "nightOp">>,
                       <<"nightOp", "init", "rate", "reject">>,
                       <<"create", "outcome">>, <<"createRoom", "outcome">>,
                       <<"init", "outcome">>, <<"rate", "outcome">>,
                       <<"reject", "outcome">> >>
           g == HR!ConfigureDiagram
<1>1. g = Graph("td", nodes, edges)
  BY DiagramOperators DEF HR!ConfigureDiagram, HR!Scenario
<1>2. nodes \in Seq(Seq(names)) /\ edges \in Seq(Seq(names))
  OBVIOUS
<1> HIDE DEF g, nodes, edges, names
<1>3. /\ \A n \in DOMAIN nodes : \A kind, a : nodes[n] = <<kind, a>> => a \in Ids(g)
      /\ \A n \in DOMAIN edges : \A x, a : edges[n] = <<x, a>> =>
           Arrow(g, x, a)
      /\ \A n \in DOMAIN edges : \A x, a, b : edges[n] = <<x, a, b>> =>
           Arrow(g, x, a) /\ Arrow(g, x, b)
      /\ \A n \in DOMAIN edges : \A x, a, b, c : edges[n] = <<x, a, b, c>> =>
           Arrow(g, x, a) /\ Arrow(g, x, b) /\ Arrow(g, x, c)
  BY <1>1, <1>2, GraphRows
<1>4. "event" \in Ids(g)
  BY <1>3 DEF nodes
<1>5. /\ Arrow(g, "event", "type")
      /\ Arrow(g, "type", "property")
      /\ Arrow(g, "property", "create") /\ Arrow(g, "property", "reject")
      /\ Arrow(g, "type", "exists")
      /\ Arrow(g, "exists", "reject") /\ Arrow(g, "exists", "room")
      /\ Arrow(g, "room", "createRoom") /\ Arrow(g, "room", "reject") /\ Arrow(g, "room", "roomOp")
  BY <1>3 DEF edges
<1>6. /\ Arrow(g, "roomOp", "reject") /\ Arrow(g, "roomOp", "night")
      /\ Arrow(g, "night", "nightOp")
      /\ Arrow(g, "nightOp", "init") /\ Arrow(g, "nightOp", "rate") /\ Arrow(g, "nightOp", "reject")
      /\ Arrow(g, "create", "outcome")
      /\ Arrow(g, "createRoom", "outcome")
      /\ Arrow(g, "init", "outcome")
  BY <1>3 DEF edges
<1>7. /\ Arrow(g, "rate", "outcome")
      /\ Arrow(g, "reject", "outcome")
  BY <1>3 DEF edges
<1> QED BY <1>4, <1>5, <1>6, <1>7 DEF g

(* The arrows of a submission and a claim.                                  *)
LEMMA SubmitClaimArrows ==
  LET g == JS!SubmitClaimDiagram IN
  /\ "submit" \in Ids(g) /\ "claim" \in Ids(g)
  /\ Arrow(g, "submit", "valid")
  /\ Arrow(g, "valid", "discard") /\ Arrow(g, "valid", "prior")
  /\ Arrow(g, "prior", "keep") /\ Arrow(g, "prior", "init")
  /\ Arrow(g, "claim", "old")
  /\ Arrow(g, "old", "frozen") /\ Arrow(g, "old", "state")
  /\ Arrow(g, "state", "reason")
  /\ Arrow(g, "reason", "deny") /\ Arrow(g, "reason", "grant")
  /\ Arrow(g, "deny", "ready")
  /\ Arrow(g, "grant", "ready")
<1> DEFINE names == {"claim", "decision", "deny", "discard", "end", "etl",
                    "event", "frozen", "grant", "init", "keep", "old", "prior",
                    "ready", "reason", "state", "submit", "valid"}
           nodes == << <<"event", "submit">>, <<"decision", "valid">>,
                       <<"end", "discard">>, <<"decision", "prior">>,
                       <<"end", "keep">>, <<"state", "init">>,
                       <<"event", "claim">>, <<"decision", "old">>,
                       <<"end", "frozen">>, <<"etl", "state">>,
                       <<"decision", "reason">>, <<"state", "deny", "grant">>,
                       <<"end", "ready">> >>
           edges == << <<"submit", "valid">>, <<"valid", "discard", "prior">>,
                       <<"prior", "keep", "init">>, <<"claim", "old">>,
                       <<"old", "frozen", "state">>, <<"state", "reason">>,
                       <<"reason", "deny", "grant">>, <<"deny", "ready">>,
                       <<"grant", "ready">> >>
           g == JS!SubmitClaimDiagram
<1>1. g = Graph("td", nodes, edges)
  BY DiagramOperators DEF JS!SubmitClaimDiagram, JS!Scenario
<1>2. nodes \in Seq(Seq(names)) /\ edges \in Seq(Seq(names))
  OBVIOUS
<1> HIDE DEF g, nodes, edges, names
<1>3. /\ \A n \in DOMAIN nodes : \A kind, a : nodes[n] = <<kind, a>> => a \in Ids(g)
      /\ \A n \in DOMAIN edges : \A x, a : edges[n] = <<x, a>> =>
           Arrow(g, x, a)
      /\ \A n \in DOMAIN edges : \A x, a, b : edges[n] = <<x, a, b>> =>
           Arrow(g, x, a) /\ Arrow(g, x, b)
  BY <1>1, <1>2, GraphRows
<1>4. "submit" \in Ids(g) /\ "claim" \in Ids(g)
  BY <1>3 DEF nodes
<1>5. /\ Arrow(g, "submit", "valid")
      /\ Arrow(g, "valid", "discard") /\ Arrow(g, "valid", "prior")
      /\ Arrow(g, "prior", "keep") /\ Arrow(g, "prior", "init")
      /\ Arrow(g, "claim", "old")
      /\ Arrow(g, "old", "frozen") /\ Arrow(g, "old", "state")
      /\ Arrow(g, "state", "reason")
  BY <1>3 DEF edges
<1>6. /\ Arrow(g, "reason", "deny") /\ Arrow(g, "reason", "grant")
      /\ Arrow(g, "deny", "ready")
      /\ Arrow(g, "grant", "ready")
  BY <1>3 DEF edges
<1> QED BY <1>4, <1>5, <1>6 DEF g

(* The arrows of the clock and a completion.                                *)
LEMMA CompleteArrows ==
  LET g == JS!CompleteDiagram IN
  /\ "event" \in Ids(g) /\ "complete" \in Ids(g)
  /\ Arrow(g, "event", "state")
  /\ Arrow(g, "state", "noop") /\ Arrow(g, "state", "write")
  /\ Arrow(g, "write", "status")
  /\ Arrow(g, "complete", "exists")
  /\ Arrow(g, "exists", "ignore") /\ Arrow(g, "exists", "node")
  /\ Arrow(g, "node", "ignore") /\ Arrow(g, "node", "lease")
  /\ Arrow(g, "lease", "ignore") /\ Arrow(g, "lease", "live")
  /\ Arrow(g, "live", "ignore") /\ Arrow(g, "live", "success")
  /\ Arrow(g, "success", "reads")
  /\ Arrow(g, "status", "reads")
<1> DEFINE names == {"complete", "decision", "end", "etl", "event", "exists",
                    "external", "ignore", "lease", "live", "node", "noop",
                    "reads", "state", "status", "success", "write"}
           nodes == << <<"event", "event">>, <<"decision", "state">>,
                       <<"end", "noop">>, <<"state", "write">>,
                       <<"etl", "status">>, <<"event", "complete">>,
                       <<"decision", "exists", "node", "lease", "live">>,
                       <<"end", "ignore">>, <<"state", "success">>,
                       <<"external", "reads">> >>
           edges == << <<"event", "state">>, <<"state", "noop", "write">>,
                       <<"write", "status">>, <<"complete", "exists">>,
                       <<"exists", "ignore", "node">>,
                       <<"node", "ignore", "lease">>,
                       <<"lease", "ignore", "live">>,
                       <<"live", "ignore", "success">>, <<"success", "reads">>,
                       <<"status", "reads">> >>
           g == JS!CompleteDiagram
<1>1. g = Graph("td", nodes, edges)
  BY DiagramOperators DEF JS!CompleteDiagram, JS!Scenario
<1>2. nodes \in Seq(Seq(names)) /\ edges \in Seq(Seq(names))
  OBVIOUS
<1> HIDE DEF g, nodes, edges, names
<1>3. /\ \A n \in DOMAIN nodes : \A kind, a : nodes[n] = <<kind, a>> => a \in Ids(g)
      /\ \A n \in DOMAIN edges : \A x, a : edges[n] = <<x, a>> =>
           Arrow(g, x, a)
      /\ \A n \in DOMAIN edges : \A x, a, b : edges[n] = <<x, a, b>> =>
           Arrow(g, x, a) /\ Arrow(g, x, b)
  BY <1>1, <1>2, GraphRows
<1>4. "event" \in Ids(g) /\ "complete" \in Ids(g)
  BY <1>3 DEF nodes
<1>5. /\ Arrow(g, "event", "state")
      /\ Arrow(g, "state", "noop") /\ Arrow(g, "state", "write")
      /\ Arrow(g, "write", "status")
      /\ Arrow(g, "complete", "exists")
      /\ Arrow(g, "exists", "ignore") /\ Arrow(g, "exists", "node")
      /\ Arrow(g, "node", "ignore") /\ Arrow(g, "node", "lease")
  BY <1>3 DEF edges
<1>6. /\ Arrow(g, "lease", "ignore") /\ Arrow(g, "lease", "live")
      /\ Arrow(g, "live", "ignore") /\ Arrow(g, "live", "success")
      /\ Arrow(g, "success", "reads")
      /\ Arrow(g, "status", "reads")
  BY <1>3 DEF edges
<1> QED BY <1>4, <1>5, <1>6 DEF g

(* The arrows of a transfer.                                                *)
LEMMA TransferArrows ==
  LET g == BT!TransferDiagram IN
  /\ "start" \in Ids(g) /\ "route" \in Ids(g)
  /\ Arrow(g, "start", "read")
  /\ Arrow(g, "read", "success")
  /\ Arrow(g, "success", "debit") /\ Arrow(g, "success", "failure")
  /\ Arrow(g, "debit", "outgoing")
  /\ Arrow(g, "failure", "outgoing")
  /\ Arrow(g, "outgoing", "route")
  /\ Arrow(g, "route", "credit")
  /\ Arrow(g, "credit", "funds") /\ Arrow(g, "credit", "incoming")
  /\ Arrow(g, "funds", "incoming")
  /\ Arrow(g, "incoming", "done")
<1> DEFINE names == {"credit", "debit", "decision", "depot", "done", "end",
                    "etl", "failure", "funds", "incoming", "outgoing", "read",
                    "route", "start", "state", "success"}
           nodes == << <<"depot", "start">>, <<"etl", "read">>,
                       <<"decision", "success">>, <<"state", "debit">>,
                       <<"etl", "failure">>, <<"state", "outgoing">>,
                       <<"route", "route">>, <<"decision", "credit">>,
                       <<"state", "funds", "incoming">>, <<"end", "done">> >>
           edges == << <<"start", "read">>, <<"read", "success">>,
                       <<"success", "debit", "failure">>,
                       <<"debit", "outgoing">>, <<"failure", "outgoing">>,
                       <<"outgoing", "route">>, <<"route", "credit">>,
                       <<"credit", "funds", "incoming">>,
                       <<"funds", "incoming">>, <<"incoming", "done">> >>
           g == BT!TransferDiagram
<1>1. g = Graph("td", nodes, edges)
  BY DiagramOperators DEF BT!TransferDiagram, BT!CreditExits, BT!Scenario
<1>2. nodes \in Seq(Seq(names)) /\ edges \in Seq(Seq(names))
  OBVIOUS
<1> HIDE DEF g, nodes, edges, names
<1>3. /\ \A n \in DOMAIN nodes : \A kind, a : nodes[n] = <<kind, a>> => a \in Ids(g)
      /\ \A n \in DOMAIN edges : \A x, a : edges[n] = <<x, a>> =>
           Arrow(g, x, a)
      /\ \A n \in DOMAIN edges : \A x, a, b : edges[n] = <<x, a, b>> =>
           Arrow(g, x, a) /\ Arrow(g, x, b)
  BY <1>1, <1>2, GraphRows
<1>4. "start" \in Ids(g) /\ "route" \in Ids(g)
  BY <1>3 DEF nodes
<1>5. /\ Arrow(g, "start", "read")
      /\ Arrow(g, "read", "success")
      /\ Arrow(g, "success", "debit") /\ Arrow(g, "success", "failure")
      /\ Arrow(g, "debit", "outgoing")
      /\ Arrow(g, "failure", "outgoing")
      /\ Arrow(g, "outgoing", "route")
  BY <1>3 DEF edges
<1>6. /\ Arrow(g, "route", "credit")
      /\ Arrow(g, "credit", "funds") /\ Arrow(g, "credit", "incoming")
      /\ Arrow(g, "funds", "incoming")
      /\ Arrow(g, "incoming", "done")
  BY <1>3 DEF edges
<1> QED BY <1>4, <1>5, <1>6 DEF g

(* The arrows of the bank's partitions.                                     *)
LEMMA BankPartitionArrows ==
  LET g == BT!BankPartition IN
  /\ "recipient" \in Ids(g)
  /\ Arrow(g, "sender", "funds") /\ Arrow(g, "sender", "outgoing")
     /\ Arrow(g, "sender", "recipient")
  /\ Arrow(g, "recipient", "recipientFunds") /\ Arrow(g, "recipient", "incoming")
<1> DEFINE names == {"funds", "incoming", "outgoing", "recipient",
                    "recipientFunds", "route", "sender", "state"}
           nodes == << <<"route", "sender">>, <<"state", "funds", "outgoing">>,
                       <<"route", "recipient">>,
                       <<"state", "recipientFunds", "incoming">> >>
           edges == << <<"sender", "funds", "outgoing", "recipient">>,
                       <<"recipient", "recipientFunds", "incoming">> >>
           g == BT!BankPartition
<1>1. g = Graph("partition", nodes, edges)
  BY DiagramOperators DEF BT!BankPartition, BT!Partition
<1>2. nodes \in Seq(Seq(names)) /\ edges \in Seq(Seq(names))
  OBVIOUS
<1> HIDE DEF g, nodes, edges, names
<1>3. /\ \A n \in DOMAIN nodes : \A kind, a : nodes[n] = <<kind, a>> => a \in Ids(g)
      /\ \A n \in DOMAIN edges : \A x, a, b : edges[n] = <<x, a, b>> =>
           Arrow(g, x, a) /\ Arrow(g, x, b)
      /\ \A n \in DOMAIN edges : \A x, a, b, c : edges[n] = <<x, a, b, c>> =>
           Arrow(g, x, a) /\ Arrow(g, x, b) /\ Arrow(g, x, c)
  BY <1>1, <1>2, GraphRows
<1>4. "recipient" \in Ids(g)
  BY <1>3 DEF nodes
<1>5. /\ Arrow(g, "sender", "funds") /\ Arrow(g, "sender", "outgoing") /\ Arrow(g, "sender", "recipient")
      /\ Arrow(g, "recipient", "recipientFunds") /\ Arrow(g, "recipient", "incoming")
  BY <1>3 DEF edges
<1> QED BY <1>4, <1>5 DEF g

(* The arrows of a bid.                                                     *)
LEMMA BidArrows ==
  LET g == AU!BidDiagram IN
  /\ "depot" \in Ids(g)
  /\ Arrow(g, "depot", "owner")
  /\ Arrow(g, "owner", "closed")
  /\ Arrow(g, "closed", "stop") /\ Arrow(g, "closed", "bidders")
  /\ Arrow(g, "bidders", "top")
  /\ Arrow(g, "top", "replace") /\ Arrow(g, "top", "route")
  /\ Arrow(g, "replace", "route")
  /\ Arrow(g, "route", "history")
<1> DEFINE names == {"bidders", "closed", "decision", "depot", "end", "history",
                    "owner", "replace", "route", "state", "stop", "top"}
           nodes == << <<"depot", "depot">>, <<"route", "owner">>,
                       <<"decision", "closed">>, <<"end", "stop">>,
                       <<"state", "bidders">>, <<"decision", "top">>,
                       <<"state", "replace">>, <<"route", "route">>,
                       <<"state", "history">> >>
           edges == << <<"depot", "owner">>, <<"owner", "closed">>,
                       <<"closed", "stop", "bidders">>, <<"bidders", "top">>,
                       <<"top", "replace", "route">>, <<"replace", "route">>,
                       <<"route", "history">> >>
           g == AU!BidDiagram
<1>1. g = Graph("td", nodes, edges)
  BY DiagramOperators DEF AU!BidDiagram, AU!Scenario
<1>2. nodes \in Seq(Seq(names)) /\ edges \in Seq(Seq(names))
  OBVIOUS
<1> HIDE DEF g, nodes, edges, names
<1>3. /\ \A n \in DOMAIN nodes : \A kind, a : nodes[n] = <<kind, a>> => a \in Ids(g)
      /\ \A n \in DOMAIN edges : \A x, a : edges[n] = <<x, a>> =>
           Arrow(g, x, a)
      /\ \A n \in DOMAIN edges : \A x, a, b : edges[n] = <<x, a, b>> =>
           Arrow(g, x, a) /\ Arrow(g, x, b)
  BY <1>1, <1>2, GraphRows
<1>4. "depot" \in Ids(g)
  BY <1>3 DEF nodes
<1>5. /\ Arrow(g, "depot", "owner")
      /\ Arrow(g, "owner", "closed")
      /\ Arrow(g, "closed", "stop") /\ Arrow(g, "closed", "bidders")
      /\ Arrow(g, "bidders", "top")
      /\ Arrow(g, "top", "replace") /\ Arrow(g, "top", "route")
      /\ Arrow(g, "replace", "route")
  BY <1>3 DEF edges
<1>6. /\ Arrow(g, "route", "history")
  BY <1>3 DEF edges
<1> QED BY <1>4, <1>5, <1>6 DEF g

(* The arrows of an expiration.                                             *)
LEMMA ExpireArrows ==
  LET g == AU!ExpireDiagram IN
  /\ "listing" \in Ids(g) /\ "tick" \in Ids(g) /\ "bidders" \in Ids(g)
  /\ Arrow(g, "listing", "schedule")
  /\ Arrow(g, "tick", "callback")
  /\ Arrow(g, "schedule", "callback")
  /\ Arrow(g, "callback", "finished")
  /\ Arrow(g, "finished", "top")
  /\ Arrow(g, "top", "winner")
  /\ Arrow(g, "winner", "sold") /\ Arrow(g, "winner", "unsold")
  /\ Arrow(g, "sold", "seller")
  /\ Arrow(g, "unsold", "seller")
  /\ Arrow(g, "seller", "bidders")
  /\ Arrow(g, "bidders", "route")
  /\ Arrow(g, "route", "won")
  /\ Arrow(g, "won", "notify")
<1> DEFINE names == {"bidders", "callback", "decision", "depot", "etl",
                    "finished", "listing", "notify", "route", "schedule",
                    "seller", "sold", "state", "tick", "top", "unsold",
                    "winner", "won"}
           nodes == << <<"depot", "listing">>, <<"etl", "schedule">>,
                       <<"depot", "tick">>, <<"etl", "callback">>,
                       <<"state", "finished">>, <<"etl", "top">>,
                       <<"decision", "winner">>, <<"etl", "sold", "unsold">>,
                       <<"state", "seller">>, <<"etl", "bidders">>,
                       <<"route", "route">>, <<"decision", "won">>,
                       <<"state", "notify">> >>
           edges == << <<"listing", "schedule">>, <<"tick", "callback">>,
                       <<"schedule", "callback">>, <<"callback", "finished">>,
                       <<"finished", "top">>, <<"top", "winner">>,
                       <<"winner", "sold", "unsold">>, <<"sold", "seller">>,
                       <<"unsold", "seller">>, <<"seller", "bidders">>,
                       <<"bidders", "route">>, <<"route", "won">>,
                       <<"won", "notify">> >>
           g == AU!ExpireDiagram
<1>1. g = Graph("td", nodes, edges)
  BY DiagramOperators DEF AU!ExpireDiagram, AU!Scenario
<1>2. nodes \in Seq(Seq(names)) /\ edges \in Seq(Seq(names))
  OBVIOUS
<1> HIDE DEF g, nodes, edges, names
<1>3. /\ \A n \in DOMAIN nodes : \A kind, a : nodes[n] = <<kind, a>> => a \in Ids(g)
      /\ \A n \in DOMAIN edges : \A x, a : edges[n] = <<x, a>> =>
           Arrow(g, x, a)
      /\ \A n \in DOMAIN edges : \A x, a, b : edges[n] = <<x, a, b>> =>
           Arrow(g, x, a) /\ Arrow(g, x, b)
  BY <1>1, <1>2, GraphRows
<1>4. "listing" \in Ids(g) /\ "tick" \in Ids(g) /\ "bidders" \in Ids(g)
  BY <1>3 DEF nodes
<1>5. /\ Arrow(g, "listing", "schedule")
      /\ Arrow(g, "tick", "callback")
      /\ Arrow(g, "schedule", "callback")
      /\ Arrow(g, "callback", "finished")
      /\ Arrow(g, "finished", "top")
      /\ Arrow(g, "top", "winner")
  BY <1>3 DEF edges
<1>6. /\ Arrow(g, "winner", "sold") /\ Arrow(g, "winner", "unsold")
      /\ Arrow(g, "sold", "seller")
      /\ Arrow(g, "unsold", "seller")
      /\ Arrow(g, "seller", "bidders")
      /\ Arrow(g, "bidders", "route")
      /\ Arrow(g, "route", "won")
  BY <1>3 DEF edges
<1>7. /\ Arrow(g, "won", "notify")
  BY <1>3 DEF edges
<1> QED BY <1>4, <1>5, <1>6, <1>7 DEF g

(* The arrows of the auction's partitions.                                  *)
LEMMA AuctionPartitionArrows ==
  LET g == AU!AuctionPartition IN
  /\ "seller" \in Ids(g)
  /\ Arrow(g, "seller", "listings") /\ Arrow(g, "seller", "bidders")
     /\ Arrow(g, "seller", "top") /\ Arrow(g, "seller", "finished")
  /\ Arrow(g, "bidder", "history")
  /\ Arrow(g, "user", "notifications")
<1> DEFINE names == {"bidder", "bidders", "finished", "history", "listings",
                    "notifications", "route", "seller", "state", "top", "user"}
           nodes == << <<"route", "seller">>,
                       <<"state", "listings", "bidders", "top", "finished">>,
                       <<"route", "bidder">>, <<"state", "history">>,
                       <<"route", "user">>, <<"state", "notifications">> >>
           edges == << <<"seller", "listings", "bidders", "top", "finished">>,
                       <<"bidder", "history">>, <<"user", "notifications">> >>
           g == AU!AuctionPartition
<1>1. g = Graph("partition", nodes, edges)
  BY DiagramOperators DEF AU!AuctionPartition, AU!Partition
<1>2. nodes \in Seq(Seq(names)) /\ edges \in Seq(Seq(names))
  OBVIOUS
<1> HIDE DEF g, nodes, edges, names
<1>3. /\ \A n \in DOMAIN nodes : \A kind, a : nodes[n] = <<kind, a>> => a \in Ids(g)
      /\ \A n \in DOMAIN edges : \A x, a : edges[n] = <<x, a>> =>
           Arrow(g, x, a)
      /\ \A n \in DOMAIN edges : \A x, a, b, c, d : edges[n] = <<x, a, b, c, d>> =>
           Arrow(g, x, a) /\ Arrow(g, x, b) /\ Arrow(g, x, c) /\ Arrow(g, x, d)
  BY <1>1, <1>2, GraphRows
<1>4. "seller" \in Ids(g)
  BY <1>3 DEF nodes
<1>5. /\ Arrow(g, "seller", "listings") /\ Arrow(g, "seller", "bidders") /\ Arrow(g, "seller", "top") /\ Arrow(g, "seller", "finished")
      /\ Arrow(g, "bidder", "history")
      /\ Arrow(g, "user", "notifications")
  BY <1>3 DEF edges
<1> QED BY <1>4, <1>5 DEF g

(* Three walks in a row.                                                    *)
LEMMA WalkThrough ==
  ASSUME NEW g, NEW p, NEW q, NEW r, NEW x, NEW y, NEW z, NEW w, NEW u, NEW v,
         Walk(g, p, x, y), Walk(g, q, z, w), Walk(g, r, u, v),
         Arrow(g, y, z), Arrow(g, w, u)
  PROVE  Walk(g, p \o q \o r, x, v)
<1>1. Walk(g, p \o q, x, w)
  BY WalkOn
<1> QED BY <1>1, WalkOn

(* The step shows itself: it leaves the module its fields, and the walk it  *)
(* notes goes along the arrows of the diagram it names.                     *)
Shows(diagrams) ==
  /\ DOMAIN state' = DOMAIN state
  /\ Follows(diagrams[state'.walk[1]], state'.walk[2])

(* A walk along the diagram it is noted for is on the page.                 *)
LEMMA ShownAs ==
  ASSUME NEW diagrams, NEW name, NEW g, g = diagrams[name], NEW path,
         NEW x \in Ids(g), NEW y, Walk(g, path, x, y),
         state'.walk = <<name, path>>, DOMAIN state' = DOMAIN state
  PROVE  Shows(diagrams)
<1>1. Follows(g, path)
  BY WalkFollows
<1>2. state'.walk[1] = name /\ state'.walk[2] = path
  OBVIOUS
<1> QED BY <1>1, <1>2 DEF Shows

(* What is left of a path where it does not go on.                          *)
LEMMA NothingAdded ==
  ASSUME NEW g, NEW p, NEW x, NEW y, Walk(g, p, x, y)
  PROVE  p \o <<>> = p
<1>1. PICK S : p \in Seq(S)
  BY DEF Walk
<1> QED BY <1>1

(* The checks of a command lead from the first of them to yes when it is    *)
(* accepted, and to no otherwise.                                           *)
Ways(g, checks, a, yes, no) ==
  \/ /\ Refused(checks) = {}
     /\ \E z : Walk(g, Visited(checks), a, z) /\ Arrow(g, z, yes)
  \/ /\ Refused(checks) # {}
     /\ \E z : Walk(g, Visited(checks), a, z) /\ Arrow(g, z, no)

(* A start, the checks, and what follows them when they pass or when they   *)
(* do not: a walk either way.                                               *)
LEMMA WayOn ==
  ASSUME NEW g, NEW start, NEW checks, NEW x, NEW y, NEW a, NEW yes, NEW no,
         NEW ok, NEW ko, NEW u, NEW v, Walk(g, start, x, y), Arrow(g, y, a),
         Ways(g, checks, a, yes, no), Walk(g, ok, yes, u), Walk(g, ko, no, v)
  PROVE  \E z : Walk(g, start \o Visited(checks)
                          \o (IF Refused(checks) = {} THEN ok ELSE ko), x, z)
<1>1. CASE Refused(checks) = {}
  <2>1. PICK z : Walk(g, Visited(checks), a, z) /\ Arrow(g, z, yes)
    BY <1>1 DEF Ways
  <2>2. Walk(g, start \o Visited(checks) \o ok, x, u)
    BY <2>1, WalkThrough
  <2> QED BY <1>1, <2>2
<1>2. CASE Refused(checks) # {}
  <2>1. PICK z : Walk(g, Visited(checks), a, z) /\ Arrow(g, z, no)
    BY <1>2 DEF Ways
  <2>2. Walk(g, start \o Visited(checks) \o ko, x, v)
    BY <2>1, WalkThrough
  <2> QED BY <1>2, <2>2
<1> QED BY <1>1, <1>2

(* A first check that refuses is the only one visited.                      *)
LEMMA FirstRefuses ==
  ASSUME NEW checks, 1 \in DOMAIN checks, DOMAIN checks \subseteq Nat \ {0}, ~checks[1][2]
  PROVE  Refused(checks) # {} /\ Visited(checks) = <<checks[1][1]>>
<1>1. 1 \in Refused(checks) /\ Refused(checks) \subseteq Nat \ {0}
  BY DEF Refused
<1>2. Least(Refused(checks)) = 1
  <2> DEFINE S == Refused(checks)
  <2>1. Least(S) = CHOOSE x \in S : \A y \in S : x <= y
    BY DEF Least
  <2>2. 1 \in S /\ \A y \in S : 1 <= y
    BY <1>1
  <2>3. \A x \in S : (\A y \in S : x <= y) => x = 1
    BY <1>1
  <2> HIDE DEF S
  <2>4. Least(S) = 1
    BY <2>1, <2>2, <2>3
  <2> QED BY <2>4 DEF S
<1>3. Visited(checks) = [i \in 1..1 |-> checks[i][1]]
  BY <1>1, <1>2 DEF Visited
<1> QED BY <1>1, <1>3

(* What a module notes of a command: its walk, and no field comes or goes.  *)
LEMMA CommandsAreNoted ==
  /\ \A c, s, w, o : TS!Record(c, s, w, o) /\ "walk" \in DOMAIN s
       => state'.walk = w /\ DOMAIN state' = DOMAIN s
  /\ \A c, w : (TS!Replay(c, w) \/ TS!Conflict(c, w)) /\ "walk" \in DOMAIN state
       => state'.walk = w /\ DOMAIN state' = DOMAIN state
  /\ \A c, s, w, o : PS!Record(c, s, w, o) /\ "walk" \in DOMAIN s
       => state'.walk = w /\ DOMAIN state' = DOMAIN s
  /\ \A c, w : (PS!Replay(c, w) \/ PS!Conflict(c, w)) /\ "walk" \in DOMAIN state
       => state'.walk = w /\ DOMAIN state' = DOMAIN state
  /\ \A c, s, w, o : SE!Record(c, s, w, o) /\ "walk" \in DOMAIN s
       => state'.walk = w /\ DOMAIN state' = DOMAIN s
  /\ \A c, w : (SE!Replay(c, w) \/ SE!Conflict(c, w)) /\ "walk" \in DOMAIN state
       => state'.walk = w /\ DOMAIN state' = DOMAIN state
  /\ \A c, s, w, o : HR!Record(c, s, w, o) /\ "walk" \in DOMAIN s
       => state'.walk = w /\ DOMAIN state' = DOMAIN s
  /\ \A c, w : (HR!Replay(c, w) \/ HR!Conflict(c, w)) /\ "walk" \in DOMAIN state
       => state'.walk = w /\ DOMAIN state' = DOMAIN state
<1>1. ASSUME NEW c, NEW s, NEW w, NEW o, TS!Record(c, s, w, o), "walk" \in DOMAIN s
      PROVE  state'.walk = w /\ DOMAIN state' = DOMAIN s
  BY <1>1 DEF TS!Record
<1>2. ASSUME NEW c, NEW w, TS!Replay(c, w) \/ TS!Conflict(c, w), "walk" \in DOMAIN state
      PROVE  state'.walk = w /\ DOMAIN state' = DOMAIN state
  <2>1. CASE TS!Replay(c, w)
    BY <1>2, <2>1 DEF TS!Replay
  <2>2. CASE TS!Conflict(c, w)
    <3> DEFINE counted == [state.requests EXCEPT ![c.rid].conflicts = @ + 1]
    <3>1. state' = [state EXCEPT !.walk = w, !.requests = counted]
      BY <2>2 DEF TS!Conflict
    <3> HIDE DEF counted
    <3> QED BY <1>2, <3>1
  <2> QED BY <1>2, <2>1, <2>2
<1>3. ASSUME NEW c, NEW s, NEW w, NEW o, PS!Record(c, s, w, o), "walk" \in DOMAIN s
      PROVE  state'.walk = w /\ DOMAIN state' = DOMAIN s
  BY <1>3 DEF PS!Record
<1>4. ASSUME NEW c, NEW w, PS!Replay(c, w) \/ PS!Conflict(c, w), "walk" \in DOMAIN state
      PROVE  state'.walk = w /\ DOMAIN state' = DOMAIN state
  <2>1. CASE PS!Replay(c, w)
    BY <1>4, <2>1 DEF PS!Replay
  <2>2. CASE PS!Conflict(c, w)
    <3> DEFINE counted == [state.requests EXCEPT ![c.rid].conflicts = @ + 1]
    <3>1. state' = [state EXCEPT !.walk = w, !.requests = counted]
      BY <2>2 DEF PS!Conflict
    <3> HIDE DEF counted
    <3> QED BY <1>4, <3>1
  <2> QED BY <1>4, <2>1, <2>2
<1>5. ASSUME NEW c, NEW s, NEW w, NEW o, SE!Record(c, s, w, o), "walk" \in DOMAIN s
      PROVE  state'.walk = w /\ DOMAIN state' = DOMAIN s
  BY <1>5 DEF SE!Record
<1>6. ASSUME NEW c, NEW w, SE!Replay(c, w) \/ SE!Conflict(c, w), "walk" \in DOMAIN state
      PROVE  state'.walk = w /\ DOMAIN state' = DOMAIN state
  <2>1. CASE SE!Replay(c, w)
    BY <1>6, <2>1 DEF SE!Replay
  <2>2. CASE SE!Conflict(c, w)
    <3> DEFINE counted == [state.requests EXCEPT ![c.rid].conflicts = @ + 1]
    <3>1. state' = [state EXCEPT !.walk = w, !.requests = counted]
      BY <2>2 DEF SE!Conflict
    <3> HIDE DEF counted
    <3> QED BY <1>6, <3>1
  <2> QED BY <1>6, <2>1, <2>2
<1>7. ASSUME NEW c, NEW s, NEW w, NEW o, HR!Record(c, s, w, o), "walk" \in DOMAIN s
      PROVE  state'.walk = w /\ DOMAIN state' = DOMAIN s
  BY <1>7 DEF HR!Record
<1>8. ASSUME NEW c, NEW w, HR!Replay(c, w) \/ HR!Conflict(c, w), "walk" \in DOMAIN state
      PROVE  state'.walk = w /\ DOMAIN state' = DOMAIN state
  <2>1. CASE HR!Replay(c, w)
    BY <1>8, <2>1 DEF HR!Replay
  <2>2. CASE HR!Conflict(c, w)
    <3> DEFINE counted == [state.requests EXCEPT ![c.rid].conflicts = @ + 1]
    <3>1. state' = [state EXCEPT !.walk = w, !.requests = counted]
      BY <2>2 DEF HR!Conflict
    <3> HIDE DEF counted
    <3> QED BY <1>8, <3>1
  <2> QED BY <1>8, <2>1, <2>2
<1> QED BY <1>1, <1>2, <1>3, <1>4, <1>5, <1>6, <1>7, <1>8

(* The nodes of the checks of a command are the ones visited, ...           *)
LEMMA ChecksAreVisited ==
  /\ \A checks : TS!Nodes(checks) = Visited(checks)
  /\ \A checks : PS!Nodes(checks) = Visited(checks)
  /\ \A checks : SE!Nodes(checks) = Visited(checks)
  /\ \A checks : HR!Nodes(checks) = Visited(checks)
  /\ \A checks : JS!Nodes(checks) = Visited(checks)
<1>1. \A checks : TS!Nodes(checks) = Visited(checks)
  BY DEF TS!Nodes, Visited, TS!Accepted, TS!Failed, Refused, TS!Min, Least
<1>2. \A checks : PS!Nodes(checks) = Visited(checks)
  BY DEF PS!Nodes, Visited, PS!Accepted, PS!Failed, Refused, PS!Min, Least
<1>3. \A checks : SE!Nodes(checks) = Visited(checks)
  BY DEF SE!Nodes, Visited, SE!Accepted, SE!Failed, Refused, SE!Min, Least
<1>4. \A checks : HR!Nodes(checks) = Visited(checks)
  BY DEF HR!Nodes, Visited, HR!Accepted, HR!Failed, Refused, HR!Min, Least
<1>5. \A checks : JS!Nodes(checks) = Visited(checks)
  BY DEF JS!Nodes, Visited, JS!Accepted, JS!Failed, Refused, JS!Min, Least
<1> QED BY <1>1, <1>2, <1>3, <1>4, <1>5

(* ... and it is accepted when none refuses.                                *)
LEMMA AcceptedUnlessRefused ==
  /\ \A checks : TS!Accepted(checks) <=> Refused(checks) = {}
  /\ \A checks : PS!Accepted(checks) <=> Refused(checks) = {}
  /\ \A checks : SE!Accepted(checks) <=> Refused(checks) = {}
  /\ \A checks : HR!Accepted(checks) <=> Refused(checks) = {}
  /\ \A checks : JS!Accepted(checks) <=> Refused(checks) = {}
<1>1. \A checks : TS!Accepted(checks) <=> Refused(checks) = {}
  BY DEF TS!Accepted, TS!Failed, Refused
<1>2. \A checks : PS!Accepted(checks) <=> Refused(checks) = {}
  BY DEF PS!Accepted, PS!Failed, Refused
<1>3. \A checks : SE!Accepted(checks) <=> Refused(checks) = {}
  BY DEF SE!Accepted, SE!Failed, Refused
<1>4. \A checks : HR!Accepted(checks) <=> Refused(checks) = {}
  BY DEF HR!Accepted, HR!Failed, Refused
<1>5. \A checks : JS!Accepted(checks) <=> Refused(checks) = {}
  BY DEF JS!Accepted, JS!Failed, Refused
<1> QED BY <1>1, <1>2, <1>3, <1>4, <1>5

-----------------------------------------------------------------------------
(* The bank.                                                               *)

(* What clients send.                                                       *)
BankCommands == ModuleCommands["bank-transfer"]

(* The instance's sums are those proved about.                              *)
LEMMA BankSums == \A f : BT!SumOver(f) = SumOver(f)
BY DEF BT!SumOver, BT!FoldFunction, BT!FoldFunctionOnSet, BT!MapThenFoldSet,
       SumOver, FoldFunction, FoldFunctionOnSet, MapThenFoldSet

(* The amounts of commands.                                                 *)
Amounts(set) == SumOver([x \in set |-> x.amt])

(* They add up to a number, and one more command to one more summand.       *)
LEMMA AmountsAddUp ==
  ASSUME NEW S \in SUBSET BankCommands, IsFiniteSet(S), NEW c \in BankCommands, c \notin S
  PROVE  /\ Amounts(S) \in Int
         /\ Amounts(S \cup {c}) = Amounts(S) + c.amt
<1> DEFINE f == [x \in S |-> x.amt]
           g == [x \in S \cup {c} |-> x.amt]
<1>1. f \in [S -> Int] /\ c.amt \in Int
  BY BankAssumption DEF BankCommands
<1>2. OneMore(S, f, c, g) /\ g[c] = c.amt
  BY BankAssumption DEF BankCommands, OneMore
<1> HIDE DEF f, g
<1>3. SumOver(g) = SumOver(f) + g[c]
  BY <1>2, SumPutIn
<1>4. SumOver(f) \in Int
  BY <1>1, SumIsInt
<1> QED BY <1>2, <1>3, <1>4 DEF f, g, Amounts

(* Transfers that the sender's task has seen; those whose money is on its  *)
(* way; and those it has not yet finished with.                            *)
Transfers == {c \in state.appended : c.type = "transfer"}
Deposits == {c \in state.appended : c.type = "deposit"}
Flying == {m.cmd : m \in {m \in state.moving : m.success}}
Unfinished == {m.cmd : m \in state.moving}

(* What the module keeps.                                                   *)
BankFields ==
  /\ DOMAIN state = {"walk", "appended", "funds", "outgoing", "incoming", "moving"}
  /\ state.appended \subseteq BankCommands /\ IsFiniteSet(state.appended)
  /\ state.funds \in [BankUsers -> Int]
  /\ state.moving \subseteq [cmd : Transfers, success : BOOLEAN]
  /\ \A m, n \in state.moving : m.cmd = n.cmd => m = n

(* The money in the accounts and on its way is the money deposited.        *)
Money == SumOver(state.funds) + Amounts(Flying) = Amounts(Deposits)

(* What is below zero has been credited a negative amount.                 *)
Overdrafts ==
  \A u \in BankUsers : state.funds[u] < 0 =>
    \E c \in state.appended : c.amt < 0 /\ BT!Credits(c, u)

(* Where the histories keep a transfer.                                     *)
Sent(c) == <<c.from, c.rid>>
Got(c) == <<c.to, c.rid>>

(* What the histories say of a transfer, before and after its second half. *)
Histories ==
  /\ \A c \in Transfers : Sent(c) \in DOMAIN state.outgoing
  /\ \A m \in state.moving :
       /\ state.outgoing[Sent(m.cmd)].success = m.success
       /\ Got(m.cmd) \notin DOMAIN state.incoming
  /\ \A c \in Transfers \ Unfinished :
       /\ Got(c) \in DOMAIN state.incoming
       /\ state.incoming[Got(c)] =
            [from |-> c.from, amt |-> c.amt,
             success |-> state.outgoing[Sent(c)].success]
  /\ \A k \in DOMAIN state.incoming : \E c \in Transfers : k = Got(c)

(* The inductive invariant of the bank.                                     *)
BankInv == BankFields /\ Money /\ Histories /\ Overdrafts

(* A transfer id is used once.                                              *)
LEMMA TransfersApart ==
  ASSUME NEW c \in BankCommands, NEW d \in BankCommands, c.type = "transfer",
         d.type = "transfer", c.rid = d.rid
  PROVE  c = d
BY BankAssumption DEF BankCommands

(* It holds of the empty bank.                                              *)
LEMMA BankStarts == BT!BankInit => BankInv
<1> SUFFICES ASSUME BT!BankInit PROVE BankInv
  OBVIOUS
<1>1. /\ DOMAIN state = {"walk", "appended", "funds", "outgoing", "incoming", "moving"}
      /\ state.appended = {} /\ state.moving = {} /\ state.incoming = <<>>
      /\ state.funds = [u \in BankUsers |-> 0]
  BY DEF BT!BankInit
<1>2. Transfers = {} /\ Flying = {} /\ Unfinished = {} /\ Deposits = {}
  BY <1>1 DEF Transfers, Flying, Unfinished, Deposits
<1>3. BankFields
  BY <1>1, <1>2, FS_EmptySet DEF BankFields
<1>4. Amounts({}) = 0
  BY SumOfNone DEF Amounts
<1>5. SumOver(state.funds) = 0
  <2>1. state.funds \in [BankUsers -> Int] /\ \A u \in BankUsers : state.funds[u] = 0
    BY <1>1
  <2> QED BY ONLY <2>1, BankAssumption, SumOfZeros
<1>6. Money
  BY <1>2, <1>4, <1>5 DEF Money
<1>7. Histories
  BY <1>1, <1>2 DEF Histories
<1>8. Overdrafts
  BY <1>1 DEF Overdrafts
<1> QED BY <1>3, <1>6, <1>7, <1>8 DEF BankInv

(* What is on its way adds up to a number.                                 *)
LEMMA MovingAddsUp ==
  ASSUME BankFields
  PROVE  /\ Flying \in SUBSET BankCommands /\ IsFiniteSet(Flying)
         /\ Amounts(Flying) \in Int
<1>1. Flying \subseteq state.appended
  BY DEF Flying, BankFields, Transfers
<1>2. Flying \in SUBSET BankCommands /\ IsFiniteSet(Flying)
  BY <1>1, FS_Subset DEF BankFields
<1> DEFINE f == [x \in Flying |-> x.amt]
<1>3. f \in [Flying -> Int]
  BY <1>2, BankAssumption DEF BankCommands
<1> HIDE DEF f
<1>4. SumOver(f) \in Int
  BY <1>2, <1>3, SumIsInt
<1> QED BY <1>2, <1>4 DEF Amounts, f

(* A deposit adds to an account what it adds to the deposits.              *)
LEMMA BankDeposit ==
  ASSUME BankInv, NEW c \in BankCommands, BT!Deposit(c)
  PROVE  BankInv'
<1>1. /\ DOMAIN state' = DOMAIN state
      /\ state'.appended = state.appended \cup {c}
      /\ state'.funds = [state.funds EXCEPT ![c.user] = @ + c.amt]
      /\ state'.outgoing = state.outgoing
      /\ state'.incoming = state.incoming
      /\ state'.moving = state.moving
      /\ c \notin state.appended /\ c.type = "deposit"
  BY DEF BT!Deposit, BankInv, BankFields
<1>2. c.user \in BankUsers /\ c.amt \in Int
  BY <1>1, BankAssumption DEF BankCommands
<1>3. /\ Transfers' = Transfers /\ Flying' = Flying /\ Unfinished' = Unfinished
      /\ Deposits' = Deposits \cup {c}
  BY <1>1 DEF Transfers, Flying, Unfinished, Deposits
<1>4. BankFields'
  <2>1. state'.funds \in [BankUsers -> Int]
    BY <1>1, <1>2 DEF BankInv, BankFields
  <2>2. IsFiniteSet(state'.appended)
    BY <1>1, FS_AddElement DEF BankInv, BankFields
  <2> QED BY <1>1, <1>3, <2>1, <2>2 DEF BankInv, BankFields
<1>5. Money'
  <2>1. SumOver(state'.funds) = SumOver(state.funds) - state.funds[c.user] + state'.funds[c.user]
    <3>1. OneOther(BankUsers, state.funds, c.user, state'.funds)
      BY <1>1, <1>2, BankAssumption DEF BankInv, BankFields, OneOther
    <3> QED BY <3>1, SumChange
  <2>2. /\ SumOver(state.funds) \in Int /\ state.funds[c.user] \in Int
        /\ state'.funds[c.user] = state.funds[c.user] + c.amt
    <3>1. state.funds \in [BankUsers -> Int]
      BY DEF BankInv, BankFields
    <3> QED BY <1>1, <1>2, <3>1, BankAssumption, SumIsInt
  <2>3. Amounts(Deposits \cup {c}) = Amounts(Deposits) + c.amt /\ Amounts(Deposits) \in Int
    <3>1. Deposits \in SUBSET BankCommands /\ IsFiniteSet(Deposits) /\ c \notin Deposits
      BY <1>1, FS_Subset DEF BankInv, BankFields, Deposits
    <3> QED BY <3>1, AmountsAddUp
  <2>4. Amounts(Flying) \in Int
    BY MovingAddsUp DEF BankInv
  <2>5. Amounts(Flying)' = Amounts(Flying) /\ Amounts(Deposits)' = Amounts(Deposits \cup {c})
    BY <1>3 DEF Amounts
  <2> QED BY <1>2, <2>1, <2>2, <2>3, <2>4, <2>5 DEF BankInv, Money
<1>6. Histories'
  BY <1>1, <1>3 DEF BankInv, Histories
<1>7. Overdrafts'
  <2> SUFFICES ASSUME NEW u \in BankUsers, state'.funds[u] < 0
               PROVE  \E d \in state'.appended : d.amt < 0 /\ BT!Credits(d, u)
    BY DEF Overdrafts, BT!Credits
  <2>1. CASE u = c.user /\ c.amt < 0
    BY <1>1, <2>1 DEF BT!Credits
  <2>2. CASE u # c.user \/ c.amt >= 0
    <3>1. /\ state.funds[u] \in Int
          /\ state'.funds[u] = IF u = c.user THEN state.funds[u] + c.amt ELSE state.funds[u]
      BY <1>1, <1>2 DEF BankInv, BankFields
    <3>2. state.funds[u] < 0
      BY <1>2, <2>2, <3>1
    <3>3. PICK d \in state.appended : d.amt < 0 /\ BT!Credits(d, u)
      BY <3>2 DEF BankInv, Overdrafts
    <3> QED BY <1>1, <3>3
  <2> QED BY <1>2, <2>1, <2>2
<1> QED BY <1>4, <1>5, <1>6, <1>7 DEF BankInv

(* On the sender's task what leaves the account takes to the way.          *)
LEMMA BankTransferOut ==
  ASSUME BankInv, NEW c \in BankCommands, BT!TransferOut(c)
  PROVE  BankInv'
<1> DEFINE success == state.funds[c.from] >= c.amt
           m == [cmd |-> c, success |-> success]
<1>1. /\ DOMAIN state' = DOMAIN state
      /\ state'.appended = state.appended \cup {c}
      /\ state'.funds = [state.funds EXCEPT ![c.from] = IF success THEN @ - c.amt ELSE @]
      /\ state'.outgoing = BT!Put(state.outgoing, Sent(c),
                                  [to |-> c.to, amt |-> c.amt, success |-> success])
      /\ state'.incoming = state.incoming
      /\ state'.moving = state.moving \cup {m}
      /\ c \notin state.appended /\ c.type = "transfer"
  BY DEF BT!TransferOut, BankInv, BankFields, Sent
<1>2. /\ c.from \in BankUsers /\ c.to \in BankUsers /\ c.amt \in Int
      /\ state.funds[c.from] \in Int /\ success \in BOOLEAN
  BY <1>1, BankAssumption DEF BankCommands, BankInv, BankFields
<1>3. m.cmd = c /\ m.success = success
  OBVIOUS
<1>4. state'.funds \in [BankUsers -> Int]
  BY <1>1, <1>2 DEF BankInv, BankFields
<1>5. state'.funds[c.from] = IF success THEN state.funds[c.from] - c.amt ELSE state.funds[c.from]
  BY <1>1, <1>2 DEF BankInv, BankFields
<1>6. \A u \in BankUsers : u # c.from => state'.funds[u] = state.funds[u]
  BY <1>1, <1>2 DEF BankInv, BankFields
<1>7. state'.outgoing[Sent(c)].success = success
  BY <1>1 DEF BT!Put
<1>8. success => state'.funds[c.from] >= 0
  BY <1>2, <1>5
<1> HIDE DEF success, m
<1>9. /\ Transfers' = Transfers \cup {c} /\ Deposits' = Deposits
      /\ Unfinished' = Unfinished \cup {c}
      /\ Flying' = IF success THEN Flying \cup {c} ELSE Flying
  BY <1>1, <1>3 DEF Transfers, Flying, Unfinished, Deposits
<1>10. c \notin Unfinished /\ c \notin Flying
  BY <1>1 DEF Unfinished, Flying, BankInv, BankFields, Transfers
<1>11. BankFields'
  <2>1. IsFiniteSet(state'.appended)
    BY <1>1, FS_AddElement DEF BankInv, BankFields
  <2>2. m \in [cmd : Transfers', success : BOOLEAN]
    BY <1>2, <1>9 DEF m
  <2>3. state'.moving \subseteq [cmd : Transfers', success : BOOLEAN]
    BY <1>1, <1>9, <2>2 DEF BankInv, BankFields
  <2>4. \A x \in state.moving : x.cmd # c
    BY <1>10 DEF Unfinished
  <2>5. \A x, y \in state'.moving : x.cmd = y.cmd => x = y
    BY <1>1, <1>3, <2>4 DEF BankInv, BankFields
  <2> QED BY <1>1, <1>4, <2>1, <2>3, <2>5 DEF BankInv, BankFields
<1>12. Money'
  <2>1. SumOver(state'.funds) = SumOver(state.funds) - state.funds[c.from] + state'.funds[c.from]
    <3>1. OneOther(BankUsers, state.funds, c.from, state'.funds)
      BY <1>2, <1>4, <1>6, BankAssumption DEF BankInv, BankFields, OneOther
    <3> QED BY <3>1, SumChange
  <2>2. SumOver(state.funds) \in Int /\ Amounts(Flying) \in Int
    <3>1. state.funds \in [BankUsers -> Int]
      BY DEF BankInv, BankFields
    <3> QED BY <3>1, BankAssumption, SumIsInt, MovingAddsUp DEF BankInv
  <2>3. Amounts(Flying \cup {c}) = Amounts(Flying) + c.amt
    <3>1. Flying \in SUBSET BankCommands /\ IsFiniteSet(Flying)
      BY MovingAddsUp DEF BankInv
    <3> QED BY <1>10, <3>1, AmountsAddUp
  <2>4. /\ Amounts(Flying)' = IF success THEN Amounts(Flying \cup {c}) ELSE Amounts(Flying)
        /\ Amounts(Deposits)' = Amounts(Deposits)
    BY <1>9 DEF Amounts
  <2> QED BY <1>2, <1>5, <2>1, <2>2, <2>3, <2>4 DEF BankInv, Money
<1>13. Histories'
  <2>1. ASSUME NEW d \in Transfers
        PROVE  /\ Sent(d) # Sent(c) /\ Got(d) # Got(c)
    <3>1. d \in BankCommands /\ d.type = "transfer" /\ d # c
      BY <1>1 DEF Transfers, BankInv, BankFields
    <3>2. d.rid # c.rid
      BY <1>1, <3>1, TransfersApart
    <3> QED BY <3>2 DEF Sent, Got
  <2>2. Got(c) \notin DOMAIN state.incoming
    BY <2>1 DEF BankInv, Histories
  <2>3. ASSUME NEW d \in Transfers
        PROVE  state'.outgoing[Sent(d)].success = state.outgoing[Sent(d)].success
    BY <1>1, <2>1 DEF BankInv, Histories, BT!Put
  <2>4. \A x \in state.moving : x.cmd \in Transfers
    BY DEF BankInv, BankFields
  <2>5. ASSUME NEW x \in state'.moving
        PROVE  /\ state'.outgoing[Sent(x.cmd)].success = x.success
               /\ Got(x.cmd) \notin DOMAIN state'.incoming
    <3>1. CASE x = m
      BY <1>1, <1>3, <1>7, <2>2, <3>1
    <3>2. CASE x \in state.moving
      <4>1. state'.outgoing[Sent(x.cmd)].success =
              state.outgoing[Sent(x.cmd)].success
        BY <2>3, <2>4, <3>2
      <4>2. /\ state.outgoing[Sent(x.cmd)].success = x.success
            /\ Got(x.cmd) \notin DOMAIN state.incoming
        BY <3>2 DEF BankInv, Histories
      <4> QED BY <1>1, <4>1, <4>2
    <3> QED BY <1>1, <3>1, <3>2
  <2>6. ASSUME NEW d \in Transfers' \ Unfinished'
        PROVE  /\ Got(d) \in DOMAIN state'.incoming
               /\ state'.incoming[Got(d)] =
                    [from |-> d.from, amt |-> d.amt,
                     success |-> state'.outgoing[Sent(d)].success]
    <3>1. d \in Transfers \ Unfinished
      BY <1>9
    <3> QED BY <1>1, <2>3, <3>1 DEF BankInv, Histories
  <2>7. \A k \in DOMAIN state'.incoming : \E d \in Transfers' : k = Got(d)
    BY <1>1, <1>9 DEF BankInv, Histories
  <2>8. \A d \in Transfers' : Sent(d) \in DOMAIN state'.outgoing
    <3>1. DOMAIN state'.outgoing = DOMAIN state.outgoing \cup {Sent(c)}
      BY <1>1 DEF BT!Put
    <3>2. \A d \in Transfers : Sent(d) \in DOMAIN state.outgoing
      BY DEF BankInv, Histories
    <3> QED BY <1>9, <3>1, <3>2
  <2>9. \A d : Sent(d)' = Sent(d) /\ Got(d)' = Got(d)
    BY DEF Sent, Got
  <2> QED BY <2>5, <2>6, <2>7, <2>8, <2>9 DEF Histories
<1>14. Overdrafts'
  <2> SUFFICES ASSUME NEW u \in BankUsers, state'.funds[u] < 0
               PROVE  \E d \in state'.appended : d.amt < 0 /\ BT!Credits(d, u)
    BY DEF Overdrafts, BT!Credits
  <2>1. state'.funds[u] = state.funds[u]
    <3>1. u = c.from => ~success
      BY <1>2, <1>4, <1>8
    <3> QED BY <1>5, <1>6, <3>1
  <2>2. PICK d \in state.appended : d.amt < 0 /\ BT!Credits(d, u)
    BY <2>1 DEF BankInv, Overdrafts
  <2> QED BY <1>1, <2>2
<1> QED BY <1>11, <1>12, <1>13, <1>14 DEF BankInv

(* On the recipient's task what was on its way comes into the account.     *)
LEMMA BankTransferIn ==
  ASSUME BankInv, NEW m \in state.moving, BT!TransferIn(m)
  PROVE  BankInv'
<1> DEFINE c == m.cmd
           got == [from |-> c.from, amt |-> c.amt, success |-> m.success]
<1>1. /\ DOMAIN state' = DOMAIN state
      /\ state'.appended = state.appended
      /\ state'.funds = [state.funds EXCEPT ![c.to] = IF m.success THEN @ + c.amt ELSE @]
      /\ state'.outgoing = state.outgoing
      /\ state'.incoming = BT!Put(state.incoming, Got(c), got)
      /\ state'.moving = state.moving \ {m}
  BY DEF BT!TransferIn, BankInv, BankFields, Got
<1>2. /\ c \in Transfers /\ c \in BankCommands /\ c.type = "transfer"
      /\ c.to \in BankUsers /\ c.amt \in Int
      /\ state.funds[c.to] \in Int /\ m.success \in BOOLEAN
  BY BankAssumption DEF BankCommands, BankInv, BankFields, Transfers
<1>3. state'.funds \in [BankUsers -> Int]
  BY <1>1, <1>2 DEF BankInv, BankFields
<1>4. state'.funds[c.to] = IF m.success THEN state.funds[c.to] + c.amt ELSE state.funds[c.to]
  BY <1>1, <1>2 DEF BankInv, BankFields
<1>5. \A u \in BankUsers : u # c.to => state'.funds[u] = state.funds[u]
  BY <1>1, <1>2 DEF BankInv, BankFields
<1>6. /\ DOMAIN state'.incoming = DOMAIN state.incoming \cup {Got(c)}
      /\ state'.incoming[Got(c)] = got
      /\ \A k \in DOMAIN state.incoming : k # Got(c) =>
           state'.incoming[k] = state.incoming[k]
  BY <1>1 DEF BT!Put
<1>7. \A x \in state.moving : x.cmd = c => x = m
  BY DEF BankInv, BankFields
<1> HIDE DEF c, got
<1>8. /\ Transfers' = Transfers /\ Deposits' = Deposits
      /\ Unfinished' = Unfinished \ {c}
      /\ Flying' = IF m.success THEN Flying \ {c} ELSE Flying
      /\ m.success => c \in Flying
  <2>1. Transfers' = Transfers /\ Deposits' = Deposits
    BY <1>1 DEF Transfers, Deposits
  <2>2. Unfinished' = Unfinished \ {c}
    BY <1>1, <1>7 DEF Unfinished, c
  <2>3. Flying' = IF m.success THEN Flying \ {c} ELSE Flying
    BY <1>1, <1>7 DEF Flying, c
  <2>4. m.success => c \in Flying
    BY DEF Flying, c
  <2> QED BY <2>1, <2>2, <2>3, <2>4
<1>9. BankFields'
  BY <1>1, <1>3, <1>8 DEF BankInv, BankFields
<1>10. Money'
  <2>1. SumOver(state'.funds) = SumOver(state.funds) - state.funds[c.to] + state'.funds[c.to]
    <3>1. OneOther(BankUsers, state.funds, c.to, state'.funds)
      BY <1>2, <1>3, <1>5, BankAssumption DEF BankInv, BankFields, OneOther
    <3> QED BY <3>1, SumChange
  <2>2. SumOver(state.funds) \in Int /\ Amounts(Flying) \in Int
    <3>1. state.funds \in [BankUsers -> Int]
      BY DEF BankInv, BankFields
    <3> QED BY <3>1, BankAssumption, SumIsInt, MovingAddsUp DEF BankInv
  <2>3. m.success => /\ Amounts(Flying) = Amounts(Flying \ {c}) + c.amt
                     /\ Amounts(Flying \ {c}) \in Int
    <3> SUFFICES ASSUME m.success PROVE /\ Amounts(Flying) = Amounts(Flying \ {c}) + c.amt
                                        /\ Amounts(Flying \ {c}) \in Int
      OBVIOUS
    <3> DEFINE rest == Flying \ {c}
    <3>1. rest \in SUBSET BankCommands /\ IsFiniteSet(rest)
      BY MovingAddsUp, FS_Subset DEF BankInv
    <3>2. c \notin rest /\ Flying = rest \cup {c}
      BY <1>8
    <3> HIDE DEF rest
    <3>3. Amounts(rest) \in Int /\ Amounts(rest \cup {c}) = Amounts(rest) + c.amt
      BY <1>2, <3>1, <3>2, AmountsAddUp
    <3> QED BY <3>2, <3>3 DEF rest
  <2>4. /\ Amounts(Flying)' = IF m.success THEN Amounts(Flying \ {c}) ELSE Amounts(Flying)
        /\ Amounts(Deposits)' = Amounts(Deposits)
    BY <1>8 DEF Amounts
  <2> QED BY <1>2, <1>4, <2>1, <2>2, <2>3, <2>4 DEF BankInv, Money
<1>11. Histories'
  <2>1. ASSUME NEW d \in Transfers, d # c PROVE Got(d) # Got(c)
    <3>1. d \in BankCommands /\ d.type = "transfer"
      BY DEF Transfers, BankInv, BankFields
    <3>2. d.rid # c.rid
      BY <1>2, <2>1, <3>1, TransfersApart
    <3> QED BY <3>2 DEF Sent, Got
  <2>2. ASSUME NEW x \in state'.moving
        PROVE  /\ state'.outgoing[Sent(x.cmd)].success = x.success
               /\ Got(x.cmd) \notin DOMAIN state'.incoming
    <3>1. x \in state.moving /\ x.cmd # c /\ x.cmd \in Transfers
      BY <1>1, <1>7 DEF BankInv, BankFields
    <3>2. /\ state.outgoing[Sent(x.cmd)].success = x.success
          /\ Got(x.cmd) \notin DOMAIN state.incoming
      BY <3>1 DEF BankInv, Histories
    <3> QED BY <1>1, <1>6, <2>1, <3>1, <3>2
  <2>3. ASSUME NEW d \in Transfers' \ Unfinished'
        PROVE  /\ Got(d) \in DOMAIN state'.incoming
               /\ state'.incoming[Got(d)] =
                    [from |-> d.from, amt |-> d.amt,
                     success |-> state'.outgoing[Sent(d)].success]
    <3>1. CASE d = c
      <4>1. m.success = state.outgoing[Sent(d)].success
        BY <3>1 DEF c, BankInv, Histories
      <4> QED BY <1>1, <1>6, <3>1, <4>1 DEF got
    <3>2. CASE d # c
      <4>1. d \in Transfers \ Unfinished
        BY <1>8, <3>2
      <4>2. state.incoming[Got(d)] =
              [from |-> d.from, amt |-> d.amt,
               success |-> state.outgoing[Sent(d)].success]
        BY <4>1 DEF BankInv, Histories
      <4>3. Got(d) \in DOMAIN state.incoming
        BY <4>1 DEF BankInv, Histories
      <4> QED BY <1>1, <1>6, <2>1, <3>2, <4>1, <4>2, <4>3
    <3> QED BY <3>1, <3>2
  <2>4. \A k \in DOMAIN state'.incoming : \E d \in Transfers' : k = Got(d)
    BY <1>2, <1>6, <1>8 DEF BankInv, Histories
  <2>5. \A d \in Transfers' : Sent(d) \in DOMAIN state'.outgoing
    BY <1>1, <1>8 DEF BankInv, Histories
  <2>6. \A d : Sent(d)' = Sent(d) /\ Got(d)' = Got(d)
    BY DEF Sent, Got
  <2> QED BY <2>2, <2>3, <2>4, <2>5, <2>6 DEF Histories
<1>12. Overdrafts'
  <2> SUFFICES ASSUME NEW u \in BankUsers, state'.funds[u] < 0
               PROVE  \E d \in state'.appended : d.amt < 0 /\ BT!Credits(d, u)
    BY DEF Overdrafts, BT!Credits
  <2>1. c \in state'.appended
    BY <1>1, <1>2 DEF Transfers
  <2>2. CASE u = c.to /\ c.amt < 0
    BY <1>2, <2>1, <2>2 DEF BT!Credits
  <2>3. CASE u # c.to \/ c.amt >= 0
    <3>1. state.funds[u] < 0
      BY <1>2, <1>3, <1>4, <1>5, <2>3
    <3>2. PICK d \in state.appended : d.amt < 0 /\ BT!Credits(d, u)
      BY <3>1 DEF BankInv, Overdrafts
    <3> QED BY <1>1, <3>2
  <2> QED BY <1>2, <2>2, <2>3
<1> QED BY <1>9, <1>10, <1>11, <1>12 DEF BankInv

(* Every step of the bank keeps it.                                        *)
LEMMA BankGoesOn == BankInv /\ BT!BankStep => BankInv'
BY BankDeposit, BankTransferOut, BankTransferIn DEF BT!BankStep, BankCommands

(* The bank keeps its money and tells every transfer one way.              *)
LEMMA BankSucceeds == BankInv => BT!MoneyKept /\ BT!HistoriesAgree
<1> SUFFICES ASSUME BankInv PROVE BT!MoneyKept /\ BT!HistoriesAgree
  OBVIOUS
<1>1. BT!MoneyKept
  <2>1. Overdrafts
    BY DEF BankInv
  <2>2. \A set : BT!Total(set) = Amounts(set)
    BY BankSums DEF BT!Total, Amounts
  <2>3. BT!SumOver(state.funds) + BT!Total(Flying) = BT!Total(Deposits)
    BY <2>2, BankSums DEF BankInv, Money
  <2> QED BY <2>1, <2>3 DEF BT!MoneyKept, Overdrafts, Flying, Deposits
<1>2. BT!HistoriesAgree
  <2>1. ASSUME NEW c \in Transfers, \E m \in state.moving : m.cmd = c
        PROVE  Got(c) \notin DOMAIN state.incoming
    BY <2>1 DEF BankInv, Histories
  <2>2. ASSUME NEW c \in Transfers, ~\E m \in state.moving : m.cmd = c
        PROVE  state.incoming[Got(c)] =
                 [from |-> c.from, amt |-> c.amt,
                  success |-> state.outgoing[Sent(c)].success]
    BY <2>2 DEF BankInv, Histories, Unfinished
  <2>3. ASSUME NEW c \in Transfers
        PROVE  IF \E m \in state.moving : m.cmd = c
               THEN <<c.to, c.rid>> \notin DOMAIN state.incoming
               ELSE state.incoming[<<c.to, c.rid>>] =
                      [from |-> c.from, amt |-> c.amt,
                       success |-> state.outgoing[<<c.from, c.rid>>].success]
    BY Zenon, <2>1, <2>2 DEF Sent, Got
  <2> QED BY Zenon, <2>3 DEF BT!HistoriesAgree, Transfers
<1> QED BY <1>1, <1>2

(* A bank shows a deposit as its way to the funds of its recipient, and a   *)
(* transfer as what each of its two tasks does.                             *)
LEMMA DepositShows ==
  ASSUME "walk" \in DOMAIN state, NEW c, BT!Deposit(c)
  PROVE  Shows(BT!BankDiagrams)
<1> DEFINE g == BT!BankPartition
           path == <<"recipient", "recipientFunds">>
           funds == [state.funds EXCEPT ![c.user] = @ + c.amt]
           appended == state.appended \cup {c}
<1>1. state' = [state EXCEPT !.appended = appended, !.funds = funds,
                             !.walk = <<"partition", path>>]
  BY DEF BT!Deposit
<1>2. "recipient" \in Ids(g) /\ Arrow(g, "recipient", "recipientFunds")
  BY BankPartitionArrows
<1>3. g = BT!BankDiagrams["partition"]
  BY DEF BT!BankDiagrams
<1> HIDE DEF g, funds, appended
<1>4. Walk(g, path, "recipient", "recipientFunds")
  BY <1>2, ShortWalks
<1> HIDE DEF path
<1>5. DOMAIN state' = DOMAIN state /\ state'.walk = <<"partition", path>>
  BY <1>1
<1> QED BY <1>2, <1>3, <1>4, <1>5, ShownAs

(* The sending task of a transfer is drawn, whether the funds suffice or    *)
(* not, ...                                                                 *)
LEMMA TransferOutShows ==
  ASSUME "walk" \in DOMAIN state, NEW c, BT!TransferOut(c)
  PROVE  Shows(BT!BankDiagrams)
<1> DEFINE g == BT!TransferDiagram
           success == state.funds[c.from] >= c.amt
           middle == IF success THEN "debit" ELSE "failure"
           path == <<"start", "read", "success", middle, "outgoing", "route">>
           appended == state.appended \cup {c}
           funds == [state.funds EXCEPT ![c.from] = IF success THEN @ - c.amt ELSE @]
           outgoing == BT!Put(state.outgoing, <<c.from, c.rid>>,
                              [to |-> c.to, amt |-> c.amt, success |-> success])
           moving == state.moving \cup {[cmd |-> c, success |-> success]}
<1>1. state' = [state EXCEPT !.appended = appended, !.funds = funds, !.outgoing = outgoing,
                             !.moving = moving, !.walk = <<"transfer", path>>]
  BY DEF BT!TransferOut
<1>2. /\ "start" \in Ids(g) /\ Arrow(g, "start", "read") /\ Arrow(g, "read", "success")
      /\ Arrow(g, "success", "debit") /\ Arrow(g, "success", "failure")
      /\ Arrow(g, "debit", "outgoing") /\ Arrow(g, "failure", "outgoing")
      /\ Arrow(g, "outgoing", "route")
  BY TransferArrows
<1>3. g = BT!BankDiagrams["transfer"]
  BY DEF BT!BankDiagrams
<1>4. middle = "debit" \/ middle = "failure"
  OBVIOUS
<1> HIDE DEF g, success, middle, appended, funds, outgoing, moving
<1>5. Arrow(g, "success", middle) /\ Arrow(g, middle, "outgoing")
  BY <1>2, <1>4
<1>6. Walk(g, path, "start", "route")
  BY <1>2, <1>5, ShortWalks
<1> HIDE DEF path
<1>7. DOMAIN state' = DOMAIN state /\ state'.walk = <<"transfer", path>>
  BY <1>1
<1> QED BY <1>2, <1>3, <1>6, <1>7, ShownAs

(* ... and so is the receiving one.                                         *)
LEMMA TransferInShows ==
  ASSUME "walk" \in DOMAIN state, NEW m, BT!TransferIn(m)
  PROVE  Shows(BT!BankDiagrams)
<1> DEFINE g == BT!TransferDiagram
           start == <<"route", "credit">>
           middle == IF m.success THEN <<"funds">> ELSE <<>>
           end == <<"incoming", "done">>
           path == start \o middle \o end
           funds == [state.funds EXCEPT ![m.cmd.to] = IF m.success THEN @ + m.cmd.amt ELSE @]
           incoming == BT!Put(state.incoming, <<m.cmd.to, m.cmd.rid>>,
                              [from |-> m.cmd.from, amt |-> m.cmd.amt, success |-> m.success])
           moving == state.moving \ {m}
<1>1. state' = [state EXCEPT !.funds = funds, !.incoming = incoming, !.moving = moving,
                             !.walk = <<"transfer", path>>]
  BY DEF BT!TransferIn
<1>2. /\ "route" \in Ids(g) /\ Arrow(g, "route", "credit") /\ Arrow(g, "credit", "funds")
      /\ Arrow(g, "credit", "incoming") /\ Arrow(g, "funds", "incoming")
      /\ Arrow(g, "incoming", "done")
  BY TransferArrows
<1>3. g = BT!BankDiagrams["transfer"]
  BY DEF BT!BankDiagrams
<1>4. middle = <<"funds">> \/ middle = <<>>
  OBVIOUS
<1> HIDE DEF g, middle, funds, incoming, moving
<1>5. /\ Walk(g, start, "route", "credit") /\ Walk(g, <<"funds">>, "funds", "funds")
      /\ Walk(g, end, "incoming", "done")
  BY <1>2, ShortWalks
<1>6. Walk(g, path, "route", "done")
  <2> HIDE DEF start, end
  <2>1. CASE middle = <<"funds">>
    <3>1. Walk(g, start \o <<"funds">> \o end, "route", "done")
      BY <1>2, <1>5, WalkThrough
    <3> QED BY <2>1, <3>1
  <2>2. CASE middle = <<>>
    <3>1. start \o middle = start
      BY <1>5, <2>2, NothingAdded
    <3>2. Walk(g, start \o end, "route", "done")
      BY <1>2, <1>5, WalkOn
    <3> QED BY <3>1, <3>2
  <2> QED BY <1>4, <2>1, <2>2
<1> HIDE DEF path
<1>7. DOMAIN state' = DOMAIN state /\ state'.walk = <<"transfer", path>>
  BY <1>1
<1> QED BY <1>2, <1>3, <1>6, <1>7, ShownAs

(* So everything the bank does is drawn.                                    *)
LEMMA BankShows ==
  ASSUME "walk" \in DOMAIN state, BT!BankStep
  PROVE  Shows(BT!BankDiagrams)
BY DepositShows, TransferOutShows, TransferInShows DEF BT!BankStep
===============================================================================
