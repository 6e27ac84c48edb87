------------------------------ MODULE Inductions ------------------------------
(***************************************************************************)
(* Induction over the natural numbers and over finite sets, stated about   *)
(* sets: a property is the set of what has it.  Then what follows of the   *)
(* sums of the community modules.                                          *)
(***************************************************************************)
EXTENDS Integers, Functions, WellFoundedInduction, FiniteSetTheorems, TLAPS

Below == {p \in Nat \X Nat : p[1] < p[2]}

(* The order of the naturals, as a set of pairs, is well founded. *)
LEMMA BelowIsWellFounded == IsWellFoundedOn(Below, Nat)
<1>1. OpToRel(<, Nat) = Below
  BY DEF OpToRel, Below
<1> QED
  BY <1>1, NatLessThanWellFounded

(* A set of naturals that is not empty has a least element. *)
LEMMA LeastNatural ==
  ASSUME NEW T \in SUBSET Nat, T # {}
  PROVE  \E n \in T : \A m \in T : n <= m
<1>1. PICK n \in T : \A m \in T : <<m, n>> \notin Below
  BY WFMin, BelowIsWellFounded, Zenon
<1>2. \A m \in T : ~(m < n)
  <2>1. \A m \in T : <<m, n>> \in Nat \X Nat /\ <<m, n>>[1] = m /\ <<m, n>>[2] = n
    OBVIOUS
  <2> QED
    BY <1>1, <2>1 DEF Below
<1> QED
  BY <1>2

(* Induction: a set with 0, and with n + 1 for each of its naturals n, has *)
(* every natural.                                                          *)
LEMMA Induction ==
  ASSUME NEW T, 0 \in T, \A n \in Nat : n \in T => n + 1 \in T
  PROVE  Nat \subseteq T
<1> SUFFICES ASSUME Nat \ T # {} PROVE FALSE
  OBVIOUS
<1>1. PICK n \in Nat \ T : \A m \in Nat \ T : n <= m
  BY LeastNatural, Nat \ T \in SUBSET Nat, Zenon
<1>2. n # 0 /\ n - 1 \in Nat /\ n - 1 \in T
  BY <1>1
<1> QED
  BY <1>1, <1>2

(* Induction over finite sets: what a set has whenever every set with one  *)
(* element less has it, every subset of a finite set has.                  *)
LEMMA FiniteInduction ==
  ASSUME NEW S, IsFiniteSet(S), NEW U,
         \A s \in SUBSET S : (\A x \in s : s \ {x} \in U) => s \in U
  PROVE  SUBSET S \subseteq U
<1> DEFINE T == {n \in Nat : \A s \in SUBSET S : Cardinality(s) = n => s \in U}
<1>1. \A s \in SUBSET S : IsFiniteSet(s) /\ Cardinality(s) \in Nat
  BY FS_Subset, FS_CardinalityType
<1>2. 0 \in T
  <2> SUFFICES ASSUME NEW s \in SUBSET S, Cardinality(s) = 0 PROVE s \in U
    OBVIOUS
  <2>1. s = {}
    BY <1>1, FS_EmptySet
  <2> QED
    BY <2>1
<1>3. ASSUME NEW n \in Nat, n \in T PROVE n + 1 \in T
  <2> SUFFICES ASSUME NEW s \in SUBSET S, Cardinality(s) = n + 1 PROVE s \in U
    OBVIOUS
  <2>1. ASSUME NEW x \in s PROVE s \ {x} \in U
    <3>1. Cardinality(s \ {x}) = Cardinality(s) - 1
      BY <1>1, FS_RemoveElement
    <3>2. s \ {x} \in SUBSET S /\ Cardinality(s \ {x}) = n
      BY <3>1
    <3> QED
      BY <1>3, <3>2
  <2> QED
    BY <2>1
<1>4. Nat \subseteq T
  <2> HIDE DEF T
  <2> QED
    BY <1>2, <1>3, Induction
<1> QED
  BY <1>1, <1>4

(* A finite set of naturals that is not empty has a greatest element. *)
LEMMA GreatestNatural ==
  ASSUME NEW T \in SUBSET Nat, IsFiniteSet(T), T # {}
  PROVE  \E n \in T : \A m \in T : n >= m
<1> DEFINE U == {s \in SUBSET T : s # {} => \E n \in s : \A m \in s : n >= m}
<1>1. ASSUME NEW s \in SUBSET T, \A x \in s : s \ {x} \in U
      PROVE  s \in U
  <2> SUFFICES ASSUME NEW x \in s PROVE \E n \in s : \A m \in s : n >= m
    OBVIOUS
  <2>1. s \ {x} = {} \/ \E n \in s \ {x} : \A m \in s \ {x} : n >= m
    BY <1>1
  <2>2. CASE s \ {x} = {}
    BY <2>2
  <2>3. ASSUME NEW n \in s \ {x}, \A m \in s \ {x} : n >= m
        PROVE  \E k \in s : \A m \in s : k >= m
    <3>1. CASE n >= x
      BY <2>3, <3>1
    <3>2. CASE ~(n >= x)
      BY <2>3, <3>2
    <3> QED
      BY <3>1, <3>2
  <2> QED
    BY <2>1, <2>2, <2>3
<1>2. SUBSET T \subseteq U
  <2> HIDE DEF U
  <2> QED
    BY <1>1, FiniteInduction
<1> QED
  BY <1>2

-----------------------------------------------------------------------------
(* Sums                                                                    *)
(*                                                                         *)
(* SumFunctionOnSet adds what an arbitrary choice of elements picks; the   *)
(* lemmas show that any element may be taken first.                        *)

Pick(s) == CHOOSE x \in s : TRUE
Addend(f, it, s) == IF s = {} THEN 0 ELSE f[Pick(s)] + it[s \ {Pick(s)}]
Iterated(f, S) == CHOOSE it : it = [s \in SUBSET S |-> Addend(f, it, s)]

(* SumFunctionOnSet, without its operator arguments. *)
LEMMA SumIsIterated == \A f, S : SumFunctionOnSet(f, S) = Iterated(f, S)[S]
BY Zenon DEF SumFunctionOnSet, FoldFunctionOnSet, MapThenFoldSet, Iterated, Addend, Pick

(* The choice is an element. *)
LEMMA PickIsElement == \A s : s # {} => Pick(s) \in s
BY DEF Pick

(* The recursive function exists: on the subsets of at most n elements,    *)
(* for every n.                                                            *)
LEMMA IterationExists ==
  ASSUME NEW f, NEW S, IsFiniteSet(S)
  PROVE  \E it : it = [s \in SUBSET S |-> Addend(f, it, s)]
<1> DEFINE Sized(n) == {s \in SUBSET S : Cardinality(s) <= n}
           T == {n \in Nat : \E it : it = [s \in Sized(n) |-> Addend(f, it, s)]}
<1>1. \A s \in SUBSET S : IsFiniteSet(s) /\ Cardinality(s) \in Nat
  BY FS_Subset, FS_CardinalityType
<1>2. ASSUME NEW n \in Nat, NEW s \in Sized(n + 1), s # {}
      PROVE  s \ {Pick(s)} \in Sized(n)
  <2>1. Pick(s) \in s /\ IsFiniteSet(s)
    BY <1>1, <1>2, PickIsElement
  <2>2. Cardinality(s \ {Pick(s)}) = Cardinality(s) - 1
    BY <2>1, FS_RemoveElement
  <2> QED
    BY <1>1, <1>2, <2>2
<1>3. 0 \in T
  <2>1. \A s \in Sized(0) : s = {}
    BY <1>1, FS_EmptySet
  <2> DEFINE it == [s \in Sized(0) |-> 0]
  <2>2. it = [s \in Sized(0) |-> Addend(f, it, s)]
    BY <2>1 DEF Addend
  <2> QED
    BY <2>2
<1>4. ASSUME NEW n \in Nat, n \in T PROVE n + 1 \in T
  <2>1. PICK it : it = [s \in Sized(n) |-> Addend(f, it, s)]
    BY <1>4
  <2> DEFINE more == [s \in Sized(n + 1) |-> Addend(f, it, s)]
  <2>2. \A s \in Sized(n) : s \in Sized(n + 1)
    BY <1>1
  <2>3. \A s \in Sized(n) : more[s] = it[s]
    BY <2>1, <2>2, Zenon
  <2>4. \A s \in Sized(n + 1) : Addend(f, more, s) = Addend(f, it, s)
    <3>1. \A s \in Sized(n + 1) : s # {} => more[s \ {Pick(s)}] = it[s \ {Pick(s)}]
      BY <1>2, <2>3
    <3> HIDE DEF more, Sized
    <3> QED
      BY <3>1 DEF Addend
  <2>5. more = [s \in Sized(n + 1) |-> Addend(f, more, s)]
    BY <2>4
  <2>6. \E new : new = [s \in Sized(n + 1) |-> Addend(f, new, s)]
    <3> HIDE DEF more, Sized
    <3> QED
      BY <2>5
  <2> QED
    BY <2>6
<1>5. Cardinality(S) \in T
  <2>1. Nat \subseteq T
    <3> HIDE DEF T
    <3> QED
      BY <1>3, <1>4, Induction
  <2> QED
    BY <1>1, <2>1
<1>6. Sized(Cardinality(S)) = SUBSET S
  BY FS_Subset, <1>1
<1> QED
  BY <1>5, <1>6

(* So it has the values that its definition says. *)
LEMMA IteratedUnfolds ==
  ASSUME NEW f, NEW S, IsFiniteSet(S), NEW s \in SUBSET S
  PROVE  Iterated(f, S)[s] = Addend(f, Iterated(f, S), s)
<1>1. Iterated(f, S) = [t \in SUBSET S |-> Addend(f, Iterated(f, S), t)]
  BY IterationExists, Zenon DEF Iterated
<1> QED
  BY <1>1, Zenon

(* Those values do not depend on the set that it was started on. *)
LEMMA IteratedOnSubset ==
  ASSUME NEW f, NEW S, IsFiniteSet(S), NEW R \in SUBSET S
  PROVE  Iterated(f, S)[R] = Iterated(f, R)[R]
<1> DEFINE U == {s \in SUBSET R : Iterated(f, S)[s] = Iterated(f, R)[s]}
<1>1. IsFiniteSet(R)
  BY FS_Subset
<1>2. ASSUME NEW s \in SUBSET R, \A x \in s : s \ {x} \in U
      PROVE  s \in U
  <2>1. /\ Iterated(f, S)[s] = Addend(f, Iterated(f, S), s)
        /\ Iterated(f, R)[s] = Addend(f, Iterated(f, R), s)
    BY <1>1, IteratedUnfolds
  <2>2. s # {} => Iterated(f, S)[s \ {Pick(s)}] = Iterated(f, R)[s \ {Pick(s)}]
    BY <1>2, PickIsElement
  <2> QED
    BY <2>1, <2>2 DEF Addend
<1>3. SUBSET R \subseteq U
  <2> HIDE DEF U
  <2> QED
    BY <1>1, <1>2, FiniteInduction
<1> QED
  BY <1>3

(* The sum over no element is zero. *)
LEMMA SumOfNone == \A f : SumFunctionOnSet(f, {}) = 0
<1> TAKE f
<1>1. IsFiniteSet({})
  BY FS_EmptySet
<1>2. Iterated(f, {})[{}] = Addend(f, Iterated(f, {}), {})
  BY <1>1, IteratedUnfolds
<1> QED
  BY <1>2, SumIsIterated DEF Addend

(* The sum is what the choice picks and the sum of the others. *)
LEMMA SumPicks ==
  ASSUME NEW f, NEW S, IsFiniteSet(S), S # {}
  PROVE  SumFunctionOnSet(f, S) = f[Pick(S)] + SumFunctionOnSet(f, S \ {Pick(S)})
<1>1. Iterated(f, S)[S] = f[Pick(S)] + Iterated(f, S)[S \ {Pick(S)}]
  BY IteratedUnfolds, S \in SUBSET S DEF Addend
<1>2. Iterated(f, S)[S \ {Pick(S)}] = Iterated(f, S \ {Pick(S)})[S \ {Pick(S)}]
  BY IteratedOnSubset, S \ {Pick(S)} \in SUBSET S
<1> QED
  BY <1>1, <1>2, SumIsIterated

(* The sum of integers is an integer. *)
LEMMA SumIsInt ==
  ASSUME NEW f, NEW S, IsFiniteSet(S), \A x \in S : f[x] \in Int
  PROVE  SumFunctionOnSet(f, S) \in Int
<1> DEFINE U == {s \in SUBSET S : SumFunctionOnSet(f, s) \in Int}
<1>1. ASSUME NEW s \in SUBSET S, \A x \in s : s \ {x} \in U
      PROVE  s \in U
  <2>1. CASE s = {}
    BY <2>1, SumOfNone
  <2>2. CASE s # {}
    <3>1. Pick(s) \in s /\ IsFiniteSet(s)
      BY <2>2, PickIsElement, FS_Subset
    <3>2. SumFunctionOnSet(f, s) = f[Pick(s)] + SumFunctionOnSet(f, s \ {Pick(s)})
      BY <2>2, <3>1, SumPicks
    <3>3. f[Pick(s)] \in Int /\ SumFunctionOnSet(f, s \ {Pick(s)}) \in Int
      BY <1>1, <3>1
    <3> QED
      BY <3>2, <3>3
  <2> QED
    BY <2>1, <2>2
<1>2. SUBSET S \subseteq U
  <2> HIDE DEF U
  <2> QED
    BY <1>1, FiniteInduction
<1> QED
  BY <1>2

(* Any element may be taken out of the sum. *)
LEMMA SumOfOneLess ==
  ASSUME NEW f, NEW S, IsFiniteSet(S), \A x \in S : f[x] \in Int, NEW x \in S
  PROVE  SumFunctionOnSet(f, S) = f[x] + SumFunctionOnSet(f, S \ {x})
<1> DEFINE U == {s \in SUBSET S : \A y \in s :
                   SumFunctionOnSet(f, s) = f[y] + SumFunctionOnSet(f, s \ {y})}
<1>1. \A s \in SUBSET S : IsFiniteSet(s) /\ SumFunctionOnSet(f, s) \in Int
  <2> TAKE s \in SUBSET S
  <2>1. IsFiniteSet(s) /\ \A y \in s : f[y] \in Int
    BY FS_Subset
  <2> QED
    BY <2>1, SumIsInt
<1>2. ASSUME NEW s \in SUBSET S, \A y \in s : s \ {y} \in U
      PROVE  s \in U
  <2> SUFFICES ASSUME NEW y \in s, y # Pick(s)
               PROVE  SumFunctionOnSet(f, s) = f[y] + SumFunctionOnSet(f, s \ {y})
    <3>1. s # {} =>
            SumFunctionOnSet(f, s) = f[Pick(s)] + SumFunctionOnSet(f, s \ {Pick(s)})
      BY <1>1, SumPicks
    <3> QED
      BY <3>1
  <2> DEFINE p == Pick(s)
             rest == SumFunctionOnSet(f, (s \ {p}) \ {y})
  <2>1. p \in s /\ IsFiniteSet(s)
    BY <1>1, PickIsElement
  <2>2. SumFunctionOnSet(f, s) = f[p] + SumFunctionOnSet(f, s \ {p})
    BY <2>1, SumPicks
  <2>3. SumFunctionOnSet(f, s \ {p}) = f[y] + rest
    BY <1>2, <2>1
  <2>4. SumFunctionOnSet(f, s \ {y}) = f[p] + rest
    <3>1. SumFunctionOnSet(f, s \ {y}) = f[p] + SumFunctionOnSet(f, (s \ {y}) \ {p})
      BY <1>2, <2>1
    <3>2. (s \ {y}) \ {p} = (s \ {p}) \ {y}
      OBVIOUS
    <3> QED
      BY <3>1, <3>2
  <2>5. f[p] \in Int /\ f[y] \in Int /\ rest \in Int
    BY <1>1, <2>1
  <2> HIDE DEF p, rest
  <2> QED
    BY <2>2, <2>3, <2>4, <2>5
<1>3. SUBSET S \subseteq U
  <2> HIDE DEF U
  <2> QED
    BY <1>2, FiniteInduction
<1> QED
  BY <1>3

(* An element more adds its value. *)
LEMMA SumOfOneMore ==
  ASSUME NEW f, NEW S, IsFiniteSet(S), NEW x, x \notin S, \A y \in S \cup {x} : f[y] \in Int
  PROVE  SumFunctionOnSet(f, S \cup {x}) = f[x] + SumFunctionOnSet(f, S)
<1>1. IsFiniteSet(S \cup {x})
  BY FS_AddElement
<1>2. (S \cup {x}) \ {x} = S
  OBVIOUS
<1> QED
  BY <1>1, <1>2, SumOfOneLess

(* Larger values have a larger sum. *)
LEMMA SumIsMonotone ==
  ASSUME NEW f, NEW g, NEW S, IsFiniteSet(S),
         \A x \in S : f[x] \in Int /\ g[x] \in Int /\ f[x] <= g[x]
  PROVE  SumFunctionOnSet(f, S) <= SumFunctionOnSet(g, S)
<1> DEFINE U == {s \in SUBSET S : SumFunctionOnSet(f, s) <= SumFunctionOnSet(g, s)}
<1>1. \A s \in SUBSET S : /\ IsFiniteSet(s)
                          /\ SumFunctionOnSet(f, s) \in Int /\ SumFunctionOnSet(g, s) \in Int
  <2> TAKE s \in SUBSET S
  <2>1. IsFiniteSet(s) /\ \A y \in s : f[y] \in Int /\ g[y] \in Int
    BY FS_Subset
  <2> QED
    BY <2>1, SumIsInt
<1>2. ASSUME NEW s \in SUBSET S, \A x \in s : s \ {x} \in U
      PROVE  s \in U
  <2>1. CASE s = {}
    BY <2>1, SumOfNone
  <2>2. CASE s # {}
    <3>1. PICK x \in s : TRUE
      BY <2>2
    <3>2. /\ SumFunctionOnSet(f, s) = f[x] + SumFunctionOnSet(f, s \ {x})
          /\ SumFunctionOnSet(g, s) = g[x] + SumFunctionOnSet(g, s \ {x})
      BY <1>1, SumOfOneLess
    <3>3. SumFunctionOnSet(f, s \ {x}) <= SumFunctionOnSet(g, s \ {x})
      BY <1>2
    <3>4. s \ {x} \in SUBSET S /\ x \in S
      OBVIOUS
    <3> QED
      BY <1>1, <3>2, <3>3, <3>4
  <2> QED
    BY <2>1, <2>2
<1>3. SUBSET S \subseteq U
  <2> HIDE DEF U
  <2> QED
    BY <1>2, FiniteInduction
<1> QED
  BY <1>3

(* Only the values on the set count. *)
LEMMA SumIsDetermined ==
  ASSUME NEW f, NEW g, NEW S, IsFiniteSet(S), \A x \in S : f[x] \in Int /\ f[x] = g[x]
  PROVE  SumFunctionOnSet(f, S) = SumFunctionOnSet(g, S)
<1>1. /\ SumFunctionOnSet(f, S) <= SumFunctionOnSet(g, S)
      /\ SumFunctionOnSet(g, S) <= SumFunctionOnSet(f, S)
  BY SumIsMonotone
<1>2. SumFunctionOnSet(f, S) \in Int /\ SumFunctionOnSet(g, S) \in Int
  BY SumIsInt
<1> QED
  BY <1>1, <1>2

(* The sum of what two functions add up to is the sum of their sums. *)
LEMMA SumIsAdditive ==
  ASSUME NEW f, NEW g, NEW h, NEW S, IsFiniteSet(S),
         \A x \in S : f[x] \in Int /\ g[x] \in Int /\ h[x] = f[x] + g[x]
  PROVE  SumFunctionOnSet(h, S) = SumFunctionOnSet(f, S) + SumFunctionOnSet(g, S)
<1> DEFINE U == {s \in SUBSET S :
                   SumFunctionOnSet(h, s) = SumFunctionOnSet(f, s) + SumFunctionOnSet(g, s)}
<1>1. \A s \in SUBSET S : /\ IsFiniteSet(s)
                          /\ SumFunctionOnSet(f, s) \in Int /\ SumFunctionOnSet(g, s) \in Int
  <2> TAKE s \in SUBSET S
  <2>1. IsFiniteSet(s) /\ \A y \in s : f[y] \in Int /\ g[y] \in Int
    BY FS_Subset
  <2> QED
    BY <2>1, SumIsInt
<1>2. ASSUME NEW s \in SUBSET S, \A x \in s : s \ {x} \in U
      PROVE  s \in U
  <2>1. CASE s = {}
    BY <2>1, SumOfNone
  <2>2. CASE s # {}
    <3>1. PICK x \in s : TRUE
      BY <2>2
    <3>2. \A y \in s : f[y] \in Int /\ g[y] \in Int /\ h[y] \in Int
      OBVIOUS
    <3>3. /\ SumFunctionOnSet(f, s) = f[x] + SumFunctionOnSet(f, s \ {x})
          /\ SumFunctionOnSet(g, s) = g[x] + SumFunctionOnSet(g, s \ {x})
          /\ SumFunctionOnSet(h, s) = h[x] + SumFunctionOnSet(h, s \ {x})
      BY <1>1, <3>2, SumOfOneLess
    <3>4. SumFunctionOnSet(h, s \ {x}) =
            SumFunctionOnSet(f, s \ {x}) + SumFunctionOnSet(g, s \ {x})
      BY <1>2
    <3>5. s \ {x} \in SUBSET S /\ x \in S
      OBVIOUS
    <3>6. h[x] = f[x] + g[x] /\ f[x] \in Int /\ g[x] \in Int
      BY <3>5
    <3> QED
      BY <1>1, <3>3, <3>4, <3>5, <3>6
  <2> QED
    BY <2>1, <2>2
<1>3. SUBSET S \subseteq U
  <2> HIDE DEF U
  <2> QED
    BY <1>2, FiniteInduction
<1> QED
  BY <1>3

(* Fewer naturals have a smaller sum. *)
LEMMA SumOnSubset ==
  ASSUME NEW f, NEW S, IsFiniteSet(S), \A x \in S : f[x] \in Nat, NEW R \in SUBSET S
  PROVE  SumFunctionOnSet(f, R) <= SumFunctionOnSet(f, S)
<1> DEFINE U == {s \in SUBSET S : \A t \in SUBSET s :
                   SumFunctionOnSet(f, t) <= SumFunctionOnSet(f, s)}
<1>1. \A s \in SUBSET S : IsFiniteSet(s) /\ SumFunctionOnSet(f, s) \in Int
  <2> TAKE s \in SUBSET S
  <2>1. IsFiniteSet(s) /\ \A y \in s : f[y] \in Int
    BY FS_Subset
  <2> QED
    BY <2>1, SumIsInt
<1>2. ASSUME NEW s \in SUBSET S, \A x \in s : s \ {x} \in U
      PROVE  s \in U
  <2> SUFFICES ASSUME NEW t \in SUBSET s
               PROVE  SumFunctionOnSet(f, t) <= SumFunctionOnSet(f, s)
    OBVIOUS
  <2>1. CASE t = s
    BY <1>1, <2>1
  <2>2. ASSUME NEW x \in s \ t
        PROVE  SumFunctionOnSet(f, t) <= SumFunctionOnSet(f, s)
    <3>1. SumFunctionOnSet(f, s) = f[x] + SumFunctionOnSet(f, s \ {x})
      <4>1. IsFiniteSet(s) /\ \A y \in s : f[y] \in Int
        BY <1>1
      <4> QED
        BY <4>1, SumOfOneLess
    <3>2. SumFunctionOnSet(f, t) <= SumFunctionOnSet(f, s \ {x})
      <4>1. t \in SUBSET (s \ {x}) /\ s \ {x} \in U
        BY <1>2
      <4> QED
        BY <4>1
    <3>3. /\ f[x] \in Nat /\ SumFunctionOnSet(f, t) \in Int
          /\ SumFunctionOnSet(f, s \ {x}) \in Int
      BY <1>1
    <3> QED
      BY <3>1, <3>2, <3>3
  <2> QED
    BY <2>1, <2>2
<1>3. SUBSET S \subseteq U
  <2> HIDE DEF U
  <2> QED
    BY <1>2, FiniteInduction
<1> QED
  BY <1>3

(* The sum of naturals is a natural. *)
LEMMA SumIsNat ==
  ASSUME NEW f, NEW S, IsFiniteSet(S), \A x \in S : f[x] \in Nat
  PROVE  SumFunctionOnSet(f, S) \in Nat
<1>1. SumFunctionOnSet(f, S) \in Int
  BY SumIsInt
<1>2. SumFunctionOnSet(f, {}) <= SumFunctionOnSet(f, S)
  BY SumOnSubset
<1> QED
  BY <1>1, <1>2, SumOfNone

===============================================================================
