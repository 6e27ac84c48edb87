-------------------------- MODULE CapsSchedulerProofs --------------------------
(***************************************************************************)
(* Theorems about CapsScheduler: it is a Scheduler, and the bound on what  *)
(* an Agent is overtaken by under CAPS, for any demands, samples, contexts *)
(* and clock.                                                              *)
(***************************************************************************)
EXTENDS CapsScheduler, SchedulerProofs

(* Every step of the scheduler with its policies is a step of the scheduler.  *)
LEMMA CapsStepIsStep == [CapsNext]_allVars => [Next]_vars
<1>1. ASSUME NEW w \in Workers, Take(w) \/ Rest(w) PROVE Next
  BY <1>1 DEF Take, Rest, Next, WorkerStep
<1>2. ASSUME NEW c \in Clients, Submitting(c) \/ Accepted(c) \/ Otherwise(c) PROVE Next
  BY <1>2 DEF Submitting, Accepted, Otherwise, Next, ClientStep
<1>3. ASSUME TimePasses \/ UNCHANGED allVars PROVE UNCHANGED vars
  BY <1>3 DEF TimePasses, allVars
<1> QED
  BY <1>1, <1>2, <1>3 DEF CapsNext

\* With the policies, the clock and the registry, the Scheduler does nothing
\* that it does not do when the policy may choose any ready job.
THEOREM CapsImplementsScheduler == CapsSpec => Spec
BY CapsStepIsStep, PTL DEF CapsSpec, CapsInit, Spec

\* The inductive invariant of the Scheduler, and with it each of its invariants, holds
\* with the policies too.
THEOREM CapsSafety == CapsSpec => []SafetyInv
BY CapsImplementsScheduler, SchedulerSafety, PTL

-----------------------------------------------------------------------------
(* Waiting times *)

\* The smaller and the larger of two numbers.
LEMMA MinOfTwo == \A x, y \in Int : Min({x, y}) = IF x <= y THEN x ELSE y
<1> TAKE x, y \in Int
<1>1. Min({x, y}) \in {x, y} /\ Min({x, y}) <= x /\ Min({x, y}) <= y
  <2>1. \E m \in {x, y} : \A n \in {x, y} : m <= n
    BY x <= y \/ y <= x
  <2> QED
    BY <2>1, Zenon DEF Min
<1> QED
  BY <1>1

LEMMA MaxOfTwo == \A x, y \in Int : Max({x, y}) = IF x >= y THEN x ELSE y
<1> TAKE x, y \in Int
<1>1. Max({x, y}) \in {x, y} /\ Max({x, y}) >= x /\ Max({x, y}) >= y
  <2>1. \E m \in {x, y} : \A n \in {x, y} : m >= n
    BY x >= y \/ y >= x
  <2> QED
    BY <2>1, Zenon DEF Max
<1> QED
  BY <1>1

\* No waiting time passes the bonus that it can earn.
CapsTyping ==
  /\ policy \in {"FIFO", "CAPS"}
  /\ asked \in [Clients -> 0 .. MaxBonus]
  /\ waited \in [Agents -> 0 .. MaxBonus]

LEMMA InitCapsTyping == CapsInit => CapsTyping
BY DEF CapsInit, CapsTyping, MaxBonus

\* What a sum of waiting times comes to at the most.
LEMMA CappedTime ==
  ASSUME NEW t \in Nat PROVE Min({t, MaxBonus}) \in 0 .. MaxBonus
<1>1. MaxBonus \in Int /\ t \in Int
  BY DEF MaxBonus
<1>2. Min({t, MaxBonus}) = IF t <= MaxBonus THEN t ELSE MaxBonus
  BY <1>1, MinOfTwo, Zenon
<1> QED
  BY <1>2 DEF MaxBonus

LEMMA NextCapsTyping ==
  ASSUME CapsTyping, SafetyInv, [CapsNext]_allVars
  PROVE  CapsTyping'
<1> USE DEF CapsTyping
<1>1. ASSUME NEW w \in Workers, Take(w) \/ Rest(w) PROVE CapsTyping'
  <2>1. Waiting /\ UNCHANGED <<policy, asked>>
    BY <1>1 DEF Take, Rest
  <2> QED
    BY <2>1 DEF Waiting, MaxBonus
<1>2. ASSUME NEW c \in Clients, Submitting(c) \/ Otherwise(c) PROVE CapsTyping'
  BY <1>2 DEF Submitting, Otherwise, MaxBonus
<1>3. ASSUME NEW c \in Clients, Accepted(c) PROVE CapsTyping'
  <2>1. /\ waited' = [waited EXCEPT ![submission[c].agent] = asked[c]]
        /\ asked' = [asked EXCEPT ![c] = 0]
        /\ policy' = policy
    BY <1>3 DEF Accepted
  <2>2. asked' \in [Clients -> 0 .. MaxBonus]
    BY <2>1 DEF MaxBonus
  <2>3. waited' \in [Agents -> 0 .. MaxBonus]
    BY <2>1
  <2> QED
    BY <2>1, <2>2, <2>3
<1>4. CASE TimePasses
  <2>1. PICK s \in Passing :
          /\ asked' = [c \in Clients |-> IF client[c] = "submit" THEN Min({asked[c] + s, MaxBonus})
                                         ELSE 0]
          /\ waited' = [a \in Agents |-> IF phase[a] = "QUEUED" THEN Min({waited[a] + s, MaxBonus})
                                         ELSE 0]
    BY <1>4, Zenon DEF TimePasses
  <2> DEFINE later(t) == Min({t + s, MaxBonus})
  <2>2. \A t \in 0 .. MaxBonus : later(t) \in 0 .. MaxBonus
    <3> TAKE t \in 0 .. MaxBonus
    <3>1. t + s \in Nat
      BY TimePassesForward DEF MaxBonus
    <3> QED
      BY <3>1, CappedTime, Zenon
  <2>3. policy' = policy
    BY <1>4 DEF TimePasses
  <2>4. /\ asked' = [c \in Clients |-> IF client[c] = "submit" THEN later(asked[c]) ELSE 0]
        /\ waited' = [a \in Agents |-> IF phase[a] = "QUEUED" THEN later(waited[a]) ELSE 0]
    BY <2>1, Zenon
  <2> HIDE DEF later
  <2>5. 0 \in 0 .. MaxBonus
    BY DEF MaxBonus
  <2> QED
    BY <2>2, <2>3, <2>4, <2>5
<1>5. CASE UNCHANGED allVars
  BY <1>5 DEF allVars
<1> QED
  BY <1>1, <1>2, <1>3, <1>4, <1>5 DEF CapsNext

\* The clock, the waiting times and the policy keep their types in every step.
THEOREM CapsTypes == CapsSpec => []CapsTyping
<1>1. CapsTyping /\ SafetyInv /\ [CapsNext]_allVars => CapsTyping'
  BY NextCapsTyping
<1> QED
  BY <1>1, InitCapsTyping, CapsSafety, PTL DEF CapsSpec

-----------------------------------------------------------------------------
(* The pressure penalty *)

\* Pressure is clamped to a percentage.
LEMMA LevelIsPercentage ==
  ASSUME NEW sample \in Samples, NEW r \in Resources
  PROVE  PressureLevel(sample[r]) \in 0 .. 100
<1>1. sample[r].some \in 0 .. 100 /\ sample[r].full \in 0 .. 100
  BY SampleShape
<1> DEFINE n == sample[r].some + FullWeight * sample[r].full
<1>2. n \in Nat
  <2>1. \A x, y \in 0 .. 100 : x + 2 * y \in Nat
    OBVIOUS
  <2> QED
    BY <1>1, <2>1, Zenon DEF FullWeight
<1>3. Min({n, 100}) = IF n <= 100 THEN n ELSE 100
  <2>1. n \in Int /\ 100 \in Int
    BY <1>2
  <2> QED
    BY <2>1, MinOfTwo, Zenon
<1>4. PressureLevel(sample[r]) = Min({n, 100})
  BY Zenon DEF PressureLevel
<1> QED
  BY <1>2, <1>3, <1>4

\* Under the same pressure, the charges for two demands differ by no more than the
\* demands do.
LEMMA ChargeBound ==
  ASSUME NEW l \in 0 .. 100, NEW d \in 0 .. 100, NEW e \in 0 .. 100
  PROVE  /\ (l * d) \div 100 \in Nat
         /\ (l * d) \div 100 <= (l * e) \div 100 + Max({d - e, 0})
<1>1. l * d \in Nat /\ l * e \in Nat
  OBVIOUS
<1>2. CASE d <= e
  <2>1. l * d <= l * e
    BY <1>2
  <2>2. Max({d - e, 0}) = 0
    BY <1>2, MaxOfTwo
  <2> QED
    BY <1>1, <2>1, <2>2
<1>3. CASE e < d
  <2>1. Max({d - e, 0}) = d - e
    BY <1>3, MaxOfTwo
  <2>2. l * d = l * e + l * (d - e)
    OBVIOUS
  <2>3. l * (d - e) <= 100 * (d - e)
    BY <1>3
  <2>4. l * d <= l * e + 100 * (d - e)
    BY <1>1, <2>2, <2>3
  <2> QED
    BY <1>1, <2>1, <2>4
<1> QED
  BY <1>2, <1>3

LEMMA ResourcesAreFinite == IsFiniteSet(Resources)
<1>1. IsFiniteSet({"CPU"}) /\ IsFiniteSet({"Memory"}) /\ IsFiniteSet({"IO"})
  BY FS_Singleton
<1>2. Resources = ({"CPU"} \cup {"Memory"}) \cup {"IO"}
  BY DEF Resources
<1> QED
  BY <1>1, <1>2, FS_Union

\* What the pressure can speak for b and against a.
DemandLead(b, a) == SumFunction([r \in Resources |-> Max({Demand[a][r] - Demand[b][r], 0})])

\* The penalties of two Agents differ by no more than that.
LEMMA PenaltyBound ==
  ASSUME NEW sample \in Samples, NEW a \in Agents, NEW b \in Agents
  PROVE  /\ PressurePenalty(a, sample) \in Nat
         /\ DemandLead(b, a) \in Nat
         /\ PressurePenalty(a, sample) <= PressurePenalty(b, sample) + DemandLead(b, a)
<1> DEFINE L(r) == PressureLevel(sample[r])
           f(x) == [r \in Resources |-> (L(r) * Demand[x][r]) \div 100]
           g == [r \in Resources |-> Max({Demand[a][r] - Demand[b][r], 0})]
           h == [r \in Resources |-> f(b)[r] + g[r]]
<1>1. ASSUME NEW r \in Resources
      PROVE  /\ f(a)[r] \in Nat /\ f(b)[r] \in Nat /\ g[r] \in Nat
             /\ h[r] = f(b)[r] + g[r] /\ f(a)[r] <= h[r]
  <2>1. L(r) \in 0 .. 100 /\ Demand[a][r] \in 0 .. 100 /\ Demand[b][r] \in 0 .. 100
    BY LevelIsPercentage, DemandShape
  <2>2. Max({Demand[a][r] - Demand[b][r], 0}) \in Nat
    <3>1. \A x, y \in 0 .. 100 : Max({x - y, 0}) \in Nat
      BY MaxOfTwo
    <3> QED
      BY <2>1, <3>1, Zenon
  <2>3. /\ f(a)[r] = (L(r) * Demand[a][r]) \div 100
        /\ f(b)[r] = (L(r) * Demand[b][r]) \div 100
        /\ g[r] = Max({Demand[a][r] - Demand[b][r], 0})
        /\ h[r] = f(b)[r] + g[r]
    OBVIOUS
  <2> HIDE DEF f, g, h, L
  <2>4. /\ (L(r) * Demand[a][r]) \div 100 \in Nat /\ (L(r) * Demand[b][r]) \div 100 \in Nat
        /\ (L(r) * Demand[a][r]) \div 100
             <= (L(r) * Demand[b][r]) \div 100 + Max({Demand[a][r] - Demand[b][r], 0})
    BY <2>1, ChargeBound
  <2> QED
    BY <2>2, <2>3, <2>4
<1>2. /\ PressurePenalty(a, sample) = SumFunctionOnSet(f(a), Resources)
      /\ PressurePenalty(b, sample) = SumFunctionOnSet(f(b), Resources)
      /\ DemandLead(b, a) = SumFunctionOnSet(g, Resources)
  <2>1. DOMAIN f(a) = Resources /\ DOMAIN f(b) = Resources /\ DOMAIN g = Resources
    OBVIOUS
  <2> QED
    BY <2>1, Zenon DEF PressurePenalty, DemandLead, SumFunction
<1> HIDE DEF f, g, h
<1>3. /\ SumFunctionOnSet(f(a), Resources) \in Nat /\ SumFunctionOnSet(f(b), Resources) \in Nat
      /\ SumFunctionOnSet(g, Resources) \in Nat
  BY <1>1, ResourcesAreFinite, SumIsNat
<1>4. SumFunctionOnSet(f(a), Resources) <= SumFunctionOnSet(h, Resources)
  <2>1. \A r \in Resources : f(a)[r] \in Int /\ h[r] \in Int /\ f(a)[r] <= h[r]
    BY <1>1
  <2> QED
    BY <2>1, ResourcesAreFinite, SumIsMonotone
<1>5. SumFunctionOnSet(h, Resources) =
        SumFunctionOnSet(f(b), Resources) + SumFunctionOnSet(g, Resources)
  <2>1. \A r \in Resources : f(b)[r] \in Int /\ g[r] \in Int /\ h[r] = f(b)[r] + g[r]
    BY <1>1
  <2> QED
    BY <2>1, ResourcesAreFinite, SumIsAdditive
<1> QED
  BY <1>2, <1>3, <1>4, <1>5

-----------------------------------------------------------------------------
(* The affinity benefit *)

\* The values of a function on a finite set are finitely many.
LEMMA ValuesAreFinite ==
  ASSUME NEW S, IsFiniteSet(S), NEW f, f = [x \in S |-> f[x]]
  PROVE  IsFiniteSet({f[x] : x \in S})
<1> DEFINE T == {f[x] : x \in S}
<1>1. f \in Surjection(S, T)
  BY DEF Surjection
<1> QED
  BY <1>1, FS_Surjection

\* The fields of a reference.
LEMMA RefTypes ==
  ASSUME NEW r \in Contexts
  PROVE  r.key \in Nat /\ r.digest \in Nat /\ r.size \in Nat
BY ContextsAreRefs

\* What the registry has of a known context is a size.
LEMMA SizeIsNat ==
  ASSUME NEW refs \in SUBSET Contexts, NEW i, NEW r \in refs, Identity(r) = i
  PROVE  SizeIn(refs, i) \in Nat
<1> DEFINE A == {s \in refs : Identity(s) = i}
           f == [s \in A |-> s.size]
           T == {f[s] : s \in A}
<1>1. IsFiniteSet(A)
  <2>1. A \in SUBSET Contexts
    OBVIOUS
  <2> QED
    BY <2>1, ContextsAreRefs, FS_Subset
<1>2. IsFiniteSet(T)
  BY <1>1, ValuesAreFinite
<1>3. T = {s.size : s \in A}
  OBVIOUS
<1>4. T \in SUBSET Nat
  BY RefTypes
<1>5. T # {}
  OBVIOUS
<1>6. SizeIn(refs, i) = Max(T)
  BY <1>3, Zenon DEF SizeIn
<1> HIDE DEF T
<1>7. Max(T) \in T
  <2>1. \E n \in T : \A m \in T : n >= m
    BY <1>2, <1>4, <1>5, GreatestNatural
  <2> QED
    BY <2>1, Zenon DEF Max
<1> QED
  BY <1>4, <1>6, <1>7

\* Normalized references are finitely many, each with a size.
LEMMA NormalizedSizes ==
  ASSUME NEW refs \in SUBSET Contexts
  PROVE  /\ IsFiniteSet(NormalizeRefs(refs))
         /\ \A r \in NormalizeRefs(refs) : r.size \in Nat
<1> DEFINE aliases(i) == {r \in refs : Identity(r) = i}
           id == [r \in refs |-> Identity(r)]
           I == {id[r] : r \in refs}
           m == [i \in I |-> Merged(aliases(i))]
<1>1. IsFiniteSet(refs)
  BY ContextsAreRefs, FS_Subset
<1>2. IsFiniteSet(I)
  BY <1>1, ValuesAreFinite
<1>3. I = {Identity(r) : r \in refs}
  OBVIOUS
<1>4. NormalizeRefs(refs) = {Merged(aliases(i)) : i \in I}
  BY <1>3, Zenon DEF NormalizeRefs
<1>5. NormalizeRefs(refs) = {m[i] : i \in I}
  <2> HIDE DEF I, aliases
  <2> QED
    BY <1>4
<1>6. IsFiniteSet({m[i] : i \in I})
  <2> HIDE DEF I
  <2> QED
    BY <1>2, ValuesAreFinite
<1>7. ASSUME NEW i \in I PROVE Merged(aliases(i)).size \in Nat
  <2> DEFINE any == CHOOSE r \in aliases(i) : TRUE
  <2>1. any \in aliases(i)
    OBVIOUS
  <2>2. Merged(aliases(i)).size = SizeIn(aliases(i), Identity(any))
    BY DEF Merged
  <2>3. aliases(i) \in SUBSET Contexts
    OBVIOUS
  <2> HIDE DEF any, aliases
  <2> QED
    BY <2>1, <2>2, <2>3, SizeIsNat
<1> QED
  BY <1>4, <1>5, <1>6, <1>7

\* The weight times a fraction is at most the weight.
LEMMA QuotientBound ==
  ASSUME NEW n \in Nat, NEW q \in Nat, q # 0, n <= q
  PROVE  (AffinityWeight * n) \div q \in 0 .. AffinityWeight
<1>1. 35 * n \in Nat /\ 35 * n <= 35 * q
  OBVIOUS
<1>2. \A x \in Nat : x <= 35 * q => x \div q \in 0 .. 35
  OBVIOUS
<1> QED
  BY <1>1, <1>2 DEF AffinityWeight

\* The fraction of the requested bytes that are warm is at most one.
LEMMA AffinityBound ==
  ASSUME NEW registry \in SUBSET Contexts, NEW refs \in SUBSET Contexts
  PROVE  /\ WeightedAffinity(AffinityWeight, registry, refs) \in 0 .. AffinityWeight
         /\ refs = {} => WeightedAffinity(AffinityWeight, registry, refs) = 0
<1> DEFINE N == NormalizeRefs(refs)
           K == {s \in N : Known(registry, s)}
           f == [r \in N |-> r.size]
           g == [r \in K |-> Reusable(registry, r)]
<1>1. IsFiniteSet(N) /\ \A r \in N : r.size \in Nat
  BY NormalizedSizes
<1>2. IsFiniteSet(K) /\ K \in SUBSET N
  BY <1>1, FS_Subset
<1>3. RequestedBytes(refs) = SumFunctionOnSet(f, N)
  <2>1. DOMAIN f = N
    OBVIOUS
  <2> QED
    BY <2>1, Zenon DEF RequestedBytes, SumFunction
<1>4. ReusableBytes(registry, refs) = SumFunctionOnSet(g, K)
  <2>1. DOMAIN g = K
    OBVIOUS
  <2> QED
    BY <2>1, Zenon DEF ReusableBytes, SumFunction
<1>5. \A r \in N : f[r] = r.size
  OBVIOUS
<1>6. ASSUME NEW r \in K PROVE g[r] \in Nat /\ f[r] \in Nat /\ g[r] <= f[r]
  <2>1. r.size \in Nat /\ f[r] = r.size
    BY <1>1, <1>2
  <2>2. SizeIn(registry, Identity(r)) \in Nat
    <3>1. PICK s \in registry : Identity(s) = Identity(r)
      BY DEF Known
    <3> HIDE DEF K
    <3> QED
      BY <3>1, SizeIsNat
  <2>3. \A x, y \in Nat : Min({x, y}) \in Nat /\ Min({x, y}) <= x
    BY MinOfTwo
  <2>4. g[r] = Min({r.size, SizeIn(registry, Identity(r))})
    BY DEF Reusable
  <2> QED
    BY <2>1, <2>2, <2>3, <2>4
<1> HIDE DEF N, K, f, g
<1>7. SumFunctionOnSet(g, K) \in Nat
  BY <1>2, <1>6, SumIsNat
<1>8. SumFunctionOnSet(f, N) \in Nat /\ SumFunctionOnSet(f, K) \in Nat
  <2>1. (\A r \in N : f[r] \in Nat) /\ (\A r \in K : f[r] \in Nat)
    BY <1>1, <1>5, <1>6
  <2> QED
    BY <1>1, <1>2, <2>1, SumIsNat
<1>9. SumFunctionOnSet(g, K) <= SumFunctionOnSet(f, K)
  <2>1. \A r \in K : g[r] \in Int /\ f[r] \in Int /\ g[r] <= f[r]
    BY <1>6
  <2> QED
    BY <1>2, <2>1, SumIsMonotone
<1>10. SumFunctionOnSet(f, K) <= SumFunctionOnSet(f, N)
  <2>1. \A r \in N : f[r] \in Nat
    BY <1>1, <1>5
  <2> QED
    BY <1>1, <1>2, <2>1, SumOnSubset
<1>11. WeightedAffinity(AffinityWeight, registry, refs) \in 0 .. AffinityWeight
  <2>1. CASE RequestedBytes(refs) = 0
    BY <2>1 DEF WeightedAffinity, AffinityWeight
  <2>2. CASE RequestedBytes(refs) # 0
    <3>1. /\ ReusableBytes(registry, refs) \in Nat /\ RequestedBytes(refs) \in Nat
          /\ ReusableBytes(registry, refs) <= RequestedBytes(refs)
      BY <1>3, <1>4, <1>7, <1>8, <1>9, <1>10
    <3>2. (AffinityWeight * ReusableBytes(registry, refs)) \div RequestedBytes(refs)
            \in 0 .. AffinityWeight
      BY <2>2, <3>1, QuotientBound
    <3> QED
      BY <2>2, <3>2, Zenon DEF WeightedAffinity
  <2> QED
    BY <2>1, <2>2
<1>12. refs = {} => WeightedAffinity(AffinityWeight, registry, refs) = 0
  <2> SUFFICES ASSUME refs = {} PROVE RequestedBytes(refs) = 0
    BY DEF WeightedAffinity
  <2>1. N = {}
    BY DEF NormalizeRefs, N
  <2> QED
    BY <1>3, <2>1, SumOfNone
<1> QED
  BY <1>11, <1>12

-----------------------------------------------------------------------------
(* The policy *)

\* How much the registry and the clock can take off a score.
LEMMA ScoreParts ==
  ASSUME SafetyInv, CapsTyping, NEW a \in Agents
  PROVE  /\ AffinityBenefit(a) \in 0 .. AffinityWeight
         /\ contexts[a] = {} => AffinityBenefit(a) = 0
         /\ AgeBonus(a) \in 0 .. MaxBonus
<1>1. warm \in SUBSET Contexts /\ contexts[a] \in SUBSET Contexts
  BY DEF SafetyInv, Typing, TypeOK
<1>2. waited[a] \in Nat
  BY DEF CapsTyping, MaxBonus
<1> QED
  BY <1>1, <1>2, AffinityBound, CappedTime, Zenon DEF AffinityBenefit, AgeBonus

\* No score is below that of an Agent that costs nothing, all of whose contexts are
\* warm and that has waited for the full bonus.
LEMMA ScoreBound ==
  ASSUME SafetyInv, CapsTyping, NEW a \in Agents, NEW sample \in Samples
  PROVE  Score(a, sample) \in Int /\ Score(a, sample) + 335 \in Nat
<1>1. AffinityBenefit(a) \in 0 .. 35 /\ AgeBonus(a) \in 0 .. 300
  BY ScoreParts, Zenon DEF AffinityWeight, MaxBonus
<1>2. PressurePenalty(a, sample) \in Nat
  BY PenaltyBound
<1>3. \A x \in Nat, y \in 0 .. 35, z \in 0 .. 300 : x - y - z \in Int /\ x - y - z + 335 \in Nat
  OBVIOUS
<1> QED
  BY <1>1, <1>2, <1>3, ZenonT(30) DEF Score

\* The policy chooses among Agents.
LEMMA CandidatesAreAgents == SafetyInv => Candidates \subseteq Agents
BY ElementOfSeq, LenProperties DEF Candidates, Runnable, SafetyInv, Typing, TypeOK

\* The policy's choice is well defined: some candidate is preferred to every other.
LEMMA SelectIsPreferred ==
  ASSUME SafetyInv, CapsTyping, NEW sample \in Samples, Candidates # {}
  PROVE  /\ Select(sample) \in Candidates
         /\ \A b \in Candidates : Preferred(Select(sample), b, sample)
<1>1. Candidates \subseteq Agents
  BY CandidatesAreAgents
<1>2. ASSUME NEW C \in SUBSET Candidates, C # {}
      PROVE  \E a \in C : \A b \in C : seqOf[a] <= seqOf[b]
  <2> DEFINE T == {seqOf[a] : a \in C}
  <2>1. T \in SUBSET Nat /\ T # {}
    BY <1>1, <1>2 DEF SafetyInv, Typing, TypeOK
  <2>2. \E n \in T : \A m \in T : n <= m
    <3> HIDE DEF T
    <3> QED
      BY <2>1, LeastNatural
  <2> QED
    BY <2>2
<1>3. \E a \in Candidates : \A b \in Candidates : Preferred(a, b, sample)
  <2>1. CASE policy # "CAPS"
    BY <1>2, <2>1 DEF Preferred
  <2>2. CASE policy = "CAPS"
    <3> DEFINE value(a) == Score(a, sample) + 335
               T == {value(a) : a \in Candidates}
    <3>1. T \in SUBSET Nat /\ T # {}
      BY <1>1, ScoreBound
    <3>2. PICK n \in T : \A m \in T : n <= m
      <4> HIDE DEF T
      <4> QED
        BY <3>1, LeastNatural
    <3> DEFINE C == {a \in Candidates : value(a) = n}
    <3>3. C \in SUBSET Candidates /\ C # {}
      BY <3>2
    <3>4. PICK a \in C : \A b \in C : seqOf[a] <= seqOf[b]
      <4> HIDE DEF C
      <4> QED
        BY <1>2, <3>3
    <3>5. ASSUME NEW b \in Candidates PROVE Preferred(a, b, sample)
      <4>1. Score(a, sample) \in Int /\ Score(b, sample) \in Int
        BY <1>1, ScoreBound
      <4>2. Score(a, sample) + 335 <= Score(b, sample) + 335
        BY <3>2
      <4>3. CASE Score(a, sample) = Score(b, sample)
        <5>1. b \in C
          BY <4>3
        <5> QED
          BY <3>4, <4>3, <5>1 DEF Preferred
      <4>4. CASE Score(a, sample) # Score(b, sample)
        <5>1. Score(a, sample) < Score(b, sample)
          BY <4>1, <4>2, <4>4
        <5> QED
          BY <2>2, <5>1 DEF Preferred
      <4> QED
        BY <4>3, <4>4
    <3> QED
      BY <3>5
  <2> QED
    BY <2>1, <2>2
<1> QED
  BY <1>3, Zenon DEF Select

\* Whoever is preferred to an older Agent is so by an advantage that is larger than
\* the lead which that one has by waiting.
LEMMA PreferenceIsBounded ==
  ASSUME SafetyInv, CapsTyping, NEW sample \in Samples, NEW a \in Agents, NEW b \in Agents,
         Preferred(b, a, sample), seqOf[a] < seqOf[b]
  PROVE  policy = "CAPS" /\ AgeBonus(a) - AgeBonus(b) < Advantage(b, a)
<1>1. seqOf[a] \in Nat /\ seqOf[b] \in Nat
  BY DEF SafetyInv, Typing, TypeOK
<1>2. ~(seqOf[b] <= seqOf[a])
  BY <1>1
<1>3. policy = "CAPS" /\ Score(b, sample) < Score(a, sample)
  BY <1>2, Zenon DEF Preferred
<1> DEFINE warmth == IF contexts[b] = {} THEN 0 ELSE 35
<1>4. /\ AffinityBenefit(a) \in 0 .. 35 /\ AffinityBenefit(b) \in 0 .. 35
      /\ AgeBonus(a) \in 0 .. 300 /\ AgeBonus(b) \in 0 .. 300
      /\ AffinityBenefit(b) <= warmth
  <2>1. /\ AffinityBenefit(a) \in 0 .. 35 /\ AffinityBenefit(b) \in 0 .. 35
        /\ AgeBonus(a) \in 0 .. 300 /\ AgeBonus(b) \in 0 .. 300
        /\ contexts[b] = {} => AffinityBenefit(b) = 0
    BY ScoreParts, Zenon DEF AffinityWeight, MaxBonus
  <2> QED
    BY <2>1
<1>5. /\ PressurePenalty(a, sample) \in Nat /\ PressurePenalty(b, sample) \in Nat
      /\ DemandLead(b, a) \in Nat
      /\ PressurePenalty(a, sample) <= PressurePenalty(b, sample) + DemandLead(b, a)
  BY PenaltyBound
<1>6. PressurePenalty(b, sample) - AffinityBenefit(b) - AgeBonus(b)
        < PressurePenalty(a, sample) - AffinityBenefit(a) - AgeBonus(a)
  BY <1>3, Zenon DEF Score
<1>7. Advantage(b, a) = DemandLead(b, a) + warmth
  BY Zenon DEF Advantage, DemandLead, AffinityWeight
<1>8. warmth \in Int
  OBVIOUS
<1> HIDE DEF warmth
<1> DEFINE pa == PressurePenalty(a, sample)
           pb == PressurePenalty(b, sample)
           fa == AffinityBenefit(a)
           fb == AffinityBenefit(b)
           ta == AgeBonus(a)
           tb == AgeBonus(b)
           d == DemandLead(b, a)
<1>9. /\ pa \in Nat /\ pb \in Nat /\ d \in Nat /\ pa <= pb + d
      /\ fa \in Nat /\ fb \in Nat /\ fb <= warmth
      /\ ta \in Nat /\ tb \in Nat
      /\ pb - fb - tb < pa - fa - ta
  <2>1. \A x : x \in 0 .. 35 \/ x \in 0 .. 300 => x \in Nat
    OBVIOUS
  <2> QED
    BY <1>4, <1>5, <1>6, <2>1, Zenon
<1>10. ta - tb < d + warmth
  <2> HIDE DEF pa, pb, fa, fb, ta, tb, d
  <2> QED
    BY <1>8, <1>9
<1> QED
  BY <1>3, <1>7, <1>10, Zenon

-----------------------------------------------------------------------------
(* Overtaking *)

\* Only take sends an Agent to a worker, and it is the one that the policy selects.
LEMMA SelectedRuns ==
  ASSUME SafetyInv, CapsTyping, [CapsNext]_allVars,
         NEW b \in Agents, Leaves(b), phase'[b] = "RUNNING"
  PROVE  \E sample \in Samples : b = Select(sample)
<1>0. phase \in [Agents -> Phases] /\ queue \in Seq(Agents)
  BY DEF SafetyInv, Typing, TypeOK
<1>1. ASSUME NEW i \in DOMAIN queue, BlockEntry(i) PROVE FALSE
  <2>1. queue[i] \in Agents
    BY <1>0, ElementOfSeq, LenProperties
  <2> QED
    BY <1>0, <1>1, <2>1 DEF BlockEntry, Leaves
<1>2. ASSUME NEW w \in Workers, Finish(w) PROVE FALSE
  <2>1. PICK x \in InPhase("RUNNING"), p \in {"SUCCEEDED", "FAILED"} :
          phase' = [phase EXCEPT ![x] = p]
    BY <1>2, FinishPhase
  <2> QED
    BY <1>0, <2>1 DEF Leaves
<1>3. ASSUME NEW w \in Workers, Rest(w) PROVE FALSE
  <2>1. ASSUME TakeLock(w) \/ Exit(w) \/ Park(w) \/ Load(w) \/ PendingDone(w) PROVE FALSE
    BY <2>1 DEF TakeLock, Exit, Park, Load, PendingDone, Leaves
  <2> QED
    BY <1>1, <1>2, <1>3, <2>1 DEF Rest, BlockUnrunnable
<1>4. ASSUME NEW c \in Clients, Accepted(c) PROVE FALSE
  <2>1. PICK x \in InPhase("ABSENT") : phase' = [phase EXCEPT ![x] = "QUEUED"]
    BY <1>4, SubmitPhase DEF Accepted
  <2> QED
    BY <1>0, <2>1 DEF Leaves
<1>5. ASSUME NEW c \in Clients, Submitting(c) \/ Otherwise(c) PROVE FALSE
  BY <1>5 DEF Submitting, Otherwise, Start, SubmitUnlocked, SubmitRefused, WaitCall,
              WaitReturn, Stop, StopReturn, Leaves
<1>6. ASSUME TimePasses \/ UNCHANGED allVars PROVE FALSE
  BY <1>6 DEF TimePasses, allVars, vars, Leaves
<1>7. ASSUME NEW w \in Workers, Take(w) PROVE \E sample \in Samples : b = Select(sample)
  <2>1. Dispatch(w)
    BY <1>1, <1>7 DEF Take, BlockUndeliverable
  <2>2. PICK x \in Agents : phase' = [phase EXCEPT ![x] = "RUNNING"]
    BY <2>1, DispatchPhase DEF InPhase
  <2>3. PICK sample \in Samples : Leaves(Select(sample))
    BY <1>7 DEF Take
  <2>4. \A y \in Agents : Leaves(y) => y = x
    BY <1>0, <2>2 DEF Leaves
  <2>5. Select(sample) \in Agents
    <3>1. Candidates # {}
      BY <2>1 DEF Dispatch, Selectable, Candidates
    <3> QED
      BY <3>1, SelectIsPreferred, CandidatesAreAgents
  <2> QED
    BY <2>2, <2>3, <2>4, <2>5
<1> QED
  BY <1>3, <1>4, <1>5, <1>6, <1>7 DEF CapsNext

\* Every step keeps the bound.
LEMMA StepOvertaking ==
  ASSUME SafetyInv, CapsTyping, [CapsNext]_allVars,
         NEW a \in InPhase("QUEUED"), NEW b \in Agents,
         dependsOn[a] = {}, seqOf[a] < seqOf[b], Leaves(b), phase'[b] = "RUNNING"
  PROVE  policy = "CAPS" /\ AgeBonus(a) - AgeBonus(b) < Advantage(b, a)
<1>1. PICK sample \in Samples : b = Select(sample)
  BY SelectedRuns
<1>2. a \in Candidates
  <2>1. PICK i \in DOMAIN queue : queue[i] = a
    BY DEF SafetyInv, RecordsSound, QueueSound, InPhase
  <2>2. Ready(a)
    BY DEF Ready, Unmet
  <2> QED
    BY <2>1, <2>2 DEF Candidates, Runnable
<1>3. Preferred(b, a, sample)
  BY <1>1, <1>2, SelectIsPreferred
<1>4. a \in Agents
  BY DEF InPhase
<1> QED
  BY <1>3, <1>4, PreferenceIsBounded

\* An Agent that waits for nothing is not overtaken under FIFO.  Under CAPS, whatever the
\* demands, the pressure, the contexts and the clock, it is overtaken only while the lead
\* that it has by waiting is less than the advantage of the other.
THEOREM OvertakingIsBoundedHolds == CapsSpec => OvertakingIsBounded
<1>1. SafetyInv /\ CapsTyping /\ [CapsNext]_allVars =>
        [\A a \in InPhase("QUEUED"), b \in Agents :
           dependsOn[a] = {} /\ seqOf[a] < seqOf[b] /\ Leaves(b) /\ phase'[b] = "RUNNING"
             => policy = "CAPS" /\ AgeBonus(a) - AgeBonus(b) < Advantage(b, a)]_allVars
  BY StepOvertaking
<1> QED
  BY <1>1, CapsSafety, CapsTypes, PTL DEF CapsSpec, OvertakingIsBounded
===============================================================================
