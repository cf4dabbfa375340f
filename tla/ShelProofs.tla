----------------------------- MODULE ShelProofs -----------------------------
(***************************************************************************)
(* Proofs about CLAM's assignment of leases: for any program, any sampled  *)
(* histograms and any cache, the leases fit, and no room is left that a    *)
(* lease that was passed over could use.  Costs are sums, so the module    *)
(* begins with what sums over finite sets are and how they compare.        *)
(***************************************************************************)
EXTENDS ShelLeases, FiniteSetTheorems, WellFoundedInduction, TLAPS

-----------------------------------------------------------------------------
(* Sums.                                                                    *)

\* The element of a set that a sum takes first.
FirstOf(s) == CHOOSE x \in s : TRUE

\* The sums over the subsets of S, each from the one that lacks its first element.
Sums(f, S) ==
   CHOOSE iter : iter = [s \in SUBSET S |->
        IF s = {} THEN 0 ELSE f[FirstOf(s)] + iter[s \ {FirstOf(s)}]]

\* The library's sum is one of these.
LEMMA SumIs == \A f, S : SumFunctionOnSet(f, S) = Sums(f, S)[S]
  BY DEF SumFunctionOnSet, FoldFunctionOnSet, MapThenFoldSet, Sums, FirstOf

\* The first element is one of the set.
LEMMA FirstElement ==
  ASSUME NEW S, NEW s \in SUBSET S, s # {}
  PROVE  FirstOf(s) \in s /\ s \ {FirstOf(s)} \in SUBSET S
  BY DEF FirstOf

\* What holds of the empty set, and of a set if of the set without its first
\* element, holds of every subset of a finite set.
LEMMA SubsetInduction ==
  ASSUME NEW S, IsFiniteSet(S), NEW T, {} \in T,
         \A s \in SUBSET S : s # {} /\ s \ {FirstOf(s)} \in T => s \in T
  PROVE  \A s \in SUBSET S : s \in T
<1> DEFINE Rest == {s \in SUBSET S : s \notin T}
<1>1. SUFFICES ASSUME Rest # {} PROVE FALSE
  OBVIOUS
<1>2. Rest \subseteq FiniteSubsetsOf(S)
  BY FS_Subset DEF FiniteSubsetsOf
<1>3. PICK s \in Rest : \A y \in Rest : ~(<<y, s>> \in StrictSubsetOrdering(S))
  BY <1>1, <1>2, WFMin, FS_StrictSubsetOrderingWellFounded
<1>4. s # {} /\ s \ {FirstOf(s)} \in SUBSET S /\ FirstOf(s) \in s
  BY FirstElement
<1>5. <<s \ {FirstOf(s)}, s>> \in StrictSubsetOrdering(S)
  BY <1>4 DEF StrictSubsetOrdering
<1>6. s \ {FirstOf(s)} \in T
  BY <1>3, <1>4, <1>5
<1> QED
  BY <1>4, <1>6

\* The sums exist: they can be found for sets of any size.
LEMMA SumsExist ==
  ASSUME NEW f, NEW S, IsFiniteSet(S)
  PROVE  \A s \in SUBSET S : Sums(f, S)[s] =
           IF s = {} THEN 0 ELSE f[FirstOf(s)] + Sums(f, S)[s \ {FirstOf(s)}]
<1> DEFINE Body(g, s) == IF s = {} THEN 0 ELSE f[FirstOf(s)] + g[s \ {FirstOf(s)}]
           Upto(g, k) == \A s \in SUBSET S : Cardinality(s) <= k => g[s] = Body(g, s)
           Missing == {k \in Nat : \A g : ~Upto(g, k)}
<1>1. \A s \in SUBSET S : IsFiniteSet(s) /\ Cardinality(s) \in Nat
                          /\ Cardinality(s) <= Cardinality(S) /\ Cardinality(S) \in Nat
  BY FS_Subset, FS_CardinalityType
<1>2. ASSUME NEW s \in SUBSET S, s # {}
      PROVE  Cardinality(s \ {FirstOf(s)}) = Cardinality(s) - 1
  BY <1>1, <1>2, FirstElement, FS_RemoveElement
<1>3. \E g : Upto(g, 0)
  <2> DEFINE g == [s \in SUBSET S |-> 0]
  <2>1. \A s \in SUBSET S : Cardinality(s) <= 0 => s = {}
    BY <1>1, FS_EmptySet
  <2>2. \A s \in SUBSET S : g[s] = 0
    OBVIOUS
  <2> HIDE DEF g
  <2> QED
    BY <2>1, <2>2
<1>4. ASSUME NEW k \in Nat, NEW g, Upto(g, k)
      PROVE  \E h : Upto(h, k + 1)
  <2> DEFINE h == [s \in SUBSET S |-> Body(g, s)]
  <2>1. \A s \in SUBSET S : h[s] = Body(g, s)
    OBVIOUS
  <2> HIDE DEF h
  <2>2. ASSUME NEW s \in SUBSET S, Cardinality(s) <= k + 1
        PROVE  h[s] = Body(h, s)
    <3>1. CASE s = {}
      BY <2>1, <3>1
    <3>2. CASE s # {}
      <4> DEFINE r == s \ {FirstOf(s)}
      <4>1. r \in SUBSET S /\ Cardinality(r) <= k
        BY <1>1, <1>2, <2>2, <3>2, FirstElement
      <4>2. g[r] = h[r]
        BY <1>4, <2>1, <4>1
      <4> QED
        BY <2>1, <3>2, <4>2
    <3> QED
      BY <3>1, <3>2
  <2> QED
    BY <2>2
<1> HIDE DEF Upto
<1>5. Missing = {}
  <2> SUFFICES ASSUME Missing # {} PROVE FALSE
    OBVIOUS
  <2>1. PICK k \in Missing : \A y \in Missing : ~(<<y, k>> \in OpToRel(<, Nat))
    BY WFMin, NatLessThanWellFounded
  <2>2. 0 \notin Missing
    BY <1>3
  <2>3. k \in Nat /\ k # 0
    BY <2>1, <2>2
  <2>4. k - 1 \in Nat /\ (k - 1) + 1 = k
    BY <2>3
  <2>5. <<k - 1, k>> \in OpToRel(<, Nat)
    BY <2>3, <2>4 DEF OpToRel
  <2>6. PICK g : Upto(g, k - 1)
    BY <2>1, <2>4, <2>5
  <2>7. \E h : Upto(h, k)
    BY <1>4, <2>4, <2>6
  <2> QED
    BY <2>1, <2>7
<1>6. PICK g : Upto(g, Cardinality(S))
  <2>1. Cardinality(S) \in Nat
    BY FS_CardinalityType
  <2> QED
    BY <1>5, <2>1
<1> DEFINE e == [s \in SUBSET S |-> g[s]]
<1>7. e = [s \in SUBSET S |-> Body(e, s)]
  <2>1. \A s \in SUBSET S : g[s] = Body(g, s)
    BY <1>1, <1>6 DEF Upto
  <2>2. ASSUME NEW s \in SUBSET S PROVE Body(g, s) = Body(e, s)
    <3>1. CASE s = {}
      BY <3>1
    <3>2. CASE s # {}
      <4>1. s \ {FirstOf(s)} \in SUBSET S
        BY <3>2, FirstElement
      <4>2. e[s \ {FirstOf(s)}] = g[s \ {FirstOf(s)}]
        BY <4>1
      <4> HIDE DEF e
      <4> QED
        BY <3>2, <4>2
    <3> QED
      BY <3>1, <3>2
  <2> QED
    BY <2>1, <2>2
<1> HIDE DEF e
<1>8. Sums(f, S) = [s \in SUBSET S |-> Body(Sums(f, S), s)]
  <2>1. \E iter : iter = [s \in SUBSET S |-> Body(iter, s)]
    BY <1>7
  <2> QED
    BY <2>1 DEF Sums
<1> QED
  BY <1>8

\* The sums one by one.
LEMMA SumStep ==
  ASSUME NEW f, NEW S, IsFiniteSet(S)
  PROVE  /\ Sums(f, S)[{}] = 0
         /\ \A s \in SUBSET S : s # {} =>
              /\ FirstOf(s) \in S /\ FirstOf(s) \in s /\ s \ {FirstOf(s)} \in SUBSET S
              /\ Sums(f, S)[s] = f[FirstOf(s)] + Sums(f, S)[s \ {FirstOf(s)}]
<1>1. \A s \in SUBSET S : Sums(f, S)[s] =
        IF s = {} THEN 0 ELSE f[FirstOf(s)] + Sums(f, S)[s \ {FirstOf(s)}]
  BY SumsExist
<1>2. {} \in SUBSET S
  OBVIOUS
<1> QED
  BY <1>1, <1>2, FirstElement

\* Sums of natural numbers.
LEMMA SumNat ==
  ASSUME NEW f, NEW S, IsFiniteSet(S), \A x \in S : f[x] \in Nat
  PROVE  SumFunctionOnSet(f, S) \in Nat
<1> DEFINE u == Sums(f, S)
           T == {s \in SUBSET S : u[s] \in Nat}
<1>0. /\ u[{}] = 0
      /\ \A s \in SUBSET S : s # {} =>
           /\ FirstOf(s) \in S /\ FirstOf(s) \in s /\ s \ {FirstOf(s)} \in SUBSET S
           /\ u[s] = f[FirstOf(s)] + u[s \ {FirstOf(s)}]
  BY SumStep
<1> HIDE DEF u
<1>1. {} \in T
  BY <1>0
<1>2. ASSUME NEW s \in SUBSET S, s # {}, s \ {FirstOf(s)} \in T PROVE s \in T
  BY <1>0, <1>2
<1>3. \A s \in SUBSET S : s \in T
  <2> HIDE DEF T
  <2> QED
    BY <1>1, <1>2, SubsetInduction
<1>4. S \in T
  BY <1>3
<1> QED
  BY <1>4, SumIs DEF u

\* A sum of what is greater at each place is greater.
LEMMA SumMonotone ==
  ASSUME NEW f, NEW g, NEW S, IsFiniteSet(S),
         \A x \in S : f[x] \in Int /\ g[x] \in Int /\ f[x] <= g[x]
  PROVE  /\ SumFunctionOnSet(f, S) \in Int /\ SumFunctionOnSet(g, S) \in Int
         /\ SumFunctionOnSet(f, S) <= SumFunctionOnSet(g, S)
<1> DEFINE u == Sums(f, S)
           v == Sums(g, S)
           T == {s \in SUBSET S : /\ u[s] \in Int /\ v[s] \in Int
                                  /\ u[s] <= v[s]}
<1>0. /\ u[{}] = 0
      /\ \A s \in SUBSET S : s # {} =>
           /\ FirstOf(s) \in S /\ FirstOf(s) \in s /\ s \ {FirstOf(s)} \in SUBSET S
           /\ u[s] = f[FirstOf(s)] + u[s \ {FirstOf(s)}]
  BY ONLY IsFiniteSet(S), SumStep
<1>5. /\ v[{}] = 0
      /\ \A s \in SUBSET S : s # {} => v[s] = g[FirstOf(s)] + v[s \ {FirstOf(s)}]
  BY ONLY IsFiniteSet(S), SumStep
<1> HIDE DEF u, v
<1>1. {} \in T
  BY <1>0, <1>5
<1>2. ASSUME NEW s \in SUBSET S, s # {}, s \ {FirstOf(s)} \in T PROVE s \in T
  <2>1. FirstOf(s) \in S
    BY <1>0, <1>2
  <2>2. /\ u[s] = f[FirstOf(s)] + u[s \ {FirstOf(s)}]
        /\ v[s] = g[FirstOf(s)] + v[s \ {FirstOf(s)}]
    BY <1>0, <1>5, <1>2
  <2> QED
    BY <1>2, <2>1, <2>2
<1>3. \A s \in SUBSET S : s \in T
  <2> HIDE DEF T
  <2> QED
    BY <1>1, <1>2, SubsetInduction
<1>4. S \in T
  BY <1>3
<1> QED
  BY <1>4, SumIs DEF u, v

\* A sum changes by what it changes by at one place.
LEMMA SumChanges ==
  ASSUME NEW f, NEW g, NEW S, IsFiniteSet(S), NEW a \in S,
         \A x \in S : f[x] \in Int /\ g[x] \in Int /\ (x # a => g[x] = f[x])
  PROVE  /\ SumFunctionOnSet(f, S) \in Int
         /\ SumFunctionOnSet(g, S) = SumFunctionOnSet(f, S) + (g[a] - f[a])
<1> DEFINE u == Sums(f, S)
           v == Sums(g, S)
           T == {s \in SUBSET S : /\ u[s] \in Int
                                  /\ v[s] = u[s]
                                       + (IF a \in s THEN g[a] - f[a] ELSE 0)}
<1>0. /\ u[{}] = 0
      /\ \A s \in SUBSET S : s # {} =>
           /\ FirstOf(s) \in S /\ FirstOf(s) \in s /\ s \ {FirstOf(s)} \in SUBSET S
           /\ u[s] = f[FirstOf(s)] + u[s \ {FirstOf(s)}]
  BY ONLY IsFiniteSet(S), SumStep
<1>5. /\ v[{}] = 0
      /\ \A s \in SUBSET S : s # {} => v[s] = g[FirstOf(s)] + v[s \ {FirstOf(s)}]
  BY ONLY IsFiniteSet(S), SumStep
<1> HIDE DEF u, v
<1>1. {} \in T
  BY <1>0, <1>5
<1>2. ASSUME NEW s \in SUBSET S, s # {}, s \ {FirstOf(s)} \in T PROVE s \in T
  <2>1. /\ FirstOf(s) \in s /\ s \ {FirstOf(s)} \in SUBSET S
        /\ a \in s \ {FirstOf(s)} <=> a \in s /\ FirstOf(s) # a
    BY <1>0, <1>5, <1>2
  <2>2. /\ u[s] = f[FirstOf(s)] + u[s \ {FirstOf(s)}]
        /\ v[s] = g[FirstOf(s)] + v[s \ {FirstOf(s)}]
    BY <1>0, <1>5, <1>2
  <2> QED
    BY <1>2, <2>1, <2>2
<1>3. \A s \in SUBSET S : s \in T
  <2> HIDE DEF T
  <2> QED
    BY <1>1, <1>2, SubsetInduction
<1>4. S \in T
  BY <1>3
<1> QED
  BY <1>4, SumIs DEF u, v

\* A factor can be taken out of a sum.
LEMMA SumScales ==
  ASSUME NEW f, NEW g, NEW S, IsFiniteSet(S), NEW c \in Int,
         \A x \in S : f[x] \in Int /\ g[x] = c * f[x]
  PROVE  /\ SumFunctionOnSet(f, S) \in Int
         /\ SumFunctionOnSet(g, S) = c * SumFunctionOnSet(f, S)
<1> DEFINE u == Sums(f, S)
           v == Sums(g, S)
           T == {s \in SUBSET S : /\ u[s] \in Int
                                  /\ v[s] = c * u[s]}
<1>0. /\ u[{}] = 0
      /\ \A s \in SUBSET S : s # {} =>
           /\ FirstOf(s) \in S /\ FirstOf(s) \in s /\ s \ {FirstOf(s)} \in SUBSET S
           /\ u[s] = f[FirstOf(s)] + u[s \ {FirstOf(s)}]
  BY ONLY IsFiniteSet(S), SumStep
<1>5. /\ v[{}] = 0
      /\ \A s \in SUBSET S : s # {} => v[s] = g[FirstOf(s)] + v[s \ {FirstOf(s)}]
  BY ONLY IsFiniteSet(S), SumStep
<1> HIDE DEF u, v
<1>1. {} \in T
  BY <1>0, <1>5
<1>2. ASSUME NEW s \in SUBSET S, s # {}, s \ {FirstOf(s)} \in T PROVE s \in T
  <2>1. FirstOf(s) \in S
    BY <1>0, <1>5, <1>2
  <2>2. /\ u[s] = f[FirstOf(s)] + u[s \ {FirstOf(s)}]
        /\ v[s] = g[FirstOf(s)] + v[s \ {FirstOf(s)}]
    BY <1>0, <1>5, <1>2
  <2>3. \A i, j \in Int : c * (i + j) = c * i + c * j
    OBVIOUS
  <2> QED
    BY <1>2, <2>1, <2>2, <2>3
<1>3. \A s \in SUBSET S : s \in T
  <2> HIDE DEF T
  <2> QED
    BY <1>1, <1>2, SubsetInduction
<1>4. S \in T
  BY <1>3
<1> QED
  BY <1>4, SumIs DEF u, v

-----------------------------------------------------------------------------
(* What a lease costs.                                                      *)

HistOK == hist \in [Refs -> [Intervals -> Nat]]

\* Products with the same factor compare as what is multiplied.
LEMMA Times ==
  ASSUME NEW n \in Nat, NEW x \in Int, NEW y \in Int, x <= y
  PROVE  n * x \in Int /\ n * y \in Int /\ n * x <= n * y
<1>1. y - x \in Nat
  OBVIOUS
<1>2. n * (y - x) \in Nat /\ n * (y - x) = n * y - n * x
  BY <1>1
<1>3. n * x \in Int /\ n * y \in Int
  OBVIOUS
<1> QED
  BY <1>2, <1>3

\* A longer lease costs no less, and none costs nothing.
LEMMA StayGrows ==
  ASSUME HistOK, NEW r \in Refs, NEW a \in Nat, NEW b \in Nat, a <= b
  PROVE  /\ Stay(r, a) \in Int /\ Stay(r, b) \in Int /\ Stay(r, a) <= Stay(r, b)
<1> DEFINE f == [i \in Intervals |-> hist[r][i] * (IF i <= a THEN i ELSE a)]
           g == [i \in Intervals |-> hist[r][i] * (IF i <= b THEN i ELSE b)]
<1>1. ASSUME NEW i \in Intervals
      PROVE  f[i] \in Int /\ g[i] \in Int /\ f[i] <= g[i]
  <2> DEFINE x == IF i <= a THEN i ELSE a
             y == IF i <= b THEN i ELSE b
  <2>1. i \in Nat /\ hist[r][i] \in Nat
    BY ShelAssumption DEF HistOK
  <2>2. x \in Int /\ y \in Int /\ x <= y
    BY <2>1
  <2>3. f[i] = hist[r][i] * x /\ g[i] = hist[r][i] * y
    OBVIOUS
  <2> HIDE DEF f, g, x, y
  <2> QED
    BY <2>1, <2>2, <2>3, Times
<1>2. Stay(r, a) = Rate * SumFunctionOnSet(f, Intervals)
      /\ Stay(r, b) = Rate * SumFunctionOnSet(g, Intervals)
  BY DEF Stay
<1> HIDE DEF f, g
<1>3. /\ SumFunctionOnSet(f, Intervals) \in Int /\ SumFunctionOnSet(g, Intervals) \in Int
      /\ SumFunctionOnSet(f, Intervals) <= SumFunctionOnSet(g, Intervals)
  BY <1>1, SumMonotone, ShelAssumption
<1>4. Rate \in Nat
  BY ShelAssumption
<1> QED
  BY <1>2, <1>3, <1>4, Times

\* No lease takes no time.
LEMMA StayNone ==
  ASSUME HistOK, NEW r \in Refs
  PROVE  Stay(r, 0) = 0
<1> DEFINE f == [i \in Intervals |-> hist[r][i] * (IF i <= 0 THEN i ELSE 0)]
<1>1. ASSUME NEW i \in Intervals PROVE f[i] \in Int /\ f[i] = 0 * f[i]
  <2>1. i \in Nat /\ i # 0 /\ hist[r][i] \in Nat
    BY ShelAssumption DEF HistOK
  <2>2. (IF i <= 0 THEN i ELSE 0) = 0
    BY <2>1
  <2>3. f[i] = hist[r][i] * 0
    BY <2>2
  <2> QED
    BY <2>1, <2>3
<1>2. Stay(r, 0) = Rate * SumFunctionOnSet(f, Intervals)
  BY DEF Stay
<1> HIDE DEF f
<1>3. PICK z \in Int : z = 0
  OBVIOUS
<1>4. \A i \in Intervals : f[i] \in Int /\ f[i] = z * f[i]
  BY <1>1, <1>3
<1>5. /\ SumFunctionOnSet(f, Intervals) \in Int
      /\ SumFunctionOnSet(f, Intervals) = z * SumFunctionOnSet(f, Intervals)
  <2>1. IsFiniteSet(Intervals)
    BY ShelAssumption
  <2> QED
    BY ONLY <1>4, <2>1, z \in Int, SumScales
<1> QED
  BY <1>2, <1>3, <1>5, ShelAssumption

\* Where no lease is longer than one, a phase's blocks stay for one reference each.
LEMMA StayOne ==
  ASSUME HistOK, NEW r \in Refs
  PROVE  /\ Stay(r, 1) = Rate * SumFunctionOnSet(hist[r], Intervals)
         /\ SumFunctionOnSet(hist[r], Intervals) \in Nat
<1> DEFINE f == [i \in Intervals |-> hist[r][i] * (IF i <= 1 THEN i ELSE 1)]
<1>1. ASSUME NEW i \in Intervals PROVE f[i] = hist[r][i] /\ hist[r][i] \in Nat
  <2>1. i \in Nat /\ i # 0 /\ hist[r][i] \in Nat
    BY ShelAssumption DEF HistOK
  <2>2. (IF i <= 1 THEN i ELSE 1) = 1
    BY <2>1
  <2>3. f[i] = hist[r][i] * 1
    BY <2>2
  <2> QED
    BY <2>1, <2>3
<1>2. hist[r] = [i \in Intervals |-> hist[r][i]]
  BY DEF HistOK
<1>3. f = hist[r]
  BY <1>1, <1>2
<1>4. SumFunctionOnSet(hist[r], Intervals) \in Nat
  BY <1>1, SumNat, ShelAssumption
<1> QED
  BY <1>3, <1>4 DEF Stay

-----------------------------------------------------------------------------
(* The invariant.                                                           *)

ShelTypes ==
    /\ HistOK
    /\ assigned \in [Refs -> Nat]
    /\ cost \in [Phases -> Int]
    /\ finished \in BOOLEAN
    /\ \A c \in heap : /\ c.ref \in Refs /\ c.old \in Nat
                       /\ c.lease \in Sampled(c.ref) /\ c.old < c.lease

\* The running cost is what the leases hold, until a dual lease fills the phase.
CostIsHeld ==
    \A p \in Phases : /\ cost[p] <= Budget(p) /\ Held(p) <= Budget(p)
                      /\ p \notin DualPhases => cost[p] = Held(p)

\* A dual lease takes what was left, by its probability num / den.
DualFills ==
    \A d \in dual :
        /\ d.ref \in Refs /\ d.num \in Nat /\ d.den \in Nat \ {0}
        /\ d.den = Stay(d.ref, d.lease) - Stay(d.ref, assigned[d.ref])
        /\ Held(PhaseOf[d.ref]) + d.num = Budget(PhaseOf[d.ref])

OneDualPerPhase == \A d, e \in dual : PhaseOf[d.ref] = PhaseOf[e.ref] => d = e

\* A longer lease is still a candidate or would not be worth a dual lease.
Awaiting(r, i) == \E c \in heap : c.ref = r /\ c.lease = i /\ c.old = assigned[r]
Hopeless(r, i) ==
    2 * (2 ^ Discretize - 1) * Unused(PhaseOf[r])
        < PhaseRefCost(PhaseOf[r], r, assigned[r], i)
Remembered(r) ==
    \/ Filled(PhaseOf[r]) \/ PhaseOf[r] \in DualPhases
    \/ \A i \in Sampled(r) : i > assigned[r] => Awaiting(r, i) \/ Hopeless(r, i)
NoneForgotten == \A r \in Refs : Remembered(r)

ShelInv ==
    /\ ShelTypes /\ CostIsHeld /\ DualFills /\ OneDualPerPhase /\ NoneForgotten
    /\ finished => heap = {} \/ DualPhases = Phases

\* The weight of a probability in the table is a number.
LEMMA Weight == 2 * (2 ^ Discretize - 1) \in Nat
<1>1. IsFiniteSet(1 .. Discretize) /\ Cardinality(1 .. Discretize) = Discretize
  BY FS_Interval, ShelAssumption
<1>2. /\ IsFiniteSet(SUBSET (1 .. Discretize))
      /\ Cardinality(SUBSET (1 .. Discretize)) = 2 ^ Discretize
  BY <1>1, FS_SUBSET
<1>3. Cardinality(SUBSET (1 .. Discretize)) \in Nat
  BY <1>2, FS_CardinalityType
<1>4. Cardinality(SUBSET (1 .. Discretize)) # 0
  BY <1>2, FS_EmptySet
<1> QED
  BY <1>2, <1>3, <1>4

\* What is held, and what samples allow, as numbers.
LEMMA Amounts ==
  ASSUME HistOK, assigned \in [Refs -> Nat], NEW p \in Phases
  PROVE  Held(p) \in Int /\ Samples(p) \in Nat /\ Budget(p) \in Int
<1> DEFINE f == [r \in Refs |-> IF PhaseOf[r] = p THEN Stay(r, assigned[r]) ELSE 0]
           g == [r \in Refs |-> IF PhaseOf[r] = p
                                THEN SumFunctionOnSet(hist[r], Intervals) ELSE 0]
<1>1. \A r \in Refs : f[r] \in Int /\ f[r] <= f[r]
  <2>1. \A r \in Refs : assigned[r] \in Nat /\ Stay(r, assigned[r]) \in Int
    BY StayGrows
  <2> QED
    BY <2>1
<1>2. \A r \in Refs : g[r] \in Nat
  <2>1. \A r \in Refs : SumFunctionOnSet(hist[r], Intervals) \in Nat
    BY StayOne
  <2> QED
    BY <2>1
<1>3. IsFiniteSet(Refs) /\ CacheSize \in Nat /\ Rate \in Nat
  BY ShelAssumption
<1>4. Held(p) = SumFunctionOnSet(f, Refs) /\ Samples(p) = SumFunctionOnSet(g, Refs)
  BY DEF Held, Samples
<1> HIDE DEF f, g
<1>5. Held(p) \in Int
  BY <1>1, <1>3, <1>4, SumMonotone
<1>6. Samples(p) \in Nat
  BY <1>2, <1>3, <1>4, SumNat
<1>7. Samples(p) * CacheSize \in Nat
  BY <1>3, <1>6
<1>8. (Samples(p) * CacheSize) * Rate \in Nat
  BY <1>3, <1>7
<1> QED
  BY <1>5, <1>6, <1>8 DEF Budget

\* Histograms and leases at the beginning.
LEMMA FirstTypes == ShelInit => HistOK /\ assigned \in [Refs -> Nat]
<1> SUFFICES ASSUME ShelInit PROVE HistOK /\ assigned \in [Refs -> Nat]
  OBVIOUS
<1>1. hist \in [Refs -> [Intervals -> Counts]] /\ Counts \subseteq Nat
  BY ShelAssumption DEF ShelInit
<1>2. [Intervals -> Counts] \subseteq [Intervals -> Nat]
  BY <1>1
<1>3. HistOK
  BY ONLY <1>1, <1>2 DEF HistOK
<1>4. assigned \in [Refs -> Nat]
  BY DEF ShelInit
<1> QED
  BY <1>3, <1>4

\* At the beginning each reference has a lease of one, which fits.
LEMMA FirstLeasesFit ==
  ASSUME ShelInit, NEW p \in Phases
  PROVE  cost[p] = Held(p) /\ Held(p) <= Budget(p)
<1>1. HistOK /\ assigned \in [Refs -> Nat] /\ \A r \in Refs : assigned[r] = 1
  BY FirstTypes DEF ShelInit
<1>2. cost[p] = Held(p)
  <2> DEFINE f == [r \in Refs |-> PhaseRefCost(p, r, 0, 1)]
             g == [r \in Refs |-> IF PhaseOf[r] = p THEN Stay(r, assigned[r]) ELSE 0]
  <2>1. ASSUME NEW r \in Refs PROVE f[r] = g[r]
    <3>1. Stay(r, 0) = 0 /\ Stay(r, 1) \in Int
      BY <1>1, StayNone, StayGrows
    <3> QED
      BY <1>1, <3>1 DEF PhaseRefCost
  <2>2. f = g
    BY <2>1
  <2>3. cost[p] = SumFunctionOnSet(f, Refs) /\ Held(p) = SumFunctionOnSet(g, Refs)
    BY DEF ShelInit, Held
  <2> QED
    BY <2>2, <2>3
<1>3. Held(p) = Rate * Samples(p)
  <2> DEFINE f == [r \in Refs |-> IF PhaseOf[r] = p
                                  THEN SumFunctionOnSet(hist[r], Intervals) ELSE 0]
             g == [r \in Refs |-> IF PhaseOf[r] = p THEN Stay(r, assigned[r]) ELSE 0]
  <2>1. ASSUME NEW r \in Refs PROVE f[r] \in Int /\ g[r] = Rate * f[r]
    <3>1. /\ Stay(r, 1) = Rate * SumFunctionOnSet(hist[r], Intervals)
          /\ SumFunctionOnSet(hist[r], Intervals) \in Nat
      BY <1>1, StayOne
    <3>2. Rate * 0 = 0
      BY ShelAssumption
    <3> QED
      BY <1>1, <3>1, <3>2
  <2>2. IsFiniteSet(Refs) /\ Rate \in Int
    BY ShelAssumption
  <2>3. Held(p) = SumFunctionOnSet(g, Refs) /\ Samples(p) = SumFunctionOnSet(f, Refs)
    BY DEF Held, Samples
  <2> HIDE DEF f, g
  <2> QED
    BY <2>1, <2>2, <2>3, SumScales
<1>4. Rate * Samples(p) <= (Samples(p) * CacheSize) * Rate
  <2>1. Samples(p) \in Nat /\ Rate \in Nat /\ CacheSize \in Nat /\ 1 <= CacheSize
    BY <1>1, Amounts, ShelAssumption
  <2>2. Samples(p) * 1 <= Samples(p) * CacheSize
    BY <2>1, Times
  <2>3. Samples(p) <= Samples(p) * CacheSize /\ Samples(p) * CacheSize \in Int
    BY <2>1, <2>2
  <2>4. Rate * Samples(p) <= Rate * (Samples(p) * CacheSize)
    BY <2>1, <2>3, Times
  <2>5. Rate * (Samples(p) * CacheSize) = (Samples(p) * CacheSize) * Rate
    BY <2>1, <2>3
  <2> QED
    BY <2>4, <2>5
<1> QED
  BY <1>2, <1>3, <1>4 DEF Budget

\* At the beginning every longer lease is a candidate.
LEMMA ShelInvInit == ShelInit => ShelInv
<1> SUFFICES ASSUME ShelInit PROVE ShelInv
  OBVIOUS
<1>1. HistOK /\ assigned \in [Refs -> Nat]
  BY FirstTypes
<1>2. /\ heap = UNION {Candidates(r, 1) : r \in Refs} /\ dual = {} /\ ~finished
      /\ finished \in BOOLEAN
      /\ assigned = [r \in Refs |-> 1] /\ DualPhases = {}
  BY DEF ShelInit, DualPhases
<1>3. ASSUME NEW c \in heap
      PROVE  c.ref \in Refs /\ c.old \in Nat /\ c.lease \in Sampled(c.ref) /\ c.old < c.lease
  BY <1>2 DEF Candidates
<1>4. \A p \in Phases : cost[p] = Held(p) /\ Held(p) <= Budget(p) /\ Held(p) \in Int
  BY <1>1, FirstLeasesFit, Amounts
<1>5. cost \in [Phases -> Int]
  <2>1. cost = [p \in Phases |-> cost[p]]
    BY DEF ShelInit
  <2>2. \A p \in Phases : cost[p] \in Int
    BY <1>4
  <2> QED
    BY ONLY <2>1, <2>2
<1>6. ShelTypes
  BY <1>1, <1>2, <1>3, <1>5 DEF ShelTypes
<1>7. CostIsHeld
  BY <1>4 DEF CostIsHeld
<1>8. DualFills /\ OneDualPerPhase
  BY <1>2 DEF DualFills, OneDualPerPhase
<1>9. NoneForgotten
  <2> SUFFICES ASSUME NEW r \in Refs, NEW i \in Sampled(r), i > assigned[r]
               PROVE  Awaiting(r, i)
    BY DEF NoneForgotten, Remembered
  <2>1. \E c \in Candidates(r, 1) : c.ref = r /\ c.lease = i /\ c.old = 1
    <3> DEFINE c == [ref |-> r, lease |-> i, old |-> 1,
                     hits |-> HitTable(r, i) - HitTable(r, 1),
                     cost |-> CostTable(r, i) - CostTable(r, 1)]
    <3>1. i > 1
      BY <1>2
    <3>2. c \in Candidates(r, 1)
      BY <3>1 DEF Candidates
    <3> QED
      BY <3>2
  <2> QED
    BY <1>2, <2>1 DEF Awaiting
<1> QED
  BY <1>2, <1>6, <1>7, <1>8, <1>9 DEF ShelInv

-----------------------------------------------------------------------------
(* The steps.                                                               *)

\* What a lease costs does not change with the leases that are given.
LEMMA CostsKept ==
  ASSUME hist' = hist
  PROVE  /\ \A r, a : Stay(r, a)' = Stay(r, a)
         /\ \A q, r, a, b : PhaseRefCost(q, r, a, b)' = PhaseRefCost(q, r, a, b)
         /\ \A q : Budget(q)' = Budget(q)
         /\ \A r : Sampled(r)' = Sampled(r)
<1>1. \A r, a : Stay(r, a)' = Stay(r, a)
  BY DEF Stay
<1>2. \A q, r, a, b : PhaseRefCost(q, r, a, b)' = PhaseRefCost(q, r, a, b)
  BY <1>1 DEF PhaseRefCost
<1>3. \A q : Budget(q)' = Budget(q)
  BY DEF Budget, Samples
<1>4. \A r : Sampled(r)' = Sampled(r)
  BY DEF Sampled
<1> QED
  BY <1>1, <1>2, <1>3, <1>4

\* The lease of a candidate costs its own phase what is more than it has, and the
\* other phases nothing.
LEMMA CandidateCost ==
  ASSUME ShelTypes, NEW c \in heap, ~OutOfDate(c), NEW p \in Phases
  PROVE  /\ c.ref \in Refs /\ PhaseOf[c.ref] \in Phases
         /\ c.lease \in Nat /\ c.old \in Nat /\ c.old = assigned[c.ref]
         /\ Stay(c.ref, c.lease) \in Int /\ Stay(c.ref, c.old) \in Int
         /\ PhaseRefCost(p, c.ref, c.old, c.lease) \in Nat
         /\ PhaseRefCost(p, c.ref, c.old, c.lease) =
              IF p = PhaseOf[c.ref] THEN Stay(c.ref, c.lease) - Stay(c.ref, c.old) ELSE 0
<1>1. c.ref \in Refs /\ c.old \in Nat /\ c.lease \in Sampled(c.ref) /\ c.old < c.lease
  BY DEF ShelTypes
<1>2. c.lease \in Nat /\ c.old <= c.lease
  <2>1. c.lease \in Intervals /\ Intervals \subseteq Nat
    BY <1>1, ShelAssumption DEF Sampled
  <2>2. c.lease \in Nat
    BY ONLY <2>1
  <2> QED
    BY <1>1, <2>2
<1>3. /\ Stay(c.ref, c.lease) \in Int /\ Stay(c.ref, c.old) \in Int
      /\ Stay(c.ref, c.old) <= Stay(c.ref, c.lease)
  BY <1>1, <1>2, StayGrows DEF ShelTypes
<1>4. PhaseOf[c.ref] \in Phases /\ c.old = assigned[c.ref]
  BY <1>1, ShelAssumption DEF OutOfDate
<1> QED
  BY <1>1, <1>2, <1>3, <1>4 DEF PhaseRefCost

\* A lease that is given is held.
LEMMA HeldGrows ==
  ASSUME ShelTypes, NEW c \in heap, ~OutOfDate(c), hist' = hist,
         assigned' = [assigned EXCEPT ![c.ref] = c.lease], NEW p \in Phases
  PROVE  Held(p)' = Held(p) + PhaseRefCost(p, c.ref, c.old, c.lease)
<1> DEFINE f == [r \in Refs |-> IF PhaseOf[r] = p THEN Stay(r, assigned[r]) ELSE 0]
           g == [r \in Refs |-> IF PhaseOf[r] = p THEN Stay(r, assigned'[r]) ELSE 0]
<1>1. Held(p) = SumFunctionOnSet(f, Refs)
  BY DEF Held
<1>2. Held(p)' = SumFunctionOnSet(g, Refs)
  <2>1. \A r, a : Stay(r, a)' = Stay(r, a)
    BY CostsKept
  <2>2. g = [r \in Refs |-> IF PhaseOf[r] = p THEN Stay(r, assigned[r])' ELSE 0]
    BY DEF Stay
  <2> QED
    BY <2>2 DEF Held
<1>3. HistOK /\ assigned \in [Refs -> Nat]
  BY DEF ShelTypes
<1>4. /\ c.ref \in Refs /\ c.lease \in Nat /\ c.old = assigned[c.ref]
      /\ Stay(c.ref, c.lease) \in Int /\ Stay(c.ref, c.old) \in Int
      /\ PhaseRefCost(p, c.ref, c.old, c.lease) =
           IF p = PhaseOf[c.ref] THEN Stay(c.ref, c.lease) - Stay(c.ref, c.old) ELSE 0
  BY CandidateCost
<1>5. \A r \in Refs : assigned'[r] = IF r = c.ref THEN c.lease ELSE assigned[r]
  BY <1>3
<1>6. ASSUME NEW r \in Refs
      PROVE  f[r] \in Int /\ g[r] \in Int /\ (r # c.ref => g[r] = f[r])
  <2>1. assigned[r] \in Nat /\ assigned'[r] \in Nat
    BY <1>3, <1>4, <1>5
  <2>2. Stay(r, assigned[r]) \in Int /\ Stay(r, assigned'[r]) \in Int
    BY <1>3, <2>1, StayGrows
  <2> QED
    BY <1>5, <2>2
<1>7. /\ f[c.ref] = IF p = PhaseOf[c.ref] THEN Stay(c.ref, c.old) ELSE 0
      /\ g[c.ref] = IF p = PhaseOf[c.ref] THEN Stay(c.ref, c.lease) ELSE 0
  BY <1>4, <1>5
<1> HIDE DEF f, g
<1>8. /\ SumFunctionOnSet(f, Refs) \in Int
      /\ SumFunctionOnSet(g, Refs) = SumFunctionOnSet(f, Refs) + (g[c.ref] - f[c.ref])
  <2>1. IsFiniteSet(Refs)
    BY ShelAssumption
  <2> QED
    BY ONLY <1>4, <1>6, <2>1, SumChanges
<1> QED
  BY <1>1, <1>2, <1>4, <1>7, <1>8

\* A step that gives no lease holds what was held.
LEMMA HeldSame ==
  ASSUME hist' = hist, assigned' = assigned
  PROVE  \A p : Held(p)' = Held(p)
  BY DEF Held, Stay

\* The number of references and the costs, when a candidate is considered.
LEMMA Bound ==
  ASSUME ShelInv, NEW p \in Phases
  PROVE  /\ cost[p] \in Int /\ Budget(p) \in Int /\ Held(p) \in Int
         /\ cost[p] <= Budget(p) /\ Held(p) <= Budget(p)
         /\ p \notin DualPhases => cost[p] = Held(p)
         /\ Unused(p) = Budget(p) - cost[p] /\ (Filled(p) <=> cost[p] = Budget(p))
<1>1. HistOK /\ assigned \in [Refs -> Nat] /\ cost \in [Phases -> Int]
  BY DEF ShelInv, ShelTypes
<1>2. Budget(p) \in Int /\ Held(p) \in Int /\ cost[p] \in Int
  BY <1>1, Amounts
<1> QED
  BY <1>2 DEF ShelInv, CostIsHeld, Unused, Filled

\* A phase whose cost stays, and whose references keep their leases and, if it is
\* neither full nor has its dual lease, their candidates, forgets none.
LEMMA NoneForgottenKept ==
  ASSUME ShelInv, hist' = hist, NEW r \in Refs,
         assigned'[r] = assigned[r], DualPhases \subseteq DualPhases',
         cost[PhaseOf[r]] <= cost'[PhaseOf[r]], cost'[PhaseOf[r]] \in Int,
         Filled(PhaseOf[r]) => cost'[PhaseOf[r]] = cost[PhaseOf[r]],
         \A c \in heap : c.ref = r /\ c.old = assigned[r]
                           => \/ c \in heap'
                              \/ Filled(PhaseOf[r])' \/ (PhaseOf[r] \in DualPhases)'
                              \/ Hopeless(r, c.lease)
  PROVE  Remembered(r)'
<1> DEFINE p == PhaseOf[r]
<1>1. p \in Phases
  BY ShelAssumption
<1>2. /\ cost[p] \in Int /\ Budget(p) \in Int /\ cost[p] <= Budget(p)
      /\ Unused(p) = Budget(p) - cost[p] /\ (Filled(p) <=> cost[p] = Budget(p))
  BY <1>1, Bound
<1>3. Budget(p)' = Budget(p) /\ Sampled(r)' = Sampled(r)
  BY CostsKept
<1>4. Unused(p)' = Budget(p) - cost'[p] /\ (Filled(p)' <=> cost'[p] = Budget(p))
  BY <1>3 DEF Unused, Filled
<1>5. CASE Filled(p) \/ p \in DualPhases
  BY <1>2, <1>4, <1>5 DEF Remembered
<1>6. ASSUME NEW i \in Sampled(r), Hopeless(r, i)
      PROVE  Hopeless(r, i)'
  <2> DEFINE k == 2 * (2 ^ Discretize - 1)
             m == PhaseRefCost(p, r, assigned[r], i)
  <2>1. k * Unused(p) < m
    BY <1>6 DEF Hopeless
  <2>2. PhaseRefCost(p, r, assigned[r], i)' = m
    BY CostsKept DEF PhaseRefCost, Stay
  <2>3. Hopeless(r, i)' <=> k * Unused(p)' < m
    BY <2>2 DEF Hopeless
  <2>4. k \in Nat
    BY Weight
  <2>5. m \in Int
    <3>1. assigned[r] \in Nat /\ i \in Nat /\ HistOK
      BY ShelAssumption DEF ShelInv, ShelTypes, Sampled
    <3>2. Stay(r, i) \in Int /\ Stay(r, assigned[r]) \in Int
      BY <3>1, StayGrows
    <3> QED
      BY <3>2 DEF PhaseRefCost
  <2>6. Unused(p)' <= Unused(p) /\ Unused(p)' \in Int /\ Unused(p) \in Int
    BY <1>2, <1>4
  <2> HIDE DEF k, m
  <2>7. k * Unused(p)' <= k * Unused(p) /\ k * Unused(p)' \in Int /\ k * Unused(p) \in Int
    BY <2>4, <2>6, Times
  <2> QED
    BY <2>1, <2>3, <2>5, <2>7
<1>7. CASE \A i \in Sampled(r) : i > assigned[r] => Awaiting(r, i) \/ Hopeless(r, i)
  <2> SUFFICES ASSUME ~Filled(p)', ~(p \in DualPhases)',
                      NEW i \in Sampled(r), i > assigned[r]
               PROVE  Awaiting(r, i)' \/ Hopeless(r, i)'
    BY <1>3 DEF Remembered
  <2>1. CASE Hopeless(r, i)
    BY <1>6, <2>1
  <2>2. CASE Awaiting(r, i)
    <3>1. PICK c \in heap : c.ref = r /\ c.lease = i /\ c.old = assigned[r]
      BY <2>2 DEF Awaiting
    <3>2. c \in heap' \/ Hopeless(r, i)
      BY <3>1
    <3>3. c \in heap' => Awaiting(r, i)'
      BY <3>1 DEF Awaiting
    <3> QED
      BY <1>6, <3>2, <3>3
  <2> QED
    BY <1>7, <2>1, <2>2
<1> QED
  BY <1>5, <1>7 DEF ShelInv, NoneForgotten, Remembered

\* A step in which no lease is given, and no phase's cost or dual lease changes.
LEMMA SkipKeeps ==
  ASSUME ShelInv, hist' = hist, ~finished, NEW c \in Best, Skip(c)
  PROVE  ShelInv'
<1>1. /\ heap' = heap \ {c} /\ UNCHANGED <<assigned, dual, cost, finished>>
      /\ c \in heap /\ ~finished'
  BY DEF Skip, Best
<1>2. /\ \A p : Held(p)' = Held(p) /\ Budget(p)' = Budget(p)
      /\ \A r, a : Stay(r, a)' = Stay(r, a)
      /\ \A r : Sampled(r)' = Sampled(r)
      /\ DualPhases' = DualPhases
  BY <1>1, HeldSame, CostsKept DEF DualPhases
<1>3. ShelTypes'
  BY <1>1, <1>2 DEF ShelInv, ShelTypes, HistOK
<1>4. CostIsHeld'
  BY <1>1, <1>2 DEF ShelInv, CostIsHeld
<1>5. DualFills' /\ OneDualPerPhase'
  <2>1. \A d \in dual : Stay(d.ref, assigned[d.ref])' = Stay(d.ref, assigned[d.ref])
    BY <1>1, <1>2 DEF Stay
  <2> QED
    BY <1>1, <1>2, <2>1 DEF ShelInv, DualFills, OneDualPerPhase
<1>6. NoneForgotten'
  <2> SUFFICES ASSUME NEW r \in Refs PROVE Remembered(r)'
    BY DEF NoneForgotten
  <2>1. PhaseOf[r] \in Phases
    BY ShelAssumption
  <2>2. cost[PhaseOf[r]] \in Int /\ (Filled(PhaseOf[r])' <=> Filled(PhaseOf[r]))
    BY <1>1, <1>2, <2>1, Bound DEF Filled
  <2>3. ASSUME NEW e \in heap, e.ref = r, e.old = assigned[r]
        PROVE  \/ e \in heap'
               \/ Filled(PhaseOf[r])' \/ (PhaseOf[r] \in DualPhases)'
               \/ Hopeless(r, e.lease)
    <3>1. CASE e # c
      BY <1>1, <3>1
    <3>2. CASE e = c
      <4>1. ~OutOfDate(c)
        BY <2>3, <3>2 DEF OutOfDate
      <4>2. CASE Dropped(c)
        BY <2>2, <2>3, <3>2, <4>1, <4>2 DEF Dropped
      <4>3. CASE PhaseOf[c.ref] \in DualPhases
        BY <1>2, <2>3, <3>2, <4>3
      <4>4. CASE Meaningless(c)
        BY <2>3, <3>2, <4>4 DEF Meaningless, Hopeless
      <4> QED
        BY <4>2, <4>3, <4>4 DEF Skip
    <3> QED
      BY <3>1, <3>2
  <2>4. cost'[PhaseOf[r]] = cost[PhaseOf[r]] /\ assigned'[r] = assigned[r]
        /\ DualPhases \subseteq DualPhases'
    BY <1>1, <1>2
  <2> QED
    BY <2>2, <2>3, <2>4, NoneForgottenKept
<1> QED
  BY <1>1, <1>3, <1>4, <1>5, <1>6 DEF ShelInv

\* A lease that fits is given.
LEMMA AssignKeeps ==
  ASSUME ShelInv, hist' = hist, ~finished, NEW c \in Best, Assign(c)
  PROVE  ShelInv'
<1> DEFINE q == PhaseOf[c.ref]
<1>1. /\ c \in heap /\ ~OutOfDate(c) /\ Fits(c) /\ q \notin DualPhases
      /\ cost' = [p \in Phases |-> cost[p] + PhaseRefCost(p, c.ref, c.old, c.lease)]
      /\ assigned' = [assigned EXCEPT ![c.ref] = c.lease]
      /\ heap' = (heap \ {c}) \cup Candidates(c.ref, c.lease)
      /\ UNCHANGED <<dual, finished>>
  BY DEF Assign, Best, Considered, Dropped
<1>2. ShelTypes
  BY DEF ShelInv
<1>3. /\ c.ref \in Refs /\ q \in Phases /\ c.lease \in Nat /\ c.old = assigned[c.ref]
      /\ c.lease \in Sampled(c.ref)
  <2>1. c.ref \in Refs /\ c.lease \in Sampled(c.ref)
    BY <1>1, <1>2 DEF ShelTypes
  <2>2. q \in Phases
    BY <2>1, ShelAssumption
  <2> QED
    BY <1>1, <1>2, <2>1, <2>2, CandidateCost
<1>4. ASSUME NEW p \in Phases
      PROVE  /\ PhaseRefCost(p, c.ref, c.old, c.lease) \in Nat
             /\ p # q => PhaseRefCost(p, c.ref, c.old, c.lease) = 0
             /\ cost'[p] = cost[p] + PhaseRefCost(p, c.ref, c.old, c.lease)
             /\ Held(p)' = Held(p) + PhaseRefCost(p, c.ref, c.old, c.lease)
             /\ cost'[p] <= Budget(p)
  BY <1>1, <1>2, CandidateCost, HeldGrows DEF Fits
<1>5. /\ \A p : Budget(p)' = Budget(p)
      /\ \A r : Sampled(r)' = Sampled(r)
      /\ \A r, a : Stay(r, a)' = Stay(r, a)
      /\ DualPhases' = DualPhases
  BY <1>1, CostsKept DEF DualPhases
<1>6. \A r \in Refs : assigned'[r] = IF r = c.ref THEN c.lease ELSE assigned[r]
  BY <1>1, <1>2 DEF ShelTypes
<1>7. ShelTypes'
  <2>1. HistOK' /\ assigned' \in [Refs -> Nat] /\ finished' \in BOOLEAN
    BY <1>1, <1>2, <1>3 DEF ShelTypes, HistOK
  <2>2. cost' \in [Phases -> Int]
    <3>1. \A p \in Phases : cost[p] \in Int /\ PhaseRefCost(p, c.ref, c.old, c.lease) \in Int
      BY <1>2, <1>4 DEF ShelTypes
    <3>2. \A p \in Phases : cost[p] + PhaseRefCost(p, c.ref, c.old, c.lease) \in Int
      BY <3>1
    <3> QED
      BY <1>1, <3>2
  <2>3. \A e \in Candidates(c.ref, c.lease) :
           e.ref \in Refs /\ e.old \in Nat /\ e.lease \in Sampled(e.ref) /\ e.old < e.lease
    BY <1>3 DEF Candidates
  <2>4. \A e \in heap' :
           e.ref \in Refs /\ e.old \in Nat /\ e.lease \in Sampled(e.ref) /\ e.old < e.lease
    BY <1>1, <1>2, <2>3 DEF ShelTypes
  <2> QED
    BY <1>5, <2>1, <2>2, <2>4 DEF ShelTypes
<1>8. CostIsHeld'
  <2> SUFFICES ASSUME NEW p \in Phases
               PROVE  /\ cost'[p] <= Budget(p) /\ Held(p)' <= Budget(p)
                      /\ p \notin DualPhases => cost'[p] = Held(p)'
    BY <1>5 DEF CostIsHeld, Held
  <2>1. /\ cost[p] \in Int /\ Held(p) \in Int /\ Held(p) <= Budget(p)
        /\ p \notin DualPhases => cost[p] = Held(p)
    BY Bound
  <2> QED
    BY <1>1, <1>4, <2>1
<1>9. DualFills' /\ OneDualPerPhase'
  <2>1. ASSUME NEW d \in dual
        PROVE  /\ d.ref \in Refs /\ d.num \in Nat /\ d.den \in Nat \ {0}
               /\ d.den = Stay(d.ref, d.lease) - Stay(d.ref, assigned'[d.ref])
               /\ Held(PhaseOf[d.ref])' + d.num = Budget(PhaseOf[d.ref])
    <3>1. /\ d.ref \in Refs /\ d.num \in Nat /\ d.den \in Nat \ {0}
          /\ d.den = Stay(d.ref, d.lease) - Stay(d.ref, assigned[d.ref])
          /\ Held(PhaseOf[d.ref]) + d.num = Budget(PhaseOf[d.ref])
      BY DEF ShelInv, DualFills
    <3>2. PhaseOf[d.ref] \in DualPhases
      BY DEF DualPhases
    <3>3. PhaseOf[d.ref] # q /\ PhaseOf[d.ref] \in Phases
      BY <1>1, <3>1, <3>2, ShelAssumption
    <3>4. assigned'[d.ref] = assigned[d.ref]
      BY <1>6, <3>1, <3>3
    <3>5. Held(PhaseOf[d.ref])' = Held(PhaseOf[d.ref])
      <4>1. Held(PhaseOf[d.ref]) \in Int
        BY <3>3, Bound
      <4> QED
        BY <1>4, <3>3, <4>1
    <3> QED
      BY <3>1, <3>4, <3>5
  <2>2. \A d \in dual : Stay(d.ref, assigned[d.ref])' = Stay(d.ref, assigned'[d.ref])
    BY DEF Stay
  <2>3. \A d \in dual : Held(PhaseOf[d.ref])' + d.num = Budget(PhaseOf[d.ref])'
    BY <1>5, <2>1
  <2>4. DualFills'
    BY <1>1, <1>5, <2>1, <2>2, <2>3 DEF DualFills
  <2> QED
    BY <1>1, <2>4 DEF ShelInv, OneDualPerPhase
<1>10. ASSUME NEW r \in Refs PROVE Remembered(r)'
  <2>1. CASE r = c.ref
    <3>1. ASSUME NEW i \in Sampled(r), i > c.lease
          PROVE  \E e \in Candidates(c.ref, c.lease) : e.ref = r /\ e.lease = i /\ e.old = c.lease
      <4> DEFINE e == [ref |-> r, lease |-> i, old |-> c.lease,
                       hits |-> HitTable(r, i) - HitTable(r, c.lease),
                       cost |-> CostTable(r, i) - CostTable(r, c.lease)]
      <4>1. e \in Candidates(c.ref, c.lease)
        BY <2>1, <3>1 DEF Candidates
      <4> QED
        BY <4>1
    <3>2. \A i \in Sampled(r) : i > assigned'[r] => Awaiting(r, i)'
      <4> SUFFICES ASSUME NEW i \in Sampled(r), i > assigned'[r] PROVE Awaiting(r, i)'
        BY DEF Awaiting
      <4>1. assigned'[r] = c.lease
        BY <1>6, <2>1
      <4>2. \E e \in heap' : e.ref = r /\ e.lease = i /\ e.old = assigned'[r]
        BY <1>1, <3>1, <4>1
      <4> QED
        BY <4>2 DEF Awaiting
    <3> QED
      BY <1>5, <3>2 DEF Remembered
  <2>2. CASE r # c.ref
    <3>1. PhaseOf[r] \in Phases
      BY ShelAssumption
    <3>2. /\ cost[PhaseOf[r]] <= cost'[PhaseOf[r]] /\ cost'[PhaseOf[r]] \in Int
          /\ Filled(PhaseOf[r]) => cost'[PhaseOf[r]] = cost[PhaseOf[r]]
      <4>1. cost[PhaseOf[r]] \in Int /\ (Filled(PhaseOf[r]) <=> cost[PhaseOf[r]] = Budget(PhaseOf[r]))
            /\ Budget(PhaseOf[r]) \in Int
        BY <3>1, Bound
      <4>2. ~Filled(q)
        BY DEF Assign, Considered, Dropped
      <4> QED
        BY <1>4, <3>1, <4>1, <4>2
    <3>3. assigned'[r] = assigned[r]
      BY <1>6, <2>2
    <3>4. \A e \in heap : e.ref = r => e \in heap'
      BY <1>1, <2>2
    <3> QED
      BY <1>5, <3>2, <3>3, <3>4, NoneForgottenKept
  <2> QED
    BY <2>1, <2>2
<1>11. NoneForgotten'
  BY <1>10 DEF NoneForgotten
<1> QED
  BY <1>1, <1>7, <1>8, <1>9, <1>11 DEF ShelInv

\* A lease that fits in part is made a dual lease.
LEMMA AssignDualKeeps ==
  ASSUME ShelInv, hist' = hist, ~finished, NEW c \in Best, AssignDual(c)
  PROVE  ShelInv'
<1> DEFINE q == PhaseOf[c.ref]
           n == [ref |-> c.ref, lease |-> c.lease, num |-> Unused(q),
                 den |-> PhaseRefCost(q, c.ref, c.old, c.lease)]
<1>1. /\ c \in heap /\ ~OutOfDate(c) /\ ~Fits(c) /\ q \notin DualPhases
      /\ dual' = dual \cup {n}
      /\ cost' = IF Threshold(c) THEN cost ELSE [cost EXCEPT ![q] = Budget(q)]
      /\ heap' = heap \ {c}
      /\ UNCHANGED <<assigned, finished>>
  BY DEF AssignDual, Best, Considered, Dropped
<1>2. ShelTypes
  BY DEF ShelInv
<1>3. /\ c.ref \in Refs /\ q \in Phases /\ c.old = assigned[c.ref]
      /\ \A p \in Phases : /\ PhaseRefCost(p, c.ref, c.old, c.lease) \in Nat
                           /\ PhaseRefCost(p, c.ref, c.old, c.lease) =
                                IF p = q THEN Stay(c.ref, c.lease) - Stay(c.ref, c.old) ELSE 0
  <2>1. c.ref \in Refs
    BY <1>1, <1>2 DEF ShelTypes
  <2>2. q \in Phases
    BY <2>1, ShelAssumption
  <2> HIDE DEF n
  <2> QED
    BY <1>1, <1>2, <2>1, <2>2, CandidateCost
<1>4. \A p \in Phases : /\ cost[p] \in Int /\ Budget(p) \in Int /\ Held(p) \in Int
                        /\ cost[p] <= Budget(p) /\ Held(p) <= Budget(p)
                        /\ p \notin DualPhases => cost[p] = Held(p)
                        /\ Unused(p) = Budget(p) - cost[p]
  BY Bound
<1>5. /\ n.ref = c.ref /\ n.num \in Nat /\ n.den \in Nat \ {0}
      /\ n.den = Stay(n.ref, n.lease) - Stay(n.ref, assigned[n.ref])
      /\ Held(q) + n.num = Budget(q)
  <2>1. n.den \in Nat /\ n.den = Stay(c.ref, c.lease) - Stay(c.ref, assigned[c.ref])
    BY <1>3
  <2>2. n.num = Budget(q) - cost[q]
    BY <1>3, <1>4
  <2>3. PICK p \in Phases : ~(cost[p] + PhaseRefCost(p, c.ref, c.old, c.lease) <= Budget(p))
    BY <1>1 DEF Fits
  <2>4. p = q
    BY <1>3, <1>4, <2>3
  <2>5. n.den # 0
    BY <1>3, <1>4, <2>1, <2>3, <2>4
  <2> QED
    BY <1>1, <1>3, <1>4, <2>1, <2>2, <2>5
<1>6. /\ \A p : Held(p)' = Held(p) /\ Budget(p)' = Budget(p)
      /\ \A r : Sampled(r)' = Sampled(r)
      /\ \A r, a : Stay(r, a)' = Stay(r, a)
  BY <1>1, HeldSame, CostsKept
<1> HIDE DEF n
<1>7. DualPhases' = DualPhases \cup {q}
  BY <1>1, <1>5 DEF DualPhases
<1>8. /\ cost' \in [Phases -> Int]
      /\ \A p \in Phases : cost'[p] <= Budget(p) /\ (p # q => cost'[p] = cost[p])
  <2>1. cost \in [Phases -> Int] /\ Budget(q) \in Int
    BY <1>2, <1>3, <1>4 DEF ShelTypes
  <2>2. CASE Threshold(c)
    BY <1>1, <1>4, <2>1, <2>2
  <2>3. CASE ~Threshold(c)
    <3>1. cost' = [cost EXCEPT ![q] = Budget(q)]
      BY <1>1, <2>3
    <3>2. \A p \in Phases : cost'[p] = IF p = q THEN Budget(q) ELSE cost[p]
      BY <2>1, <3>1
    <3>3. cost' \in [Phases -> Int]
      BY <2>1, <3>1
    <3>4. Budget(q) <= Budget(q)
      BY <2>1
    <3> HIDE DEF q
    <3> QED
      BY ONLY <1>4, <3>2, <3>3, <3>4
  <2> QED
    BY <2>2, <2>3
<1>9. ShelTypes'
  BY <1>1, <1>2, <1>6, <1>8 DEF ShelTypes, HistOK
<1>10. CostIsHeld'
  <2> SUFFICES ASSUME NEW p \in Phases
               PROVE  /\ cost'[p] <= Budget(p) /\ Held(p) <= Budget(p)
                      /\ p \notin DualPhases' => cost'[p] = Held(p)
    BY <1>6 DEF CostIsHeld
  <2> QED
    BY <1>4, <1>7, <1>8
<1>11. DualFills' /\ OneDualPerPhase'
  <2>1. ASSUME NEW d \in dual'
        PROVE  /\ d.ref \in Refs /\ d.num \in Nat /\ d.den \in Nat \ {0}
               /\ d.den = Stay(d.ref, d.lease) - Stay(d.ref, assigned[d.ref])
               /\ Held(PhaseOf[d.ref]) + d.num = Budget(PhaseOf[d.ref])
    <3>1. CASE d \in dual
      BY <3>1 DEF ShelInv, DualFills
    <3>2. CASE d = n
      BY <1>3, <1>5, <3>2
    <3> QED
      BY <1>1, <3>1, <3>2
  <2>2. \A d \in dual' : Stay(d.ref, assigned[d.ref])' = Stay(d.ref, assigned[d.ref])
    BY <1>1, <1>6 DEF Stay
  <2>3. DualFills'
    BY <1>6, <2>1, <2>2 DEF DualFills
  <2>4. \A d \in dual : PhaseOf[d.ref] # q
    BY <1>1 DEF DualPhases
  <2>5. \A d, e \in dual' : PhaseOf[d.ref] = PhaseOf[e.ref] => d = e
    BY <1>1, <1>5, <2>4 DEF ShelInv, OneDualPerPhase
  <2> QED
    BY <2>3, <2>5 DEF OneDualPerPhase
<1>12. ASSUME NEW r \in Refs PROVE Remembered(r)'
  <2>1. CASE PhaseOf[r] = q
    BY <1>7, <2>1 DEF Remembered
  <2>2. CASE PhaseOf[r] # q
    <3>1. PhaseOf[r] \in Phases
      BY ShelAssumption
    <3>2. cost'[PhaseOf[r]] = cost[PhaseOf[r]] /\ cost[PhaseOf[r]] \in Int
          /\ cost[PhaseOf[r]] <= cost'[PhaseOf[r]]
      BY <1>4, <1>8, <2>2, <3>1
    <3>3. \A e \in heap : e.ref = r => e \in heap'
      BY <1>1, <2>2
    <3> QED
      BY <1>1, <1>7, <3>2, <3>3, NoneForgottenKept
  <2> QED
    BY <2>1, <2>2
<1>13. NoneForgotten'
  BY <1>12 DEF NoneForgotten
<1> QED
  BY <1>1, <1>9, <1>10, <1>11, <1>13 DEF ShelInv

\* The end changes nothing that was given.
LEMMA EndKeeps ==
  ASSUME ShelInv, hist' = hist, Finish \/ UNCHANGED shelVars
  PROVE  ShelInv'
<1>1. /\ UNCHANGED <<heap, assigned, dual, cost>>
      /\ finished' \in BOOLEAN
      /\ finished' => heap = {} \/ DualPhases = Phases
  <2>1. CASE Finish
    BY <2>1 DEF Finish
  <2>2. CASE UNCHANGED shelVars
    BY <2>2 DEF shelVars, ShelInv, ShelTypes
  <2> QED
    BY <2>1, <2>2
<1>2. /\ \A p : Held(p)' = Held(p) /\ Budget(p)' = Budget(p)
      /\ \A r : Sampled(r)' = Sampled(r)
      /\ DualPhases' = DualPhases
  BY <1>1, HeldSame, CostsKept DEF DualPhases
<1>3. ShelTypes' /\ CostIsHeld'
  BY <1>1, <1>2 DEF ShelInv, ShelTypes, CostIsHeld, HistOK
<1>4. DualFills' /\ OneDualPerPhase'
  <2>1. \A d \in dual : Stay(d.ref, assigned[d.ref])' = Stay(d.ref, assigned[d.ref])
                        /\ Stay(d.ref, d.lease)' = Stay(d.ref, d.lease)
    BY <1>1 DEF Stay
  <2> QED
    BY <1>1, <1>2, <2>1 DEF ShelInv, DualFills, OneDualPerPhase
<1>5. NoneForgotten'
  BY <1>1 DEF ShelInv, NoneForgotten, Remembered, Filled, Budget, Samples, DualPhases,
       Sampled, Awaiting, Hopeless, Unused, PhaseRefCost, Stay
<1> QED
  BY <1>1, <1>2, <1>3, <1>4, <1>5 DEF ShelInv

-----------------------------------------------------------------------------
(* Theorems.                                                                *)

\* What comes off the heap is passed over, given, given in part, or ends the loop.
LEMMA ShelInvStep == ShelInv /\ [ShelNext]_shelVars => ShelInv'
<1> SUFFICES ASSUME ShelInv, [ShelNext]_shelVars PROVE ShelInv'
  OBVIOUS
<1>1. hist' = hist
  BY DEF ShelNext, shelVars
<1>2. CASE ShelNext
  <2>1. ~finished
    BY <1>2 DEF ShelNext
  <2>2. ASSUME NEW c \in Best, Skip(c) PROVE ShelInv'
    BY <1>1, <2>1, <2>2, SkipKeeps
  <2>3. ASSUME NEW c \in Best, Assign(c) PROVE ShelInv'
    BY <1>1, <2>1, <2>3, AssignKeeps
  <2>4. ASSUME NEW c \in Best, AssignDual(c) PROVE ShelInv'
    BY <1>1, <2>1, <2>4, AssignDualKeeps
  <2>5. CASE Finish
    BY <1>1, <2>5, EndKeeps
  <2> QED
    BY <1>2, <2>2, <2>3, <2>4, <2>5 DEF ShelNext
<1>3. CASE UNCHANGED shelVars
  BY <1>1, <1>3, EndKeeps
<1> QED
  BY <1>2, <1>3

\* What a dual lease takes is what its probability says.
LEMMA Share ==
  ASSUME NEW m \in Nat \ {0}, NEW k \in Nat
  PROVE  (m * k) \div m = k
<1>1. \A x \in Nat \ {0}, y \in Nat : (x * y) \div x = y
  OBVIOUS
<1> QED
  BY <1>1

\* A dual lease, by its probability, takes just what is left.
LEMMA InvFits == ShelInv => LeasesFit
<1> SUFFICES ASSUME ShelInv, NEW p \in Phases
             PROVE  /\ \A d, e \in {d \in dual : PhaseOf[d.ref] = p} : d = e
                    /\ Held(p) <= Budget(p)
                    /\ \A d \in dual : PhaseOf[d.ref] = p =>
                         Held(p) + ((Stay(d.ref, d.lease) - Stay(d.ref, assigned[d.ref]))
                                      * d.num) \div d.den <= Budget(p)
  BY DEF LeasesFit
<1>1. Held(p) \in Int /\ Budget(p) \in Int /\ Held(p) <= Budget(p)
  BY Bound
<1>2. ASSUME NEW d \in dual, PhaseOf[d.ref] = p
      PROVE  Held(p) + ((Stay(d.ref, d.lease) - Stay(d.ref, assigned[d.ref]))
                          * d.num) \div d.den <= Budget(p)
  <2>1. /\ d.num \in Nat /\ d.den \in Nat \ {0}
        /\ d.den = Stay(d.ref, d.lease) - Stay(d.ref, assigned[d.ref])
        /\ Held(p) + d.num = Budget(p)
    BY <1>2 DEF ShelInv, DualFills
  <2>2. (d.den * d.num) \div d.den = d.num
    BY <2>1, Share
  <2> QED
    BY <1>1, <2>1, <2>2
<1>3. \A d, e \in {d \in dual : PhaseOf[d.ref] = p} : d = e
  BY DEF ShelInv, OneDualPerPhase
<1> QED
  BY <1>1, <1>2, <1>3

\* At the end no candidates are left, or no phase is without a dual lease.
LEMMA InvRoom == ShelInv => NoRoomWasted
<1> SUFFICES ASSUME ShelInv, finished, NEW r \in Refs
             PROVE  \/ Filled(PhaseOf[r]) \/ PhaseOf[r] \in DualPhases
                    \/ \A i \in Sampled(r) : i > assigned[r] =>
                         2 * (2 ^ Discretize - 1) * Unused(PhaseOf[r])
                           < PhaseRefCost(PhaseOf[r], r, assigned[r], i)
  BY DEF NoRoomWasted
<1>1. heap = {} \/ DualPhases = Phases
  BY DEF ShelInv
<1>2. PhaseOf[r] \in Phases
  BY ShelAssumption
<1>3. heap = {} => \A i : ~Awaiting(r, i)
  BY DEF Awaiting
<1> QED
  BY <1>1, <1>2, <1>3 DEF ShelInv, NoneForgotten, Remembered, Hopeless

\* The leases that CLAM hands out under SHEL fit into the cache (shel_cshel), for any
\* program, any samples of its reuses and any size of the cache.
THEOREM ShelFits == ShelSpec => []LeasesFit
<1>1. ShelSpec => []ShelInv
  BY ShelInvInit, ShelInvStep, PTL DEF ShelSpec
<1> QED
  BY <1>1, InvFits, PTL

\* And no phase that is left with room has a reference whose longer lease could have
\* used it (shel_cshel).
THEOREM ShelUsesRoom == ShelSpec => []NoRoomWasted
<1>1. ShelSpec => []ShelInv
  BY ShelInvInit, ShelInvStep, PTL DEF ShelSpec
<1> QED
  BY <1>1, InvRoom, PTL

=============================================================================
