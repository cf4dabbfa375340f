---------------------------- MODULE PolicyProofs ----------------------------
(***************************************************************************)
(* Proofs about the replacement policies, each on its own: the recency     *)
(* stack (LRU and MRU) for a set of any size, the lease policy for a cache *)
(* of any size, leases of any length and a default counter of any width,   *)
(* SRRIP for any number of lines and any width of its registers, and the   *)
(* tree of pseudo LRU with any number of layers.                           *)
(***************************************************************************)
EXTENDS RecencyStack, LeasePolicy, RripIntervals, PlruTree,
        FiniteSetTheorems, WellFoundedInduction, TLAPS

-----------------------------------------------------------------------------
(* The recency stack.  StackInv holds for LRU and MRU alike; LruInv adds    *)
(* what holds when the victim is the line at position N-1.                  *)

\* Lines that cold start has reached, and whose registers are initialised.
Reached == 0 .. counter

DistinctPositions == \A i, j \in Reached : pStack[i] = pStack[j] => i = j

PositionsInRange == \A i \in Reached : pStack[i] \in Reached

EveryPositionHeld == \A q \in Reached : \E l \in Reached : pStack[l] = q

StackInv ==
  /\ TypeOK
  /\ DistinctPositions
  /\ PositionsInRange
  /\ EveryPositionHeld
  /\ valid \subseteq Reached
  /\ filling => addr \in Reached

\* How far the set has filled: the lines below counter are valid, but for the
\* one that is being filled, and counter's own line becomes valid last.
FillProgress ==
  \/ ~filling /\ valid = 0 .. counter - 1
  \/ counter = N - 1 /\ valid = Line
  \/ filling /\ counter = addr + 1 /\ valid = 0 .. addr - 1
  \/ filling /\ counter = N - 1 /\ addr = N - 1 /\ valid = 0 .. N - 2

PositionsFollowRecency ==
  \A i, j \in valid : i # j => (j \in older[i] <=> pStack[i] < pStack[j])

LruInv ==
  /\ StackInv
  /\ FillProgress
  /\ counter \notin valid => pStack[counter] = counter
  /\ filling /\ addr \in valid => pStack[addr] = N - 1
  /\ PositionsFollowRecency
-----------------------------------------------------------------------------
(***************************************************************************)
(* What one move to the front does to the positions.                       *)
(***************************************************************************)
LEMMA PushKeepsStack ==
  ASSUME StackInv, NEW l \in Reached, PushToFront(l), counter' = counter
  PROVE  /\ pStack' \in [Line -> Line]
         /\ DistinctPositions'
         /\ PositionsInRange'
         /\ EveryPositionHeld'
<1> USE StackAssumption DEF StackInv, TypeOK, Line, Reached, PushToFront
<1>1. pStack' \in [Line -> Line]
  OBVIOUS
<1>2. ASSUME NEW i \in Reached, NEW j \in Reached, pStack'[i] = pStack'[j]
      PROVE  i = j
  BY <1>2 DEF DistinctPositions
<1>3. ASSUME NEW i \in Reached
      PROVE  pStack'[i] \in Reached
  BY DEF PositionsInRange
<1>4. ASSUME NEW q \in Reached
      PROVE  \E m \in Reached : pStack'[m] = q
  <2>1. CASE q = 0
    BY <2>1
  <2>2. CASE q > pStack[l]
    <3>1. PICK m \in Reached : pStack[m] = q
      BY DEF EveryPositionHeld
    <3>2. pStack'[m] = q
      BY <3>1, <2>2
    <3> QED BY <3>2
  <2>3. CASE q # 0 /\ q <= pStack[l]
    <3>1. q - 1 \in Reached
      BY <2>3
    <3>2. PICK m \in Reached : pStack[m] = q - 1
      BY <3>1 DEF EveryPositionHeld
    <3>3. pStack'[m] = q
      BY <3>2, <2>3
    <3> QED BY <3>3
  <2>4. q = 0 \/ q > pStack[l] \/ (q # 0 /\ q <= pStack[l])
    OBVIOUS
  <2> QED BY <2>1, <2>2, <2>3, <2>4, Zenon
<1> QED
  BY <1>1, <1>2, <1>3, <1>4
     DEF DistinctPositions, PositionsInRange, EveryPositionHeld

\* A move to the front makes recency and position agree on a larger set too.
LEMMA PushKeepsRecency ==
  ASSUME StackInv, PositionsFollowRecency, NEW l \in Reached,
         PushToFront(l), Referenced(l), valid' = valid \cup {l}
  PROVE  PositionsFollowRecency'
<1> SUFFICES ASSUME NEW i \in valid', NEW j \in valid', i # j
             PROVE  j \in older'[i] <=> pStack'[i] < pStack'[j]
  BY DEF PositionsFollowRecency
<1> USE StackAssumption DEF StackInv, TypeOK, Line, Reached
<1>1. /\ i \in Reached /\ j \in Reached
      /\ \A k \in Reached : pStack[k] \in Nat
  OBVIOUS
<1>2. pStack[i] # pStack[j]
  BY <1>1 DEF DistinctPositions
<1>3. CASE i = l
  BY <1>1, <1>2, <1>3 DEF PushToFront, Referenced
<1>4. CASE j = l
  BY <1>1, <1>2, <1>4 DEF PushToFront, Referenced
<1>5. CASE i # l /\ j # l
  <2>1. j \in older[i] <=> pStack[i] < pStack[j]
    BY <1>5 DEF PositionsFollowRecency
  <2>2. j \in older'[i] <=> j \in older[i]
    BY <1>1, <1>5 DEF Referenced
  <2>3. pStack[i] # pStack[l] /\ pStack[j] # pStack[l]
    BY <1>1, <1>5 DEF DistinctPositions
  <2>4. pStack'[i] < pStack'[j] <=> pStack[i] < pStack[j]
    BY <1>1, <1>2, <1>5, <2>3 DEF PushToFront
  <2> QED BY <2>1, <2>2, <2>4, Zenon
<1> QED BY <1>3, <1>4, <1>5, Zenon

\* The encoder's victim is a line.
LEMMA EncodeInSet ==
  ASSUME NEW S \in SUBSET Line
  PROVE  Encode(S) \in Line /\ (S # {} => Encode(S) \in S)
<1>1. CASE S = {}
  BY <1>1, StackAssumption DEF Encode, Line
<1>2. CASE S # {}
  <2>1. PICK l \in S : TRUE
    BY <1>2
  <2> QED BY <1>2, <2>1 DEF Encode
<1> QED BY <1>1, <1>2
-----------------------------------------------------------------------------
(***************************************************************************)
(* The invariant of both policies.                                         *)
(***************************************************************************)
LEMMA StackInit == Init => StackInv
<1> SUFFICES ASSUME Init PROVE StackInv
  OBVIOUS
<1> USE StackAssumption DEF Init, Line, Reached
<1>1. TypeOK
  <2>1. 0 \in Line
    OBVIOUS
  <2>2. pStack \in [Line -> Line] /\ older \in [Line -> SUBSET Line]
    BY <2>1, Zenon
  <2> QED BY <2>1, <2>2 DEF TypeOK
<1>2. Reached = {0} /\ pStack[0] = 0
  OBVIOUS
<1>3. DistinctPositions /\ PositionsInRange /\ EveryPositionHeld
  BY <1>2 DEF DistinctPositions, PositionsInRange, EveryPositionHeld
<1> QED BY <1>1, <1>3 DEF StackInv

\* Hits, misses and refills keep the stack.
LEMMA StackStep == StackInv /\ [Next]_vars => StackInv'
<1> SUFFICES ASSUME StackInv, [Next]_vars PROVE StackInv'
  OBVIOUS
<1> USE StackAssumption
<1>1. ASSUME NEW l \in Line, Hit(l) PROVE StackInv'
  <2>1. l \in Reached /\ Reached' = Reached
    BY <1>1 DEF Hit, StackInv, Reached
  <2>2. DistinctPositions' /\ PositionsInRange' /\ EveryPositionHeld'
        /\ pStack' \in [Line -> Line]
    BY <1>1, <2>1, PushKeepsStack DEF Hit
  <2>3. older' \in [Line -> SUBSET Line]
    BY <1>1 DEF Hit, Referenced, StackInv, TypeOK
  <2> QED BY <1>1, <2>1, <2>2, <2>3 DEF Hit, StackInv, TypeOK
<1>2. CASE ColdMiss
  <2> USE <1>2 DEF ColdMiss, StackInv, TypeOK, Line, Reached
  <2>1. /\ counter \in Nat /\ counter + 1 \in Line
        /\ pStack' \in [Line -> Line]
        /\ pStack'[counter + 1] = counter + 1
        /\ \A l \in Reached : pStack'[l] = pStack[l]
        /\ Reached' = Reached \cup {counter + 1}
        /\ addr' \in Reached'
    <3>1. counter \in Nat /\ counter + 1 \in Line
      OBVIOUS
    <3>2. /\ pStack' \in [Line -> Line]
          /\ pStack'[counter + 1] = counter + 1
          /\ \A l \in Reached : pStack'[l] = pStack[l]
      OBVIOUS
    <3>3. Reached' = Reached \cup {counter + 1}
      OBVIOUS
    <3>4. addr' \in Reached'
      OBVIOUS
    <3> QED BY ONLY <3>1, <3>2, <3>3, <3>4
  <2>2. PositionsInRange'
    BY <2>1 DEF PositionsInRange
  <2>3. DistinctPositions'
    <3> SUFFICES ASSUME NEW i \in Reached', NEW j \in Reached',
                        pStack'[i] = pStack'[j]
                 PROVE  i = j
      BY Zenon DEF DistinctPositions
    <3>1. CASE i \in Reached /\ j \in Reached
      BY <2>1, <3>1 DEF DistinctPositions
    <3>2. \A l \in Reached : pStack[l] # counter + 1
      BY DEF PositionsInRange
    <3> QED BY ONLY <2>1, <3>1, <3>2, i \in Reached', j \in Reached',
                    pStack'[i] = pStack'[j]
  <2>4. EveryPositionHeld'
    BY <2>1 DEF EveryPositionHeld
  <2> QED BY <2>1, <2>2, <2>3, <2>4
<1>3. CASE WarmMiss
  <2>1. addr' \in Line
    BY <1>3, EncodeInSet DEF WarmMiss
  <2> QED
    BY <1>3, <2>1
       DEF WarmMiss, StackInv, TypeOK, Line, Reached, DistinctPositions,
           PositionsInRange, EveryPositionHeld
<1>4. CASE Refill
  <2>1. addr \in Reached /\ Reached' = Reached
    BY <1>4 DEF Refill, StackInv, Reached
  <2>2. DistinctPositions' /\ PositionsInRange' /\ EveryPositionHeld'
        /\ pStack' \in [Line -> Line]
    BY <1>4, <2>1, PushKeepsStack DEF Refill
  <2>3. older' \in [Line -> SUBSET Line]
    BY <1>4 DEF Refill, Referenced, StackInv, TypeOK
  <2> QED BY <1>4, <2>1, <2>2, <2>3 DEF Refill, StackInv, TypeOK
<1>5. CASE UNCHANGED vars
  BY <1>5 DEF vars, StackInv, TypeOK, Line, Reached, DistinctPositions,
              PositionsInRange, EveryPositionHeld
<1> QED BY <1>1, <1>2, <1>3, <1>4, <1>5 DEF Next

\* The stack's invariant, for both policies.
LEMMA StackInvariance == Spec => []StackInv
BY StackInit, StackStep, PTL DEF Spec

\* The registers keep their ranges, for either policy and any set size.
THEOREM RecencyStackTypeOK == Spec => []TypeOK
<1>1. StackInv => TypeOK
  BY DEF StackInv
<1> QED BY <1>1, StackInvariance, PTL

\* The reduction bits are one-hot: among the reached lines every position is
\* held by exactly one.
THEOREM PositionsAreOrdinal == Spec => []OrdinalPositions
<1>1. StackInv => OrdinalPositions
  BY DEF StackInv, OrdinalPositions, EveryPositionHeld, DistinctPositions,
         Reached
<1> QED BY <1>1, StackInvariance, PTL
-----------------------------------------------------------------------------
(***************************************************************************)
(* LRU: the victim is the line at position N-1.                            *)
(***************************************************************************)
LEMMA LruInit == Init => LruInv
<1>1. ASSUME Init
      PROVE FillProgress /\ (counter \notin valid => pStack[counter] = counter)
            /\ PositionsFollowRecency /\ ~filling
  BY <1>1, StackAssumption DEF Init, FillProgress, PositionsFollowRecency, Line
<1> QED BY <1>1, StackInit DEF LruInv

\* LRU's invariant is kept where the victim is the last position's line.
LEMMA LruStep ==
  ASSUME VictimDepth = N - 1
  PROVE  LruInv /\ [Next]_vars => LruInv'
<1> SUFFICES ASSUME LruInv, [Next]_vars PROVE LruInv'
  OBVIOUS
<1> USE StackAssumption
<1>0. StackInv /\ StackInv'
  BY StackStep DEF LruInv
<1>1. ASSUME NEW l \in Line, Hit(l) PROVE LruInv'
  <2>1. l \in Reached /\ valid' = valid \cup {l}
    BY <1>1, <1>0 DEF Hit, StackInv
  <2>2. PositionsFollowRecency'
    BY <1>1, <1>0, <2>1, PushKeepsRecency DEF Hit, LruInv
  <2>3. FillProgress'
    BY <1>1 DEF Hit, LruInv, FillProgress
  <2>4. counter' \notin valid' => pStack'[counter'] = counter'
    BY <1>0, <1>1, <2>1
       DEF Hit, LruInv, StackInv, TypeOK, PushToFront, PositionsInRange,
           Reached, Line
  <2> QED BY <1>0, <1>1, <2>2, <2>3, <2>4 DEF LruInv, Hit
<1>2. CASE ColdMiss
  <2>1. valid = 0 .. counter - 1 /\ counter \in Nat /\ counter # N - 1
    BY <1>0, <1>2 DEF ColdMiss, LruInv, FillProgress, StackInv, TypeOK, Line
  <2>2. FillProgress'
    BY <2>1, <1>2 DEF ColdMiss, FillProgress
  <2>3. pStack'[counter'] = counter'
    BY <1>0, <1>2, <2>1 DEF ColdMiss, StackInv, TypeOK, Line
  <2>4. addr' \notin valid'
    BY <2>1, <1>2 DEF ColdMiss
  <2>5. PositionsFollowRecency'
    <3>1. valid' = valid /\ older' = older
      BY <1>2 DEF ColdMiss
    <3>2. \A l \in valid : pStack'[l] = pStack[l]
      BY <1>0, <1>2, <2>1 DEF ColdMiss, StackInv, TypeOK, Line
    <3> QED BY <3>1, <3>2 DEF PositionsFollowRecency, LruInv
  <2> QED BY <1>0, <2>2, <2>3, <2>4, <2>5 DEF LruInv
<1>3. CASE WarmMiss
  <2>1. counter = N - 1 /\ Reached = Line
    BY <1>3 DEF WarmMiss, Reached, Line
  <2>2. PICK l \in Line : pStack[l] = N - 1
    BY <1>0, <2>1 DEF StackInv, EveryPositionHeld, Line
  <2>3. addr' \in Line /\ pStack[addr'] = N - 1
    <3>1. l \in {m \in Line : pStack[m] = VictimDepth}
      BY <2>2
    <3> HIDE <2>2
    <3>2. Encode({m \in Line : pStack[m] = VictimDepth})
             \in {m \in Line : pStack[m] = VictimDepth}
      BY <3>1, EncodeInSet
    <3> QED BY <3>2, <1>3 DEF WarmMiss
  <2>4. FillProgress'
    <3>1. CASE valid = Line
      BY <3>1, <2>1, <1>3 DEF WarmMiss, FillProgress
    <3>2. CASE valid = 0 .. counter - 1
      <4>1. pStack[N - 1] = N - 1
        BY <3>2, <2>1 DEF LruInv
      <4>2. addr' = N - 1
        BY <4>1, <2>1, <2>3, <1>0 DEF StackInv, DistinctPositions, Line
      <4> QED BY <4>2, <3>2, <2>1, <1>3 DEF WarmMiss, FillProgress
    <3> QED BY <3>1, <3>2, <1>3 DEF LruInv, FillProgress, WarmMiss
  <2> QED
    BY <1>0, <1>3, <2>3, <2>4
       DEF WarmMiss, LruInv, PositionsFollowRecency
<1>4. CASE Refill
  <2>1. addr \in Reached
    BY <1>0, <1>4 DEF Refill, StackInv
  <2>2. PositionsFollowRecency'
    BY <1>4, <1>0, <2>1, PushKeepsRecency DEF Refill, LruInv
  <2>3. FillProgress'
    <3>1. /\ counter \in 0 .. N - 1 /\ addr \in 0 .. N - 1
          /\ counter' = counter /\ ~filling' /\ valid' = valid \cup {addr}
      BY <1>0, <1>4 DEF Refill, StackInv, TypeOK, Line
    <3>2. CASE counter = N - 1 /\ valid = Line
      BY <3>1, <3>2 DEF FillProgress, Line
    <3>3. CASE counter = addr + 1 /\ valid = 0 .. addr - 1
      BY <3>1, <3>3 DEF FillProgress
    <3>4. CASE counter = N - 1 /\ addr = N - 1 /\ valid = 0 .. N - 2
      BY <3>1, <3>4 DEF FillProgress, Line
    <3> QED BY <1>4, <3>2, <3>3, <3>4 DEF Refill, LruInv, FillProgress
  <2>4. counter' \notin valid' => pStack'[counter'] = counter'
    BY <1>0, <1>4, <2>1
       DEF Refill, LruInv, StackInv, TypeOK, PushToFront, PositionsInRange,
           Reached, Line
  <2> QED BY <1>0, <1>4, <2>2, <2>3, <2>4 DEF LruInv, Refill
<1>5. CASE UNCHANGED vars
  BY <1>0, <1>5 DEF vars, LruInv, FillProgress, PositionsFollowRecency
<1> QED BY <1>1, <1>2, <1>3, <1>4, <1>5 DEF Next

\* LRU's invariant.
LEMMA LruInvariance == ASSUME VictimDepth = N - 1 PROVE Spec => []LruInv
BY LruInit, LruStep, PTL DEF Spec

\* An LRU set fills every empty line before it evicts a valid one.
THEOREM LruFillsBeforeEvicting ==
  ASSUME VictimDepth = N - 1 PROVE Spec => []FillsBeforeEvicting
<1>1. LruInv => FillsBeforeEvicting
  BY StackAssumption
     DEF LruInv, FillsBeforeEvicting, FillProgress, StackInv, TypeOK, Line
<1> QED BY <1>1, LruInvariance, PTL

\* The line an LRU set evicts is the one whose last reference is oldest.
THEOREM LruEvictsLeastRecent ==
  ASSUME VictimDepth = N - 1 PROVE Spec => []EvictsLeastRecent
<1>1. ASSUME LruInv PROVE EvictsLeastRecent
  <2> SUFFICES ASSUME filling, addr \in valid, NEW l \in valid \ {addr}
               PROVE  addr \in older[l]
    BY DEF EvictsLeastRecent
  <2>1. pStack[addr] = N - 1 /\ addr \in Reached /\ l \in Reached
    BY <1>1 DEF LruInv, StackInv
  <2>2. pStack[l] \in 0 .. N - 1 /\ pStack[l] # pStack[addr]
    BY <1>1, <2>1
       DEF LruInv, StackInv, DistinctPositions, TypeOK, Line, Reached
  <2> QED BY <1>1, <2>1, <2>2, StackAssumption
             DEF LruInv, PositionsFollowRecency
<1> QED BY <1>1, LruInvariance, PTL

-----------------------------------------------------------------------------
(* The lease policy: leases count references, and running ones are kept.    *)

FollowupExpected == missFollowup <=> phase # "normal"

\* The history and the register count the same references.
DefaultCounted == defaultCounter = untabled

\* How far the cache has filled: while it is not full the lines below the
\* counter are valid, but for the one that is being filled.
ColdStartProgress ==
  \/ ~fullFlag /\ phase # "fill" /\ resident = 0 .. coldCounter - 1
  \/ /\ ~fullFlag /\ phase = "fill"
     /\ coldCounter = leaseAddr + 1 /\ resident = 0 .. leaseAddr - 1
  \/ /\ fullFlag /\ phase = "fill"
     /\ leaseAddr = Lines - 1 /\ resident = 0 .. Lines - 2
  \/ fullFlag /\ resident = CacheLine

VictimJustified ==
  Replacing => leases[leaseAddr] = 0 \/ Expired = {} \/ defaultCounter = Saturated

LeaseInv ==
  /\ LeaseTypeOK
  /\ FollowupExpected
  /\ DefaultCounted
  /\ LeasesCountReferences
  /\ ColdStartProgress
  /\ VictimJustified

-----------------------------------------------------------------------------
(***************************************************************************)
(* One reference: the registers and the history move together.             *)
(***************************************************************************)
LEMMA DecrementedCounts ==
  ASSUME LeaseTypeOK, LeasesCountReferences, NEW l \in CacheLine
  PROVE  /\ Decremented[l] \in Lease
         /\ Age(l) \in Lease
         /\ Decremented[l] = IF granted[l] > Age(l) THEN granted[l] - Age(l) ELSE 0
<1> USE PolicyAssumption DEF LeaseTypeOK, Lease
<1>1. /\ leases[l] \in 0 .. MaxLease
      /\ granted[l] \in 0 .. MaxLease
      /\ since[l] \in 0 .. MaxLease
  OBVIOUS
<1>2. leases[l] = IF granted[l] > since[l] THEN granted[l] - since[l] ELSE 0
  BY DEF LeasesCountReferences, Remaining
<1>3. Decremented[l] = IF leases[l] = 0 THEN 0 ELSE leases[l] - 1
  BY DEF Decremented
<1>4. Age(l) = IF since[l] < MaxLease THEN since[l] + 1 ELSE since[l]
  BY DEF Age
<1> QED BY <1>1, <1>2, <1>3, <1>4

\* The default counter counts what the history counts.
LEMMA CountersAgree ==
  ASSUME LeaseTypeOK, DefaultCounted, NEW tabled \in BOOLEAN,
         CountDefault(tabled), Seen(tabled)
  PROVE  /\ defaultCounter' \in 0 .. Saturated
         /\ untabled' \in 0 .. Saturated
         /\ DefaultCounted'
<1>1. defaultCounter \in 0 .. Saturated /\ untabled = defaultCounter
  BY DEF LeaseTypeOK, DefaultCounted
<1>2. CASE tabled
  BY <1>2, PolicyAssumption DEF CountDefault, Seen, DefaultCounted
<1>3. CASE ~tabled
  BY <1>1, <1>3, PolicyAssumption DEF CountDefault, Seen, DefaultCounted
<1> QED BY <1>2, <1>3

\* What a reference is due is a lease.
LEMMA DueIsLease ==
  ASSUME LeaseTypeOK, NEW tabled \in BOOLEAN, NEW v \in Lease
  PROVE  Due(tabled, v) \in Lease
BY DEF LeaseTypeOK, Due

-----------------------------------------------------------------------------
\* Reset grants no lease.
LEMMA InitSatisfiesInv == LeaseInit => LeaseInv
<1> SUFFICES ASSUME LeaseInit PROVE LeaseInv
  OBVIOUS
<1> USE PolicyAssumption DEF LeaseInit
<1>1. LeaseTypeOK
  <2>1. 0 \in CacheLine /\ 0 \in Lease /\ 0 \in 0 .. Saturated
    BY DEF CacheLine, Lease
  <2>2. fullFlag \in BOOLEAN /\ missFollowup \in BOOLEAN /\ resident \in SUBSET CacheLine
    OBVIOUS
  <2>3. /\ leases \in [CacheLine -> Lease]
        /\ granted \in [CacheLine -> Lease]
        /\ since \in [CacheLine -> Lease]
    BY <2>1
  <2> QED BY <2>1, <2>2, <2>3 DEF LeaseTypeOK
<1>2. FollowupExpected /\ DefaultCounted
  BY DEF FollowupExpected, DefaultCounted
<1>3. LeasesCountReferences
  BY DEF LeasesCountReferences, Remaining
<1>4. ColdStartProgress
  BY DEF ColdStartProgress
<1>5. VictimJustified
  BY DEF VictimJustified, Replacing
<1> QED BY <1>1, <1>2, <1>3, <1>4, <1>5 DEF LeaseInv

(***************************************************************************)
(* A reference that misses ages every line alike.                          *)
(***************************************************************************)
LEMMA MissAges ==
  ASSUME LeaseInv, NEW tabled \in BOOLEAN, NEW v \in Lease, phase = "normal",
         leases' = Decremented, CountDefault(tabled), Aged, Seen(tabled),
         phase' \in {"normal", "generate"},
         savedLease' \in Lease, missFollowup' \in BOOLEAN,
         missFollowup' <=> phase' # "normal",
         UNCHANGED <<coldCounter, fullFlag, leaseAddr, defaultLease, resident>>
  PROVE  LeaseInv'
<1> USE DEF LeaseInv
<1>1. \A l \in CacheLine :
        /\ Decremented[l] \in Lease
        /\ Age(l) \in Lease
        /\ Decremented[l] = IF granted[l] > Age(l) THEN granted[l] - Age(l) ELSE 0
  BY DecrementedCounts
<1>2. /\ leases' = [l \in CacheLine |-> Decremented[l]]
      /\ since' = [l \in CacheLine |-> Age(l)]
      /\ granted' = granted
  BY DEF Aged, Decremented
<1>3. /\ defaultCounter' \in 0 .. Saturated
      /\ untabled' \in 0 .. Saturated
      /\ DefaultCounted'
  BY CountersAgree
<1>4. LeaseTypeOK'
  BY <1>1, <1>2, <1>3 DEF LeaseTypeOK
<1>5. FollowupExpected'
  BY DEF FollowupExpected
<1>6. LeasesCountReferences'
  BY <1>1, <1>2 DEF LeasesCountReferences, Remaining
<1>7. ColdStartProgress'
  BY DEF ColdStartProgress
<1>8. VictimJustified'
  BY DEF VictimJustified, Replacing
<1> QED BY <1>3, <1>4, <1>5, <1>6, <1>7, <1>8

\* A hit renews the lease of its line and counts for the others.
LEMMA HitKeepsInv ==
  ASSUME LeaseInv, NEW tabled \in BOOLEAN, NEW v \in Lease, NEW l \in CacheLine,
         LeaseHit(l, tabled, v)
  PROVE  LeaseInv'
<1> USE DEF LeaseInv
<1> DEFINE due == Due(tabled, v)
<1>1. ~missFollowup /\ phase = "normal" /\ phase' = "normal"
  BY DEF LeaseHit, FollowupExpected
<1>2. due \in Lease
  BY DueIsLease
<1>3. /\ leases' = [Decremented EXCEPT ![l] = due]
      /\ ~missFollowup'
      /\ CountDefault(tabled) /\ Seen(tabled)
  BY <1>1 DEF LeaseHit, Renew
<1>4. \A m \in CacheLine :
        /\ Decremented[m] \in Lease
        /\ Age(m) \in Lease
        /\ Decremented[m] = IF granted[m] > Age(m) THEN granted[m] - Age(m) ELSE 0
  BY DecrementedCounts
<1>5. \A m \in CacheLine : leases'[m] = IF m = l THEN due ELSE Decremented[m]
  BY <1>3 DEF Decremented
<1>6. /\ leases' \in [CacheLine -> Lease]
      /\ since' = [m \in CacheLine |-> IF m = l THEN 0 ELSE Age(m)]
      /\ granted' = [granted EXCEPT ![l] = due]
  BY <1>2, <1>3, <1>4 DEF LeaseHit, Decremented
<1>7. 0 \in Lease
  BY PolicyAssumption DEF Lease
<1>8. since' \in [CacheLine -> Lease] /\ granted' \in [CacheLine -> Lease]
  BY <1>2, <1>4, <1>6, <1>7 DEF LeaseTypeOK
<1>9. /\ defaultCounter' \in 0 .. Saturated
      /\ untabled' \in 0 .. Saturated
      /\ DefaultCounted'
  BY <1>3, CountersAgree
<1>10. LeaseTypeOK'
  <2>1. /\ coldCounter' \in CacheLine /\ leaseAddr' \in CacheLine
        /\ savedLease' \in Lease /\ defaultLease' \in Lease
        /\ fullFlag' \in BOOLEAN /\ resident' \in SUBSET CacheLine
    BY DEF LeaseTypeOK, LeaseHit
  <2>2. missFollowup' \in BOOLEAN
    BY DEF LeaseHit, Renew
  <2> QED BY <1>1, <1>6, <1>8, <1>9, <2>1, <2>2 DEF LeaseTypeOK
<1>11. LeasesCountReferences'
  <2> SUFFICES ASSUME NEW m \in CacheLine
               PROVE  leases'[m] = Remaining(m)'
    BY DEF LeasesCountReferences
  <2>1. CASE m = l
    <3>1. granted'[m] = due /\ since'[m] = 0 /\ leases'[m] = due
      BY <1>5, <1>6, <2>1 DEF LeaseTypeOK
    <3> HIDE DEF due
    <3> QED BY <1>2, <3>1 DEF Remaining, Lease
  <2>2. CASE m # l
    <3>1. granted'[m] = granted[m] /\ since'[m] = Age(m) /\ leases'[m] = Decremented[m]
      BY <1>5, <1>6, <2>2 DEF LeaseTypeOK
    <3> QED BY <1>4, <3>1 DEF Remaining
  <2> QED BY <2>1, <2>2
<1>12. FollowupExpected'
  BY <1>1, <1>3 DEF FollowupExpected
<1>13. ColdStartProgress'
  BY <1>1 DEF ColdStartProgress, LeaseHit
<1>14. VictimJustified'
  BY <1>1 DEF VictimJustified, Replacing
<1> QED BY <1>9, <1>10, <1>11, <1>12, <1>13, <1>14

-----------------------------------------------------------------------------
(***************************************************************************)
(* An address is generated: the leases do not move.                        *)
(***************************************************************************)
LEMMA GeneratingKeepsLeases ==
  ASSUME LeaseInv, NEW S \in SUBSET CacheLine, GeneratesFrom(S),
         coldCounter' \in CacheLine, fullFlag' \in BOOLEAN
  PROVE  /\ LeaseTypeOK' /\ FollowupExpected' /\ DefaultCounted'
         /\ LeasesCountReferences'
         /\ leaseAddr' \in S /\ phase' = "fill"
         /\ Expired' = Expired /\ leases' = leases
<1> USE DEF LeaseInv, GeneratesFrom
<1>1. LeaseTypeOK'
  BY DEF LeaseTypeOK
<1>2. FollowupExpected' /\ DefaultCounted'
  BY DEF FollowupExpected, DefaultCounted
<1>3. LeasesCountReferences'
  BY DEF LeasesCountReferences, Remaining
<1>4. Expired' = Expired
  BY DEF Expired
<1> QED BY <1>1, <1>2, <1>3, <1>4

\* A miss of a set that is not full takes the next line.
LEMMA ColdKeepsInv == LeaseInv /\ GenerateCold => LeaseInv'
<1> SUFFICES ASSUME LeaseInv, GenerateCold PROVE LeaseInv'
  OBVIOUS
<1>1. /\ coldCounter \in CacheLine /\ Lines \in Nat \ {0}
      /\ ~fullFlag /\ phase = "generate"
  BY PolicyAssumption DEF LeaseInv, LeaseTypeOK, GenerateCold, GeneratesFrom
<1>2. /\ GeneratesFrom({coldCounter})
      /\ fullFlag' = (coldCounter = Lines - 1)
      /\ coldCounter' = (coldCounter + 1) % Lines
  BY DEF GenerateCold
<1>3. /\ coldCounter' \in CacheLine
      /\ coldCounter # Lines - 1 => coldCounter' = coldCounter + 1
  BY <1>1, <1>2 DEF CacheLine
<1>4. /\ LeaseTypeOK' /\ FollowupExpected' /\ DefaultCounted'
      /\ LeasesCountReferences'
      /\ leaseAddr' = coldCounter /\ phase' = "fill"
  <2>1. {coldCounter} \in SUBSET CacheLine /\ fullFlag' \in BOOLEAN
    BY <1>1, <1>2
  <2> QED BY <1>2, <1>3, <2>1, GeneratingKeepsLeases
<1>5. resident = 0 .. coldCounter - 1 /\ resident' = resident
  BY <1>1, <1>2 DEF LeaseInv, ColdStartProgress, GeneratesFrom
<1>6. ColdStartProgress'
  <2>1. CASE coldCounter = Lines - 1
    <3>1. fullFlag' /\ leaseAddr' = Lines - 1
      BY <1>2, <1>4, <2>1
    <3>2. resident' = 0 .. Lines - 2
      BY <1>1, <1>5, <2>1
    <3> QED BY <1>4, <3>1, <3>2 DEF ColdStartProgress
  <2>2. CASE coldCounter # Lines - 1
    <3>1. /\ ~fullFlag' /\ coldCounter' = leaseAddr' + 1
          /\ resident' = 0 .. leaseAddr' - 1
      BY <1>2, <1>3, <1>4, <1>5, <2>2
    <3> QED BY <1>4, <3>1 DEF ColdStartProgress
  <2> QED BY <2>1, <2>2
<1>7. ~Replacing'
  BY <1>1, <1>4, <1>5 DEF Replacing, CacheLine
<1> QED BY <1>4, <1>6, <1>7 DEF LeaseInv, VictimJustified

\* A miss of a full set takes a line whose lease is over, or the default's.
LEMMA FullGenerateKeepsInv ==
  ASSUME LeaseInv, GenerateRandom \/ GenerateExpired
  PROVE  LeaseInv'
<1>1. PICK S \in SUBSET CacheLine :
        /\ GeneratesFrom(S)
        /\ \/ Expired = {} \/ defaultCounter = Saturated
           \/ S \subseteq Expired
  BY DEF GenerateRandom, GenerateExpired, First, Expired
<1>2. /\ fullFlag /\ phase = "generate"
      /\ UNCHANGED <<coldCounter, fullFlag, resident, leases, defaultCounter>>
  BY DEF GenerateRandom, GenerateExpired, GeneratesFrom
<1>3. coldCounter' \in CacheLine /\ fullFlag' \in BOOLEAN
  BY <1>2 DEF LeaseInv, LeaseTypeOK
<1>4. /\ LeaseTypeOK' /\ FollowupExpected' /\ DefaultCounted'
      /\ LeasesCountReferences'
      /\ leaseAddr' \in S /\ phase' = "fill"
      /\ Expired' = Expired /\ leases' = leases
  BY <1>1, <1>3, GeneratingKeepsLeases
<1>5. ColdStartProgress'
  BY <1>2, <1>4 DEF LeaseInv, ColdStartProgress, CacheLine
<1>6. VictimJustified'
  BY <1>1, <1>2, <1>4 DEF VictimJustified, Expired
<1> QED BY <1>4, <1>5, <1>6 DEF LeaseInv

-----------------------------------------------------------------------------
\* The repeated reference renews its lease and counts nothing.
LEMMA FollowupKeepsInv == LeaseInv /\ FollowupHit => LeaseInv'
<1> SUFFICES ASSUME LeaseInv, FollowupHit PROVE LeaseInv'
  OBVIOUS
<1> USE DEF LeaseInv
<1>1. /\ phase = "fill" /\ phase' = "normal"
      /\ missFollowup /\ ~missFollowup'
      /\ leases' = [leases EXCEPT ![leaseAddr] = savedLease]
      /\ granted' = [granted EXCEPT ![leaseAddr] = savedLease]
      /\ since' = [since EXCEPT ![leaseAddr] = 0]
      /\ resident' = resident \cup {leaseAddr}
      /\ UNCHANGED <<coldCounter, fullFlag, leaseAddr, savedLease, defaultLease,
                     defaultCounter, untabled>>
  BY DEF FollowupHit, Renew, FollowupExpected
<1>2. leaseAddr \in CacheLine /\ savedLease \in Lease /\ 0 \in Lease
  BY PolicyAssumption DEF LeaseTypeOK, Lease
<1>3. LeaseTypeOK'
  <2>1. /\ coldCounter' \in CacheLine /\ leaseAddr' \in CacheLine
        /\ savedLease' \in Lease /\ defaultLease' \in Lease
        /\ fullFlag' \in BOOLEAN /\ resident' \in SUBSET CacheLine
        /\ defaultCounter' \in 0 .. Saturated /\ untabled' \in 0 .. Saturated
    BY <1>1, <1>2 DEF LeaseTypeOK
  <2>2. /\ leases' \in [CacheLine -> Lease]
        /\ granted' \in [CacheLine -> Lease]
        /\ since' \in [CacheLine -> Lease]
    BY <1>1, <1>2 DEF LeaseTypeOK
  <2>3. missFollowup' \in BOOLEAN
    BY DEF FollowupHit, Renew
  <2> QED BY <1>1, <2>1, <2>2, <2>3 DEF LeaseTypeOK
<1>4. FollowupExpected' /\ DefaultCounted'
  BY <1>1 DEF FollowupExpected, DefaultCounted
<1>5. LeasesCountReferences'
  <2> SUFFICES ASSUME NEW m \in CacheLine
               PROVE  leases'[m] = Remaining(m)'
    BY DEF LeasesCountReferences
  <2>1. CASE m = leaseAddr
    <3>1. granted'[m] = savedLease /\ since'[m] = 0 /\ leases'[m] = savedLease
      BY <1>1, <1>2, <2>1 DEF LeaseTypeOK
    <3> QED BY <1>2, <3>1 DEF Remaining, Lease
  <2>2. CASE m # leaseAddr
    <3>1. /\ granted'[m] = granted[m] /\ since'[m] = since[m]
          /\ leases'[m] = leases[m]
      BY <1>1, <2>2 DEF LeaseTypeOK
    <3> QED BY <3>1 DEF LeasesCountReferences, Remaining
  <2> QED BY <2>1, <2>2
<1>6. ColdStartProgress'
  <2> USE PolicyAssumption DEF ColdStartProgress, CacheLine
  <2>1. CASE /\ ~fullFlag
             /\ coldCounter = leaseAddr + 1 /\ resident = 0 .. leaseAddr - 1
    <3>1. resident' = 0 .. coldCounter' - 1
      BY <1>1, <1>2, <2>1
    <3> QED BY <1>1, <2>1, <3>1
  <2>2. CASE /\ fullFlag
             /\ leaseAddr = Lines - 1 /\ resident = 0 .. Lines - 2
    <3>1. resident' = 0 .. Lines - 1
      BY <1>1, <1>2, <2>2
    <3> QED BY <1>1, <2>2, <3>1
  <2>3. CASE fullFlag /\ resident = CacheLine
    BY <1>1, <1>2, <2>3
  <2> QED BY <1>1, <2>1, <2>2, <2>3
<1>7. VictimJustified'
  BY <1>1 DEF VictimJustified, Replacing
<1> QED BY <1>3, <1>4, <1>5, <1>6, <1>7

\* A default lease can be loaded at any time.
LEMMA LoadKeepsInv ==
  ASSUME LeaseInv, NEW v \in Lease, LoadDefault(v)
  PROVE  LeaseInv'
<1> USE DEF LeaseInv, LoadDefault
<1>1. LeaseTypeOK' /\ FollowupExpected' /\ DefaultCounted'
  BY DEF LeaseTypeOK, FollowupExpected, DefaultCounted
<1>2. LeasesCountReferences'
  BY DEF LeasesCountReferences, Remaining
<1>3. ColdStartProgress' /\ VictimJustified'
  BY DEF ColdStartProgress, VictimJustified, Replacing
<1> QED BY <1>1, <1>2, <1>3

\* A cycle without a reference changes nothing.
LEMMA StutterKeepsInv == LeaseInv /\ UNCHANGED policyVars => LeaseInv'
BY DEF LeaseInv, policyVars, policyRegs, LeaseTypeOK, FollowupExpected,
       DefaultCounted, LeasesCountReferences, Remaining, ColdStartProgress,
       VictimJustified, Replacing, Expired

\* Every step of the lease policy keeps its invariant.
LEMMA NextKeepsInv == LeaseInv /\ [LeaseNext]_policyVars => LeaseInv'
<1> SUFFICES ASSUME LeaseInv, LeaseNext PROVE LeaseInv'
  BY StutterKeepsInv
<1>1. ASSUME NEW tabled \in BOOLEAN, NEW v \in Lease, NEW l \in CacheLine,
             LeaseHit(l, tabled, v)
      PROVE  LeaseInv'
  BY <1>1, HitKeepsInv
<1>2. ASSUME NEW tabled \in BOOLEAN, NEW v \in Lease, MissCached(tabled, v)
      PROVE  LeaseInv'
  <2>1. savedLease' \in Lease
    BY <1>2, DueIsLease DEF MissCached, LeaseInv
  <2> QED BY <1>2, <2>1, MissAges DEF MissCached
<1>3. ASSUME NEW tabled \in BOOLEAN, NEW v \in Lease, MissBypassed(tabled, v)
      PROVE  LeaseInv'
  <2>1. /\ savedLease' \in Lease /\ missFollowup' \in BOOLEAN
        /\ missFollowup' <=> phase' # "normal"
    BY <1>3 DEF MissBypassed, LeaseInv, LeaseTypeOK, FollowupExpected
  <2> QED BY <1>3, <2>1, MissAges DEF MissBypassed
<1>4. CASE GenerateCold
  BY <1>4, ColdKeepsInv
<1>5. CASE GenerateRandom \/ GenerateExpired
  BY <1>5, FullGenerateKeepsInv
<1>6. CASE FollowupHit
  BY <1>6, FollowupKeepsInv
<1>7. ASSUME NEW v \in Lease, LoadDefault(v)
      PROVE  LeaseInv'
  BY <1>7, LoadKeepsInv
<1> QED BY <1>1, <1>2, <1>3, <1>4, <1>5, <1>6, <1>7 DEF LeaseNext

\* The lease policy's invariant.
LEMMA InvHolds == LeaseSpec => []LeaseInv
BY InitSatisfiesInv, NextKeepsInv, PTL DEF LeaseSpec

-----------------------------------------------------------------------------
\* Every register of the policy keeps its range, for any cache and table.
THEOREM LeaseTypeCorrect == LeaseSpec => []LeaseTypeOK
<1>1. LeaseInv => LeaseTypeOK
  BY DEF LeaseInv
<1> QED BY <1>1, InvHolds, PTL

\* A lease lasts for as many references as the table says, in any cache.
THEOREM LeasesCount == LeaseSpec => []LeasesCountReferences
<1>1. LeaseInv => LeasesCountReferences
  BY DEF LeaseInv
<1> QED BY <1>1, InvHolds, PTL

\* No block leaves within its lease while another block's has run out, but for
\* the random choice after a run of unknown references.
THEOREM LeasesHonoured == LeaseSpec => []LeaseHonoured
<1>1. LeaseInv => LeaseHonoured
  <2> SUFFICES ASSUME LeaseInv, Replacing, Remaining(leaseAddr) > 0,
                      untabled # Saturated, NEW l \in resident
               PROVE  Remaining(l) > 0
    BY DEF LeaseHonoured
  <2>1. leaseAddr \in CacheLine /\ l \in CacheLine
    BY DEF LeaseInv, LeaseTypeOK
  <2>2. /\ leases[leaseAddr] = Remaining(leaseAddr)
        /\ leases[l] = Remaining(l)
        /\ leases[l] \in 0 .. MaxLease
    BY <2>1 DEF LeaseInv, LeaseTypeOK, LeasesCountReferences, Lease
  <2>3. Expired = {}
    BY <2>2 DEF LeaseInv, VictimJustified, DefaultCounted
  <2> QED BY <2>1, <2>2, <2>3, PolicyAssumption DEF Expired
<1> QED BY <1>1, InvHolds, PTL

\* Every line is filled once before any block is evicted, in a cache of any size.
THEOREM LeaseFillsFirst == LeaseSpec => []LeaseFillsBeforeEvicting
<1>1. LeaseInv => LeaseFillsBeforeEvicting
  BY PolicyAssumption
     DEF LeaseInv, LeaseTypeOK, LeaseFillsBeforeEvicting, Replacing, ColdStartProgress,
         CacheLine
<1> QED BY <1>1, InvHolds, PTL

-----------------------------------------------------------------------------
(* SRRIP gives up blocks that lie unused before blocks in use.              *)

RripTypeOK ==
  /\ rrpv \in [Way -> 0 .. Longest]
  /\ place \in Way
  /\ stored \subseteq Way
  /\ idleSince \in [Way -> SUBSET Way]
  /\ mode \in {"nominal", "increment"}
  /\ missed \in BOOLEAN /\ generated \in BOOLEAN

\* The line that is given up.
Victim == missed /\ generated

\* A cached block has had its first hit, unless its line is given up.
FirstHits ==
  /\ \A w \in stored : w \in firstHit \/ (Victim /\ w = place)
  /\ Victim => place \notin firstHit

\* The registers are incremented only while the address is awaited, and the
\* line given up is at the longest interval.
Awaited ==
  /\ mode = "increment" => missed /\ ~generated
  /\ Victim => rrpv[place] = Longest

\* A block brought in and not used since is at the insertion value or later,
\* and ahead of each block used meanwhile.
IdleAhead ==
  /\ idle \subseteq stored
  /\ \A w \in idle : rrpv[w] >= Insert
  /\ \A w \in Way : idleSince[w] \subseteq idle
  /\ \A w \in Way : \A v \in idleSince[w] : rrpv[v] > rrpv[w]

RripInv == RripTypeOK /\ FirstHits /\ Awaited /\ IdleAhead

-----------------------------------------------------------------------------
\* The encoder finds a member of a set that is not empty.
LEMMA LowestIsMember ==
  ASSUME NEW S \in SUBSET Nat, S # {}
  PROVE  Lowest(S) \in S
<1> DEFINE Less == {p \in Nat \X Nat : p[1] < p[2]}
<1>1. IsWellFoundedOn(Less, Nat)
  BY NatLessThanWellFounded, Zenon DEF OpToRel
<1> HIDE DEF Less
<1>2. PICK x \in S : \A y \in S : ~ (<<y, x>> \in Less)
  BY <1>1, WFMin, Zenon
<1>3. ASSUME NEW y \in S PROVE x <= y
  <2>1. x \in Nat /\ y \in Nat
    OBVIOUS
  <2>2. y < x => <<y, x>> \in Less
    BY <2>1, Zenon DEF Less
  <2> QED BY <1>2, <2>1, <2>2
<1> QED BY <1>3 DEF Lowest

\* Incrementing all registers, none of which is at the end, keeps their order.
LEMMA GrowKeepsInv ==
  ASSUME RripInv, Grow, AtLongest = {}, generated' = FALSE,
         mode' = "increment", missed' = TRUE,
         UNCHANGED <<firstHit, place, stored, idle, idleSince>>,
         ~Victim
  PROVE  RripInv'
<1> USE RripAssumption
<1>1. \A w \in Way : rrpv[w] \in 0 .. Longest /\ rrpv[w] < Longest
  BY DEF RripInv, RripTypeOK, AtLongest
<1>2. \A w \in Way : rrpv'[w] = rrpv[w] + 1
  BY <1>1 DEF Grow
<1>3. rrpv' \in [Way -> 0 .. Longest]
  BY <1>1 DEF Grow
<1>4. RripTypeOK'
  BY <1>3 DEF RripInv, RripTypeOK
<1>5. FirstHits' /\ Awaited'
  BY DEF RripInv, FirstHits, Awaited, Victim
<1>6. IdleAhead'
  <2>1. idle \subseteq Way /\ \A w \in Way : idleSince[w] \subseteq Way
    BY DEF RripInv, RripTypeOK, IdleAhead
  <2> QED BY <1>1, <1>2, <2>1 DEF RripInv, IdleAhead
<1> QED BY <1>4, <1>5, <1>6 DEF RripInv

\* A line at the longest interval is given up.
LEMMA TakeKeepsInv ==
  ASSUME RripInv, AtLongest # {}, Take(Lowest(AtLongest)),
         missed' = TRUE, mode' = "nominal", ~Victim,
         UNCHANGED <<rrpv, stored, idle, idleSince>>
  PROVE  RripInv'
<1>1. Lowest(AtLongest) \in AtLongest
  <2>1. AtLongest \in SUBSET Nat
    BY RripAssumption DEF AtLongest, Way
  <2> QED BY <2>1, LowestIsMember
<1>2. place' \in Way /\ rrpv'[place'] = Longest
  BY <1>1 DEF Take, AtLongest
<1>3. RripTypeOK'
  BY <1>2 DEF RripInv, RripTypeOK, Take
<1>4. FirstHits'
  BY DEF RripInv, FirstHits, Take, Victim
<1>5. Awaited' /\ IdleAhead'
  BY <1>2 DEF RripInv, Awaited, IdleAhead
<1> QED BY <1>3, <1>4, <1>5 DEF RripInv

\* A block that has had its first hit goes to zero, behind every idle block.
LEMMA HitKeepsIntervals ==
  ASSUME RripInv, NEW w \in Way, RripHit(w)
  PROVE  RripInv'
<1> USE RripAssumption
<1>1. w \in firstHit
  BY DEF RripHit, RripInv, FirstHits, Victim
<1>2. rrpv' \in [Way -> 0 .. Longest] /\ rrpv'[w] = 0
      /\ \A v \in Way \ {w} : rrpv'[v] = rrpv[v]
  BY <1>1 DEF RripHit, Predict, RripInv, RripTypeOK
<1>3. /\ idleSince' \in [Way -> SUBSET Way]
      /\ idleSince'[w] = idle \ {w}
      /\ \A v \in Way \ {w} : idleSince'[v] = idleSince[v] \ {w}
  BY DEF RripHit, RripInv, RripTypeOK, IdleAhead
<1>4. RripTypeOK'
  BY <1>2, <1>3 DEF RripHit, RripInv, RripTypeOK
<1>5. FirstHits' /\ Awaited'
  BY DEF RripHit, RripInv, FirstHits, Awaited, Victim
<1>6. IdleAhead'
  <2>1. idle' \subseteq stored' /\ idle' \subseteq Way
    BY DEF RripHit, RripInv, IdleAhead, RripTypeOK
  <2>2. \A v \in idle' : rrpv'[v] >= Insert
    BY <1>2, <2>1 DEF RripHit, RripInv, IdleAhead
  <2>3. \A v \in Way : idleSince'[v] \subseteq idle'
    BY <1>3 DEF RripHit, RripInv, IdleAhead
  <2>4. \A v \in idleSince'[w] : rrpv'[v] > rrpv'[w]
    <3>1. \A v \in idle' : rrpv'[v] \in Nat
      BY <1>2, <2>1
    <3> QED BY <1>2, <2>2, <2>3, <3>1
  <2>5. ASSUME NEW u \in Way \ {w}, NEW v \in idleSince'[u]
        PROVE  rrpv'[v] > rrpv'[u]
    <3>1. v \in idleSince[u] /\ v # w /\ v \in Way
      BY <1>3, <2>1, <2>3
    <3> QED BY <1>2, <3>1 DEF RripInv, IdleAhead
  <2> QED BY <2>1, <2>2, <2>3, <2>4, <2>5 DEF IdleAhead
<1> QED BY <1>4, <1>5, <1>6 DEF RripInv

\* The new block starts at the insertion value, and idle.
LEMMA RefillKeepsInv ==
  ASSUME RripInv, RripRefill
  PROVE  RripInv'
<1> USE RripAssumption
<1>1. place \in Way /\ place \notin firstHit /\ Victim
  BY DEF RripRefill, RripInv, RripTypeOK, FirstHits, Victim
<1>2. rrpv' \in [Way -> 0 .. Longest] /\ rrpv'[place] = Insert
      /\ \A v \in Way \ {place} : rrpv'[v] = rrpv[v]
  BY <1>1 DEF RripRefill, Predict, RripInv, RripTypeOK
<1>3. /\ idleSince' \in [Way -> SUBSET Way]
      /\ idleSince'[place] = {}
      /\ \A v \in Way \ {place} : idleSince'[v] = idleSince[v] \ {place}
  BY <1>1 DEF RripRefill, RripInv, RripTypeOK
<1>4. RripTypeOK'
  BY <1>1, <1>2, <1>3 DEF RripRefill, RripInv, RripTypeOK
<1>5. FirstHits' /\ Awaited'
  BY DEF RripRefill, RripInv, FirstHits, Awaited, Victim
<1>6. IdleAhead'
  <2>1. idle' = idle \cup {place} /\ stored' = stored \cup {place} /\ idle \subseteq Way
    BY DEF RripRefill, RripInv, IdleAhead, RripTypeOK
  <2>2. \A v \in idle' : rrpv'[v] >= Insert
    BY <1>1, <1>2, <2>1 DEF RripInv, IdleAhead
  <2>3. ASSUME NEW u \in Way, NEW v \in idleSince'[u]
        PROVE  rrpv'[v] > rrpv'[u]
    <3>1. u # place /\ v \in idleSince[u] /\ v # place /\ v \in Way
      BY <1>1, <1>3, <2>1 DEF RripInv, IdleAhead
    <3> QED BY <1>2, <3>1 DEF RripInv, IdleAhead
  <2>4. idle' \subseteq stored' /\ \A v \in Way : idleSince'[v] \subseteq idle'
    BY <1>3, <2>1 DEF RripInv, IdleAhead
  <2> QED BY <2>2, <2>3, <2>4 DEF IdleAhead
<1> QED BY <1>4, <1>5, <1>6 DEF RripInv

-----------------------------------------------------------------------------
\* SRRIP's invariant at reset.
LEMMA RripInitInv == RripInit => RripInv
<1> SUFFICES ASSUME RripInit PROVE RripInv
  OBVIOUS
<1>1. Longest \in 0 .. Longest /\ 0 \in Way
  BY RripAssumption DEF Way
<1>2. RripTypeOK
  BY <1>1 DEF RripInit, RripTypeOK
<1>3. FirstHits /\ Awaited /\ IdleAhead
  BY <1>1 DEF RripInit, FirstHits, Awaited, Victim, IdleAhead
<1> QED BY <1>2, <1>3 DEF RripInv

\* SRRIP's invariant is kept by hits, misses and the cycles between.
LEMMA RripStepInv == RripInv /\ [RripNext]_rripVars => RripInv'
<1> SUFFICES ASSUME RripInv, [RripNext]_rripVars PROVE RripInv'
  OBVIOUS
<1>1. CASE \E w \in Way : RripHit(w)
  BY <1>1, HitKeepsIntervals
<1>2. CASE MissFinds
  <2>1. ~Victim /\ mode = "nominal"
    BY <1>2 DEF MissFinds, Victim, RripInv, Awaited, RripTypeOK
  <2> QED BY <1>2, <2>1, TakeKeepsInv DEF MissFinds
<1>3. CASE MissGrows
  <2>1. ~Victim
    BY <1>3 DEF MissGrows, Victim
  <2> QED BY <1>3, <2>1, GrowKeepsInv DEF MissGrows
<1>4. CASE GrowAgain
  <2>1. ~Victim /\ missed /\ ~generated
    BY <1>4 DEF GrowAgain, Victim, RripInv, Awaited
  <2> QED BY <1>4, <2>1, GrowKeepsInv DEF GrowAgain, RripInv, RripTypeOK, Awaited
<1>5. CASE GrowEnds
  <2>1. ~Victim /\ missed
    BY <1>5 DEF GrowEnds, Victim, RripInv, Awaited
  <2> QED BY <1>5, <2>1, TakeKeepsInv DEF GrowEnds, RripInv, RripTypeOK
<1>6. CASE RripRefill
  BY <1>6, RefillKeepsInv
<1>7. CASE UNCHANGED rripVars
  BY <1>7 DEF rripVars, RripInv, RripTypeOK, FirstHits, Awaited, Victim, IdleAhead
<1> QED BY <1>1, <1>2, <1>3, <1>4, <1>5, <1>6, <1>7 DEF RripNext, Cycle

\* The line that the policy gives up (srrip_line_controller.v) has no block
\* idle since before its own block was last used: every such block would have
\* been given up first.
THEOREM RripKeepsUsedBlocks == RripSpec => []OutlivesIdle
<1>1. RripInv => OutlivesIdle
  <2> SUFFICES ASSUME RripInv, missed, generated, idleSince[place] # {}
               PROVE  FALSE
    BY DEF OutlivesIdle
  <2>1. PICK v \in idleSince[place] : TRUE
    OBVIOUS
  <2>2. /\ place \in Way /\ rrpv[place] = Longest /\ v \in Way
        /\ rrpv[v] \in 0 .. Longest /\ rrpv[v] > rrpv[place]
    BY DEF RripInv, RripTypeOK, Awaited, Victim, IdleAhead
  <2> QED BY <2>2, RripAssumption
<1> QED BY <1>1, RripInitInv, RripStepInv, PTL DEF RripSpec

-----------------------------------------------------------------------------
(* Pseudo LRU.  A node that points to a line has been turned there by a     *)
(* reference to its other half; the nodes above a line are of one layer     *)
(* each, so as many lines as there are layers have been referenced since.   *)

\* A node that points to a resident line has been turned there by a reference
\* to the other half since.
Turned ==
  \A l \in held : \A i \in Layer : tree[Node(l, i)] = l[i] =>
    \E m \in newer[l] : Node(m, i) = Node(l, i) /\ m[i] # l[i]

PlruInv ==
  /\ tree \in [Tree -> 0 .. 1]
  /\ target \in Leaf /\ held \subseteq Leaf
  /\ newer \in [Leaf -> SUBSET Leaf]
  /\ \A l \in Leaf : IsFiniteSet(newer[l])
  /\ coldDone \in BOOLEAN /\ waiting \in BOOLEAN
  /\ ~coldDone => cold = 2 ^ Layers - 1 /\ held = {} /\ ~waiting
  /\ waiting => \A i \in Layer : tree[Node(target, i)] = target[i]
  /\ Turned

\* The number of lines is a number, and not zero.
LEMMA PowerOfTwo == 2 ^ Layers \in Nat \ {0}
<1>1. IsFiniteSet(1 .. Layers) /\ Cardinality(1 .. Layers) = Layers
  BY FS_Interval, PlruAssumption
<1>2. IsFiniteSet(SUBSET (1 .. Layers)) /\ Cardinality(SUBSET (1 .. Layers)) = 2 ^ Layers
  BY <1>1, FS_SUBSET
<1>3. Cardinality(SUBSET (1 .. Layers)) \in Nat
  BY <1>2, FS_CardinalityType
<1>4. Cardinality(SUBSET (1 .. Layers)) # 0
  BY <1>2, FS_EmptySet
<1> QED
  BY <1>2, <1>3, <1>4

\* The first miss carries into the bit that ends the cold start.
LEMMA Carry ==
  ASSUME NEW n \in Nat \ {0}
  PROVE  (n - 1 + 1) % (2 * n) >= n
<1>1. n - 1 + 1 = n /\ 2 * n \in Nat /\ 2 * n > n /\ n \in Nat
  OBVIOUS
<1>2. \A a, b \in Nat : a < b => a % b = a
  OBVIOUS
<1>3. n % (2 * n) = n
  BY <1>1, <1>2
<1> QED
  BY <1>1, <1>3

\* A node is in the tree, and belongs to one layer.
LEMMA NodesOfLayers ==
  ASSUME NEW l \in Leaf, NEW i \in Layer
  PROVE  /\ Node(l, i) \in Tree
         /\ \A m \in Leaf, j \in Layer : Node(m, j) = Node(l, i) => j = i
<1>1. i \in Nat /\ i <= Layers - 1 /\ 0 .. i - 1 \subseteq Layer
  BY PlruAssumption DEF Layer
<1>2. Node(l, i) \in [0 .. i - 1 -> 0 .. 1]
  BY <1>1 DEF Node, Leaf
<1>3. ASSUME NEW m \in Leaf, NEW j \in Layer, Node(m, j) = Node(l, i)
      PROVE  j = i
  <2>1. j \in Nat
    BY PlruAssumption DEF Layer
  <2>2. DOMAIN Node(m, j) = 0 .. j - 1 /\ DOMAIN Node(l, i) = 0 .. i - 1
    BY DEF Node
  <2>3. 0 .. j - 1 = 0 .. i - 1
    BY <1>3, <2>2
  <2>4. ~(j < i)
    <3>1. j < i => j \in 0 .. i - 1 /\ j \notin 0 .. j - 1
      BY <1>1, <2>1
    <3> QED
      BY <2>3, <3>1
  <2>5. ~(i < j)
    <3>1. i < j => i \in 0 .. j - 1 /\ i \notin 0 .. i - 1
      BY <1>1, <2>1
    <3> QED
      BY <2>3, <3>1
  <2> QED
    BY <2>4, <2>5, <2>1, <1>1
<1> QED
  BY <1>2, <1>3 DEF Tree

\* Leaves that share a node agree in the bits above it.
LEMMA SharedNode ==
  ASSUME NEW l, NEW m, NEW i \in Nat, NEW j \in 0 .. i - 1, Node(m, i) = Node(l, i)
  PROVE  m[j] = l[j]
<1>1. Node(m, i)[j] = m[j] /\ Node(l, i)[j] = l[j]
  BY DEF Node
<1> QED
  BY <1>1

\* The pointers of the tree lead to a leaf.
LEMMA TreePoints ==
  ASSUME tree \in [Tree -> 0 .. 1]
  PROVE  Pointed \in Leaf /\ \A i \in Layer : tree[Node(Pointed, i)] = Pointed[i]
<1> DEFINE Led(l, k) == \A i \in 0 .. k - 1 : tree[Node(l, i)] = l[i]
           Blind == {k \in 0 .. Layers : \A l \in Leaf : ~Led(l, k)}
<1>1. ASSUME NEW k \in Layer, NEW l \in Leaf, Led(l, k)
      PROVE  \E m \in Leaf : Led(m, k + 1)
  <2> DEFINE m == [l EXCEPT ![k] = tree[Node(l, k)]]
  <2>1. k \in Nat /\ 0 .. (k + 1) - 1 = 0 .. k
    BY PlruAssumption DEF Layer
  <2>2. m \in Leaf
    <3>1. tree[Node(l, k)] \in 0 .. 1
      BY NodesOfLayers
    <3> QED
      BY <3>1 DEF Leaf
  <2>3. \A j \in Layer : m[j] = IF j = k THEN tree[Node(l, k)] ELSE l[j]
    BY DEF Leaf
  <2>4. ASSUME NEW i \in 0 .. k
        PROVE  Node(m, i) = Node(l, i)
    <3>1. \A j \in 0 .. i - 1 : j \in Layer /\ j # k
      BY <2>1, PlruAssumption DEF Layer
    <3>2. \A j \in 0 .. i - 1 : m[j] = l[j]
      BY <2>3, <3>1
    <3> HIDE DEF m
    <3> QED
      BY <3>2 DEF Node
  <2>5. ASSUME NEW i \in 0 .. k
        PROVE  tree[Node(m, i)] = m[i]
    <3>1. i \in Layer /\ (i # k => i \in 0 .. k - 1)
      BY <2>1, PlruAssumption DEF Layer
    <3>2. CASE i = k
      BY <2>3, <2>4, <3>1, <3>2
    <3>3. CASE i # k
      <4>1. tree[Node(l, i)] = l[i]
        BY <1>1, <3>1, <3>3
      <4> QED
        BY <2>3, <2>4, <3>1, <3>3, <4>1
    <3> QED
      BY <3>2, <3>3
  <2> HIDE DEF m
  <2>6. Led(m, k + 1)
    BY <2>1, <2>5
  <2> QED
    BY <2>2, <2>6
<1>2. \E l \in Leaf : Led(l, 0)
  <2>1. [i \in Layer |-> 0] \in Leaf
    BY DEF Leaf
  <2>2. 0 .. 0 - 1 = {}
    OBVIOUS
  <2> QED
    BY <2>1, <2>2
<1> HIDE DEF Led
<1>3. Blind = {}
  <2> SUFFICES ASSUME Blind # {} PROVE FALSE
    OBVIOUS
  <2>1. Blind \subseteq Nat
    BY PlruAssumption
  <2>2. PICK k \in Blind : \A y \in Blind : ~(<<y, k>> \in OpToRel(<, Nat))
    BY <2>1, WFMin, NatLessThanWellFounded
  <2>3. k \in Nat /\ k <= Layers /\ k # 0
    <3>1. 0 \notin Blind
      BY <1>2
    <3> HIDE DEF Blind
    <3>2. k # 0
      BY <2>2, <3>1
    <3>3. k \in 0 .. Layers
      BY DEF Blind
    <3> QED
      BY <3>2, <3>3, PlruAssumption
  <2>4. k - 1 \in Nat /\ k - 1 \in Layer /\ (k - 1) + 1 = k /\ k - 1 \in 0 .. Layers
    BY <2>3, PlruAssumption DEF Layer
  <2>5. <<k - 1, k>> \in OpToRel(<, Nat)
    BY <2>3, <2>4 DEF OpToRel
  <2>6. k - 1 \notin Blind
    BY <2>2, <2>5
  <2>7. PICK l \in Leaf : Led(l, k - 1)
    BY <2>4, <2>6
  <2>8. \E m \in Leaf : Led(m, k)
    BY <1>1, <2>4, <2>7
  <2> QED
    BY <2>2, <2>8
<1>4. \E l \in Leaf : \A i \in Layer : tree[Node(l, i)] = l[i]
  <2>1. Layers \in 0 .. Layers
    BY PlruAssumption
  <2>2. PICK l \in Leaf : Led(l, Layers)
    BY <1>3, <2>1
  <2> QED
    BY <2>2 DEF Led, Layer
<1> QED
  BY <1>4 DEF Pointed

\* A reference turns the nodes above it away and no other.
LEMMA TouchTurns ==
  ASSUME PlruInv, coldDone, NEW l \in Leaf, Touch(l), held' \subseteq held \cup {l}
  PROVE  /\ tree' \in [Tree -> 0 .. 1]
         /\ newer' \in [Leaf -> SUBSET Leaf]
         /\ \A m \in Leaf : IsFiniteSet(newer'[m])
         /\ Turned'
<1>1. TurnAway(l)
  BY DEF Touch
<1>2. tree' \in [Tree -> 0 .. 1]
  <2>1. \A n \in Tree : tree[n] \in 0 .. 1 /\ 1 - tree[n] \in 0 .. 1
    BY DEF PlruInv
  <2> QED
    BY <1>1, <2>1 DEF TurnAway
<1>3. /\ newer' \in [Leaf -> SUBSET Leaf]
      /\ \A m \in Leaf : newer'[m] = IF m = l THEN {} ELSE newer[m] \cup {l}
  BY DEF Touch, PlruInv
<1>4. \A m \in Leaf : IsFiniteSet(newer'[m])
  <2>1. \A m \in Leaf : IsFiniteSet(newer[m] \cup {l})
    BY FS_AddElement DEF PlruInv
  <2>2. IsFiniteSet({})
    BY FS_EmptySet
  <2> QED
    BY <1>3, <2>1, <2>2
<1>5. ASSUME NEW m \in Leaf, NEW i \in Layer
      PROVE  tree'[Node(m, i)] = IF Node(m, i) = Node(l, i)
                                 THEN 1 - l[i] ELSE tree[Node(m, i)]
  <2>1. Node(m, i) \in Tree /\ Node(l, i) \in Tree
    BY NodesOfLayers
  <2>2. \A j \in Layer : Node(m, i) = Node(l, j) => j = i
    BY NodesOfLayers
  <2>3. tree[Node(m, i)] \in 0 .. 1 /\ l[i] \in 0 .. 1
    BY <2>1 DEF PlruInv, Leaf
  <2>4. tree'[Node(m, i)] = IF \E j \in Layer : Node(m, i) = Node(l, j)
                                                /\ tree[Node(m, i)] = l[j]
                            THEN 1 - tree[Node(m, i)] ELSE tree[Node(m, i)]
    BY <1>1, <2>1 DEF TurnAway
  <2>5. CASE Node(m, i) = Node(l, i)
    <3>1. CASE tree[Node(m, i)] = l[i]
      BY <2>4, <2>5, <3>1
    <3>2. CASE tree[Node(m, i)] # l[i]
      <4>1. tree'[Node(m, i)] = tree[Node(m, i)]
        BY <2>2, <2>4, <3>2
      <4> QED
        BY <4>1, <2>3, <2>5, <3>2
    <3> QED
      BY <3>1, <3>2
  <2>6. CASE Node(m, i) # Node(l, i)
    BY <2>2, <2>4, <2>6
  <2> QED
    BY <2>5, <2>6
<1>6. Turned'
  <2> SUFFICES ASSUME NEW m \in held', NEW i \in Layer, tree'[Node(m, i)] = m[i]
               PROVE  \E k \in newer'[m] : Node(k, i) = Node(m, i) /\ k[i] # m[i]
    BY DEF Turned, Node
  <2>1. m \in Leaf /\ l[i] \in 0 .. 1
    BY DEF PlruInv, Leaf
  <2>2. m[i] \in 0 .. 1
    BY <2>1 DEF Leaf
  <2>3. CASE Node(m, i) = Node(l, i)
    <3>1. m[i] = 1 - l[i]
      BY <1>5, <2>1, <2>3
    <3>2. l[i] # m[i]
      BY <3>1, <2>1
    <3>3. m # l
      BY <3>2
    <3>4. l \in newer'[m]
      BY <1>3, <2>1, <3>3
    <3> QED
      BY <3>2, <3>4, <2>3
  <2>4. CASE Node(m, i) # Node(l, i)
    <3>1. m # l /\ m \in held
      BY <2>4
    <3>2. tree[Node(m, i)] = m[i]
      BY <1>5, <2>1, <2>4
    <3>3. PICK k \in newer[m] : Node(k, i) = Node(m, i) /\ k[i] # m[i]
      BY <3>1, <3>2 DEF PlruInv, Turned
    <3>4. k \in newer'[m]
      BY <1>3, <2>1, <3>1
    <3> QED
      BY <3>3, <3>4
  <2> QED
    BY <2>3, <2>4
<1> QED
  BY <1>2, <1>3, <1>4, <1>6

\* A node that points to a line that is resident was turned by another line
\* for each layer.
LEMMA RecentAreKept == PlruInv => PlruKeepsRecent
<1> SUFFICES ASSUME PlruInv, waiting, target \in held
             PROVE  Cardinality(newer[target]) >= Layers
  BY DEF PlruKeepsRecent
<1> DEFINE other(i) == CHOOSE m \in newer[target] :
                         Node(m, i) = Node(target, i) /\ m[i] # target[i]
           turner == [i \in Layer |-> other(i)]
<1>1. ASSUME NEW i \in Layer
      PROVE  /\ other(i) \in newer[target]
             /\ Node(other(i), i) = Node(target, i)
             /\ other(i)[i] # target[i]
  <2>1. tree[Node(target, i)] = target[i]
    BY DEF PlruInv
  <2>2. \E m \in newer[target] : Node(m, i) = Node(target, i) /\ m[i] # target[i]
    BY <2>1 DEF PlruInv, Turned
  <2> QED
    BY <2>2
<1> HIDE DEF other
<1>2. ASSUME NEW i \in Layer, NEW j \in Layer, i < j
      PROVE  other(i) # other(j)
  <2>1. j \in Nat /\ i \in 0 .. j - 1
    BY <1>2, PlruAssumption DEF Layer
  <2>2. other(j)[i] = target[i]
    BY <1>1, <2>1, SharedNode
  <2> QED
    BY <1>1, <2>2
<1>3. turner \in Injection(Layer, newer[target])
  <2>1. turner \in [Layer -> newer[target]]
    BY <1>1
  <2>2. ASSUME NEW i \in Layer, NEW j \in Layer, turner[i] = turner[j]
        PROVE  i = j
    <3>1. other(i) = other(j)
      BY <2>2
    <3>2. i \in Int /\ j \in Int
      BY PlruAssumption DEF Layer
    <3>3. ~(i < j) /\ ~(j < i)
      BY <1>2, <3>1
    <3> QED
      BY <3>2, <3>3
  <2> HIDE DEF turner
  <2> QED
    BY <2>1, <2>2 DEF Injection, IsInjective
<1>4. IsFiniteSet(newer[target]) /\ target \in Leaf
  BY DEF PlruInv
<1>5. Cardinality(Layer) <= Cardinality(newer[target])
  BY <1>3, <1>4, FS_Injection
<1>6. Cardinality(Layer) = Layers
  BY FS_Interval, PlruAssumption DEF Layer
<1>7. Cardinality(newer[target]) \in Nat
  BY <1>4, FS_CardinalityType
<1> QED
  BY <1>5, <1>6, <1>7, PlruAssumption

\* The tree's invariant holds at reset and after every step.
LEMMA PlruInvInit == PlruInit => PlruInv
<1> SUFFICES ASSUME PlruInit PROVE PlruInv
  OBVIOUS
<1>1. \A l \in Leaf : IsFiniteSet(newer[l])
  BY FS_EmptySet DEF PlruInit
<1>2. tree \in [Tree -> 0 .. 1] /\ newer \in [Leaf -> SUBSET Leaf]
  BY DEF PlruInit
<1>3. target \in Leaf
  BY DEF PlruInit, Leaf
<1>4. /\ held = {} /\ ~coldDone /\ coldDone \in BOOLEAN
      /\ ~waiting /\ waiting \in BOOLEAN /\ cold = 2 ^ Layers - 1
  BY DEF PlruInit
<1>5. Turned
  BY <1>4 DEF Turned
<1> QED
  BY <1>1, <1>2, <1>3, <1>4, <1>5 DEF PlruInv

\* Hits and repeated references turn nodes; a miss follows them.
LEMMA PlruInvStep == PlruInv /\ [PlruNext]_plruVars => PlruInv'
<1> SUFFICES ASSUME PlruInv, [PlruNext]_plruVars PROVE PlruInv'
  OBVIOUS
<1>1. ASSUME NEW l \in Leaf, PlruHit(l) PROVE PlruInv'
  <2>1. l \in held /\ ~waiting /\ Touch(l)
        /\ UNCHANGED <<cold, coldDone, target, held, waiting>>
    BY <1>1 DEF PlruHit
  <2>2. coldDone
    BY <2>1 DEF PlruInv
  <2>3. /\ tree' \in [Tree -> 0 .. 1] /\ newer' \in [Leaf -> SUBSET Leaf]
        /\ \A m \in Leaf : IsFiniteSet(newer'[m])
        /\ Turned'
    BY <2>1, <2>2, TouchTurns
  <2> QED
    BY <2>1, <2>2, <2>3 DEF PlruInv
<1>2. ASSUME PlruRefill PROVE PlruInv'
  <2>1. waiting /\ ~waiting' /\ waiting' \in BOOLEAN /\ held' = held \cup {target}
        /\ Touch(target) /\ UNCHANGED <<cold, coldDone, target>>
    BY <1>2 DEF PlruRefill
  <2>2. coldDone /\ target \in Leaf
    BY <2>1 DEF PlruInv
  <2>3. /\ tree' \in [Tree -> 0 .. 1] /\ newer' \in [Leaf -> SUBSET Leaf]
        /\ \A m \in Leaf : IsFiniteSet(newer'[m])
        /\ Turned'
    BY <2>1, <2>2, TouchTurns
  <2> QED
    BY <2>1, <2>2, <2>3 DEF PlruInv
<1>3. ASSUME PlruMiss PROVE PlruInv'
  <2>1. coldDone'
    <3>1. CASE coldDone
      BY <1>3, <3>1 DEF PlruMiss
    <3>2. CASE ~coldDone
      <4>1. cold = 2 ^ Layers - 1
        BY <3>2 DEF PlruInv
      <4>2. (2 ^ Layers - 1 + 1) % (2 * 2 ^ Layers) >= 2 ^ Layers
        BY PowerOfTwo, Carry
      <4>3. cold' >= 2 ^ Layers
        BY <1>3, <4>1, <4>2 DEF PlruMiss
      <4> QED
        BY <1>3, <4>3 DEF PlruMiss
    <3> QED
      BY <3>1, <3>2
  <2>2. UNCHANGED <<tree, held, newer>> /\ waiting' = TRUE /\ target' = Pointed
    BY <1>3, <2>1 DEF PlruMiss
  <2>3. Pointed \in Leaf /\ \A i \in Layer : tree[Node(Pointed, i)] = Pointed[i]
    BY TreePoints DEF PlruInv
  <2>4. \A i \in Layer : tree'[Node(target', i)] = target'[i]
    BY <2>2, <2>3
  <2>5. Turned'
    BY <2>2 DEF Turned, PlruInv, Node
  <2>6. coldDone' \in BOOLEAN
    BY <1>3 DEF PlruMiss
  <2> QED
    BY <2>1, <2>2, <2>3, <2>4, <2>5, <2>6 DEF PlruInv, Node
<1>4. CASE UNCHANGED plruVars
  BY <1>4 DEF plruVars, PlruInv, Turned, Node
<1> QED
  BY <1>1, <1>2, <1>3, <1>4 DEF PlruNext

\* The victim of the tree is none of the last Layers lines referenced
\* (plru_line_controller.v), for a set of any size.
THEOREM PlruRecency == PlruSpec => []PlruKeepsRecent
<1>1. PlruSpec => []PlruInv
  BY PlruInvInit, PlruInvStep, PTL DEF PlruSpec
<1> QED
  BY <1>1, RecentAreKept, PTL

=============================================================================
