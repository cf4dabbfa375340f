----------------------------- MODULE ShelLeases -----------------------------
(***************************************************************************)
(* CLAM's assignment of leases under SHEL (shel_cshel in lib.rs with cshel *)
(* false): from the sampled reuse intervals of a program's references it   *)
(* gives each reference a lease, best ratio of hits to cost first, until   *)
(* the leases of a phase fill the cache.  The lease that does not fit any  *)
(* more is made a dual lease: long with a probability, short otherwise.    *)
(*                                                                         *)
(* The cache has one set (set_mask zero).  A ratio is compared by cross    *)
(* multiplication, where the code divides floating-point numbers.          *)
(***************************************************************************)
EXTENDS Integers, FiniteSets, Functions

CONSTANTS
    Refs,        \* the program's references,
    Phases,      \* its phases, and
    PhaseOf,     \* the phase each reference belongs to
    Intervals,   \* lengths a reuse interval may have
    Counts,      \* how often an interval may have been sampled
    CacheSize,   \* lines of the cache
    Rate,        \* references per sample
    Discretize   \* bits the table has for the probability of a dual lease

ASSUME ShelAssumption ==
    /\ PhaseOf \in [Refs -> Phases]
    /\ \A p \in Phases : \E r \in Refs : PhaseOf[r] = p
    /\ Intervals \subseteq Nat \ {0} /\ Counts \subseteq Nat
    /\ IsFiniteSet(Refs) /\ IsFiniteSet(Intervals)
    /\ CacheSize \in Nat \ {0} /\ Rate \in Nat \ {0} /\ Discretize \in Nat \ {0}

VARIABLES
    hist,      \* how often each interval of each reference was sampled
    heap,      \* candidates: a longer lease for a reference
    assigned,  \* the lease of each reference
    dual,      \* the dual leases: reference, long lease, probability num/den
    cost,      \* cache time the leases of a phase take
    finished

shelVars == <<hist, heap, assigned, dual, cost, finished>>

Sampled(r) == {i \in Intervals : hist[r][i] > 0}
Samples(p) == SumFunctionOnSet([r \in Refs |->
                  IF PhaseOf[r] = p THEN SumFunctionOnSet(hist[r], Intervals) ELSE 0], Refs)
Budget(p)  == Samples(p) * CacheSize * Rate

\* The time a reference's blocks stay in the cache under a lease: until the
\* reuse if it comes in time, for the lease otherwise (shel_phase_ref_cost).
Stay(r, lease) ==
    Rate * SumFunctionOnSet(
             [i \in Intervals |-> hist[r][i] * (IF i <= lease THEN i ELSE lease)], Intervals)
PhaseRefCostOfHits(p, r, old, new) ==    \* mutant: blocks not reused cost nothing
    Rate * SumFunctionOnSet([i \in Intervals |-> hist[r][i] * i],
                            {i \in Intervals : PhaseOf[r] = p /\ i > old /\ i <= new})
PhaseRefCost(p, r, old, new) ==
    IF PhaseOf[r] = p THEN Stay(r, new) - Stay(r, old) ELSE 0

\* The candidates of a reference over a base lease (get_ppuc).  The base counts
\* as no hits and no cost unless it is itself a sampled interval.
HitsUpTo(r, lease) == SumFunctionOnSet(hist[r], {i \in Intervals : i <= lease})
HitTable(r, lease)  == IF lease \in Sampled(r) THEN HitsUpTo(r, lease) ELSE 0
CostTable(r, lease) == IF lease \in Sampled(r) THEN Stay(r, lease) \div Rate ELSE 0
Candidates(r, base) ==
    {[ref |-> r, lease |-> i, old |-> base,
      hits |-> HitTable(r, i) - HitTable(r, base),
      cost |-> CostTable(r, i) - CostTable(r, base)] :
        i \in {i \in Sampled(r) : i > base}}

\* The heap gives up a candidate no other beats in hits per cost.
Best == {c \in heap : \A d \in heap : c.hits * d.cost >= d.hits * c.cost}

ShelInit ==
    /\ hist \in [Refs -> [Intervals -> Counts]]
    /\ \A r \in Refs : Sampled(r) # {}
    /\ heap = UNION {Candidates(r, 1) : r \in Refs}
    /\ assigned = [r \in Refs |-> 1]
    /\ dual = {}
    /\ cost = [p \in Phases |->
                  SumFunctionOnSet([r \in Refs |-> PhaseRefCost(p, r, 0, 1)], Refs)]
    /\ finished = FALSE

DualPhases == {PhaseOf[d.ref] : d \in dual}
Filled(p) == cost[p] = Budget(p)
Unused(p) == Budget(p) - cost[p]

\* A candidate whose base lease is no longer the reference's is out of date.
OutOfDate(c) == c.old # assigned[c.ref]

Fits(c) == \A p \in Phases :
              cost[p] + PhaseRefCost(p, c.ref, c.old, c.lease) <= Budget(p)

\* Whether the probability would be rounded to zero in the lease table.
Meaningless(c) ==
    LET p == PhaseOf[c.ref]
    IN  2 * (2 ^ Discretize - 1) * Unused(p) < PhaseRefCost(p, c.ref, c.old, c.lease)
Threshold(c) ==
    LET p == PhaseOf[c.ref]
    IN  2 * (2 ^ Discretize - 1) * Unused(p) = PhaseRefCost(p, c.ref, c.old, c.lease)

Dropped(c) == OutOfDate(c) \/ Filled(PhaseOf[c.ref])
Considered(c) == ~Dropped(c) /\ DualPhases # Phases /\ PhaseOf[c.ref] \notin DualPhases

\* Out of date, in a phase that is full or has its dual lease, or not worth a
\* dual lease: the candidate is passed over.
Skip(c) ==
    /\ \/ Dropped(c)
       \/ ~Dropped(c) /\ DualPhases # Phases /\ PhaseOf[c.ref] \in DualPhases
       \/ Considered(c) /\ ~Fits(c) /\ Meaningless(c)
    /\ heap' = heap \ {c}
    /\ UNCHANGED <<assigned, dual, cost, finished>>

AssignOnce(c) ==    \* mutant: no candidates over the new lease
    /\ Considered(c) /\ Fits(c)
    /\ cost' = [p \in Phases |-> cost[p] + PhaseRefCost(p, c.ref, c.old, c.lease)]
    /\ assigned' = [assigned EXCEPT ![c.ref] = c.lease]
    /\ heap' = heap \ {c}
    /\ UNCHANGED <<dual, finished>>
Assign(c) ==
    /\ Considered(c) /\ Fits(c)
    /\ cost' = [p \in Phases |-> cost[p] + PhaseRefCost(p, c.ref, c.old, c.lease)]
    /\ assigned' = [assigned EXCEPT ![c.ref] = c.lease]
    /\ heap' = (heap \ {c}) \cup Candidates(c.ref, c.lease)
    /\ UNCHANGED <<dual, finished>>

\* The lease fits in part: its probability is the share of its cost that is
\* left, which fills the phase.
AssignDual(c) ==
    LET p == PhaseOf[c.ref]
    IN  /\ Considered(c) /\ ~Fits(c) /\ ~Meaningless(c)
        /\ dual' = dual \cup {[ref |-> c.ref, lease |-> c.lease, num |-> Unused(p),
                               den |-> PhaseRefCost(p, c.ref, c.old, c.lease)]}
        /\ cost' = IF Threshold(c) THEN cost ELSE [cost EXCEPT ![p] = Budget(p)]
        /\ heap' = heap \ {c}
        /\ UNCHANGED <<assigned, finished>>

\* Nothing is left, or every phase has its dual lease.
Finish ==
    /\ \/ heap = {} \/ \E c \in Best : ~Dropped(c) /\ DualPhases = Phases
    /\ finished' = TRUE
    /\ UNCHANGED <<heap, assigned, dual, cost>>

ShelNext ==
    /\ ~finished /\ UNCHANGED hist
    /\ \/ \E c \in Best : Skip(c) \/ Assign(c) \/ AssignDual(c)
       \/ Finish

ShelSpec == ShelInit /\ [][ShelNext]_shelVars

----------------------------------------------------------------------------
(* Properties.                                                             *)

\* What a phase's leases take of the cache, without the longer ones of dual leases.
Held(p) ==
    SumFunctionOnSet([r \in Refs |-> IF PhaseOf[r] = p THEN Stay(r, assigned[r]) ELSE 0],
                     Refs)

\* The leases handed out never ask for more of the cache than there is: the
\* time the blocks of a phase stay, dual leases by their probability, is
\* within the phase's samples times the lines of the cache (the loop of
\* shel_cshel, whose running cost stands for this sum).
LeasesFit ==
    \A p \in Phases :
        LET long == {d \in dual : PhaseOf[d.ref] = p}
            more(d) == Stay(d.ref, d.lease) - Stay(d.ref, assigned[d.ref])
        IN  /\ \A d, e \in long : d = e
            /\ Held(p) <= Budget(p)
            /\ \A d \in long : Held(p) + (more(d) * d.num) \div d.den <= Budget(p)

\* Nothing is left on the table: a phase that ends neither full nor with a dual
\* lease has no reference whose next longer lease would be worth a dual lease
\* (the candidates dropped on the way were dropped for good reason).
NoRoomWasted ==
    finished => \A r \in Refs :
        LET p == PhaseOf[r]
        IN  Filled(p) \/ p \in DualPhases
            \/ \A i \in Sampled(r) : i > assigned[r] =>
                  2 * (2 ^ Discretize - 1) * Unused(p)
                      < PhaseRefCost(p, r, assigned[r], i)

=============================================================================
