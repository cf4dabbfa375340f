---------------------------- MODULE LeasePolicy ----------------------------
(***************************************************************************)
(* The lease replacement policy                                            *)
(* (n_set_cache_lease_policy_default_switch_controller_tracker.v) of a     *)
(* fully associative cache.                                                *)
(*                                                                         *)
(* Every line has a lease register.  A reference decrements all of them;   *)
(* the line that it touches is given the lease that the table holds for    *)
(* the referencing instruction, or the default lease.  A missing block     *)
(* whose lease is zero is not cached at all.  The strobes hit_i and miss_i *)
(* come from the lease cache controller, whose order of events is the      *)
(* environment of this module: after a miss that is to be cached, the      *)
(* policy generates an address, the controller fills the line and repeats  *)
(* the reference, which then hits.                                         *)
(***************************************************************************)
EXTENDS Naturals

CONSTANTS
  Lines,      \* CACHE_BLOCK_CAPACITY
  MaxLease,   \* the largest value of a lease register
  Saturated   \* the largest value of default_lease_counter, 2^10 - 1

ASSUME PolicyAssumption ==
  /\ Lines \in Nat \ {0}
  /\ MaxLease \in Nat \ {0}
  /\ Saturated \in Nat \ {0}

VARIABLES
  leases,          \* lease_registers
  coldCounter,     \* cold_start_counter_regs of the only set
  fullFlag,        \* full_flags_reg
  leaseAddr,       \* addr_reg
  savedLease,      \* lease_saved_reg
  missFollowup,    \* miss_followup_reg
  defaultLease,    \* default_lease_reg
  defaultCounter,  \* default_lease_counter
  phase,           \* "normal", "generate" (state_reg) or "fill" (the controller's)
  resident,        \* lines whose tag is valid
  granted,         \* history: the lease that was due to the line's last reference
  since,           \* history: references since then, counted up to MaxLease
  untabled         \* history: references since the last one found in the table

policyRegs == <<leases, coldCounter, fullFlag, leaseAddr, savedLease,
                missFollowup, defaultLease, defaultCounter>>
policyVars == <<policyRegs, phase, resident, granted, since, untabled>>

CacheLine == 0 .. Lines - 1
Lease == 0 .. MaxLease

LeaseInit ==
  /\ leases = [l \in CacheLine |-> 0]
  /\ coldCounter = 0
  /\ fullFlag = FALSE
  /\ leaseAddr = 0
  /\ savedLease = 0
  /\ missFollowup = FALSE
  /\ defaultLease = 0
  /\ defaultCounter = 0
  /\ phase = "normal"
  /\ resident = {}
  /\ granted = [l \in CacheLine |-> 0]
  /\ since = [l \in CacheLine |-> 0]
  /\ untabled = 0

-----------------------------------------------------------------------------
\* The lease of a reference: lease v when the table has it, else the default.
Due(tabled, v) == IF tabled THEN v ELSE defaultLease

Decremented ==
  [l \in CacheLine |-> IF leases[l] = 0 THEN 0 ELSE leases[l] - 1]

\* A mutation of CountDefault: a table match does not reset the counter.
CountDefaultForever(tabled) ==
  defaultCounter' = IF tabled \/ defaultCounter = Saturated THEN defaultCounter
                    ELSE defaultCounter + 1

\* References in a row that only got the default lease.
CountDefault(tabled) ==
  defaultCounter' = IF tabled THEN 0
                    ELSE IF defaultCounter = Saturated THEN Saturated
                    ELSE defaultCounter + 1

\* The history of a reference; what the line it touches is due comes later if
\* it has to be filled first.
Age(l) == IF since[l] < MaxLease THEN since[l] + 1 ELSE since[l]

Seen(tabled) ==
  untabled' = IF tabled THEN 0
              ELSE IF untabled < Saturated THEN untabled + 1 ELSE untabled

\* A mutation of Renew: the follow-up of a miss counts as a reference.
RenewAlways(l, tabled, due) ==
  /\ leases' = [Decremented EXCEPT ![l] = due]
  /\ missFollowup' = FALSE
  /\ CountDefault(tabled)

\* hit_i: a follow-up only assigns the saved lease, because its miss has
\* decremented the registers already.
Renew(l, tabled, due) ==
  /\ leases' = IF missFollowup THEN [leases EXCEPT ![l] = savedLease]
               ELSE [Decremented EXCEPT ![l] = due]
  /\ missFollowup' = FALSE
  /\ IF missFollowup THEN UNCHANGED defaultCounter ELSE CountDefault(tabled)

\* A reference that hits.
LeaseHit(l, tabled, v) ==
  /\ phase = "normal"
  /\ l \in resident
  /\ Renew(l, tabled, Due(tabled, v))
  /\ granted' = [granted EXCEPT ![l] = Due(tabled, v)]
  /\ since' = [m \in CacheLine |-> IF m = l THEN 0 ELSE Age(m)]
  /\ Seen(tabled)
  /\ UNCHANGED <<coldCounter, fullFlag, leaseAddr, savedLease, defaultLease,
                 phase, resident>>

Aged ==
  /\ since' = [m \in CacheLine |-> Age(m)]
  /\ UNCHANGED granted

\* miss_i, the block has a lease: an address is generated in the next cycle.
MissCached(tabled, v) ==
  /\ phase = "normal"
  /\ Due(tabled, v) # 0
  /\ leases' = Decremented
  /\ CountDefault(tabled)
  /\ savedLease' = Due(tabled, v)
  /\ missFollowup' = TRUE
  /\ phase' = "generate"
  /\ Aged /\ Seen(tabled)
  /\ UNCHANGED <<coldCounter, fullFlag, leaseAddr, defaultLease, resident>>

\* miss_i, no lease: the reference is served without a line.
MissBypassed(tabled, v) ==
  /\ phase = "normal"
  /\ Due(tabled, v) = 0
  /\ leases' = Decremented
  /\ CountDefault(tabled)
  /\ Aged /\ Seen(tabled)
  /\ UNCHANGED <<coldCounter, fullFlag, leaseAddr, savedLease, missFollowup,
                 defaultLease, phase, resident>>

Expired == {l \in CacheLine : leases[l] = 0}

First(S) == {l \in S : \A m \in S : l <= m}

GeneratesFrom(S) ==
  /\ phase = "generate"
  /\ leaseAddr' \in S
  /\ phase' = "fill"
  /\ UNCHANGED <<leases, savedLease, missFollowup, defaultLease, defaultCounter,
                 resident, granted, since, untabled>>

\* A mutation of GenerateCold: full one line early.
GenerateColdShort ==
  /\ ~fullFlag
  /\ GeneratesFrom({coldCounter})
  /\ fullFlag' = (coldCounter + 1 >= Lines - 1)
  /\ coldCounter' = (coldCounter + 1) % Lines

\* ST_GENERATE_REPLACEMENT_ADDR before the cache has filled.
GenerateCold ==
  /\ ~fullFlag
  /\ GeneratesFrom({coldCounter})
  /\ fullFlag' = (coldCounter = Lines - 1)
  /\ coldCounter' = (coldCounter + 1) % Lines

\* ... with no expired line, or after a long run of default leases: the LFSR's
\* line.
GenerateRandom ==
  /\ fullFlag
  /\ Expired = {} \/ defaultCounter = Saturated
  /\ GeneratesFrom(CacheLine)
  /\ UNCHANGED <<coldCounter, fullFlag>>

\* ... the first expired line.
GenerateExpired ==
  /\ fullFlag
  /\ Expired # {} /\ defaultCounter # Saturated
  /\ GeneratesFrom(First(Expired))
  /\ UNCHANGED <<coldCounter, fullFlag>>

\* The block arrives and the reference that missed is repeated.
FollowupHit ==
  /\ phase = "fill"
  /\ Renew(leaseAddr, TRUE, savedLease)
  /\ phase' = "normal"
  /\ resident' = resident \cup {leaseAddr}
  /\ granted' = [granted EXCEPT ![leaseAddr] = savedLease]
  /\ since' = [since EXCEPT ![leaseAddr] = 0]
  /\ UNCHANGED <<coldCounter, fullFlag, leaseAddr, savedLease, defaultLease,
                 untabled>>

\* con_wren_i: a phase's default lease, between two references.
LoadDefault(v) ==
  /\ phase = "normal"
  /\ defaultLease' = v
  /\ UNCHANGED <<leases, coldCounter, fullFlag, leaseAddr, savedLease,
                 missFollowup, defaultCounter, phase, resident, granted, since,
                 untabled>>

LeaseNext ==
  \/ \E tabled \in BOOLEAN, v \in Lease :
       \/ \E l \in CacheLine : LeaseHit(l, tabled, v)
       \/ MissCached(tabled, v)
       \/ MissBypassed(tabled, v)
  \/ GenerateCold
  \/ GenerateRandom
  \/ GenerateExpired
  \/ FollowupHit
  \/ \E v \in Lease : LoadDefault(v)

LeaseSpec == LeaseInit /\ [][LeaseNext]_policyVars

-----------------------------------------------------------------------------
\* Every register stays in its range, and a follow-up is expected exactly while
\* a reference waits for its block.
LeaseTypeOK ==
  /\ leases \in [CacheLine -> Lease]
  /\ coldCounter \in CacheLine
  /\ fullFlag \in BOOLEAN
  /\ leaseAddr \in CacheLine
  /\ savedLease \in Lease
  /\ missFollowup \in BOOLEAN
  /\ defaultLease \in Lease
  /\ defaultCounter \in 0 .. Saturated
  /\ phase \in {"normal", "generate", "fill"}
  /\ resident \in SUBSET CacheLine
  /\ granted \in [CacheLine -> Lease]
  /\ since \in [CacheLine -> Lease]
  /\ untabled \in 0 .. Saturated

\* What is left of a lease after as many references as the program has made.
Remaining(l) == IF granted[l] > since[l] THEN granted[l] - since[l] ELSE 0

\* A lease lasts for exactly as many references as the table says, hits and
\* misses alike: a miss and its follow-up count as the one reference they are.
LeasesCountReferences == \A l \in CacheLine : leases[l] = Remaining(l)

Replacing == phase = "fill" /\ leaseAddr \in resident

\* A block in its lease leaves only when every block is in its lease, or after
\* a run of Saturated references that the table does not know.
LeaseHonoured ==
  Replacing /\ Remaining(leaseAddr) > 0 =>
    \/ \A l \in resident : Remaining(l) > 0
    \/ untabled = Saturated

\* No block leaves while a line has never been filled.
LeaseFillsBeforeEvicting == Replacing => resident = CacheLine
=============================================================================
