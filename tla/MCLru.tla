-------------------------------- MODULE MCLru --------------------------------
\* What decides which line goes: the line controllers LRU (five lines, victims at
\* position N-1), tree PLRU (four), SRRIP (four, two-bit intervals), the lease
\* policy (three), and CLAM's assignment of leases.  A behaviour is of one of them.
EXTENDS RecencyStack, LeasePolicy, RripIntervals, ShelLeases, PlruTree

MCVictimDepth == 4
MCPhaseOf == [r \in Refs |-> IF r = "c" THEN 2 ELSE 1]

VARIABLE policy

MCInit ==
  /\ policy \in {"lru", "plru", "srrip", "lease", "shel"}
  /\ Init /\ LeaseInit /\ PlruInit /\ RripInit /\ ShelInit
  /\ policy # "shel" => \A r \in Refs, i \in Intervals : hist[r][i] = 1

\* CLAM ends; the hardware goes on.
MCNext ==
  /\ UNCHANGED policy
  /\ \/ policy = "lru" /\ Next
        /\ UNCHANGED <<policyVars, plruVars, rripVars, shelVars>>
     \/ policy = "plru" /\ PlruNext
        /\ UNCHANGED <<vars, policyVars, rripVars, shelVars>>
     \/ policy = "srrip" /\ RripNext
        /\ UNCHANGED <<vars, policyVars, plruVars, shelVars>>
     \/ policy = "lease" /\ LeaseNext
        /\ UNCHANGED <<vars, plruVars, rripVars, shelVars>>
     \/ policy = "shel" /\ (ShelNext \/ (finished /\ UNCHANGED shelVars))
        /\ UNCHANGED <<vars, policyVars, plruVars, rripVars>>

MCSpec == /\ MCInit
          /\ [][MCNext]_<<vars, policyVars, plruVars, rripVars, shelVars, policy>>
          /\ WF_rripVars(policy = "srrip" /\ Cycle /\ MCNext)

=============================================================================
