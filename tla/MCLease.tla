------------------------------- MODULE MCLease -------------------------------
\* A cache of one line and a table of two blocks per half.  Phase 0 knows many
\* instructions and caches some; phase 1 knows one, so that the others would
\* still match stale entries.
EXTENDS SampledLeaseSystem

CONSTANTS a, b, s1, s2, ldA, stA, ldB

MCSetOf == [l \in {0} |-> 0]
MCPc == {ldA, stA, ldB}
MCData == ({a, b} \X {0}) \X (0 .. W - 1) \cup {s1, s2}

Ref(rw, t, w, d) == [rw |-> rw, block |-> <<t, 0>>, word |-> w, data |-> d]
MCProgram == {<<stA, Ref(TRUE, a, W - 1, s1)>>, <<stA, Ref(TRUE, a, W - 1, s2)>>,
              <<ldA, Ref(FALSE, a, W - 1, s1)>>,
              <<ldB, Ref(FALSE, b, 1, s1)>>}
MCReference == {r[2] : r \in MCProgram}

\* The entries of the longer table fill a block and begin another.
Long == [i \in 0 .. W |-> IF i = 0 THEN ldA ELSE IF i = W THEN ldB ELSE NoPc]
LongLease == [i \in 0 .. W |-> IF i = 0 THEN 2 ELSE IF i = W THEN 1 ELSE 0]
MCTable ==
  [p \in Phase |->
     IF p = 0 THEN [default |-> 0, lease1 |-> 0, dual |-> ldA, refs |-> W + 1,
                    ref |-> Long, lease |-> LongLease]
     ELSE [default |-> 0, lease1 |-> 1, dual |-> NoPc, refs |-> 1,
           ref |-> [i \in {0} |-> stA], lease |-> [i \in {0} |-> 3]]]

\* What the registers and the block RAM hold at power-up does not matter.  The
\* phases change in behaviours that are not sampled.
MCInit == /\ SampledInit
          /\ core.block = <<a, 0>> /\ core.word = W - 1 /\ core.data = s1
          /\ cacheMem = [l \in {0} |-> [w \in Word |-> s1]]

\* Bounds of the sampled behaviours: one phase, and stores of one value.
Bound == comm.enable => newPhase' = phase /\ core'.data = s1

MCSpec == /\ MCInit /\ [][SampledNext /\ Bound]_sampledVars
          /\ WF_sampledVars(SampledEdge /\ Bound) /\ WF_sampledVars(SampledDdr)
          /\ SF_sampledVars(S!Full /\ SampledEdge0 /\ Bound /\ comm'.clear)
=============================================================================
