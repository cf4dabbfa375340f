------------------------------ MODULE MCSystem ------------------------------
\* An instruction cache and a data cache of one line each, so that two blocks of
\* code and two of data keep evicting each other.
EXTENDS InternalSystem

CONSTANTS code, more, a, b, s1, s2

MCTag == {code, more, a, b}
MCData == (MCTag \X {0}) \X (0 .. W - 1) \cup {s1, s2}
MCSetOf == [l \in {0} |-> 0]
Ref(rw, t, w, d) == [rw |-> rw, block |-> <<t, 0>>, word |-> w, data |-> d]
MCFetch == {Ref(FALSE, t, 0, s1) : t \in {code, more}}
MCLoadStore == {Ref(TRUE, a, W - 1, s1), Ref(TRUE, a, W - 1, s2),
                Ref(FALSE, a, W - 1, s1), Ref(TRUE, b, 1, s1)}
LiveLoadStore == {Ref(TRUE, a, W - 1, s1), Ref(FALSE, b, 0, s1)}

\* What the block RAM and the registers hold at power-up does not matter.
MCInit ==
  /\ Init
  /\ iCore.block = <<code, 0>> /\ dCore.block = <<b, 0>>
  /\ iMem = [l \in {0} |-> [w \in 0 .. W - 1 |-> s1]] /\ dMem = iMem

MCSpec == MCInit /\ [][Next]_vars
MCFairSpec == MCSpec /\ WF_vars(Edge) /\ WF_vars(Ddr)
=============================================================================
