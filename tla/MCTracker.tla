------------------------------ MODULE MCTracker ------------------------------
\* The instruments: a tracked cache of one line that two blocks compete for, and
\* the sampler.  A behaviour is of one of the two.
EXTENDS TrackedCache, LeaseSampler

CONSTANTS t1, t2, d1

MCTag == {t1, t2}
MCSetOf == [l \in {0} |-> 0]
MCReference == {[rw |-> FALSE, block |-> <<t, 0>>, word |-> 0, data |-> d1] :
                  t \in MCTag}

VARIABLE instrument

MCInit ==
  /\ instrument \in {"tracker", "sampler"}
  /\ Init /\ SamplerInit
  /\ instrument = "sampler" => core.block = <<t1, 0>> /\ trk.flags = 0

MCNext ==
  /\ UNCHANGED instrument
  /\ \/ instrument = "tracker" /\ Next /\ UNCHANGED samplerVars
     \/ instrument = "sampler" /\ SamplerNext /\ UNCHANGED vars

MCSpec == MCInit /\ [][MCNext]_<<vars, samplerVars, instrument>>
=============================================================================
