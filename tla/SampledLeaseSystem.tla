-------------------------- MODULE SampledLeaseSystem --------------------------
(***************************************************************************)
(* A lease cache that is sampled while it runs: LeaseSystem with the       *)
(* sampler of its data cache (LeaseSampler) and the wiring of              *)
(* cache_n_set_all.v between them.  A sampler whose table or buffer is     *)
(* full disables the cache controller, in whatever it is doing, and takes  *)
(* the cache's done away; the policy and the memory path go on.  Sampling  *)
(* is on throughout or off throughout.                                     *)
(***************************************************************************)
EXTENDS LeaseSystem

CONSTANTS NSampler, Top, MaxCount, Thresholds

VARIABLES
  ref, comm, table, scan, rate, n, add, writeout, age, unread

samplerVars == <<ref, comm, table, scan, rate, n, add, writeout, age, unread>>
sampledVars == <<systemVars, samplerVars>>

S == INSTANCE LeaseSampler WITH
       Tags <- Block, edge <- clk, issued <- IF core.req THEN {core.block} ELSE {}

SampledInit ==
  /\ SystemInit
  /\ ref = {}
  /\ comm \in [enable : BOOLEAN, store : {{}}, clear : {FALSE}, writeout : {FALSE}]
  /\ table = [s \in S!Slots |-> [tag |-> CHOOSE b \in Block : TRUE,
                                 count |-> 0, valid |-> FALSE]]
  /\ scan = [finding |-> FALSE, oldest |-> 0, value |-> 0, search |-> 0]
  /\ rate = [counter |-> 0, threshold |-> 0]
  /\ n = 0 /\ add = 0 /\ writeout = FALSE
  /\ age = [b \in Block |-> 0] /\ unread = FALSE

\* core_done_o, which the hart and the arbiter see, and the controller's enable_i.
\* A mutation of Done: the stall does not reach the hart.
DoneUnmasked == ctl.done

Done == ctl.done /\ ~S!Stall
EnableCache == ~S!Stall

\* 0 degrees.  The host's clear of a full buffer is a pulse.
HostEdge ==
  \E wipe \in BOOLEAN :
    /\ wipe => S!Full /\ ~comm.clear
    /\ comm' = [comm EXCEPT !.clear = wipe]

SampledEdge0 ==
  /\ Edge0 /\ (Done \/ Idles)
  /\ HostEdge
  /\ UNCHANGED <<ref, table, scan, rate, n, add, writeout, age, unread>>

SampledEdge90 == Edge90 /\ UNCHANGED samplerVars

SampledEdge180 ==
  /\ \/ EnableCache /\ Edge180
     \/ /\ ~EnableCache /\ clk = 180 /\ clk' = 270
        /\ LeaseDisabled
        /\ UNCHANGED <<hartVars, pathVars>>
  /\ S!SamplerEdge(IF core.req THEN {core.block} ELSE {})
  /\ UNCHANGED comm

SampledEdge270 == Edge270 /\ UNCHANGED samplerVars

SampledEdge == SampledEdge0 \/ SampledEdge90 \/ SampledEdge180 \/ SampledEdge270

SampledDdr == Ddr /\ UNCHANGED samplerVars

SampledNext == SampledEdge \/ SampledDdr

SampledSpec == SampledInit /\ [][SampledNext]_sampledVars

\* The clock runs, the DDR3 controller answers, and the host, which polls,
\* clears a full buffer at some time.
FairSampled ==
  /\ SampledInit /\ [][SampledNext]_sampledVars
  /\ WF_sampledVars(SampledEdge) /\ WF_sampledVars(SampledDdr)
  /\ SF_sampledVars(SampledEdge0 /\ comm'.clear)

-----------------------------------------------------------------------------
\* The hart is not stalled for good: the stalls of the sampler, those of the cache
\* and those of a phase change end, also one within the other.
SampledStallEnds == ~Done ~> Done

\* The policy says "logic high if the missed block has non-zero lease (i.e. should
\* be brought into cache)": a block is requested whole only if a lease that the
\* reference may have been given is not zero, whenever the sampler stalls.
OnlyLeasedBlocks ==
  clk = 270 /\ single = NoWord /\ out.read \in Block =>
    \E v \in Leases : v # 0
=============================================================================
