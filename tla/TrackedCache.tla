----------------------------- MODULE TrackedCache -----------------------------
(***************************************************************************)
(* A cache whose performance controller stalls it: the controller and its  *)
(* memories (CacheController), the tracker (LineTracker), and the wiring   *)
(* of cache_n_set_all.v between them: the tracker's stall disables the     *)
(* controller and takes the cache's done away.                             *)
(***************************************************************************)
EXTENDS LineTracker

CONSTANTS Tag, Set, Line, SetOf, W, Data, NoTag, NoLine, NoWord, NoBlock,
          Reference, Boot

VARIABLES
  clk, core, ctl, dirty, out, tagMem, cacheMem, stored,
  control,   \* the program's store to COMM_CONTROL: 0, 1 or none (2)
  owed       \* history: the reference that the hart issued is not yet served

C == INSTANCE CacheController

cacheVars == <<core, ctl, dirty, out, tagMem, cacheMem, stored>>
vars == <<clk, cacheVars, trackerVars, control, owed>>

Init == clk = 90 /\ C!CacheInit /\ TrackerInit /\ control = 2 /\ owed = core.req

\* core_done_o, and the enable_i of the controller.
Done == ctl.done /\ ~trk.stall
EnableCache == ~trk.stall

\* 0 degrees, the hart: idle, a reference, or a store that turns the tracking
\* on or off.
Hart ==
  \/ C!HartIdle /\ control' = 2 /\ UNCHANGED owed
  \/ Done /\ C!HartIssue /\ control' = 2 /\ owed' = TRUE
  \/ Done /\ C!HartIdle /\ control' \in {0, 1} /\ UNCHANGED owed

\* 0 degrees, the peripheral system: the program's store takes effect, and the
\* host's clear is a pulse.
Peripheral ==
  \E clear \in BOOLEAN :
    config' = [track |-> IF control = 2 THEN config.track ELSE control = 1,
               clear |-> clear /\ ~config.clear]

Edge0 == /\ clk = 0 /\ clk' = 90
         /\ Hart /\ Peripheral
         /\ UNCHANGED <<trk, port, refCount, buf, sampled>>

Edge90 == /\ clk = 90 /\ clk' = 180
          /\ \E f \in Flags : RecordEdge(core.req, f)
          /\ UNCHANGED <<cacheVars, control, owed>>

\* A reference is served when it hits.
Serves == EnableCache /\ ctl.state = "normal" /\ C!Active /\ C!Hits

Edge180 ==
  /\ clk = 180 /\ clk' = 270
  /\ \/ /\ EnableCache
        /\ \E mready, wready, rready \in BOOLEAN, d \in Data, v \in C!Victim :
             C!ControllerEdge(mready, wready, rready, d, v)
     \/ ~EnableCache /\ C!Disabled /\ UNCHANGED <<core, tagMem, cacheMem, stored>>
  /\ \E host \in 0 .. Limit - 1 : PortEdge(core.req, host)
  /\ owed' = (owed /\ ~Serves)
  /\ UNCHANGED control

Edge270 == /\ clk = 270 /\ clk' = 0
           /\ C!MemoryEdge
           /\ UNCHANGED <<trackerVars, control, owed>>

Next == Edge0 \/ Edge90 \/ Edge180 \/ Edge270

Spec == Init /\ [][Next]_vars

-----------------------------------------------------------------------------
\* core_done_o is "driven high when a cache operation is serviced": when the
\* hart sees it, the reference that it issued last has been served.
DoneMeansServed == clk = 0 /\ Done => ~owed

\* An entry on its way to the buffer.
Underway(i) == \/ clk = 180 /\ trk.rw /\ trk.addr = i
               \/ port.rw /\ port.addr = i

\* Every entry counted is in the buffer as it was recorded, the last one too,
\* and no earlier entry is overwritten, whenever the buffer fills, is cleared
\* or changes hands.
EntriesKept ==
  clk # 90 => \A i \in 0 .. trk.next - 1 : Underway(i) \/ buf[i] = sampled[i + 1]

\* Consecutive entries are Rate references apart, also when the tracking has
\* been turned off and on between them.
SampledEvenly ==
  \A i \in 1 .. Len(sampled) - 1 :
    (sampled[i + 1].trace - sampled[i].trace) % TraceRange = Rate % TraceRange
=============================================================================
