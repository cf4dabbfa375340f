----------------------------- MODULE LineTracker -----------------------------
(***************************************************************************)
(* The tracker of expired cache lines (cache_line_tracker_4.v) with the    *)
(* reference counter of the cache's performance controller.  Every Rate-th *)
(* reference it records which lines have expired, in a buffer that the     *)
(* host reads.  A full buffer stalls the cache until the host clears it.   *)
(*                                                                         *)
(* The recording logic is clocked at 90 degrees, so that it can stall the  *)
(* cache; the buffer's port and its memory at 180 degrees.                 *)
(***************************************************************************)
EXTENDS Integers, Sequences

CONSTANTS
  Limit,          \* BUFFER_LIMIT, the entries that fit the buffer
  Rate,           \* rate_i: references between two entries
  CounterRange,   \* values of sampling_counter_reg (2^19)
  TraceRange,     \* values of ref_count (2^48)
  Flags           \* what the flags of the expired lines can be

ASSUME TrackerAssumption ==
  /\ Limit \in Nat \ {0}
  /\ CounterRange \in Nat \ {0} /\ Rate \in 0 .. CounterRange - 1
  /\ TraceRange \in Nat \ {0}

VARIABLES
  config,     \* comm_i: track (bit 24) and clear (bit 23)
  trk,        \* the registers at 90 degrees
  port,       \* buffer_rw_bus, buffer_addr_bus and stall_delay_flag
  refCount,   \* ref_count of cache_performance_controller_all.v
  buf,        \* the buffer's memories
  sampled     \* history: the entries since the buffer was cleared

trackerVars == <<config, trk, port, refCount, buf, sampled>>

Entry(trace, flags) == [trace |-> trace, flags |-> flags]

TrackerInit ==
  /\ config = [track |-> FALSE, clear |-> FALSE]
  /\ \E f \in Flags :
       /\ trk = [stall |-> FALSE, counter |-> 0, addr |-> 0, next |-> 0,
                 rw |-> FALSE, flags |-> f]
       /\ buf = [i \in 0 .. Limit - 1 |-> Entry(0, f)]
  /\ port = [rw |-> FALSE, addr |-> 0, delay |-> FALSE]
  /\ refCount = 0
  /\ sampled = <<>>

-----------------------------------------------------------------------------
\* 90 degrees.  The host's clear comes first, then a request counts, then the
\* counter may be up.
Cleared == [trk EXCEPT !.rw = FALSE,
                       !.stall = IF config.clear THEN FALSE ELSE @,
                       !.addr = IF config.clear THEN 0 ELSE @,
                       !.next = IF config.clear THEN 0 ELSE @]

Kept == IF config.clear THEN <<>> ELSE sampled

Tracks == config.track /\ ~Cleared.stall

Counted(request) ==
  IF request THEN (trk.counter - 1) % CounterRange ELSE trk.counter

\* A mutation of Reload: the counter starts one reference short.
ReloadShort == Rate - 1

Reload == Rate

Off == ~Tracks /\ trk' = Cleared /\ sampled' = Kept

Skip(request) ==
  /\ Tracks /\ Counted(request) # 0
  /\ trk' = [Cleared EXCEPT !.counter = Counted(request)]
  /\ sampled' = Kept

\* The entry that fills the buffer also stalls the cache.
Record(request, flags) ==
  /\ Tracks /\ Counted(request) = 0
  /\ trk' = [stall |-> Cleared.next + 1 = Limit, counter |-> Reload,
             addr |-> Cleared.next, next |-> Cleared.next + 1,
             rw |-> TRUE, flags |-> flags]
  /\ sampled' =
       Append(Kept, Entry((IF request THEN refCount ELSE refCount - 1) % TraceRange,
                          flags))

RecordEdge(request, flags) ==
  /\ Off \/ Skip(request) \/ Record(request, flags)
  /\ UNCHANGED <<config, port, refCount, buf>>

-----------------------------------------------------------------------------
\* A mutation of HardwareAccess: the host gets the port as soon as the buffer
\* is full.
AccessUntilFull == config.track /\ ~trk.stall

\* "need a flag to stall the address switch so that last entry gets recorded"
HardwareAccess == config.track /\ (trk.stall => ~port.delay)

\* 180 degrees: the port's registers, and the memory that samples what they
\* held; host is the address that the host has asked for.
PortEdge(request, host) ==
  /\ port' = IF HardwareAccess
             THEN [rw |-> trk.rw, addr |-> trk.addr, delay |-> trk.stall]
             ELSE [port EXCEPT !.rw = FALSE, !.addr = host]
  /\ buf' = IF port.rw
            THEN [buf EXCEPT ![port.addr] =
                    Entry((refCount - 1) % TraceRange, trk.flags)]
            ELSE buf
  /\ refCount' = IF config.track /\ request THEN (refCount + 1) % TraceRange
                 ELSE refCount
  /\ UNCHANGED <<config, trk, sampled>>
=============================================================================
