--------------------------- MODULE InternalSystem ---------------------------
(***************************************************************************)
(* The internal system (internal_system_2.v): the hart, its instruction    *)
(* cache and its data cache, the memory controller that they share         *)
(* (memory_controller_internal.v) and the path to the memory.              *)
(*                                                                         *)
(* Everything is clocked, by four phases of one clock: at 0 degrees the    *)
(* hart, the arbiter and the buffer of the DDR3 controller; at 90 the read *)
(* side of the memory controller's buffer; at 180 the cache controllers;   *)
(* at 270 their memories and the write side of the buffer.  What runs at   *)
(* one edge reads what the edges before it left.  Only the DDR3 controller *)
(* steps between edges.                                                    *)
(***************************************************************************)
EXTENDS Integers, Sequences, FiniteSets

CONSTANTS
  Tag, Set, W, Data, NoTag, NoLine, NoWord, NoBlock, NoAccess,
  ILine, ISetOf, Fetch,         \* instruction cache, what the hart fetches
  DLine, DSetOf, LoadStore      \* data cache, what the hart loads and stores

VARIABLES
  clk,
  iCore, iCtl, iDirty, iOut, iTag, iMem, iStored,
  dCore, dCtl, dDirty, dOut, dTag, dMem, dStored,
  mem_access,                   \* the cache that has the buffer, 0 or 1
  tx, bus, rx, clear, io, ddr3, ddr

I == INSTANCE CacheController WITH
       Line <- ILine, SetOf <- ISetOf, Reference <- Fetch, Boot <- TRUE,
       core <- iCore, ctl <- iCtl, dirty <- iDirty, out <- iOut,
       tagMem <- iTag, cacheMem <- iMem, stored <- iStored

D == INSTANCE CacheController WITH
       Line <- DLine, SetOf <- DSetOf, Reference <- LoadStore, Boot <- FALSE,
       core <- dCore, ctl <- dCtl, dirty <- dDirty, out <- dOut,
       tagMem <- dTag, cacheMem <- dMem, stored <- dStored

P == INSTANCE MemoryPath WITH Block <- D!Block

\* A block is two bursts of whole words, the memory starts with words that name
\* their place, the hart's instruction port only reads (mem_rw0_o is 0), and
\* NoAccess is none.
ASSUME SystemAssumption ==
  /\ W % 2 = 0 /\ I!CacheAssumption /\ D!CacheAssumption
  /\ D!Block \X D!Word \subseteq Data
  /\ \A a \in Fetch : ~a.rw
  /\ NoAccess \notin D!Access

iVars == <<iCore, iCtl, iDirty, iOut, iTag, iMem, iStored>>
dVars == <<dCore, dCtl, dDirty, dOut, dTag, dMem, dStored>>
pathVars == <<tx, bus, rx, clear, io, ddr3, ddr>>
vars == <<clk, iVars, dVars, mem_access, pathVars>>

\* Reset is released after an edge at 0 degrees.
Init ==
  /\ clk = 90
  /\ I!CacheInit /\ D!CacheInit
  /\ mem_access = 0
  /\ P!PathInit
  /\ ddr = [b \in D!Block |-> [w \in D!Word |-> <<b, w>>]]

-----------------------------------------------------------------------------
\* A mutation of Done: each port waits for its own cache only.
DoneAlone(own) == own.done

\* inst_done_i and data_done_i: the hart waits for both caches.
Done(own) == iCtl.done /\ dCtl.done

Hart ==
  /\ I!HartIdle \/ (Done(iCtl) /\ I!HartIssue)
  /\ D!HartIdle \/ (Done(dCtl) /\ D!HartIssue)

\* The arbiter's table: the instruction cache while it has a miss, otherwise
\* the data cache.
Owner == IF iCtl.done THEN 1 ELSE 0

Edge0 ==
  /\ clk = 0 /\ clk' = 90
  /\ Hart
  /\ mem_access' = Owner
  /\ P!IoEdge

Edge90 ==
  /\ clk = 90 /\ clk' = 180
  /\ P!RxEdge
  /\ UNCHANGED <<iVars, dVars, mem_access>>

\* A mutation of Ready: both caches see the path's signals.
ReadyUngated(c, signal) == signal

\* A ready signal of the path reaches the cache that has access.
Ready(c, signal) == mem_access = c /\ signal

FromBuffer == IF rx = <<>> THEN NoWord ELSE Head(rx)

Edge180 ==
  /\ clk = 180 /\ clk' = 270
  /\ \E v \in I!Victim \ {NoLine} :
       I!ControllerEdge(Ready(0, io.ready), Ready(0, Len(tx.fifo) < W),
                        Ready(0, rx # <<>>), FromBuffer, v)
  /\ \E v \in D!Victim \ {NoLine} :
       D!ControllerEdge(Ready(1, io.ready), Ready(1, Len(tx.fifo) < W),
                        Ready(1, rx # <<>>), FromBuffer, v)
  /\ UNCHANGED <<mem_access, pathVars>>

Edge270 ==
  /\ clk = 270 /\ clk' = 0
  /\ I!MemoryEdge /\ D!MemoryEdge
  /\ P!TxEdge(IF mem_access = 0 THEN iOut ELSE dOut, NoWord)
  /\ UNCHANGED mem_access

Ddr == P!DdrStep /\ UNCHANGED <<clk, iVars, dVars, mem_access>>

Edge == Edge0 \/ Edge90 \/ Edge180 \/ Edge270

Next == Edge \/ Ddr

Spec == Init /\ [][Next]_vars

\* The clock runs and the DDR3 controller answers.
FairSpec == Spec /\ WF_vars(Edge) /\ WF_vars(Ddr)

-----------------------------------------------------------------------------
(***************************************************************************)
(* The caches implement MemoryPort.  The memory that the hart sees is made *)
(* of the newest copy of every word: in a line, unless the line is being   *)
(* refilled; else among the words of a write-back on their way; else in    *)
(* the memory.                                                             *)
(***************************************************************************)
Pushed(o) == IF clk = 270 /\ o.push # NoWord THEN <<o.push>> ELSE <<>>

OnBus == IF clk = 0 /\ P!WordOnBus THEN <<bus.data>> ELSE <<>>

\* The words of a write-back that the memory does not hold yet, and its block.
Underway == io.rx \o OnBus \o tx.fifo \o Pushed(dOut)

UnderwayBlock ==
  IF dCtl.writebackFlag THEN dCtl.addWriteback
  ELSE IF clk = 270 /\ dOut.write # NoBlock THEN dOut.write
  ELSE bus.add

InMemory(b, w) ==
  LET first == W - Len(Underway)
  IN IF b = UnderwayBlock /\ w >= first THEN Underway[w - first + 1]
     ELSE ddr[b][w]

IntactLines(Line, Holds(_, _), ctl, out, b) ==
  {l \in Line : /\ Holds(l, b)
                /\ l = ctl.ptr => ctl.state # "readBuffer" /\ ~(clk = 270 /\ out.cam)}

\* A word of a line, the strobe that is about to write it included.
Shown(ctl, out, mem, l, w) ==
  IF clk = 270 /\ out.wr # NoWord /\ ctl.cacheAdd = <<l, w>> THEN out.wr
  ELSE mem[l][w]

DNewest ==
  [b \in D!Block |-> [w \in D!Word |->
     LET lines == IntactLines(DLine, D!Holds, dCtl, dOut, b)
     IN IF lines = {} THEN InMemory(b, w)
        ELSE Shown(dCtl, dOut, dMem, CHOOSE l \in lines : TRUE, w)]]

Pending(core, ctl) == ctl.reqFlag \/ (core.req /\ clk \in {90, 180})

PortAccess(core, ctl) ==
  IF Pending(core, ctl)
  THEN [rw |-> IF ctl.reqFlag THEN ctl.rwFlag ELSE core.rw,
        block |-> core.block, word |-> core.word, data |-> core.data]
  ELSE NoAccess

PortResult(core, ctl, out, mem) ==
  IF Pending(core, ctl) THEN NoWord
  ELSE Shown(ctl, out, mem, ctl.cacheAdd[1], ctl.cacheAdd[2])

DPort == INSTANCE MemoryPort WITH
           Access <- LoadStore, mem <- DNewest,
           access <- PortAccess(dCore, dCtl),
           result <- PortResult(dCore, dCtl, dOut, dMem)

\* The instruction cache never writes and sees what is in the memory.
IPort == INSTANCE MemoryPort WITH
           Access <- Fetch, mem <- [b \in {a.block : a \in Fetch} |-> ddr[b]],
           access <- PortAccess(iCore, iCtl),
           result <- PortResult(iCore, iCtl, iOut, iMem)

\* Loads, stores and write-backs of the data cache look like a memory's.
DataPortIsMemory == DPort!Safe

\* Fetches through the instruction cache look like a memory's.
FetchPortIsMemory == IPort!Safe

Requests(o) == o.read # NoBlock \/ o.write # NoBlock

\* Every request that a cache makes is taken: the cache has access, the buffer
\* passes the request on, and the DDR3 controller's buffer accepts it.
RequestsAreTaken ==
  /\ clk = 270 /\ Requests(iOut) => mem_access = 0 /\ io.ready
  /\ clk = 270 /\ Requests(dOut) => mem_access = 1 /\ io.ready
  /\ clk = 0 /\ bus.req => io.state = "idle" /\ io.delay = 0 /\ ddr3 = "free"

\* No buffer overflows or runs empty: none of the exceptions of txrx_buffer.v
\* is raised, and io_conversion_buffer_v2.v, which has none, needs none.
BuffersHold ==
  /\ \A fifo \in {tx.fifo, rx, io.rx, io.tx} : Len(fifo) <= W
  /\ clk = 270 /\ iOut.ack => mem_access = 0 /\ rx # <<>>
  /\ clk = 270 /\ dOut.ack => mem_access = 1 /\ rx # <<>>
  /\ clk = 270 /\ dOut.push # NoWord => mem_access = 1

\* No read of a cache is answered with the words that another asked for.
BufferEmptyBetweenReads ==
  clk = 270 /\ (iOut.read # NoBlock \/ dOut.read # NoBlock)
  => rx = <<>> /\ io.tx = <<>>

\* The hart never stalls for good.
StallEnds == ~(iCtl.done /\ dCtl.done) ~> (iCtl.done /\ dCtl.done)

\* A dirty block that has left the cache reaches the memory.
WritebackEnds == dCtl.writebackFlag ~> (~dCtl.writebackFlag /\ Underway = <<>>)
=============================================================================
