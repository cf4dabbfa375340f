# Lease cache: TLA+ models, checks and proofs

The repository is an FPGA research system: a RISC-V hart with an instruction
cache and a data cache whose replacement policy can be exchanged (LRU, MRU,
PLRU, SRRIP, FIFO, random, or *leases* computed off line from sampled traces),
a path to a DDR3 memory, instruments that sample and track what the caches do,
a host that loads programs and reads the instruments out over JTAG, and CLAM,
which turns samples into leases. This directory models the cache system, its
instruments, the host's session and the assignment of leases, and proves what
can be proved about them.

    tlc -config MCSystem.cfg MCSystem      checks an instance
    tlapm CacheControllerProofs.tla        checks the proofs of one component

## The system

Everything on the board is clocked by four phases of one clock. The phases are
what makes the hardware hard to reason about: a component reads what the ones
before it left *in the same cycle*.

| edge | who works |
|---|---|
| 0 degrees | hart, arbiter (`memory_controller_internal.v`), DDR3 I/O buffer, peripheral system |
| 90 | read side of `txrx_buffer.v`, trackers, `external_memory_controller.v` |
| 180 | cache controllers, performance counters, sampler, the trackers' buffer memories |
| 270 | tag memories, block RAMs, replacement policies, write side of `txrx_buffer.v` |

### Inventory

| component | state | operations | what makes it hard | what makes it correct |
|---|---|---|---|---|
| replacement policies (`cache/lib/*_line_controller.v`, `*_policy_controller.v`) | position, tree or interval registers, cold-start counter | hit strobe, miss strobe | registers of empty lines move before they are initialised; cold start ends at a boundary | fills the set before evicting; evicts the line its policy names |
| cache controller (`n_set_cache_controller.v`) with tag memory and block RAM | five-state machine, pending request, pending write-back, dirty bits; tags, valid bits, words | hit, miss, request of a block, replacement, write-out, refill, write-back request | requests are pulses; the write-back is requested by a block that runs beside the state machine | a block is in one line; dirty words reach the memory; the port behaves like a memory |
| arbiter (`memory_controller_internal.v`) | the cache that has access | arbitration, gating of ready signals | switches on done signals while transfers may be under way | no request is dropped, no word goes to the other cache |
| buffers (`txrx_buffer.v`, `io_conversion_buffer_v2.v`) | ring buffers, counts, a state machine | push, send, receive, bursts, acknowledgement | two clock edges each, block against burst size, ready is a register | no overflow, no underflow, no request while not ready |
| tracker (`cache_line_tracker_4.v`) with `cache_performance_controller_all.v` | sampling counter, entry address, stall, port registers, buffer | record, stall, clear, change of hands | stalls the cache that it watches; three edges from a record to the memory | every entry is kept, one period apart; a stall loses no reference |
| peripheral system (`peripheral_system_3.v`) | communication register, phase register, reset | stores of the program, the host's pulses | order of reset release and clock | - |
| lease controller (`n_set_dynamic_controller_tracker.v`) with its lookup table | the cache controller's, phase of the tables, load counters, the buffered reference | as the cache controller; load of a phase's configuration and table; a word read or written past the cache | a phase changes beside a reference; the policy's decision is a one-cycle strobe; one set of request registers for blocks, words and tables | loads see the last store on every path; tables are those of the phase; every stall ends |
| lease policy (`n_set_cache_lease_policy_default_switch_controller_tracker.v`) | lease registers, default lease and its counter, cold-start counter | hit strobe, miss strobe, generation of an address | a miss decrements all leases, its repetition must not | what is left of a lease is what was granted less the references since; a running lease is displaced only when none has expired |
| sampler (`lease_sampler_all.v`) | sample table, counters, random threshold, buffer address | sample, reuse, eviction of the oldest entry, write-out, clear | full table, full buffer, a search over many cycles | an interval is the number of references between two uses of a block |
| two-level system (`cache_2level/*`, `*_2level.v`) | as the caches, with a second level | as the caches | refills that evict | inclusion of what the first level expects |
| host link (`comm_controller_v3.v`, `uart_jtag_driver.v`, `software/fpga_proxy`, `external_memory_controller.v`) | command registers and counts; grant; the host's place in its program | purge, synchronization, reads, writes, fusion; load, verify and repair a program | no framing but the counts; the driver moves words both ways; words of a session before; retries | answers belong to the question; a verified program is in memory; the session ends |
| CLAM (`software/CLAM`, `lib.rs`) | heap of candidates, leases, costs per phase | batch assignment of leases | candidates that are out of date, dual leases, rounding | the leases fit into the cache and waste no room |

Interactions: the hart raises a one-cycle request at each port and goes on when
both `done` signals are high. A cache that misses asks the arbiter's buffer for
the block; the buffer passes a request on if the memory is ready and otherwise
forgets it. The caches therefore only ask when they see ready, and what they
see is gated by the arbiter. The tracker disables the cache controller and
takes `core_done_o` away. A program that uses leases stores the number of its
phase in the peripheral system; the lease controller sees it change and stops
the hart until the phase's tables are loaded. The host polls the sampler while
a program runs, CLAM computes leases from what it reads, and the tables are
linked with the program of the next run. What can go wrong at each place is listed, with the
line and the property that guards it, under `hazards` in `PROJECT.json`.

## Modules

| module | models | variables and actions against the code |
|---|---|---|
| `RecencyStack` | `lru_line_controller.v`, `mru_line_controller.v` | `pStack`, `counter`, `addr` are the registers; `Hit`, `ColdMiss`, `WarmMiss` are the branches of the always block; `Refill` is the repeated reference by which the cache controller ends a miss. `VictimDepth` is the position that the reduction selects: `&p_stack[k]` (N-1) or `~\|p_stack[k]` (0). `valid`, `filling` and the history `older` say what the registers stand for. |
| `CacheController` | `n_set_cache_controller.v`, `tag_memory_n_set.v`, block RAM | `ctl` holds the registers, `out` the strobes, `core` the hart's request registers; `stored` is a history of the lines stored into. One action per state and outcome; each ends with `Finish`, the write-back block. The environment (readiness, data, victim) is a parameter of the edge, and free in `Spec`: what holds there holds with any policy and any system around it. |
| `MemoryPath` | `txrx_buffer.v`, `io_conversion_buffer_v2.v`, external DDR3 controller | ring buffers are sequences; one operator per clock edge; blocks and single words; the DDR3 controller answers at a time of its own |
| `InternalSystem` | `internal_system_2.v`, `memory_controller_internal.v` | two instances of `CacheController` and one of `MemoryPath` on the four edges; `Owner` is the arbiter's table, `Ready` its gating |
| `MemoryPort` | abstract specification | a memory that serves one access at a time: `Ask`, `Serve` |
| `LineTracker` | `cache_line_tracker_4.v`, `ref_count` | `Off`, `Skip`, `Record` are the outcomes at 90 degrees, `PortEdge` the buffer's port and memory at 180 |
| `TrackedCache` | the wiring of `cache_n_set_all.v` | a `CacheController` that the tracker disables, the program's stores to the communication register and the host's clear |
| `PlruTree` | `plru_line_controller.v` | `tree`, `cold`, `coldDone` are the registers; a line is its address bit by bit, a node the bits above it; one action per branch, the repeated reference apart; `newer` is a history of who was referenced after whom |
| `RripIntervals` | `srrip_line_controller.v` | `rrpv`, `firstHit`, `generated`, `place`, `mode` are the registers; the cycles in which the intervals grow are steps (`Cycle`), since the cache waits for them; `idle`, `idleSince` are histories |
| `LeasePolicy` | the lease policy with the default-lease switch | the registers of one set; `granted` and `since` are the history that the lease registers are compared with. The lease of a reference is any value: tables and dual leases are CLAM's |
| `LeaseController` (extends `CacheController`) | `n_set_dynamic_controller_tracker.v`, `lease_lookup_table.v` and the configuration registers of the policy | `lease` holds the registers that `CacheController` does not have, `con` and `llt` the tables, `single` the word that passes the cache. States of the replacement are the actions of `CacheController`; loading, the interrupt and the words past the cache are new |
| `LeaseSystem` | a lease cache, `MemoryPath`, phase register | the four edges; a program of loads, stores and stores to the phase register |
| `SampledLeaseSystem` (extends `LeaseSystem`) | the wiring of `cache_n_set_all.v` between the sampler and the lease controller | an instance of `LeaseSampler` beside the controller; `Done` and `EnableCache` are the two lines that the stall masks, `LeaseDisabled` what a disabled controller still does |
| `CommController` | `comm_controller_v3.v`, the word transfers of the memory behind it | one action per state and outcome; `bus` is the transfer asked of the external memory controller, and `Serve` routes it to `WriteMemory`, `ReadMemory` (the I/O buffer's word transfers) or `Peripheral` |
| `HostProxy` (extends `CommController`) | `software/fpga_proxy` (`protocol.c`, `fpga_elf.c`, `jtag_wrapper.c`), `uart_jtag_driver.v`, the JTAG library as the host uses it | the host's program as states between its calls; `Driver` is the FPGA's end of the cable; `lull` counts the empty cycles of the purge while words of an earlier session are still to come |
| `LeaseSampler` | `lease_sampler_all.v`, its wiring, the host's poll | `SamplerEdge0` is the hart, the program and the host, `SamplerEdge180` the outcomes of the sampler; `age` is the history of true reuse intervals |
| `ShelLeases` | `shel_cshel` of CLAM's `lib.rs` | any sampled histograms, then one action per branch of the loop over the heap |
| `PolicyProofs` (the four replacement policies), `ShelProofs`, `CacheControllerProofs`, `InstrumentProofs` (sampler and tracker), `InternalSystemProofs`, `InternalPortProofs` (extends `InternalSystemProofs`), `LeaseSystemProofs`, `HostProxyProofs` | theorems | see below |
| `MC*` | instances for TLC | |

Operators whose comment says *a mutation of ...* are not part of the
specifications: they are plausible errors in the definition that follows them,
kept to show that the properties notice.

Data is abstracted to what the properties tell apart: words are model values
(in the system, the pair of block and index, so that a misplaced word shows),
addresses are a tag, a set and a word.

### Refinement

`InternalSystem` shows that each cache's port implements `MemoryPort`
(`DataPortIsMemory`, `FetchPortIsMemory`). The mapping has to say where the newest copy of
a word is, in any of the cycles of a transfer: in an intact line of the cache;
else, for the block of the write-back that is under way, among the words in
the I/O buffer, on the bus, in the transmit buffer or on the strobe; else in
the memory. `access` is the reference that waits in the hart's or the
controller's registers, `result` the word on the port.

## Runs

| run | instance | shows |
|---|---|---|
| `lru` | LRU with 5 lines, PLRU with 4, SRRIP with 4 and two-bit intervals, the lease policy with 3 lines, leases up to 2 and a counter up to 3; SHEL with 3 references in 2 phases, intervals 1, 4 and 18 and a cache of 4; side by side | LRU's positions stay a permutation, no eviction before the set is full, and the least recent line goes; PLRU keeps the two most recent lines; SRRIP gives up no used block before one that was idle already then, and always answers; leases count references and are honoured; SHEL's leases fit and leave no room that a candidate could use |
| `cache` | 3 lines in 2 sets, 5 blocks, 2 words | one copy of a block, no forgotten store, order of a write-out, no copy behind a pending write-back, no second miss, no lost write-back |
| `system` | 1 line per cache, 2 blocks each, 4 words | the refinements, no dropped request, no overfull or empty buffer |
| `live` | the same with 16 words | stalls end, write-backs end |
| `tracker` | tracker: buffer of 2, period 2, counter modulo 4, trace modulo 8; sampler: 3 blocks, table of 2, buffer addresses up to 2; side by side | entries are kept and evenly spaced; samples are reuse intervals |
| `lease` | one line, two blocks of 8 words, a table of 16 entries, two phases of 9 references and 1; in sampled behaviours one phase, a sample table of 2 and buffer addresses up to 2 | loads see the last store, whether words move in blocks or past the cache, and with the sampler's stalls beginning in any state; the tables belong to the phase; requests do not overwrite each other; the stalls of a phase change and of the sampler end |
| `link` | 5 words of two one-bit bytes, packets of 2 words, buffers of 4, one faulty transfer, two attempts, 5 words of an earlier session still to come (its key among them) against a purge of 2 empty cycles and gaps of up to 2, 3 counters | every answer belongs to its question; a program that was verified is in memory; the session succeeds |
| `mru` | 4 lines | a finding, below |
| `lost_request` | as `tracker` | a finding, below |
| `lease_store` | as `lease`, with stores right after a store to the phase register | a finding, below |
| `lost_decision` | as `lease` | a finding, below |
| `sampler_full` | as `tracker`, the sampler's buffer addresses up to 3 | a finding, below |

Why the bounds are enough. *lru*: the register logic compares positions of
pairs of lines; five lines leave room on both sides of a referenced and of an
uninitialised line, and the theorems cover every number; four lines give PLRU two
layers and SRRIP room for two idle and two used blocks at once. Each policy
steps alone while the others rest, so that one run covers all of them. *cache*: three blocks
for the two lines of a set make every eviction order happen, two words are the
least with a first and a last word, a second set shows that only lines of the
requested one take part; the environment is free, so it includes every delay.
*system*: with one line per cache nearly every access evicts, which is the
worst case for the path; four words give bursts of two, so that the counters of
bursts have a middle. *live*: the timing that decides about starvation depends
on the block's length, so this run has the code's own sixteen words and fewer
references. *tracker*: a buffer of two entries is full and cleared again
within a few references, and the counters wrap. *lease*: with one line and two
blocks every cached reference displaces the other block, each phase caches an
instruction whose block the other reads and writes past the cache, and the
phases' tables are of different size, so that entries of the first would be
left over in the second. A configuration block needs words 0 to
4, hence eight words to a block; the first phase needs more references than a
block has words, so that a table spans two blocks. Shorter blocks would
mislead: `OneRequestAtATime` holds because a write-back has been taken by the time
the controller asks for a table, and the shorter the block, the longer a
write-back waits. With six words it fails; with the code's sixteen the three
invariants of this run hold as well. In the sampled
behaviours a table of two is full after two references to different blocks,
so that nearly every reference meets a stall, of the table, of the buffer or of
one within the other; the phase stays as it is and stores have one value, which
keeps the two halves of the run apart in size. *link*: a packet
is shorter than the program and does not divide it, a word has two bytes so
that the byte that fails can be the first or the second, the buffers hold
less than the host sends in one go, and there is one attempt more than faults.
The words of the earlier session are more than a buffer holds and the
synchronization key is among them, so that words after it would be taken for a
command; a gap may be as long as the purge.
The sampler
in *tracker*: three blocks for a table of two force evictions of the oldest entry,
and counters saturate within a behaviour. SHEL in *lru*: two of the references share a phase
and compete for its budget, and one bit for the probability makes the rounded
dual lease meet its threshold exactly.

Deadlock is checked in every run but `link`, where the host's session finishes
(and in `lru` SHEL may stay where it has finished). Elsewhere a step of the
clock is always possible, so a deadlock would mean a state of a controller or
a buffer that no branch of its code covers.

### Fairness

The safety runs assume none. `FairSpec` assumes weak fairness of the clock
(`Edge`: an oscillator) and of the DDR3 controller (`Ddr`: a memory answers
each burst). Nothing is assumed of the hart, which may idle or keep both caches
busy forever, nor of the arbiter: `WritebackEnds` has to hold although the
instruction cache asks for the path again as soon as it can. `lease` assumes the
same of its clock and its memory, and strong fairness of the host's clear:
`sampler_run` polls the full flag until the program ends, and a full buffer
stays so until it is cleared, but for the overrun shown by `sampler_full`.
`lru` assumes that the SRRIP
policy is clocked (`Cycle`), and nothing of the references. `link` assumes that the
machines on the FPGA are clocked (controller, memory and driver), and that the
host's process is scheduled; that a session succeeds also needs the bound of
one faulty transfer, since a word that fails more often than the host tries is
given up, as the code says.

That it holds is a matter of cycles. The last word of a read leaves the I/O
buffer seven cycles after its transfer ends, the buffer shows ready one cycle
later, and the hart's next fetch takes the path away one cycle after that; in
the cycle between, the waiting write-back is taken. With blocks of four words
the run fails (the words leave before the delay is over and the window closes),
and it fails with sixteen words and the longer delay that
`io_conversion_buffer_v2.v` has in a comment at line 401, which is the mutant
of this run. The safety properties of `system` do not depend on the block's
length, `OneRequestAtATime` of `lease` does (see the bounds).

## Theorems

`PolicyProofs`, recency stack, for every number of lines:

* `RecencyStackTypeOK`, `PositionsAreOrdinal`, for both policies. The lines that cold
  start has not reached hold arbitrary positions and are moved by hits, so the
  permutation is claimed for the lines `0 .. counter` only, and the argument is
  that a hit permutes the positions below the referenced one (`PushKeepsStack`).
* `LruFillsBeforeEvicting`, `LruEvictsLeastRecent`, assuming `VictimDepth = N - 1`. The
  invariant relates positions to the history: of two valid lines the one
  with the smaller position was referenced after the other, and the line that
  cold start reaches next holds the last position.

`CacheControllerProofs`, for every geometry, every set of references, every
environment and every choice of victims. No property that the runs check is
inductive alone; `Inv` joins

* `TypeOK`, `TagsUnique`, `DirtyLinesValid`,
* `InService`: outside the normal state a reference is in service, `done` is low
  and its block is in no line, except in the edge in which its tag is written;
* `Pointer`, `Transfer`: the pointer is a line of the requested set, and the
  transfer counter, the addressed word and the state agree;
* `Behind`: the block of a pending write-back is in no line but the one being
  replaced, and in none once the refill has written the tag.

`StepInv` has one lemma per action of the controller, and the memories' edge
apart. From `Inv` follow `CacheTypeOK`, `BlocksAreInOneLine`, `DirtyLinesAreValid`,
`WordsLeaveInOrder`, `MissesOnce`, `PendingBlockIsNotCached` and, with a second
invariant (`ReadsAlone`: a read strobe and a pending write-back exclude each
other), the action property `WritebacksAreNotLost`. `StoresAreWrittenBack`
(`StoresAreKept`: a line that was stored into, according to the history `stored`, is
dirty until its last word has gone to the buffer) is inductive given `Inv`, and
is proved with a lemma for each action once more.

`InstrumentProofs`, tracker, for every size of the buffer, period and counter width,
assuming a period of two or more (`Rate >= 2`): `TrackerKeepsEntries` (`EntriesKept`) and
`TrackerSamplesEvenly` (`SampledEvenly`). A record takes three edges to the memory
and only one can be on its way. `TrackerInv` says so: its conjunct `Counts` has the
counter at its reload value after a record, so that a second one is at least a
cycle away, and `AtPort`, `Delayed` and `Stored` say where each entry below the next
address is. Both proofs follow the entries through the stall, in which the
port changes hands (`PaceInv`, with `StalledHart`: nothing is referenced while the
stall lasts). `Paced` says how many references lie between the last entry and now:
what the counter has come down, modulo the width of the trace. Two lemmas on
remainders (`Remainder`, `Congruent`) carry that through the wrap.

`PolicyProofs`, leases, for every number of lines, every lease and every width of the
counters: `LeaseTypeCorrect`, `LeasesCount` (`LeasesCountReferences`), `LeasesHonoured`
(`LeaseHonoured`) and `LeaseFillsFirst` (`LeaseFillsBeforeEvicting`). That leases count
references is not inductive: the miss decrements, its repetition must not, and
a flag tells them apart. `LeaseInv` therefore adds `FollowupExpected` (the flag is
set exactly between a miss and its repetition), `DefaultCounted`, `FillProgress` (the
lines below the cold-start counter are the resident ones) and `VictimJustified` (what
was true when the address was generated).

`PolicyProofs`, SRRIP: `RripKeepsUsedBlocks` (`OutlivesIdle`), for every number of lines and
every width. `RripInv` adds `FirstHits` and `Awaited` (what the flag and the registers
say between a miss and its repetition) and `IdleAhead`: a block that was idle
when another was used has a longer interval than that one until it is used
itself, because all intervals grow together.

`PolicyProofs`, PLRU: `PlruRecency` (`PlruKeepsRecent`), for every number of layers: the
line given up is none of the `Layers` lines referenced last. The tree keeps no
order, so the invariant says what a bit of it is worth (`Turned`): a node that points
to a resident line was turned there by a reference to its other half, since the
line itself was referenced. The victim is pointed to by the node of every layer
above it; that gives one line per layer, and they differ, because each leaves
the victim's path at another node. That the nodes on a path name one line, and
that there are `2^Layers` of them, goes through the cardinality of a power set.

`ShelProofs`, for every set of references and phases, every sampled histogram, cache
size, sampling rate and table width: `ShelFits` (`LeasesFit`) and `ShelUsesRoom`
(`NoRoomWasted`). The budget and the costs are sums over references and intervals. The
library has no theorems about them, so the module first proves those that are
needed (that they are numbers, grow with their terms, and change by what one
term changes), by induction over finite subsets along their strict order. `ShelInv`
then relates the running totals of the loop to what they stand for:
`CostIsHeld` (a phase without a dual lease has spent what its references' leases take),
`DualFills` (the share of the long lease that a phase with one may take fills it),
`OneDualPerPhase`, and, for the second theorem, `NoneForgotten`: every longer lease
of every reference is still in the heap over the reference's present lease, or
its phase is full, has its dual lease, or the candidate was not worth one. The
candidates over an old lease are lost with each assignment, which is why `Assign`
has to enter new ones.

`InstrumentProofs`, sampler: `SamplerCountsReuses` (`SamplesAreReuses`), for every table, counter
width and set of thresholds. The step in which a sample is entered needs that
the entry it goes to is the block's own or a free one, which rests on every
non-empty set of entries having a least member (`WFMin` of the library's
well-foundedness theorems).

`InternalSystemProofs`, for every two geometries, every set of references, every
block of two bursts of whole words and every DDR3 controller that answers at
some time: `RequestsTaken` (`RequestsAreTaken`), `BuffersDoHold` (`BuffersHold`) and
`BufferEmpty` (`BufferEmptyBetweenReads`). The arbiter, the buffer and the I/O buffer
rely on each other and check nothing: a request is a pulse of one cycle, a
buffer that overflows only raises an exception, and the reads are told apart
by nothing but their order. `SystemInvariant` is the invariant `SysInv` that
makes it work. It has two halves:

* whose turn it is (`Arbitration`, `Gated`, `IoReady`, `Accepted`): the hart waits
  for both caches, so that while one of them transfers the other is idle, done
  or waiting to ask; what the arbiter chose at 270 degrees is still right when
  the path samples it; and a request that is on the bus finds the I/O buffer
  idle and ready.
* where the words are. `ReadBalance`: the words that a cache still waits for, and has
  asked for, are as many as those in the I/O buffer and in the receive buffer and
  those that are to come from the DDR3 controller. `PushBalance` and `WriteBalance`
  say the same of the words of a write-back on their way out. When the path
  reports ready, both sums are zero on its side: nothing of an earlier
  transfer is left, in either direction, when the next begins.

None of the three properties is inductive: that a request is taken needs that
the path is empty when the arbiter lets it through, which needs the counts,
which need that the requests before were taken. There is one lemma for each
edge of the clock (`HartEdge`, `ReceiveEdge`, `ControllersEdge`, `SendEdge`, `DdrEdge`), over
lemmas that say what a cache and the I/O buffer do in one edge as the rest of the
system sees it.

`InternalPortProofs`, as general as `InternalSystemProofs`, proves the refinement that
`system` checks on an instance: `DataPort` (`DataPortIsMemory`) and `FetchPort`
(`FetchPortIsMemory`). `SysInv` counts the words on the path; here their values are
followed, and the argument has four parts.

* *Lines* (`LinesInv`): a block is in one line; the block in service is in none until
  the last word of its refill writes the tag; a store goes to a dirty line.
* *Reads*: the words in the receive buffer, on the port and in the I/O buffer,
  taken together (`Arriving`), are those of the missing block from the place on
  that the line has got to (`SegmentAt(Arriving, Position, ...)`), so that a line
  that has been filled holds its block (`FillOf`) and a clean line holds what is
  behind it (`CleanOf`).
* *Writes*: the words on the strobe, in the transmit buffer, on the bus and in the
  I/O buffer (`Underway`) are those of one block, in order, in front of the ones
  that the line still has. `Contents` is the memory with these words in their
  places. A step does one of three things to the words underway: nothing, a
  burst goes to the memory, a word is pushed (`UnderwayStep`); the first two leave
  `Contents` as it is (`ContentsKept`). That a block is not read back while its
  words are underway (`Behind`) is the property that the order of requests and the
  flag `writeback_flag_reg` are for.
* *Copies*: `NewestOK` reads the refinement mapping's memory word by word: a
  copy's word if there is a copy, `Contents` otherwise. Lines become and cease to
  be copies only in three steps (a clean victim is taken, the last word of a dirty
  one is pushed, the tag of a refilled one is written), and in each of them the
  line and `Contents` agree. So no step changes what the hart sees, but for the
  hit that is a store.

The invariants are `FetchInv` for the instruction cache and `DataInv` for the data
cache. `FetchPort` has a hypothesis, `CodeIsNotWritten`: the hart stores into no block
that it fetches. The hardware has no path from the data cache to the instruction
cache, so that code that a program writes is seen late or never; a program
that is loaded by the host and does not write itself meets the hypothesis, as does the
instance of `system`. `DataPort` has none.

`LeaseSystemProofs`, for every geometry, program, set of tables and phases, every DDR3
controller and every sampler that stalls: `RequestsAreSingle` (`OneRequestAtATime`), with
blocks of eight words or more (`W >= 8`; the code has sixteen, and with six TLC finds the
property violated). A table is asked for without looking whether a write-back is
pending, and nothing in the code keeps the two apart but time. `LeaseInvariant` proves the
invariant `LeaseInv`, which TLC has checked on the instance of `lease`; its parts are

* `Flow`: the words that the controller still waits for are those that it is just
  asking for, those to come from the memory, and those in the I/O buffer and the
  receive buffer; nothing of an earlier transfer is left when one begins;
* `Requests`, `Ready`, `Acknowledged`: a request is made of a path that is ready, and
  "ready" means that the I/O buffer and the DDR3 controller are at rest;
* `Transfers`, `Calm`: the registers of the controller agree, and the phase
  register does not change while the hart waits or in the cycle after a reference;
* `Alone`: while a write-back is pending or may become so, the path serves nothing
  but the read of the new block;
* `InTime`: the cycles until the I/O buffer is ready (`Cycles`) are at most those that the
  words still to be taken last, plus two. The hart goes on after the last of them
  and the phase can change one cycle later; when it has, `Cycles` is zero, the write-back is
  being requested, and the controller asks for the table a cycle after that.

There is one lemma for each edge, on top of lemmas that give every outcome of the
controller (`EnabledSteps`, `SleepingSteps`) and of the I/O buffer (`IoEdgeSteps`) by what
the invariant needs of it.

`HostProxyProofs`, for every program, every size of packets, words, memory and
buffers, and whatever words of an earlier session are still on their way, if they leave no
gap as long as the purge (`MaxLull <= Purge`):

* `FramingIsKept` (`AnswersBelong`). Nothing on the link says what a word is for: a
  controller that took one word too few for a command would read data as the
  next command, and the host would take every later answer for that to another
  question. `SessionInvariant` therefore counts. Wherever they are (in a buffer, in the
  driver's hands, in the JTAG library), `Outgoing` are the words of the command that
  the controller has still to take and `Incoming` the answers that the host has
  still to take; moving a word changes neither. `CommandInv` gives the lengths of
  both for each kind of command and each state of the controller. One of the two is
  always empty (`LinkOK`), which is why the driver, whose transmissions of nothing are
  discarded, loses no word. What an earlier session has left is
  thrown away: `ConnectInv` relates the count of the purge to the gap that has been
  seen, so when the purge is over nothing is coming any more.
* `VerificationShows` (`VerifiedMeansLoaded`), if `MaxFaults <= 1`: when the host reports success,
  memory holds the program. One fault spoils what has been loaded or what is
  read back, never both, and the bytes that have been compared are right in
  memory: of a repaired word as well, because the host goes on from the byte that
  was wrong and the bytes before it were right. With two faults the statement is
  false (see the assumptions of the models), so the hypothesis cannot be dropped.

The assumptions are those of the modules (`StackAssumption`, `CacheAssumption`,
`TrackerAssumption`, `PolicyAssumption`, `RripAssumption`, `PlruAssumption`, `ShelAssumption`,
`SamplerAssumption`, `TableAssumption`, `LeaseSystemAssumption`, `SystemAssumption`, `LinkAssumption`, `HostAssumption`, `BytesAssumption`): sizes are positive, each line
belongs to a set, the "none" values are none of the values, a block's first
interval is neither the shortest nor beyond the longest, a sampler's table has
at least two entries, a block of the systems has an even number of words, a lease table fills whole blocks
and has room for its phase's references, no block of a table and no word is the "none" value, what memory
holds at first are words, the hart's instruction port only reads
(`riscv_hart_top.v:40` ties `mem_rw0_o` to 0), the value that stands for
"no access" is none, a program's references and intervals are finitely many,
the words by which the host synchronizes are not the controller's key, and a
word is known by its bytes. TLC evaluates them in the runs.

Only model-checked: liveness, which the proof system does not treat, and two
invariants of the run `lease`, `TableOfPhase` and `LoadsSeeLastStore`. Both rest on
`OneRequestAtATime` (a request that is overwritten takes another's words) and on the order of
the words on the path, which `Flow` counts but does not follow: they need what
`InternalPortProofs` does for the other caches, for blocks, tables and words past the cache.

## Findings

* **mru.** Cold start counts to N-1, one short of the set. LRU uses the last line
  nevertheless, because it is initialised to the position that LRU evicts; MRU
  evicts position 0, so the line stays empty and the set works with N-1 lines.
  The comments at `mru_line_controller.v:93` and `:98` promise otherwise.
  (PLRU's cold start is shorter still: its counter carries into the bit that ends it at the
  first miss. The invariant of `PlruRecency` has it, as `~coldDone => held = {}`; no property
  claims that PLRU fills a set before it evicts.)
* **lost_request.** The tracker stalls the cache within the cycle of the reference
  whose record fills its buffer. The controller never samples that reference,
  the hart withdraws it, and after the host's clear the hart sees `done`,
  "driven high when a cache operation is serviced" (`cache_n_set_all.v:32`).
* **lease_store.** A reference in the cycle in which a phase change is noticed is
  kept until the tables are loaded, with its type (comments at
  `n_set_dynamic_controller_tracker.v:464` and `:465`). If it then misses, line 514
  registers the type again, from a request that the hart has withdrawn: a
  store is carried out as a load.
* **lost_decision.** The policy's "logic high if the missed block has non-zero lease
  (i.e. should be brought into cache)" (`n_set_cache_lease_policy_default_switch_controller_tracker.v:32`)
  is low for one cycle when the lease is zero. The controller takes it over in
  that cycle if it is enabled. If the reference before has filled the sampler,
  it is not, and the block is brought into the cache after the stall: what CLAM
  assigned leases for is not what the sampled run does. No data is lost by it
  (run `lease`).
* **sampler_full.** "When this goes high, stalls the cache ... so that the host can
  pull the buffer data" (`lease_sampler_all.v:167-168`). The sampler itself does not
  look at the flag; the reference it has registered already can write one more
  entry, at address 0, and the flag and the stall are gone.

## Assumptions of the models

* The DDR3 controller is vendor IP and modelled by its interface. Its ready does not
  fall while no transaction runs (refresh could make it so: see the stale `sys_ready`
  under `hazards`, which no property covers).
* The external memory controller has granted the memory to the processor in the
  models of the internal system, and to the host in the model of a session. There the
  controller waits for a request of its own to end, so that routing, transfer and
  `done` are one step, after any time. A transfer that spoils a word (`Value`) is a
  fault model, not code; registers spoil nothing.
* Reset is released just after an edge at 0 degrees (`peripheral_system_3.v:149-168`),
  so the first edge is the one at 90 degrees and the instruction cache catches
  the fetch with which the hart leaves reset.
* What RAM and registers hold at power-up is one value in the system's runs
  (`MCInit`) and any value in the proofs.
* In the system a policy answers at once, with any line of the set.
* The tracker is checked with a sampling period of two or more. With a period of one a
  record's flags are overwritten by the next before the memory samples them;
  the host's default is 256.
* In `lease` no store, to memory or to the phase register, directly follows a
  store to the phase register, but for the run `lease_store`, which shows what
  happens then. The instruction cache of the lease system always hits.
* Which of a dual lease's two values a reference is given is free.
* The host resets the board before a session, as the repository's README says
  (`src/README.md:219`), and starts when the purge is over. The reset empties the
  controller's buffers; words of an earlier session that are still in the JTAG library
  come during the purge, with gaps of at most `MaxLull <= Purge` cycles. The purge of
  the code lasts 20000 cycles (`comm_controller_v3.v:58`); nothing in it makes the other
  side deliver that fast. The bound is tight: with a longer gap TLC finds `AnswersBelong`
  violated. One transfer of a session may go wrong. Two in one word
  can defeat the verification: the repair reads a whole word back but goes on
  from the byte that was wrong (`fpga_elf.c:146-159`).
* In `lease` sampling is on throughout, with every reference sampled, or off throughout.
* A buffer between two clocks of the link is one queue.
* SHEL's arithmetic is exact where the code's is in floating point: what happens at a
  threshold is covered, what rounding does is not.
* Of the sampler's buffer the model has the addresses, not the contents.
* The lease policy and SHEL have one set. With more, the policy compares its
  cold-start counter at the wrong width, see `hazards`.
* The hart's accesses to peripherals do not touch the caches and are left out,
  but for the store that turns the tracking on and off.

## Not modelled

Most of the repository's lines are data: lease tables generated for each
benchmark, cache size and policy (`software/CLAM/leases`), benchmark programs,
results, vendor IP and scripts. There is nothing in them to model, so the
lines that the project maps are a small share of the whole, while they cover
most of the hardware's and a good part of the host's own logic.

What is left of the program's own logic, in the order in which it would be
worth adding:

1. the composition of the eviction tracker with the lease controller, whose stall
   comes at 90 degrees (the sampler's is composed in `SampledLeaseSystem`);
2. the handover of the memory between processor and host
   (`external_memory_controller.v`), in the middle of a program;
3. the two-level system;
4. C-SHEL and PRL, and SHEL with several sets, where candidates of other sets
   go out of date;
5. the sampler's fusion command, the host's reads of its buffer, block bursts
   of the communication controller (no caller asks for them);
6. theorems that `TableOfPhase` and `LoadsSeeLastStore` hold of the lease system, on
   top of `LeaseInv`.

The eviction status tracker records with the line tracker's scheme, and the
FIFO and random policies choose among victims that `CacheController` leaves
free: modules of their own would repeat what is there.

Out of scope: what instructions compute (ALUs, floating-point units), clock
generation, the host's command line and its parsing of files.
