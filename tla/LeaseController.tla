--------------------------- MODULE LeaseController ---------------------------
(***************************************************************************)
(* The lease cache controller (n_set_dynamic_controller_tracker.v).  It is *)
(* CacheController with three additions: a change of the program's phase   *)
(* stops the cache until the lease table of the new phase is loaded; a     *)
(* missing block whose lease is zero is not cached, its word is read or    *)
(* written alone; and a word read that way reaches the hart past the block *)
(* RAM.                                                                    *)
(*                                                                         *)
(* The table itself (lease_lookup_table.v and the configuration registers  *)
(* of the policy) samples the controller's strobes at 270 degrees, before  *)
(* anything reads it: its registers are assigned together with them.       *)
(***************************************************************************)
EXTENDS CacheController

CONSTANTS
  Pc,         \* the load and store instructions of the program
  NoPc,
  Entries,    \* LEASE_LLT_ENTRIES, a multiple of W
  Phase,      \* the values of the phase register, 0 among them
  Table       \* Table[p]: the lease table that the program has for phase p

ASSUME TableAssumption ==
  /\ NoPc \notin Pc /\ 0 \in Phase
  /\ Entries \in Nat \ {0} /\ Entries % W = 0
  /\ \A p \in Phase :
       /\ DOMAIN Table[p].ref = 0 .. Table[p].refs - 1
       /\ Table[p].refs \in 0 .. Entries - 1

VARIABLES
  pc,         \* core_ref_addr_i: the referencing instruction
  lease,      \* the registers that CacheController does not have
  con, llt,   \* configuration registers; entries of the lease lookup table
  single      \* the word of a request that is not for a block

leaseVars == <<pc, lease, con, llt, single>>

\* The memory image of the tables: a configuration block and the entries, first
\* the addresses of the references and then their leases; unused words are zero.
ConfigWord(p, w) ==
  CASE w = 0 -> Table[p].default
    [] w = 1 -> Table[p].lease1
    [] w = 3 -> Table[p].refs
    [] w = 4 -> Table[p].dual
    [] OTHER -> 0

TableWord(p, i) ==
  CASE i \in DOMAIN Table[p].ref -> Table[p].ref[i]
    [] i - Entries \in DOMAIN Table[p].ref -> Table[p].lease[i - Entries]
    [] OTHER -> 0

LeaseCacheInit ==
  /\ \E a \in Reference :
       core = [req |-> FALSE, rw |-> FALSE, block |-> a.block,
               word |-> a.word, data |-> a.data]
  /\ \E l \in Line, d \in Data :
       /\ ctl = [state |-> "requestLlt", nTransfer |-> 0, reqFlag |-> FALSE,
                 rwFlag |-> FALSE, done |-> FALSE, ptr |-> l,
                 writebackFlag |-> FALSE, addWriteback |-> core.block,
                 cacheAdd |-> <<l, 0>>]
       /\ cacheMem = [m \in Line |-> [w \in Word |-> d]]
       /\ lease = [swap |-> FALSE, latch |-> FALSE, offer |-> TRUE, phase |-> 0, counter |-> 0,
                   refs |-> 0, prev |-> 0, data |-> d]
  /\ dirty = {}
  /\ out = Quiet
  /\ tagMem = [l \in Line |-> NoTag]
  /\ stored = {}
  /\ pc = NoPc
  /\ con = [default |-> 0, lease1 |-> 0, refs |-> 0, dual |-> NoPc]
  /\ llt = [i \in 0 .. Entries - 1 |-> [ref |-> NoPc, valid |-> FALSE, lease |-> 0]]
  /\ single = NoWord

-----------------------------------------------------------------------------
(* The table.                                                               *)

Matches == {i \in DOMAIN llt : llt[i].valid /\ llt[i].ref = pc}

\* The leases that the policy may give the reference: of the last entry that
\* matches, or by chance the phase's second one; the default without a match.
Leases ==
  IF Matches = {} THEN {con.default}
  ELSE {llt[CHOOSE i \in Matches : \A j \in Matches : j <= i].lease}
       \cup IF con.dual = pc THEN {con.lease1} ELSE {}

\* The con_wren_i strobe: word w of the configuration block.
Configure(w, d) ==
  con' = [con EXCEPT !.default = IF w = 0 THEN d ELSE @,
                     !.lease1 = IF w = 1 THEN d ELSE @,
                     !.refs = IF w = 3 THEN d ELSE @,
                     !.dual = IF w = 4 THEN d ELSE @]

\* The llt_wren_i strobe: only an entry of the phase is valid.
Enter(i, d) ==
  llt' = IF i < Entries
         THEN [llt EXCEPT ![i].ref = d, ![i].valid = i < con.refs]
         ELSE [llt EXCEPT ![i - Entries].lease = d]

-----------------------------------------------------------------------------
(* 180 degrees: loading the table of a phase.                               *)

Interrupted(phase) == lease.phase # phase

\* The phase register has changed: the hart is stalled, and its reference, if
\* it makes one in this cycle, is kept for later.
PhaseInterrupt(mready, phase) ==
  /\ ctl.state = "normal" /\ Interrupted(phase)
  /\ Finish(mready,
            [ctl EXCEPT !.done = FALSE, !.state = "requestLlt",
                        !.reqFlag = @ \/ core.req,
                        !.rwFlag = IF core.req THEN core.rw ELSE @],
            Quiet)
  /\ lease' = [lease EXCEPT !.counter = 0, !.phase = phase]
  /\ single' = NoWord
  /\ UNCHANGED <<dirty, con, llt>>

\* The block is requested as soon as the memory is ready.
RequestTable(mready, phase) ==
  /\ ctl.state \in {"requestLlt", "updateRequest"} /\ mready
  /\ IF ctl.state = "requestLlt"
     THEN Finish(mready, [ctl EXCEPT !.state = "transferLlt"],
                 [Quiet EXCEPT !.read = <<"config", phase>>])
     ELSE Finish(mready, [ctl EXCEPT !.state = "updateService"],
                 [Quiet EXCEPT !.read = <<"table", phase, lease.counter \div W>>])
  /\ single' = NoWord
  /\ UNCHANGED <<dirty, lease, con, llt>>

TransferConfig(mready, rready, d) ==
  /\ ctl.state = "transferLlt" /\ rready
  /\ Finish(mready,
            [ctl EXCEPT !.nTransfer = NextTransfer,
                        !.state = IF LastWord THEN "updateRequest" ELSE @],
            [Quiet EXCEPT !.ack = TRUE])
  /\ Configure(ctl.nTransfer, d)
  /\ lease' = [lease EXCEPT !.refs = IF ctl.nTransfer = 3 THEN d ELSE @]
  /\ single' = NoWord
  /\ UNCHANGED <<dirty, llt>>

\* A mutation of Overwritten: only the entries of the new phase are written.
OverwrittenNew == lease.refs

\* refs_to_write: an entry of the last phase that the new one does not have is
\* written too, so that it is no longer valid.
Overwritten == IF lease.prev > lease.refs THEN lease.prev ELSE lease.refs

InLeases == lease.counter >= Entries
Written == (lease.counter % Entries) + 1

\* The rest of a half is skipped at the end of a block.
AddressesDone == LastWord /\ ~InLeases /\ Overwritten <= Written
TableDone == LastWord /\ InLeases /\ lease.refs <= Written

\* A mutation of Resume: the condition is inverted.
ResumeKept == ctl.reqFlag

\* The hart goes on when its reference has not been kept.
Resume == ~ctl.reqFlag

EnterTable(mready, rready, d) ==
  /\ ctl.state = "updateService" /\ rready
  /\ Finish(mready,
            [ctl EXCEPT !.nTransfer = NextTransfer,
                        !.state = IF TableDone THEN "normal"
                                  ELSE IF LastWord THEN "updateRequest" ELSE @,
                        !.done = @ \/ (TableDone /\ Resume)],
            [Quiet EXCEPT !.ack = TRUE])
  /\ Enter(lease.counter, d)
  /\ lease' = [lease EXCEPT
                 !.counter = IF AddressesDone THEN Entries
                             ELSE (@ + 1) % (2 * Entries),
                 !.prev = IF TableDone THEN lease.refs ELSE @]
  /\ single' = NoWord
  /\ UNCHANGED <<dirty, con>>

-----------------------------------------------------------------------------
(* 180 degrees: references.                                                 *)

\* A mutation of LeaseHit: the hart keeps seeing the word read last.
LeaseHitStale(mready, phase) ==
  /\ ~Interrupted(phase) /\ Hit(mready)
  /\ single' = NoWord
  /\ UNCHANGED <<lease, con, llt>>

LeaseHit(mready, phase) ==
  /\ ~Interrupted(phase) /\ Hit(mready)
  /\ lease' = [lease EXCEPT !.swap = TRUE]
  /\ single' = NoWord
  /\ UNCHANGED <<con, llt>>

LeaseMiss(mready, phase) ==
  /\ ~Interrupted(phase) /\ Miss(mready)
  /\ \E v \in Leases :
       lease' = [lease EXCEPT !.latch = TRUE, !.offer = (v # 0)]
  /\ single' = NoWord
  /\ UNCHANGED <<con, llt>>

\* The policy's decision, lease.offer, is there for the cycle after the miss; it
\* is kept from then on.
Swap == IF lease.latch THEN lease.offer ELSE lease.swap

LatchSwap ==
  lease' = [lease EXCEPT !.swap = Swap, !.latch = FALSE, !.offer = TRUE]

Proceeds(mready) == ctl.state = "waitReady" /\ mready /\ WritebackDone

\* The block has a lease: it is cached.
RequestCached(mready) ==
  /\ Proceeds(mready) /\ Swap /\ LatchSwap
  /\ RequestBlock(mready)
  /\ single' = NoWord
  /\ UNCHANGED <<con, llt>>

\* It has none: only the word is requested.
ReadWord(mready) ==
  /\ Proceeds(mready) /\ ~ctl.rwFlag /\ ~Swap /\ LatchSwap
  /\ ctl' = [ctl EXCEPT !.reqFlag = FALSE, !.state = "noSwapRead"]
  /\ out' = [Quiet EXCEPT !.read = core.block]
  /\ single' = core.word
  /\ UNCHANGED <<dirty, con, llt>>

WriteWord(mready) ==
  /\ Proceeds(mready) /\ ctl.rwFlag /\ ~Swap /\ LatchSwap
  /\ ctl' = [ctl EXCEPT !.reqFlag = FALSE, !.state = "normal", !.done = TRUE]
  /\ out' = [Quiet EXCEPT !.write = core.block, !.push = core.data]
  /\ single' = core.word
  /\ UNCHANGED <<dirty, con, llt>>

\* The word arrives: it goes to the hart, past the block RAM.
TakeWord(mready, rready, d) ==
  /\ ctl.state = "noSwapRead" /\ rready
  /\ Finish(mready, [ctl EXCEPT !.done = TRUE, !.state = "normal"],
            [Quiet EXCEPT !.ack = TRUE])
  /\ lease' = [lease EXCEPT !.data = d]
  /\ single' = NoWord
  /\ UNCHANGED <<dirty, con, llt>>

\* As in CacheController.
Replaces(mready, wready, rready, d, victim) ==
  /\ \/ TakeReplacement(mready, victim)
     \/ PushWord(mready, wready)
     \/ FillWord(mready, rready, d)
  /\ single' = NoWord
  /\ UNCHANGED <<lease, con, llt>>

LeaseWaits(mready, wready, rready, victim, phase) ==
  \/ ctl.state # "normal" /\ Waits(mready, wready, rready, victim)
  \/ ctl.state = "normal" /\ ~Interrupted(phase) /\ ~Active
  \/ ctl.state \in {"requestLlt", "updateRequest"} /\ ~mready
  \/ ctl.state \in {"transferLlt", "updateService", "noSwapRead"} /\ ~rready

LeaseWait(mready, wready, rready, victim, phase) ==
  /\ LeaseWaits(mready, wready, rready, victim, phase)
  /\ Finish(mready, ctl, Quiet)
  /\ IF ctl.state = "waitReady" THEN LatchSwap ELSE UNCHANGED lease
  /\ single' = NoWord
  /\ UNCHANGED <<dirty, con, llt>>

LeaseControllerEdge(mready, wready, rready, d, victim, phase) ==
  /\ \/ PhaseInterrupt(mready, phase)
     \/ RequestTable(mready, phase)
     \/ TransferConfig(mready, rready, d)
     \/ EnterTable(mready, rready, d)
     \/ LeaseHit(mready, phase)
     \/ LeaseMiss(mready, phase)
     \/ RequestCached(mready)
     \/ ReadWord(mready)
     \/ WriteWord(mready)
     \/ TakeWord(mready, rready, d)
     \/ Replaces(mready, wready, rready, d, victim)
     \/ LeaseWait(mready, wready, rready, victim, phase)
  /\ UNCHANGED <<core, pc, memories>>

\* enable_i low: as in CacheController, and the policy's decision passes by.
LeaseDisabled ==
  /\ Disabled
  /\ lease' = [lease EXCEPT !.offer = TRUE]
  /\ single' = NoWord
  /\ UNCHANGED <<core, pc, memories, con, llt>>

\* core_data_o of cache_n_set_all.v: the block RAM, or the word read alone.
CoreData == IF lease.swap THEN CacheOut ELSE lease.data
=============================================================================
