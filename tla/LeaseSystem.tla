----------------------------- MODULE LeaseSystem -----------------------------
(***************************************************************************)
(* A data cache with leases, the path to its memory, and a program that    *)
(* sets the phase register of the peripheral system between its loads and  *)
(* stores.  The edges are those of InternalSystem; the arbiter always      *)
(* grants, because the instruction cache misses only while the hart waits  *)
(* for no data.                                                            *)
(***************************************************************************)
EXTENDS LeaseController, Integers, Sequences

CONSTANTS
  Program,             \* the instructions and what they reference: Pc \X Reference
  StoreAtPhaseChange   \* a store may follow one to the phase register at once

VARIABLES
  phase,       \* phase_reg of the peripheral system
  newPhase,    \* a store to it on its way, or the value that it has
  asked,       \* history: the last reference
  expected,    \* history: the words as the program has stored them
  tx, bus, rx, clear, io, ddr3, ddr

hartVars == <<phase, newPhase, asked, expected>>
pathVars == <<tx, bus, rx, clear, io, ddr3, ddr>>
systemVars == <<clk, cacheVars, leaseVars, hartVars, pathVars>>

TableBlock == ({"config"} \X Phase)
              \cup ({"table"} \X Phase \X (0 .. (2 * Entries) \div W - 1))

\* A block has two bursts of words.
ASSUME LeaseSystemAssumption ==
  /\ Program \subseteq Pc \X Reference
  /\ W % 2 = 0 /\ NoWord \notin Word
  /\ NoBlock \notin TableBlock

P == INSTANCE MemoryPath WITH Block <- Block \cup TableBlock

TableImage(b, w) == IF b[1] = "config" THEN ConfigWord(b[2], w)
                    ELSE TableWord(b[2], b[3] * W + w)

SystemInit ==
  /\ clk = 180
  /\ LeaseCacheInit
  /\ phase = 0 /\ newPhase = 0
  /\ asked = core
  /\ expected = [b \in Block |-> [w \in Word |-> <<b, w>>]]
  /\ P!PathInit
  /\ ddr = [b \in Block \cup TableBlock |-> [w \in Word |->
              IF b \in Block THEN <<b, w>> ELSE TableImage(b, w)]]

-----------------------------------------------------------------------------
(* 0 degrees.  The phase register takes its new value one cycle after the   *)
(* store to it; meanwhile the hart may have made its next reference.        *)

Idles == Withdraw /\ UNCHANGED <<pc, newPhase, asked, expected>>

References ==
  /\ ctl.done
  /\ \E r \in Program :
       /\ r[2].rw /\ ~StoreAtPhaseChange => newPhase = phase
       /\ pc' = r[1]
       /\ Issue(r[2])
       /\ asked' = core'
       /\ expected' = IF r[2].rw
                      THEN [expected EXCEPT ![r[2].block][r[2].word] = r[2].data]
                      ELSE expected
  /\ UNCHANGED newPhase

SetsPhase ==
  /\ ctl.done
  /\ StoreAtPhaseChange \/ newPhase = phase
  /\ newPhase' \in Phase
  /\ Withdraw
  /\ UNCHANGED <<pc, asked, expected>>

Edge0 ==
  /\ clk = 0 /\ clk' = 90
  /\ Idles \/ References \/ SetsPhase
  /\ phase' = newPhase
  /\ P!IoEdge
  /\ UNCHANGED <<ctl, dirty, out, memories, lease, con, llt, single>>

Edge90 ==
  /\ clk = 90 /\ clk' = 180
  /\ P!RxEdge
  /\ UNCHANGED <<cacheVars, leaseVars, hartVars>>

FromBuffer == IF rx = <<>> THEN NoWord ELSE Head(rx)

Edge180 ==
  /\ clk = 180 /\ clk' = 270
  /\ \E v \in Victim \ {NoLine} :
       LeaseControllerEdge(io.ready, Len(tx.fifo) < W, rx # <<>>, FromBuffer, v,
                           phase)
  /\ UNCHANGED <<hartVars, pathVars>>

Edge270 ==
  /\ clk = 270 /\ clk' = 0
  /\ MemoryEdge
  /\ P!TxEdge(out, single)
  /\ UNCHANGED <<leaseVars, hartVars>>

Ddr == P!DdrStep /\ UNCHANGED <<clk, cacheVars, leaseVars, hartVars>>

Edge == Edge0 \/ Edge90 \/ Edge180 \/ Edge270

SystemNext == Edge \/ Ddr

\* The clock runs and the DDR3 controller answers.
FairSystem == /\ SystemInit /\ [][SystemNext]_systemVars
              /\ WF_systemVars(Edge) /\ WF_systemVars(Ddr)

-----------------------------------------------------------------------------
\* When the hart goes on after a load it has the word that the program stored
\* there last, however the words have moved meanwhile: cached, written back,
\* read or written alone past the cache, across changes of the phase.
LoadsSeeLastStore ==
  clk = 0 /\ ctl.done /\ ~asked.rw /\ pc # NoPc
  => CoreData = expected[asked.block][asked.word]

\* References are served by the table of the program's phase, and by no entry
\* that an earlier phase has left behind.
TableOfPhase ==
  ctl.state = "normal" /\ lease.phase = phase /\ clk # 0 =>
    /\ con.default = Table[phase].default /\ con.lease1 = Table[phase].lease1
    /\ con.dual = Table[phase].dual
    /\ \A i \in DOMAIN llt :
         llt[i].valid =>
           /\ i \in DOMAIN Table[phase].ref
           /\ llt[i].ref = Table[phase].ref[i]
           /\ llt[i].lease = Table[phase].lease[i]
    /\ \A i \in DOMAIN Table[phase].ref : llt[i].valid

\* No request overwrites another and each is accepted: the read of a table is
\* never made in the cycle in which a pending write-back is.
OneRequestAtATime ==
  clk = 270 /\ (out.read # NoBlock \/ out.write # NoBlock) =>
    /\ out.read = NoBlock \/ out.write = NoBlock
    /\ io.ready
=============================================================================
