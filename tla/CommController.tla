-------------------------- MODULE CommController --------------------------
(***************************************************************************)
(* The FPGA's end of the host link, comm_controller_v3.v: it takes words   *)
(* from a receive buffer, carries out the command they spell, one memory   *)
(* or register transfer at a time, and puts the answers in a transmit      *)
(* buffer.  A word is a natural number, and nothing but its position says  *)
(* what it is for: a controller that takes one word too many or too few    *)
(* reads data as commands from then on, in this model as in the code.      *)
(*                                                                         *)
(* Numbers are scaled: addresses count words, a configuration word keeps   *)
(* its count, write and fusion fields, the key exclusive-or is an offset.  *)
(* The address register is kept one higher than the code's, so that its    *)
(* "address minus one word" stays a natural number.  Block bursts and the  *)
(* sampler's fusion command are left out.                                  *)
(***************************************************************************)
EXTENDS Naturals, Sequences

CONSTANTS
    Words,        \* words of program memory behind the controller
    WordValues,   \* values of a word
    BufferSize,   \* words in the receive and in the transmit buffer
    Purge,        \* empty cycles that end the purge after a reset
    MaxFaults     \* bound: transfers whose data go wrong in a behaviour

ASSUME LinkAssumption ==
    /\ Words \in Nat \ {0} /\ BufferSize \in Nat \ {0}
    /\ Purge \in Nat /\ MaxFaults \in Nat
    /\ WordValues \subseteq Nat /\ 0 \in WordValues

VARIABLES
    rx, tx,   \* the two buffers between the controller and the JTAG driver
    cc,       \* registers of the controller
    bus,      \* the transfer it asked of the external memory controller
    mem,      \* program memory
    selected, \* the performance counter the select register points at
    faults    \* transfers that went wrong so far

linkVars == <<rx, tx, cc, bus, mem, selected, faults>>

KeySync     == 200
Echo(word)  == word + 100
Select      == Words        \* a write here selects a performance counter
Result      == Words + 1    \* and a read here returns the selected one
Counter(i)  == 50 + i

\* The command's configuration word.
Config(count, write, fusion) ==
    count + (IF write THEN 16 ELSE 0) + (IF fusion THEN 32 ELSE 0)
CountOf(word)   == word % 16
IsWrite(word)   == (word \div 16) % 2 = 1
IsFusion(word)  == (word \div 32) % 2 = 1

CommInit ==
    /\ tx = <<>>
    /\ cc = [state |-> "RESET_PURGE", next0 |-> "IDLE", next1 |-> "IDLE",
             write |-> FALSE, counter |-> 0, add |-> 0, word |-> 0,
             purge |-> Purge, to |-> 0, from |-> 0, words |-> 0]
    /\ bus = [state |-> "ready", write |-> FALSE, add |-> 0, data |-> 0]
    /\ mem \in [0 .. Words - 1 -> {0}]
    /\ selected = 0 /\ faults = 0

In(state)     == cc.state = state
Goto(s)       == cc' = [cc EXCEPT !.state = s]
Take          == rx # <<>> /\ rx' = Tail(rx)
Put(word)     == Len(tx) < BufferSize /\ tx' = Append(tx, word)
OffBus        == UNCHANGED <<bus, mem, selected, faults>>

\* mutant: a word does not start the count of empty cycles again
ResetPurgeOnce ==
    /\ In("RESET_PURGE")
    /\ \/ Take /\ UNCHANGED cc
       \/ /\ rx = <<>> /\ UNCHANGED rx
          /\ cc' = IF cc.purge # 0 THEN [cc EXCEPT !.purge = @ - 1]
                   ELSE [cc EXCEPT !.state = "SYNC"]
    /\ UNCHANGED tx /\ OffBus

\* After a reset every word that comes is thrown away, until enough cycles in a
\* row have seen an empty buffer.
ResetPurge ==
    /\ In("RESET_PURGE")
    /\ \/ Take /\ cc' = [cc EXCEPT !.purge = Purge]
       \/ /\ rx = <<>> /\ UNCHANGED rx
          /\ cc' = IF cc.purge # 0 THEN [cc EXCEPT !.purge = @ - 1]
                   ELSE [cc EXCEPT !.state = "SYNC"]
    /\ UNCHANGED tx /\ OffBus

Sync ==
    /\ In("SYNC") /\ Len(tx) < BufferSize /\ Take
    /\ IF Head(rx) = KeySync
       THEN Goto("IDLE") /\ UNCHANGED tx
       ELSE Put(Echo(Head(rx))) /\ UNCHANGED cc
    /\ OffBus

Idle ==
    /\ In("IDLE") /\ Take
    /\ Goto(IF Head(rx) = 0 THEN "CONFIG" ELSE "ERROR")
    /\ UNCHANGED tx /\ OffBus

\* The second word of a command says what to do; the third is an address.
Configure ==
    /\ In("CONFIG") /\ Take
    /\ cc' = [cc EXCEPT !.state = "GET_WORD", !.next1 = "MANAGE",
                        !.next0 = IF IsFusion(Head(rx)) THEN "FUSION_MANAGE0"
                                  ELSE "CONFIG2",
                        !.write = IsWrite(Head(rx)),
                        !.counter = CountOf(Head(rx))]
    /\ UNCHANGED tx /\ OffBus

GetWord ==
    /\ In("GET_WORD") /\ Take
    /\ cc' = [cc EXCEPT !.word = Head(rx), !.state = cc.next0]
    /\ UNCHANGED tx /\ OffBus

SendWord ==
    /\ In("SEND_WORD") /\ Put(cc.word) /\ Goto(cc.next0)
    /\ UNCHANGED rx /\ OffBus

\* The address is moved back by one word: every transfer moves it on first.
Config2 ==
    /\ In("CONFIG2")
    /\ cc' = [cc EXCEPT !.add = cc.word, !.state = cc.next1]
    /\ UNCHANGED <<rx, tx>> /\ OffBus

LastWordEarly == cc.counter <= 2   \* mutant: one word short of the count
LastWord == cc.counter = 1

Manage ==
    /\ In("MANAGE")
    /\ cc' = [cc EXCEPT
                !.add = @ + 1,
                !.counter = IF LastWord THEN @ ELSE @ - 1,
                !.state = IF cc.write THEN "GET_WORD" ELSE "WAIT_READY_READ",
                !.next0 = IF cc.write THEN "WAIT_READY_WRITE"
                          ELSE IF LastWord THEN "IDLE" ELSE "MANAGE",
                !.next1 = IF ~cc.write THEN @
                          ELSE IF LastWord THEN "ACKNOWLEDGE" ELSE "MANAGE"]
    /\ UNCHANGED <<rx, tx>> /\ OffBus

Request(write) ==
    /\ In(IF write THEN "WAIT_READY_WRITE" ELSE "WAIT_READY_READ")
    /\ bus.state = "ready"
    /\ bus' = [state |-> "busy", write |-> write, add |-> cc.add - 1,
               data |-> cc.word]
    /\ Goto(IF write THEN "JTAG_WRITE" ELSE "JTAG_READ")
    /\ UNCHANGED <<rx, tx, mem, selected, faults>>

JtagRead ==
    /\ In("JTAG_READ") /\ bus.state = "done"
    /\ bus' = [bus EXCEPT !.state = "ready"]
    /\ cc' = [cc EXCEPT !.word = bus.data, !.state = "SEND_WORD"]
    /\ UNCHANGED <<rx, tx, mem, selected, faults>>

JtagWrite ==
    /\ In("JTAG_WRITE") /\ bus.state = "done"
    /\ bus' = [bus EXCEPT !.state = "ready"]
    /\ Goto(cc.next1)
    /\ UNCHANGED <<rx, tx, mem, selected, faults>>

AcknowledgeSilent == In("ACKNOWLEDGE") /\ Goto("IDLE")   \* mutant
                     /\ UNCHANGED <<rx, tx>> /\ OffBus
Acknowledge ==
    /\ In("ACKNOWLEDGE") /\ Put(0) /\ Goto("IDLE")
    /\ UNCHANGED rx /\ OffBus

\* The fusion command: for each of a number of counters, write its number to
\* one address, then read another and send what it holds.
FusionManage ==
    /\ \/ In("FUSION_MANAGE0")
          /\ cc' = [cc EXCEPT !.to = cc.word + 1, !.state = "GET_WORD",
                              !.next0 = "FUSION_MANAGE1"]
       \/ In("FUSION_MANAGE1")
          /\ cc' = [cc EXCEPT !.from = cc.word + 1, !.state = "GET_WORD",
                              !.next0 = "FUSION_MANAGE2"]
       \/ In("FUSION_MANAGE2")
          /\ cc' = [cc EXCEPT !.words = cc.word, !.counter = 0,
                              !.state = "FUSION_WRITE"]
    /\ UNCHANGED <<rx, tx>> /\ OffBus

FusionWrite ==
    /\ In("FUSION_WRITE")
    /\ cc' = IF cc.counter = cc.words THEN [cc EXCEPT !.state = "IDLE"]
             ELSE [cc EXCEPT !.state = "WAIT_READY_WRITE", !.add = cc.to,
                             !.word = cc.counter, !.next1 = "FUSION_READ"]
    /\ UNCHANGED <<rx, tx>> /\ OffBus

FusionRead ==
    /\ In("FUSION_READ")
    /\ cc' = [cc EXCEPT !.state = "WAIT_READY_READ", !.add = cc.from,
                        !.next0 = "FUSION_WRITE", !.counter = @ + 1]
    /\ UNCHANGED <<rx, tx>> /\ OffBus

\* The other side of a request.  The external memory controller sends it by
\* its address to memory or to the peripheral registers; it does so at its own
\* edge, between the edge that makes the request and the one at which either
\* looks at it, and shows the controller the ready and the done of the side
\* that it chose.  The controller waits meanwhile, so that choice, transfer and
\* done are one step here, after any time; "ready" is ready0_o, which is high
\* again some time after the controller has acknowledged done.

\* A memory transfer may go wrong.
Value(word) == {word} \cup (IF faults < MaxFaults THEN WordValues ELSE {})

WriteMemory ==
    /\ bus.write /\ bus.add < Words
    /\ \E v \in Value(bus.data) :
          /\ mem' = [mem EXCEPT ![bus.add] = v]
          /\ faults' = IF v = bus.data THEN faults ELSE faults + 1
    /\ bus' = [bus EXCEPT !.state = "done"]
    /\ UNCHANGED selected

ReadMemory ==
    /\ ~bus.write /\ bus.add < Words
    /\ \E v \in Value(mem[bus.add]) :
          /\ bus' = [bus EXCEPT !.state = "done", !.data = v]
          /\ faults' = IF v = mem[bus.add] THEN faults ELSE faults + 1
    /\ UNCHANGED <<mem, selected>>

\* Of the registers: the one whose value selects a performance counter, and
\* the one that returns it.  Any other reads as zero.
Peripheral ==
    /\ bus.add >= Words
    /\ selected' = IF bus.write /\ bus.add = Select THEN bus.data ELSE selected
    /\ bus' = [bus EXCEPT !.state = "done",
                          !.data = IF bus.write THEN @
                                   ELSE IF bus.add = Result THEN Counter(selected)
                                   ELSE 0]
    /\ UNCHANGED <<mem, faults>>

Serve ==
    /\ bus.state = "busy"
    /\ WriteMemory \/ ReadMemory \/ Peripheral
    /\ UNCHANGED <<rx, tx, cc>>

Controller ==
    \/ ResetPurge \/ Sync \/ Idle \/ Configure \/ GetWord \/ SendWord
    \/ Config2 \/ Manage \/ Request(TRUE) \/ Request(FALSE)
    \/ JtagRead \/ JtagWrite \/ Acknowledge
    \/ FusionManage \/ FusionWrite \/ FusionRead

=============================================================================
