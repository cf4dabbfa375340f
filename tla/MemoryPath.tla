----------------------------- MODULE MemoryPath -----------------------------
(***************************************************************************)
(* The path from the caches to the DDR3 memory and back: the buffer of the *)
(* internal memory controller (txrx_buffer.v) and the buffer in front of   *)
(* the DDR3 controller (io_conversion_buffer_v2.v), which splits a block   *)
(* into the two bursts the memory works in.  Ring buffers are sequences.   *)
(*                                                                         *)
(* One operator per clock edge, for transfers of a block and for those of  *)
(* a single word, which the memory reads and writes in a burst all the     *)
(* same.  The DDR3 controller is a component of its own clock domain: it   *)
(* answers in its time, and is ready again when it has.                    *)
(***************************************************************************)
EXTENDS Integers, Sequences

CONSTANTS
  Block, Data,
  W,             \* words in a block, an even number
  NoWord, NoBlock

VARIABLES
  tx,      \* txrx_buffer, 270 degrees: unsent words, words left of a write
  bus,     \* its request port: mem_req_o, mem_reqBlock_o, mem_rw_o, ...
  rx,      \* txrx_buffer, 90 degrees: words for the cache
  clear,   \* mem_clear_o
  io,      \* io_conversion_buffer_v2's registers and two buffers
  ddr3,    \* the DDR3 controller: free, reading, answered or writing
  ddr      \* the memory

pathVars == <<tx, bus, rx, clear, io, ddr3, ddr>>

Half == W \div 2
Burst(b, h) == [i \in 1 .. Half |-> ddr[b][h * Half + i - 1]]

PathInit ==
  /\ tx = [fifo |-> <<>>, left |-> 0]
  /\ bus = [req |-> FALSE, block |-> FALSE, rw |-> FALSE, add |-> NoBlock,
            word |-> NoWord, data |-> NoWord]
  /\ rx = <<>>
  /\ clear = FALSE
  /\ io = [state |-> "idle", flag |-> 0, rx |-> <<>>, tx |-> <<>>, delay |-> 0,
           ready |-> FALSE, valid |-> FALSE, done |-> FALSE, data |-> NoWord,
           add |-> NoBlock, word |-> NoWord]
  /\ ddr3 = "free"

-----------------------------------------------------------------------------
\* A mutation of WriteLength: the last word of a block stays behind.
WriteLengthShort == W - 1

WriteLength == W

\* 270 degrees: the strobes of the cache that has access.  A request counts
\* only while the memory is ready; a write sends its words one per cycle from
\* then on, as they come.  A request for one word names it in single, one for
\* a block has NoWord there.
TxEdge(o, single) ==
  LET req == io.ready /\ (o.read # NoBlock \/ o.write # NoBlock)
      rw == o.write # NoBlock
      left == IF ~(req /\ rw) THEN tx.left
              ELSE IF single = NoWord THEN WriteLength ELSE 1
      fifo == IF o.push = NoWord THEN tx.fifo ELSE Append(tx.fifo, o.push)
      sends == left > 0 /\ fifo # <<>>
  IN /\ tx' = [fifo |-> IF sends THEN Tail(fifo) ELSE fifo,
               left |-> IF sends THEN left - 1 ELSE left]
     /\ bus' = [req |-> req,
                block |-> (req \/ sends) /\ (IF req THEN single ELSE bus.word) = NoWord,
                word |-> IF req THEN single ELSE bus.word,
                rw |-> IF req THEN rw ELSE bus.rw,
                add |-> IF req THEN IF rw THEN o.write ELSE o.read ELSE bus.add,
                data |-> IF sends THEN Head(fifo) ELSE bus.data]
     /\ rx' = IF o.ack THEN Tail(rx) ELSE rx
     /\ UNCHANGED <<clear, io, ddr3, ddr>>

\* 90 degrees: a word from the memory, and the acknowledgement of mem_done_i.
RxEdge ==
  /\ rx' = IF io.valid THEN Append(rx, io.data) ELSE rx
  /\ clear' = io.done
  /\ UNCHANGED <<tx, bus, io, ddr3, ddr>>

-----------------------------------------------------------------------------
(* 0 degrees: io_conversion_buffer_v2.  A cycle first takes the word on the *)
(* bus, then steps the state machine unless a delay runs, then sends a word.*)

WordOnBus == IF bus.req THEN bus.rw ELSE bus.block

Received ==
  [io EXCEPT !.rx = IF WordOnBus THEN Append(@, bus.data) ELSE @,
             !.valid = FALSE]

\* A mutation of Sent: the count of words left is not decremented.
SentAgain(c) == IF c.tx = <<>> THEN c
                ELSE [c EXCEPT !.valid = TRUE, !.data = Head(c.tx)]

Sent(c) == IF c.tx = <<>> THEN c
           ELSE [c EXCEPT !.tx = Tail(@), !.valid = TRUE, !.data = Head(c.tx)]

Quietly == UNCHANGED <<ddr3, ddr>>

IoDelay == /\ io.delay > 0
           /\ io' = Sent([Received EXCEPT !.delay = @ - 1])
           /\ Quietly

Stepping(s) == io.delay = 0 /\ io.state = s

\* ST_DDR3_IO_BUFFER_IDLE without and with a request; the first burst that is
\* needed, also to write a single word, is requested at once.
IoIdle ==
  /\ Stepping("idle") /\ ~(bus.req /\ ddr3 = "free")
  /\ io' = Sent([Received EXCEPT !.ready = @ \/ (ddr3 = "free" /\ io.tx = <<>>)])
  /\ Quietly

Serving == IF bus.rw THEN IF bus.block THEN "write" ELSE "writeWord"
           ELSE IF bus.block THEN "read" ELSE "readWord"

IoAccept ==
  /\ Stepping("idle") /\ bus.req /\ ddr3 = "free"
  /\ io' = Sent([Received EXCEPT !.ready = FALSE, !.flag = 0, !.add = bus.add,
                                 !.word = bus.word, !.state = Serving])
  /\ ddr3' = IF Serving = "write" THEN "free" ELSE "reading"
  /\ UNCHANGED ddr

\* ST_DDR3_IO_BUFFER_READ_BLOCK: a burst arrives; the second one is requested;
\* the last step.
IoReadBurst ==
  /\ Stepping("read") /\ io.flag \in {0, 2} /\ ddr3 = "answered"
  /\ io' = Sent([Received EXCEPT !.tx = @ \o Burst(io.add, io.flag \div 2),
                                 !.flag = @ + 1])
  /\ ddr3' = "free"
  /\ UNCHANGED ddr

IoReadNext ==
  /\ Stepping("read") /\ io.flag = 1 /\ ddr3 = "free"
  /\ io' = Sent([Received EXCEPT !.flag = 2])
  /\ ddr3' = "reading"
  /\ UNCHANGED ddr

IoReadEnd ==
  /\ Stepping("read") /\ io.flag = 3
  /\ io' = Sent([Received EXCEPT !.flag = 0, !.state = "waitClear"])
  /\ Quietly

BurstComplete == Len(Received.rx) >= Half

\* ST_DDR3_IO_BUFFER_WRITE_BLOCK: a burst is written once its words are here.
IoWriteBurst ==
  /\ Stepping("write") /\ io.flag \in {0, 1}
  /\ BurstComplete /\ ddr3 = "free"
  /\ io' = Sent([Received EXCEPT !.rx = SubSeq(@, Half + 1, Len(@)),
                                 !.flag = @ + 1])
  /\ ddr' = [ddr EXCEPT ![io.add] =
               [w \in 0 .. W - 1 |->
                  IF w \div Half = io.flag
                  THEN Received.rx[w - io.flag * Half + 1] ELSE @[w]]]
  /\ ddr3' = "writing"

IoWriteEnd ==
  /\ Stepping("write") /\ io.flag = 2
  /\ io' = Sent([Received EXCEPT !.flag = 0, !.state = "waitClear"])
  /\ Quietly

\* ST_DDR3_IO_BUFFER_READ: the word is taken from the burst that holds it.
IoReadWord ==
  /\ Stepping("readWord") /\ ddr3 = "answered"
  /\ io' = Sent([Received EXCEPT !.tx = Append(@, ddr[io.add][io.word]),
                                 !.delay = 4, !.state = "waitClear"])
  /\ ddr3' = "free"
  /\ UNCHANGED ddr

\* ST_DDR3_IO_BUFFER_WRITE: the burst arrives; it is written back with the word
\* in its place; the last step.
IoFetchBurst ==
  /\ Stepping("writeWord") /\ io.flag = 0 /\ ddr3 = "answered"
  /\ io' = Sent([Received EXCEPT !.flag = 1])
  /\ ddr3' = "free"
  /\ UNCHANGED ddr

\* A mutation of IoWriteWord: the burst goes back as it was read.
IoWriteStale ==
  /\ Stepping("writeWord") /\ io.flag = 1 /\ ddr3 = "free"
  /\ io' = Sent([Received EXCEPT !.rx = Tail(@), !.flag = 2])
  /\ ddr3' = "writing"
  /\ UNCHANGED ddr

IoWriteWord ==
  /\ Stepping("writeWord") /\ io.flag = 1 /\ ddr3 = "free"
  /\ io' = Sent([Received EXCEPT !.rx = Tail(@), !.flag = 2])
  /\ ddr' = [ddr EXCEPT ![io.add][io.word] = Head(Received.rx)]
  /\ ddr3' = "writing"

IoWordEnd ==
  /\ Stepping("writeWord") /\ io.flag = 2
  /\ io' = Sent([Received EXCEPT !.flag = 0, !.state = "waitClear"])
  /\ Quietly

\* Neither burst nor memory is ready.
IoWait ==
  /\ \/ Stepping("read") /\ io.flag \in {0, 2} /\ ddr3 # "answered"
     \/ Stepping("readWord") /\ ddr3 # "answered"
     \/ Stepping("writeWord") /\ io.flag = 0 /\ ddr3 # "answered"
     \/ Stepping("writeWord") /\ io.flag = 1 /\ ddr3 # "free"
     \/ Stepping("read") /\ io.flag = 1 /\ ddr3 # "free"
     \/ Stepping("write") /\ io.flag \in {0, 1} /\ ~(BurstComplete /\ ddr3 = "free")
  /\ io' = Sent(Received)
  /\ Quietly

\* A mutation of ClearDelay, the value that the source has commented out.
ClearDelayLong == 8

\* Cycles between the acknowledgement and the next request.
ClearDelay == 2

\* ST_WAIT_CLEAR: done stays high until it is acknowledged.
IoWaitClear ==
  /\ Stepping("waitClear")
  /\ io' = Sent(IF clear THEN [Received EXCEPT !.done = FALSE, !.state = "idle",
                                               !.delay = ClearDelay]
                ELSE [Received EXCEPT !.done = TRUE])
  /\ Quietly

IoEdge == /\ \/ IoDelay \/ IoIdle \/ IoAccept
             \/ IoReadBurst \/ IoReadNext \/ IoReadEnd
             \/ IoWriteBurst \/ IoWriteEnd
             \/ IoReadWord \/ IoFetchBurst \/ IoWriteWord \/ IoWordEnd
             \/ IoWait \/ IoWaitClear
          /\ UNCHANGED <<tx, bus, rx, clear>>

\* The DDR3 controller is vendor IP, here by its interface alone: it answers
\* a read and ends a write after any time, and is ready when neither runs.
DdrAnswers == ddr3 = "reading" /\ ddr3' = "answered"
DdrWritten == ddr3 = "writing" /\ ddr3' = "free"

DdrStep == (DdrAnswers \/ DdrWritten) /\ UNCHANGED <<tx, bus, rx, clear, io, ddr>>
=============================================================================
