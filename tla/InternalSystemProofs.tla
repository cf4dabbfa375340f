------------------------- MODULE InternalSystemProofs -------------------------
(***************************************************************************)
(* Proofs about the internal system, for every hart, every two caches of   *)
(* the fixed policies and every length of a block: what the arbiter        *)
(* (memory_controller_internal.v), the buffer (txrx_buffer.v) and the      *)
(* buffer of the DDR3 controller (io_conversion_buffer_v2.v) rely on, none *)
(* of which they check.                                                    *)
(*                                                                         *)
(* The invariant SysInv says whose turn it is and counts words.  The hart  *)
(* waits for both caches, so that the data cache transfers only while the  *)
(* instruction cache is done, and the arbiter's choice is still right when *)
(* it is used.  Every word that a cache waits for is on its way, in one    *)
(* place (ReadBalance), and so is every word of a write-back (PushBalance, *)
(* WriteBalance): when the memory reports ready nothing of an earlier      *)
(* transfer is left on the path, in either direction.                      *)
(*                                                                         *)
(* Four parts: the buffer of the DDR3 controller, a cache as the rest of   *)
(* the system sees it, the invariant with a lemma per edge of the clock,   *)
(* and the theorems.                                                       *)
(***************************************************************************)
EXTENDS InternalSystem, SequenceTheorems, TLAPS

-----------------------------------------------------------------------------
(* The path: types, and the buffer of the DDR3 controller.                   *)

Block == D!Block
Half == P!Half

BusType == [req : BOOLEAN, block : BOOLEAN, rw : BOOLEAN,
            add : Block \cup {NoBlock}, word : {NoWord}, data : Data \cup {NoWord}]

IoState == {"idle", "read", "write", "waitClear"}

IoType == [state : IoState, flag : 0 .. 3, rx : Seq(Data), tx : Seq(Data),
           delay : Nat, ready : BOOLEAN, valid : BOOLEAN, done : BOOLEAN,
           data : Data \cup {NoWord}, add : Block \cup {NoBlock}, word : {NoWord}]

\* The path's registers hold values of their types; words and addresses are
\* real where they are used.
PathTypeOK ==
  /\ tx \in [fifo : Seq(Data), left : Nat]
  /\ bus \in BusType
  /\ rx \in Seq(Data)
  /\ io \in IoType
  /\ ddr \in [Block -> [D!Word -> Data]]
  /\ clk = 0 /\ P!WordOnBus => bus.data \in Data
  /\ clk = 0 /\ bus.req => bus.block /\ bus.add \in Block
  /\ io.valid => io.data \in Data
  /\ io.state \in {"read", "write"} => io.add \in Block
  /\ io.state = "write" => io.flag # 3

\* What the constants' assumption says of the names used here.
LEMMA Constants ==
  /\ W \in Nat /\ Half \in Nat \ {0} /\ W = Half + Half
  /\ NoWord \notin Data /\ NoBlock \notin Block
  /\ D!Word = 0 .. W - 1 /\ I!Word = 0 .. W - 1 /\ I!Block = Block
<1>1. W \in Nat \ {0} /\ W % 2 = 0
  BY SystemAssumption DEF D!CacheAssumption
<1>2. Half \in Nat \ {0} /\ W = Half + Half
  BY <1>1 DEF Half, P!Half
<1> QED
  BY <1>1, <1>2, SystemAssumption
     DEF D!CacheAssumption, Block, D!Block, I!Block, D!Word, I!Word

\* Which half of a block a word is in.
LEMMA Halves ==
  ASSUME NEW w \in Nat, w < Half + Half
  PROVE  /\ w \div Half = 0 <=> w < Half
         /\ w \div Half = 1 <=> w >= Half
<1>1. ASSUME NEW n \in Nat, n > 0, w < n + n
      PROVE  (w \div n = 0 <=> w < n) /\ (w \div n = 1 <=> w >= n)
  BY <1>1
<1> QED BY <1>1, Constants

\* A burst is half a block of words.
LEMMA Bursts ==
  ASSUME PathTypeOK, NEW b \in Block, NEW h \in {0, 1}
  PROVE  P!Burst(b, h) \in Seq(Data) /\ Len(P!Burst(b, h)) = Half
<1>1. \A i \in 1 .. Half : h * Half + i - 1 \in D!Word
  BY Constants
<1>2. \A i \in 1 .. Half : ddr[b][h * Half + i - 1] \in Data
  BY <1>1 DEF PathTypeOK
<1>3. P!Burst(b, h) = [i \in 1 .. Half |-> ddr[b][h * Half + i - 1]]
  BY DEF P!Burst, Half
<1> QED BY <1>2, <1>3, Constants

\* The word that the buffer takes from the bus, and the one it sends.
Taken == IF P!WordOnBus THEN 1 ELSE 0
Sends(c) == IF c.valid THEN 1 ELSE 0

\* Sending a word takes it from the buffer and shows it on the port.
LEMMA SentFacts ==
  ASSUME NEW c \in IoType, ~c.valid
  PROVE  LET s == P!Sent(c)
         IN  /\ s \in IoType
             /\ Len(s.tx) + Sends(s) = Len(c.tx)
             /\ s.valid => s.data \in Data
             /\ c.tx = <<>> => s.tx = <<>>
             /\ s.state = c.state /\ s.flag = c.flag /\ s.rx = c.rx
             /\ s.delay = c.delay /\ s.ready = c.ready /\ s.add = c.add
<1>1. CASE c.tx = <<>>
  BY <1>1 DEF P!Sent, Sends
<1>2. CASE c.tx # <<>>
  <2> DEFINE s == P!Sent(c)
  <2>1. s = [c EXCEPT !.tx = Tail(c.tx), !.valid = TRUE, !.data = Head(c.tx)]
    BY <1>2 DEF P!Sent, IoType
  <2>2. /\ Tail(c.tx) \in Seq(Data) /\ Head(c.tx) \in Data
        /\ Len(Tail(c.tx)) = Len(c.tx) - 1 /\ Len(c.tx) \in Nat
    BY <1>2, HeadTailProperties DEF IoType
  <2> HIDE DEF s
  <2>3. s \in IoType
    BY <2>1, <2>2 DEF IoType
  <2>4. s.tx = Tail(c.tx) /\ s.valid = TRUE /\ s.data = Head(c.tx)
    BY <2>1 DEF IoType
  <2>5. /\ s.state = c.state /\ s.flag = c.flag /\ s.rx = c.rx
        /\ s.delay = c.delay /\ s.ready = c.ready /\ s.add = c.add
    BY <2>1 DEF IoType
  <2>6. Sends(s) = 1
    BY <2>4 DEF Sends
  <2> QED BY <1>2, <2>2, <2>3, <2>4, <2>5, <2>6 DEF s
<1> QED BY <1>1, <1>2

\* Receiving adds the word on the bus to the buffer, if there is one.
LEMMA ReceivedFacts ==
  ASSUME PathTypeOK, clk = 0
  PROVE  /\ P!Received \in IoType /\ ~P!Received.valid
         /\ P!Received = [io EXCEPT !.rx = P!Received.rx, !.valid = FALSE]
         /\ P!Received.rx \in Seq(Data)
         /\ Len(P!Received.rx) = Len(io.rx) + Taken
<1>1. bus.data \in Data \/ ~P!WordOnBus
  BY DEF PathTypeOK
<1>2. io \in IoType /\ io.rx \in Seq(Data)
  BY DEF PathTypeOK, IoType
<1>3. PICK words \in Seq(Data) :
        /\ P!Received = [io EXCEPT !.rx = words, !.valid = FALSE]
        /\ Len(words) = Len(io.rx) + Taken
  <2>1. CASE P!WordOnBus
    <3>1. /\ Append(io.rx, bus.data) \in Seq(Data)
          /\ Len(Append(io.rx, bus.data)) = Len(io.rx) + 1
      BY <1>1, <1>2, <2>1, AppendProperties
    <3>2. Taken = 1
      BY <2>1 DEF Taken
    <3>3. P!Received = [io EXCEPT !.rx = Append(io.rx, bus.data), !.valid = FALSE]
      BY <2>1 DEF P!Received
    <3> QED BY <3>1, <3>2, <3>3
  <2>2. CASE ~P!WordOnBus
    <3>1. Taken = 0 /\ P!Received = [io EXCEPT !.rx = io.rx, !.valid = FALSE]
      BY <2>2 DEF P!Received, Taken
    <3>2. Len(io.rx) = Len(io.rx) + Taken
      BY <1>2, <3>1
    <3> QED BY <1>2, <3>1, <3>2
  <2> QED BY <2>1, <2>2
<1> QED BY <1>2, <1>3 DEF IoType

-----------------------------------------------------------------------------
\* Words that the buffer has yet to read from the memory, or to write to it.
ToRead(c) == IF c.state # "read" \/ c.flag = 3 THEN 0
             ELSE IF c.flag = 0 THEN W ELSE Half
ToWrite(c) == IF c.state # "write" \/ c.flag = 2 THEN 0
              ELSE IF c.flag = 0 THEN W ELSE Half

\* The words that a request on the port asks for.
AskedToRead == IF bus.req /\ ~bus.rw THEN W ELSE 0
AskedToWrite == IF bus.req /\ bus.rw THEN W ELSE 0

\* Ready: nothing is left of the last transfer, and no request can fail.
IoReady == io.ready => /\ io.state = "idle" /\ io.delay = 0 /\ io.tx = <<>>
                       /\ ddr3 = "free"

\* A state of the buffer: only blocks are transferred, so the steps for single
\* words are never taken.
IoTypeOK(c) ==
  /\ c \in IoType
  /\ c.state \in {"read", "write"} => c.add \in Block
  /\ c.state = "write" => c.flag # 3

\* What an edge of the buffer does: types are kept, ready is raised only when
\* nothing is left, and the words to read and to write are moved, not lost.
IoOutcome ==
  /\ IoTypeOK(io') /\ (io'.valid => io'.data \in Data)
  /\ ddr' \in [Block -> [D!Word -> Data]]
  /\ IoReady'
  /\ ToRead(io') + Len(io'.tx) + Sends(io') =
       AskedToRead + ToRead(io) + Len(io.tx)
  /\ ToWrite(io') + Len(io.rx) + Taken =
       AskedToWrite + ToWrite(io) + Len(io'.rx)

\* An edge ends by sending a word from the buffer c that its step left.
LEMMA SentOutcome ==
  ASSUME NEW c, IoTypeOK(c), ~c.valid, io' = P!Sent(c),
         ddr' \in [Block -> [D!Word -> Data]],
         c.ready => c.state = "idle" /\ c.delay = 0 /\ c.tx = <<>> /\ ddr3' = "free",
         ToRead(c) + Len(c.tx) = AskedToRead + ToRead(io) + Len(io.tx),
         ToWrite(c) + Len(io.rx) + Taken =
           AskedToWrite + ToWrite(io) + Len(c.rx)
  PROVE  IoOutcome
<1>1. c \in IoType
  BY DEF IoTypeOK
<1>2. /\ io' \in IoType
      /\ Len(io'.tx) + Sends(io') = Len(c.tx)
      /\ io'.valid => io'.data \in Data
      /\ c.tx = <<>> => io'.tx = <<>>
      /\ io'.state = c.state /\ io'.flag = c.flag /\ io'.rx = c.rx
      /\ io'.delay = c.delay /\ io'.ready = c.ready /\ io'.add = c.add
  BY <1>1, SentFacts
<1>3. IoTypeOK(io') /\ IoReady'
  BY <1>2 DEF IoTypeOK, IoReady
<1>4. ToRead(io') = ToRead(c) /\ ToWrite(io') = ToWrite(c)
  BY <1>2 DEF ToRead, ToWrite
<1>5. /\ ToRead(c) \in Nat /\ Len(io'.tx) \in Nat /\ Sends(io') \in Nat
  BY <1>2, Constants DEF ToRead, Sends, IoType
<1> QED BY <1>2, <1>3, <1>4, <1>5 DEF IoOutcome

\* What holds before an edge of the buffer at 0 degrees.
IoBefore == PathTypeOK /\ clk = 0 /\ IoReady /\ (bus.req => io.ready)

\* A request is on the port only when the state machine can accept it.
LEMMA NotAsked ==
  ASSUME IoBefore, io.state # "idle" \/ io.delay # 0 \/ ~(bus.req /\ ddr3 = "free")
  PROVE  AskedToWrite = 0 /\ AskedToRead = 0
BY DEF IoBefore, IoReady, AskedToRead, AskedToWrite

\* Edges that leave the state and its step alone.
LEMMA IoRests ==
  ASSUME IoBefore, NEW c, io' = P!Sent(c), c \in IoType, ~c.valid,
         c.state = io.state, c.flag = io.flag, c.tx = io.tx, c.add = io.add,
         c.rx = P!Received.rx, ddr' = ddr,
         c.ready => c.state = "idle" /\ c.delay = 0 /\ c.tx = <<>> /\ ddr3' = "free",
         io.state # "idle" \/ io.delay # 0 \/ ~(bus.req /\ ddr3 = "free")
  PROVE  IoOutcome
<1>1. Len(c.rx) = Len(io.rx) + Taken
  BY ReceivedFacts DEF IoBefore
<1>2. io \in IoType /\ IoTypeOK(io) /\ ddr' \in [Block -> [D!Word -> Data]]
  BY DEF IoBefore, PathTypeOK, IoTypeOK
<1>3. AskedToWrite = 0 /\ AskedToRead = 0
  BY NotAsked
<1>4. IoTypeOK(c) /\ ToRead(c) = ToRead(io) /\ ToWrite(c) = ToWrite(io)
  BY <1>2 DEF IoTypeOK, ToRead, ToWrite
<1>5. /\ ToRead(io) \in Nat /\ ToWrite(io) \in Nat /\ Len(io.rx) \in Nat
      /\ Len(io.tx) \in Nat /\ Taken \in Nat
  BY <1>2, Constants DEF ToRead, ToWrite, Taken, IoType
<1>6. ToRead(c) + Len(c.tx) = AskedToRead + ToRead(io) + Len(io.tx)
  BY <1>3, <1>4, <1>5
<1>7. ToWrite(c) + Len(io.rx) + Taken = AskedToWrite + ToWrite(io) + Len(c.rx)
  BY <1>1, <1>3, <1>4, <1>5
<1> QED BY <1>2, <1>4, <1>6, <1>7, SentOutcome

\* The cycles after a transfer, before the next one may start.
LEMMA IoDelayOutcome ==
  ASSUME IoBefore, P!IoDelay
  PROVE  IoOutcome
<1> DEFINE r == P!Received
           c == [r EXCEPT !.delay = io.delay - 1]
<1>1. /\ r \in IoType /\ ~r.valid
      /\ r = [io EXCEPT !.rx = r.rx, !.valid = FALSE]
  BY ReceivedFacts DEF IoBefore
<1>2. io' = P!Sent([r EXCEPT !.delay = r.delay - 1]) /\ io.delay > 0 /\ ddr' = ddr
  BY DEF P!IoDelay, P!Quietly
<1>3. io \in IoType /\ io.delay # 0 /\ ~io.ready
  BY <1>2 DEF IoBefore, IoReady, PathTypeOK
<1> HIDE DEF r
<1>4. /\ r.delay = io.delay /\ r.state = io.state /\ r.flag = io.flag
      /\ r.tx = io.tx /\ r.add = io.add /\ r.ready = io.ready
  BY <1>1, <1>3 DEF IoType
<1>5. /\ c \in IoType /\ ~c.valid /\ c.state = r.state /\ c.flag = r.flag
      /\ c.tx = r.tx /\ c.add = r.add /\ c.ready = r.ready /\ c.rx = r.rx
  <2>1. io.delay - 1 \in Nat
    BY <1>2, <1>3 DEF IoType
  <2> QED BY <2>1, <1>1, <1>4 DEF IoType
<1>6. io' = P!Sent(c)
  BY <1>2, <1>4
<1> HIDE DEF c
<1> QED BY <1>2, <1>3, <1>4, <1>5, <1>6, IoRests DEF r

\* No request: ready is raised when the last word has been sent.
LEMMA IoIdleOutcome ==
  ASSUME IoBefore, P!IoIdle, ddr3' = ddr3
  PROVE  IoOutcome
<1> DEFINE r == P!Received
           ready == r.ready \/ (ddr3 = "free" /\ io.tx = <<>>)
           c == [r EXCEPT !.ready = ready]
<1>1. /\ r \in IoType /\ ~r.valid
      /\ r = [io EXCEPT !.rx = r.rx, !.valid = FALSE]
  BY ReceivedFacts DEF IoBefore
<1>2. io' = P!Sent([r EXCEPT !.ready = r.ready \/ (ddr3 = "free" /\ io.tx = <<>>)]) /\ ddr' = ddr
  BY DEF P!IoIdle, P!Quietly
<1>3. io \in IoType /\ io.state = "idle" /\ io.delay = 0 /\ ~(bus.req /\ ddr3 = "free")
  BY DEF P!IoIdle, P!Stepping, IoBefore, PathTypeOK
<1> HIDE DEF r
<1>4. /\ r.delay = io.delay /\ r.state = io.state /\ r.flag = io.flag
      /\ r.tx = io.tx /\ r.add = io.add /\ r.ready = io.ready
  BY <1>1, <1>3 DEF IoType
<1>5. ready \in BOOLEAN /\ (ready => ddr3 = "free" /\ io.tx = <<>>)
  BY <1>4 DEF IoBefore, IoReady
<1>6. io' = P!Sent(c)
  BY <1>2
<1> HIDE DEF ready
<1>7. /\ c \in IoType /\ ~c.valid /\ c.state = r.state /\ c.flag = r.flag
      /\ c.tx = r.tx /\ c.add = r.add /\ c.rx = r.rx /\ c.delay = r.delay
      /\ c.ready = ready
  BY <1>1, <1>5 DEF IoType
<1> HIDE DEF c
<1> QED BY <1>2, <1>3, <1>4, <1>5, <1>6, <1>7, IoRests DEF r

\* Neither a burst nor the memory is ready.
LEMMA IoWaitOutcome ==
  ASSUME IoBefore, P!IoWait, ddr3' = ddr3
  PROVE  IoOutcome
<1> DEFINE r == P!Received
<1>1. /\ r \in IoType /\ ~r.valid
      /\ r = [io EXCEPT !.rx = r.rx, !.valid = FALSE]
  BY ReceivedFacts DEF IoBefore
<1>2. io' = P!Sent(r) /\ ddr' = ddr
  BY DEF P!IoWait, P!Quietly
<1>3. io \in IoType /\ io.state # "idle"
  BY DEF P!IoWait, P!Stepping, IoBefore, PathTypeOK
<1> HIDE DEF r
<1>4. /\ r.delay = io.delay /\ r.state = io.state /\ r.flag = io.flag
      /\ r.tx = io.tx /\ r.add = io.add /\ r.ready = io.ready
  BY <1>1, <1>3 DEF IoType
<1>5. ~io.ready
  BY <1>3 DEF IoBefore, IoReady
<1> QED BY <1>1, <1>2, <1>3, <1>4, <1>5, IoRests DEF r

\* What the steps of a transfer start from.
LEMMA Busy ==
  ASSUME IoBefore
  PROVE  LET r == P!Received
         IN  /\ r \in IoType /\ ~r.valid /\ io \in IoType
             /\ r.delay = io.delay /\ r.state = io.state /\ r.flag = io.flag
             /\ r.tx = io.tx /\ r.add = io.add /\ r.ready = io.ready
             /\ Len(r.rx) = Len(io.rx) + Taken
             /\ Len(io.rx) \in Nat /\ Len(io.tx) \in Nat /\ Taken \in Nat
             /\ io.state # "idle" => ~io.ready
             /\ io.state \in {"read", "write"} => io.add \in Block
             /\ ddr \in [Block -> [D!Word -> Data]]
<1> DEFINE r == P!Received
<1>1. /\ r \in IoType /\ ~r.valid /\ Len(r.rx) = Len(io.rx) + Taken
      /\ r = [io EXCEPT !.rx = r.rx, !.valid = FALSE]
  BY ReceivedFacts DEF IoBefore
<1>2. /\ io \in IoType
      /\ io.state # "idle" => ~io.ready
      /\ io.state \in {"read", "write"} => io.add \in Block
      /\ ddr \in [Block -> [D!Word -> Data]]
  BY DEF IoBefore, PathTypeOK, IoReady
<1> HIDE DEF r
<1>3. /\ r.delay = io.delay /\ r.state = io.state /\ r.flag = io.flag
      /\ r.tx = io.tx /\ r.add = io.add /\ r.ready = io.ready
  BY <1>1, <1>2 DEF IoType
<1>4. Len(io.rx) \in Nat /\ Len(io.tx) \in Nat /\ Taken \in Nat
  BY <1>2 DEF IoType, Taken
<1> QED BY <1>1, <1>2, <1>3, <1>4 DEF r

\* A request is accepted: its words are those to read, or to write.
LEMMA IoAcceptOutcome ==
  ASSUME IoBefore, P!IoAccept
  PROVE  IoOutcome
<1> DEFINE r == P!Received
           c == [r EXCEPT !.ready = FALSE, !.flag = 0, !.add = bus.add,
                          !.word = bus.word, !.state = P!Serving]
<1>1. io.state = "idle" /\ bus.req /\ io' = P!Sent(c) /\ ddr' = ddr
  BY DEF P!IoAccept, P!Stepping
<1>2. /\ bus.add \in Block /\ bus.word = NoWord
      /\ P!Serving = IF bus.rw THEN "write" ELSE "read"
  BY <1>1 DEF IoBefore, PathTypeOK, BusType, P!Serving
<1>3. P!Serving \in IoState
  BY <1>2 DEF IoState
<1>4. /\ r \in IoType /\ ~r.valid /\ r.tx = io.tx /\ Len(r.rx) = Len(io.rx) + Taken
      /\ Len(io.rx) \in Nat /\ Len(io.tx) \in Nat /\ Taken \in Nat
      /\ ddr \in [Block -> [D!Word -> Data]]
  BY Busy
<1> HIDE DEF r
<1> HIDE DEF P!Serving
<1>5. /\ c \in IoType /\ ~c.valid /\ ~c.ready /\ c.flag = 0 /\ c.add = bus.add
      /\ c.state = P!Serving /\ c.tx = r.tx /\ c.rx = r.rx
  <2>1. r \in IoType /\ ~r.valid
    BY <1>4
  <2>2. /\ FALSE \in BOOLEAN /\ 0 \in 0 .. 3 /\ bus.add \in Block \cup {NoBlock}
        /\ bus.word \in {NoWord} /\ P!Serving \in IoState
    BY <1>2, <1>3
  <2> QED BY <2>1, <2>2, Zenon DEF IoType
<1> HIDE DEF c
<1>6. IoTypeOK(c)
  BY <1>2, <1>5 DEF IoTypeOK
<1>7. ToRead(c) = AskedToRead /\ ToRead(io) = 0
  BY <1>1, <1>2, <1>5 DEF ToRead, AskedToRead
<1>8. ToWrite(c) = AskedToWrite /\ ToWrite(io) = 0
  BY <1>1, <1>2, <1>5 DEF ToWrite, AskedToWrite
<1>9. AskedToRead \in Nat /\ AskedToWrite \in Nat
  BY Constants DEF AskedToRead, AskedToWrite
<1>10. ToRead(c) + Len(c.tx) = AskedToRead + ToRead(io) + Len(io.tx)
  BY <1>4, <1>5, <1>7, <1>9
<1>11. ToWrite(c) + Len(io.rx) + Taken = AskedToWrite + ToWrite(io) + Len(c.rx)
  BY <1>4, <1>5, <1>8, <1>9
<1> QED BY <1>1, <1>4, <1>5, <1>6, <1>10, <1>11, SentOutcome

\* A step of a transfer: c is the buffer before it sends a word.
LEMMA IoMoves ==
  ASSUME IoBefore, NEW c \in IoType, io' = P!Sent(c), ~c.valid, ~c.ready,
         io.state # "idle", IoTypeOK(c),
         ddr' \in [Block -> [D!Word -> Data]],
         ToRead(c) + Len(c.tx) = ToRead(io) + Len(io.tx),
         ToWrite(c) + Len(io.rx) + Taken = ToWrite(io) + Len(c.rx)
  PROVE  IoOutcome
<1>1. AskedToWrite = 0 /\ AskedToRead = 0
  BY NotAsked
<1>2. /\ io \in IoType /\ Len(io.tx) \in Nat /\ Len(c.rx) \in Nat
      /\ ToRead(io) \in Nat /\ ToWrite(io) \in Nat
  BY Busy, Constants DEF IoType, ToRead, ToWrite
<1> QED BY <1>1, <1>2, SentOutcome

\* The steps of a read: every burst adds half a block to the buffer.
LEMMA IoReadOutcome ==
  ASSUME IoBefore, P!IoReadBurst \/ P!IoReadNext \/ P!IoReadEnd
  PROVE  IoOutcome
<1> DEFINE r == P!Received
<1>1. /\ r \in IoType /\ ~r.valid /\ io \in IoType
      /\ r.state = io.state /\ r.flag = io.flag
      /\ r.tx = io.tx /\ r.add = io.add /\ r.ready = io.ready
      /\ Len(r.rx) = Len(io.rx) + Taken
      /\ Len(io.rx) \in Nat /\ Len(io.tx) \in Nat /\ Taken \in Nat
      /\ io.state # "idle" => ~io.ready
      /\ io.state \in {"read", "write"} => io.add \in Block
      /\ ddr \in [Block -> [D!Word -> Data]]
  BY Busy
<1>2. io.state = "read" /\ ~io.ready /\ io.add \in Block /\ ddr' = ddr
  BY <1>1 DEF P!IoReadBurst, P!IoReadNext, P!IoReadEnd, P!Stepping, P!Quietly
<1> HIDE DEF r
<1>3. CASE P!IoReadBurst
  <2> DEFINE h == io.flag \div 2
             burst == P!Burst(io.add, h)
             c == [r EXCEPT !.tx = r.tx \o burst, !.flag = r.flag + 1]
  <2>1. io' = P!Sent(c) /\ io.flag \in {0, 2}
    BY <1>1, <1>3 DEF P!IoReadBurst, r
  <2>2. h \in {0, 1} /\ r.flag + 1 \in {1, 3}
    BY <1>1, <2>1
  <2>3. burst \in Seq(Data) /\ Len(burst) = Half
    BY <1>2, <2>2, Bursts DEF IoBefore
  <2> HIDE DEF burst
  <2>4. r.tx \o burst \in Seq(Data) /\ Len(r.tx \o burst) = Len(r.tx) + Half
    BY <1>1, <2>3, ConcatProperties DEF IoType
  <2>5. /\ c \in IoType /\ ~c.valid /\ ~c.ready /\ c.state = r.state
        /\ c.add = r.add /\ c.rx = r.rx /\ c.tx = r.tx \o burst
        /\ c.flag = r.flag + 1
    <3>1. r \in IoType /\ ~r.valid /\ ~r.ready
      BY <1>1, <1>2
    <3>2. r.tx \o burst \in Seq(Data) /\ r.flag + 1 \in 0 .. 3
      BY <2>2, <2>4
    <3> QED BY <3>1, <3>2 DEF IoType
  <2> HIDE DEF c
  <2>6. IoTypeOK(c)
    BY <1>1, <1>2, <2>5 DEF IoTypeOK
  <2>7. ToRead(io) = ToRead(c) + Half /\ ToRead(c) \in Nat
    BY <1>1, <1>2, <2>1, <2>5, Constants DEF ToRead
  <2>8. ToWrite(c) = 0 /\ ToWrite(io) = 0
    BY <1>1, <1>2, <2>5 DEF ToWrite
  <2>9. ToRead(c) + Len(c.tx) = ToRead(io) + Len(io.tx)
    BY <1>1, <2>4, <2>5, <2>7, Constants
  <2>10. ToWrite(c) + Len(io.rx) + Taken = ToWrite(io) + Len(c.rx)
    BY <1>1, <2>5, <2>8
  <2> QED BY <1>1, <1>2, <2>1, <2>5, <2>6, <2>9, <2>10, IoMoves
<1>4. CASE P!IoReadNext \/ P!IoReadEnd
  <2>0. r \in IoType /\ ~r.valid /\ ~r.ready /\ r.state = "read"
    BY <1>1, <1>2
  <2>1. PICK c : /\ io' = P!Sent(c) /\ c \in IoType /\ ~c.valid /\ ~c.ready
                 /\ c.add = r.add /\ c.rx = r.rx /\ c.tx = r.tx
                 /\ \/ c.state = "read" /\ c.flag = 2 /\ io.flag = 1
                    \/ c.state = "waitClear" /\ io.flag = 3
    <3>1. CASE P!IoReadNext
      <4> DEFINE c == [r EXCEPT !.flag = 2]
      <4>1. io' = P!Sent(c) /\ io.flag = 1
        BY <3>1 DEF P!IoReadNext, r
      <4>2. /\ c \in IoType /\ ~c.valid /\ ~c.ready /\ c.add = r.add
            /\ c.rx = r.rx /\ c.tx = r.tx /\ c.state = "read" /\ c.flag = 2
        BY <2>0 DEF IoType
      <4> QED BY <4>1, <4>2
    <3>2. CASE P!IoReadEnd
      <4> DEFINE c == [r EXCEPT !.flag = 0, !.state = "waitClear"]
      <4>1. io' = P!Sent(c) /\ io.flag = 3
        BY <3>2 DEF P!IoReadEnd, r
      <4>2. 0 \in 0 .. 3 /\ "waitClear" \in IoState
        BY DEF IoState
      <4>3. /\ c \in IoType /\ ~c.valid /\ ~c.ready /\ c.add = r.add
            /\ c.rx = r.rx /\ c.tx = r.tx /\ c.state = "waitClear"
        BY <2>0, <4>2, Zenon DEF IoType
      <4> QED BY <4>1, <4>3
    <3> QED BY <1>4, <3>1, <3>2
  <2>2. IoTypeOK(c)
    BY <1>1, <1>2, <2>1 DEF IoTypeOK
  <2>3. ToRead(c) = ToRead(io) /\ ToWrite(c) = 0 /\ ToWrite(io) = 0
    BY <1>2, <2>1 DEF ToRead, ToWrite
  <2> QED BY <1>1, <1>2, <2>1, <2>2, <2>3, IoMoves
<1> QED BY <1>3, <1>4

\* The steps of a write: every burst takes half a block from the buffer.
LEMMA IoWriteOutcome ==
  ASSUME IoBefore, P!IoWriteBurst \/ P!IoWriteEnd
  PROVE  IoOutcome
<1> DEFINE r == P!Received
<1>1. /\ r \in IoType /\ ~r.valid /\ io \in IoType
      /\ r.state = io.state /\ r.flag = io.flag
      /\ r.tx = io.tx /\ r.add = io.add /\ r.ready = io.ready
      /\ Len(r.rx) = Len(io.rx) + Taken
      /\ Len(io.rx) \in Nat /\ Len(io.tx) \in Nat /\ Taken \in Nat
      /\ io.state # "idle" => ~io.ready
      /\ io.state \in {"read", "write"} => io.add \in Block
      /\ ddr \in [Block -> [D!Word -> Data]]
  BY Busy
<1>2. io.state = "write" /\ ~io.ready /\ io.add \in Block
  BY <1>1 DEF P!IoWriteBurst, P!IoWriteEnd, P!Stepping
<1>3. r \in IoType /\ ~r.valid /\ ~r.ready /\ r.state = "write"
  BY <1>1, <1>2
<1> HIDE DEF r
<1>4. CASE P!IoWriteBurst
  <2> DEFINE rest == SubSeq(r.rx, Half + 1, Len(r.rx))
             words == [w \in 0 .. W - 1 |->
                         IF w \div Half = io.flag
                         THEN r.rx[w - io.flag * Half + 1] ELSE ddr[io.add][w]]
             c == [r EXCEPT !.rx = rest, !.flag = r.flag + 1]
  <2>1. /\ io' = P!Sent(c) /\ io.flag \in {0, 1} /\ Len(r.rx) >= Half
        /\ ddr' = [ddr EXCEPT ![io.add] = words]
    BY <1>4 DEF P!IoWriteBurst, P!BurstComplete, r, Half
  <2>2. r.rx \in Seq(Data) /\ Len(r.rx) \in Nat
    BY <1>3 DEF IoType
  <2>3. rest \in Seq(Data) /\ Len(rest) = Len(r.rx) - Half
    <3>1. \A i \in Half + 1 .. Len(r.rx) : r.rx[i] \in Data
      BY <2>2, ElementOfSeq, Constants
    <3> QED BY <2>1, <2>2, <3>1, SubSeqProperties, Constants
  <2>4. r.flag + 1 \in 0 .. 3
    BY <1>1, <2>1
  <2>5. words \in [D!Word -> Data]
    <3>1. ASSUME NEW w \in 0 .. W - 1, w \div Half = io.flag
          PROVE  r.rx[w - io.flag * Half + 1] \in Data
      <4>1. w - io.flag * Half + 1 \in 1 .. Half
        <5>1. w \in Nat /\ w < Half + Half
          BY Constants
        <5>2. CASE io.flag = 0
          <6>1. w < Half
            BY <3>1, <5>1, <5>2, Halves, Constants
          <6> QED BY <5>1, <5>2, <6>1, Constants
        <5>3. CASE io.flag = 1
          <6>1. w >= Half
            BY <3>1, <5>1, <5>3, Halves, Constants
          <6> QED BY <5>1, <5>3, <6>1, Constants
        <5> QED BY <2>1, <5>2, <5>3
      <4> QED BY <2>1, <2>2, <4>1, ElementOfSeq, Constants
    <3>2. \A w \in 0 .. W - 1 : ddr[io.add][w] \in Data
      BY <1>1, <1>2, Constants
    <3> QED BY <3>1, <3>2, Constants
  <2>6. ddr' \in [Block -> [D!Word -> Data]]
    BY <1>1, <1>2, <2>1, <2>5
  <2> HIDE DEF rest
  <2>7. /\ c \in IoType /\ ~c.valid /\ ~c.ready /\ c.add = r.add
        /\ c.rx = rest /\ c.tx = r.tx /\ c.state = "write" /\ c.flag = r.flag + 1
    BY <1>3, <2>3, <2>4, Zenon DEF IoType
  <2> HIDE DEF c
  <2>8. IoTypeOK(c)
    BY <1>1, <1>2, <2>1, <2>7 DEF IoTypeOK
  <2>9. ToWrite(io) = ToWrite(c) + Half /\ ToWrite(c) \in Nat
    <3>1. /\ io.state = "write" /\ c.state = "write"
          /\ io.flag \in {0, 1} /\ c.flag = io.flag + 1
      BY <1>1, <1>2, <2>1, <2>7
    <3>2. CASE io.flag = 0
      BY <3>1, <3>2, Constants DEF ToWrite
    <3>3. CASE io.flag = 1
      BY <3>1, <3>3, Constants DEF ToWrite
    <3> QED BY <3>1, <3>2, <3>3
  <2>10. ToRead(c) = 0 /\ ToRead(io) = 0
    BY <1>2, <2>7 DEF ToRead
  <2>11. ToWrite(c) + Len(io.rx) + Taken = ToWrite(io) + Len(c.rx)
    <3>2. Len(io.rx) \in Nat /\ Taken \in Nat /\ Half \in Nat
      BY <1>1, Constants
    <3>3. Len(r.rx) = Len(io.rx) + Taken
      BY <1>1
    <3>4. Len(rest) = Len(r.rx) - Half
      BY <2>3
    <3>5. c.rx = rest
      BY <2>7
    <3>1. Len(c.rx) = Len(io.rx) + Taken - Half
      BY <3>2, <3>3, <3>4, <3>5
    <3> QED BY <2>9, <3>1, <3>2
  <2> QED BY <1>1, <1>2, <2>1, <2>6, <2>7, <2>8, <2>10, <2>11, IoMoves
<1>5. CASE P!IoWriteEnd
  <2> DEFINE c == [r EXCEPT !.flag = 0, !.state = "waitClear"]
  <2>1. io' = P!Sent(c) /\ io.flag = 2 /\ ddr' = ddr
    BY <1>5 DEF P!IoWriteEnd, P!Quietly, r
  <2>2. 0 \in 0 .. 3 /\ "waitClear" \in IoState
    BY DEF IoState
  <2>3. /\ c \in IoType /\ ~c.valid /\ ~c.ready /\ c.add = r.add
        /\ c.rx = r.rx /\ c.tx = r.tx /\ c.state = "waitClear"
    BY <1>3, <2>2, Zenon DEF IoType
  <2> HIDE DEF c
  <2>4. IoTypeOK(c)
    BY <2>3 DEF IoTypeOK
  <2>5. ToRead(c) = 0 /\ ToRead(io) = 0 /\ ToWrite(c) = 0 /\ ToWrite(io) = 0
    BY <1>2, <2>1, <2>3 DEF ToRead, ToWrite
  <2> QED BY <1>1, <1>2, <2>1, <2>3, <2>4, <2>5, IoMoves
<1> QED BY <1>4, <1>5

\* done stays high until it is acknowledged.
LEMMA IoWaitClearOutcome ==
  ASSUME IoBefore, P!IoWaitClear
  PROVE  IoOutcome
<1> DEFINE r == P!Received
           acknowledged == [r EXCEPT !.done = FALSE, !.state = "idle", !.delay = P!ClearDelay]
           waiting == [r EXCEPT !.done = TRUE]
<1>1. /\ r \in IoType /\ ~r.valid /\ io \in IoType
      /\ r.state = io.state /\ r.flag = io.flag
      /\ r.tx = io.tx /\ r.add = io.add /\ r.ready = io.ready
      /\ Len(r.rx) = Len(io.rx) + Taken
      /\ Len(io.rx) \in Nat /\ Len(io.tx) \in Nat /\ Taken \in Nat
      /\ io.state # "idle" => ~io.ready
      /\ ddr \in [Block -> [D!Word -> Data]]
  BY Busy
<1>2. io.state = "waitClear" /\ ddr' = ddr
  BY DEF P!IoWaitClear, P!Stepping, P!Quietly
<1>3. r \in IoType /\ ~r.valid /\ ~r.ready /\ r.state = "waitClear"
  BY <1>1, <1>2
<1>4. io' = P!Sent(acknowledged) \/ io' = P!Sent(waiting)
  BY DEF P!IoWaitClear
<1> HIDE DEF r
<1>5. TRUE \in BOOLEAN /\ FALSE \in BOOLEAN /\ "idle" \in IoState /\ P!ClearDelay \in Nat
  BY DEF P!ClearDelay, IoState
<1>6. /\ acknowledged \in IoType /\ ~acknowledged.valid /\ ~acknowledged.ready
      /\ acknowledged.rx = r.rx /\ acknowledged.tx = r.tx
      /\ acknowledged.state = "idle"
  BY <1>3, <1>5, Zenon DEF IoType
<1>7. /\ waiting \in IoType /\ ~waiting.valid /\ ~waiting.ready
      /\ waiting.rx = r.rx /\ waiting.tx = r.tx /\ waiting.state = "waitClear"
  BY <1>3, <1>5, Zenon DEF IoType
<1> HIDE DEF acknowledged, waiting
<1>8. PICK c \in IoType : /\ io' = P!Sent(c) /\ ~c.valid /\ ~c.ready
                          /\ c.rx = r.rx /\ c.tx = r.tx
                          /\ c.state \in {"idle", "waitClear"}
  BY <1>4, <1>6, <1>7
<1>9. IoTypeOK(c)
  BY <1>8 DEF IoTypeOK
<1>10. ToRead(c) = 0 /\ ToRead(io) = 0 /\ ToWrite(c) = 0 /\ ToWrite(io) = 0
  BY <1>2, <1>8 DEF ToRead, ToWrite
<1> QED BY <1>1, <1>2, <1>8, <1>9, <1>10, IoMoves

\* Every edge of the buffer keeps the types and the counts of words.
LEMMA IoEdgeOutcome ==
  ASSUME IoBefore, P!IoEdge
  PROVE  IoOutcome
<1>1. io.state \in IoState
  BY DEF IoBefore, PathTypeOK, IoType
<1>2. ~P!IoReadWord /\ ~P!IoFetchBurst /\ ~P!IoWriteWord /\ ~P!IoWordEnd
  BY <1>1 DEF IoState, P!IoReadWord, P!IoFetchBurst, P!IoWriteWord, P!IoWordEnd, P!Stepping
<1>3. P!IoIdle \/ P!IoWait => ddr3' = ddr3
  BY DEF P!IoIdle, P!IoWait, P!Quietly
<1> QED
  BY <1>2, <1>3, IoDelayOutcome, IoIdleOutcome, IoAcceptOutcome, IoReadOutcome,
     IoWriteOutcome, IoWaitOutcome, IoWaitClearOutcome DEF P!IoEdge

-----------------------------------------------------------------------------
(* A cache, as the rest of the system sees it.                               *)

CoreType == [req : BOOLEAN, rw : BOOLEAN, block : Block, word : D!Word, data : Data]

CtlState == {"normal", "waitReady", "waitReplacement", "writeBuffer", "readBuffer"}

CtlType(L) == [state : CtlState, nTransfer : D!Word, reqFlag : BOOLEAN,
               rwFlag : BOOLEAN, done : BOOLEAN, ptr : L,
               writebackFlag : BOOLEAN, addWriteback : Block,
               cacheAdd : L \X D!Word]

OutType == [read : Block \cup {NoBlock}, write : Block \cup {NoBlock},
            wr : Data \cup {NoWord}, push : Data \cup {NoWord},
            ack : BOOLEAN, cam : BOOLEAN]

\* A reference in service: the hart waits, and words move in two states only.
InService(ctl) ==
  /\ ctl.state # "normal" => ctl.reqFlag
  /\ ctl.reqFlag => ~ctl.done
  /\ ctl.state \notin {"writeBuffer", "readBuffer"} => ctl.nTransfer = 0

\* A cache's registers hold values of their types, and a line that is written
\* out has a tag.
CacheOK(L, core, ctl, dirty, out, tagMem, mem) ==
  /\ core \in CoreType /\ ctl \in CtlType(L) /\ out \in OutType
  /\ dirty \in SUBSET L
  /\ tagMem \in [L -> Tag \cup {NoTag}] /\ mem \in [L -> [D!Word -> Data]]
  /\ \A l \in dirty : tagMem[l] \in Tag
  /\ ctl.state = "writeBuffer" => ctl.ptr \in dirty
  /\ InService(ctl)

ICacheOK == CacheOK(ILine, iCore, iCtl, iDirty, iOut, iTag, iMem)
DCacheOK == CacheOK(DLine, dCore, dCtl, dDirty, dOut, dTag, dMem)

-----------------------------------------------------------------------------
(* What the rest of the system sees of an edge of a controller: its          *)
(* registers c become c2 and its strobes are o2.                             *)

\* The writeback block, for the flag that the rest of the cycle left.
WritesBack(flag, mready, c2, o2) ==
  IF flag /\ mready THEN ~c2.writebackFlag /\ o2.write \in Block
  ELSE c2.writebackFlag = flag /\ o2.write = NoBlock

\* The reference in service, and the count of words, stay.
SameService(c, c2) ==
  c2.nTransfer = c.nTransfer /\ c2.reqFlag = c.reqFlag /\ c2.done = c.done

\* No block is asked for and no word moves.
NoTransfer(o) == o.read = NoBlock /\ o.push = NoWord /\ ~o.ack

\* A hit ends the reference, a miss starts to serve it.
Serves(c, active, mready, c2, o2) ==
  /\ c.state = "normal" /\ active /\ c2.nTransfer = c.nTransfer
  /\ \/ c2.state = "normal" /\ ~c2.reqFlag /\ c2.done
     \/ c2.state = "waitReady" /\ c2.reqFlag /\ ~c2.done
  /\ NoTransfer(o2) /\ WritesBack(c.writebackFlag, mready, c2, o2)

\* The missing block is requested: nothing is pending, the memory is ready.
Requesting(c, mready, c2, o2) ==
  /\ c.state = "waitReady" /\ mready /\ ~c.writebackFlag
  /\ c2.state = "waitReplacement" /\ ~c2.writebackFlag /\ SameService(c, c2)
  /\ o2.read \in Block /\ o2.write = NoBlock /\ o2.push = NoWord /\ ~o2.ack

\* The line is known: its words are written out, or the block is read.
Replacing(c, mready, c2, o2) ==
  /\ c.state = "waitReplacement" /\ c2.state \in {"writeBuffer", "readBuffer"}
  /\ SameService(c, c2)
  /\ NoTransfer(o2) /\ WritesBack(c.writebackFlag, mready, c2, o2)

\* A word has moved, the last one or another.
Moved(c, c2, after) ==
  /\ c2.reqFlag = c.reqFlag /\ c2.done = c.done
  /\ IF c.nTransfer = W - 1 THEN c2.nTransfer = 0 /\ c2.state = after
     ELSE c2.nTransfer = c.nTransfer + 1 /\ c2.state = c.state

\* A word goes to the buffer; the first one announces the write-back.
Pushing(c, mready, wready, c2, o2) ==
  /\ c.state = "writeBuffer" /\ wready /\ Moved(c, c2, "readBuffer")
  /\ o2.read = NoBlock /\ o2.push \in Data /\ ~o2.ack
  /\ WritesBack(c.nTransfer = 0 \/ c.writebackFlag, mready, c2, o2)

\* A word comes from the buffer and is acknowledged.
Filling(c, mready, rready, c2, o2) ==
  /\ c.state = "readBuffer" /\ rready /\ Moved(c, c2, "normal")
  /\ o2.read = NoBlock /\ o2.push = NoWord /\ o2.ack
  /\ WritesBack(c.writebackFlag, mready, c2, o2)

\* A cycle without a step.
Waiting(c, active, mready, c2, o2) ==
  /\ c.state = "normal" => ~active
  /\ c2.state = c.state /\ SameService(c, c2)
  /\ NoTransfer(o2) /\ WritesBack(c.writebackFlag, mready, c2, o2)

\* An edge of a controller is one of these.
Effect(c, active, mready, wready, rready, c2, o2) ==
  \/ Serves(c, active, mready, c2, o2)
  \/ Requesting(c, mready, c2, o2)
  \/ Replacing(c, mready, c2, o2)
  \/ Pushing(c, mready, wready, c2, o2)
  \/ Filling(c, mready, rready, c2, o2)
  \/ Waiting(c, active, mready, c2, o2)

-----------------------------------------------------------------------------
\* The writeback block on the registers c and the strobes o.
Finished(mready, c, o, c2, o2) ==
  IF c.writebackFlag /\ mready
  THEN /\ c2 = [c EXCEPT !.writebackFlag = FALSE]
       /\ o2 = [o EXCEPT !.write = c.addWriteback]
  ELSE c2 = c /\ o2 = o

\* The writeback block touches its flag and the write request alone.
LEMMA FinishedFacts ==
  ASSUME NEW L, NEW c \in CtlType(L), NEW o \in OutType, o.write = NoBlock,
         NEW mready, NEW c2, NEW o2, Finished(mready, c, o, c2, o2)
  PROVE  /\ c2 \in CtlType(L) /\ o2 \in OutType
         /\ c2.state = c.state /\ c2.nTransfer = c.nTransfer /\ c2.ptr = c.ptr
         /\ c2.reqFlag = c.reqFlag /\ c2.rwFlag = c.rwFlag /\ c2.done = c.done
         /\ o2.read = o.read /\ o2.push = o.push /\ o2.ack = o.ack
         /\ WritesBack(c.writebackFlag, mready, c2, o2)
<1>1. c.addWriteback \in Block /\ c.addWriteback \in Block \cup {NoBlock} /\ FALSE \in BOOLEAN
  BY Zenon DEF CtlType
<1>2. CASE c.writebackFlag /\ mready
  <2>1. c2 = [c EXCEPT !.writebackFlag = FALSE] /\ o2 = [o EXCEPT !.write = c.addWriteback]
    BY <1>2, Zenon DEF Finished
  <2>2. /\ c2 \in CtlType(L) /\ ~c2.writebackFlag
        /\ c2.state = c.state /\ c2.nTransfer = c.nTransfer /\ c2.ptr = c.ptr
        /\ c2.reqFlag = c.reqFlag /\ c2.rwFlag = c.rwFlag /\ c2.done = c.done
    BY <1>1, <2>1, Zenon DEF CtlType
  <2>3. /\ o2 \in OutType /\ o2.write = c.addWriteback
        /\ o2.read = o.read /\ o2.push = o.push /\ o2.ack = o.ack
    BY <1>1, <2>1, Zenon DEF OutType
  <2> QED BY <1>1, <1>2, <2>2, <2>3, Zenon DEF WritesBack
<1>3. CASE ~(c.writebackFlag /\ mready)
  BY <1>3, Zenon DEF Finished, WritesBack
<1> QED BY <1>2, <1>3, Zenon

\* Strobes that are low.
LEMMA QuietFacts ==
  /\ D!Quiet \in OutType /\ I!Quiet = D!Quiet
  /\ D!Quiet.read = NoBlock /\ D!Quiet.write = NoBlock /\ D!Quiet.push = NoWord
  /\ D!Quiet.wr = NoWord /\ ~D!Quiet.ack /\ ~D!Quiet.cam
<1>1. /\ NoBlock \in Block \cup {NoBlock} /\ NoWord \in Data \cup {NoWord}
      /\ FALSE \in BOOLEAN
  OBVIOUS
<1> QED BY <1>1, Zenon DEF D!Quiet, I!Quiet, OutType

-----------------------------------------------------------------------------
\* A reference is to be looked up.
Active(core, c) == core.req \/ c.reqFlag

(* What each kind of cycle leaves: registers c2, strobes o2 and the dirty    *)
(* lines, for a reference of type rw and the cache's lines L.                *)
Outcome(L, core, c, mready, wready, rready, c2, dirty2, o2) ==
  /\ c2 \in CtlType(L) /\ o2 \in OutType
  /\ Effect(c, Active(core, c), mready, wready, rready, c2, o2)
  /\ c2.rwFlag \in {c.rwFlag, core.rw}
  /\ c2.state = "writeBuffer" => c2.ptr \in dirty2

\* A reference that hits.
LEMMA HitOutcome ==
  ASSUME NEW L, NEW core, NEW c \in CtlType(L), NEW dirty2,
         NEW a \in L \X D!Word, NEW d \in Data \cup {NoWord},
         NEW mready, NEW wready, NEW rready, NEW c2, NEW o2,
         c.state = "normal", Active(core, c),
         Finished(mready,
                  [c EXCEPT !.reqFlag = FALSE, !.done = TRUE, !.cacheAdd = a],
                  [D!Quiet EXCEPT !.wr = d], c2, o2)
  PROVE  Outcome(L, core, c, mready, wready, rready, c2, dirty2, o2)
<1> DEFINE c1 == [c EXCEPT !.reqFlag = FALSE, !.done = TRUE, !.cacheAdd = a]
           o1 == [D!Quiet EXCEPT !.wr = d]
<1>1. TRUE \in BOOLEAN /\ FALSE \in BOOLEAN
  OBVIOUS
<1>2. /\ c1 \in CtlType(L) /\ c1.state = c.state /\ c1.nTransfer = c.nTransfer
      /\ c1.reqFlag = FALSE /\ c1.done = TRUE /\ c1.rwFlag = c.rwFlag
      /\ c1.writebackFlag = c.writebackFlag
  BY <1>1, Zenon DEF CtlType
<1>3. /\ o1 \in OutType /\ o1.read = D!Quiet.read /\ o1.write = D!Quiet.write
      /\ o1.push = D!Quiet.push /\ o1.ack = D!Quiet.ack
  BY QuietFacts, Zenon DEF OutType
<1>4. Finished(mready, c1, o1, c2, o2)
  OBVIOUS
<1> HIDE DEF c1, o1
<1>5. /\ c2 \in CtlType(L) /\ o2 \in OutType
      /\ c2.state = c1.state /\ c2.nTransfer = c1.nTransfer /\ c2.ptr = c1.ptr
      /\ c2.reqFlag = c1.reqFlag /\ c2.rwFlag = c1.rwFlag /\ c2.done = c1.done
      /\ o2.read = o1.read /\ o2.push = o1.push /\ o2.ack = o1.ack
      /\ WritesBack(c1.writebackFlag, mready, c2, o2)
  <2>1. c1 \in CtlType(L) /\ o1 \in OutType /\ o1.write = NoBlock
    BY <1>2, <1>3, QuietFacts, Zenon
  <2> QED BY <1>4, <2>1, FinishedFacts, Zenon
<1>6. Serves(c, Active(core, c), mready, c2, o2)
  BY <1>2, <1>3, <1>5, QuietFacts, Zenon DEF Serves, NoTransfer
<1>7. c2.state # "writeBuffer"
  BY <1>2, <1>5
<1> QED BY <1>2, <1>5, <1>6, <1>7, Zenon DEF Outcome, Effect

\* A reference that misses.
LEMMA MissOutcome ==
  ASSUME NEW L, NEW core \in CoreType, NEW c \in CtlType(L), NEW dirty2,
         NEW mready, NEW wready, NEW rready, NEW c2, NEW o2,
         c.state = "normal", Active(core, c),
         Finished(mready,
                  [c EXCEPT !.reqFlag = TRUE, !.rwFlag = core.rw, !.done = FALSE,
                            !.state = "waitReady"], D!Quiet, c2, o2)
  PROVE  Outcome(L, core, c, mready, wready, rready, c2, dirty2, o2)
<1> DEFINE c1 == [c EXCEPT !.reqFlag = TRUE, !.rwFlag = core.rw, !.done = FALSE,
                           !.state = "waitReady"]
<1>1. /\ TRUE \in BOOLEAN /\ FALSE \in BOOLEAN /\ core.rw \in BOOLEAN
      /\ "waitReady" \in CtlState
  BY Zenon DEF CoreType, CtlState
<1>2. /\ c1 \in CtlType(L) /\ c1.state = "waitReady" /\ c1.nTransfer = c.nTransfer
      /\ c1.reqFlag = TRUE /\ c1.done = FALSE /\ c1.rwFlag = core.rw
      /\ c1.writebackFlag = c.writebackFlag
  BY <1>1, Zenon DEF CtlType
<1>4. Finished(mready, c1, D!Quiet, c2, o2)
  OBVIOUS
<1> HIDE DEF c1
<1>5. /\ c2 \in CtlType(L) /\ o2 \in OutType
      /\ c2.state = c1.state /\ c2.nTransfer = c1.nTransfer /\ c2.ptr = c1.ptr
      /\ c2.reqFlag = c1.reqFlag /\ c2.rwFlag = c1.rwFlag /\ c2.done = c1.done
      /\ o2.read = D!Quiet.read /\ o2.push = D!Quiet.push /\ o2.ack = D!Quiet.ack
      /\ WritesBack(c1.writebackFlag, mready, c2, o2)
  <2>1. c1 \in CtlType(L) /\ D!Quiet \in OutType /\ D!Quiet.write = NoBlock
    BY <1>2, QuietFacts, Zenon
  <2> QED BY <1>4, <2>1, FinishedFacts, Zenon
<1>6. Serves(c, Active(core, c), mready, c2, o2)
  BY <1>2, <1>5, QuietFacts, Zenon DEF Serves, NoTransfer
<1>7. c2.state # "writeBuffer"
  BY <1>2, <1>5
<1> QED BY <1>2, <1>5, <1>6, <1>7, Zenon DEF Outcome, Effect

\* The missing block is requested.
LEMMA RequestOutcome ==
  ASSUME NEW L, NEW core, NEW c \in CtlType(L), NEW dirty2,
         NEW b \in Block, NEW mready, NEW wready, NEW rready, NEW c2, NEW o2,
         c.state = "waitReady", mready, ~c.writebackFlag,
         c2 = [c EXCEPT !.state = "waitReplacement"],
         o2 = [D!Quiet EXCEPT !.read = b]
  PROVE  Outcome(L, core, c, mready, wready, rready, c2, dirty2, o2)
<1>1. "waitReplacement" \in CtlState /\ b \in Block \cup {NoBlock}
  BY DEF CtlState
<1>2. /\ c2 \in CtlType(L) /\ c2.state = "waitReplacement"
      /\ c2.nTransfer = c.nTransfer /\ c2.reqFlag = c.reqFlag /\ c2.done = c.done
      /\ c2.rwFlag = c.rwFlag /\ c2.writebackFlag = c.writebackFlag
  BY <1>1, Zenon DEF CtlType
<1>3. /\ o2 \in OutType /\ o2.read = b /\ o2.write = D!Quiet.write
      /\ o2.push = D!Quiet.push /\ o2.ack = D!Quiet.ack
  BY <1>1, QuietFacts, Zenon DEF OutType
<1>4. Requesting(c, mready, c2, o2)
  BY <1>2, <1>3, QuietFacts, Zenon DEF Requesting, SameService
<1>5. c2.state # "writeBuffer"
  BY <1>2
<1> QED BY <1>2, <1>3, <1>4, <1>5, Zenon DEF Outcome, Effect

\* The policy's line is taken, to be written out first if it is dirty.
LEMMA ReplaceOutcome ==
  ASSUME NEW L, NEW core, NEW c \in CtlType(L), NEW dirty,
         NEW v \in L, NEW mready, NEW wready, NEW rready, NEW c2, NEW o2,
         c.state = "waitReplacement", 0 \in D!Word,
         Finished(mready,
                  IF v \in dirty
                  THEN [c EXCEPT !.ptr = v, !.cacheAdd = <<v, 0>>, !.state = "writeBuffer"]
                  ELSE [c EXCEPT !.ptr = v, !.state = "readBuffer"], D!Quiet, c2, o2)
  PROVE  Outcome(L, core, c, mready, wready, rready, c2, dirty, o2)
<1> DEFINE c1 == IF v \in dirty
                 THEN [c EXCEPT !.ptr = v, !.cacheAdd = <<v, 0>>, !.state = "writeBuffer"]
                 ELSE [c EXCEPT !.ptr = v, !.state = "readBuffer"]
<1>1. /\ "writeBuffer" \in CtlState /\ "readBuffer" \in CtlState
      /\ <<v, 0>> \in L \X D!Word
  BY DEF CtlState
<1>2. /\ c1 \in CtlType(L) /\ c1.nTransfer = c.nTransfer
      /\ c1.reqFlag = c.reqFlag /\ c1.done = c.done /\ c1.rwFlag = c.rwFlag
      /\ c1.writebackFlag = c.writebackFlag /\ c1.ptr = v
      /\ c1.state = IF v \in dirty THEN "writeBuffer" ELSE "readBuffer"
  <2>1. CASE v \in dirty
    <3>1. c1 = [c EXCEPT !.ptr = v, !.cacheAdd = <<v, 0>>, !.state = "writeBuffer"]
      BY <2>1, Zenon
    <3> HIDE DEF c1
    <3> QED BY <1>1, <2>1, <3>1, Zenon DEF CtlType
  <2>2. CASE v \notin dirty
    <3>1. c1 = [c EXCEPT !.ptr = v, !.state = "readBuffer"]
      BY <2>2, Zenon
    <3> HIDE DEF c1
    <3> QED BY <1>1, <2>2, <3>1, Zenon DEF CtlType
  <2> QED BY <2>1, <2>2, Zenon
<1>4. Finished(mready, c1, D!Quiet, c2, o2)
  BY Zenon
<1> HIDE DEF c1
<1>5. /\ c2 \in CtlType(L) /\ o2 \in OutType
      /\ c2.state = c1.state /\ c2.nTransfer = c1.nTransfer /\ c2.ptr = c1.ptr
      /\ c2.reqFlag = c1.reqFlag /\ c2.rwFlag = c1.rwFlag /\ c2.done = c1.done
      /\ o2.read = D!Quiet.read /\ o2.push = D!Quiet.push /\ o2.ack = D!Quiet.ack
      /\ WritesBack(c1.writebackFlag, mready, c2, o2)
  BY <1>2, <1>4, QuietFacts, FinishedFacts, Zenon
<1>6. c2.state \in {"writeBuffer", "readBuffer"} /\ (c2.state = "writeBuffer" => v \in dirty)
  BY <1>2, <1>5
<1>7. Replacing(c, mready, c2, o2)
  BY <1>2, <1>5, <1>6, QuietFacts, Zenon DEF Replacing, NoTransfer, SameService
<1> QED BY <1>2, <1>5, <1>6, <1>7, Zenon DEF Outcome, Effect

\* Nothing to do but the writeback block.
LEMMA WaitOutcome ==
  ASSUME NEW L, NEW core, NEW c \in CtlType(L), NEW dirty,
         NEW mready, NEW wready, NEW rready, NEW c2, NEW o2,
         c.state = "normal" => ~Active(core, c),
         c.state = "writeBuffer" => c.ptr \in dirty,
         Finished(mready, c, D!Quiet, c2, o2)
  PROVE  Outcome(L, core, c, mready, wready, rready, c2, dirty, o2)
<1>5. /\ c2 \in CtlType(L) /\ o2 \in OutType
      /\ c2.state = c.state /\ c2.nTransfer = c.nTransfer /\ c2.ptr = c.ptr
      /\ c2.reqFlag = c.reqFlag /\ c2.rwFlag = c.rwFlag /\ c2.done = c.done
      /\ o2.read = D!Quiet.read /\ o2.push = D!Quiet.push /\ o2.ack = D!Quiet.ack
      /\ WritesBack(c.writebackFlag, mready, c2, o2)
  BY QuietFacts, FinishedFacts, Zenon
<1>6. Waiting(c, Active(core, c), mready, c2, o2)
  BY <1>5, QuietFacts, Zenon DEF Waiting, NoTransfer, SameService
<1> QED BY <1>5, <1>6, Zenon DEF Outcome, Effect

\* The count of words and the state after a word, the last one or another.
Counted(c, after, n, st) ==
  IF c.nTransfer = W - 1 THEN n = 0 /\ st = after
  ELSE n = c.nTransfer + 1 /\ st = c.state

\* A word goes to the buffer, and with the first one the address.
LEMMA PushOutcome ==
  ASSUME NEW L, NEW core, NEW c \in CtlType(L), NEW dirty2,
         NEW wb \in BOOLEAN, NEW ad \in Block, NEW n \in D!Word,
         NEW a \in L \X D!Word, NEW st \in CtlState, NEW d \in Data,
         NEW mready, NEW wready, NEW rready, NEW c2, NEW o2,
         c.state = "writeBuffer", wready, Counted(c, "readBuffer", n, st),
         wb = (c.nTransfer = 0 \/ c.writebackFlag),
         st = "writeBuffer" => c.ptr \in dirty2,
         Finished(mready,
                  [c EXCEPT !.writebackFlag = wb, !.addWriteback = ad,
                            !.nTransfer = n, !.cacheAdd = a, !.state = st],
                  [D!Quiet EXCEPT !.push = d], c2, o2)
  PROVE  Outcome(L, core, c, mready, wready, rready, c2, dirty2, o2)
<1> DEFINE c1 == [c EXCEPT !.writebackFlag = wb, !.addWriteback = ad,
                           !.nTransfer = n, !.cacheAdd = a, !.state = st]
           o1 == [D!Quiet EXCEPT !.push = d]
<1>2. /\ c1 \in CtlType(L) /\ c1.state = st /\ c1.nTransfer = n
      /\ c1.reqFlag = c.reqFlag /\ c1.done = c.done /\ c1.rwFlag = c.rwFlag
      /\ c1.writebackFlag = wb /\ c1.ptr = c.ptr
  BY Zenon DEF CtlType
<1>3. /\ o1 \in OutType /\ o1.read = D!Quiet.read /\ o1.write = D!Quiet.write
      /\ o1.push = d /\ o1.ack = D!Quiet.ack
  BY QuietFacts, Zenon DEF OutType
<1>4. Finished(mready, c1, o1, c2, o2)
  OBVIOUS
<1> HIDE DEF c1, o1
<1>5. /\ c2 \in CtlType(L) /\ o2 \in OutType
      /\ c2.state = c1.state /\ c2.nTransfer = c1.nTransfer /\ c2.ptr = c1.ptr
      /\ c2.reqFlag = c1.reqFlag /\ c2.rwFlag = c1.rwFlag /\ c2.done = c1.done
      /\ o2.read = o1.read /\ o2.push = o1.push /\ o2.ack = o1.ack
      /\ WritesBack(c1.writebackFlag, mready, c2, o2)
  <2>1. c1 \in CtlType(L) /\ o1 \in OutType /\ o1.write = NoBlock
    BY <1>2, <1>3, QuietFacts, Zenon
  <2> QED BY <1>4, <2>1, FinishedFacts, Zenon
<1>6. Moved(c, c2, "readBuffer")
  BY <1>2, <1>5, Zenon DEF Moved, Counted
<1>7. WritesBack(c.nTransfer = 0 \/ c.writebackFlag, mready, c2, o2)
  BY <1>2, <1>5, Zenon
<1>8. Pushing(c, mready, wready, c2, o2)
  BY <1>3, <1>5, <1>6, <1>7, QuietFacts, Zenon DEF Pushing
<1>9. c2.state = "writeBuffer" => c2.ptr \in dirty2
  BY <1>2, <1>5, Zenon
<1> QED BY <1>2, <1>5, <1>8, <1>9, Zenon DEF Outcome, Effect

\* A word to the line.
LEMMA FillOutcome ==
  ASSUME NEW L, NEW core, NEW c \in CtlType(L), NEW dirty2,
         NEW n \in D!Word, NEW a \in L \X D!Word, NEW st \in CtlState,
         NEW d \in Data \cup {NoWord}, NEW cam \in BOOLEAN,
         NEW mready, NEW wready, NEW rready, NEW c2, NEW o2,
         c.state = "readBuffer", rready, Counted(c, "normal", n, st),
         Finished(mready,
                  [c EXCEPT !.nTransfer = n, !.cacheAdd = a, !.state = st],
                  [D!Quiet EXCEPT !.ack = TRUE, !.wr = d, !.cam = cam], c2, o2)
  PROVE  Outcome(L, core, c, mready, wready, rready, c2, dirty2, o2)
<1> DEFINE c1 == [c EXCEPT !.nTransfer = n, !.cacheAdd = a, !.state = st]
           o1 == [D!Quiet EXCEPT !.ack = TRUE, !.wr = d, !.cam = cam]
<1>1. TRUE \in BOOLEAN
  OBVIOUS
<1>2. /\ c1 \in CtlType(L) /\ c1.state = st /\ c1.nTransfer = n
      /\ c1.reqFlag = c.reqFlag /\ c1.done = c.done /\ c1.rwFlag = c.rwFlag
      /\ c1.writebackFlag = c.writebackFlag /\ c1.ptr = c.ptr
  BY Zenon DEF CtlType
<1>3. /\ o1 \in OutType /\ o1.read = D!Quiet.read /\ o1.write = D!Quiet.write
      /\ o1.push = D!Quiet.push /\ o1.ack = TRUE
  BY <1>1, QuietFacts, Zenon DEF OutType
<1>4. Finished(mready, c1, o1, c2, o2)
  OBVIOUS
<1> HIDE DEF c1, o1
<1>5. /\ c2 \in CtlType(L) /\ o2 \in OutType
      /\ c2.state = c1.state /\ c2.nTransfer = c1.nTransfer /\ c2.ptr = c1.ptr
      /\ c2.reqFlag = c1.reqFlag /\ c2.rwFlag = c1.rwFlag /\ c2.done = c1.done
      /\ o2.read = o1.read /\ o2.push = o1.push /\ o2.ack = o1.ack
      /\ WritesBack(c1.writebackFlag, mready, c2, o2)
  <2>1. c1 \in CtlType(L) /\ o1 \in OutType /\ o1.write = NoBlock
    BY <1>2, <1>3, QuietFacts, Zenon
  <2> QED BY <1>4, <2>1, FinishedFacts, Zenon
<1>6. Moved(c, c2, "normal")
  BY <1>2, <1>5, Zenon DEF Moved, Counted
<1>7. WritesBack(c.writebackFlag, mready, c2, o2)
  BY <1>2, <1>5, Zenon
<1>8. Filling(c, mready, rready, c2, o2)
  BY <1>3, <1>5, <1>6, <1>7, QuietFacts, Zenon DEF Filling
<1>9. c2.state # "writeBuffer"
  BY <1>2, <1>5 DEF Counted
<1> QED BY <1>2, <1>5, <1>8, <1>9, Zenon DEF Outcome, Effect

\* An edge of a controller keeps a reference in service or ends it.
LEMMA ServiceKept ==
  ASSUME NEW L, NEW core, NEW c \in CtlType(L), NEW dirty2,
         NEW mready, NEW wready, NEW rready, NEW c2, NEW o2, InService(c),
         Outcome(L, core, c, mready, wready, rready, c2, dirty2, o2)
  PROVE  InService(c2)
<1> USE DEF InService
<1>1. Effect(c, Active(core, c), mready, wready, rready, c2, o2)
  BY DEF Outcome
<1>2. CASE Serves(c, Active(core, c), mready, c2, o2)
  BY <1>2 DEF Serves
<1>3. CASE Requesting(c, mready, c2, o2)
  BY <1>3 DEF Requesting, SameService
<1>4. CASE Replacing(c, mready, c2, o2)
  BY <1>4 DEF Replacing, SameService
<1>5. CASE Pushing(c, mready, wready, c2, o2)
  BY <1>5 DEF Pushing, Moved
<1>6. CASE Filling(c, mready, rready, c2, o2)
  BY <1>6 DEF Filling, Moved
<1>7. CASE Waiting(c, Active(core, c), mready, c2, o2)
  BY <1>7 DEF Waiting, SameService
<1> QED BY <1>1, <1>2, <1>3, <1>4, <1>5, <1>6, <1>7 DEF Effect

-----------------------------------------------------------------------------
\* An edge of the data cache's controller.
LEMMA DataEdge ==
  ASSUME DCacheOK, NEW mready, NEW wready, NEW rready, NEW d, rready => d \in Data,
         NEW v \in D!Victim \ {NoLine}, D!ControllerEdge(mready, wready, rready, d, v)
  PROVE  /\ DCacheOK' /\ dCore' = dCore
         /\ Outcome(DLine, dCore, dCtl, mready, wready, rready, dCtl', dDirty', dOut')
<1> DEFINE Goal == /\ Outcome(DLine, dCore, dCtl, mready, wready, rready, dCtl', dDirty', dOut')
                   /\ dDirty' \in SUBSET DLine
                   /\ \A l \in dDirty' : dTag[l] \in Tag
<1>1. /\ dCore \in CoreType /\ dCtl \in CtlType(DLine) /\ dDirty \in SUBSET DLine
      /\ dTag \in [DLine -> Tag \cup {NoTag}] /\ dMem \in [DLine -> [D!Word -> Data]]
      /\ \A l \in dDirty : dTag[l] \in Tag
      /\ dCtl.state = "writeBuffer" => dCtl.ptr \in dDirty
      /\ InService(dCtl)
  BY Zenon DEF DCacheOK, CacheOK
<1>2. dCore' = dCore /\ dTag' = dTag /\ dMem' = dMem
  BY Zenon DEF D!ControllerEdge, D!memories
<1>3. /\ dCore.block \in Tag \X Set /\ dCore.word \in D!Word /\ dCore.data \in Data
      /\ dCtl.ptr \in DLine /\ dCtl.nTransfer \in D!Word /\ dCtl.cacheAdd \in DLine \X D!Word
      /\ dCtl.state \in CtlState
  BY <1>1, Zenon DEF CoreType, CtlType, Block, D!Block
<1>4. 0 \in D!Word /\ W \in Nat
  BY Constants
<1>5. ASSUME D!Hit(mready) PROVE Goal
  <2> DEFINE store == IF dCtl.reqFlag THEN dCtl.rwFlag ELSE dCore.rw
             word == IF store THEN dCore.data ELSE NoWord
  <2>1. /\ D!CamAddr \in DLine /\ dTag[D!CamAddr] \in Tag
    <3>1. D!CamAddr \in D!Match(dCore.block)
      BY <1>5 DEF D!Hit, D!Hits, D!CamAddr
    <3> QED BY <1>3, <3>1 DEF D!Match
  <2>2. word \in Data \cup {NoWord} /\ <<D!CamAddr, dCore.word>> \in DLine \X D!Word
    BY <1>3, <2>1
  <2>3. /\ dCtl.state = "normal" /\ Active(dCore, dCtl)
        /\ Finished(mready, [dCtl EXCEPT !.reqFlag = FALSE, !.done = TRUE,
                                         !.cacheAdd = <<D!CamAddr, dCore.word>>],
                    [D!Quiet EXCEPT !.wr = word], dCtl', dOut')
    BY <1>5, Zenon DEF D!Hit, D!Active, D!Finish, Finished, Active
  <2>4. dDirty' \subseteq dDirty \cup {D!CamAddr}
    BY <1>5 DEF D!Hit, D!MarkDirty
  <2> HIDE DEF word
  <2> QED BY <1>1, <2>1, <2>2, <2>3, <2>4, HitOutcome
<1>6. ASSUME D!Miss(mready) PROVE Goal
  <2>1. /\ dCtl.state = "normal" /\ Active(dCore, dCtl) /\ dDirty' = dDirty
        /\ Finished(mready, [dCtl EXCEPT !.reqFlag = TRUE, !.rwFlag = dCore.rw,
                                         !.done = FALSE, !.state = "waitReady"],
                    D!Quiet, dCtl', dOut')
    BY <1>6, Zenon DEF D!Miss, D!Active, D!Finish, Finished, Active
  <2> QED BY <1>1, <2>1, MissOutcome
<1>7. ASSUME D!RequestBlock(mready) PROVE Goal
  <2>1. /\ dCtl.state = "waitReady" /\ mready /\ ~dCtl.writebackFlag /\ dDirty' = dDirty
        /\ dCtl' = [dCtl EXCEPT !.state = "waitReplacement"]
        /\ dOut' = [D!Quiet EXCEPT !.read = dCore.block]
    BY <1>7, Zenon DEF D!RequestBlock, D!WritebackDone
  <2>2. dCore.block \in Block
    BY <1>1 DEF CoreType
  <2> QED BY <1>1, <2>1, <2>2, RequestOutcome
<1>8. ASSUME D!TakeReplacement(mready, v) PROVE Goal
  <2>1. v \in DLine
    BY DEF D!Victim
  <2>2. /\ dCtl.state = "waitReplacement" /\ dDirty' = dDirty
        /\ Finished(mready,
             IF v \in dDirty
             THEN [dCtl EXCEPT !.ptr = v, !.cacheAdd = <<v, 0>>, !.state = "writeBuffer"]
             ELSE [dCtl EXCEPT !.ptr = v, !.state = "readBuffer"], D!Quiet, dCtl', dOut')
    BY <1>8, Zenon DEF D!TakeReplacement, D!Replace, D!Finish, Finished
  <2> QED BY <1>1, <1>4, <2>1, <2>2, ReplaceOutcome
<1>9. ASSUME D!PushWord(mready, wready) PROVE Goal
  <2> DEFINE wb == D!Pending
             ad == IF D!FirstWord THEN <<dTag[dCtl.ptr], dCore.block[2]>>
                   ELSE dCtl.addWriteback
             a == IF D!LastWord THEN dCtl.cacheAdd ELSE <<dCtl.ptr, D!NextTransfer>>
             st == IF D!LastWord THEN "readBuffer" ELSE dCtl.state
  <2>1. /\ dCtl.state = "writeBuffer" /\ wready
        /\ Finished(mready,
             [dCtl EXCEPT !.writebackFlag = wb, !.addWriteback = ad,
                          !.nTransfer = D!NextTransfer, !.cacheAdd = a, !.state = st],
             [D!Quiet EXCEPT !.push = D!CacheOut], dCtl', dOut')
        /\ dDirty' = IF D!LastWord THEN dDirty \ {dCtl.ptr} ELSE dDirty
    BY <1>9, Zenon DEF D!PushWord, D!Finish, Finished
  <2>2. wb \in BOOLEAN /\ wb = (dCtl.nTransfer = 0 \/ dCtl.writebackFlag)
    BY <1>1, Zenon DEF D!Pending, D!FirstWord, CtlType
  <2>3. ad \in Block
    <3>1. dTag[dCtl.ptr] \in Tag /\ dCore.block[2] \in Set
      BY <1>1, <1>3, <2>1
    <3>2. dCtl.addWriteback \in Block
      BY <1>1, Zenon DEF CtlType
    <3> QED BY <3>1, <3>2 DEF Block, D!Block
  <2>4. D!NextTransfer \in D!Word
    BY <1>3, <1>4, Constants DEF D!NextTransfer, D!LastWord
  <2>5. a \in DLine \X D!Word /\ st \in CtlState
    BY <1>3, <2>4 DEF CtlState
  <2>6. Counted(dCtl, "readBuffer", D!NextTransfer, st)
    BY DEF Counted, D!NextTransfer, D!LastWord
  <2>7. D!CacheOut \in Data
    <3>1. dCtl.cacheAdd[1] \in DLine /\ dCtl.cacheAdd[2] \in D!Word
      BY <1>3
    <3>2. dMem[dCtl.cacheAdd[1]] \in [D!Word -> Data]
      BY <1>1, <3>1
    <3> QED BY <3>1, <3>2 DEF D!CacheOut
  <2>8. st = "writeBuffer" => dCtl.ptr \in dDirty'
    BY <1>1, <2>1
  <2> HIDE DEF wb, ad, a, st
  <2>9. Outcome(DLine, dCore, dCtl, mready, wready, rready, dCtl', dDirty', dOut')
    BY <1>1, <2>1, <2>2, <2>3, <2>4, <2>5, <2>6, <2>7, <2>8, PushOutcome
  <2> QED BY <1>1, <2>1, <2>9
<1>10. ASSUME D!FillWord(mready, rready, d) PROVE Goal
  <2> DEFINE st == IF D!LastWord THEN "normal" ELSE dCtl.state
  <2>1. /\ dCtl.state = "readBuffer" /\ rready /\ dDirty' = dDirty
        /\ Finished(mready,
             [dCtl EXCEPT !.nTransfer = D!NextTransfer,
                          !.cacheAdd = <<dCtl.ptr, dCtl.nTransfer>>, !.state = st],
             [D!Quiet EXCEPT !.ack = TRUE, !.wr = d, !.cam = D!LastWord], dCtl', dOut')
    BY <1>10, Zenon DEF D!FillWord, D!Finish, Finished
  <2>2. D!NextTransfer \in D!Word
    BY <1>3, <1>4, Constants DEF D!NextTransfer, D!LastWord
  <2>3. /\ <<dCtl.ptr, dCtl.nTransfer>> \in DLine \X D!Word /\ st \in CtlState
        /\ D!LastWord \in BOOLEAN /\ d \in Data \cup {NoWord}
    BY <1>3, <2>1 DEF CtlState, D!LastWord
  <2>4. Counted(dCtl, "normal", D!NextTransfer, st)
    BY DEF Counted, D!NextTransfer, D!LastWord
  <2> HIDE DEF st
  <2> QED BY <1>1, <2>1, <2>2, <2>3, <2>4, FillOutcome
<1>11. ASSUME D!Wait(mready, wready, rready, v) PROVE Goal
  <2>1. Finished(mready, dCtl, D!Quiet, dCtl', dOut') /\ dDirty' = dDirty
    BY <1>11, Zenon DEF D!Wait, D!Finish, Finished
  <2>2. dCtl.state = "normal" => ~Active(dCore, dCtl)
    BY <1>11 DEF D!Wait, D!Waits, Active, D!Active
  <2> QED BY <1>1, <2>1, <2>2, WaitOutcome
<1>12. Goal
  BY <1>5, <1>6, <1>7, <1>8, <1>9, <1>10, <1>11, Zenon DEF D!ControllerEdge
<1> HIDE DEF Goal
<1>13. /\ Outcome(DLine, dCore, dCtl, mready, wready, rready, dCtl', dDirty', dOut')
       /\ dDirty' \in SUBSET DLine /\ \A l \in dDirty' : dTag[l] \in Tag
  BY <1>12, Zenon DEF Goal
<1>14. InService(dCtl')
  BY <1>1, <1>13, ServiceKept, Zenon
<1> QED BY <1>1, <1>2, <1>13, <1>14, Zenon DEF DCacheOK, CacheOK, Outcome

\* The instruction cache never writes.
ReadOnly ==
  /\ ~iCore.rw /\ ~iCtl.rwFlag /\ iDirty = {}
  /\ ~iCtl.writebackFlag /\ iOut.write = NoBlock /\ iOut.push = NoWord

\* An edge of the instruction cache's controller.
LEMMA InstEdge ==
  ASSUME ICacheOK, ReadOnly, NEW mready, NEW wready, NEW rready, NEW d, rready => d \in Data,
         NEW v \in I!Victim \ {NoLine}, I!ControllerEdge(mready, wready, rready, d, v)
  PROVE  /\ ICacheOK' /\ ReadOnly' /\ iCore' = iCore
         /\ Outcome(ILine, iCore, iCtl, mready, wready, rready, iCtl', iDirty', iOut')
<1> DEFINE Goal == /\ Outcome(ILine, iCore, iCtl, mready, wready, rready, iCtl', iDirty', iOut')
                   /\ iDirty' = {}
<1>1. /\ iCore \in CoreType /\ iCtl \in CtlType(ILine) /\ iDirty \in SUBSET ILine /\ iDirty = {}
      /\ iTag \in [ILine -> Tag \cup {NoTag}] /\ iMem \in [ILine -> [D!Word -> Data]]
      /\ \A l \in iDirty : iTag[l] \in Tag
      /\ iCtl.state = "writeBuffer" => iCtl.ptr \in iDirty
      /\ InService(iCtl)
  BY Zenon DEF ICacheOK, CacheOK, ReadOnly
<1>2. iCore' = iCore /\ iTag' = iTag /\ iMem' = iMem
  BY Zenon DEF I!ControllerEdge, I!memories
<1>3. /\ iCore.block \in Tag \X Set /\ iCore.word \in D!Word /\ iCore.data \in Data
      /\ iCtl.ptr \in ILine /\ iCtl.nTransfer \in D!Word /\ iCtl.cacheAdd \in ILine \X D!Word
      /\ iCtl.state \in CtlState
  BY <1>1, Zenon DEF CoreType, CtlType, Block, D!Block
<1>4. 0 \in D!Word /\ W \in Nat
  BY Constants
<1>5. ASSUME I!Hit(mready) PROVE Goal
  <2> DEFINE store == IF iCtl.reqFlag THEN iCtl.rwFlag ELSE iCore.rw
             word == IF store THEN iCore.data ELSE NoWord
  <2>1. /\ I!CamAddr \in ILine /\ iTag[I!CamAddr] \in Tag
    <3>1. I!CamAddr \in I!Match(iCore.block)
      BY <1>5 DEF I!Hit, I!Hits, I!CamAddr
    <3> QED BY <1>3, <3>1 DEF I!Match
  <2>2. word \in Data \cup {NoWord} /\ <<I!CamAddr, iCore.word>> \in ILine \X D!Word
    BY <1>3, <2>1
  <2>3. /\ iCtl.state = "normal" /\ Active(iCore, iCtl)
        /\ Finished(mready, [iCtl EXCEPT !.reqFlag = FALSE, !.done = TRUE,
                                         !.cacheAdd = <<I!CamAddr, iCore.word>>],
                    [D!Quiet EXCEPT !.wr = word], iCtl', iOut')
    BY <1>5, Zenon DEF I!Hit, I!Active, I!Finish, Finished, Active, I!Quiet, D!Quiet
  <2>4. iDirty' = {}
    BY <1>5 DEF I!Hit, I!MarkDirty, ReadOnly
  <2> HIDE DEF word
  <2> QED BY <1>1, <2>1, <2>2, <2>3, <2>4, HitOutcome
<1>6. ASSUME I!Miss(mready) PROVE Goal
  <2>1. /\ iCtl.state = "normal" /\ Active(iCore, iCtl) /\ iDirty' = iDirty
        /\ Finished(mready, [iCtl EXCEPT !.reqFlag = TRUE, !.rwFlag = iCore.rw,
                                         !.done = FALSE, !.state = "waitReady"],
                    D!Quiet, iCtl', iOut')
    BY <1>6, Zenon DEF I!Miss, I!Active, I!Finish, Finished, Active, I!Quiet, D!Quiet
  <2> QED BY <1>1, <2>1, MissOutcome
<1>7. ASSUME I!RequestBlock(mready) PROVE Goal
  <2>1. /\ iCtl.state = "waitReady" /\ mready /\ ~iCtl.writebackFlag /\ iDirty' = iDirty
        /\ iCtl' = [iCtl EXCEPT !.state = "waitReplacement"]
        /\ iOut' = [D!Quiet EXCEPT !.read = iCore.block]
    BY <1>7, Zenon DEF I!RequestBlock, I!WritebackDone, I!Quiet, D!Quiet
  <2>2. iCore.block \in Block
    BY <1>1 DEF CoreType
  <2> QED BY <1>1, <2>1, <2>2, RequestOutcome
<1>8. ASSUME I!TakeReplacement(mready, v) PROVE Goal
  <2>1. v \in ILine
    BY DEF I!Victim
  <2>2. /\ iCtl.state = "waitReplacement" /\ iDirty' = iDirty
        /\ Finished(mready,
             IF v \in iDirty
             THEN [iCtl EXCEPT !.ptr = v, !.cacheAdd = <<v, 0>>, !.state = "writeBuffer"]
             ELSE [iCtl EXCEPT !.ptr = v, !.state = "readBuffer"], D!Quiet, iCtl', iOut')
    BY <1>8, Zenon DEF I!TakeReplacement, I!Replace, I!Finish, Finished, I!Quiet, D!Quiet
  <2> QED BY <1>1, <1>4, <2>1, <2>2, ReplaceOutcome
<1>9. ~I!PushWord(mready, wready)
  BY <1>1 DEF ReadOnly, I!PushWord
<1>10. ASSUME I!FillWord(mready, rready, d) PROVE Goal
  <2> DEFINE st == IF I!LastWord THEN "normal" ELSE iCtl.state
  <2>1. /\ iCtl.state = "readBuffer" /\ rready /\ iDirty' = iDirty
        /\ Finished(mready,
             [iCtl EXCEPT !.nTransfer = I!NextTransfer,
                          !.cacheAdd = <<iCtl.ptr, iCtl.nTransfer>>, !.state = st],
             [D!Quiet EXCEPT !.ack = TRUE, !.wr = d, !.cam = I!LastWord], iCtl', iOut')
    BY <1>10, Zenon DEF I!FillWord, I!Finish, Finished, I!Quiet, D!Quiet
  <2>2. I!NextTransfer \in D!Word
    BY <1>3, <1>4, Constants DEF I!NextTransfer, I!LastWord
  <2>3. /\ <<iCtl.ptr, iCtl.nTransfer>> \in ILine \X D!Word /\ st \in CtlState
        /\ I!LastWord \in BOOLEAN /\ d \in Data \cup {NoWord}
    BY <1>3, <2>1 DEF CtlState, I!LastWord
  <2>4. Counted(iCtl, "normal", I!NextTransfer, st)
    BY DEF Counted, I!NextTransfer, I!LastWord
  <2> HIDE DEF st
  <2> QED BY <1>1, <2>1, <2>2, <2>3, <2>4, FillOutcome
<1>11. ASSUME I!Wait(mready, wready, rready, v) PROVE Goal
  <2>1. Finished(mready, iCtl, D!Quiet, iCtl', iOut') /\ iDirty' = iDirty
    BY <1>11, Zenon DEF I!Wait, I!Finish, Finished, I!Quiet, D!Quiet
  <2>2. iCtl.state = "normal" => ~Active(iCore, iCtl)
    BY <1>11 DEF I!Wait, I!Waits, Active, I!Active
  <2> QED BY <1>1, <2>1, <2>2, WaitOutcome
<1>12. Goal
  BY <1>5, <1>6, <1>7, <1>8, <1>9, <1>10, <1>11, Zenon DEF I!ControllerEdge
<1> HIDE DEF Goal
<1>13. /\ Outcome(ILine, iCore, iCtl, mready, wready, rready, iCtl', iDirty', iOut')
       /\ iDirty' = {}
  BY <1>12, Zenon DEF Goal
<1>14. InService(iCtl')
  BY <1>1, <1>13, ServiceKept, Zenon
<1>15. /\ ~iCtl'.writebackFlag /\ iOut'.write = NoBlock /\ iOut'.push = NoWord
       /\ ~iCtl'.rwFlag
  <2>1. /\ ~iCtl.writebackFlag /\ iCtl.state # "writeBuffer"
        /\ iCtl'.rwFlag \in {iCtl.rwFlag, iCore.rw} /\ ~iCtl.rwFlag /\ ~iCore.rw
    BY <1>1, <1>13 DEF ReadOnly, Outcome
  <2> QED BY <1>13, <2>1 DEF Outcome, Effect, Serves, Requesting, Replacing, Pushing,
             Filling, Waiting, WritesBack, NoTransfer
<1> QED BY <1>1, <1>2, <1>13, <1>14, <1>15, Zenon DEF ICacheOK, CacheOK, Outcome, ReadOnly

-----------------------------------------------------------------------------
\* The hart's edge, and that of the memories of a cache, keep the types.
LEMMA DataHart ==
  ASSUME DCacheOK, D!HartIdle \/ (Done(dCtl) /\ D!HartIssue)
  PROVE  /\ DCacheOK' /\ dCtl' = dCtl /\ dOut' = dOut
         /\ dCore'.req => iCtl.done /\ dCtl.done
<1>1. dCore \in CoreType /\ FALSE \in BOOLEAN /\ TRUE \in BOOLEAN
  BY Zenon DEF DCacheOK, CacheOK
<1>2. CASE D!HartIdle
  <2>1. dCore' = [dCore EXCEPT !.req = FALSE, !.rw = FALSE]
    BY <1>2, Zenon DEF D!HartIdle, D!Withdraw
  <2>2. dCore' \in CoreType /\ ~dCore'.req
    BY <1>1, <2>1, Zenon DEF CoreType
  <2>3. UNCHANGED <<dCtl, dDirty, dOut, dTag, dMem>>
    BY <1>2 DEF D!HartIdle, D!memories
  <2> QED BY <2>2, <2>3, Zenon DEF DCacheOK, CacheOK
<1>3. CASE Done(dCtl) /\ D!HartIssue
  <2>1. PICK a \in LoadStore :
          dCore' = [req |-> TRUE, rw |-> a.rw, block |-> a.block,
                    word |-> a.word, data |-> a.data]
    BY <1>3, Zenon DEF D!HartIssue, D!Issue
  <2>2. a \in [rw : BOOLEAN, block : Block, word : D!Word, data : Data]
    BY SystemAssumption, Zenon DEF D!CacheAssumption, D!Access, Block
  <2>3. dCore' \in CoreType
    BY <1>1, <2>1, <2>2, Zenon DEF CoreType
  <2>4. UNCHANGED <<dCtl, dDirty, dOut, dTag, dMem>> /\ iCtl.done /\ dCtl.done
    BY <1>3 DEF D!HartIssue, D!memories, Done
  <2> QED BY <2>3, <2>4, Zenon DEF DCacheOK, CacheOK
<1> QED BY <1>2, <1>3

\* The same for the instruction cache, which only reads.
LEMMA InstHart ==
  ASSUME ICacheOK, ReadOnly, I!HartIdle \/ (Done(iCtl) /\ I!HartIssue)
  PROVE  /\ ICacheOK' /\ ReadOnly' /\ iCtl' = iCtl /\ iOut' = iOut
         /\ iCore'.req => iCtl.done /\ dCtl.done
<1>1. iCore \in CoreType /\ FALSE \in BOOLEAN /\ TRUE \in BOOLEAN
  BY Zenon DEF ICacheOK, CacheOK
<1>2. CASE I!HartIdle
  <2>1. iCore' = [iCore EXCEPT !.req = FALSE, !.rw = FALSE]
    BY <1>2, Zenon DEF I!HartIdle, I!Withdraw
  <2>2. iCore' \in CoreType /\ ~iCore'.req /\ ~iCore'.rw
    BY <1>1, <2>1, Zenon DEF CoreType
  <2>3. UNCHANGED <<iCtl, iDirty, iOut, iTag, iMem>>
    BY <1>2 DEF I!HartIdle, I!memories
  <2> QED BY <2>2, <2>3, Zenon DEF ICacheOK, CacheOK, ReadOnly
<1>3. CASE Done(iCtl) /\ I!HartIssue
  <2>1. PICK a \in Fetch :
          iCore' = [req |-> TRUE, rw |-> a.rw, block |-> a.block,
                    word |-> a.word, data |-> a.data]
    BY <1>3, Zenon DEF I!HartIssue, I!Issue
  <2>2. /\ a \in [rw : BOOLEAN, block : Block, word : D!Word, data : Data]
        /\ ~a.rw
    <3>1. I!Block = Block /\ I!Word = D!Word
      BY Constants
    <3>2. a \in [rw : BOOLEAN, block : I!Block, word : I!Word, data : Data] /\ ~a.rw
      BY SystemAssumption, Zenon DEF I!CacheAssumption, I!Access
    <3> QED BY <3>1, <3>2
  <2>3. iCore' \in CoreType /\ ~iCore'.rw
    BY <1>1, <2>1, <2>2, Zenon DEF CoreType
  <2>4. UNCHANGED <<iCtl, iDirty, iOut, iTag, iMem>> /\ iCtl.done /\ dCtl.done
    BY <1>3 DEF I!HartIssue, I!memories, Done
  <2> QED BY <2>3, <2>4, Zenon DEF ICacheOK, CacheOK, ReadOnly
<1> QED BY <1>2, <1>3

\* The memories of the data cache sample its strobes.
LEMMA DataMemories ==
  ASSUME DCacheOK, D!MemoryEdge
  PROVE  DCacheOK' /\ UNCHANGED <<dCore, dCtl, dDirty, dOut>>
<1>1. /\ dCore \in CoreType /\ dCtl \in CtlType(DLine) /\ dOut \in OutType
      /\ dTag \in [DLine -> Tag \cup {NoTag}] /\ dMem \in [DLine -> [D!Word -> Data]]
      /\ dDirty \in SUBSET DLine /\ \A l \in dDirty : dTag[l] \in Tag
  BY Zenon DEF DCacheOK, CacheOK
<1>2. UNCHANGED <<dCore, dCtl, dDirty, dOut>>
  BY DEF D!MemoryEdge
<1>3. dTag' \in [DLine -> Tag \cup {NoTag}] /\ \A l \in dDirty : dTag'[l] \in Tag
  <2>1. dCore.block[1] \in Tag
    BY <1>1 DEF CoreType, Block, D!Block
  <2>2. dTag' = dTag \/ dTag' = [dTag EXCEPT ![dCtl.ptr] = dCore.block[1]]
    BY DEF D!MemoryEdge
  <2> QED BY <1>1, <2>1, <2>2
<1>4. dMem' \in [DLine -> [D!Word -> Data]]
  <2>1. CASE dOut.wr = NoWord
    BY <1>1, <2>1 DEF D!MemoryEdge
  <2>2. CASE dOut.wr # NoWord
    <3>1. dMem' = [dMem EXCEPT ![dCtl.cacheAdd[1]][dCtl.cacheAdd[2]] = dOut.wr]
      BY <2>2 DEF D!MemoryEdge
    <3>2. dCtl.cacheAdd \in DLine \X D!Word /\ dOut.wr \in Data
      BY <1>1, <2>2, Zenon DEF CtlType, OutType
    <3> QED BY <1>1, <3>1, <3>2
  <2> QED BY <2>1, <2>2
<1> QED BY <1>2, <1>3, <1>4, Zenon DEF DCacheOK, CacheOK

\* The memories of the instruction cache sample its strobes.
LEMMA InstMemories ==
  ASSUME ICacheOK, ReadOnly, I!MemoryEdge
  PROVE  ICacheOK' /\ ReadOnly' /\ UNCHANGED <<iCore, iCtl, iDirty, iOut>>
<1>1. /\ iCore \in CoreType /\ iCtl \in CtlType(ILine) /\ iOut \in OutType
      /\ iTag \in [ILine -> Tag \cup {NoTag}] /\ iMem \in [ILine -> [D!Word -> Data]]
      /\ iDirty = {}
  BY Zenon DEF ICacheOK, CacheOK, ReadOnly
<1>2. UNCHANGED <<iCore, iCtl, iDirty, iOut>>
  BY DEF I!MemoryEdge
<1>3. iTag' \in [ILine -> Tag \cup {NoTag}]
  <2>1. iCore.block[1] \in Tag
    BY <1>1 DEF CoreType, Block, D!Block
  <2>2. iTag' = iTag \/ iTag' = [iTag EXCEPT ![iCtl.ptr] = iCore.block[1]]
    BY DEF I!MemoryEdge
  <2> QED BY <1>1, <2>1, <2>2
<1>4. iMem' \in [ILine -> [D!Word -> Data]]
  <2>1. CASE iOut.wr = NoWord
    BY <1>1, <2>1 DEF I!MemoryEdge
  <2>2. CASE iOut.wr # NoWord
    <3>1. iMem' = [iMem EXCEPT ![iCtl.cacheAdd[1]][iCtl.cacheAdd[2]] = iOut.wr]
      BY <2>2 DEF I!MemoryEdge
    <3>2. iCtl.cacheAdd \in ILine \X D!Word /\ iOut.wr \in Data
      BY <1>1, <2>2, Zenon DEF CtlType, OutType
    <3> QED BY <1>1, <3>1, <3>2
  <2> QED BY <2>1, <2>2
<1> QED BY <1>1, <1>2, <1>3, <1>4, Zenon DEF ICacheOK, CacheOK, ReadOnly

-----------------------------------------------------------------------------
(* The inductive invariant.                                                  *)

Transferring(c) == c.state \in {"waitReplacement", "writeBuffer", "readBuffer"}

\* At the edges that use it, the arbiter's choice is that of the caches' state
\* now; a request of the hart finds both caches at rest; and the cache that
\* transfers a block has access.
Arbitration ==
  /\ mem_access \in {0, 1}
  /\ clk \in {90, 180} => mem_access = Owner
  /\ clk \in {90, 180} /\ (iCore.req \/ dCore.req)
       => iCtl.state = "normal" /\ dCtl.state = "normal"
  /\ Transferring(iCtl) => mem_access = 0
  /\ Transferring(dCtl) => mem_access = 1 /\ iCtl.done

\* What a strobe that is high says of the path.
Strobe(o) == Requests(o) \/ o.push # NoWord \/ o.ack

Gated ==
  clk = 270 =>
    /\ Strobe(iOut) => mem_access = 0
    /\ Strobe(dOut) => mem_access = 1
    /\ Requests(iOut) \/ Requests(dOut) => io.ready
    /\ iOut.ack \/ dOut.ack => rx # <<>>
    /\ iOut.read # NoBlock \/ dOut.read # NoBlock => rx = <<>>
    /\ dOut.write # NoBlock => dOut.read = NoBlock /\ ~dCtl.writebackFlag

\* A request on the port: the memory is ready for it.
Accepted == clk = 0 /\ bus.req => io.ready

\* A number that counts at one edge only.
At(t, n) == IF clk = t THEN n ELSE 0

\* The words that a cache is waiting for; those that a strobe asks for and
\* acknowledges.
Need(c) == IF c.state = "readBuffer" THEN W - c.nTransfer
           ELSE IF Transferring(c) THEN W ELSE 0
Asked(o) == IF o.read # NoBlock THEN W ELSE 0
Acked(o) == IF o.ack THEN 1 ELSE 0

\* Every word that a cache waits for is on its way, and no other.
ReadBalance ==
  /\ Need(iCtl) + Need(dCtl) + At(270, Acked(iOut) + Acked(dOut)) =
       At(270, Asked(iOut) + Asked(dOut)) + At(0, AskedToRead)
       + ToRead(io) + Len(io.tx) + At(90, Sends(io)) + Len(rx)
  /\ Len(io.tx) + At(90, Sends(io)) + Len(rx) <= W

\* A write-back whose words go to the buffer, before the buffer knows its
\* length; a word that goes there at this edge; the words to come.
Announced == dCtl.writebackFlag \/ (clk = 270 /\ dOut.write # NoBlock)
Pushes(o) == IF o.push # NoWord THEN 1 ELSE 0
ToPush(c) == IF c.state = "writeBuffer" /\ c.nTransfer # 0 THEN W - c.nTransfer ELSE 0

\* The buffer has, or will get, every word of the write-back that it has still
\* to send, and a cache starts another one when there is none.
PushBalance ==
  /\ (IF Announced THEN W ELSE tx.left) =
       Len(tx.fifo) + At(270, Pushes(dOut)) + ToPush(dCtl)
  /\ Announced => tx.left = 0
  /\ dCtl.state = "waitReplacement" \/ (dCtl.state = "writeBuffer" /\ dCtl.nTransfer = 0)
       => ~Announced /\ tx.left = 0

\* The words that the memory has still to be written are in its buffer, on the
\* bus, or among those that the other buffer has still to send.
WriteBalance ==
  /\ At(0, AskedToWrite) + ToWrite(io) = Len(io.rx) + At(0, Taken) + tx.left
  /\ tx.left <= W

CachesOK == ICacheOK /\ DCacheOK /\ ReadOnly

SysInv ==
  /\ CachesOK /\ PathTypeOK /\ clk \in {0, 90, 180, 270}
  /\ Arbitration /\ Gated /\ IoReady /\ Accepted
  /\ ReadBalance /\ PushBalance /\ WriteBalance

\* The numbers of the balances are natural numbers.
NumbersOK ==
  /\ Need(iCtl) \in 0 .. W /\ Need(dCtl) \in 0 .. W
  /\ Asked(iOut) \in {0, W} /\ Asked(dOut) \in {0, W}
  /\ Acked(iOut) \in {0, 1} /\ Acked(dOut) \in {0, 1}
  /\ AskedToRead \in {0, W} /\ AskedToWrite \in {0, W}
  /\ ToRead(io) \in 0 .. W /\ ToWrite(io) \in 0 .. W
  /\ Len(io.tx) \in Nat /\ Len(io.rx) \in Nat /\ Len(rx) \in Nat
  /\ Len(tx.fifo) \in Nat /\ tx.left \in Nat
  /\ Sends(io) \in {0, 1} /\ Taken \in {0, 1} /\ Pushes(dOut) \in {0, 1}
  /\ ToPush(dCtl) \in 0 .. W

\* They are, wherever the registers have their types; and after a step, too.
LEMMA Numbers == CachesOK /\ PathTypeOK => NumbersOK
<1> SUFFICES ASSUME CachesOK, PathTypeOK PROVE NumbersOK
  OBVIOUS
<1>1. W \in Nat /\ Half \in Nat /\ W = Half + Half /\ D!Word = 0 .. W - 1
  BY Constants
<1>2. iCtl.nTransfer \in D!Word /\ dCtl.nTransfer \in D!Word
  BY Zenon DEF CachesOK, ICacheOK, DCacheOK, CacheOK, CtlType
<1>3. /\ io.tx \in Seq(Data) /\ io.rx \in Seq(Data) /\ rx \in Seq(Data)
      /\ tx.fifo \in Seq(Data) /\ tx.left \in Nat
  BY DEF PathTypeOK, IoType
<1>4. Need(iCtl) \in 0 .. W /\ Need(dCtl) \in 0 .. W
  BY <1>1, <1>2 DEF Need
<1>5. ToPush(dCtl) \in 0 .. W
  BY <1>1, <1>2 DEF ToPush
<1>6. ToRead(io) \in 0 .. W /\ ToWrite(io) \in 0 .. W
  BY <1>1 DEF ToRead, ToWrite
<1>7. AskedToRead \in {0, W} /\ AskedToWrite \in {0, W}
  BY <1>1 DEF AskedToRead, AskedToWrite
<1>8. /\ Asked(iOut) \in {0, W} /\ Asked(dOut) \in {0, W}
      /\ Acked(iOut) \in {0, 1} /\ Acked(dOut) \in {0, 1}
  BY <1>1 DEF Asked, Acked
<1>9. Sends(io) \in {0, 1} /\ Taken \in {0, 1} /\ Pushes(dOut) \in {0, 1}
  BY DEF Sends, Taken, Pushes
<1> QED BY <1>3, <1>4, <1>5, <1>6, <1>7, <1>8, <1>9 DEF NumbersOK

\* Numbers, of the next state.
LEMMA NumbersNext == (CachesOK /\ PathTypeOK)' => NumbersOK'
BY Numbers, PTL

\* Only one cache waits for words at a time.
LEMMA OneWaits ==
  ASSUME CachesOK, Arbitration
  PROVE  Need(iCtl) = 0 \/ Need(dCtl) = 0
BY DEF Arbitration, Need, Transferring

\* A cache that is done has no reference in service.
LEMMA CacheAtRest ==
  ASSUME NEW c, InService(c), c.done
  PROVE  c.state = "normal" /\ ~c.reqFlag
BY DEF InService

\* 0 degrees: the hart, the arbiter and the buffer of the DDR3 controller.
LEMMA HartEdge ==
  ASSUME SysInv, Edge0
  PROVE  SysInv'
<1>1. /\ clk = 0 /\ clk' = 90 /\ mem_access' = Owner /\ P!IoEdge
      /\ UNCHANGED <<tx, bus, rx, clear>>
  BY DEF Edge0, P!IoEdge
<1>2. /\ CachesOK' /\ iCtl' = iCtl /\ iOut' = iOut /\ dCtl' = dCtl /\ dOut' = dOut
      /\ iCore'.req \/ dCore'.req => iCtl.done /\ dCtl.done
  BY DataHart, InstHart DEF SysInv, CachesOK, Edge0, Hart
<1>3. IoBefore
  BY <1>1 DEF SysInv, IoBefore, Accepted
<1>4. IoOutcome
  BY <1>1, <1>3, IoEdgeOutcome
<1>5. PathTypeOK'
  <2>1. PathTypeOK
    BY DEF SysInv
  <2> QED BY <1>1, <1>4, <2>1 DEF PathTypeOK, IoOutcome, IoTypeOK
<1>6. InService(iCtl) /\ InService(dCtl)
  BY Zenon DEF SysInv, CachesOK, ICacheOK, DCacheOK, CacheOK
<1>7. Arbitration'
  <2>1. Owner' = Owner /\ Owner \in {0, 1}
    BY <1>2 DEF Owner
  <2>2. (iCore'.req \/ dCore'.req) => iCtl.state = "normal" /\ dCtl.state = "normal"
    BY <1>2, <1>6, CacheAtRest
  <2>3. Transferring(iCtl) => Owner = 0
    BY <1>6, CacheAtRest DEF Transferring, Owner
  <2>4. Transferring(dCtl) => Owner = 1 /\ iCtl.done
    <3>1. Transferring(dCtl) => iCtl.done
      BY DEF SysInv, Arbitration
    <3> QED BY <3>1 DEF Owner
  <2> QED BY <1>1, <1>2, <2>1, <2>2, <2>3, <2>4 DEF Arbitration, Transferring
<1>8. Gated' /\ Accepted'
  BY <1>1 DEF Gated, Accepted
<1>9. IoReady'
  BY <1>4 DEF IoOutcome
<1>10. NumbersOK /\ NumbersOK' /\ W \in Nat
  <2>1. CachesOK /\ PathTypeOK
    BY DEF SysInv
  <2> QED BY <1>2, <1>5, <2>1, Numbers, NumbersNext, Constants
<1>11. ReadBalance'
  <2>1. Need(iCtl) + Need(dCtl) = AskedToRead + ToRead(io) + Len(io.tx) + Len(rx)
    <3>1. /\ At(270, Acked(iOut) + Acked(dOut)) = 0 /\ At(270, Asked(iOut) + Asked(dOut)) = 0
          /\ At(0, AskedToRead) = AskedToRead /\ At(90, Sends(io)) = 0
      BY <1>1 DEF At
    <3>2. Need(iCtl) + Need(dCtl) + 0 =
            0 + AskedToRead + ToRead(io) + Len(io.tx) + 0 + Len(rx)
      BY <3>1 DEF SysInv, ReadBalance
    <3>3. /\ Need(iCtl) \in Nat /\ Need(dCtl) \in Nat /\ AskedToRead \in Nat
          /\ ToRead(io) \in Nat /\ Len(io.tx) \in Nat /\ Len(rx) \in Nat
      BY <1>10 DEF NumbersOK
    <3> QED BY <3>2, <3>3
  <2>2. ToRead(io') + Len(io'.tx) + Sends(io') = AskedToRead + ToRead(io) + Len(io.tx)
    BY <1>4 DEF IoOutcome
  <2>3. Need(iCtl') + Need(dCtl') = ToRead(io') + Len(io'.tx) + Sends(io') + Len(rx')
    BY <1>1, <1>2, <1>10, <2>1, <2>2 DEF NumbersOK
  <2>4. Need(iCtl') + Need(dCtl') <= W
    BY <1>2, <1>10, OneWaits DEF NumbersOK, SysInv
  <2>5. /\ At(270, Acked(iOut) + Acked(dOut))' = 0 /\ At(270, Asked(iOut) + Asked(dOut))' = 0
        /\ At(0, AskedToRead)' = 0 /\ At(90, Sends(io))' = Sends(io')
    BY <1>1 DEF At
  <2>6. /\ Need(iCtl') + Need(dCtl') + 0 =
             0 + 0 + ToRead(io') + Len(io'.tx) + Sends(io') + Len(rx')
        /\ Len(io'.tx) + Sends(io') + Len(rx') <= W
    <3>1. /\ ToRead(io') \in Nat /\ Len(io'.tx) \in Nat /\ Sends(io') \in Nat
          /\ Len(rx') \in Nat /\ Need(iCtl') \in Nat /\ Need(dCtl') \in Nat
      BY <1>10, SMTT(30) DEF NumbersOK
    <3> QED BY <1>10, <2>3, <2>4, <3>1
  <2> QED BY <2>5, <2>6 DEF ReadBalance
<1>12. PushBalance'
  <2>1. UNCHANGED <<tx, dCtl, dOut>> /\ clk # 270 /\ clk' # 270
    BY <1>1, <1>2
  <2> QED BY <2>1 DEF SysInv, PushBalance, Announced, At
<1>13. WriteBalance'
  <2>1. AskedToWrite + ToWrite(io) = Len(io.rx) + Taken + tx.left /\ tx.left <= W
    BY <1>1 DEF SysInv, WriteBalance, At
  <2>2. ToWrite(io') + Len(io.rx) + Taken = AskedToWrite + ToWrite(io) + Len(io'.rx)
    BY <1>4 DEF IoOutcome
  <2>3. ToWrite(io') = Len(io'.rx) + tx.left
    <3>1. /\ ToWrite(io') \in Nat /\ ToWrite(io) \in Nat /\ Len(io.rx) \in Nat
          /\ Len(io'.rx) \in Nat /\ Taken \in Nat /\ tx.left \in Nat
          /\ AskedToWrite \in Nat
      BY <1>10 DEF NumbersOK
    <3>2. AskedToWrite + ToWrite(io) = Len(io.rx) + Taken + tx.left
      BY <2>1
    <3>3. ToWrite(io') + Len(io.rx) + Taken = Len(io.rx) + Taken + tx.left + Len(io'.rx)
      BY <2>2, <3>2
    <3> QED BY <3>1, <3>3, SMTT(30)
  <2>4. At(0, AskedToWrite)' = 0 /\ At(0, Taken)' = 0 /\ tx' = tx
    BY <1>1 DEF At
  <2>5. 0 + ToWrite(io') = Len(io'.rx) + 0 + tx.left
    BY <1>10, <2>3 DEF NumbersOK
  <2> QED BY <2>1, <2>4, <2>5 DEF WriteBalance
<1> QED BY <1>1, <1>2, <1>5, <1>7, <1>8, <1>9, <1>11, <1>12, <1>13 DEF SysInv

\* Edges that leave the caches alone.
LEMMA CachesRest ==
  ASSUME CachesOK, UNCHANGED <<iVars, dVars>>
  PROVE  CachesOK'
<1>1. UNCHANGED <<iCore, iCtl, iDirty, iOut, iTag, iMem, dCore, dCtl, dDirty, dOut, dTag, dMem>>
  BY DEF iVars, dVars
<1> QED BY <1>1, Zenon DEF CachesOK, ICacheOK, DCacheOK, CacheOK, ReadOnly

\* 90 degrees: a word from the memory reaches the buffer.
LEMMA ReceiveEdge ==
  ASSUME SysInv, Edge90
  PROVE  SysInv'
<1>1. /\ clk = 90 /\ clk' = 180 /\ UNCHANGED <<iVars, dVars, mem_access>>
      /\ UNCHANGED <<tx, bus, io, ddr3, ddr>>
      /\ rx' = IF io.valid THEN Append(rx, io.data) ELSE rx
  BY DEF Edge90, P!RxEdge
<1>2. CachesOK' /\ UNCHANGED <<iCore, iCtl, iOut, dCore, dCtl, dOut>>
  BY <1>1, CachesRest DEF SysInv, iVars, dVars
<1>3. rx' \in Seq(Data) /\ Len(rx') = Len(rx) + Sends(io)
  <2>1. rx \in Seq(Data) /\ (io.valid => io.data \in Data) /\ Len(rx) \in Nat
    BY DEF SysInv, PathTypeOK
  <2>2. CASE io.valid
    <3>1. rx' = Append(rx, io.data) /\ Sends(io) = 1
      BY <1>1, <2>2 DEF Sends
    <3> QED BY <2>1, <2>2, <3>1, AppendProperties
  <2>3. CASE ~io.valid
    BY <1>1, <2>1, <2>3 DEF Sends
  <2> QED BY <2>2, <2>3
<1>4. PathTypeOK'
  <2>1. PathTypeOK
    BY DEF SysInv
  <2> QED BY <1>1, <1>3, <2>1 DEF PathTypeOK
<1>5. Arbitration' /\ Gated' /\ Accepted' /\ IoReady'
  BY <1>1, <1>2 DEF SysInv, Arbitration, Owner, Transferring, Gated, Accepted, IoReady
<1>6. ReadBalance'
  <2>1. /\ At(270, Acked(iOut) + Acked(dOut)) = 0 /\ At(270, Asked(iOut) + Asked(dOut)) = 0
        /\ At(0, AskedToRead) = 0 /\ At(90, Sends(io)) = Sends(io)
    BY <1>1 DEF At
  <2>2. /\ Need(iCtl) + Need(dCtl) + 0 =
             0 + 0 + ToRead(io) + Len(io.tx) + Sends(io) + Len(rx)
        /\ Len(io.tx) + Sends(io) + Len(rx) <= W
    BY <2>1 DEF SysInv, ReadBalance
  <2>3. /\ Need(iCtl) \in Nat /\ Need(dCtl) \in Nat /\ ToRead(io) \in Nat
        /\ Len(io.tx) \in Nat /\ Sends(io) \in Nat /\ Len(rx) \in Nat /\ W \in Nat
    BY Numbers, Constants DEF SysInv, NumbersOK
  <2>4. /\ Need(iCtl) + Need(dCtl) + 0 =
             0 + 0 + ToRead(io) + Len(io.tx) + 0 + Len(rx')
        /\ Len(io.tx) + 0 + Len(rx') <= W
    <3>1. Len(rx') = Len(rx) + Sends(io)
      BY <1>3
    <3>2. Need(iCtl) + Need(dCtl) = ToRead(io) + Len(io.tx) + (Len(rx) + Sends(io))
      BY <2>2, <2>3
    <3>3. Len(io.tx) + (Len(rx) + Sends(io)) <= W
      BY <2>2, <2>3
    <3> QED BY <2>3, <3>1, <3>2, <3>3
  <2>5. /\ At(270, Acked(iOut) + Acked(dOut))' = 0 /\ At(270, Asked(iOut) + Asked(dOut))' = 0
        /\ At(0, AskedToRead)' = 0 /\ At(90, Sends(io))' = 0
    BY <1>1 DEF At
  <2> QED BY <1>1, <1>2, <2>4, <2>5, ZenonT(30) DEF ReadBalance
<1>7. PushBalance'
  BY <1>1, <1>2 DEF SysInv, PushBalance, Announced, At
<1>8. WriteBalance'
  <2>1. At(0, AskedToWrite) = 0 /\ At(0, Taken) = 0 /\ At(0, AskedToWrite)' = 0 /\ At(0, Taken)' = 0
    BY <1>1 DEF At
  <2> QED BY <1>1, <2>1 DEF SysInv, WriteBalance
<1> QED BY <1>1, <1>2, <1>4, <1>5, <1>6, <1>7, <1>8 DEF SysInv

\* The DDR3 controller steps only while it works, and the memory is not ready then.
LEMMA DdrEdge ==
  ASSUME SysInv, Ddr
  PROVE  SysInv'
<1>1. UNCHANGED <<clk, iVars, dVars, mem_access>> /\ UNCHANGED <<tx, bus, rx, clear, io, ddr>>
  BY DEF Ddr, P!DdrStep
<1>2. ddr3 # "free"
  BY DEF Ddr, P!DdrStep, P!DdrAnswers, P!DdrWritten
<1>3. CachesOK' /\ UNCHANGED <<iCore, iCtl, iOut, dCore, dCtl, dOut>>
  BY <1>1, CachesRest DEF SysInv, iVars, dVars
<1>4. PathTypeOK'
  BY <1>1 DEF SysInv, PathTypeOK, P!WordOnBus
<1>5. Arbitration' /\ Gated' /\ Accepted'
  BY <1>1, <1>3 DEF SysInv, Arbitration, Owner, Transferring, Gated, Requests, Strobe, Accepted
<1>6. IoReady'
  BY <1>1, <1>2 DEF SysInv, IoReady
<1>7. ReadBalance'
  BY <1>1, <1>3 DEF SysInv, ReadBalance, At, AskedToRead
<1>8. PushBalance' /\ WriteBalance'
  BY <1>1, <1>3 DEF SysInv, PushBalance, WriteBalance, Announced, At, AskedToWrite, Taken, P!WordOnBus
<1> QED BY <1>1, <1>3, <1>4, <1>5, <1>6, <1>7, <1>8 DEF SysInv

-----------------------------------------------------------------------------
(* An edge of a controller, in the terms of the invariant.                   *)

\* A word that comes is one that the cache no longer waits for; a read adds
\* those of a block.
LEMMA NeedStep ==
  ASSUME NEW L, NEW core, NEW c \in CtlType(L), NEW dirty2,
         NEW mready, NEW wready, NEW rready, NEW c2, NEW o2, InService(c),
         Outcome(L, core, c, mready, wready, rready, c2, dirty2, o2)
  PROVE  Need(c2) + Acked(o2) = Need(c) + Asked(o2)
<1>1. W \in Nat /\ c.nTransfer \in 0 .. W - 1 /\ NoBlock \notin Block
  BY Constants DEF CtlType
<1>2. Effect(c, Active(core, c), mready, wready, rready, c2, o2)
  BY DEF Outcome
<1>3. CASE Serves(c, Active(core, c), mready, c2, o2)
  BY <1>1, <1>3 DEF Serves, NoTransfer, Need, Acked, Asked, Transferring
<1>4. CASE Requesting(c, mready, c2, o2)
  BY <1>1, <1>4 DEF Requesting, Need, Acked, Asked, Transferring
<1>5. CASE Replacing(c, mready, c2, o2)
  <2>1. c2.nTransfer = 0 /\ c2.state \in {"writeBuffer", "readBuffer"}
        /\ c.state = "waitReplacement" /\ Acked(o2) = 0 /\ Asked(o2) = 0
    BY <1>5 DEF Replacing, InService, SameService, NoTransfer, Acked, Asked
  <2>2. Need(c2) = W /\ Need(c) = W
    BY <1>1, <2>1 DEF Need, Transferring
  <2> QED BY <1>1, <2>1, <2>2
<1>6. CASE Pushing(c, mready, wready, c2, o2)
  <2>1. /\ c.state = "writeBuffer" /\ Acked(o2) = 0 /\ Asked(o2) = 0
        /\ c2.state = "writeBuffer" \/ (c2.state = "readBuffer" /\ c2.nTransfer = 0)
    BY <1>6 DEF Pushing, Moved, Acked, Asked
  <2>2. Need(c2) = W /\ Need(c) = W
    BY <1>1, <2>1 DEF Need, Transferring
  <2> QED BY <1>1, <2>1, <2>2
<1>7. CASE Filling(c, mready, rready, c2, o2)
  <2>1. /\ c.state = "readBuffer" /\ Acked(o2) = 1 /\ Asked(o2) = 0
    BY <1>7 DEF Filling, Acked, Asked
  <2>2. Need(c) = W - c.nTransfer
    BY <2>1 DEF Need
  <2>3. Need(c2) = W - c.nTransfer - 1
    <3>1. CASE c.nTransfer = W - 1
      <4>1. c2.state = "normal"
        BY <1>7, <3>1 DEF Filling, Moved
      <4> QED BY <1>1, <3>1, <4>1 DEF Need, Transferring
    <3>2. CASE c.nTransfer # W - 1
      <4>1. c2.state = "readBuffer" /\ c2.nTransfer = c.nTransfer + 1
        BY <1>7, <3>2 DEF Filling, Moved
      <4> QED BY <1>1, <4>1 DEF Need
    <3> QED BY <3>1, <3>2
  <2> QED BY <1>1, <2>1, <2>2, <2>3
<1>8. CASE Waiting(c, Active(core, c), mready, c2, o2)
  <2>1. /\ c2.state = c.state /\ c2.nTransfer = c.nTransfer
        /\ Acked(o2) = 0 /\ Asked(o2) = 0
    BY <1>8 DEF Waiting, SameService, NoTransfer, Acked, Asked
  <2>2. Need(c2) = Need(c)
    BY <2>1 DEF Need, Transferring
  <2> QED BY <2>1, <2>2
<1> QED BY <1>2, <1>3, <1>4, <1>5, <1>6, <1>7, <1>8 DEF Effect

\* When a controller raises which strobe, and when it starts a transfer.
LEMMA StrobeFacts ==
  ASSUME NEW L, NEW core, NEW c, NEW dirty2,
         NEW mready, NEW wready, NEW rready, NEW c2, NEW o2,
         Outcome(L, core, c, mready, wready, rready, c2, dirty2, o2)
  PROVE  /\ o2.read # NoBlock => mready /\ c.state = "waitReady"
         /\ o2.write # NoBlock => mready /\ o2.read = NoBlock /\ ~c2.writebackFlag
         /\ o2.push # NoWord => wready
         /\ o2.ack => rready
         /\ Transferring(c2) => Transferring(c) \/ (c.state = "waitReady" /\ mready)
         /\ ~Active(core, c) /\ c.state = "normal" => c2.done = c.done
<1>1. Effect(c, Active(core, c), mready, wready, rready, c2, o2)
  BY Zenon DEF Outcome
<1> USE DEF Transferring
<1>2. CASE Serves(c, Active(core, c), mready, c2, o2)
  BY <1>2 DEF Serves, NoTransfer, WritesBack
<1>3. CASE Requesting(c, mready, c2, o2)
  BY <1>3 DEF Requesting
<1>4. CASE Replacing(c, mready, c2, o2)
  BY <1>4 DEF Replacing, NoTransfer, WritesBack
<1>5. CASE Pushing(c, mready, wready, c2, o2)
  BY <1>5 DEF Pushing, WritesBack
<1>6. CASE Filling(c, mready, rready, c2, o2)
  BY <1>6 DEF Filling, WritesBack
<1>7. CASE Waiting(c, Active(core, c), mready, c2, o2)
  BY <1>7 DEF Waiting, NoTransfer, WritesBack, SameService
<1> QED BY <1>1, <1>2, <1>3, <1>4, <1>5, <1>6, <1>7 DEF Effect

\* A write-back is announced with its first word and until the buffer has its
\* length; left and n are what the buffer has to send and what it holds.
LEMMA PushStep ==
  ASSUME NEW L, NEW core, NEW c \in CtlType(L), NEW dirty2,
         NEW mready, NEW wready, NEW rready, NEW c2, NEW o2, InService(c),
         Outcome(L, core, c, mready, wready, rready, c2, dirty2, o2),
         NEW left \in Nat, NEW n \in Nat,
         (IF c.writebackFlag THEN W ELSE left) = n + ToPush(c),
         c.writebackFlag => left = 0,
         c.state = "waitReplacement" \/ (c.state = "writeBuffer" /\ c.nTransfer = 0)
           => ~c.writebackFlag /\ left = 0,
         c.state = "waitReady" /\ mready => left = 0
  PROVE  LET announced == c2.writebackFlag \/ o2.write # NoBlock
         IN  /\ (IF announced THEN W ELSE left) = n + Pushes(o2) + ToPush(c2)
             /\ announced => left = 0
             /\ c2.state = "waitReplacement" \/ (c2.state = "writeBuffer" /\ c2.nTransfer = 0)
                  => ~announced /\ left = 0
<1> DEFINE announced == c2.writebackFlag \/ o2.write # NoBlock
<1>0. /\ W \in Nat /\ W >= 2 /\ c.nTransfer \in 0 .. W - 1 /\ NoBlock \notin Block
      /\ NoWord \notin Data
  BY Constants DEF CtlType
<1>1. Effect(c, Active(core, c), mready, wready, rready, c2, o2)
  BY DEF Outcome
<1>2. CASE Serves(c, Active(core, c), mready, c2, o2)
  <2>1. /\ announced <=> c.writebackFlag
        /\ Pushes(o2) = 0 /\ ToPush(c) = 0 /\ ToPush(c2) = 0
        /\ c2.state \in {"normal", "waitReady"}
    BY <1>0, <1>2 DEF Serves, NoTransfer, WritesBack, Pushes, ToPush
  <2> HIDE DEF announced
  <2> QED BY <1>0, <2>1 DEF announced
<1>3. CASE Requesting(c, mready, c2, o2)
  <2>1. /\ ~announced /\ ~c.writebackFlag /\ left = 0
        /\ Pushes(o2) = 0 /\ ToPush(c) = 0 /\ ToPush(c2) = 0
    BY <1>0, <1>3 DEF Requesting, Pushes, ToPush
  <2> HIDE DEF announced
  <2> QED BY <1>0, <2>1 DEF announced
<1>4. CASE Replacing(c, mready, c2, o2)
  <2>1. /\ c.state = "waitReplacement" /\ ~announced /\ ~c.writebackFlag /\ left = 0
        /\ Pushes(o2) = 0 /\ ToPush(c) = 0 /\ c2.nTransfer = 0
    BY <1>0, <1>4 DEF Replacing, NoTransfer, SameService, WritesBack, InService, Pushes, ToPush
  <2>2. ToPush(c2) = 0
    BY <2>1 DEF ToPush
  <2> HIDE DEF announced
  <2> QED BY <1>0, <2>1, <2>2 DEF announced
<1>5. CASE Pushing(c, mready, wready, c2, o2)
  <2>1. Pushes(o2) = 1 /\ c.state = "writeBuffer" /\ Moved(c, c2, "readBuffer")
    BY <1>0, <1>5 DEF Pushing, Pushes
  <2>2. announced <=> c.nTransfer = 0 \/ c.writebackFlag
    BY <1>0, <1>5 DEF Pushing, WritesBack
  <2> HIDE DEF announced
  <2>3. CASE c.nTransfer = 0
    <3>1. announced /\ ~c.writebackFlag /\ left = 0 /\ ToPush(c) = 0
      BY <2>1, <2>2, <2>3 DEF ToPush
    <3>2. n = 0
      BY <3>1
    <3>3. c2.nTransfer = 1 /\ c2.state = "writeBuffer"
      BY <1>0, <2>1, <2>3 DEF Moved
    <3>4. ToPush(c2) = W - 1
      BY <3>3 DEF ToPush
    <3>5. W = n + Pushes(o2) + ToPush(c2)
      BY <1>0, <2>1, <3>2, <3>4
    <3> QED BY <3>1, <3>3, <3>5 DEF announced
  <2>4. CASE c.nTransfer # 0
    <3>1. ToPush(c) = W - c.nTransfer /\ (announced <=> c.writebackFlag)
      BY <2>1, <2>2, <2>4 DEF ToPush
    <3>2. /\ ToPush(c2) = W - c.nTransfer - 1
          /\ c2.nTransfer # 0 \/ c2.state = "readBuffer"
          /\ c2.state \in {"readBuffer", "writeBuffer"}
      <4>1. CASE c.nTransfer = W - 1
        <5>1. c2.state = "readBuffer"
          BY <2>1, <4>1 DEF Moved
        <5> QED BY <1>0, <4>1, <5>1 DEF ToPush
      <4>2. CASE c.nTransfer # W - 1
        <5>1. c2.state = "writeBuffer" /\ c2.nTransfer = c.nTransfer + 1
          BY <2>1, <4>2 DEF Moved
        <5>2. c2.nTransfer # 0
          BY <1>0, <5>1
        <5> QED BY <1>0, <5>1, <5>2 DEF ToPush
      <4> QED BY <4>1, <4>2
    <3>3. n + ToPush(c) = n + Pushes(o2) + ToPush(c2)
      BY <1>0, <2>1, <3>1, <3>2
    <3> QED BY <3>1, <3>2, <3>3 DEF announced
  <2> QED BY <2>3, <2>4
<1>6. CASE Filling(c, mready, rready, c2, o2)
  <2>1. /\ announced <=> c.writebackFlag
        /\ c2.state \in {"readBuffer", "normal"} /\ c.state = "readBuffer"
        /\ Pushes(o2) = 0
    BY <1>0, <1>6 DEF Filling, Moved, WritesBack, Pushes
  <2>2. ToPush(c) = 0 /\ ToPush(c2) = 0
    BY <2>1 DEF ToPush
  <2> HIDE DEF announced
  <2> QED BY <1>0, <2>1, <2>2 DEF announced
<1>7. CASE Waiting(c, Active(core, c), mready, c2, o2)
  <2>1. /\ announced <=> c.writebackFlag
        /\ c2.state = c.state /\ c2.nTransfer = c.nTransfer /\ Pushes(o2) = 0
    BY <1>0, <1>7 DEF Waiting, SameService, NoTransfer, WritesBack, Pushes
  <2>2. ToPush(c2) = ToPush(c) /\ ToPush(c) \in Nat
    BY <1>0, <2>1 DEF ToPush
  <2> HIDE DEF announced
  <2> QED BY <1>0, <2>1, <2>2 DEF announced
<1> QED BY <1>1, <1>2, <1>3, <1>4, <1>5, <1>6, <1>7 DEF Effect

\* 180 degrees: both controllers step, and the path waits.
LEMMA ControllersEdge ==
  ASSUME SysInv, Edge180
  PROVE  SysInv'
<1> DEFINE im == Ready(0, io.ready)
           iw == Ready(0, Len(tx.fifo) < W)
           ir == Ready(0, rx # <<>>)
           dm == Ready(1, io.ready)
           dw == Ready(1, Len(tx.fifo) < W)
           dr == Ready(1, rx # <<>>)
           IStep == Outcome(ILine, iCore, iCtl, im, iw, ir, iCtl', iDirty', iOut')
           DStep == Outcome(DLine, dCore, dCtl, dm, dw, dr, dCtl', dDirty', dOut')
<1>1. /\ clk = 180 /\ clk' = 270 /\ UNCHANGED mem_access
      /\ UNCHANGED <<tx, bus, rx, clear, io, ddr3, ddr>>
  BY DEF Edge180, pathVars
<1>2. rx # <<>> => FromBuffer \in Data
  <2>1. rx \in Seq(Data)
    BY DEF SysInv, PathTypeOK
  <2> QED BY <2>1, HeadTailProperties DEF FromBuffer
<1>3. ICacheOK' /\ ReadOnly' /\ iCore' = iCore /\ IStep
  <2>1. PICK v \in I!Victim \ {NoLine} : I!ControllerEdge(im, iw, ir, FromBuffer, v)
    BY DEF Edge180
  <2>2. ICacheOK /\ ReadOnly /\ (ir => FromBuffer \in Data)
    BY <1>2 DEF SysInv, CachesOK, Ready
  <2> HIDE DEF im, iw, ir
  <2> QED BY <2>1, <2>2, InstEdge
<1>4. DCacheOK' /\ dCore' = dCore /\ DStep
  <2>1. PICK v \in D!Victim \ {NoLine} : D!ControllerEdge(dm, dw, dr, FromBuffer, v)
    BY DEF Edge180
  <2>2. DCacheOK /\ (dr => FromBuffer \in Data)
    BY <1>2 DEF SysInv, CachesOK, Ready
  <2> HIDE DEF dm, dw, dr
  <2> QED BY <2>1, <2>2, DataEdge
<1>5. /\ im => mem_access = 0 /\ io.ready
      /\ iw => mem_access = 0
      /\ ir => mem_access = 0 /\ rx # <<>>
      /\ dm => mem_access = 1 /\ io.ready
      /\ dw => mem_access = 1
      /\ dr => mem_access = 1 /\ rx # <<>>
  BY DEF Ready
<1> HIDE DEF im, iw, ir, dm, dw, dr
<1>6. /\ iOut'.read # NoBlock => im /\ iCtl.state = "waitReady"
      /\ iOut'.write # NoBlock => im /\ iOut'.read = NoBlock /\ ~iCtl'.writebackFlag
      /\ iOut'.push # NoWord => iw
      /\ iOut'.ack => ir
      /\ Transferring(iCtl') => Transferring(iCtl) \/ (iCtl.state = "waitReady" /\ im)
      /\ ~Active(iCore, iCtl) /\ iCtl.state = "normal" => iCtl'.done = iCtl.done
  BY <1>3, StrobeFacts
<1>7. /\ dOut'.read # NoBlock => dm /\ dCtl.state = "waitReady"
      /\ dOut'.write # NoBlock => dm /\ dOut'.read = NoBlock /\ ~dCtl'.writebackFlag
      /\ dOut'.push # NoWord => dw
      /\ dOut'.ack => dr
      /\ Transferring(dCtl') => Transferring(dCtl) \/ (dCtl.state = "waitReady" /\ dm)
      /\ ~Active(dCore, dCtl) /\ dCtl.state = "normal" => dCtl'.done = dCtl.done
  BY <1>4, StrobeFacts
<1>8. /\ InService(iCtl) /\ InService(dCtl)
      /\ iCtl \in CtlType(ILine) /\ dCtl \in CtlType(DLine)
  BY Zenon DEF SysInv, CachesOK, ICacheOK, DCacheOK, CacheOK
<1>9. /\ CachesOK /\ PathTypeOK /\ Arbitration /\ IoReady
      /\ ReadBalance /\ PushBalance /\ WriteBalance
  BY DEF SysInv
<1>10. CachesOK' /\ PathTypeOK'
  <2>1. CachesOK'
    BY <1>3, <1>4 DEF CachesOK
  <2> QED BY <1>1, <1>9, <2>1 DEF PathTypeOK, P!WordOnBus
<1>11. NumbersOK /\ NumbersOK' /\ W \in Nat
  BY <1>9, <1>10, Numbers, NumbersNext, Constants
<1>12. Arbitration'
  <2>1. Transferring(iCtl') => mem_access = 0
    BY <1>5, <1>6, <1>9 DEF Arbitration
  <2>2. Transferring(dCtl') => mem_access = 1 /\ iCtl.done /\ dCtl.state # "normal"
    BY <1>1, <1>5, <1>7, <1>9 DEF Arbitration, Owner, Transferring
  <2>3. dCtl.state # "normal" /\ iCtl.done => iCtl'.done
    BY <1>1, <1>6, <1>8, <1>9, CacheAtRest DEF Arbitration, Active
  <2> QED BY <1>1, <1>9, <2>1, <2>2, <2>3 DEF Arbitration
<1>13. IoReady' /\ Accepted'
  BY <1>1, <1>9 DEF IoReady, Accepted
<1>14. Need(iCtl) + Need(dCtl) = ToRead(io) + Len(io.tx) + Len(rx)
  <2>1. /\ At(270, Acked(iOut) + Acked(dOut)) = 0 /\ At(270, Asked(iOut) + Asked(dOut)) = 0
        /\ At(0, AskedToRead) = 0 /\ At(90, Sends(io)) = 0
    BY <1>1 DEF At
  <2>2. Need(iCtl) + Need(dCtl) + 0 =
          0 + 0 + ToRead(io) + Len(io.tx) + 0 + Len(rx)
    BY <1>9, <2>1 DEF ReadBalance
  <2>3. /\ Need(iCtl) \in Nat /\ Need(dCtl) \in Nat /\ ToRead(io) \in Nat
        /\ Len(io.tx) \in Nat /\ Len(rx) \in Nat
    BY <1>11 DEF NumbersOK
  <2> QED BY <2>2, <2>3
<1>15. Gated'
  <2>1. iOut'.read # NoBlock \/ dOut'.read # NoBlock => rx = <<>>
    <3>1. iOut'.read # NoBlock \/ dOut'.read # NoBlock => Need(iCtl) = 0 /\ Need(dCtl) = 0
      BY <1>5, <1>6, <1>7, <1>9 DEF Arbitration, Need, Transferring
    <3>2. rx \in Seq(Data) /\ Len(rx) \in Nat /\ ToRead(io) \in Nat /\ Len(io.tx) \in Nat
      BY <1>9, <1>11 DEF PathTypeOK, NumbersOK
    <3>3. Need(iCtl) = 0 /\ Need(dCtl) = 0 => Len(rx) = 0
      BY <1>14, <3>2
    <3> QED BY <3>1, <3>2, <3>3, EmptySeq
  <2> QED BY <1>1, <1>5, <1>6, <1>7, <2>1 DEF Gated, Strobe, Requests
<1>16. ReadBalance'
  <2>1. /\ Need(iCtl') + Acked(iOut') = Need(iCtl) + Asked(iOut')
        /\ Need(dCtl') + Acked(dOut') = Need(dCtl) + Asked(dOut')
    BY <1>3, <1>4, <1>8, NeedStep
  <2>2. /\ At(270, Acked(iOut) + Acked(dOut))' = Acked(iOut') + Acked(dOut')
        /\ At(270, Asked(iOut) + Asked(dOut))' = Asked(iOut') + Asked(dOut')
        /\ At(0, AskedToRead)' = 0 /\ At(90, Sends(io))' = 0
    BY <1>1 DEF At
  <2>3. /\ Need(iCtl) \in Nat /\ Need(dCtl) \in Nat /\ ToRead(io) \in Nat
        /\ Len(io.tx) \in Nat /\ Len(rx) \in Nat
        /\ Need(iCtl') \in Nat /\ Need(dCtl') \in Nat
        /\ Acked(iOut') \in Nat /\ Acked(dOut') \in Nat
        /\ Asked(iOut') \in Nat /\ Asked(dOut') \in Nat
    <3>1. /\ Need(iCtl) \in Nat /\ Need(dCtl) \in Nat /\ ToRead(io) \in Nat
          /\ Len(io.tx) \in Nat /\ Len(rx) \in Nat
      BY <1>11 DEF NumbersOK
    <3>2. Need(iCtl') \in 0 .. W /\ Need(dCtl') \in 0 .. W
      BY <1>11, Zenon DEF NumbersOK
    <3>3. Acked(iOut') \in {0, 1} /\ Acked(dOut') \in {0, 1}
      BY <1>11, Zenon DEF NumbersOK
    <3>4. Asked(iOut') \in {0, W} /\ Asked(dOut') \in {0, W}
      BY <1>11, Zenon DEF NumbersOK
    <3> QED BY <1>11, <3>1, <3>2, <3>3, <3>4
  <2>4. Need(iCtl') + Need(dCtl') + (Acked(iOut') + Acked(dOut')) =
          (Asked(iOut') + Asked(dOut')) + (Need(iCtl) + Need(dCtl))
    <3>1. Need(iCtl') + Acked(iOut') + (Need(dCtl') + Acked(dOut')) =
            Need(iCtl) + Asked(iOut') + (Need(dCtl) + Asked(dOut'))
      BY <2>1
    <3>2. Need(iCtl') + Acked(iOut') + (Need(dCtl') + Acked(dOut')) =
            Need(iCtl') + Need(dCtl') + (Acked(iOut') + Acked(dOut'))
      BY <2>3
    <3>3. Need(iCtl) + Asked(iOut') + (Need(dCtl) + Asked(dOut')) =
            (Asked(iOut') + Asked(dOut')) + (Need(iCtl) + Need(dCtl))
      BY <2>3
    <3> QED BY <3>1, <3>2, <3>3
  <2>5. Need(iCtl') + Need(dCtl') + (Acked(iOut') + Acked(dOut')) =
          (Asked(iOut') + Asked(dOut')) + 0 + ToRead(io) + Len(io.tx) + 0 + Len(rx)
    <3>1. (Asked(iOut') + Asked(dOut')) + (ToRead(io) + Len(io.tx) + Len(rx)) =
            (Asked(iOut') + Asked(dOut')) + 0 + ToRead(io) + Len(io.tx) + 0 + Len(rx)
      BY <2>3
    <3>2. Need(iCtl') + Need(dCtl') + (Acked(iOut') + Acked(dOut')) =
            (Asked(iOut') + Asked(dOut')) + (ToRead(io) + Len(io.tx) + Len(rx))
      BY <1>14, <2>4, Zenon
    <3> QED BY <3>1, <3>2, Zenon
  <2>6. Len(io.tx) + 0 + Len(rx) <= W
    BY <1>1, <1>9 DEF ReadBalance, At
  <2> QED BY <1>1, <2>2, <2>5, <2>6 DEF ReadBalance
<1>17. PushBalance'
  <2>1. dCtl.state = "waitReady" /\ dm => tx.left = 0
    <3>1. At(0, AskedToWrite) = 0 /\ At(0, Taken) = 0
      BY <1>1 DEF At
    <3>2. 0 + ToWrite(io) = Len(io.rx) + 0 + tx.left
      BY <1>9, <3>1 DEF WriteBalance
    <3>3. dm => ToWrite(io) = 0
      BY <1>5, <1>9 DEF IoReady, ToWrite
    <3>4. Len(io.rx) \in Nat /\ tx.left \in Nat /\ ToWrite(io) \in Nat
      BY <1>11 DEF NumbersOK
    <3> QED BY <3>2, <3>3, <3>4
  <2>2. /\ (IF dCtl.writebackFlag THEN W ELSE tx.left) = Len(tx.fifo) + ToPush(dCtl)
        /\ dCtl.writebackFlag => tx.left = 0
        /\ dCtl.state = "waitReplacement" \/ (dCtl.state = "writeBuffer" /\ dCtl.nTransfer = 0)
             => ~dCtl.writebackFlag /\ tx.left = 0
    <3>1. At(270, Pushes(dOut)) = 0 /\ (Announced <=> dCtl.writebackFlag)
      BY <1>1 DEF At, Announced
    <3>2. Len(tx.fifo) + 0 + ToPush(dCtl) = Len(tx.fifo) + ToPush(dCtl)
      BY <1>11 DEF NumbersOK
    <3> QED BY <1>9, <3>1, <3>2 DEF PushBalance
  <2>3. tx.left \in Nat /\ Len(tx.fifo) \in Nat
    BY <1>11 DEF NumbersOK
  <2> DEFINE announced == dCtl'.writebackFlag \/ dOut'.write # NoBlock
  <2>4. /\ (IF announced THEN W ELSE tx.left) = Len(tx.fifo) + Pushes(dOut') + ToPush(dCtl')
        /\ announced => tx.left = 0
        /\ dCtl'.state = "waitReplacement" \/ (dCtl'.state = "writeBuffer" /\ dCtl'.nTransfer = 0)
             => ~announced /\ tx.left = 0
    BY <1>4, <1>8, <2>1, <2>2, <2>3, PushStep
  <2>5. (Announced' <=> announced) /\ At(270, Pushes(dOut))' = Pushes(dOut')
    BY <1>1 DEF At, Announced
  <2> HIDE DEF announced
  <2> QED BY <1>1, <2>4, <2>5 DEF PushBalance
<1>18. WriteBalance'
  BY <1>1, <1>9 DEF WriteBalance, At, AskedToWrite, Taken, P!WordOnBus
<1> QED BY <1>1, <1>10, <1>12, <1>13, <1>15, <1>16, <1>17, <1>18 DEF SysInv

-----------------------------------------------------------------------------
(* The edge of the memories and of the buffer's sending side.                *)

\* The strobes that reach the buffer: those of the cache that has access.  The
\* other cache has none that is high.
Strobes == IF mem_access = 0 THEN iOut ELSE dOut

\* The owner's strobes are all that are high, and the path is ready for them.
LEMMA OwnersStrobes ==
  ASSUME SysInv, clk = 270
  PROVE  LET o == Strobes
         IN  /\ o \in OutType
             /\ o.write = dOut.write /\ o.push = dOut.push
             /\ Asked(iOut) + Asked(dOut) = Asked(o)
             /\ Acked(iOut) + Acked(dOut) = Acked(o)
             /\ Requests(o) => io.ready
             /\ o.ack => rx # <<>>
             /\ o.write # NoBlock => o.read = NoBlock /\ ~dCtl.writebackFlag
<1>1. /\ Strobe(iOut) => mem_access = 0
      /\ Strobe(dOut) => mem_access = 1
      /\ Requests(iOut) \/ Requests(dOut) => io.ready
      /\ iOut.ack \/ dOut.ack => rx # <<>>
      /\ dOut.write # NoBlock => dOut.read = NoBlock /\ ~dCtl.writebackFlag
  BY DEF SysInv, Gated
<1>2. /\ iOut \in OutType /\ dOut \in OutType
      /\ iOut.write = NoBlock /\ iOut.push = NoWord
  BY Zenon DEF SysInv, CachesOK, ICacheOK, DCacheOK, CacheOK, ReadOnly
<1>3. W \in Nat
  BY Constants
<1>4. CASE mem_access = 0
  <2>1. /\ dOut.read = NoBlock /\ dOut.write = NoBlock /\ dOut.push = NoWord /\ ~dOut.ack
    BY <1>1, <1>4 DEF Strobe, Requests
  <2>2. Strobes = iOut
    BY <1>4 DEF Strobes
  <2>3. Asked(iOut) + Asked(dOut) = Asked(iOut) /\ Acked(iOut) + Acked(dOut) = Acked(iOut)
    BY <1>3, <2>1 DEF Asked, Acked
  <2> QED BY <1>1, <1>2, <2>1, <2>2, <2>3
<1>5. CASE mem_access # 0
  <2>1. iOut.read = NoBlock /\ ~iOut.ack
    BY <1>1, <1>5 DEF Strobe, Requests
  <2>2. Strobes = dOut
    BY <1>5 DEF Strobes
  <2>3. Asked(iOut) + Asked(dOut) = Asked(dOut) /\ Acked(iOut) + Acked(dOut) = Acked(dOut)
    BY <1>3, <2>1 DEF Asked, Acked
  <2> QED BY <1>1, <1>2, <2>1, <2>2, <2>3
<1> QED BY <1>4, <1>5

\* What the buffer holds with the word that is pushed, and what it has to send
\* with the write that is requested.
Fifo == IF dOut.push = NoWord THEN tx.fifo ELSE Append(tx.fifo, dOut.push)
Left == IF dOut.write # NoBlock THEN W ELSE tx.left
SendsWord == Left > 0 /\ Fifo # <<>>
Sent01 == IF SendsWord THEN 1 ELSE 0

\* A write that is requested has its first word in the buffer, and a ready
\* memory has taken all words of the last one.
LEMMA BufferFacts ==
  ASSUME SysInv, clk = 270
  PROVE  /\ Fifo \in Seq(Data) /\ Left \in Nat
         /\ Len(Fifo) = Len(tx.fifo) + Pushes(dOut)
         /\ (IF Announced THEN W ELSE tx.left) = Len(Fifo) + ToPush(dCtl)
         /\ dOut.write # NoBlock => SendsWord /\ tx.left = 0 /\ Left = W
         /\ io.ready => tx.left = 0
<1>1. /\ tx.fifo \in Seq(Data) /\ tx.left \in Nat /\ dOut.push \in Data \cup {NoWord}
      /\ W \in Nat /\ W > 0 /\ Len(tx.fifo) \in Nat
  BY Constants DEF SysInv, PathTypeOK, CachesOK, DCacheOK, CacheOK, OutType
<1>2. Fifo \in Seq(Data) /\ Len(Fifo) = Len(tx.fifo) + Pushes(dOut)
  <2>1. CASE dOut.push = NoWord
    BY <1>1, <2>1 DEF Fifo, Pushes
  <2>2. CASE dOut.push # NoWord
    <3>1. Fifo = Append(tx.fifo, dOut.push) /\ Pushes(dOut) = 1 /\ dOut.push \in Data
      BY <1>1, <2>2 DEF Fifo, Pushes
    <3> QED BY <1>1, <3>1, AppendProperties
  <2> QED BY <2>1, <2>2
<1>3. Left \in Nat
  BY <1>1 DEF Left
<1>4. /\ (IF Announced THEN W ELSE tx.left) = Len(Fifo) + ToPush(dCtl)
      /\ Announced => tx.left = 0
  BY <1>2 DEF SysInv, PushBalance, At
<1>5. dOut.write # NoBlock => SendsWord /\ tx.left = 0 /\ Left = W
  <2> SUFFICES ASSUME dOut.write # NoBlock PROVE SendsWord /\ tx.left = 0 /\ Left = W
    OBVIOUS
  <2>1. W = Len(Fifo) + ToPush(dCtl) /\ tx.left = 0 /\ Left = W
    BY <1>4 DEF Announced, Left
  <2>2. ToPush(dCtl) # W /\ ToPush(dCtl) \in Nat
    <3>1. dCtl.nTransfer \in 0 .. W - 1
      BY Constants, Zenon DEF SysInv, CachesOK, DCacheOK, CacheOK, CtlType
    <3> QED BY <1>1, <3>1 DEF ToPush
  <2>3. Fifo # <<>>
    <3>1. Fifo = <<>> => Len(Fifo) = 0
      OBVIOUS
    <3>2. Len(Fifo) \in Nat
      BY <1>2
    <3> QED BY <1>1, <2>1, <2>2, <3>1, <3>2
  <2> QED BY <1>1, <2>1, <2>3 DEF SendsWord
<1>6. io.ready => tx.left = 0
  <2>1. ToWrite(io) = Len(io.rx) + tx.left /\ Len(io.rx) \in Nat /\ tx.left \in Nat
    <3>1. NumbersOK
      BY Numbers DEF SysInv
    <3>2. At(0, AskedToWrite) = 0 /\ At(0, Taken) = 0
      BY DEF At
    <3>3. 0 + ToWrite(io) = Len(io.rx) + 0 + tx.left
      BY <3>2 DEF SysInv, WriteBalance
    <3>4. Len(io.rx) \in Nat /\ tx.left \in Nat /\ ToWrite(io) \in Nat
      BY <3>1 DEF NumbersOK
    <3> QED BY <3>3, <3>4
  <2>2. io.ready => ToWrite(io) = 0
    BY DEF SysInv, IoReady, ToWrite
  <2> QED BY <2>1, <2>2
<1> QED BY <1>2, <1>3, <1>4, <1>5, <1>6

\* The edge itself.
LEMMA SendFacts ==
  ASSUME SysInv, Edge270
  PROVE  /\ clk = 270 /\ clk' = 0 /\ UNCHANGED <<mem_access, clear, io, ddr3, ddr>>
         /\ tx' = [fifo |-> IF SendsWord THEN Tail(Fifo) ELSE Fifo,
                   left |-> IF SendsWord THEN Left - 1 ELSE Left]
         /\ rx' = IF Strobes.ack THEN Tail(rx) ELSE rx
         /\ bus' \in BusType
         /\ bus'.req = Requests(Strobes)
         /\ bus'.req => bus'.block /\ bus'.add \in Block /\ bus'.rw = (dOut.write # NoBlock)
         /\ ~bus'.req => bus'.block = SendsWord /\ bus'.add = bus.add
         /\ bus'.req => bus'.add = IF dOut.write # NoBlock THEN dOut.write ELSE Strobes.read
         /\ SendsWord => bus'.data \in Data /\ bus'.data = Head(Fifo)
<1> DEFINE o == Strobes
           req == io.ready /\ (o.read # NoBlock \/ o.write # NoBlock)
           rw == o.write # NoBlock
<1>1. /\ clk = 270 /\ clk' = 0 /\ UNCHANGED <<mem_access, clear, io, ddr3, ddr>>
      /\ P!TxEdge(Strobes, NoWord)
  BY DEF Edge270, P!TxEdge, Strobes
<1>2. /\ o \in OutType /\ o.write = dOut.write /\ o.push = dOut.push
      /\ Requests(o) => io.ready
      /\ o.write # NoBlock => o.read = NoBlock
  BY <1>1, OwnersStrobes
<1> HIDE DEF o
<1>3. req = Requests(o)
  BY <1>2 DEF Requests
<1>4. Left = IF ~(req /\ rw) THEN tx.left ELSE IF NoWord = NoWord THEN P!WriteLength ELSE 1
  BY <1>2 DEF Left, P!WriteLength, Requests
<1>5. Fifo = IF o.push = NoWord THEN tx.fifo ELSE Append(tx.fifo, o.push)
  BY <1>2 DEF Fifo
<1>6. /\ tx' = [fifo |-> IF SendsWord THEN Tail(Fifo) ELSE Fifo,
                left |-> IF SendsWord THEN Left - 1 ELSE Left]
      /\ rx' = IF o.ack THEN Tail(rx) ELSE rx
      /\ bus' = [req |-> req,
                 block |-> (req \/ SendsWord) /\ (IF req THEN NoWord ELSE bus.word) = NoWord,
                 word |-> IF req THEN NoWord ELSE bus.word,
                 rw |-> IF req THEN rw ELSE bus.rw,
                 add |-> IF req THEN IF rw THEN o.write ELSE o.read ELSE bus.add,
                 data |-> IF SendsWord THEN Head(Fifo) ELSE bus.data]
  BY <1>1, <1>4, <1>5 DEF P!TxEdge, SendsWord, o
<1>7. /\ bus \in BusType /\ bus.word = NoWord
  BY DEF SysInv, PathTypeOK, BusType
<1>8. /\ Fifo \in Seq(Data)
      /\ SendsWord => Head(Fifo) \in Data
  <2>1. Fifo \in Seq(Data)
    BY <1>1, BufferFacts
  <2> QED BY <2>1, HeadTailProperties DEF SendsWord
<1>9. req => (rw => o.write \in Block) /\ (~rw => o.read \in Block)
  BY <1>2 DEF OutType
<1>10. SendsWord \in BOOLEAN
  BY DEF SendsWord
<1> HIDE DEF req, rw
<1>11. req \in BOOLEAN /\ rw \in BOOLEAN
  BY DEF req, rw
<1>12. /\ bus'.req = req
       /\ bus'.block = (req \/ SendsWord)
       /\ bus'.word = NoWord
       /\ bus'.rw = IF req THEN rw ELSE bus.rw
       /\ bus'.add = IF req THEN IF rw THEN o.write ELSE o.read ELSE bus.add
       /\ bus'.data = IF SendsWord THEN Head(Fifo) ELSE bus.data
  BY <1>6, <1>7, <1>10, <1>11
<1>13. bus' \in BusType
  <2>1. /\ bus'.req \in BOOLEAN /\ bus'.block \in BOOLEAN /\ bus'.rw \in BOOLEAN
        /\ bus'.add \in Block \cup {NoBlock} /\ bus'.word \in {NoWord}
        /\ bus'.data \in Data \cup {NoWord}
    BY <1>7, <1>8, <1>9, <1>11, <1>12 DEF BusType
  <2>2. bus' = [req |-> bus'.req, block |-> bus'.block, word |-> bus'.word,
                rw |-> bus'.rw, add |-> bus'.add, data |-> bus'.data]
    BY <1>6, Zenon
  <2> QED BY <2>1, <2>2, Zenon DEF BusType
<1>14. rw = (dOut.write # NoBlock)
  BY <1>2 DEF rw
<1>15. /\ bus'.req => bus'.add = IF dOut.write # NoBlock THEN dOut.write ELSE o.read
       /\ ~bus'.req => bus'.add = bus.add
  BY <1>2, <1>12, <1>14
<1> QED BY <1>1, <1>3, <1>6, <1>8, <1>9, <1>10, <1>11, <1>12, <1>13, <1>14, <1>15 DEF o

\* 270 degrees: the memories of the caches, and the sending side of the buffer.
LEMMA SendEdge ==
  ASSUME SysInv, Edge270
  PROVE  SysInv'
<1>1. /\ clk = 270 /\ clk' = 0 /\ UNCHANGED <<mem_access, clear, io, ddr3, ddr>>
      /\ tx' = [fifo |-> IF SendsWord THEN Tail(Fifo) ELSE Fifo,
                left |-> IF SendsWord THEN Left - 1 ELSE Left]
      /\ rx' = IF Strobes.ack THEN Tail(rx) ELSE rx
      /\ bus' \in BusType
      /\ bus'.req = Requests(Strobes)
      /\ bus'.req => bus'.block /\ bus'.add \in Block /\ bus'.rw = (dOut.write # NoBlock)
      /\ ~bus'.req => bus'.block = SendsWord
      /\ SendsWord => bus'.data \in Data
  BY SendFacts
<1>2. /\ Fifo \in Seq(Data) /\ Left \in Nat
      /\ Len(Fifo) = Len(tx.fifo) + Pushes(dOut)
      /\ (IF Announced THEN W ELSE tx.left) = Len(Fifo) + ToPush(dCtl)
      /\ dOut.write # NoBlock => SendsWord /\ tx.left = 0 /\ Left = W
      /\ io.ready => tx.left = 0
  BY <1>1, BufferFacts
<1>3. /\ Strobes.write = dOut.write
      /\ Asked(iOut) + Asked(dOut) = Asked(Strobes)
      /\ Acked(iOut) + Acked(dOut) = Acked(Strobes)
      /\ Requests(Strobes) => io.ready
      /\ Strobes.ack => rx # <<>>
      /\ Strobes.write # NoBlock => Strobes.read = NoBlock /\ ~dCtl.writebackFlag
  BY <1>1, OwnersStrobes
<1>4. /\ CachesOK /\ PathTypeOK /\ Arbitration /\ IoReady
      /\ ReadBalance /\ PushBalance /\ WriteBalance
  BY DEF SysInv
<1>5. CachesOK' /\ UNCHANGED <<iCore, iCtl, iOut, dCore, dCtl, dOut>>
  BY <1>4, DataMemories, InstMemories DEF CachesOK, Edge270
<1>6. W \in Nat /\ W > 0
  BY Constants
\* Whether a word is on the bus, and whether the buffer has it to send.
<1>7. /\ Strobes.read # NoBlock => ~SendsWord
      /\ P!WordOnBus' <=> SendsWord
  <2>1. Strobes.read # NoBlock => Left = 0
    BY <1>2, <1>3 DEF Left, Requests
  <2>2. Strobes.read # NoBlock => ~SendsWord
    BY <2>1 DEF SendsWord
  <2> QED BY <1>1, <1>2, <1>3, <2>2 DEF P!WordOnBus, Requests
<1>8. /\ tx'.fifo \in Seq(Data) /\ tx'.left \in Nat
      /\ Len(tx'.fifo) + Taken' = Len(Fifo)
      /\ tx'.left + Taken' = Left
  <2>1. CASE SendsWord
    <3>1. tx'.fifo = Tail(Fifo) /\ tx'.left = Left - 1 /\ Taken' = 1
      BY <1>1, <1>7, <2>1 DEF Taken
    <3>2. Fifo # <<>> /\ Left > 0
      BY <2>1 DEF SendsWord
    <3>3. Tail(Fifo) \in Seq(Data) /\ Len(Tail(Fifo)) = Len(Fifo) - 1 /\ Len(Fifo) \in Nat
      BY <1>2, <3>2, HeadTailProperties
    <3> QED BY <1>2, <3>1, <3>2, <3>3
  <2>2. CASE ~SendsWord
    <3>1. tx'.fifo = Fifo /\ tx'.left = Left /\ Taken' = 0
      BY <1>1, <1>7, <2>2 DEF Taken
    <3> QED BY <1>2, <3>1
  <2> QED BY <2>1, <2>2
<1>9. rx' \in Seq(Data) /\ Len(rx') + Acked(Strobes) = Len(rx)
  <2>1. rx \in Seq(Data)
    BY <1>4 DEF PathTypeOK
  <2>2. CASE Strobes.ack
    <3>1. rx' = Tail(rx) /\ rx # <<>> /\ Acked(Strobes) = 1
      BY <1>1, <1>3, <2>2 DEF Acked
    <3>2. Tail(rx) \in Seq(Data) /\ Len(Tail(rx)) = Len(rx) - 1 /\ Len(rx) \in Nat
      BY <2>1, <3>1, HeadTailProperties
    <3> QED BY <3>1, <3>2
  <2>3. CASE ~Strobes.ack
    BY <1>1, <2>1, <2>3 DEF Acked
  <2> QED BY <2>2, <2>3
<1>10. PathTypeOK'
  <2>1. tx' \in [fifo : Seq(Data), left : Nat]
    BY <1>1, <1>8
  <2> QED BY <1>1, <1>4, <1>7, <1>9, <2>1 DEF PathTypeOK
<1>11. Arbitration' /\ Gated'
  BY <1>1, <1>4, <1>5 DEF Arbitration, Transferring, Gated
<1>12. IoReady' /\ Accepted'
  BY <1>1, <1>3, <1>4 DEF IoReady, Accepted
<1>13. NumbersOK /\ NumbersOK'
  BY <1>4, <1>5, <1>10, Numbers, NumbersNext
<1>14. ReadBalance'
  <2>1. /\ At(270, Acked(iOut) + Acked(dOut)) = Acked(Strobes)
        /\ At(270, Asked(iOut) + Asked(dOut)) = Asked(Strobes)
        /\ At(0, AskedToRead) = 0 /\ At(90, Sends(io)) = 0
    BY <1>1, <1>3 DEF At
  <2>2. /\ Need(iCtl) + Need(dCtl) + Acked(Strobes) =
             Asked(Strobes) + 0 + ToRead(io) + Len(io.tx) + 0 + Len(rx)
        /\ Len(io.tx) + 0 + Len(rx) <= W
    BY <1>4, <2>1 DEF ReadBalance
  <2>3. AskedToRead' = Asked(Strobes)
    BY <1>1, <1>3 DEF AskedToRead, Asked, Requests
  <2>4. /\ Need(iCtl) \in Nat /\ Need(dCtl) \in Nat /\ ToRead(io) \in Nat
        /\ Len(io.tx) \in Nat /\ Len(rx) \in Nat
    BY <1>13 DEF NumbersOK
  <2>5. Asked(Strobes) \in Nat /\ Acked(Strobes) \in Nat /\ Len(rx') \in Nat
    BY <1>6, <1>9 DEF Asked, Acked
  <2>6. /\ Need(iCtl) + Need(dCtl) = Asked(Strobes) + ToRead(io) + Len(io.tx) + Len(rx')
        /\ Len(io.tx) + Len(rx') <= W
    <3>1. Need(iCtl) + Need(dCtl) + Acked(Strobes) =
            Asked(Strobes) + ToRead(io) + Len(io.tx) + (Len(rx') + Acked(Strobes))
      BY <1>9, <2>2, <2>4, <2>5
    <3>2. Len(io.tx) + Len(rx') <= W
      <4>1. Len(io.tx) + 0 + Len(rx) <= W
        BY <2>2
      <4>2. Len(io.tx) + Len(rx') <= Len(io.tx) + 0 + Len(rx)
        BY <1>9, <2>4, <2>5
      <4> QED BY <1>6, <2>4, <2>5, <4>1, <4>2
    <3>3. Need(iCtl) + Need(dCtl) = Asked(Strobes) + ToRead(io) + Len(io.tx) + Len(rx')
      BY <2>4, <2>5, <3>1
    <3> QED BY <3>2, <3>3
  <2>7. /\ Need(iCtl) + Need(dCtl) + 0 =
             0 + Asked(Strobes) + ToRead(io) + Len(io.tx) + 0 + Len(rx')
        /\ Len(io.tx) + 0 + Len(rx') <= W
    BY <2>4, <2>5, <2>6
  <2>8. /\ At(270, Acked(iOut) + Acked(dOut))' = 0 /\ At(270, Asked(iOut) + Asked(dOut))' = 0
        /\ At(0, AskedToRead)' = Asked(Strobes) /\ At(90, Sends(io))' = 0
    BY <1>1, <2>3 DEF At
  <2> QED BY <1>1, <1>5, <2>7, <2>8, ZenonT(30) DEF ReadBalance
<1>15. PushBalance'
  <2>1. /\ Announced' <=> dCtl.writebackFlag
        /\ At(270, Pushes(dOut))' = 0
    BY <1>1, <1>5 DEF Announced, At
  <2>2. /\ Announced <=> dCtl.writebackFlag \/ dOut.write # NoBlock
        /\ dOut.write # NoBlock => ~dCtl.writebackFlag
    BY <1>1, <1>3 DEF Announced
  <2>3. Announced => tx.left = 0
    BY <1>4 DEF PushBalance
  <2>4. (IF dCtl.writebackFlag THEN W ELSE tx'.left) = Len(tx'.fifo) + ToPush(dCtl)
    <3>1. /\ Len(tx'.fifo) \in Nat /\ Taken' \in Nat /\ ToPush(dCtl) \in Nat
          /\ Len(Fifo) \in Nat
      BY <1>2, <1>8, <1>13, SMTT(30) DEF NumbersOK
    <3>2. CASE dCtl.writebackFlag
      <4>1. Left = 0
        BY <2>2, <2>3, <3>2 DEF Left
      <4>2. Taken' = 0
        BY <1>8, <3>1, <4>1
      <4>3. W = Len(Fifo) + ToPush(dCtl)
        BY <1>2, <2>2, <3>2
      <4> QED BY <1>8, <3>1, <3>2, <4>2, <4>3
    <3>3. CASE ~dCtl.writebackFlag
      <4>1. Left = Len(Fifo) + ToPush(dCtl)
        BY <1>2, <2>2, <3>3 DEF Left
      <4>2. tx'.left + Taken' = Len(tx'.fifo) + Taken' + ToPush(dCtl)
        BY <1>8, <4>1
      <4> QED BY <1>8, <3>1, <3>3, <4>2
    <3> QED BY <3>2, <3>3
  <2>5. dCtl.writebackFlag => tx'.left = 0
    <3>1. dCtl.writebackFlag => Left = 0
      BY <2>2, <2>3 DEF Left
    <3>2. Taken' \in Nat
      BY <1>13 DEF NumbersOK
    <3> QED BY <1>8, <3>1, <3>2
  <2>6. dCtl.state = "waitReplacement" \/ (dCtl.state = "writeBuffer" /\ dCtl.nTransfer = 0)
          => ~dCtl.writebackFlag /\ tx'.left = 0
    <3>1. dCtl.state = "waitReplacement" \/ (dCtl.state = "writeBuffer" /\ dCtl.nTransfer = 0)
            => ~Announced /\ tx.left = 0
      BY <1>4 DEF PushBalance
    <3>2. ~Announced /\ tx.left = 0 => Left = 0
      BY <2>2 DEF Left
    <3>3. Taken' \in Nat
      BY <1>13 DEF NumbersOK
    <3> QED BY <1>8, <2>2, <3>1, <3>2, <3>3
  <2>7. Len(tx'.fifo) + 0 + ToPush(dCtl) = Len(tx'.fifo) + ToPush(dCtl)
    BY <1>13 DEF NumbersOK
  <2> QED BY <1>5, <2>1, <2>4, <2>5, <2>6, <2>7 DEF PushBalance
<1>16. WriteBalance'
  <2>1. ToWrite(io) = Len(io.rx) + tx.left /\ tx.left <= W
    <3>1. At(0, AskedToWrite) = 0 /\ At(0, Taken) = 0
      BY <1>1 DEF At
    <3>2. 0 + ToWrite(io) = Len(io.rx) + 0 + tx.left /\ tx.left <= W
      BY <1>4, <3>1 DEF WriteBalance
    <3>3. ToWrite(io) \in Nat /\ Len(io.rx) \in Nat
      BY <1>13 DEF NumbersOK
    <3> QED BY <3>2, <3>3
  <2>2. AskedToWrite' = IF dOut.write # NoBlock THEN W ELSE 0
    BY <1>1, <1>3 DEF AskedToWrite, Requests
  <2>3. AskedToWrite' + tx.left = Left
    BY <1>2, <1>6, <2>2 DEF Left
  <2>4. /\ AskedToWrite' \in Nat /\ tx.left \in Nat /\ Len(io.rx) \in Nat
        /\ Taken' \in Nat /\ tx'.left \in Nat
    <3>1. tx.left \in Nat /\ Len(io.rx) \in Nat
      BY <1>13 DEF NumbersOK
    <3>2. Taken' \in {0, 1}
      BY <1>13, Zenon DEF NumbersOK
    <3> QED BY <1>6, <1>8, <2>2, <3>1, <3>2
  <2>5. AskedToWrite' + ToWrite(io) = Len(io.rx) + Taken' + tx'.left
    <3>1. AskedToWrite' + ToWrite(io) = Len(io.rx) + (AskedToWrite' + tx.left)
      BY <2>1, <2>4
    <3>2. AskedToWrite' + ToWrite(io) = Len(io.rx) + (tx'.left + Taken')
      BY <1>8, <2>3, <3>1
    <3> QED BY <2>4, <3>2
  <2>6. tx'.left <= W
    <3>1. Left <= W
      BY <1>6, <2>1 DEF Left
    <3> QED BY <1>6, <1>8, <2>4, <3>1
  <2> QED BY <1>1, <2>5, <2>6 DEF WriteBalance, At
<1> QED BY <1>1, <1>5, <1>10, <1>11, <1>12, <1>14, <1>15, <1>16 DEF SysInv

-----------------------------------------------------------------------------
\* The data cache after reset: at rest.
LEMMA DataInit ==
  ASSUME D!CacheInit
  PROVE  /\ DCacheOK /\ dCtl.state = "normal" /\ ~dCtl.writebackFlag
         /\ dOut.push = NoWord
<1>1. PICK a \in LoadStore :
        dCore = [req |-> FALSE, rw |-> FALSE, block |-> a.block,
                 word |-> a.word, data |-> a.data]
  BY Zenon DEF D!CacheInit
<1>2. a \in [rw : BOOLEAN, block : Block, word : D!Word, data : Data]
  BY SystemAssumption, Zenon DEF D!CacheAssumption, D!Access, Block
<1>3. dCore \in CoreType
  BY <1>1, <1>2 DEF CoreType
<1>4. PICK l \in DLine, d \in Data :
        /\ dCtl = [state |-> "normal", nTransfer |-> 0, reqFlag |-> FALSE,
                   rwFlag |-> FALSE, done |-> ~FALSE, ptr |-> l,
                   writebackFlag |-> FALSE, addWriteback |-> dCore.block,
                   cacheAdd |-> <<l, 0>>]
        /\ dMem = [m \in DLine |-> [w \in D!Word |-> d]]
  BY Zenon DEF D!CacheInit
<1>5. 0 \in D!Word /\ "normal" \in CtlState /\ dCore.block \in Block
  BY <1>3, Constants DEF CtlState, CoreType
<1>6. dCtl \in CtlType(DLine)
  BY <1>4, <1>5 DEF CtlType
<1>7. dDirty = {} /\ dOut = D!Quiet /\ dTag = [l1 \in DLine |-> NoTag]
  BY Zenon DEF D!CacheInit
<1>8. /\ dMem \in [DLine -> [D!Word -> Data]]
      /\ dTag \in [DLine -> Tag \cup {NoTag}]
  BY <1>4, <1>7
<1>9. /\ dCtl.state = "normal" /\ dCtl.nTransfer = 0 /\ ~dCtl.reqFlag
      /\ ~dCtl.writebackFlag
  BY <1>4
<1>10. InService(dCtl)
  BY <1>9 DEF InService
<1> QED BY <1>3, <1>6, <1>7, <1>8, <1>9, <1>10, QuietFacts DEF DCacheOK, CacheOK

\* The instruction cache after reset: with a reference to serve.
LEMMA InstInit ==
  ASSUME I!CacheInit
  PROVE  /\ ICacheOK /\ ReadOnly /\ iCtl.state = "normal" /\ ~iCtl.done
<1>1. PICK a \in Fetch :
        iCore = [req |-> TRUE, rw |-> FALSE, block |-> a.block,
                 word |-> a.word, data |-> a.data]
  BY Zenon DEF I!CacheInit
<1>2. a \in [rw : BOOLEAN, block : Block, word : D!Word, data : Data]
  <2>1. I!Block = Block /\ I!Word = D!Word
    BY Constants
  <2>2. a \in [rw : BOOLEAN, block : I!Block, word : I!Word, data : Data]
    BY SystemAssumption, Zenon DEF I!CacheAssumption, I!Access
  <2> QED BY <2>1, <2>2
<1>3. iCore \in CoreType /\ ~iCore.rw
  BY <1>1, <1>2 DEF CoreType
<1>4. PICK l \in ILine, d \in Data :
        /\ iCtl = [state |-> "normal", nTransfer |-> 0, reqFlag |-> FALSE,
                   rwFlag |-> FALSE, done |-> ~TRUE, ptr |-> l,
                   writebackFlag |-> FALSE, addWriteback |-> iCore.block,
                   cacheAdd |-> <<l, 0>>]
        /\ iMem = [m \in ILine |-> [w \in I!Word |-> d]]
  BY Zenon DEF I!CacheInit
<1>5. 0 \in D!Word /\ "normal" \in CtlState /\ iCore.block \in Block /\ I!Word = D!Word
  BY <1>3, Constants DEF CtlState, CoreType
<1>6. iCtl \in CtlType(ILine)
  BY <1>4, <1>5 DEF CtlType
<1>7. iDirty = {} /\ iOut = I!Quiet /\ iTag = [l1 \in ILine |-> NoTag]
  BY Zenon DEF I!CacheInit
<1>8. /\ iMem \in [ILine -> [D!Word -> Data]]
      /\ iTag \in [ILine -> Tag \cup {NoTag}]
  BY <1>4, <1>5, <1>7
<1>9. /\ iCtl.state = "normal" /\ iCtl.nTransfer = 0 /\ ~iCtl.reqFlag
      /\ ~iCtl.writebackFlag /\ ~iCtl.rwFlag /\ ~iCtl.done
  BY <1>4
<1>10. InService(iCtl)
  BY <1>9 DEF InService
<1> QED BY <1>3, <1>6, <1>7, <1>8, <1>9, <1>10, QuietFacts DEF ICacheOK, CacheOK, ReadOnly

\* The invariant holds after reset.
LEMMA SysInit ==
  ASSUME Init
  PROVE  SysInv
<1>1. clk = 90 /\ mem_access = 0 /\ CachesOK
  BY DataInit, InstInit DEF Init, CachesOK
<1>2. /\ iCtl.state = "normal" /\ ~iCtl.done
      /\ dCtl.state = "normal" /\ ~dCtl.writebackFlag
  BY DataInit, InstInit DEF Init
<1>3. /\ tx = [fifo |-> <<>>, left |-> 0]
      /\ bus = [req |-> FALSE, block |-> FALSE, rw |-> FALSE, add |-> NoBlock,
                word |-> NoWord, data |-> NoWord]
      /\ rx = <<>>
      /\ io = [state |-> "idle", flag |-> 0, rx |-> <<>>, tx |-> <<>>, delay |-> 0,
               ready |-> FALSE, valid |-> FALSE, done |-> FALSE, data |-> NoWord,
               add |-> NoBlock, word |-> NoWord]
      /\ ddr = [b \in D!Block |-> [w \in D!Word |-> <<b, w>>]]
  BY DEF Init, P!PathInit
<1>4. PathTypeOK
  <2>1. tx \in [fifo : Seq(Data), left : Nat] /\ rx \in Seq(Data)
    BY <1>3
  <2>2. bus \in BusType
    BY <1>3 DEF BusType
  <2>3. io \in IoType /\ io.state = "idle" /\ ~io.valid
    BY <1>3 DEF IoType, IoState
  <2>4. ddr \in [Block -> [D!Word -> Data]]
    <3>1. \A b \in D!Block, w \in D!Word : <<b, w>> \in Data
      BY SystemAssumption
    <3> QED BY <1>3, <3>1 DEF Block
  <2> QED BY <1>1, <2>1, <2>2, <2>3, <2>4 DEF PathTypeOK
<1>5. Arbitration /\ Gated /\ Accepted
  BY <1>1, <1>2 DEF Arbitration, Owner, Transferring, Gated, Accepted
<1>6. IoReady
  BY <1>3 DEF IoReady
<1>7. /\ Len(io.tx) = 0 /\ Len(io.rx) = 0 /\ Len(rx) = 0 /\ Len(tx.fifo) = 0
      /\ tx.left = 0 /\ W \in Nat
  BY <1>3, Constants
<1>8. /\ Need(iCtl) = 0 /\ Need(dCtl) = 0 /\ ToRead(io) = 0 /\ ToWrite(io) = 0
      /\ Sends(io) = 0 /\ ToPush(dCtl) = 0 /\ ~Announced
  BY <1>1, <1>2, <1>3 DEF Need, Transferring, ToRead, ToWrite, Sends, ToPush, Announced
<1>9. /\ At(270, Acked(iOut) + Acked(dOut)) = 0 /\ At(270, Asked(iOut) + Asked(dOut)) = 0
      /\ At(0, AskedToRead) = 0 /\ At(90, Sends(io)) = 0 /\ At(270, Pushes(dOut)) = 0
      /\ At(0, AskedToWrite) = 0 /\ At(0, Taken) = 0
  BY <1>1, <1>8 DEF At
<1>10. ReadBalance /\ PushBalance /\ WriteBalance
  BY <1>7, <1>8, <1>9 DEF ReadBalance, PushBalance, WriteBalance
<1> QED BY <1>1, <1>4, <1>5, <1>6, <1>10 DEF SysInv

\* Nothing happens.
LEMMA SysRest ==
  ASSUME SysInv, UNCHANGED vars
  PROVE  SysInv'
<1>1. /\ UNCHANGED <<clk, iVars, dVars, mem_access>>
      /\ UNCHANGED <<tx, bus, rx, clear, io, ddr3, ddr>>
  BY DEF vars, pathVars
<1>2. CachesOK' /\ UNCHANGED <<iCore, iCtl, iOut, dCore, dCtl, dOut>>
  BY <1>1, CachesRest DEF SysInv, iVars, dVars
<1>3. PathTypeOK'
  BY <1>1 DEF SysInv, PathTypeOK, P!WordOnBus
<1>4. Arbitration' /\ Gated' /\ Accepted' /\ IoReady'
  BY <1>1, <1>2 DEF SysInv, Arbitration, Owner, Transferring, Gated, Requests, Strobe, Accepted,
                    IoReady
<1>5. ReadBalance'
  BY <1>1, <1>2 DEF SysInv, ReadBalance, At, AskedToRead
<1>6. PushBalance' /\ WriteBalance'
  BY <1>1, <1>2 DEF SysInv, PushBalance, WriteBalance, Announced, At, AskedToWrite, Taken, P!WordOnBus
<1> QED BY <1>1, <1>2, <1>3, <1>4, <1>5, <1>6 DEF SysInv

\* Every step keeps the invariant.
LEMMA SysStep ==
  ASSUME SysInv, [Next]_vars
  PROVE  SysInv'
BY HartEdge, ReceiveEdge, ControllersEdge, SendEdge, DdrEdge, SysRest DEF Next, Edge

\* The system never leaves the invariant: whose turn it is, and where the words
\* are that were asked for.
THEOREM SystemInvariant == Spec => []SysInv
<1>1. Init => SysInv
  BY SysInit
<1>2. SysInv /\ [Next]_vars => SysInv'
  BY SysStep
<1> QED BY <1>1, <1>2, PTL DEF Spec

\* Every request that a cache makes is taken: the arbiter passes it on, the buffer
\* sees the memory ready, and the DDR3 controller's buffer is idle when it comes,
\* so that no request pulse, held for one cycle, is missed.
THEOREM RequestsTaken == Spec => []RequestsAreTaken
<1>1. SysInv => RequestsAreTaken
  BY DEF SysInv, Gated, Strobe, IoReady, Accepted, RequestsAreTaken
<1> QED BY <1>1, SystemInvariant, PTL

\* No buffer of the path holds more than a block, none is read while it is empty,
\* and a word that the data cache pushes reaches the buffer: the exceptions of
\* txrx_buffer.v are never raised.
THEOREM BuffersDoHold == Spec => []BuffersHold
<1>1. SysInv => BuffersHold
  <2> SUFFICES ASSUME SysInv PROVE BuffersHold
    OBVIOUS
  <2>1. NumbersOK /\ W \in Nat
    BY Numbers, Constants DEF SysInv
  <2>2. Len(io.tx) <= W /\ Len(rx) <= W
    <3>1. /\ Len(io.tx) + At(90, Sends(io)) + Len(rx) <= W
          /\ Len(io.tx) \in Nat /\ Len(rx) \in Nat
      BY <2>1 DEF SysInv, ReadBalance, NumbersOK
    <3>2. At(90, Sends(io)) \in Nat
      BY DEF At, Sends
    <3> QED BY <2>1, <3>1, <3>2
  <2>3. Len(io.rx) <= W
    <3>1. At(0, AskedToWrite) + ToWrite(io) = Len(io.rx) + At(0, Taken) + tx.left
      BY DEF SysInv, WriteBalance
    <3>2. At(0, AskedToWrite) + ToWrite(io) \in 0 .. W
      <4>1. CASE At(0, AskedToWrite) = 0
        BY <2>1, <4>1 DEF NumbersOK
      <4>2. CASE At(0, AskedToWrite) # 0
        <5>1. clk = 0 /\ bus.req /\ At(0, AskedToWrite) = W
          BY <4>2 DEF At, AskedToWrite
        <5>2. ToWrite(io) = 0
          BY <5>1 DEF SysInv, Accepted, IoReady, ToWrite
        <5> QED BY <2>1, <5>1, <5>2
      <4> QED BY <4>1, <4>2
    <3>3. Len(io.rx) \in Nat /\ At(0, Taken) \in Nat /\ tx.left \in Nat
      BY <2>1 DEF NumbersOK, At
    <3> QED BY <2>1, <3>1, <3>2, <3>3
  <2>4. Len(tx.fifo) <= W
    <3>1. (IF Announced THEN W ELSE tx.left) =
            Len(tx.fifo) + At(270, Pushes(dOut)) + ToPush(dCtl)
      BY DEF SysInv, PushBalance
    <3>2. tx.left <= W /\ tx.left \in Nat
      BY <2>1 DEF SysInv, WriteBalance, NumbersOK
    <3>3. Len(tx.fifo) \in Nat /\ At(270, Pushes(dOut)) \in Nat /\ ToPush(dCtl) \in Nat
      BY <2>1 DEF NumbersOK, At
    <3>4. Len(tx.fifo) + At(270, Pushes(dOut)) + ToPush(dCtl) <= W
      BY <2>1, <3>1, <3>2
    <3> QED BY <2>1, <3>3, <3>4
  <2> QED BY <2>2, <2>3, <2>4 DEF SysInv, Gated, Strobe, BuffersHold
<1> QED BY <1>1, SystemInvariant, PTL

\* When a cache asks for a block, no word of another read is in a buffer: the
\* words that it is answered with are its own.
THEOREM BufferEmpty == Spec => []BufferEmptyBetweenReads
<1>1. SysInv => BufferEmptyBetweenReads
  BY DEF SysInv, Gated, IoReady, Requests, BufferEmptyBetweenReads
<1> QED BY <1>1, SystemInvariant, PTL
=============================================================================
