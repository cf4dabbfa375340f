-------------------------- MODULE LeaseSystemProofs --------------------------
(***************************************************************************)
(* Proofs about the lease cache with its path to the memory, sampled or    *)
(* not, for every geometry, program, table and DDR3 controller.            *)
(***************************************************************************)
EXTENDS SampledLeaseSystem, SequenceTheorems, TLAPS

-----------------------------------------------------------------------------
(* Sequences of words, whatever the words are.                              *)

IsSeq(s) == s \in Seq({s[i] : i \in 1 .. Len(s)})

\* A sequence over some set is one over its own values.
LEMMA SeqIsSeq ==
  ASSUME NEW Values, NEW s \in Seq(Values)
  PROVE  IsSeq(s) /\ Len(s) \in Nat
<1>1. Len(s) \in Nat /\ \A i \in 1 .. Len(s) : s[i] \in {s[j] : j \in 1 .. Len(s)}
  OBVIOUS
<1> QED BY <1>1 DEF IsSeq

\* A word more at the end.
LEMMA Appended ==
  ASSUME NEW s, IsSeq(s), NEW x
  PROVE  /\ IsSeq(Append(s, x)) /\ Len(s) \in Nat
         /\ Len(Append(s, x)) = Len(s) + 1
         /\ \A i \in 1 .. Len(s) : Append(s, x)[i] = s[i]
         /\ Append(s, x)[Len(s) + 1] = x
<1> DEFINE Values == {s[i] : i \in 1 .. Len(s)} \cup {x}
<1>1. s \in Seq(Values) /\ x \in Values
  BY DEF IsSeq
<1> HIDE DEF Values
<1>2. /\ Append(s, x) \in Seq(Values) /\ Len(Append(s, x)) = Len(s) + 1 /\ Len(s) \in Nat
      /\ \A i \in 1 .. Len(s) : Append(s, x)[i] = s[i]
      /\ Append(s, x)[Len(s) + 1] = x
  BY <1>1, AppendProperties
<1> QED BY <1>2, SeqIsSeq

\* A word less at the head.
LEMMA Taken ==
  ASSUME NEW s, IsSeq(s), s # <<>>
  PROVE  /\ IsSeq(Tail(s)) /\ Len(s) \in Nat /\ Len(s) > 0
         /\ Len(Tail(s)) = Len(s) - 1
         /\ Head(s) = s[1]
         /\ \A i \in 1 .. Len(s) - 1 : Tail(s)[i] = s[i + 1]
<1> DEFINE Values == {s[i] : i \in 1 .. Len(s)}
<1>1. s \in Seq(Values)
  BY DEF IsSeq
<1> HIDE DEF Values
<1>2. /\ Tail(s) \in Seq(Values) /\ Len(Tail(s)) = Len(s) - 1 /\ Len(s) \in Nat /\ Len(s) > 0
      /\ Head(s) = s[1]
      /\ \A i \in 1 .. Len(s) - 1 : Tail(s)[i] = s[i + 1]
  BY <1>1
<1> QED BY <1>2, SeqIsSeq

\* Words that follow others.
LEMMA Joined ==
  ASSUME NEW s, NEW t, IsSeq(s), IsSeq(t)
  PROVE  /\ IsSeq(s \o t) /\ Len(s) \in Nat /\ Len(t) \in Nat
         /\ Len(s \o t) = Len(s) + Len(t)
         /\ \A i \in 1 .. Len(s) : (s \o t)[i] = s[i]
         /\ \A i \in 1 .. Len(t) : (s \o t)[Len(s) + i] = t[i]
<1> DEFINE Values == {s[i] : i \in 1 .. Len(s)} \cup {t[i] : i \in 1 .. Len(t)}
<1>1. s \in Seq(Values) /\ t \in Seq(Values)
  BY DEF IsSeq
<1> HIDE DEF Values
<1>2. s \o t \in Seq(Values) /\ Len(s) \in Nat /\ Len(t) \in Nat /\ Len(s \o t) = Len(s) + Len(t)
  BY <1>1
<1>3. \A i \in 1 .. Len(s) : (s \o t)[i] = s[i]
  BY <1>1
<1>4. \A i \in 1 .. Len(t) : (s \o t)[Len(s) + i] = t[i]
  <2> SUFFICES ASSUME NEW i \in 1 .. Len(t) PROVE (s \o t)[Len(s) + i] = t[i]
    OBVIOUS
  <2>1. Len(s) + i \in 1 .. Len(s) + Len(t) /\ Len(s) + i > Len(s)
        /\ Len(s) + i - Len(s) = i
    BY <1>2
  <2> QED BY <1>1, <2>1
<1> QED BY <1>2, <1>3, <1>4, SeqIsSeq

\* No words.
LEMMA NoWords == IsSeq(<<>>) /\ Len(<<>>) = 0
<1>1. <<>> \in Seq({}) /\ Len(<<>>) = 0
  BY EmptySeq
<1>2. IsSeq(<<>>)
  BY <1>1, SeqIsSeq
<1> QED BY <1>1, <1>2

\* A sequence without words is empty.
LEMMA EmptyIffZero ==
  ASSUME NEW s, IsSeq(s)
  PROVE  Len(s) \in Nat /\ (Len(s) = 0 <=> s = <<>>)
<1>1. s \in Seq({s[i] : i \in 1 .. Len(s)})
  BY DEF IsSeq
<1> QED BY <1>1, EmptySeq

-----------------------------------------------------------------------------
(* The I/O buffer.                                                          *)

Half == P!Half

\* A block has two bursts.
LEMMA Bursts == W \in Nat \ {0} /\ Half \in Nat \ {0} /\ W = Half + Half
<1>1. W \in Nat \ {0} /\ W % 2 = 0
  BY LeaseSystemAssumption, CacheAssumption
<1> QED BY <1>1 DEF Half, P!Half

\* A burst of the DDR3 memory has half the words of a block.
LEMMA BurstFacts ==
  ASSUME NEW b, NEW h
  PROVE  IsSeq(P!Burst(b, h)) /\ Len(P!Burst(b, h)) = Half
<1> DEFINE s == P!Burst(b, h)
           Values == {ddr[b][h * Half + i - 1] : i \in 1 .. Half}
<1>1. s = [i \in 1 .. Half |-> ddr[b][h * Half + i - 1]]
  BY DEF P!Burst, Half
<1>2. s \in [1 .. Half -> Values]
  BY <1>1
<1> HIDE DEF s, Values
<1>3. s \in Seq(Values) /\ Len(s) = Half
  BY <1>2, Bursts
<1> QED BY <1>3, SeqIsSeq DEF s

IoStates == {"idle", "read", "write", "readWord", "writeWord", "waitClear"}

Io(st, fl, words, left, de, re, do, d, b, w) ==
  [state |-> st, flag |-> fl, rx |-> words, tx |-> left, delay |-> de, ready |-> re,
   valid |-> FALSE, done |-> do, data |-> d, add |-> b, word |-> w]

\* The registers of the buffer.
IoShape(c) ==
  /\ c = [state |-> c.state, flag |-> c.flag, rx |-> c.rx, tx |-> c.tx,
          delay |-> c.delay, ready |-> c.ready, valid |-> c.valid, done |-> c.done,
          data |-> c.data, add |-> c.add, word |-> c.word]
  /\ c.state \in IoStates /\ c.flag \in 0 .. 3 /\ c.delay \in 0 .. 4
  /\ c.ready \in BOOLEAN /\ c.valid \in BOOLEAN /\ c.done \in BOOLEAN
  /\ IsSeq(c.tx)

\* Words of the buffer, the one on its port included.
Words(c) == IF c.valid THEN Len(c.tx) + 1 ELSE Len(c.tx)

\* Sending a word moves it from the buffer to the port.
LEMMA SentFacts ==
  ASSUME NEW c, IoShape(c), ~c.valid
  PROVE  LET s == P!Sent(c)
         IN  /\ IoShape(s)
             /\ s.state = c.state /\ s.flag = c.flag /\ s.delay = c.delay
             /\ s.ready = c.ready /\ s.done = c.done
             /\ Len(s.tx) \in Nat /\ Len(c.tx) \in Nat /\ Words(s) = Len(c.tx)
<1> DEFINE s == P!Sent(c)
<1>1. c = [state |-> c.state, flag |-> c.flag, rx |-> c.rx, tx |-> c.tx,
           delay |-> c.delay, ready |-> c.ready, valid |-> c.valid, done |-> c.done,
           data |-> c.data, add |-> c.add, word |-> c.word]
  BY Zenon DEF IoShape
<1>2. CASE c.tx = <<>>
  <2>1. s = c
    BY <1>2 DEF P!Sent
  <2>2. Words(s) = Len(c.tx)
    BY <2>1, Zenon DEF Words
  <2>3. Len(c.tx) = 0
    BY <1>2, NoWords, Zenon
  <2> QED BY <2>1, <2>2, <2>3
<1>3. CASE c.tx # <<>>
  <2>1. s = [c EXCEPT !.tx = Tail(c.tx), !.valid = TRUE, !.data = Head(c.tx)]
    BY <1>3 DEF P!Sent
  <2> HIDE DEF s
  <2>2. s = [state |-> c.state, flag |-> c.flag, rx |-> c.rx, tx |-> Tail(c.tx),
             delay |-> c.delay, ready |-> c.ready, valid |-> TRUE, done |-> c.done,
             data |-> Head(c.tx), add |-> c.add, word |-> c.word]
    BY ONLY <1>1, <2>1
  <2>3. /\ s.state = c.state /\ s.flag = c.flag /\ s.rx = c.rx /\ s.tx = Tail(c.tx)
        /\ s.delay = c.delay /\ s.ready = c.ready /\ s.valid = TRUE /\ s.done = c.done
        /\ s = [state |-> s.state, flag |-> s.flag, rx |-> s.rx, tx |-> s.tx,
                delay |-> s.delay, ready |-> s.ready, valid |-> s.valid, done |-> s.done,
                data |-> s.data, add |-> s.add, word |-> s.word]
    BY ONLY <2>2
  <2>4. IsSeq(Tail(c.tx)) /\ Len(c.tx) \in Nat /\ Len(c.tx) > 0
        /\ Len(Tail(c.tx)) = Len(c.tx) - 1
    BY <1>3, Taken DEF IoShape
  <2>5. IoShape(s)
    BY <2>3, <2>4 DEF IoShape
  <2>6. Words(s) = Len(c.tx) /\ Len(s.tx) \in Nat
    <3>1. s.valid /\ s.tx = Tail(c.tx)
      BY <2>3
    <3>2. Words(s) = Len(Tail(c.tx)) + 1
      BY <3>1, Zenon DEF Words
    <3>3. Len(s.tx) = Len(c.tx) - 1
      BY <3>1, <2>4
    <3> QED BY <2>4, <3>2, <3>3
  <2> QED BY <2>3, <2>4, <2>5, <2>6 DEF s
<1> QED BY <1>2, <1>3

\* Receiving the word on the bus leaves all else alone.
LEMMA ReceivedFacts ==
  ASSUME IoShape(io)
  PROVE  P!Received = Io(io.state, io.flag, P!Received.rx, io.tx, io.delay, io.ready,
                         io.done, io.data, io.add, io.word)
<1> DEFINE words == IF P!WordOnBus THEN Append(io.rx, bus.data) ELSE io.rx
           r == P!Received
<1>1. r = [io EXCEPT !.rx = words, !.valid = FALSE]
  BY DEF P!Received
<1> HIDE DEF words, r
<1>2. io = [state |-> io.state, flag |-> io.flag, rx |-> io.rx, tx |-> io.tx,
            delay |-> io.delay, ready |-> io.ready, valid |-> io.valid, done |-> io.done,
            data |-> io.data, add |-> io.add, word |-> io.word]
  BY Zenon DEF IoShape
<1>3. r = [state |-> io.state, flag |-> io.flag, rx |-> words, tx |-> io.tx,
           delay |-> io.delay, ready |-> io.ready, valid |-> FALSE, done |-> io.done,
           data |-> io.data, add |-> io.add, word |-> io.word]
  BY ONLY <1>1, <1>2
<1>4. r.rx = words
  BY ONLY <1>3
<1> QED BY <1>3, <1>4 DEF r, Io

\* The registers after an edge at 0 degrees, and the words that it has added.
Moves(st, fl, de, re, do, k) ==
  /\ IoShape(io')
  /\ io'.state = st /\ io'.flag = fl /\ io'.delay = de /\ io'.ready = re /\ io'.done = do
  /\ Len(io'.tx) \in Nat /\ Len(io.tx) \in Nat /\ Words(io') = Len(io.tx) + k

\* Those that become of a state that an update leads to before a word is sent.
LEMMA MovesFacts ==
  ASSUME IoShape(io), NEW c, IoShape(c), ~c.valid, io' = P!Sent(c),
         NEW k \in Nat, Len(c.tx) = Len(io.tx) + k
  PROVE  Moves(c.state, c.flag, c.delay, c.ready, c.done, k)
<1>1. /\ IoShape(io')
      /\ io'.state = c.state /\ io'.flag = c.flag /\ io'.delay = c.delay
      /\ io'.ready = c.ready /\ io'.done = c.done
      /\ Len(io'.tx) \in Nat /\ Words(io') = Len(c.tx)
  BY SentFacts
<1>2. Len(io.tx) \in Nat
  BY EmptyIffZero DEF IoShape
<1>3. Words(io') = Len(io.tx) + k
  BY <1>1
<1> QED BY <1>1, <1>2, <1>3 DEF Moves

\* A step that adds no word, one word or a burst of words to the buffer.
LEMMA AddsNone ==
  ASSUME IoShape(io), NEW c, IoShape(c), ~c.valid, io' = P!Sent(c),
         Len(c.tx) = Len(io.tx) + 0
  PROVE  Moves(c.state, c.flag, c.delay, c.ready, c.done, 0)
BY MovesFacts

\* The same for one word.
LEMMA AddsOne ==
  ASSUME IoShape(io), NEW c, IoShape(c), ~c.valid, io' = P!Sent(c),
         Len(c.tx) = Len(io.tx) + 1
  PROVE  Moves(c.state, c.flag, c.delay, c.ready, c.done, 1)
BY MovesFacts

\* The same for a burst.
LEMMA AddsBurst ==
  ASSUME IoShape(io), NEW c, IoShape(c), ~c.valid, io' = P!Sent(c),
         Len(c.tx) = Len(io.tx) + Half
  PROVE  Moves(c.state, c.flag, c.delay, c.ready, c.done, Half)
BY MovesFacts, Bursts

\* What the buffer does, state by state.
Delays == /\ io.delay > 0
          /\ Moves(io.state, io.flag, io.delay - 1, io.ready, io.done, 0)
          /\ ddr3' = ddr3

Rests == /\ io.delay = 0 /\ io.state = "idle" /\ ~(bus.req /\ ddr3 = "free")
         /\ Moves("idle", io.flag, 0, io.ready \/ (ddr3 = "free" /\ io.tx = <<>>), io.done, 0)
         /\ ddr3' = ddr3

Accepts == /\ io.delay = 0 /\ io.state = "idle" /\ bus.req /\ ddr3 = "free"
           /\ Moves(P!Serving, 0, 0, FALSE, io.done, 0)
           /\ ddr3' = IF P!Serving = "write" THEN "free" ELSE "reading"

ReadsBurst == /\ io.delay = 0 /\ io.state = "read" /\ io.flag \in {0, 2} /\ ddr3 = "answered"
              /\ Moves("read", io.flag + 1, 0, io.ready, io.done, Half)
              /\ ddr3' = "free"

ReadsNext == /\ io.delay = 0 /\ io.state = "read" /\ io.flag = 1 /\ ddr3 = "free"
             /\ Moves("read", 2, 0, io.ready, io.done, 0)
             /\ ddr3' = "reading"

\* The last step of a request.
Completes == /\ io.delay = 0
             /\ \/ io.state = "read" /\ io.flag = 3
                \/ io.state \in {"write", "writeWord"} /\ io.flag = 2
             /\ Moves("waitClear", 0, 0, io.ready, io.done, 0)
             /\ ddr3' = ddr3

ReadsWord == /\ io.delay = 0 /\ io.state = "readWord" /\ ddr3 = "answered"
             /\ Moves("waitClear", io.flag, 4, io.ready, io.done, 1)
             /\ ddr3' = "free"

Writes == /\ io.delay = 0 /\ io.state \in {"write", "writeWord"} /\ io.flag < 2
          /\ Moves(io.state, io.flag + 1, 0, io.ready, io.done, 0)
          /\ ddr3' \in {"free", "writing"}

Waiting == /\ io.delay = 0 /\ io.state \in {"read", "readWord", "writeWord", "write"}
           /\ io.state = "read" => io.flag # 3
           /\ Moves(io.state, io.flag, 0, io.ready, io.done, 0)
           /\ ddr3' = ddr3

Acknowledges == /\ io.delay = 0 /\ io.state = "waitClear"
                /\ IF clear THEN Moves("idle", io.flag, 2, io.ready, FALSE, 0)
                   ELSE Moves("waitClear", io.flag, 0, io.ready, TRUE, 0)
                /\ ddr3' = ddr3

\* The I/O buffer's edge while it delays.
LEMMA DelaySteps ==
  ASSUME IoShape(io), P!IoDelay
  PROVE  Delays
<1> DEFINE r == P!Received
           words == r.rx
           c == [r EXCEPT !.delay = @ - 1]
<1>1. io.delay > 0 /\ io' = P!Sent(c) /\ ddr3' = ddr3
  BY DEF P!IoDelay, P!Quietly
<1>2. r = Io(io.state, io.flag, words, io.tx, io.delay, io.ready, io.done, io.data, io.add, io.word)
  BY ReceivedFacts
<1> HIDE DEF r, words
<1> DEFINE less == io.delay - 1
<1>a. r.delay = io.delay
  BY ONLY <1>2 DEF Io
<1>b. c = [r EXCEPT !.delay = less]
  BY ONLY <1>a
<1> HIDE DEF c, less
<1>3. c = Io(io.state, io.flag, words, io.tx, less, io.ready, io.done, io.data, io.add, io.word)
  BY ONLY <1>2, <1>b DEF Io
<1>4. /\ c.state = io.state /\ c.flag = io.flag /\ c.tx = io.tx /\ c.delay = less
      /\ c.ready = io.ready /\ c.valid = FALSE /\ c.done = io.done
      /\ c = [state |-> c.state, flag |-> c.flag, rx |-> c.rx, tx |-> c.tx,
              delay |-> c.delay, ready |-> c.ready, valid |-> c.valid, done |-> c.done,
              data |-> c.data, add |-> c.add, word |-> c.word]
  BY ONLY <1>3 DEF Io
<1>5. IoShape(c)
  <2>1. less \in 0 .. 4
    BY <1>1 DEF IoShape, less
  <2> QED BY <2>1, <1>4 DEF IoShape
<1>6. Len(c.tx) = Len(io.tx) + 0
  BY <1>4, EmptyIffZero DEF IoShape
<1>7. Moves(c.state, c.flag, c.delay, c.ready, c.done, 0)
  BY <1>1, <1>4, <1>5, <1>6, AddsNone, Zenon
<1> QED BY <1>1, <1>4, <1>7 DEF Delays, Moves, less

\* The I/O buffer's edge while it has no request.
LEMMA IdleSteps ==
  ASSUME IoShape(io), P!IoIdle
  PROVE  Rests
<1> DEFINE r == P!Received
           words == r.rx
           c == [r EXCEPT !.ready = @ \/ (ddr3 = "free" /\ io.tx = <<>>)]
<1>1. /\ io.delay = 0 /\ io.state = "idle" /\ ~(bus.req /\ ddr3 = "free")
      /\ io' = P!Sent(c) /\ ddr3' = ddr3
  BY DEF P!IoIdle, P!Stepping, P!Quietly
<1>2. r = Io(io.state, io.flag, words, io.tx, io.delay, io.ready, io.done, io.data, io.add, io.word)
  BY ReceivedFacts
<1> HIDE DEF r, words
<1> DEFINE now == io.ready \/ (ddr3 = "free" /\ io.tx = <<>>)
<1>a. r.ready = io.ready
  BY ONLY <1>2 DEF Io
<1>b. c = [r EXCEPT !.ready = now]
  BY ONLY <1>a
<1> HIDE DEF c, now
<1>3. c = Io(io.state, io.flag, words, io.tx, io.delay, now, io.done, io.data, io.add, io.word)
  BY ONLY <1>2, <1>b DEF Io
<1>4. /\ c.state = io.state /\ c.flag = io.flag /\ c.tx = io.tx /\ c.delay = io.delay
      /\ c.ready = now /\ c.valid = FALSE /\ c.done = io.done
      /\ c = [state |-> c.state, flag |-> c.flag, rx |-> c.rx, tx |-> c.tx,
              delay |-> c.delay, ready |-> c.ready, valid |-> c.valid, done |-> c.done,
              data |-> c.data, add |-> c.add, word |-> c.word]
  BY ONLY <1>3 DEF Io
<1>5. IoShape(c)
  <2>1. c.state \in IoStates /\ c.flag \in 0 .. 3 /\ c.delay \in 0 .. 4
    BY <1>1, <1>4 DEF IoShape, IoStates
  <2> QED BY <2>1, <1>4 DEF IoShape, now
<1>6. Len(c.tx) = Len(io.tx) + 0
  BY <1>4, EmptyIffZero DEF IoShape
<1>7. Moves(c.state, c.flag, c.delay, c.ready, c.done, 0)
  BY <1>1, <1>4, <1>5, <1>6, AddsNone, Zenon
<1> QED BY <1>1, <1>4, <1>7 DEF Rests, Moves, now

\* The I/O buffer accepts a request.
LEMMA AcceptSteps ==
  ASSUME IoShape(io), P!IoAccept
  PROVE  Accepts
<1> DEFINE r == P!Received
           words == r.rx
           c == [r EXCEPT !.ready = FALSE, !.flag = 0, !.add = bus.add,
                        !.word = bus.word, !.state = P!Serving]
<1>1. /\ io.delay = 0 /\ io.state = "idle" /\ bus.req /\ ddr3 = "free"
      /\ io' = P!Sent(c)
      /\ ddr3' = IF P!Serving = "write" THEN "free" ELSE "reading"
  BY DEF P!IoAccept, P!Stepping
<1>2. r = Io(io.state, io.flag, words, io.tx, io.delay, io.ready, io.done, io.data, io.add, io.word)
  BY ReceivedFacts
<1> HIDE DEF r, words
<1>b. c = [r EXCEPT !.ready = FALSE, !.flag = 0, !.add = bus.add,
                !.word = bus.word, !.state = P!Serving]
  OBVIOUS
<1> HIDE DEF c
<1>3. c = Io(P!Serving, 0, words, io.tx, io.delay, FALSE, io.done, io.data, bus.add, bus.word)
  BY ONLY <1>2, <1>b DEF Io
<1>4. /\ c.state = P!Serving /\ c.flag = 0 /\ c.tx = io.tx /\ c.delay = io.delay
      /\ c.ready = FALSE /\ c.valid = FALSE /\ c.done = io.done
      /\ c = [state |-> c.state, flag |-> c.flag, rx |-> c.rx, tx |-> c.tx,
              delay |-> c.delay, ready |-> c.ready, valid |-> c.valid, done |-> c.done,
              data |-> c.data, add |-> c.add, word |-> c.word]
  BY ONLY <1>3 DEF Io
<1>5. IoShape(c)
  <2>1. c.state \in IoStates /\ c.flag \in 0 .. 3 /\ c.delay \in 0 .. 4
    BY <1>1, <1>4 DEF IoShape, IoStates, P!Serving
  <2> QED BY <2>1, <1>4 DEF IoShape
<1>6. Len(c.tx) = Len(io.tx) + 0
  BY <1>4, EmptyIffZero DEF IoShape
<1>7. Moves(c.state, c.flag, c.delay, c.ready, c.done, 0)
  BY <1>1, <1>4, <1>5, <1>6, AddsNone, Zenon
<1> QED BY <1>1, <1>4, <1>7 DEF Accepts, Moves

\* The I/O buffer takes a burst of a block.
LEMMA ReadBurstSteps ==
  ASSUME IoShape(io), P!IoReadBurst
  PROVE  ReadsBurst
<1> DEFINE r == P!Received
           words == r.rx
           s == P!Burst(io.add, io.flag \div 2)
           c == [r EXCEPT !.tx = @ \o s, !.flag = @ + 1]
<1>1. /\ io.delay = 0 /\ io.state = "read" /\ io.flag \in {0, 2} /\ ddr3 = "answered"
      /\ io' = P!Sent(c) /\ ddr3' = "free"
  BY DEF P!IoReadBurst, P!Stepping
<1>2. r = Io(io.state, io.flag, words, io.tx, io.delay, io.ready, io.done, io.data, io.add, io.word)
  BY ReceivedFacts
<1> HIDE DEF r, words
<1> DEFINE more == io.tx \o s
           next == io.flag + 1
<1>a. r.tx = io.tx /\ r.flag = io.flag
  BY ONLY <1>2 DEF Io
<1>b. c = [r EXCEPT !.tx = more, !.flag = next]
  BY ONLY <1>a
<1> HIDE DEF c, more, next
<1>3. c = Io(io.state, next, words, more, io.delay, io.ready, io.done, io.data, io.add, io.word)
  BY ONLY <1>2, <1>b DEF Io
<1>4. /\ c.state = io.state /\ c.flag = next /\ c.tx = more /\ c.delay = io.delay
      /\ c.ready = io.ready /\ c.valid = FALSE /\ c.done = io.done
      /\ c = [state |-> c.state, flag |-> c.flag, rx |-> c.rx, tx |-> c.tx,
              delay |-> c.delay, ready |-> c.ready, valid |-> c.valid, done |-> c.done,
              data |-> c.data, add |-> c.add, word |-> c.word]
  BY ONLY <1>3 DEF Io
<1>5. IoShape(c)
  <2>1. next \in 0 .. 3
    BY <1>1 DEF next
  <2>2. IsSeq(more)
    BY BurstFacts, Joined DEF IoShape, more
  <2> QED BY <2>1, <2>2, <1>1, <1>4 DEF IoShape
<1>6. Len(c.tx) = Len(io.tx) + Half
  <2>1. Len(more) = Len(io.tx) + Len(s) /\ Len(s) = Half
    BY BurstFacts, Joined DEF IoShape, more
  <2> QED BY <2>1, <1>4
<1>7. Moves(c.state, c.flag, c.delay, c.ready, c.done, Half)
  BY <1>1, <1>4, <1>5, <1>6, AddsBurst, Zenon
<1> QED BY <1>1, <1>4, <1>7 DEF ReadsBurst, Moves, next

\* The I/O buffer asks for the second burst.
LEMMA ReadNextSteps ==
  ASSUME IoShape(io), P!IoReadNext
  PROVE  ReadsNext
<1> DEFINE r == P!Received
           words == r.rx
           c == [r EXCEPT !.flag = 2]
<1>1. /\ io.delay = 0 /\ io.state = "read" /\ io.flag = 1 /\ ddr3 = "free"
      /\ io' = P!Sent(c) /\ ddr3' = "reading"
  BY DEF P!IoReadNext, P!Stepping
<1>2. r = Io(io.state, io.flag, words, io.tx, io.delay, io.ready, io.done, io.data, io.add, io.word)
  BY ReceivedFacts
<1> HIDE DEF r, words
<1>b. c = [r EXCEPT !.flag = 2]
  OBVIOUS
<1> HIDE DEF c
<1>3. c = Io(io.state, 2, words, io.tx, io.delay, io.ready, io.done, io.data, io.add, io.word)
  BY ONLY <1>2, <1>b DEF Io
<1>4. /\ c.state = io.state /\ c.flag = 2 /\ c.tx = io.tx /\ c.delay = io.delay
      /\ c.ready = io.ready /\ c.valid = FALSE /\ c.done = io.done
      /\ c = [state |-> c.state, flag |-> c.flag, rx |-> c.rx, tx |-> c.tx,
              delay |-> c.delay, ready |-> c.ready, valid |-> c.valid, done |-> c.done,
              data |-> c.data, add |-> c.add, word |-> c.word]
  BY ONLY <1>3 DEF Io
<1>5. IoShape(c)
  <2>1. c.state \in IoStates /\ c.flag \in 0 .. 3 /\ c.delay \in 0 .. 4
    BY <1>1, <1>4 DEF IoShape, IoStates
  <2> QED BY <2>1, <1>4 DEF IoShape
<1>6. Len(c.tx) = Len(io.tx) + 0
  BY <1>4, EmptyIffZero DEF IoShape
<1>7. Moves(c.state, c.flag, c.delay, c.ready, c.done, 0)
  BY <1>1, <1>4, <1>5, <1>6, AddsNone, Zenon
<1> QED BY <1>1, <1>4, <1>7 DEF ReadsNext, Moves

\* The I/O buffer has served a request.
LEMMA EndSteps ==
  ASSUME IoShape(io), P!IoReadEnd \/ P!IoWriteEnd \/ P!IoWordEnd
  PROVE  Completes
<1> DEFINE r == P!Received
           words == r.rx
           c == [r EXCEPT !.flag = 0, !.state = "waitClear"]
<1>1. /\ io.delay = 0
      /\ \/ io.state = "read" /\ io.flag = 3
         \/ io.state \in {"write", "writeWord"} /\ io.flag = 2
      /\ io' = P!Sent(c) /\ ddr3' = ddr3
  BY DEF P!IoReadEnd, P!IoWriteEnd, P!IoWordEnd, P!Stepping, P!Quietly
<1>2. r = Io(io.state, io.flag, words, io.tx, io.delay, io.ready, io.done, io.data, io.add, io.word)
  BY ReceivedFacts
<1> HIDE DEF r, words
<1>b. c = [r EXCEPT !.flag = 0, !.state = "waitClear"]
  OBVIOUS
<1> HIDE DEF c
<1>3. c = Io("waitClear", 0, words, io.tx, io.delay, io.ready, io.done, io.data, io.add, io.word)
  BY ONLY <1>2, <1>b DEF Io
<1>4. /\ c.state = "waitClear" /\ c.flag = 0 /\ c.tx = io.tx /\ c.delay = io.delay
      /\ c.ready = io.ready /\ c.valid = FALSE /\ c.done = io.done
      /\ c = [state |-> c.state, flag |-> c.flag, rx |-> c.rx, tx |-> c.tx,
              delay |-> c.delay, ready |-> c.ready, valid |-> c.valid, done |-> c.done,
              data |-> c.data, add |-> c.add, word |-> c.word]
  BY ONLY <1>3 DEF Io
<1>5. IoShape(c)
  <2>1. c.state \in IoStates /\ c.flag \in 0 .. 3 /\ c.delay \in 0 .. 4
    BY <1>1, <1>4 DEF IoShape, IoStates
  <2> QED BY <2>1, <1>4 DEF IoShape
<1>6. Len(c.tx) = Len(io.tx) + 0
  BY <1>4, EmptyIffZero DEF IoShape
<1>7. Moves(c.state, c.flag, c.delay, c.ready, c.done, 0)
  BY <1>1, <1>4, <1>5, <1>6, AddsNone, Zenon
<1> QED BY <1>1, <1>4, <1>7 DEF Completes, Moves

\* The I/O buffer takes a single word.
LEMMA ReadWordSteps ==
  ASSUME IoShape(io), P!IoReadWord
  PROVE  ReadsWord
<1> DEFINE r == P!Received
           words == r.rx
           x == ddr[io.add][io.word]
           c == [r EXCEPT !.tx = Append(@, x), !.delay = 4, !.state = "waitClear"]
<1>1. /\ io.delay = 0 /\ io.state = "readWord" /\ ddr3 = "answered"
      /\ io' = P!Sent(c) /\ ddr3' = "free"
  BY DEF P!IoReadWord, P!Stepping
<1>2. r = Io(io.state, io.flag, words, io.tx, io.delay, io.ready, io.done, io.data, io.add, io.word)
  BY ReceivedFacts
<1> HIDE DEF r, words
<1> DEFINE more == Append(io.tx, x)
<1>a. r.tx = io.tx
  BY ONLY <1>2 DEF Io
<1>b. c = [r EXCEPT !.tx = more, !.delay = 4, !.state = "waitClear"]
  BY ONLY <1>a
<1> HIDE DEF c, more
<1>3. c = Io("waitClear", io.flag, words, more, 4, io.ready, io.done, io.data, io.add, io.word)
  BY ONLY <1>2, <1>b DEF Io
<1>4. /\ c.state = "waitClear" /\ c.flag = io.flag /\ c.tx = more /\ c.delay = 4
      /\ c.ready = io.ready /\ c.valid = FALSE /\ c.done = io.done
      /\ c = [state |-> c.state, flag |-> c.flag, rx |-> c.rx, tx |-> c.tx,
              delay |-> c.delay, ready |-> c.ready, valid |-> c.valid, done |-> c.done,
              data |-> c.data, add |-> c.add, word |-> c.word]
  BY ONLY <1>3 DEF Io
<1>5. IoShape(c)
  <2>1. IsSeq(more)
    BY Appended DEF IoShape, more
  <2>2. c.state \in IoStates /\ c.flag \in 0 .. 3 /\ c.delay \in 0 .. 4
    BY <1>1, <1>4 DEF IoShape, IoStates
  <2> QED BY <2>1, <2>2, <1>4 DEF IoShape
<1>6. Len(c.tx) = Len(io.tx) + 1
  <2>1. Len(more) = Len(io.tx) + 1
    BY Appended DEF IoShape, more
  <2> QED BY <2>1, <1>4
<1>7. Moves(c.state, c.flag, c.delay, c.ready, c.done, 1)
  BY <1>1, <1>4, <1>5, <1>6, AddsOne, Zenon
<1> QED BY <1>1, <1>4, <1>7 DEF ReadsWord, Moves

\* The I/O buffer fetches the burst into which a word is written.
LEMMA FetchSteps ==
  ASSUME IoShape(io), P!IoFetchBurst
  PROVE  Writes
<1> DEFINE r == P!Received
           words == r.rx
           c == [r EXCEPT !.flag = 1]
<1>1. /\ io.delay = 0 /\ io.state = "writeWord" /\ io.flag = 0
      /\ io' = P!Sent(c) /\ ddr3' = "free"
  BY DEF P!IoFetchBurst, P!Stepping
<1>2. r = Io(io.state, io.flag, words, io.tx, io.delay, io.ready, io.done, io.data, io.add, io.word)
  BY ReceivedFacts
<1> HIDE DEF r, words
<1>b. c = [r EXCEPT !.flag = 1]
  OBVIOUS
<1> HIDE DEF c
<1>3. c = Io(io.state, 1, words, io.tx, io.delay, io.ready, io.done, io.data, io.add, io.word)
  BY ONLY <1>2, <1>b DEF Io
<1>4. /\ c.state = io.state /\ c.flag = 1 /\ c.tx = io.tx /\ c.delay = io.delay
      /\ c.ready = io.ready /\ c.valid = FALSE /\ c.done = io.done
      /\ c = [state |-> c.state, flag |-> c.flag, rx |-> c.rx, tx |-> c.tx,
              delay |-> c.delay, ready |-> c.ready, valid |-> c.valid, done |-> c.done,
              data |-> c.data, add |-> c.add, word |-> c.word]
  BY ONLY <1>3 DEF Io
<1>5. IoShape(c)
  <2>1. c.state \in IoStates /\ c.flag \in 0 .. 3 /\ c.delay \in 0 .. 4
    BY <1>1, <1>4 DEF IoShape, IoStates
  <2> QED BY <2>1, <1>4 DEF IoShape
<1>6. Len(c.tx) = Len(io.tx) + 0
  BY <1>4, EmptyIffZero DEF IoShape
<1>7. Moves(c.state, c.flag, c.delay, c.ready, c.done, 0)
  BY <1>1, <1>4, <1>5, <1>6, AddsNone, Zenon
<1> QED BY <1>1, <1>4, <1>7 DEF Writes, Moves

\* The I/O buffer writes that burst back.
LEMMA WriteWordSteps ==
  ASSUME IoShape(io), P!IoWriteWord
  PROVE  Writes
<1> DEFINE r == P!Received
           words == r.rx
           c == [r EXCEPT !.rx = Tail(@), !.flag = 2]
<1>1. /\ io.delay = 0 /\ io.state = "writeWord" /\ io.flag = 1
      /\ io' = P!Sent(c) /\ ddr3' = "writing"
  BY DEF P!IoWriteWord, P!Stepping
<1>2. r = Io(io.state, io.flag, words, io.tx, io.delay, io.ready, io.done, io.data, io.add, io.word)
  BY ReceivedFacts
<1> HIDE DEF r, words
<1> DEFINE rest == Tail(words)
<1>a. r.rx = words
  BY ONLY <1>2 DEF Io
<1>b. c = [r EXCEPT !.rx = rest, !.flag = 2]
  BY ONLY <1>a
<1> HIDE DEF c, rest
<1>3. c = Io(io.state, 2, rest, io.tx, io.delay, io.ready, io.done, io.data, io.add, io.word)
  BY ONLY <1>2, <1>b DEF Io
<1>4. /\ c.state = io.state /\ c.flag = 2 /\ c.tx = io.tx /\ c.delay = io.delay
      /\ c.ready = io.ready /\ c.valid = FALSE /\ c.done = io.done
      /\ c = [state |-> c.state, flag |-> c.flag, rx |-> c.rx, tx |-> c.tx,
              delay |-> c.delay, ready |-> c.ready, valid |-> c.valid, done |-> c.done,
              data |-> c.data, add |-> c.add, word |-> c.word]
  BY ONLY <1>3 DEF Io
<1>5. IoShape(c)
  <2>1. c.state \in IoStates /\ c.flag \in 0 .. 3 /\ c.delay \in 0 .. 4
    BY <1>1, <1>4 DEF IoShape, IoStates
  <2> QED BY <2>1, <1>4 DEF IoShape
<1>6. Len(c.tx) = Len(io.tx) + 0
  BY <1>4, EmptyIffZero DEF IoShape
<1>7. Moves(c.state, c.flag, c.delay, c.ready, c.done, 0)
  BY <1>1, <1>4, <1>5, <1>6, AddsNone, Zenon
<1> QED BY <1>1, <1>4, <1>7 DEF Writes, Moves

\* The I/O buffer writes a burst of a block.
LEMMA WriteBurstSteps ==
  ASSUME IoShape(io), P!IoWriteBurst
  PROVE  Writes
<1> DEFINE r == P!Received
           words == r.rx
           c == [r EXCEPT !.rx = SubSeq(@, P!Half + 1, Len(@)), !.flag = @ + 1]
<1>1. /\ io.delay = 0 /\ io.state = "write" /\ io.flag \in {0, 1}
      /\ io' = P!Sent(c) /\ ddr3' = "writing"
  BY DEF P!IoWriteBurst, P!Stepping
<1>2. r = Io(io.state, io.flag, words, io.tx, io.delay, io.ready, io.done, io.data, io.add, io.word)
  BY ReceivedFacts
<1> HIDE DEF r, words
<1> DEFINE rest == SubSeq(words, P!Half + 1, Len(words))
           next == io.flag + 1
<1>a. r.rx = words /\ r.flag = io.flag
  BY ONLY <1>2 DEF Io
<1>b. c = [r EXCEPT !.rx = rest, !.flag = next]
  BY ONLY <1>a
<1> HIDE DEF c, rest, next
<1>3. c = Io(io.state, next, rest, io.tx, io.delay, io.ready, io.done, io.data, io.add, io.word)
  BY ONLY <1>2, <1>b DEF Io
<1>4. /\ c.state = io.state /\ c.flag = next /\ c.tx = io.tx /\ c.delay = io.delay
      /\ c.ready = io.ready /\ c.valid = FALSE /\ c.done = io.done
      /\ c = [state |-> c.state, flag |-> c.flag, rx |-> c.rx, tx |-> c.tx,
              delay |-> c.delay, ready |-> c.ready, valid |-> c.valid, done |-> c.done,
              data |-> c.data, add |-> c.add, word |-> c.word]
  BY ONLY <1>3 DEF Io
<1>5. IoShape(c)
  <2>1. next \in 0 .. 3
    BY <1>1 DEF next
  <2> QED BY <2>1, <1>1, <1>4 DEF IoShape
<1>6. Len(c.tx) = Len(io.tx) + 0
  BY <1>4, EmptyIffZero DEF IoShape
<1>7. Moves(c.state, c.flag, c.delay, c.ready, c.done, 0)
  BY <1>1, <1>4, <1>5, <1>6, AddsNone, Zenon
<1> QED BY <1>1, <1>4, <1>7 DEF Writes, Moves, next

\* The I/O buffer's edge while it waits for the DDR3 controller.
LEMMA WaitSteps ==
  ASSUME IoShape(io), P!IoWait
  PROVE  Waiting
<1> DEFINE r == P!Received
           words == r.rx
           c == r
<1>1. /\ io.delay = 0 /\ io.state \in {"read", "readWord", "writeWord", "write"}
      /\ io.state = "read" => io.flag # 3
      /\ io' = P!Sent(c) /\ ddr3' = ddr3
  BY DEF P!IoWait, P!Stepping, P!Quietly
<1>2. r = Io(io.state, io.flag, words, io.tx, io.delay, io.ready, io.done, io.data, io.add, io.word)
  BY ReceivedFacts
<1> HIDE DEF r, words
<1>b. c = r
  OBVIOUS
<1> HIDE DEF c
<1>3. c = Io(io.state, io.flag, words, io.tx, io.delay, io.ready, io.done, io.data, io.add, io.word)
  BY ONLY <1>2, <1>b DEF Io
<1>4. /\ c.state = io.state /\ c.flag = io.flag /\ c.tx = io.tx /\ c.delay = io.delay
      /\ c.ready = io.ready /\ c.valid = FALSE /\ c.done = io.done
      /\ c = [state |-> c.state, flag |-> c.flag, rx |-> c.rx, tx |-> c.tx,
              delay |-> c.delay, ready |-> c.ready, valid |-> c.valid, done |-> c.done,
              data |-> c.data, add |-> c.add, word |-> c.word]
  BY ONLY <1>3 DEF Io
<1>5. IoShape(c)
  <2>1. c.state \in IoStates /\ c.flag \in 0 .. 3 /\ c.delay \in 0 .. 4
    BY <1>1, <1>4 DEF IoShape, IoStates
  <2> QED BY <2>1, <1>4 DEF IoShape
<1>6. Len(c.tx) = Len(io.tx) + 0
  BY <1>4, EmptyIffZero DEF IoShape
<1>7. Moves(c.state, c.flag, c.delay, c.ready, c.done, 0)
  BY <1>1, <1>4, <1>5, <1>6, AddsNone, Zenon
<1> QED BY <1>1, <1>4, <1>7 DEF Waiting, Moves

\* The I/O buffer's edge when its done is cleared.
LEMMA ClearedSteps ==
  ASSUME IoShape(io), P!IoWaitClear, clear
  PROVE  Acknowledges
<1> DEFINE r == P!Received
           words == r.rx
           c == [r EXCEPT !.done = FALSE, !.state = "idle", !.delay = 2]
<1>1. /\ io.delay = 0 /\ io.state = "waitClear"
      /\ io' = P!Sent(c) /\ ddr3' = ddr3
  BY DEF P!IoWaitClear, P!Stepping, P!Quietly, P!ClearDelay
<1>2. r = Io(io.state, io.flag, words, io.tx, io.delay, io.ready, io.done, io.data, io.add, io.word)
  BY ReceivedFacts
<1> HIDE DEF r, words
<1>b. c = [r EXCEPT !.done = FALSE, !.state = "idle", !.delay = 2]
  OBVIOUS
<1> HIDE DEF c
<1>3. c = Io("idle", io.flag, words, io.tx, 2, io.ready, FALSE, io.data, io.add, io.word)
  BY ONLY <1>2, <1>b DEF Io
<1>4. /\ c.state = "idle" /\ c.flag = io.flag /\ c.tx = io.tx /\ c.delay = 2
      /\ c.ready = io.ready /\ c.valid = FALSE /\ c.done = FALSE
      /\ c = [state |-> c.state, flag |-> c.flag, rx |-> c.rx, tx |-> c.tx,
              delay |-> c.delay, ready |-> c.ready, valid |-> c.valid, done |-> c.done,
              data |-> c.data, add |-> c.add, word |-> c.word]
  BY ONLY <1>3 DEF Io
<1>5. IoShape(c)
  <2>1. c.state \in IoStates /\ c.flag \in 0 .. 3 /\ c.delay \in 0 .. 4
    BY <1>1, <1>4 DEF IoShape, IoStates
  <2> QED BY <2>1, <1>4 DEF IoShape
<1>6. Len(c.tx) = Len(io.tx) + 0
  BY <1>4, EmptyIffZero DEF IoShape
<1>7. Moves(c.state, c.flag, c.delay, c.ready, c.done, 0)
  BY <1>1, <1>4, <1>5, <1>6, AddsNone, Zenon
<1> QED BY <1>1, <1>4, <1>7 DEF Acknowledges, Moves

\* The I/O buffer's edge while it waits for that.
LEMMA NotClearedSteps ==
  ASSUME IoShape(io), P!IoWaitClear, ~clear
  PROVE  Acknowledges
<1> DEFINE r == P!Received
           words == r.rx
           c == [r EXCEPT !.done = TRUE]
<1>1. /\ io.delay = 0 /\ io.state = "waitClear"
      /\ io' = P!Sent(c) /\ ddr3' = ddr3
  BY DEF P!IoWaitClear, P!Stepping, P!Quietly
<1>2. r = Io(io.state, io.flag, words, io.tx, io.delay, io.ready, io.done, io.data, io.add, io.word)
  BY ReceivedFacts
<1> HIDE DEF r, words
<1>b. c = [r EXCEPT !.done = TRUE]
  OBVIOUS
<1> HIDE DEF c
<1>3. c = Io(io.state, io.flag, words, io.tx, io.delay, io.ready, TRUE, io.data, io.add, io.word)
  BY ONLY <1>2, <1>b DEF Io
<1>4. /\ c.state = io.state /\ c.flag = io.flag /\ c.tx = io.tx /\ c.delay = io.delay
      /\ c.ready = io.ready /\ c.valid = FALSE /\ c.done = TRUE
      /\ c = [state |-> c.state, flag |-> c.flag, rx |-> c.rx, tx |-> c.tx,
              delay |-> c.delay, ready |-> c.ready, valid |-> c.valid, done |-> c.done,
              data |-> c.data, add |-> c.add, word |-> c.word]
  BY ONLY <1>3 DEF Io
<1>5. IoShape(c)
  <2>1. c.state \in IoStates /\ c.flag \in 0 .. 3 /\ c.delay \in 0 .. 4
    BY <1>1, <1>4 DEF IoShape, IoStates
  <2> QED BY <2>1, <1>4 DEF IoShape
<1>6. Len(c.tx) = Len(io.tx) + 0
  BY <1>4, EmptyIffZero DEF IoShape
<1>7. Moves(c.state, c.flag, c.delay, c.ready, c.done, 0)
  BY <1>1, <1>4, <1>5, <1>6, AddsNone, Zenon
<1> QED BY <1>1, <1>4, <1>7 DEF Acknowledges, Moves

\* The buffer's edge is one of these steps.
IoSteps == \/ Delays \/ Rests \/ Accepts \/ ReadsBurst \/ ReadsNext \/ Completes
           \/ ReadsWord \/ Writes \/ Waiting \/ Acknowledges

\* The edge takes one of the steps and leaves the other buffers alone.
LEMMA IoEdgeSteps ==
  ASSUME IoShape(io), P!IoEdge
  PROVE  IoSteps /\ UNCHANGED <<tx, bus, rx, clear>>
BY DelaySteps, IdleSteps, AcceptSteps, ReadBurstSteps, ReadNextSteps, EndSteps,
   ReadWordSteps, FetchSteps, WriteWordSteps, WriteBurstSteps, WaitSteps,
   ClearedSteps, NotClearedSteps, Zenon DEF P!IoEdge, IoSteps

-----------------------------------------------------------------------------
(* The controller.                                                          *)

Ctl(st, nt, rq, rf, do, pt, wb, ad, ca) ==
  [state |-> st, nTransfer |-> nt, reqFlag |-> rq, rwFlag |-> rf, done |-> do,
   ptr |-> pt, writebackFlag |-> wb, addWriteback |-> ad, cacheAdd |-> ca]

\* Its registers and its strobes.
CtlShape(c) ==
  /\ c = Ctl(c.state, c.nTransfer, c.reqFlag, c.rwFlag, c.done, c.ptr, c.writebackFlag,
             c.addWriteback, c.cacheAdd)
  /\ c.reqFlag \in BOOLEAN /\ c.done \in BOOLEAN /\ c.writebackFlag \in BOOLEAN

Out(rd, wr, w, pu, ack, cam) ==
  [read |-> rd, write |-> wr, wr |-> w, push |-> pu, ack |-> ack, cam |-> cam]

OutShape(o) ==
  /\ o = [read |-> o.read, write |-> o.write, wr |-> o.wr, push |-> o.push,
          ack |-> o.ack, cam |-> o.cam]
  /\ o.ack \in BOOLEAN

\* The strobes of a cycle that asks for nothing.
LEMMA QuietOut == Quiet = Out(NoBlock, NoBlock, NoWord, NoWord, FALSE, FALSE)
BY DEF Quiet, Out

\* The registers and strobes after an enabled edge; wb says that a write-back is
\* pending, which is requested at once if the memory is ready.
Becomes(st, nt, rq, do, wb, rd, ack) ==
  /\ CtlShape(ctl')
  /\ ctl'.state = st /\ ctl'.nTransfer = nt /\ ctl'.reqFlag = rq /\ ctl'.done = do
  /\ ctl'.writebackFlag = (wb /\ ~io.ready)
  /\ out'.read = rd /\ out'.ack = ack
  /\ out'.write # NoBlock => wb /\ io.ready

\* The writeback block at the end of a cycle.
LEMMA FinishBecomes ==
  ASSUME NEW c, CtlShape(c), NEW o, OutShape(o), o.write = NoBlock,
         Finish(io.ready, c, o)
  PROVE  Becomes(c.state, c.nTransfer, c.reqFlag, c.done, c.writebackFlag, o.read, o.ack)
<1>1. CASE c.writebackFlag /\ io.ready
  <2>1. ctl' = [c EXCEPT !.writebackFlag = FALSE] /\ out' = [o EXCEPT !.write = c.addWriteback]
    BY <1>1, Zenon DEF Finish
  <2>2. c = Ctl(c.state, c.nTransfer, c.reqFlag, c.rwFlag, c.done, c.ptr, c.writebackFlag,
                c.addWriteback, c.cacheAdd)
    BY Zenon DEF CtlShape
  <2>3. ctl' = Ctl(c.state, c.nTransfer, c.reqFlag, c.rwFlag, c.done, c.ptr, FALSE,
                   c.addWriteback, c.cacheAdd)
    BY ONLY <2>1, <2>2 DEF Ctl
  <2>4. /\ ctl'.state = c.state /\ ctl'.nTransfer = c.nTransfer /\ ctl'.reqFlag = c.reqFlag
        /\ ctl'.done = c.done /\ ctl'.writebackFlag = FALSE
        /\ ctl' = Ctl(ctl'.state, ctl'.nTransfer, ctl'.reqFlag, ctl'.rwFlag, ctl'.done, ctl'.ptr,
                      ctl'.writebackFlag, ctl'.addWriteback, ctl'.cacheAdd)
    BY ONLY <2>3 DEF Ctl
  <2>5. o = [read |-> o.read, write |-> o.write, wr |-> o.wr, push |-> o.push,
             ack |-> o.ack, cam |-> o.cam]
    BY Zenon DEF OutShape
  <2>6. out'.read = o.read /\ out'.ack = o.ack
    BY ONLY <2>1, <2>5
  <2> QED BY <1>1, <2>4, <2>6 DEF Becomes, CtlShape
<1>2. CASE ~(c.writebackFlag /\ io.ready)
  <2>1. ctl' = c /\ out' = o
    BY <1>2, Zenon DEF Finish
  <2> QED BY <1>2, <2>1 DEF Becomes, CtlShape
<1> QED BY <1>1, <1>2

\* What an edge at 180 degrees does to them, action by action; NextTransfer and
\* LastWord are those of the controller.
TakesHit ==
  /\ ctl.state = "normal" /\ Active /\ lease.phase = phase
  /\ Becomes("normal", ctl.nTransfer, FALSE, TRUE, ctl.writebackFlag, NoBlock, FALSE)

TakesMiss ==
  /\ ctl.state = "normal" /\ Active /\ lease.phase = phase
  /\ Becomes("waitReady", ctl.nTransfer, TRUE, FALSE, ctl.writebackFlag, NoBlock, FALSE)

Interrupts ==
  /\ ctl.state = "normal" /\ lease.phase # phase
  /\ Becomes("requestLlt", ctl.nTransfer, ctl.reqFlag \/ core.req, FALSE, ctl.writebackFlag,
             NoBlock, FALSE)

RequestsConfig ==
  /\ ctl.state = "requestLlt" /\ io.ready
  /\ Becomes("transferLlt", ctl.nTransfer, ctl.reqFlag, ctl.done, ctl.writebackFlag,
             <<"config", phase>>, FALSE)

RequestsTable ==
  /\ ctl.state = "updateRequest" /\ io.ready
  /\ Becomes("updateService", ctl.nTransfer, ctl.reqFlag, ctl.done, ctl.writebackFlag,
             <<"table", phase, lease.counter \div W>>, FALSE)

TakesConfig ==
  /\ ctl.state = "transferLlt" /\ rx # <<>>
  /\ Becomes(IF LastWord THEN "updateRequest" ELSE "transferLlt", NextTransfer, ctl.reqFlag,
             ctl.done, ctl.writebackFlag, NoBlock, TRUE)

TakesTable ==
  /\ ctl.state = "updateService" /\ rx # <<>>
  /\ Becomes(IF TableDone THEN "normal" ELSE IF LastWord THEN "updateRequest" ELSE "updateService",
             NextTransfer, ctl.reqFlag, ctl.done \/ (TableDone /\ ~ctl.reqFlag),
             ctl.writebackFlag, NoBlock, TRUE)

TakesBlock ==
  /\ ctl.state = "readBuffer" /\ rx # <<>>
  /\ Becomes(IF LastWord THEN "normal" ELSE "readBuffer", NextTransfer, ctl.reqFlag, ctl.done,
             ctl.writebackFlag, NoBlock, TRUE)

TakesSingle ==
  /\ ctl.state = "noSwapRead" /\ rx # <<>>
  /\ Becomes("normal", ctl.nTransfer, ctl.reqFlag, TRUE, ctl.writebackFlag, NoBlock, TRUE)

RequestsBlock ==
  /\ ctl.state = "waitReady" /\ io.ready /\ ~ctl.writebackFlag
  /\ Becomes("waitReplacement", ctl.nTransfer, ctl.reqFlag, ctl.done, ctl.writebackFlag,
             core.block, FALSE)

RequestsSingle ==
  /\ ctl.state = "waitReady" /\ io.ready /\ ~ctl.writebackFlag
  /\ Becomes("noSwapRead", ctl.nTransfer, FALSE, ctl.done, ctl.writebackFlag,
             core.block, FALSE)

TakesLine ==
  /\ ctl.state = "waitReplacement"
  /\ \E st \in {"writeBuffer", "readBuffer"} :
       Becomes(st, ctl.nTransfer, ctl.reqFlag, ctl.done, ctl.writebackFlag, NoBlock, FALSE)

Pushes ==
  /\ ctl.state = "writeBuffer"
  /\ Becomes(IF LastWord THEN "readBuffer" ELSE "writeBuffer", NextTransfer, ctl.reqFlag,
             ctl.done, FirstWord \/ ctl.writebackFlag, NoBlock, FALSE)

StaysPut ==
  /\ ctl.state = "normal" => lease.phase = phase /\ ~Active
  /\ Becomes(ctl.state, ctl.nTransfer, ctl.reqFlag, ctl.done, ctl.writebackFlag, NoBlock, FALSE)

\* The outcome of a hit.
LEMMA HitSteps ==
  ASSUME CtlShape(ctl), LeaseHit(io.ready, phase)
  PROVE  TakesHit
<1> DEFINE ca == <<CamAddr, core.word>>
           store == IF ctl.reqFlag THEN ctl.rwFlag ELSE core.rw
           x == IF store THEN core.data ELSE NoWord
           c == [ctl EXCEPT !.reqFlag = FALSE, !.done = TRUE, !.cacheAdd = ca]
           o == [Quiet EXCEPT !.wr = x]
<1>1. /\ ctl.state = "normal" /\ Active /\ lease.phase = phase
      /\ Finish(io.ready, c, o)
  BY DEF LeaseHit, Interrupted, Hit
<1>2. ctl = Ctl(ctl.state, ctl.nTransfer, ctl.reqFlag, ctl.rwFlag, ctl.done, ctl.ptr,
                ctl.writebackFlag, ctl.addWriteback, ctl.cacheAdd)
  BY Zenon DEF CtlShape
<1>3. c = [ctl EXCEPT !.reqFlag = FALSE, !.done = TRUE, !.cacheAdd = ca]
  OBVIOUS
<1> HIDE DEF c, ca, store, x
<1>12. Quiet = Out(NoBlock, NoBlock, NoWord, NoWord, FALSE, FALSE) /\ o = [Quiet EXCEPT !.wr = x]
  BY QuietOut
<1> HIDE DEF o
<1>4. o = Out(NoBlock, NoBlock, x, NoWord, FALSE, FALSE)
  BY ONLY <1>12 DEF Out
<1>5. c = Ctl(ctl.state, ctl.nTransfer, FALSE, ctl.rwFlag, TRUE,
               ctl.ptr, ctl.writebackFlag, ctl.addWriteback, ca)
  BY ONLY <1>2, <1>3 DEF Ctl
<1>6. /\ c.state = ctl.state /\ c.nTransfer = ctl.nTransfer /\ c.reqFlag = FALSE
      /\ c.done = TRUE /\ c.writebackFlag = ctl.writebackFlag
      /\ c = Ctl(c.state, c.nTransfer, c.reqFlag, c.rwFlag, c.done, c.ptr, c.writebackFlag,
                 c.addWriteback, c.cacheAdd)
  BY ONLY <1>5 DEF Ctl
<1>7. CtlShape(c)
  BY <1>6, <1>1 DEF CtlShape
<1>8. /\ o.read = NoBlock /\ o.ack = FALSE /\ o.write = NoBlock
      /\ o = [read |-> o.read, write |-> o.write, wr |-> o.wr, push |-> o.push,
              ack |-> o.ack, cam |-> o.cam]
  BY ONLY <1>4 DEF Out
<1>9. OutShape(o)
  BY <1>8 DEF OutShape
<1>10. Becomes(c.state, c.nTransfer, c.reqFlag, c.done, c.writebackFlag, o.read, o.ack)
  BY <1>1, <1>7, <1>8, <1>9, FinishBecomes, Zenon
<1> QED BY <1>1, <1>6, <1>8, <1>10 DEF TakesHit, Becomes

\* The outcome of a miss.
LEMMA MissSteps ==
  ASSUME CtlShape(ctl), LeaseMiss(io.ready, phase)
  PROVE  TakesMiss
<1> DEFINE c == [ctl EXCEPT !.reqFlag = TRUE, !.rwFlag = core.rw, !.done = FALSE,
                        !.state = "waitReady"]
           o == Quiet
<1>1. /\ ctl.state = "normal" /\ Active /\ lease.phase = phase
      /\ Finish(io.ready, c, o)
  BY DEF LeaseMiss, Interrupted, Miss
<1>2. ctl = Ctl(ctl.state, ctl.nTransfer, ctl.reqFlag, ctl.rwFlag, ctl.done, ctl.ptr,
                ctl.writebackFlag, ctl.addWriteback, ctl.cacheAdd)
  BY Zenon DEF CtlShape
<1>3. c = [ctl EXCEPT !.reqFlag = TRUE, !.rwFlag = core.rw, !.done = FALSE,
                        !.state = "waitReady"]
  OBVIOUS
<1> HIDE DEF c
<1>12. Quiet = Out(NoBlock, NoBlock, NoWord, NoWord, FALSE, FALSE) /\ o = Quiet
  BY QuietOut
<1> HIDE DEF o
<1>4. o = Out(NoBlock, NoBlock, NoWord, NoWord, FALSE, FALSE)
  BY ONLY <1>12 DEF Out
<1>5. c = Ctl("waitReady", ctl.nTransfer, TRUE, core.rw, FALSE,
               ctl.ptr, ctl.writebackFlag, ctl.addWriteback, ctl.cacheAdd)
  BY ONLY <1>2, <1>3 DEF Ctl
<1>6. /\ c.state = "waitReady" /\ c.nTransfer = ctl.nTransfer /\ c.reqFlag = TRUE
      /\ c.done = FALSE /\ c.writebackFlag = ctl.writebackFlag
      /\ c = Ctl(c.state, c.nTransfer, c.reqFlag, c.rwFlag, c.done, c.ptr, c.writebackFlag,
                 c.addWriteback, c.cacheAdd)
  BY ONLY <1>5 DEF Ctl
<1>7. CtlShape(c)
  BY <1>6, <1>1 DEF CtlShape
<1>8. /\ o.read = NoBlock /\ o.ack = FALSE /\ o.write = NoBlock
      /\ o = [read |-> o.read, write |-> o.write, wr |-> o.wr, push |-> o.push,
              ack |-> o.ack, cam |-> o.cam]
  BY ONLY <1>4 DEF Out
<1>9. OutShape(o)
  BY <1>8 DEF OutShape
<1>10. Becomes(c.state, c.nTransfer, c.reqFlag, c.done, c.writebackFlag, o.read, o.ack)
  BY <1>1, <1>7, <1>8, <1>9, FinishBecomes, Zenon
<1> QED BY <1>1, <1>6, <1>8, <1>10 DEF TakesMiss, Becomes

\* The outcome of a change of the phase.
LEMMA InterruptSteps ==
  ASSUME CtlShape(ctl), PhaseInterrupt(io.ready, phase)
  PROVE  Interrupts
<1> DEFINE rq == ctl.reqFlag \/ core.req
           rf == IF core.req THEN core.rw ELSE ctl.rwFlag
           c == [ctl EXCEPT !.done = FALSE, !.state = "requestLlt", !.reqFlag = rq,
                        !.rwFlag = rf]
           o == Quiet
<1>1. /\ ctl.state = "normal" /\ lease.phase # phase
      /\ Finish(io.ready, c, o)
  BY DEF PhaseInterrupt, Interrupted
<1>2. ctl = Ctl(ctl.state, ctl.nTransfer, ctl.reqFlag, ctl.rwFlag, ctl.done, ctl.ptr,
                ctl.writebackFlag, ctl.addWriteback, ctl.cacheAdd)
  BY Zenon DEF CtlShape
<1>3. c = [ctl EXCEPT !.done = FALSE, !.state = "requestLlt", !.reqFlag = rq,
                        !.rwFlag = rf]
  OBVIOUS
<1> HIDE DEF c, rq, rf
<1>12. Quiet = Out(NoBlock, NoBlock, NoWord, NoWord, FALSE, FALSE) /\ o = Quiet
  BY QuietOut
<1> HIDE DEF o
<1>4. o = Out(NoBlock, NoBlock, NoWord, NoWord, FALSE, FALSE)
  BY ONLY <1>12 DEF Out
<1>5. c = Ctl("requestLlt", ctl.nTransfer, rq, rf, FALSE,
               ctl.ptr, ctl.writebackFlag, ctl.addWriteback, ctl.cacheAdd)
  BY ONLY <1>2, <1>3 DEF Ctl
<1>6. /\ c.state = "requestLlt" /\ c.nTransfer = ctl.nTransfer /\ c.reqFlag = rq
      /\ c.done = FALSE /\ c.writebackFlag = ctl.writebackFlag
      /\ c = Ctl(c.state, c.nTransfer, c.reqFlag, c.rwFlag, c.done, c.ptr, c.writebackFlag,
                 c.addWriteback, c.cacheAdd)
  BY ONLY <1>5 DEF Ctl
<1>7. CtlShape(c)
  BY <1>6, <1>1 DEF CtlShape, rq
<1>8. /\ o.read = NoBlock /\ o.ack = FALSE /\ o.write = NoBlock
      /\ o = [read |-> o.read, write |-> o.write, wr |-> o.wr, push |-> o.push,
              ack |-> o.ack, cam |-> o.cam]
  BY ONLY <1>4 DEF Out
<1>9. OutShape(o)
  BY <1>8 DEF OutShape
<1>10. Becomes(c.state, c.nTransfer, c.reqFlag, c.done, c.writebackFlag, o.read, o.ack)
  BY <1>1, <1>7, <1>8, <1>9, FinishBecomes, Zenon
<1> QED BY <1>1, <1>6, <1>8, <1>10 DEF Interrupts, Becomes, rq

\* The outcome of the request of the configuration block.
LEMMA ConfigRequestSteps ==
  ASSUME CtlShape(ctl), RequestTable(io.ready, phase), ctl.state = "requestLlt"
  PROVE  RequestsConfig
<1> DEFINE b == <<"config", phase>>
           c == [ctl EXCEPT !.state = "transferLlt"]
           o == [Quiet EXCEPT !.read = b]
<1>1. /\ ctl.state = "requestLlt" /\ io.ready
      /\ Finish(io.ready, c, o)
  BY DEF RequestTable
<1>2. ctl = Ctl(ctl.state, ctl.nTransfer, ctl.reqFlag, ctl.rwFlag, ctl.done, ctl.ptr,
                ctl.writebackFlag, ctl.addWriteback, ctl.cacheAdd)
  BY Zenon DEF CtlShape
<1>3. c = [ctl EXCEPT !.state = "transferLlt"]
  OBVIOUS
<1> HIDE DEF c, b
<1>12. Quiet = Out(NoBlock, NoBlock, NoWord, NoWord, FALSE, FALSE) /\ o = [Quiet EXCEPT !.read = b]
  BY QuietOut
<1> HIDE DEF o
<1>4. o = Out(b, NoBlock, NoWord, NoWord, FALSE, FALSE)
  BY ONLY <1>12 DEF Out
<1>5. c = Ctl("transferLlt", ctl.nTransfer, ctl.reqFlag, ctl.rwFlag, ctl.done,
               ctl.ptr, ctl.writebackFlag, ctl.addWriteback, ctl.cacheAdd)
  BY ONLY <1>2, <1>3 DEF Ctl
<1>6. /\ c.state = "transferLlt" /\ c.nTransfer = ctl.nTransfer /\ c.reqFlag = ctl.reqFlag
      /\ c.done = ctl.done /\ c.writebackFlag = ctl.writebackFlag
      /\ c = Ctl(c.state, c.nTransfer, c.reqFlag, c.rwFlag, c.done, c.ptr, c.writebackFlag,
                 c.addWriteback, c.cacheAdd)
  BY ONLY <1>5 DEF Ctl
<1>7. CtlShape(c)
  BY <1>6, <1>1 DEF CtlShape
<1>8. /\ o.read = b /\ o.ack = FALSE /\ o.write = NoBlock
      /\ o = [read |-> o.read, write |-> o.write, wr |-> o.wr, push |-> o.push,
              ack |-> o.ack, cam |-> o.cam]
  BY ONLY <1>4 DEF Out
<1>9. OutShape(o)
  BY <1>8 DEF OutShape
<1>10. Becomes(c.state, c.nTransfer, c.reqFlag, c.done, c.writebackFlag, o.read, o.ack)
  BY <1>1, <1>7, <1>8, <1>9, FinishBecomes, Zenon
<1> QED BY <1>1, <1>6, <1>8, <1>10 DEF RequestsConfig, Becomes, b

\* The outcome of the request of a block of the table.
LEMMA TableRequestSteps ==
  ASSUME CtlShape(ctl), RequestTable(io.ready, phase), ctl.state # "requestLlt"
  PROVE  RequestsTable
<1> DEFINE b == <<"table", phase, lease.counter \div W>>
           c == [ctl EXCEPT !.state = "updateService"]
           o == [Quiet EXCEPT !.read = b]
<1>1. /\ ctl.state = "updateRequest" /\ io.ready
      /\ Finish(io.ready, c, o)
  BY DEF RequestTable
<1>2. ctl = Ctl(ctl.state, ctl.nTransfer, ctl.reqFlag, ctl.rwFlag, ctl.done, ctl.ptr,
                ctl.writebackFlag, ctl.addWriteback, ctl.cacheAdd)
  BY Zenon DEF CtlShape
<1>3. c = [ctl EXCEPT !.state = "updateService"]
  OBVIOUS
<1> HIDE DEF c, b
<1>12. Quiet = Out(NoBlock, NoBlock, NoWord, NoWord, FALSE, FALSE) /\ o = [Quiet EXCEPT !.read = b]
  BY QuietOut
<1> HIDE DEF o
<1>4. o = Out(b, NoBlock, NoWord, NoWord, FALSE, FALSE)
  BY ONLY <1>12 DEF Out
<1>5. c = Ctl("updateService", ctl.nTransfer, ctl.reqFlag, ctl.rwFlag, ctl.done,
               ctl.ptr, ctl.writebackFlag, ctl.addWriteback, ctl.cacheAdd)
  BY ONLY <1>2, <1>3 DEF Ctl
<1>6. /\ c.state = "updateService" /\ c.nTransfer = ctl.nTransfer /\ c.reqFlag = ctl.reqFlag
      /\ c.done = ctl.done /\ c.writebackFlag = ctl.writebackFlag
      /\ c = Ctl(c.state, c.nTransfer, c.reqFlag, c.rwFlag, c.done, c.ptr, c.writebackFlag,
                 c.addWriteback, c.cacheAdd)
  BY ONLY <1>5 DEF Ctl
<1>7. CtlShape(c)
  BY <1>6, <1>1 DEF CtlShape
<1>8. /\ o.read = b /\ o.ack = FALSE /\ o.write = NoBlock
      /\ o = [read |-> o.read, write |-> o.write, wr |-> o.wr, push |-> o.push,
              ack |-> o.ack, cam |-> o.cam]
  BY ONLY <1>4 DEF Out
<1>9. OutShape(o)
  BY <1>8 DEF OutShape
<1>10. Becomes(c.state, c.nTransfer, c.reqFlag, c.done, c.writebackFlag, o.read, o.ack)
  BY <1>1, <1>7, <1>8, <1>9, FinishBecomes, Zenon
<1> QED BY <1>1, <1>6, <1>8, <1>10 DEF RequestsTable, Becomes, b

\* The outcome of a word of the configuration.
LEMMA ConfigSteps ==
  ASSUME CtlShape(ctl), NEW d, TransferConfig(io.ready, rx # <<>>, d)
  PROVE  TakesConfig
<1> DEFINE nt == NextTransfer
           st == IF LastWord THEN "updateRequest" ELSE ctl.state
           c == [ctl EXCEPT !.nTransfer = nt, !.state = st]
           o == [Quiet EXCEPT !.ack = TRUE]
<1>1. /\ ctl.state = "transferLlt" /\ rx # <<>>
      /\ Finish(io.ready, c, o)
  BY DEF TransferConfig
<1>2. ctl = Ctl(ctl.state, ctl.nTransfer, ctl.reqFlag, ctl.rwFlag, ctl.done, ctl.ptr,
                ctl.writebackFlag, ctl.addWriteback, ctl.cacheAdd)
  BY Zenon DEF CtlShape
<1>3. c = [ctl EXCEPT !.nTransfer = nt, !.state = st]
  OBVIOUS
<1> HIDE DEF c, nt, st
<1>12. /\ Quiet = Out(NoBlock, NoBlock, NoWord, NoWord, FALSE, FALSE)
       /\ o = [Quiet EXCEPT !.ack = TRUE]
  BY QuietOut
<1> HIDE DEF o
<1>4. o = Out(NoBlock, NoBlock, NoWord, NoWord, TRUE, FALSE)
  BY ONLY <1>12 DEF Out
<1>5. c = Ctl(st, nt, ctl.reqFlag, ctl.rwFlag, ctl.done,
               ctl.ptr, ctl.writebackFlag, ctl.addWriteback, ctl.cacheAdd)
  BY ONLY <1>2, <1>3 DEF Ctl
<1>6. /\ c.state = st /\ c.nTransfer = nt /\ c.reqFlag = ctl.reqFlag
      /\ c.done = ctl.done /\ c.writebackFlag = ctl.writebackFlag
      /\ c = Ctl(c.state, c.nTransfer, c.reqFlag, c.rwFlag, c.done, c.ptr, c.writebackFlag,
                 c.addWriteback, c.cacheAdd)
  BY ONLY <1>5 DEF Ctl
<1>7. CtlShape(c)
  BY <1>6, <1>1 DEF CtlShape
<1>8. /\ o.read = NoBlock /\ o.ack = TRUE /\ o.write = NoBlock
      /\ o = [read |-> o.read, write |-> o.write, wr |-> o.wr, push |-> o.push,
              ack |-> o.ack, cam |-> o.cam]
  BY ONLY <1>4 DEF Out
<1>9. OutShape(o)
  BY <1>8 DEF OutShape
<1>10. Becomes(c.state, c.nTransfer, c.reqFlag, c.done, c.writebackFlag, o.read, o.ack)
  BY <1>1, <1>7, <1>8, <1>9, FinishBecomes, Zenon
<1> QED BY <1>1, <1>6, <1>8, <1>10 DEF TakesConfig, Becomes, nt, st

\* The outcome of a word of the table.
LEMMA TableSteps ==
  ASSUME CtlShape(ctl), NEW d, EnterTable(io.ready, rx # <<>>, d)
  PROVE  TakesTable
<1> DEFINE nt == NextTransfer
           st == IF TableDone THEN "normal"
                 ELSE IF LastWord THEN "updateRequest" ELSE ctl.state
           do == ctl.done \/ (TableDone /\ ~ctl.reqFlag)
           c == [ctl EXCEPT !.nTransfer = nt, !.state = st, !.done = do]
           o == [Quiet EXCEPT !.ack = TRUE]
<1>1. /\ ctl.state = "updateService" /\ rx # <<>>
      /\ Finish(io.ready, c, o)
  BY DEF EnterTable, Resume
<1>2. ctl = Ctl(ctl.state, ctl.nTransfer, ctl.reqFlag, ctl.rwFlag, ctl.done, ctl.ptr,
                ctl.writebackFlag, ctl.addWriteback, ctl.cacheAdd)
  BY Zenon DEF CtlShape
<1>3. c = [ctl EXCEPT !.nTransfer = nt, !.state = st, !.done = do]
  OBVIOUS
<1> HIDE DEF c, nt, st, do
<1>12. /\ Quiet = Out(NoBlock, NoBlock, NoWord, NoWord, FALSE, FALSE)
       /\ o = [Quiet EXCEPT !.ack = TRUE]
  BY QuietOut
<1> HIDE DEF o
<1>4. o = Out(NoBlock, NoBlock, NoWord, NoWord, TRUE, FALSE)
  BY ONLY <1>12 DEF Out
<1>5. c = Ctl(st, nt, ctl.reqFlag, ctl.rwFlag, do,
               ctl.ptr, ctl.writebackFlag, ctl.addWriteback, ctl.cacheAdd)
  BY ONLY <1>2, <1>3 DEF Ctl
<1>6. /\ c.state = st /\ c.nTransfer = nt /\ c.reqFlag = ctl.reqFlag
      /\ c.done = do /\ c.writebackFlag = ctl.writebackFlag
      /\ c = Ctl(c.state, c.nTransfer, c.reqFlag, c.rwFlag, c.done, c.ptr, c.writebackFlag,
                 c.addWriteback, c.cacheAdd)
  BY ONLY <1>5 DEF Ctl
<1>7. CtlShape(c)
  BY <1>6, <1>1 DEF CtlShape, do
<1>8. /\ o.read = NoBlock /\ o.ack = TRUE /\ o.write = NoBlock
      /\ o = [read |-> o.read, write |-> o.write, wr |-> o.wr, push |-> o.push,
              ack |-> o.ack, cam |-> o.cam]
  BY ONLY <1>4 DEF Out
<1>9. OutShape(o)
  BY <1>8 DEF OutShape
<1>10. Becomes(c.state, c.nTransfer, c.reqFlag, c.done, c.writebackFlag, o.read, o.ack)
  BY <1>1, <1>7, <1>8, <1>9, FinishBecomes, Zenon
<1> QED BY <1>1, <1>6, <1>8, <1>10 DEF TakesTable, Becomes, nt, st, do

\* The outcome of a word of a block that is cached.
LEMMA FillSteps ==
  ASSUME CtlShape(ctl), NEW d, FillWord(io.ready, rx # <<>>, d)
  PROVE  TakesBlock
<1> DEFINE nt == NextTransfer
           ca == <<ctl.ptr, ctl.nTransfer>>
           st == IF LastWord THEN "normal" ELSE ctl.state
           c == [ctl EXCEPT !.nTransfer = nt, !.cacheAdd = ca, !.state = st]
           o == [Quiet EXCEPT !.ack = TRUE, !.wr = d, !.cam = LastWord]
<1>1. /\ ctl.state = "readBuffer" /\ rx # <<>>
      /\ Finish(io.ready, c, o)
  BY DEF FillWord
<1>2. ctl = Ctl(ctl.state, ctl.nTransfer, ctl.reqFlag, ctl.rwFlag, ctl.done, ctl.ptr,
                ctl.writebackFlag, ctl.addWriteback, ctl.cacheAdd)
  BY Zenon DEF CtlShape
<1>3. c = [ctl EXCEPT !.nTransfer = nt, !.cacheAdd = ca, !.state = st]
  OBVIOUS
<1> HIDE DEF c, nt, ca, st
<1>12. /\ Quiet = Out(NoBlock, NoBlock, NoWord, NoWord, FALSE, FALSE)
       /\ o = [Quiet EXCEPT !.ack = TRUE, !.wr = d, !.cam = LastWord]
  BY QuietOut
<1> HIDE DEF o
<1>4. o = Out(NoBlock, NoBlock, d, NoWord, TRUE, LastWord)
  BY ONLY <1>12 DEF Out
<1>5. c = Ctl(st, nt, ctl.reqFlag, ctl.rwFlag, ctl.done,
               ctl.ptr, ctl.writebackFlag, ctl.addWriteback, ca)
  BY ONLY <1>2, <1>3 DEF Ctl
<1>6. /\ c.state = st /\ c.nTransfer = nt /\ c.reqFlag = ctl.reqFlag
      /\ c.done = ctl.done /\ c.writebackFlag = ctl.writebackFlag
      /\ c = Ctl(c.state, c.nTransfer, c.reqFlag, c.rwFlag, c.done, c.ptr, c.writebackFlag,
                 c.addWriteback, c.cacheAdd)
  BY ONLY <1>5 DEF Ctl
<1>7. CtlShape(c)
  BY <1>6, <1>1 DEF CtlShape
<1>8. /\ o.read = NoBlock /\ o.ack = TRUE /\ o.write = NoBlock
      /\ o = [read |-> o.read, write |-> o.write, wr |-> o.wr, push |-> o.push,
              ack |-> o.ack, cam |-> o.cam]
  BY ONLY <1>4 DEF Out
<1>9. OutShape(o)
  BY <1>8 DEF OutShape
<1>10. Becomes(c.state, c.nTransfer, c.reqFlag, c.done, c.writebackFlag, o.read, o.ack)
  BY <1>1, <1>7, <1>8, <1>9, FinishBecomes, Zenon
<1> QED BY <1>1, <1>6, <1>8, <1>10 DEF TakesBlock, Becomes, nt, st

\* The outcome of the word that is not cached.
LEMMA SingleSteps ==
  ASSUME CtlShape(ctl), NEW d, TakeWord(io.ready, rx # <<>>, d)
  PROVE  TakesSingle
<1> DEFINE c == [ctl EXCEPT !.done = TRUE, !.state = "normal"]
           o == [Quiet EXCEPT !.ack = TRUE]
<1>1. /\ ctl.state = "noSwapRead" /\ rx # <<>>
      /\ Finish(io.ready, c, o)
  BY DEF TakeWord
<1>2. ctl = Ctl(ctl.state, ctl.nTransfer, ctl.reqFlag, ctl.rwFlag, ctl.done, ctl.ptr,
                ctl.writebackFlag, ctl.addWriteback, ctl.cacheAdd)
  BY Zenon DEF CtlShape
<1>3. c = [ctl EXCEPT !.done = TRUE, !.state = "normal"]
  OBVIOUS
<1> HIDE DEF c
<1>12. /\ Quiet = Out(NoBlock, NoBlock, NoWord, NoWord, FALSE, FALSE)
       /\ o = [Quiet EXCEPT !.ack = TRUE]
  BY QuietOut
<1> HIDE DEF o
<1>4. o = Out(NoBlock, NoBlock, NoWord, NoWord, TRUE, FALSE)
  BY ONLY <1>12 DEF Out
<1>5. c = Ctl("normal", ctl.nTransfer, ctl.reqFlag, ctl.rwFlag, TRUE,
               ctl.ptr, ctl.writebackFlag, ctl.addWriteback, ctl.cacheAdd)
  BY ONLY <1>2, <1>3 DEF Ctl
<1>6. /\ c.state = "normal" /\ c.nTransfer = ctl.nTransfer /\ c.reqFlag = ctl.reqFlag
      /\ c.done = TRUE /\ c.writebackFlag = ctl.writebackFlag
      /\ c = Ctl(c.state, c.nTransfer, c.reqFlag, c.rwFlag, c.done, c.ptr, c.writebackFlag,
                 c.addWriteback, c.cacheAdd)
  BY ONLY <1>5 DEF Ctl
<1>7. CtlShape(c)
  BY <1>6, <1>1 DEF CtlShape
<1>8. /\ o.read = NoBlock /\ o.ack = TRUE /\ o.write = NoBlock
      /\ o = [read |-> o.read, write |-> o.write, wr |-> o.wr, push |-> o.push,
              ack |-> o.ack, cam |-> o.cam]
  BY ONLY <1>4 DEF Out
<1>9. OutShape(o)
  BY <1>8 DEF OutShape
<1>10. Becomes(c.state, c.nTransfer, c.reqFlag, c.done, c.writebackFlag, o.read, o.ack)
  BY <1>1, <1>7, <1>8, <1>9, FinishBecomes, Zenon
<1> QED BY <1>1, <1>6, <1>8, <1>10 DEF TakesSingle, Becomes

\* The outcome of the request of a block.
LEMMA BlockRequestSteps ==
  ASSUME CtlShape(ctl), RequestCached(io.ready)
  PROVE  RequestsBlock
<1> DEFINE c == [ctl EXCEPT !.state = "waitReplacement"]
           o == [Quiet EXCEPT !.read = core.block]
<1>1. /\ ctl.state = "waitReady" /\ io.ready /\ ~ctl.writebackFlag
      /\ ctl' = c /\ out' = o
  BY DEF RequestCached, Proceeds, RequestBlock, WritebackDone
<1>2. ctl = Ctl(ctl.state, ctl.nTransfer, ctl.reqFlag, ctl.rwFlag, ctl.done, ctl.ptr,
                ctl.writebackFlag, ctl.addWriteback, ctl.cacheAdd)
  BY Zenon DEF CtlShape
<1>3. c = [ctl EXCEPT !.state = "waitReplacement"]
  OBVIOUS
<1> HIDE DEF c
<1>12. /\ Quiet = Out(NoBlock, NoBlock, NoWord, NoWord, FALSE, FALSE)
       /\ o = [Quiet EXCEPT !.read = core.block]
  BY QuietOut
<1> HIDE DEF o
<1>4. o = Out(core.block, NoBlock, NoWord, NoWord, FALSE, FALSE)
  BY ONLY <1>12 DEF Out
<1>5. c = Ctl("waitReplacement", ctl.nTransfer, ctl.reqFlag, ctl.rwFlag, ctl.done,
               ctl.ptr, ctl.writebackFlag, ctl.addWriteback, ctl.cacheAdd)
  BY ONLY <1>2, <1>3 DEF Ctl
<1>6. /\ c.state = "waitReplacement" /\ c.nTransfer = ctl.nTransfer /\ c.reqFlag = ctl.reqFlag
      /\ c.done = ctl.done /\ c.writebackFlag = ctl.writebackFlag
      /\ c = Ctl(c.state, c.nTransfer, c.reqFlag, c.rwFlag, c.done, c.ptr, c.writebackFlag,
                 c.addWriteback, c.cacheAdd)
  BY ONLY <1>5 DEF Ctl
<1>7. CtlShape(c)
  BY <1>6, <1>1 DEF CtlShape
<1>8. /\ o.read = core.block /\ o.ack = FALSE /\ o.write = NoBlock
      /\ o = [read |-> o.read, write |-> o.write, wr |-> o.wr, push |-> o.push,
              ack |-> o.ack, cam |-> o.cam]
  BY ONLY <1>4 DEF Out
<1>9. OutShape(o)
  BY <1>8 DEF OutShape
<1>11. Finish(io.ready, c, o)
  BY <1>1, <1>6, Zenon DEF Finish
<1>10. Becomes(c.state, c.nTransfer, c.reqFlag, c.done, c.writebackFlag, o.read, o.ack)
  BY <1>11, <1>7, <1>8, <1>9, FinishBecomes, Zenon
<1> QED BY <1>1, <1>6, <1>8, <1>10 DEF RequestsBlock, Becomes

\* The outcome of the request of a single word.
LEMMA SingleRequestSteps ==
  ASSUME CtlShape(ctl), ReadWord(io.ready)
  PROVE  RequestsSingle
<1> DEFINE c == [ctl EXCEPT !.reqFlag = FALSE, !.state = "noSwapRead"]
           o == [Quiet EXCEPT !.read = core.block]
<1>1. /\ ctl.state = "waitReady" /\ io.ready /\ ~ctl.writebackFlag
      /\ ctl' = c /\ out' = o
  BY DEF ReadWord, Proceeds, WritebackDone
<1>2. ctl = Ctl(ctl.state, ctl.nTransfer, ctl.reqFlag, ctl.rwFlag, ctl.done, ctl.ptr,
                ctl.writebackFlag, ctl.addWriteback, ctl.cacheAdd)
  BY Zenon DEF CtlShape
<1>3. c = [ctl EXCEPT !.reqFlag = FALSE, !.state = "noSwapRead"]
  OBVIOUS
<1> HIDE DEF c
<1>12. /\ Quiet = Out(NoBlock, NoBlock, NoWord, NoWord, FALSE, FALSE)
       /\ o = [Quiet EXCEPT !.read = core.block]
  BY QuietOut
<1> HIDE DEF o
<1>4. o = Out(core.block, NoBlock, NoWord, NoWord, FALSE, FALSE)
  BY ONLY <1>12 DEF Out
<1>5. c = Ctl("noSwapRead", ctl.nTransfer, FALSE, ctl.rwFlag, ctl.done,
               ctl.ptr, ctl.writebackFlag, ctl.addWriteback, ctl.cacheAdd)
  BY ONLY <1>2, <1>3 DEF Ctl
<1>6. /\ c.state = "noSwapRead" /\ c.nTransfer = ctl.nTransfer /\ c.reqFlag = FALSE
      /\ c.done = ctl.done /\ c.writebackFlag = ctl.writebackFlag
      /\ c = Ctl(c.state, c.nTransfer, c.reqFlag, c.rwFlag, c.done, c.ptr, c.writebackFlag,
                 c.addWriteback, c.cacheAdd)
  BY ONLY <1>5 DEF Ctl
<1>7. CtlShape(c)
  BY <1>6, <1>1 DEF CtlShape
<1>8. /\ o.read = core.block /\ o.ack = FALSE /\ o.write = NoBlock
      /\ o = [read |-> o.read, write |-> o.write, wr |-> o.wr, push |-> o.push,
              ack |-> o.ack, cam |-> o.cam]
  BY ONLY <1>4 DEF Out
<1>9. OutShape(o)
  BY <1>8 DEF OutShape
<1>11. Finish(io.ready, c, o)
  BY <1>1, <1>6, Zenon DEF Finish
<1>10. Becomes(c.state, c.nTransfer, c.reqFlag, c.done, c.writebackFlag, o.read, o.ack)
  BY <1>11, <1>7, <1>8, <1>9, FinishBecomes, Zenon
<1> QED BY <1>1, <1>6, <1>8, <1>10 DEF RequestsSingle, Becomes

\* The outcome of a replacement of a dirty line.
LEMMA DirtySteps ==
  ASSUME CtlShape(ctl), NEW v, TakeReplacement(io.ready, v), v \in dirty
  PROVE  TakesLine
<1> DEFINE ca == <<v, 0>>
           c == [ctl EXCEPT !.ptr = v, !.cacheAdd = ca, !.state = "writeBuffer"]
           o == Quiet
<1>1. /\ ctl.state = "waitReplacement"
      /\ Finish(io.ready, c, o)
  BY DEF TakeReplacement, Replace
<1>2. ctl = Ctl(ctl.state, ctl.nTransfer, ctl.reqFlag, ctl.rwFlag, ctl.done, ctl.ptr,
                ctl.writebackFlag, ctl.addWriteback, ctl.cacheAdd)
  BY Zenon DEF CtlShape
<1>3. c = [ctl EXCEPT !.ptr = v, !.cacheAdd = ca, !.state = "writeBuffer"]
  OBVIOUS
<1> HIDE DEF c, ca
<1>12. Quiet = Out(NoBlock, NoBlock, NoWord, NoWord, FALSE, FALSE) /\ o = Quiet
  BY QuietOut
<1> HIDE DEF o
<1>4. o = Out(NoBlock, NoBlock, NoWord, NoWord, FALSE, FALSE)
  BY ONLY <1>12 DEF Out
<1>5. c = Ctl("writeBuffer", ctl.nTransfer, ctl.reqFlag, ctl.rwFlag, ctl.done, v,
               ctl.writebackFlag, ctl.addWriteback, ca)
  BY ONLY <1>2, <1>3 DEF Ctl
<1>6. /\ c.state = "writeBuffer" /\ c.nTransfer = ctl.nTransfer /\ c.reqFlag = ctl.reqFlag
      /\ c.done = ctl.done /\ c.writebackFlag = ctl.writebackFlag
      /\ c = Ctl(c.state, c.nTransfer, c.reqFlag, c.rwFlag, c.done, c.ptr, c.writebackFlag,
                 c.addWriteback, c.cacheAdd)
  BY ONLY <1>5 DEF Ctl
<1>7. CtlShape(c)
  BY <1>6, <1>1 DEF CtlShape
<1>8. /\ o.read = NoBlock /\ o.ack = FALSE /\ o.write = NoBlock
      /\ o = [read |-> o.read, write |-> o.write, wr |-> o.wr, push |-> o.push,
              ack |-> o.ack, cam |-> o.cam]
  BY ONLY <1>4 DEF Out
<1>9. OutShape(o)
  BY <1>8 DEF OutShape
<1>10. Becomes(c.state, c.nTransfer, c.reqFlag, c.done, c.writebackFlag, o.read, o.ack)
  BY <1>1, <1>7, <1>8, <1>9, FinishBecomes, Zenon
<1> QED BY <1>1, <1>6, <1>8, <1>10 DEF TakesLine, Becomes

\* The outcome of a replacement of a clean one.
LEMMA CleanSteps ==
  ASSUME CtlShape(ctl), NEW v, TakeReplacement(io.ready, v), v \notin dirty
  PROVE  TakesLine
<1> DEFINE c == [ctl EXCEPT !.ptr = v, !.state = "readBuffer"]
           o == Quiet
<1>1. /\ ctl.state = "waitReplacement"
      /\ Finish(io.ready, c, o)
  BY DEF TakeReplacement, Replace
<1>2. ctl = Ctl(ctl.state, ctl.nTransfer, ctl.reqFlag, ctl.rwFlag, ctl.done, ctl.ptr,
                ctl.writebackFlag, ctl.addWriteback, ctl.cacheAdd)
  BY Zenon DEF CtlShape
<1>3. c = [ctl EXCEPT !.ptr = v, !.state = "readBuffer"]
  OBVIOUS
<1> HIDE DEF c
<1>12. Quiet = Out(NoBlock, NoBlock, NoWord, NoWord, FALSE, FALSE) /\ o = Quiet
  BY QuietOut
<1> HIDE DEF o
<1>4. o = Out(NoBlock, NoBlock, NoWord, NoWord, FALSE, FALSE)
  BY ONLY <1>12 DEF Out
<1>5. c = Ctl("readBuffer", ctl.nTransfer, ctl.reqFlag, ctl.rwFlag, ctl.done, v,
               ctl.writebackFlag, ctl.addWriteback, ctl.cacheAdd)
  BY ONLY <1>2, <1>3 DEF Ctl
<1>6. /\ c.state = "readBuffer" /\ c.nTransfer = ctl.nTransfer /\ c.reqFlag = ctl.reqFlag
      /\ c.done = ctl.done /\ c.writebackFlag = ctl.writebackFlag
      /\ c = Ctl(c.state, c.nTransfer, c.reqFlag, c.rwFlag, c.done, c.ptr, c.writebackFlag,
                 c.addWriteback, c.cacheAdd)
  BY ONLY <1>5 DEF Ctl
<1>7. CtlShape(c)
  BY <1>6, <1>1 DEF CtlShape
<1>8. /\ o.read = NoBlock /\ o.ack = FALSE /\ o.write = NoBlock
      /\ o = [read |-> o.read, write |-> o.write, wr |-> o.wr, push |-> o.push,
              ack |-> o.ack, cam |-> o.cam]
  BY ONLY <1>4 DEF Out
<1>9. OutShape(o)
  BY <1>8 DEF OutShape
<1>10. Becomes(c.state, c.nTransfer, c.reqFlag, c.done, c.writebackFlag, o.read, o.ack)
  BY <1>1, <1>7, <1>8, <1>9, FinishBecomes, Zenon
<1> QED BY <1>1, <1>6, <1>8, <1>10 DEF TakesLine, Becomes

\* The outcome of a word pushed for the write-back.
LEMMA PushSteps ==
  ASSUME CtlShape(ctl), NEW w, PushWord(io.ready, w)
  PROVE  Pushes
<1> DEFINE nt == NextTransfer
           wb == FirstWord \/ ctl.writebackFlag
           ad == IF FirstWord THEN <<tagMem[ctl.ptr], core.block[2]>> ELSE ctl.addWriteback
           ca == IF LastWord THEN ctl.cacheAdd ELSE <<ctl.ptr, NextTransfer>>
           st == IF LastWord THEN "readBuffer" ELSE ctl.state
           c == [ctl EXCEPT !.writebackFlag = wb, !.addWriteback = ad, !.nTransfer = nt,
                        !.cacheAdd = ca, !.state = st]
           o == [Quiet EXCEPT !.push = CacheOut]
<1>1. /\ ctl.state = "writeBuffer"
      /\ Finish(io.ready, c, o)
  BY DEF PushWord, Pending
<1>2. ctl = Ctl(ctl.state, ctl.nTransfer, ctl.reqFlag, ctl.rwFlag, ctl.done, ctl.ptr,
                ctl.writebackFlag, ctl.addWriteback, ctl.cacheAdd)
  BY Zenon DEF CtlShape
<1>3. c = [ctl EXCEPT !.writebackFlag = wb, !.addWriteback = ad, !.nTransfer = nt,
                        !.cacheAdd = ca, !.state = st]
  OBVIOUS
<1> HIDE DEF c, nt, wb, ad, ca, st
<1>12. /\ Quiet = Out(NoBlock, NoBlock, NoWord, NoWord, FALSE, FALSE)
       /\ o = [Quiet EXCEPT !.push = CacheOut]
  BY QuietOut
<1> HIDE DEF o
<1>4. o = Out(NoBlock, NoBlock, NoWord, CacheOut, FALSE, FALSE)
  BY ONLY <1>12 DEF Out
<1>5. c = Ctl(st, nt, ctl.reqFlag, ctl.rwFlag, ctl.done, ctl.ptr, wb, ad, ca)
  BY ONLY <1>2, <1>3 DEF Ctl
<1>6. /\ c.state = st /\ c.nTransfer = nt /\ c.reqFlag = ctl.reqFlag
      /\ c.done = ctl.done /\ c.writebackFlag = wb
      /\ c = Ctl(c.state, c.nTransfer, c.reqFlag, c.rwFlag, c.done, c.ptr, c.writebackFlag,
                 c.addWriteback, c.cacheAdd)
  BY ONLY <1>5 DEF Ctl
<1>7. CtlShape(c)
  BY <1>6, <1>1 DEF CtlShape, wb
<1>8. /\ o.read = NoBlock /\ o.ack = FALSE /\ o.write = NoBlock
      /\ o = [read |-> o.read, write |-> o.write, wr |-> o.wr, push |-> o.push,
              ack |-> o.ack, cam |-> o.cam]
  BY ONLY <1>4 DEF Out
<1>9. OutShape(o)
  BY <1>8 DEF OutShape
<1>10. Becomes(c.state, c.nTransfer, c.reqFlag, c.done, c.writebackFlag, o.read, o.ack)
  BY <1>1, <1>7, <1>8, <1>9, FinishBecomes, Zenon
<1> QED BY <1>1, <1>6, <1>8, <1>10 DEF Pushes, Becomes, nt, st, wb

\* The outcome of a wait.
LEMMA WaitSteps180 ==
  ASSUME CtlShape(ctl), NEW w, NEW v, LeaseWait(io.ready, w, rx # <<>>, v, phase)
  PROVE  StaysPut
<1>1. Finish(io.ready, ctl, Quiet) /\ (ctl.state = "normal" => lease.phase = phase /\ ~Active)
  BY DEF LeaseWait, LeaseWaits, Interrupted
<1>2. OutShape(Quiet) /\ Quiet.write = NoBlock /\ Quiet.read = NoBlock /\ Quiet.ack = FALSE
  BY DEF OutShape, Quiet
<1>3. Becomes(ctl.state, ctl.nTransfer, ctl.reqFlag, ctl.done, ctl.writebackFlag, Quiet.read,
              Quiet.ack)
  BY <1>1, <1>2, FinishBecomes, Zenon
<1> QED BY <1>1, <1>2, <1>3 DEF StaysPut, Becomes

\* WriteWord requests without the writeback block.
WritesSingle ==
  /\ ctl.state = "waitReady" /\ io.ready /\ ~ctl.writebackFlag
  /\ CtlShape(ctl')
  /\ ctl'.state = "normal" /\ ctl'.nTransfer = ctl.nTransfer
  /\ ctl'.reqFlag = FALSE /\ ctl'.done = TRUE /\ ctl'.writebackFlag = FALSE
  /\ out'.read = NoBlock /\ out'.ack = FALSE

\* The outcome of a single word written past the cache.
LEMMA SingleWriteSteps ==
  ASSUME CtlShape(ctl), WriteWord(io.ready)
  PROVE  WritesSingle
<1>1. /\ ctl.state = "waitReady" /\ io.ready /\ ~ctl.writebackFlag
      /\ ctl' = [ctl EXCEPT !.reqFlag = FALSE, !.state = "normal", !.done = TRUE]
      /\ out' = [Quiet EXCEPT !.write = core.block, !.push = core.data]
  BY DEF WriteWord, Proceeds, WritebackDone
<1>2. ctl = Ctl(ctl.state, ctl.nTransfer, ctl.reqFlag, ctl.rwFlag, ctl.done, ctl.ptr,
                ctl.writebackFlag, ctl.addWriteback, ctl.cacheAdd)
  BY Zenon DEF CtlShape
<1>3. ctl' = Ctl("normal", ctl.nTransfer, FALSE, ctl.rwFlag, TRUE, ctl.ptr,
                 ctl.writebackFlag, ctl.addWriteback, ctl.cacheAdd)
  BY ONLY <1>1, <1>2 DEF Ctl
<1>4. /\ ctl'.state = "normal" /\ ctl'.nTransfer = ctl.nTransfer /\ ctl'.reqFlag = FALSE
      /\ ctl'.done = TRUE /\ ctl'.writebackFlag = ctl.writebackFlag
      /\ ctl' = Ctl(ctl'.state, ctl'.nTransfer, ctl'.reqFlag, ctl'.rwFlag, ctl'.done, ctl'.ptr,
                    ctl'.writebackFlag, ctl'.addWriteback, ctl'.cacheAdd)
  BY ONLY <1>3 DEF Ctl
<1>5. out'.read = NoBlock /\ out'.ack = FALSE
  BY ONLY <1>1, QuietOut DEF Out
<1> QED BY <1>1, <1>4, <1>5 DEF WritesSingle, CtlShape

\* A disabled edge.
Sleeps ==
  /\ UNCHANGED ctl /\ out'.read = NoBlock /\ out'.write = NoBlock /\ out'.ack = FALSE

\* The outcome of an edge at which the controller is not enabled.
LEMMA DisabledSteps ==
  ASSUME LeaseDisabled
  PROVE  Sleeps
BY DEF LeaseDisabled, Disabled, Sleeps, Quiet

-----------------------------------------------------------------------------
(* The registers of the phase and of the table.                             *)

LeaseOf(sw, la, of, ph, co, re, pr, da) ==
  [swap |-> sw, latch |-> la, offer |-> of, phase |-> ph, counter |-> co, refs |-> re,
   prev |-> pr, data |-> da]

LeaseShape(l) ==
  l = LeaseOf(l.swap, l.latch, l.offer, l.phase, l.counter, l.refs, l.prev, l.data)

\* An edge that leaves the phase and the counter alone.
LeaseKept ==
  LeaseShape(lease') /\ lease'.phase = lease.phase /\ lease'.counter = lease.counter

\* Assignments that leave the phase and the counter alone.
LEMMA KeptFacts ==
  ASSUME LeaseShape(lease), NEW sw, NEW la, NEW of,
         \/ lease' = lease
         \/ lease' = [lease EXCEPT !.swap = sw]
         \/ lease' = [lease EXCEPT !.offer = of]
         \/ lease' = [lease EXCEPT !.latch = la, !.offer = of]
         \/ lease' = [lease EXCEPT !.swap = sw, !.latch = la, !.offer = of]
         \/ lease' = [lease EXCEPT !.refs = sw]
         \/ lease' = [lease EXCEPT !.data = sw]
  PROVE  LeaseKept
<1>1. lease = LeaseOf(lease.swap, lease.latch, lease.offer, lease.phase, lease.counter,
                      lease.refs, lease.prev, lease.data)
  BY DEF LeaseShape
<1>2. CASE lease' = lease
  BY <1>2 DEF LeaseKept
<1>3. CASE lease' = [lease EXCEPT !.swap = sw]
  <2>1. lease' = LeaseOf(sw, lease.latch, lease.offer, lease.phase, lease.counter,
                         lease.refs, lease.prev, lease.data)
    BY ONLY <1>1, <1>3 DEF LeaseOf
  <2>2. /\ lease'.phase = lease.phase /\ lease'.counter = lease.counter
        /\ lease' = LeaseOf(lease'.swap, lease'.latch, lease'.offer, lease'.phase,
                            lease'.counter, lease'.refs, lease'.prev, lease'.data)
    BY ONLY <2>1 DEF LeaseOf
  <2> QED BY <2>2 DEF LeaseKept, LeaseShape
<1>4. CASE lease' = [lease EXCEPT !.offer = of]
  <2>1. lease' = LeaseOf(lease.swap, lease.latch, of, lease.phase, lease.counter,
                         lease.refs, lease.prev, lease.data)
    BY ONLY <1>1, <1>4 DEF LeaseOf
  <2>2. /\ lease'.phase = lease.phase /\ lease'.counter = lease.counter
        /\ lease' = LeaseOf(lease'.swap, lease'.latch, lease'.offer, lease'.phase,
                            lease'.counter, lease'.refs, lease'.prev, lease'.data)
    BY ONLY <2>1 DEF LeaseOf
  <2> QED BY <2>2 DEF LeaseKept, LeaseShape
<1>5. CASE lease' = [lease EXCEPT !.latch = la, !.offer = of]
  <2>1. lease' = LeaseOf(lease.swap, la, of, lease.phase, lease.counter,
                         lease.refs, lease.prev, lease.data)
    BY ONLY <1>1, <1>5 DEF LeaseOf
  <2>2. /\ lease'.phase = lease.phase /\ lease'.counter = lease.counter
        /\ lease' = LeaseOf(lease'.swap, lease'.latch, lease'.offer, lease'.phase,
                            lease'.counter, lease'.refs, lease'.prev, lease'.data)
    BY ONLY <2>1 DEF LeaseOf
  <2> QED BY <2>2 DEF LeaseKept, LeaseShape
<1>6. CASE lease' = [lease EXCEPT !.swap = sw, !.latch = la, !.offer = of]
  <2>1. lease' = LeaseOf(sw, la, of, lease.phase, lease.counter,
                         lease.refs, lease.prev, lease.data)
    BY ONLY <1>1, <1>6 DEF LeaseOf
  <2>2. /\ lease'.phase = lease.phase /\ lease'.counter = lease.counter
        /\ lease' = LeaseOf(lease'.swap, lease'.latch, lease'.offer, lease'.phase,
                            lease'.counter, lease'.refs, lease'.prev, lease'.data)
    BY ONLY <2>1 DEF LeaseOf
  <2> QED BY <2>2 DEF LeaseKept, LeaseShape
<1>7. CASE lease' = [lease EXCEPT !.refs = sw]
  <2>1. lease' = LeaseOf(lease.swap, lease.latch, lease.offer, lease.phase, lease.counter,
                         sw, lease.prev, lease.data)
    BY ONLY <1>1, <1>7 DEF LeaseOf
  <2>2. /\ lease'.phase = lease.phase /\ lease'.counter = lease.counter
        /\ lease' = LeaseOf(lease'.swap, lease'.latch, lease'.offer, lease'.phase,
                            lease'.counter, lease'.refs, lease'.prev, lease'.data)
    BY ONLY <2>1 DEF LeaseOf
  <2> QED BY <2>2 DEF LeaseKept, LeaseShape
<1>8. CASE lease' = [lease EXCEPT !.data = sw]
  <2>1. lease' = LeaseOf(lease.swap, lease.latch, lease.offer, lease.phase, lease.counter,
                         lease.refs, lease.prev, sw)
    BY ONLY <1>1, <1>8 DEF LeaseOf
  <2>2. /\ lease'.phase = lease.phase /\ lease'.counter = lease.counter
        /\ lease' = LeaseOf(lease'.swap, lease'.latch, lease'.offer, lease'.phase,
                            lease'.counter, lease'.refs, lease'.prev, lease'.data)
    BY ONLY <2>1 DEF LeaseOf
  <2> QED BY <2>2 DEF LeaseKept, LeaseShape
<1> QED BY <1>2, <1>3, <1>4, <1>5, <1>6, <1>7, <1>8

Counter == 0 .. 2 * Entries - 1

\* The phase is taken over by the interrupt and by nothing else; the counter
\* stays within the table.
LEMMA InterruptLease ==
  ASSUME LeaseShape(lease), PhaseInterrupt(io.ready, phase)
  PROVE  LeaseShape(lease') /\ lease'.phase = phase /\ lease'.counter \in Counter
<1>1. lease' = [lease EXCEPT !.counter = 0, !.phase = phase]
  BY DEF PhaseInterrupt
<1>2. lease = LeaseOf(lease.swap, lease.latch, lease.offer, lease.phase, lease.counter,
                      lease.refs, lease.prev, lease.data)
  BY DEF LeaseShape
<1>3. lease' = LeaseOf(lease.swap, lease.latch, lease.offer, phase, 0,
                       lease.refs, lease.prev, lease.data)
  BY ONLY <1>1, <1>2 DEF LeaseOf
<1>4. /\ lease'.phase = phase /\ lease'.counter = 0
      /\ lease' = LeaseOf(lease'.swap, lease'.latch, lease'.offer, lease'.phase,
                          lease'.counter, lease'.refs, lease'.prev, lease'.data)
  BY ONLY <1>3 DEF LeaseOf
<1>5. 0 \in Counter
  BY TableAssumption DEF Counter
<1> QED BY <1>4, <1>5 DEF LeaseShape

\* A word of the table moves the counter within its bounds.
LEMMA TableLease ==
  ASSUME LeaseShape(lease), lease.counter \in Counter, NEW d, EnterTable(io.ready, rx # <<>>, d)
  PROVE  LeaseShape(lease') /\ lease'.phase = lease.phase /\ lease'.counter \in Counter
<1> DEFINE co == IF AddressesDone THEN Entries ELSE (lease.counter + 1) % (2 * Entries)
           pr == IF TableDone THEN lease.refs ELSE lease.prev
<1>1. lease' = [lease EXCEPT !.counter = co, !.prev = pr]
  BY DEF EnterTable
<1>2. lease = LeaseOf(lease.swap, lease.latch, lease.offer, lease.phase, lease.counter,
                      lease.refs, lease.prev, lease.data)
  BY DEF LeaseShape
<1>3. co \in Counter
  <2>1. Entries \in Nat \ {0}
    BY TableAssumption
  <2>2. Entries \in Counter
    BY <2>1 DEF Counter
  <2>3. (lease.counter + 1) % (2 * Entries) \in Counter
    BY <2>1 DEF Counter
  <2> QED BY <2>2, <2>3
<1> HIDE DEF co, pr
<1>4. lease' = LeaseOf(lease.swap, lease.latch, lease.offer, lease.phase, co,
                       lease.refs, pr, lease.data)
  BY ONLY <1>1, <1>2 DEF LeaseOf
<1>5. /\ lease'.phase = lease.phase /\ lease'.counter = co
      /\ lease' = LeaseOf(lease'.swap, lease'.latch, lease'.offer, lease'.phase,
                          lease'.counter, lease'.refs, lease'.prev, lease'.data)
  BY ONLY <1>4 DEF LeaseOf
<1> QED BY <1>3, <1>5 DEF LeaseShape

\* What an edge at 180 degrees does, with what it leaves of the phase.
Resumes == TakesTable /\ LeaseShape(lease') /\ lease'.phase = lease.phase
           /\ lease'.counter \in Counter /\ single' = NoWord

ControllerSteps ==
  \/ Interrupts /\ LeaseShape(lease') /\ lease'.phase = phase /\ lease'.counter \in Counter
     /\ single' = NoWord
  \/ Resumes
  \/ /\ LeaseKept /\ single' = NoWord
     /\ \/ TakesHit \/ TakesMiss \/ RequestsConfig \/ RequestsTable \/ TakesConfig
        \/ TakesBlock \/ TakesSingle \/ RequestsBlock \/ TakesLine \/ Pushes \/ StaysPut
        \/ Sleeps
  \/ LeaseKept /\ single' = core.word /\ (RequestsSingle \/ WritesSingle)

\* Every enabled edge has one of the outcomes.
LEMMA EnabledSteps ==
  ASSUME CtlShape(ctl), LeaseShape(lease), lease.counter \in Counter,
         NEW w, NEW d, NEW v,
         LeaseControllerEdge(io.ready, w, rx # <<>>, d, v, phase)
  PROVE  ControllerSteps /\ UNCHANGED core
<1> UNCHANGED core
  BY DEF LeaseControllerEdge
<1>1. CASE PhaseInterrupt(io.ready, phase)
  <2>1. single' = NoWord
    BY <1>1 DEF PhaseInterrupt
  <2> QED BY <1>1, <2>1, InterruptSteps, InterruptLease, Zenon DEF ControllerSteps
<1>2. CASE RequestTable(io.ready, phase)
  <2>1. single' = NoWord /\ lease' = lease
    BY <1>2 DEF RequestTable
  <2> QED BY <1>2, <2>1, ConfigRequestSteps, TableRequestSteps, KeptFacts, Zenon
          DEF ControllerSteps
<1>3. CASE TransferConfig(io.ready, rx # <<>>, d)
  <2>1. /\ single' = NoWord
        /\ lease' = [lease EXCEPT !.refs = IF ctl.nTransfer = 3 THEN d ELSE lease.refs]
    BY <1>3 DEF TransferConfig
  <2> QED BY <1>3, <2>1, ConfigSteps, KeptFacts, Zenon DEF ControllerSteps
<1>4. CASE EnterTable(io.ready, rx # <<>>, d)
  <2>1. single' = NoWord
    BY <1>4 DEF EnterTable
  <2> QED BY <1>4, <2>1, TableSteps, TableLease, Zenon DEF ControllerSteps, Resumes
<1>5. CASE LeaseHit(io.ready, phase)
  <2>1. single' = NoWord /\ lease' = [lease EXCEPT !.swap = TRUE]
    BY <1>5 DEF LeaseHit
  <2> QED BY <1>5, <2>1, HitSteps, KeptFacts, Zenon DEF ControllerSteps
<1>6. CASE LeaseMiss(io.ready, phase)
  <2>1. PICK x : lease' = [lease EXCEPT !.latch = TRUE, !.offer = (x # 0)]
    BY <1>6, Zenon DEF LeaseMiss
  <2>2. single' = NoWord
    BY <1>6 DEF LeaseMiss
  <2> QED BY <1>6, <2>1, <2>2, MissSteps, KeptFacts, Zenon DEF ControllerSteps
<1>7. ASSUME LatchSwap
      PROVE  LeaseKept
  <2>1. lease' = [lease EXCEPT !.swap = Swap, !.latch = FALSE, !.offer = TRUE]
    BY <1>7 DEF LatchSwap
  <2> QED BY <2>1, KeptFacts, Zenon
<1>8. CASE RequestCached(io.ready)
  <2>1. single' = NoWord /\ LatchSwap
    BY <1>8 DEF RequestCached
  <2> QED BY <1>7, <1>8, <2>1, BlockRequestSteps, Zenon DEF ControllerSteps
<1>9. CASE ReadWord(io.ready)
  <2>1. single' = core.word /\ LatchSwap
    BY <1>9 DEF ReadWord
  <2> QED BY <1>7, <1>9, <2>1, SingleRequestSteps, Zenon DEF ControllerSteps
<1>10. CASE WriteWord(io.ready)
  <2>1. single' = core.word /\ LatchSwap
    BY <1>10 DEF WriteWord
  <2> QED BY <1>7, <1>10, <2>1, SingleWriteSteps, Zenon DEF ControllerSteps
<1>11. CASE TakeWord(io.ready, rx # <<>>, d)
  <2>1. single' = NoWord /\ lease' = [lease EXCEPT !.data = d]
    BY <1>11 DEF TakeWord
  <2> QED BY <1>11, <2>1, SingleSteps, KeptFacts, Zenon DEF ControllerSteps
<1>12. CASE Replaces(io.ready, w, rx # <<>>, d, v)
  <2>1. /\ single' = NoWord /\ lease' = lease
        /\ \/ TakeReplacement(io.ready, v)
           \/ PushWord(io.ready, w)
           \/ FillWord(io.ready, rx # <<>>, d)
    BY <1>12 DEF Replaces
  <2>2. LeaseKept
    BY <2>1, KeptFacts, Zenon
  <2> QED BY <2>1, <2>2, DirtySteps, CleanSteps, PushSteps, FillSteps, Zenon
          DEF ControllerSteps
<1>13. CASE LeaseWait(io.ready, w, rx # <<>>, v, phase)
  <2>1. single' = NoWord /\ (LatchSwap \/ lease' = lease)
    BY <1>13 DEF LeaseWait
  <2>2. LeaseKept
    BY <1>7, <2>1, KeptFacts, Zenon
  <2> QED BY <1>13, <2>1, <2>2, WaitSteps180, Zenon DEF ControllerSteps
<1> QED BY <1>1, <1>2, <1>3, <1>4, <1>5, <1>6, <1>8, <1>9, <1>10, <1>11, <1>12, <1>13
        DEF LeaseControllerEdge

\* So has every other edge.
LEMMA SleepingSteps ==
  ASSUME LeaseShape(lease), LeaseDisabled
  PROVE  ControllerSteps /\ UNCHANGED core
<1>1. /\ single' = NoWord /\ UNCHANGED core
      /\ lease' = [lease EXCEPT !.offer = TRUE]
  BY DEF LeaseDisabled
<1> QED BY <1>1, DisabledSteps, KeptFacts, Zenon DEF ControllerSteps

-----------------------------------------------------------------------------
(* The inductive invariant.                                                 *)

Registers ==
  /\ clk \in {0, 90, 180, 270}
  /\ CtlShape(ctl) /\ IoShape(io) /\ LeaseShape(lease) /\ lease.counter \in Counter
  /\ IsSeq(rx) /\ ddr3 \in {"free", "reading", "answered", "writing"}
  /\ core \in [req : BOOLEAN, rw : BOOLEAN, block : Block, word : Word, data : Data]
  /\ phase \in Phase /\ newPhase \in Phase

Taking == {"readBuffer", "transferLlt", "updateService"}
Asking == {"waitReplacement", "transferLlt", "updateService", "noSwapRead"}

\* Words that the controller still waits for.
Need == IF ctl.state \in Taking THEN W - ctl.nTransfer
        ELSE IF ctl.state \in {"waitReplacement", "writeBuffer"} THEN W
        ELSE IF ctl.state = "noSwapRead" THEN 1 ELSE 0

\* Words that the memory has yet to give for the request that c serves.
ToCome(c) == IF c.state = "readWord" THEN 1
             ELSE IF c.state # "read" \/ c.flag = 3 THEN 0
             ELSE IF c.flag = 0 THEN W ELSE Half

Asked == IF out.read = NoBlock THEN 0 ELSE IF single = NoWord THEN W ELSE 1
AskedOnBus == IF bus.req /\ ~bus.rw THEN IF bus.block THEN W ELSE 1 ELSE 0

\* No word is lost or left over: those that the controller waits for are asked
\* for, to come from the memory, or in a buffer.
Flow ==
  /\ clk = 0 => AskedOnBus + ToCome(io) + Len(io.tx) + Len(rx) = Need
  /\ clk = 90 => ToCome(io) + Words(io) + Len(rx) = Need
  /\ clk = 180 => ToCome(io) + Len(io.tx) + Len(rx) = Need
  /\ clk = 270 =>
       /\ out.ack => rx # <<>>
       /\ Asked + ToCome(io) + Len(io.tx) + Len(rx) = Need + (IF out.ack THEN 1 ELSE 0)

\* The I/O buffer says that it is ready only when it is.
Ready == io.ready => io.state = "idle" /\ io.delay = 0 /\ ddr3 = "free"

\* A request is made one at a time, of a buffer that is ready, and for what the
\* controller then waits for.
Requests ==
  /\ clk = 270 =>
       /\ out.read # NoBlock \/ out.write # NoBlock => io.ready
       /\ out.read = NoBlock \/ out.write = NoBlock
       /\ out.read # NoBlock => /\ ctl.state \in Asking
                                /\ single # NoWord <=> ctl.state = "noSwapRead"
  /\ clk = 0 =>
       /\ bus.req => io.ready
       /\ bus.req /\ ~bus.rw => /\ ctl.state \in Asking
                                /\ bus.block <=> ctl.state # "noSwapRead"

Missed == {"waitReady", "waitReplacement", "writeBuffer", "readBuffer"}

\* The controller's registers agree: the counter of words, the kept reference,
\* and when a write-back may be pending.
Transfers ==
  /\ ctl.state \in Missed \cup {"normal", "requestLlt", "transferLlt", "updateRequest",
                                "updateService", "noSwapRead"}
  /\ ctl.nTransfer \in 0 .. W - 1
  /\ ctl.state \notin Taking \cup {"writeBuffer"} => ctl.nTransfer = 0
  /\ ctl.state # "normal" \/ ctl.reqFlag => ~ctl.done
  /\ ctl.state \in Missed => ctl.reqFlag
  /\ ctl.state = "noSwapRead" => ~ctl.reqFlag
  /\ ctl.writebackFlag =>
       ctl.state \in {"writeBuffer", "readBuffer", "normal", "waitReady"}
  /\ ctl.state = "writeBuffer" /\ ctl.nTransfer = 0 => ~ctl.writebackFlag

\* The phase does not change while the hart waits, nor in the cycle after a
\* reference; a block is not replaced for the table of another phase.
Calm ==
  /\ core.req /\ clk \in {90, 180} => newPhase = phase
  /\ ~ctl.done /\ clk \in {90, 180} => newPhase = phase
  /\ ctl.state \in Missed \/ (ctl.state = "normal" /\ ctl.writebackFlag /\ ctl.reqFlag)
     => newPhase = phase /\ lease.phase = phase

Acknowledged == clk # 90 => clear = io.done

\* A write-back is pending, or a replacement that may lead to one.
Replacing == \/ ctl.writebackFlag \/ ctl.state = "waitReplacement"
             \/ ctl.state = "writeBuffer" /\ ctl.nTransfer = 0

\* Meanwhile the memory path serves nothing but the read of the block.
Alone ==
  Replacing =>
    /\ clk = 270 => out.write = NoBlock
    /\ clk = 0 => ~(bus.req /\ bus.rw)
    /\ \/ io.state = "read" /\ io.delay = 0 /\ (io.flag \in {1, 3} => ddr3 = "free")
       \/ io.state = "waitClear" /\ io.delay = 0 /\ ddr3 = "free"
       \/ io.state = "idle" /\ io.delay <= 2 /\ ddr3 = "free"

\* Cycles until the I/O buffer is ready, once the words of the block are on
\* their way.
Cycles(c) == IF c.ready THEN 0
             ELSE IF c.state = "read" THEN 6
             ELSE IF c.state = "waitClear" THEN IF c.done THEN 4 ELSE 5
             ELSE 1 + c.delay

Left == IF clk \in {0, 270} THEN 1 ELSE 0

\* The write-back is requested before the hart can change the phase: the buffer
\* is ready soon after the words have arrived, and the block is being taken for
\* as long as they arrive.
InTime ==
  ctl.writebackFlag =>
    /\ ctl.state \in {"writeBuffer", "readBuffer"} => Cycles(io) <= Need + 2 + Left
    /\ ctl.state = "normal" /\ ctl.reqFlag => Cycles(io) <= 2 + Left
    /\ ctl.state = "normal" /\ ~ctl.reqFlag =>
         IF phase # lease.phase THEN Cycles(io) = 0
         ELSE IF clk \in {0, 270} /\ newPhase = phase THEN Cycles(io) <= 2
         ELSE Cycles(io) <= 1

LeaseInv ==
  /\ Registers
  /\ Flow
  /\ Ready
  /\ Requests
  /\ Transfers
  /\ Calm
  /\ Acknowledged
  /\ Alone
  /\ InTime

\* What the numbers of words are.
LEMMA WordCounts ==
  ASSUME Registers, Transfers
  PROVE  /\ Need \in Nat /\ ToCome(io) \in Nat /\ AskedOnBus \in Nat /\ Asked \in Nat
         /\ Len(io.tx) \in Nat /\ Len(rx) \in Nat /\ Words(io) \in Nat
         /\ (Len(io.tx) = 0 <=> io.tx = <<>>) /\ (Len(rx) = 0 <=> rx = <<>>)
<1>1. Len(io.tx) \in Nat /\ Len(rx) \in Nat /\ (Len(io.tx) = 0 <=> io.tx = <<>>)
      /\ (Len(rx) = 0 <=> rx = <<>>)
  BY EmptyIffZero DEF Registers, IoShape
<1>2. Need \in Nat /\ ToCome(io) \in Nat /\ AskedOnBus \in Nat /\ Asked \in Nat
  BY Bursts DEF Transfers, Need, ToCome, AskedOnBus, Asked
<1>3. Words(io) \in Nat
  BY <1>1 DEF Words
<1> QED BY <1>1, <1>2, <1>3

-----------------------------------------------------------------------------
(* 0 degrees.                                                               *)

\* The words of a request that the buffer takes are to come, and those that
\* come are in it.
LEMMA EdgeFlow ==
  ASSUME Registers, Ready, clk = 0, Requests, IoSteps
  PROVE  ToCome(io') + Words(io') = AskedOnBus + ToCome(io) + Len(io.tx)
<1>0. /\ bus.req => io.state = "idle" /\ io.delay = 0 /\ ddr3 = "free"
      /\ Len(io.tx) \in Nat /\ io.flag \in 0 .. 3 /\ io.delay \in 0 .. 4
  BY EmptyIffZero DEF Requests, Ready, Registers, IoShape
<1>a. ToCome(io) \in Nat
  BY Bursts DEF ToCome
<1>b. ~bus.req => AskedOnBus = 0
  BY DEF AskedOnBus
<1>1. CASE Delays
  <2>1. Words(io') = Len(io.tx) + 0
    BY <1>1 DEF Delays, Moves
  <2>2. ToCome(io) = ToCome(io') + 0
    BY <1>1, <1>0, Bursts DEF Delays, Moves, ToCome
  <2>3. AskedOnBus = 0
    BY <1>1, <1>0, <1>b DEF Delays
  <2>4. ToCome(io') \in Nat
    BY Bursts DEF ToCome
  <2> QED BY <2>1, <2>2, <2>3, <2>4, <1>0, <1>a, Bursts
<1>2. CASE Rests
  <2>1. Words(io') = Len(io.tx) + 0
    BY <1>2 DEF Rests, Moves
  <2>2. ToCome(io) = ToCome(io') + 0
    BY <1>2, <1>0, Bursts DEF Rests, Moves, ToCome
  <2>3. AskedOnBus = 0
    BY <1>2, <1>0, <1>b DEF Rests
  <2>4. ToCome(io') \in Nat
    BY Bursts DEF ToCome
  <2> QED BY <2>1, <2>2, <2>3, <2>4, <1>0, <1>a, Bursts
<1>3. CASE Accepts
  <2>1. Words(io') = Len(io.tx) + 0 /\ ToCome(io) = 0
    BY <1>3 DEF Accepts, Moves, ToCome
  <2>2. ToCome(io') = AskedOnBus
    BY <1>3 DEF Accepts, Moves, ToCome, AskedOnBus, P!Serving
  <2>3. AskedOnBus \in Nat
    BY Bursts DEF AskedOnBus
  <2> QED BY <2>1, <2>2, <2>3, <1>0, <1>a
<1>4. CASE ReadsBurst
  <2>1. Words(io') = Len(io.tx) + Half
    BY <1>4 DEF ReadsBurst, Moves
  <2>2. ToCome(io) = ToCome(io') + Half
    BY <1>4, <1>0, Bursts DEF ReadsBurst, Moves, ToCome
  <2>3. AskedOnBus = 0
    BY <1>4, <1>0, <1>b DEF ReadsBurst
  <2>4. ToCome(io') \in Nat
    BY Bursts DEF ToCome
  <2> QED BY <2>1, <2>2, <2>3, <2>4, <1>0, <1>a, Bursts
<1>5. CASE ReadsNext
  <2>1. Words(io') = Len(io.tx) + 0
    BY <1>5 DEF ReadsNext, Moves
  <2>2. ToCome(io) = ToCome(io') + 0
    BY <1>5, <1>0, Bursts DEF ReadsNext, Moves, ToCome
  <2>3. AskedOnBus = 0
    BY <1>5, <1>0, <1>b DEF ReadsNext
  <2>4. ToCome(io') \in Nat
    BY Bursts DEF ToCome
  <2> QED BY <2>1, <2>2, <2>3, <2>4, <1>0, <1>a, Bursts
<1>6. CASE Completes
  <2>1. Words(io') = Len(io.tx) + 0
    BY <1>6 DEF Completes, Moves
  <2>2. ToCome(io) = ToCome(io') + 0
    BY <1>6, <1>0, Bursts DEF Completes, Moves, ToCome
  <2>3. AskedOnBus = 0
    BY <1>6, <1>0, <1>b DEF Completes
  <2>4. ToCome(io') \in Nat
    BY Bursts DEF ToCome
  <2> QED BY <2>1, <2>2, <2>3, <2>4, <1>0, <1>a, Bursts
<1>7. CASE ReadsWord
  <2>1. Words(io') = Len(io.tx) + 1
    BY <1>7 DEF ReadsWord, Moves
  <2>2. ToCome(io) = ToCome(io') + 1
    BY <1>7, <1>0, Bursts DEF ReadsWord, Moves, ToCome
  <2>3. AskedOnBus = 0
    BY <1>7, <1>0, <1>b DEF ReadsWord
  <2>4. ToCome(io') \in Nat
    BY Bursts DEF ToCome
  <2> QED BY <2>1, <2>2, <2>3, <2>4, <1>0, <1>a, Bursts
<1>8. CASE Writes
  <2>1. Words(io') = Len(io.tx) + 0
    BY <1>8 DEF Writes, Moves
  <2>2. ToCome(io) = ToCome(io') + 0
    BY <1>8, <1>0, Bursts DEF Writes, Moves, ToCome
  <2>3. AskedOnBus = 0
    BY <1>8, <1>0, <1>b DEF Writes
  <2>4. ToCome(io') \in Nat
    BY Bursts DEF ToCome
  <2> QED BY <2>1, <2>2, <2>3, <2>4, <1>0, <1>a, Bursts
<1>9. CASE Waiting
  <2>1. Words(io') = Len(io.tx) + 0
    BY <1>9 DEF Waiting, Moves
  <2>2. ToCome(io) = ToCome(io') + 0
    BY <1>9, <1>0, Bursts DEF Waiting, Moves, ToCome
  <2>3. AskedOnBus = 0
    BY <1>9, <1>0, <1>b DEF Waiting
  <2>4. ToCome(io') \in Nat
    BY Bursts DEF ToCome
  <2> QED BY <2>1, <2>2, <2>3, <2>4, <1>0, <1>a, Bursts
<1>10. CASE Acknowledges
  <2>1. Words(io') = Len(io.tx) + 0
    BY <1>10 DEF Acknowledges, Moves
  <2>2. ToCome(io) = ToCome(io') + 0
    BY <1>10, <1>0, Bursts DEF Acknowledges, Moves, ToCome
  <2>3. AskedOnBus = 0
    BY <1>10, <1>0, <1>b DEF Acknowledges
  <2>4. ToCome(io') \in Nat
    BY Bursts DEF ToCome
  <2> QED BY <2>1, <2>2, <2>3, <2>4, <1>0, <1>a, Bursts
<1> QED BY <1>1, <1>2, <1>3, <1>4, <1>5, <1>6, <1>7, <1>8, <1>9, <1>10 DEF IoSteps

\* The hart's registers after an edge at 0 degrees.
LEMMA HartSteps ==
  ASSUME Registers, Edge0
  PROVE  /\ core' \in [req : BOOLEAN, rw : BOOLEAN, block : Block, word : Word, data : Data]
         /\ newPhase' \in Phase /\ phase' = newPhase
         /\ core'.req => newPhase' = newPhase
         /\ ~ctl.done => newPhase' = newPhase
<1>1. core \in [req : BOOLEAN, rw : BOOLEAN, block : Block, word : Word, data : Data]
      /\ newPhase \in Phase /\ phase' = newPhase
  BY DEF Registers, Edge0
<1>2. ASSUME Withdraw
      PROVE  /\ core' \in [req : BOOLEAN, rw : BOOLEAN, block : Block, word : Word, data : Data]
             /\ ~core'.req
  BY <1>1, <1>2 DEF Withdraw
<1>3. CASE Idles
  BY <1>1, <1>2, <1>3 DEF Idles
<1>4. CASE References
  <2>1. PICK r \in Program : Issue(r[2])
    BY <1>4 DEF References
  <2>2. r[2] \in [rw : BOOLEAN, block : Block, word : Word, data : Data]
    BY LeaseSystemAssumption, CacheAssumption DEF Access
  <2>3. core' \in [req : BOOLEAN, rw : BOOLEAN, block : Block, word : Word, data : Data]
    BY <2>1, <2>2 DEF Issue
  <2> QED BY <1>1, <1>4, <2>3 DEF References
<1>5. CASE SetsPhase
  BY <1>1, <1>2, <1>5 DEF SetsPhase
<1> QED BY <1>3, <1>4, <1>5 DEF Edge0

\* The hart sets the phase only to a phase, and references what the program does.
LEMMA EdgeRegisters ==
  ASSUME LeaseInv, Edge0
  PROVE  Registers' /\ Calm'
<1>1. IoSteps /\ UNCHANGED <<rx, ctl, lease, clear, bus>>
  BY IoEdgeSteps DEF Edge0, LeaseInv, Registers
<1>2. clk = 0 /\ clk' = 90
  BY DEF Edge0
<1>3. IoShape(io')
  BY <1>1, Zenon DEF IoSteps, Moves, Delays, Rests, Accepts, ReadsBurst, ReadsNext, Completes,
                     ReadsWord, Writes, Waiting, Acknowledges
<1>4. ddr3' \in {"free", "reading", "answered", "writing"}
  BY <1>1 DEF LeaseInv, Registers, IoSteps, Delays, Rests, Accepts, ReadsBurst, ReadsNext,
              Completes, ReadsWord, Writes, Waiting, Acknowledges
<1>5. Registers'
  BY <1>1, <1>2, <1>3, <1>4, HartSteps DEF LeaseInv, Registers
<1>6. Calm'
  BY <1>1, <1>2, HartSteps DEF LeaseInv, Calm, Transfers
<1> QED BY <1>5, <1>6

\* While a write-back is pending the path serves the read of the block.
LEMMA EdgeAlone ==
  ASSUME LeaseInv, Edge0
  PROVE  Ready' /\ Alone'
<1>1. IoSteps /\ UNCHANGED <<rx, ctl, lease, clear, bus>> /\ clk = 0 /\ clk' = 90
  BY IoEdgeSteps DEF Edge0, LeaseInv, Registers
<1>2. /\ io.flag \in 0 .. 3 /\ io.delay \in 0 .. 4
      /\ ddr3 \in {"free", "reading", "answered", "writing"}
      /\ bus.req => io.state = "idle" /\ io.delay = 0 /\ ddr3 = "free"
      /\ io.ready => io.state = "idle" /\ io.delay = 0 /\ ddr3 = "free"
  BY <1>1 DEF LeaseInv, Registers, IoShape, Ready, Requests
<1>3. Replacing' <=> Replacing
  BY <1>1 DEF Replacing
<1>4. ASSUME Replacing
      PROVE  /\ bus.req => P!Serving = "read"
             /\ \/ io.state = "read" /\ io.delay = 0 /\ (io.flag \in {1, 3} => ddr3 = "free")
                \/ io.state = "waitClear" /\ io.delay = 0 /\ ddr3 = "free"
                \/ io.state = "idle" /\ io.delay <= 2 /\ ddr3 = "free"
  <2>1. bus.req => ~bus.rw
    BY <1>1, <1>4 DEF LeaseInv, Alone
  <2>2. bus.req => bus.block
    BY <1>1, <1>4, <2>1 DEF LeaseInv, Requests, Transfers, Replacing, Asking
  <2> QED BY <1>1, <1>4, <2>1, <2>2 DEF LeaseInv, Alone, P!Serving
<1>5. CASE Delays
  <2>1. Ready'
    BY <1>5, <1>2 DEF Delays, Moves, Ready
  <2>2. Alone'
    BY <1>5, <1>1, <1>2, <1>3, <1>4 DEF Delays, Moves, Alone
  <2> QED BY <2>1, <2>2
<1>6. CASE Rests
  <2>1. Ready'
    BY <1>6, <1>2 DEF Rests, Moves, Ready
  <2>2. Alone'
    BY <1>6, <1>1, <1>2, <1>3, <1>4 DEF Rests, Moves, Alone
  <2> QED BY <2>1, <2>2
<1>7. CASE Accepts
  <2>1. Ready'
    BY <1>7, <1>2 DEF Accepts, Moves, Ready
  <2>2. Alone'
    BY <1>7, <1>1, <1>2, <1>3, <1>4 DEF Accepts, Moves, Alone
  <2> QED BY <2>1, <2>2
<1>8. CASE ReadsBurst
  <2>1. Ready'
    BY <1>8, <1>2 DEF ReadsBurst, Moves, Ready
  <2>2. Alone'
    BY <1>8, <1>1, <1>2, <1>3, <1>4 DEF ReadsBurst, Moves, Alone
  <2> QED BY <2>1, <2>2
<1>9. CASE ReadsNext
  <2>1. Ready'
    BY <1>9, <1>2 DEF ReadsNext, Moves, Ready
  <2>2. Alone'
    BY <1>9, <1>1, <1>2, <1>3, <1>4 DEF ReadsNext, Moves, Alone
  <2> QED BY <2>1, <2>2
<1>10. CASE Completes
  <2>1. Ready'
    BY <1>10, <1>2 DEF Completes, Moves, Ready
  <2>2. Alone'
    BY <1>10, <1>1, <1>2, <1>3, <1>4 DEF Completes, Moves, Alone
  <2> QED BY <2>1, <2>2
<1>11. CASE ReadsWord
  <2>1. Ready'
    BY <1>11, <1>2 DEF ReadsWord, Moves, Ready
  <2>2. Alone'
    BY <1>11, <1>1, <1>2, <1>3, <1>4 DEF ReadsWord, Moves, Alone
  <2> QED BY <2>1, <2>2
<1>12. CASE Writes
  <2>1. Ready'
    BY <1>12, <1>2 DEF Writes, Moves, Ready
  <2>2. Alone'
    BY <1>12, <1>1, <1>2, <1>3, <1>4 DEF Writes, Moves, Alone
  <2> QED BY <2>1, <2>2
<1>13. CASE Waiting
  <2>1. Ready'
    BY <1>13, <1>2 DEF Waiting, Moves, Ready
  <2>2. Alone'
    BY <1>13, <1>1, <1>2, <1>3, <1>4 DEF Waiting, Moves, Alone
  <2> QED BY <2>1, <2>2
<1>14. CASE Acknowledges
  <2>1. Ready'
    BY <1>14, <1>2 DEF Acknowledges, Moves, Ready
  <2>2. Alone'
    BY <1>14, <1>1, <1>2, <1>3, <1>4 DEF Acknowledges, Moves, Alone
  <2> QED BY <2>1, <2>2
<1> QED BY <1>1, <1>5, <1>6, <1>7, <1>8, <1>9, <1>10, <1>11, <1>12, <1>13, <1>14 DEF IoSteps

\* A cycle brings the buffer nearer to being ready, or words are still to come.
LEMMA EdgeCycles ==
  ASSUME W >= 8, LeaseInv, Edge0, ctl.writebackFlag
  PROVE  /\ Cycles(io) \in Nat /\ Cycles(io') \in Nat
         /\ \/ Cycles(io') < Cycles(io)
            \/ Cycles(io') = 0
            \/ Need > 0 /\ Cycles(io') <= Need + 2
<1>1. IoSteps /\ UNCHANGED <<rx, ctl, lease, clear, bus>> /\ clk = 0 /\ clk' = 90
  BY IoEdgeSteps DEF Edge0, LeaseInv, Registers
<1>2. /\ io.flag \in 0 .. 3 /\ io.delay \in 0 .. 4
      /\ io.ready => io.state = "idle" /\ io.delay = 0
      /\ clear = io.done
  BY <1>1 DEF LeaseInv, Registers, IoShape, Ready, Acknowledged
<1>3. ~bus.req
  BY <1>1 DEF LeaseInv, Alone, Replacing, Requests, Transfers, Asking
<1>4. \/ io.state = "read" /\ io.delay = 0
      \/ io.state = "waitClear" /\ io.delay = 0
      \/ io.state = "idle" /\ io.delay <= 2 /\ ddr3 = "free"
  BY DEF LeaseInv, Alone, Replacing
<1>5. /\ Need \in Nat /\ ToCome(io) \in Nat /\ Len(io.tx) \in Nat /\ Len(rx) \in Nat
      /\ (Len(io.tx) = 0 <=> io.tx = <<>>)
  BY WordCounts DEF LeaseInv
<1>6. ToCome(io) + Len(io.tx) + Len(rx) = Need
  <2>1. AskedOnBus = 0
    BY <1>3 DEF AskedOnBus
  <2>2. AskedOnBus + ToCome(io) + Len(io.tx) + Len(rx) = Need
    BY <1>1 DEF LeaseInv, Flow
  <2> QED BY <1>5, <2>1, <2>2
<1>7. io.state = "read" /\ io.flag # 3 => ToCome(io) >= 4
  BY Bursts DEF ToCome
<1>8. /\ io.tx # <<>> => Need > 0
      /\ io.state = "read" /\ io.flag # 3 => Need >= 4
  BY <1>5, <1>6, <1>7
<1>9. Cycles(io) \in Nat
  BY <1>2 DEF Cycles
<1>10. CASE Delays
  BY <1>10, <1>2, <1>3, <1>4, <1>5, <1>8, <1>9 DEF Delays, Moves, Cycles
<1>11. CASE Rests
  <2>1. io'.ready \/ io.tx # <<>>
    BY <1>11, <1>4 DEF Rests, Moves
  <2>2. io'.state = "idle" /\ io'.delay = 0
    BY <1>11 DEF Rests, Moves
  <2>3. Cycles(io') = IF io'.ready THEN 0 ELSE 1
    BY <2>2 DEF Cycles
  <2> QED BY <2>1, <2>3, <1>5, <1>8, <1>9
<1>12. CASE Accepts
  BY <1>12, <1>2, <1>3, <1>4, <1>5, <1>8, <1>9 DEF Accepts, Moves, Cycles
<1>13. CASE ReadsBurst
  BY <1>13, <1>2, <1>3, <1>4, <1>5, <1>8, <1>9 DEF ReadsBurst, Moves, Cycles
<1>14. CASE ReadsNext
  BY <1>14, <1>2, <1>3, <1>4, <1>5, <1>8, <1>9 DEF ReadsNext, Moves, Cycles
<1>15. CASE Completes
  BY <1>15, <1>2, <1>3, <1>4, <1>5, <1>8, <1>9 DEF Completes, Moves, Cycles
<1>16. CASE ReadsWord
  BY <1>16, <1>2, <1>3, <1>4, <1>5, <1>8, <1>9 DEF ReadsWord, Moves, Cycles
<1>17. CASE Writes
  BY <1>17, <1>2, <1>3, <1>4, <1>5, <1>8, <1>9 DEF Writes, Moves, Cycles
<1>18. CASE Waiting
  BY <1>18, <1>2, <1>3, <1>4, <1>5, <1>8, <1>9 DEF Waiting, Moves, Cycles
<1>19. CASE Acknowledges
  BY <1>19, <1>2, <1>3, <1>4, <1>5, <1>8, <1>9 DEF Acknowledges, Moves, Cycles
<1> QED BY <1>1, <1>10, <1>11, <1>12, <1>13, <1>14, <1>15, <1>16, <1>17, <1>18, <1>19
        DEF IoSteps

\* The time that is left for it passes no faster than the words arrive.
LEMMA EdgeInTime ==
  ASSUME W >= 8, LeaseInv, Edge0
  PROVE  InTime'
<1> SUFFICES ASSUME ctl'.writebackFlag
             PROVE  InTime'
  BY DEF InTime
<1>1. /\ UNCHANGED <<ctl, lease>> /\ clk = 0 /\ clk' = 90 /\ phase' = newPhase
      /\ ctl.writebackFlag
  BY DEF Edge0
<1>2. Need' = Need /\ Left = 1 /\ Left' = 0
  BY <1>1 DEF Need, Left
<1>3. /\ Cycles(io) \in Nat /\ Cycles(io') \in Nat
      /\ \/ Cycles(io') < Cycles(io)
         \/ Cycles(io') = 0
         \/ Need > 0 /\ Cycles(io') <= Need + 2
  BY <1>1, EdgeCycles
<1>4. Need \in Nat
  BY WordCounts DEF LeaseInv
<1>5. ctl.state \in {"writeBuffer", "readBuffer"} => Cycles(io') <= Need' + 2 + Left'
  <2>1. ctl.state \in {"writeBuffer", "readBuffer"} => Cycles(io) <= Need + 2 + Left
    BY <1>1 DEF LeaseInv, InTime
  <2> QED BY <1>2, <1>3, <1>4, <2>1
<1>6. ctl.state = "normal" => Need = 0
  BY DEF Need, Taking
<1>7. ctl.state = "normal" /\ ctl.reqFlag => Cycles(io') <= 2 + Left'
  <2>1. ctl.state = "normal" /\ ctl.reqFlag => Cycles(io) <= 2 + Left
    BY <1>1 DEF LeaseInv, InTime
  <2> QED BY <1>2, <1>3, <1>6, <2>1
<1>8. ctl.state = "normal" /\ ~ctl.reqFlag =>
         IF phase' # lease'.phase THEN Cycles(io') = 0 ELSE Cycles(io') <= 1
  <2>1. ctl.state = "normal" /\ ~ctl.reqFlag =>
         IF phase # lease.phase THEN Cycles(io) = 0
         ELSE IF newPhase = phase THEN Cycles(io) <= 2
         ELSE Cycles(io) <= 1
    BY <1>1 DEF LeaseInv, InTime
  <2> QED BY <1>1, <1>3, <1>6, <2>1
<1>9. lease' = lease /\ ctl' = ctl /\ clk' \notin {0, 270}
  BY <1>1
<1> QED BY <1>5, <1>7, <1>8, <1>9 DEF InTime

\* The edge at 0 degrees keeps the invariant.
LEMMA Edge0Inv ==
  ASSUME W >= 8, LeaseInv, Edge0
  PROVE  LeaseInv'
<1>1. IoSteps /\ UNCHANGED <<rx, ctl, lease, clear, bus, out, single>> /\ clk = 0 /\ clk' = 90
  BY IoEdgeSteps DEF Edge0, LeaseInv, Registers
<1>2. Flow'
  <2>1. ToCome(io') + Words(io') = AskedOnBus + ToCome(io) + Len(io.tx)
    BY <1>1, EdgeFlow DEF LeaseInv
  <2>2. AskedOnBus + ToCome(io) + Len(io.tx) + Len(rx) = Need
    BY <1>1 DEF LeaseInv, Flow
  <2>3. Len(rx) \in Nat /\ AskedOnBus + ToCome(io) + Len(io.tx) \in Nat
    BY WordCounts DEF LeaseInv
  <2>4. ToCome(io') + Words(io') + Len(rx) = Need
    BY <2>1, <2>2, <2>3
  <2>5. Need' = Need /\ Len(rx)' = Len(rx) /\ ToCome(io)' = ToCome(io') /\ Words(io)' = Words(io')
    BY <1>1 DEF Need
  <2> QED BY <1>1, <2>4, <2>5 DEF Flow
<1>3. Requests' /\ Transfers' /\ Acknowledged'
  BY <1>1 DEF LeaseInv, Requests, Transfers, Acknowledged
<1> QED BY <1>2, <1>3, EdgeRegisters, EdgeAlone, EdgeInTime DEF LeaseInv

-----------------------------------------------------------------------------
(* 90 and 270 degrees, and the DDR3 controller.                             *)

\* So does the edge at 90 degrees, at which a word enters the receive buffer.
LEMMA Edge90Inv ==
  ASSUME LeaseInv, Edge90
  PROVE  LeaseInv'
<1>1. /\ clk = 90 /\ clk' = 180 /\ rx' = (IF io.valid THEN Append(rx, io.data) ELSE rx)
      /\ clear' = io.done
      /\ UNCHANGED <<core, ctl, out, lease, single, phase, newPhase, bus, io, ddr3>>
  BY DEF Edge90, P!RxEdge, cacheVars, leaseVars, hartVars
<1>2. IsSeq(rx) /\ IoShape(io) /\ Len(io.tx) \in Nat /\ Len(rx) \in Nat
      /\ ToCome(io) \in Nat
  BY WordCounts DEF LeaseInv, Registers
<1>3. IsSeq(rx') /\ Len(rx') = IF io.valid THEN Len(rx) + 1 ELSE Len(rx)
  BY <1>1, <1>2, Appended
<1>4. Registers'
  BY <1>1, <1>3 DEF LeaseInv, Registers
<1>5. Flow'
  <2>1. ToCome(io) + Words(io) + Len(rx) = Need
    BY <1>1 DEF LeaseInv, Flow
  <2>2. ToCome(io) + Len(io.tx) + Len(rx') = Need
    <3>1. CASE io.valid
      <4>1. Words(io) = Len(io.tx) + 1 /\ Len(rx') = Len(rx) + 1
        BY <1>3, <3>1 DEF Words
      <4> QED BY <1>2, <2>1, <4>1
    <3>2. CASE ~io.valid
      <4>1. Words(io) = Len(io.tx) /\ Len(rx') = Len(rx)
        BY <1>3, <3>2 DEF Words
      <4> QED BY <1>2, <2>1, <4>1
    <3> QED BY <3>1, <3>2
  <2>3. Need' = Need /\ ToCome(io)' = ToCome(io) /\ Len(io.tx)' = Len(io.tx)
        /\ Len(rx)' = Len(rx')
    BY <1>1 DEF Need
  <2> QED BY <1>1, <2>2, <2>3 DEF Flow
<1>6. Ready' /\ Requests' /\ Transfers' /\ Calm' /\ Acknowledged'
  BY <1>1 DEF LeaseInv, Ready, Requests, Transfers, Calm, Acknowledged
<1>7. Alone'
  <2>1. Replacing' = Replacing
    BY <1>1 DEF Replacing
  <2> QED BY <1>1, <2>1 DEF LeaseInv, Alone
<1>8. InTime'
  <2>1. Need' = Need /\ Left' = Left /\ Cycles(io)' = Cycles(io)
    BY <1>1 DEF Need, Left
  <2> QED BY <1>1, <2>1 DEF LeaseInv, InTime
<1> QED BY <1>4, <1>5, <1>6, <1>7, <1>8 DEF LeaseInv

\* So does a step of the DDR3 controller.
LEMMA DdrInv ==
  ASSUME LeaseInv, Ddr
  PROVE  LeaseInv'
<1>1. /\ UNCHANGED <<clk, core, ctl, out, lease, single, phase, newPhase, bus, io, rx, clear>>
      /\ \/ ddr3 = "reading" /\ ddr3' = "answered"
         \/ ddr3 = "writing" /\ ddr3' = "free"
  BY DEF Ddr, P!DdrStep, P!DdrAnswers, P!DdrWritten, cacheVars, leaseVars, hartVars
<1>2. Registers' /\ Requests' /\ Transfers' /\ Calm' /\ Acknowledged' /\ Ready'
  BY <1>1 DEF LeaseInv, Registers, Requests, Transfers, Calm, Acknowledged, Ready
<1>3. /\ Need' = Need /\ Left' = Left /\ Replacing' = Replacing /\ Cycles(io)' = Cycles(io)
      /\ ToCome(io)' = ToCome(io) /\ AskedOnBus' = AskedOnBus /\ Asked' = Asked
      /\ Words(io)' = Words(io) /\ Len(io.tx)' = Len(io.tx) /\ Len(rx)' = Len(rx)
  BY <1>1 DEF Need, Left, Replacing, AskedOnBus, Asked
<1>4. Flow'
  BY <1>1, <1>3 DEF LeaseInv, Flow
<1>5. Alone'
  BY <1>1, <1>3 DEF LeaseInv, Alone
<1>6. InTime'
  BY <1>1, <1>3 DEF LeaseInv, InTime
<1> QED BY <1>2, <1>4, <1>5, <1>6 DEF LeaseInv

\* The request port after the edge that passes a request on.
LEMMA PortSteps ==
  ASSUME Registers, P!TxEdge(out, single)
  PROVE  /\ bus'.req <=> io.ready /\ (out.read # NoBlock \/ out.write # NoBlock)
         /\ bus'.req => /\ bus'.rw <=> out.write # NoBlock
                        /\ bus'.block <=> single = NoWord
         /\ rx' = IF out.ack THEN Tail(rx) ELSE rx
         /\ UNCHANGED <<clear, io, ddr3, ddr>>
BY DEF P!TxEdge

\* So does the edge at 270 degrees, at which a request is passed on.
LEMMA Edge270Inv ==
  ASSUME LeaseInv, Edge270
  PROVE  LeaseInv'
<1>1. /\ clk = 270 /\ clk' = 0
      /\ UNCHANGED <<core, ctl, out, lease, single, phase, newPhase, clear, io, ddr3>>
      /\ rx' = IF out.ack THEN Tail(rx) ELSE rx
      /\ bus'.req <=> io.ready /\ (out.read # NoBlock \/ out.write # NoBlock)
      /\ bus'.req => /\ bus'.rw <=> out.write # NoBlock
                     /\ bus'.block <=> single = NoWord
  BY PortSteps DEF LeaseInv, Edge270, MemoryEdge, leaseVars, hartVars
<1>2. /\ out.read # NoBlock \/ out.write # NoBlock => io.ready
      /\ out.read = NoBlock \/ out.write = NoBlock
      /\ out.read # NoBlock => /\ ctl.state \in Asking
                               /\ single # NoWord <=> ctl.state = "noSwapRead"
      /\ out.ack => rx # <<>>
      /\ Asked + ToCome(io) + Len(io.tx) + Len(rx) = Need + (IF out.ack THEN 1 ELSE 0)
  BY <1>1 DEF LeaseInv, Requests, Flow
<1>3. IsSeq(rx) /\ Len(io.tx) \in Nat /\ Len(rx) \in Nat /\ ToCome(io) \in Nat
      /\ Asked \in Nat /\ Need \in Nat
  BY WordCounts DEF LeaseInv, Registers
<1>4. IsSeq(rx') /\ Len(rx') = IF out.ack THEN Len(rx) - 1 ELSE Len(rx)
  BY <1>1, <1>2, <1>3, Taken
<1>5. Registers'
  BY <1>1, <1>4 DEF LeaseInv, Registers
<1>a. /\ bus'.req /\ ~bus'.rw <=> out.read # NoBlock
      /\ bus'.req /\ bus'.rw <=> out.write # NoBlock
      /\ out.read # NoBlock => (bus'.block <=> single = NoWord)
      /\ bus'.req => io.ready
  <2>1. bus'.req => io.ready
    BY <1>1, Zenon
  <2>2. bus'.req <=> out.read # NoBlock \/ out.write # NoBlock
    BY <1>1, <1>2, Zenon
  <2>3. out.read # NoBlock => ~bus'.rw /\ (bus'.block <=> single = NoWord)
    BY <1>1, <1>2, <2>2, Zenon
  <2>4. out.write # NoBlock => bus'.rw
    BY <1>1, <2>2, Zenon
  <2> QED BY <1>2, <2>1, <2>2, <2>3, <2>4, Zenon
<1>6. AskedOnBus' = Asked
  <2>1. CASE out.read = NoBlock
    BY <1>a, <2>1, Zenon DEF AskedOnBus, Asked
  <2>2. CASE out.read # NoBlock
    BY <1>a, <2>2, Zenon DEF AskedOnBus, Asked
  <2> QED BY <2>1, <2>2
<1>7. Flow'
  <2>1. Asked + ToCome(io) + Len(io.tx) + Len(rx') = Need
    <3>1. CASE out.ack
      BY <1>2, <1>3, <1>4, <3>1, SMTT(30)
    <3>2. CASE ~out.ack
      BY <1>2, <1>3, <1>4, <3>2, SMTT(30)
    <3> QED BY <3>1, <3>2
  <2>2. Need' = Need /\ ToCome(io)' = ToCome(io) /\ Len(io.tx)' = Len(io.tx)
        /\ Len(rx)' = Len(rx')
    BY <1>1 DEF Need
  <2> QED BY <1>1, <1>6, <2>1, <2>2 DEF Flow
<1>8. Ready' /\ Transfers' /\ Calm' /\ Acknowledged'
  BY <1>1 DEF LeaseInv, Ready, Transfers, Calm, Acknowledged
<1>9. Requests'
  <2>1. ctl' = ctl /\ io' = io /\ clk' = 0
    BY <1>1
  <2>2. bus'.req => io'.ready
    BY <1>a, <2>1
  <2>3. bus'.req /\ ~bus'.rw => /\ ctl'.state \in Asking
                                /\ bus'.block <=> ctl'.state # "noSwapRead"
    BY <1>a, <1>2, <2>1, Zenon
  <2> QED BY <2>1, <2>2, <2>3 DEF Requests
<1>10. Alone'
  <2>1. Replacing' <=> Replacing
    BY <1>1 DEF Replacing
  <2>2. Replacing => ~(bus'.req /\ bus'.rw)
    BY <1>1, <1>a DEF LeaseInv, Alone
  <2> QED BY <1>1, <2>1, <2>2 DEF LeaseInv, Alone
<1>11. InTime'
  <2>1. Need' = Need /\ Left' = Left /\ Cycles(io)' = Cycles(io)
    BY <1>1 DEF Need, Left
  <2> QED BY <1>1, <2>1 DEF LeaseInv, InTime
<1> QED BY <1>5, <1>7, <1>8, <1>9, <1>10, <1>11 DEF LeaseInv

-----------------------------------------------------------------------------
(* 180 degrees: the invariant.                                              *)

\* What is asked for can be told from no request.
LEMMA Requested ==
  ASSUME Registers
  PROVE  /\ core.block # NoBlock /\ core.word # NoWord
         /\ <<"config", phase>> # NoBlock
         /\ <<"table", phase, lease.counter \div W>> # NoBlock
<1>1. core.block # NoBlock /\ core.word # NoWord
  BY CacheAssumption, LeaseSystemAssumption DEF Registers
<1>2. <<"config", phase>> # NoBlock
  BY LeaseSystemAssumption DEF Registers, TableBlock
<1>3. lease.counter \div W \in 0 .. (2 * Entries) \div W - 1
  <2>1. W \in Nat \ {0} /\ Entries \in Nat \ {0} /\ Entries % W = 0
    BY CacheAssumption, TableAssumption
  <2>2. PICK k \in Nat : Entries = W * k
    <3>1. Entries = W * (Entries \div W) + (Entries % W) /\ Entries \div W \in Nat
      BY <2>1
    <3> QED BY <2>1, <3>1
  <2>3. lease.counter \in Nat /\ lease.counter < 2 * Entries
    BY <2>1 DEF Registers, Counter
  <2> DEFINE q == lease.counter \div W
  <2>4. q \in Nat /\ W * q <= lease.counter
    BY <2>1, <2>3
  <2>5. (2 * Entries) \div W = 2 * k
    <3>1. 2 * Entries = W * (2 * k)
      BY <2>1, <2>2
    <3> QED BY <2>1, <2>2, <3>1
  <2>6. q < 2 * k
    <3>1. W * q < W * (2 * k)
      BY <2>1, <2>2, <2>3, <2>4
    <3> QED BY <2>1, <2>2, <2>4, <3>1
  <2> QED BY <2>2, <2>4, <2>5, <2>6
<1>4. <<"table", phase, lease.counter \div W>> # NoBlock
  BY <1>3, LeaseSystemAssumption DEF Registers, TableBlock
<1> QED BY <1>1, <1>2, <1>4

\* The edge, case by case.
Outcome ==
  \/ Interrupts /\ lease'.phase = phase /\ single' = NoWord
  \/ TakesTable /\ lease'.phase = lease.phase /\ single' = NoWord
  \/ lease'.phase = lease.phase /\ single' = NoWord /\ TakesHit
  \/ lease'.phase = lease.phase /\ single' = NoWord /\ TakesMiss
  \/ lease'.phase = lease.phase /\ single' = NoWord /\ RequestsConfig
  \/ lease'.phase = lease.phase /\ single' = NoWord /\ RequestsTable
  \/ lease'.phase = lease.phase /\ single' = NoWord /\ TakesConfig
  \/ lease'.phase = lease.phase /\ single' = NoWord /\ TakesBlock
  \/ lease'.phase = lease.phase /\ single' = NoWord /\ TakesSingle
  \/ lease'.phase = lease.phase /\ single' = NoWord /\ RequestsBlock
  \/ lease'.phase = lease.phase /\ single' = NoWord /\ TakesLine
  \/ lease'.phase = lease.phase /\ single' = NoWord /\ Pushes
  \/ lease'.phase = lease.phase /\ single' = NoWord /\ StaysPut
  \/ lease'.phase = lease.phase /\ single' = NoWord /\ Sleeps
  \/ lease'.phase = lease.phase /\ single' = core.word /\ RequestsSingle
  \/ lease'.phase = lease.phase /\ single' = core.word /\ WritesSingle

\* One of the cases applies.
LEMMA Outcomes ==
  ASSUME ControllerSteps
  PROVE  Outcome
BY Zenon DEF ControllerSteps, Outcome, LeaseKept, Resumes

\* What the controller asks for it waits for, and what it takes it had to come.
LEMMA Edge180Words ==
  ASSUME W >= 8, LeaseInv, clk = 180, clk' = 270, ControllerSteps,
         UNCHANGED <<core, hartVars, pathVars>>
  PROVE  /\ Asked' + Need = Need' + (IF out'.ack THEN 1 ELSE 0)
         /\ out'.ack => rx # <<>>
<1>a. /\ core.block # NoBlock /\ core.word # NoWord /\ <<"config", phase>> # NoBlock
      /\ <<"table", phase, lease.counter \div W>> # NoBlock
  BY Requested DEF LeaseInv
<1>b. /\ ctl.nTransfer \in 0 .. W - 1 /\ W \in Nat \ {0}
      /\ ctl.state \notin Taking \cup {"writeBuffer"} => ctl.nTransfer = 0
  BY Bursts DEF LeaseInv, Transfers
<1>c. ctl.writebackFlag \in BOOLEAN /\ (TableDone => LastWord)
  BY DEF LeaseInv, Registers, CtlShape, TableDone
<1>1. CASE Interrupts /\ lease'.phase = phase /\ single' = NoWord
  BY <1>1, <1>a, <1>b, <1>c
     DEF Interrupts, Becomes, Asked, Need, Taking, NextTransfer, LastWord, FirstWord
<1>2. CASE TakesTable /\ lease'.phase = lease.phase /\ single' = NoWord
  BY <1>2, <1>a, <1>b, <1>c
     DEF TakesTable, Becomes, Asked, Need, Taking, NextTransfer, LastWord, FirstWord
<1>3. CASE lease'.phase = lease.phase /\ single' = NoWord /\ TakesHit
  BY <1>3, <1>a, <1>b, <1>c
     DEF TakesHit, Becomes, Asked, Need, Taking, NextTransfer, LastWord, FirstWord
<1>4. CASE lease'.phase = lease.phase /\ single' = NoWord /\ TakesMiss
  BY <1>4, <1>a, <1>b, <1>c
     DEF TakesMiss, Becomes, Asked, Need, Taking, NextTransfer, LastWord, FirstWord
<1>5. CASE lease'.phase = lease.phase /\ single' = NoWord /\ RequestsConfig
  BY <1>5, <1>a, <1>b, <1>c
     DEF RequestsConfig, Becomes, Asked, Need, Taking, NextTransfer, LastWord,
         FirstWord
<1>6. CASE lease'.phase = lease.phase /\ single' = NoWord /\ RequestsTable
  BY <1>6, <1>a, <1>b, <1>c
     DEF RequestsTable, Becomes, Asked, Need, Taking, NextTransfer, LastWord,
         FirstWord
<1>7. CASE lease'.phase = lease.phase /\ single' = NoWord /\ TakesConfig
  BY <1>7, <1>a, <1>b, <1>c
     DEF TakesConfig, Becomes, Asked, Need, Taking, NextTransfer, LastWord, FirstWord
<1>8. CASE lease'.phase = lease.phase /\ single' = NoWord /\ TakesBlock
  BY <1>8, <1>a, <1>b, <1>c
     DEF TakesBlock, Becomes, Asked, Need, Taking, NextTransfer, LastWord, FirstWord
<1>9. CASE lease'.phase = lease.phase /\ single' = NoWord /\ TakesSingle
  BY <1>9, <1>a, <1>b, <1>c
     DEF TakesSingle, Becomes, Asked, Need, Taking, NextTransfer, LastWord, FirstWord
<1>10. CASE lease'.phase = lease.phase /\ single' = NoWord /\ RequestsBlock
  BY <1>10, <1>a, <1>b, <1>c
     DEF RequestsBlock, Becomes, Asked, Need, Taking, NextTransfer, LastWord,
         FirstWord
<1>11. CASE lease'.phase = lease.phase /\ single' = NoWord /\ TakesLine
  BY <1>11, <1>a, <1>b, <1>c
     DEF TakesLine, Becomes, Asked, Need, Taking, NextTransfer, LastWord, FirstWord
<1>12. CASE lease'.phase = lease.phase /\ single' = NoWord /\ Pushes
  BY <1>12, <1>a, <1>b, <1>c
     DEF Pushes, Becomes, Asked, Need, Taking, NextTransfer, LastWord, FirstWord
<1>13. CASE lease'.phase = lease.phase /\ single' = NoWord /\ StaysPut
  BY <1>13, <1>a, <1>b, <1>c
     DEF StaysPut, Becomes, Asked, Need, Taking, NextTransfer, LastWord, FirstWord
<1>14. CASE lease'.phase = lease.phase /\ single' = NoWord /\ Sleeps
  BY <1>14, <1>a, <1>b, <1>c
     DEF Sleeps, Becomes, Asked, Need, Taking, NextTransfer, LastWord, FirstWord
<1>15. CASE lease'.phase = lease.phase /\ single' = core.word /\ RequestsSingle
  BY <1>15, <1>a, <1>b, <1>c
     DEF RequestsSingle, Becomes, Asked, Need, Taking, NextTransfer, LastWord,
         FirstWord
<1>16. CASE lease'.phase = lease.phase /\ single' = core.word /\ WritesSingle
  BY <1>16, <1>a, <1>b, <1>c
     DEF WritesSingle, Becomes, Asked, Need, Taking, NextTransfer, LastWord, FirstWord
<1> QED BY Outcomes, <1>1, <1>2, <1>3, <1>4, <1>5, <1>6, <1>7, <1>8, <1>9, <1>10, <1>11, <1>12,
           <1>13, <1>14, <1>15, <1>16, Zenon DEF Outcome

\* The controller's registers still agree.
LEMMA Edge180Transfers ==
  ASSUME W >= 8, LeaseInv, clk = 180, clk' = 270, ControllerSteps,
         UNCHANGED <<core, hartVars, pathVars>>
  PROVE  Transfers'
<1>b. /\ ctl.nTransfer \in 0 .. W - 1 /\ W \in Nat \ {0}
      /\ ctl.state \notin Taking \cup {"writeBuffer"} => ctl.nTransfer = 0
  BY Bursts DEF LeaseInv, Transfers
<1>c. /\ ctl.writebackFlag \in BOOLEAN /\ ctl.reqFlag \in BOOLEAN /\ ctl.done \in BOOLEAN
      /\ core.req \in BOOLEAN /\ io.ready \in BOOLEAN /\ (TableDone => LastWord)
  BY DEF LeaseInv, Registers, CtlShape, IoShape, TableDone
<1>d. Transfers
  BY DEF LeaseInv
<1>e. ctl.state = "normal" /\ lease.phase # phase /\ ctl.writebackFlag => io.ready
  <2> SUFFICES ASSUME ctl.state = "normal", lease.phase # phase, ctl.writebackFlag
               PROVE  io.ready
    OBVIOUS
  <2>1. ~ctl.reqFlag
    BY DEF LeaseInv, Calm
  <2>2. Cycles(io) = 0
    BY <2>1 DEF LeaseInv, InTime
  <2> QED BY <2>2 DEF LeaseInv, Registers, IoShape, Cycles
<1>1. CASE Interrupts /\ lease'.phase = phase /\ single' = NoWord
  BY <1>1, <1>b, <1>c, <1>d, <1>e
     DEF Interrupts, Becomes, Transfers, Taking, Missed, NextTransfer, LastWord,
         FirstWord, Active
<1>2. CASE TakesTable /\ lease'.phase = lease.phase /\ single' = NoWord
  BY <1>2, <1>b, <1>c, <1>d
     DEF TakesTable, Becomes, Transfers, Taking, Missed, NextTransfer, LastWord,
         FirstWord, Active
<1>3. CASE lease'.phase = lease.phase /\ single' = NoWord /\ TakesHit
  BY <1>3, <1>b, <1>c, <1>d
     DEF TakesHit, Becomes, Transfers, Taking, Missed, NextTransfer, LastWord,
         FirstWord, Active
<1>4. CASE lease'.phase = lease.phase /\ single' = NoWord /\ TakesMiss
  BY <1>4, <1>b, <1>c, <1>d
     DEF TakesMiss, Becomes, Transfers, Taking, Missed, NextTransfer, LastWord,
         FirstWord, Active
<1>5. CASE lease'.phase = lease.phase /\ single' = NoWord /\ RequestsConfig
  BY <1>5, <1>b, <1>c, <1>d
     DEF RequestsConfig, Becomes, Transfers, Taking, Missed, NextTransfer, LastWord,
         FirstWord, Active
<1>6. CASE lease'.phase = lease.phase /\ single' = NoWord /\ RequestsTable
  BY <1>6, <1>b, <1>c, <1>d
     DEF RequestsTable, Becomes, Transfers, Taking, Missed, NextTransfer, LastWord,
         FirstWord, Active
<1>7. CASE lease'.phase = lease.phase /\ single' = NoWord /\ TakesConfig
  BY <1>7, <1>b, <1>c, <1>d
     DEF TakesConfig, Becomes, Transfers, Taking, Missed, NextTransfer, LastWord,
         FirstWord, Active
<1>8. CASE lease'.phase = lease.phase /\ single' = NoWord /\ TakesBlock
  BY <1>8, <1>b, <1>c, <1>d
     DEF TakesBlock, Becomes, Transfers, Taking, Missed, NextTransfer, LastWord,
         FirstWord, Active
<1>9. CASE lease'.phase = lease.phase /\ single' = NoWord /\ TakesSingle
  BY <1>9, <1>b, <1>c, <1>d
     DEF TakesSingle, Becomes, Transfers, Taking, Missed, NextTransfer, LastWord,
         FirstWord, Active
<1>10. CASE lease'.phase = lease.phase /\ single' = NoWord /\ RequestsBlock
  BY <1>10, <1>b, <1>c, <1>d
     DEF RequestsBlock, Becomes, Transfers, Taking, Missed, NextTransfer, LastWord,
         FirstWord, Active
<1>11. CASE lease'.phase = lease.phase /\ single' = NoWord /\ TakesLine
  BY <1>11, <1>b, <1>c, <1>d
     DEF TakesLine, Becomes, Transfers, Taking, Missed, NextTransfer, LastWord,
         FirstWord, Active
<1>12. CASE lease'.phase = lease.phase /\ single' = NoWord /\ Pushes
  BY <1>12, <1>b, <1>c, <1>d
     DEF Pushes, Becomes, Transfers, Taking, Missed, NextTransfer, LastWord, FirstWord,
         Active
<1>13. CASE lease'.phase = lease.phase /\ single' = NoWord /\ StaysPut
  BY <1>13, <1>b, <1>c, <1>d
     DEF StaysPut, Becomes, Transfers, Taking, Missed, NextTransfer, LastWord,
         FirstWord, Active
<1>14. CASE lease'.phase = lease.phase /\ single' = NoWord /\ Sleeps
  BY <1>14, <1>b, <1>c, <1>d
     DEF Sleeps, Becomes, Transfers, Taking, Missed, NextTransfer, LastWord, FirstWord,
         Active
<1>15. CASE lease'.phase = lease.phase /\ single' = core.word /\ RequestsSingle
  BY <1>15, <1>b, <1>c, <1>d
     DEF RequestsSingle, Becomes, Transfers, Taking, Missed, NextTransfer, LastWord,
         FirstWord, Active
<1>16. CASE lease'.phase = lease.phase /\ single' = core.word /\ WritesSingle
  BY <1>16, <1>b, <1>c, <1>d
     DEF WritesSingle, Becomes, Transfers, Taking, Missed, NextTransfer, LastWord,
         FirstWord, Active
<1> QED BY Outcomes, <1>1, <1>2, <1>3, <1>4, <1>5, <1>6, <1>7, <1>8, <1>9, <1>10, <1>11, <1>12,
           <1>13, <1>14, <1>15, <1>16, Zenon DEF Outcome

\* The request that it makes is the only one, of a buffer that is ready.
LEMMA Edge180Requests ==
  ASSUME W >= 8, LeaseInv, clk = 180, clk' = 270, ControllerSteps,
         UNCHANGED <<core, hartVars, pathVars>>
  PROVE  Requests'
<1>b. /\ ctl.nTransfer \in 0 .. W - 1 /\ W \in Nat \ {0}
      /\ ctl.state \notin Taking \cup {"writeBuffer"} => ctl.nTransfer = 0
  BY Bursts DEF LeaseInv, Transfers
<1>c. /\ ctl.writebackFlag \in BOOLEAN /\ ctl.reqFlag \in BOOLEAN /\ ctl.done \in BOOLEAN
      /\ core.req \in BOOLEAN /\ io.ready \in BOOLEAN /\ (TableDone => LastWord)
  BY DEF LeaseInv, Registers, CtlShape, IoShape, TableDone
<1>a. /\ core.block # NoBlock /\ core.word # NoWord /\ <<"config", phase>> # NoBlock
      /\ <<"table", phase, lease.counter \div W>> # NoBlock
  BY Requested DEF LeaseInv
<1>d. Transfers /\ io' = io
  BY DEF LeaseInv, pathVars
<1>1. CASE Interrupts /\ lease'.phase = phase /\ single' = NoWord
  BY <1>1, <1>a, <1>c, <1>d DEF Interrupts, Becomes, Transfers, Requests, Asking
<1>2. CASE TakesTable /\ lease'.phase = lease.phase /\ single' = NoWord
  BY <1>2, <1>a, <1>c, <1>d DEF TakesTable, Becomes, Transfers, Requests, Asking
<1>3. CASE lease'.phase = lease.phase /\ single' = NoWord /\ TakesHit
  BY <1>3, <1>a, <1>c, <1>d DEF TakesHit, Becomes, Transfers, Requests, Asking
<1>4. CASE lease'.phase = lease.phase /\ single' = NoWord /\ TakesMiss
  BY <1>4, <1>a, <1>c, <1>d DEF TakesMiss, Becomes, Transfers, Requests, Asking
<1>5. CASE lease'.phase = lease.phase /\ single' = NoWord /\ RequestsConfig
  BY <1>5, <1>a, <1>c, <1>d DEF RequestsConfig, Becomes, Transfers, Requests, Asking
<1>6. CASE lease'.phase = lease.phase /\ single' = NoWord /\ RequestsTable
  BY <1>6, <1>a, <1>c, <1>d DEF RequestsTable, Becomes, Transfers, Requests, Asking
<1>7. CASE lease'.phase = lease.phase /\ single' = NoWord /\ TakesConfig
  BY <1>7, <1>a, <1>c, <1>d DEF TakesConfig, Becomes, Transfers, Requests, Asking
<1>8. CASE lease'.phase = lease.phase /\ single' = NoWord /\ TakesBlock
  BY <1>8, <1>a, <1>c, <1>d DEF TakesBlock, Becomes, Transfers, Requests, Asking
<1>9. CASE lease'.phase = lease.phase /\ single' = NoWord /\ TakesSingle
  BY <1>9, <1>a, <1>c, <1>d DEF TakesSingle, Becomes, Transfers, Requests, Asking
<1>10. CASE lease'.phase = lease.phase /\ single' = NoWord /\ RequestsBlock
  BY <1>10, <1>a, <1>c, <1>d DEF RequestsBlock, Becomes, Transfers, Requests, Asking
<1>11. CASE lease'.phase = lease.phase /\ single' = NoWord /\ TakesLine
  BY <1>11, <1>a, <1>c, <1>d DEF TakesLine, Becomes, Transfers, Requests, Asking
<1>12. CASE lease'.phase = lease.phase /\ single' = NoWord /\ Pushes
  BY <1>12, <1>a, <1>c, <1>d DEF Pushes, Becomes, Transfers, Requests, Asking
<1>13. CASE lease'.phase = lease.phase /\ single' = NoWord /\ StaysPut
  BY <1>13, <1>a, <1>c, <1>d DEF StaysPut, Becomes, Transfers, Requests, Asking
<1>14. CASE lease'.phase = lease.phase /\ single' = NoWord /\ Sleeps
  BY <1>14, <1>a, <1>c, <1>d DEF Sleeps, Becomes, Transfers, Requests, Asking
<1>15. CASE lease'.phase = lease.phase /\ single' = core.word /\ RequestsSingle
  BY <1>15, <1>a, <1>c, <1>d DEF RequestsSingle, Becomes, Transfers, Requests, Asking
<1>16. CASE lease'.phase = lease.phase /\ single' = core.word /\ WritesSingle
  BY <1>16, <1>a, <1>c, <1>d DEF WritesSingle, Becomes, Transfers, Requests, Asking
<1> QED BY Outcomes, <1>1, <1>2, <1>3, <1>4, <1>5, <1>6, <1>7, <1>8, <1>9, <1>10, <1>11, <1>12,
           <1>13, <1>14, <1>15, <1>16, Zenon DEF Outcome

\* It misses only for the phase that the program stays in.
LEMMA Edge180Calm ==
  ASSUME W >= 8, LeaseInv, clk = 180, clk' = 270, ControllerSteps,
         UNCHANGED <<core, hartVars, pathVars>>
  PROVE  Calm'
<1>b. /\ ctl.nTransfer \in 0 .. W - 1 /\ W \in Nat \ {0}
      /\ ctl.state \notin Taking \cup {"writeBuffer"} => ctl.nTransfer = 0
  BY Bursts DEF LeaseInv, Transfers
<1>c. /\ ctl.writebackFlag \in BOOLEAN /\ ctl.reqFlag \in BOOLEAN /\ ctl.done \in BOOLEAN
      /\ core.req \in BOOLEAN /\ io.ready \in BOOLEAN /\ (TableDone => LastWord)
  BY DEF LeaseInv, Registers, CtlShape, IoShape, TableDone
<1>d. /\ Transfers /\ phase' = phase /\ newPhase' = newPhase
      /\ core.req => newPhase = phase
      /\ ~ctl.done => newPhase = phase
      /\ ctl.state \in Missed \/ (ctl.state = "normal" /\ ctl.writebackFlag /\ ctl.reqFlag)
         => newPhase = phase /\ lease.phase = phase
  BY DEF LeaseInv, Calm, hartVars
<1>1. CASE Interrupts /\ lease'.phase = phase /\ single' = NoWord
  BY <1>1, <1>c, <1>d DEF Interrupts, Becomes, Transfers, Calm, Missed, Active
<1>2. CASE TakesTable /\ lease'.phase = lease.phase /\ single' = NoWord
  BY <1>2, <1>c, <1>d DEF TakesTable, Becomes, Transfers, Calm, Missed, Active
<1>3. CASE lease'.phase = lease.phase /\ single' = NoWord /\ TakesHit
  BY <1>3, <1>c, <1>d DEF TakesHit, Becomes, Transfers, Calm, Missed, Active
<1>4. CASE lease'.phase = lease.phase /\ single' = NoWord /\ TakesMiss
  BY <1>4, <1>c, <1>d DEF TakesMiss, Becomes, Transfers, Calm, Missed, Active
<1>5. CASE lease'.phase = lease.phase /\ single' = NoWord /\ RequestsConfig
  BY <1>5, <1>c, <1>d DEF RequestsConfig, Becomes, Transfers, Calm, Missed, Active
<1>6. CASE lease'.phase = lease.phase /\ single' = NoWord /\ RequestsTable
  BY <1>6, <1>c, <1>d DEF RequestsTable, Becomes, Transfers, Calm, Missed, Active
<1>7. CASE lease'.phase = lease.phase /\ single' = NoWord /\ TakesConfig
  BY <1>7, <1>c, <1>d DEF TakesConfig, Becomes, Transfers, Calm, Missed, Active
<1>8. CASE lease'.phase = lease.phase /\ single' = NoWord /\ TakesBlock
  BY <1>8, <1>c, <1>d DEF TakesBlock, Becomes, Transfers, Calm, Missed, Active
<1>9. CASE lease'.phase = lease.phase /\ single' = NoWord /\ TakesSingle
  BY <1>9, <1>c, <1>d DEF TakesSingle, Becomes, Transfers, Calm, Missed, Active
<1>10. CASE lease'.phase = lease.phase /\ single' = NoWord /\ RequestsBlock
  BY <1>10, <1>c, <1>d DEF RequestsBlock, Becomes, Transfers, Calm, Missed, Active
<1>11. CASE lease'.phase = lease.phase /\ single' = NoWord /\ TakesLine
  BY <1>11, <1>c, <1>d DEF TakesLine, Becomes, Transfers, Calm, Missed, Active
<1>12. CASE lease'.phase = lease.phase /\ single' = NoWord /\ Pushes
  BY <1>12, <1>c, <1>d DEF Pushes, Becomes, Transfers, Calm, Missed, Active
<1>13. CASE lease'.phase = lease.phase /\ single' = NoWord /\ StaysPut
  BY <1>13, <1>c, <1>d DEF StaysPut, Becomes, Transfers, Calm, Missed, Active
<1>14. CASE lease'.phase = lease.phase /\ single' = NoWord /\ Sleeps
  BY <1>14, <1>c, <1>d DEF Sleeps, Becomes, Transfers, Calm, Missed, Active
<1>15. CASE lease'.phase = lease.phase /\ single' = core.word /\ RequestsSingle
  BY <1>15, <1>c, <1>d DEF RequestsSingle, Becomes, Transfers, Calm, Missed, Active
<1>16. CASE lease'.phase = lease.phase /\ single' = core.word /\ WritesSingle
  BY <1>16, <1>c, <1>d DEF WritesSingle, Becomes, Transfers, Calm, Missed, Active
<1> QED BY Outcomes, <1>1, <1>2, <1>3, <1>4, <1>5, <1>6, <1>7, <1>8, <1>9, <1>10, <1>11, <1>12,
           <1>13, <1>14, <1>15, <1>16, Zenon DEF Outcome

\* A replacement begins on a path that is at rest.
LEMMA Edge180Alone ==
  ASSUME W >= 8, LeaseInv, clk = 180, clk' = 270, ControllerSteps,
         UNCHANGED <<core, hartVars, pathVars>>
  PROVE  Alone'
<1>b. /\ ctl.nTransfer \in 0 .. W - 1 /\ W \in Nat \ {0}
      /\ ctl.state \notin Taking \cup {"writeBuffer"} => ctl.nTransfer = 0
  BY Bursts DEF LeaseInv, Transfers
<1>c. /\ ctl.writebackFlag \in BOOLEAN /\ ctl.reqFlag \in BOOLEAN /\ ctl.done \in BOOLEAN
      /\ core.req \in BOOLEAN /\ io.ready \in BOOLEAN /\ (TableDone => LastWord)
  BY DEF LeaseInv, Registers, CtlShape, IoShape, TableDone
<1>d. /\ Transfers /\ UNCHANGED <<io, ddr3, bus>>
      /\ io.ready => io.state = "idle" /\ io.delay = 0 /\ ddr3 = "free"
      /\ Replacing =>
            \/ io.state = "read" /\ io.delay = 0 /\ (io.flag \in {1, 3} => ddr3 = "free")
            \/ io.state = "waitClear" /\ io.delay = 0 /\ ddr3 = "free"
            \/ io.state = "idle" /\ io.delay <= 2 /\ ddr3 = "free"
  BY DEF LeaseInv, Alone, Ready, pathVars
<1>1. CASE Interrupts /\ lease'.phase = phase /\ single' = NoWord
  BY <1>1, <1>b, <1>c, <1>d
     DEF Interrupts, Becomes, Transfers, Alone, Replacing, Missed, Taking,
         NextTransfer, LastWord, FirstWord
<1>2. CASE TakesTable /\ lease'.phase = lease.phase /\ single' = NoWord
  BY <1>2, <1>b, <1>c, <1>d
     DEF TakesTable, Becomes, Transfers, Alone, Replacing, Missed, Taking,
         NextTransfer, LastWord, FirstWord
<1>3. CASE lease'.phase = lease.phase /\ single' = NoWord /\ TakesHit
  BY <1>3, <1>b, <1>c, <1>d
     DEF TakesHit, Becomes, Transfers, Alone, Replacing, Missed, Taking, NextTransfer,
         LastWord, FirstWord
<1>4. CASE lease'.phase = lease.phase /\ single' = NoWord /\ TakesMiss
  BY <1>4, <1>b, <1>c, <1>d
     DEF TakesMiss, Becomes, Transfers, Alone, Replacing, Missed, Taking, NextTransfer,
         LastWord, FirstWord
<1>5. CASE lease'.phase = lease.phase /\ single' = NoWord /\ RequestsConfig
  BY <1>5, <1>b, <1>c, <1>d
     DEF RequestsConfig, Becomes, Transfers, Alone, Replacing, Missed, Taking,
         NextTransfer, LastWord, FirstWord
<1>6. CASE lease'.phase = lease.phase /\ single' = NoWord /\ RequestsTable
  BY <1>6, <1>b, <1>c, <1>d
     DEF RequestsTable, Becomes, Transfers, Alone, Replacing, Missed, Taking,
         NextTransfer, LastWord, FirstWord
<1>7. CASE lease'.phase = lease.phase /\ single' = NoWord /\ TakesConfig
  BY <1>7, <1>b, <1>c, <1>d
     DEF TakesConfig, Becomes, Transfers, Alone, Replacing, Missed, Taking,
         NextTransfer, LastWord, FirstWord
<1>8. CASE lease'.phase = lease.phase /\ single' = NoWord /\ TakesBlock
  BY <1>8, <1>b, <1>c, <1>d
     DEF TakesBlock, Becomes, Transfers, Alone, Replacing, Missed, Taking,
         NextTransfer, LastWord, FirstWord
<1>9. CASE lease'.phase = lease.phase /\ single' = NoWord /\ TakesSingle
  BY <1>9, <1>b, <1>c, <1>d
     DEF TakesSingle, Becomes, Transfers, Alone, Replacing, Missed, Taking,
         NextTransfer, LastWord, FirstWord
<1>10. CASE lease'.phase = lease.phase /\ single' = NoWord /\ RequestsBlock
  BY <1>10, <1>b, <1>c, <1>d
     DEF RequestsBlock, Becomes, Transfers, Alone, Replacing, Missed, Taking,
         NextTransfer, LastWord, FirstWord
<1>11. CASE lease'.phase = lease.phase /\ single' = NoWord /\ TakesLine
  BY <1>11, <1>b, <1>c, <1>d
     DEF TakesLine, Becomes, Transfers, Alone, Replacing, Missed, Taking, NextTransfer,
         LastWord, FirstWord
<1>12. CASE lease'.phase = lease.phase /\ single' = NoWord /\ Pushes
  BY <1>12, <1>b, <1>c, <1>d
     DEF Pushes, Becomes, Transfers, Alone, Replacing, Missed, Taking, NextTransfer,
         LastWord, FirstWord
<1>13. CASE lease'.phase = lease.phase /\ single' = NoWord /\ StaysPut
  BY <1>13, <1>b, <1>c, <1>d
     DEF StaysPut, Becomes, Transfers, Alone, Replacing, Missed, Taking, NextTransfer,
         LastWord, FirstWord
<1>14. CASE lease'.phase = lease.phase /\ single' = NoWord /\ Sleeps
  BY <1>14, <1>b, <1>c, <1>d
     DEF Sleeps, Becomes, Transfers, Alone, Replacing, Missed, Taking, NextTransfer,
         LastWord, FirstWord
<1>15. CASE lease'.phase = lease.phase /\ single' = core.word /\ RequestsSingle
  BY <1>15, <1>b, <1>c, <1>d
     DEF RequestsSingle, Becomes, Transfers, Alone, Replacing, Missed, Taking,
         NextTransfer, LastWord, FirstWord
<1>16. CASE lease'.phase = lease.phase /\ single' = core.word /\ WritesSingle
  BY <1>16, <1>b, <1>c, <1>d
     DEF WritesSingle, Becomes, Transfers, Alone, Replacing, Missed, Taking,
         NextTransfer, LastWord, FirstWord
<1> QED BY Outcomes, <1>1, <1>2, <1>3, <1>4, <1>5, <1>6, <1>7, <1>8, <1>9, <1>10, <1>11, <1>12,
           <1>13, <1>14, <1>15, <1>16, Zenon DEF Outcome

\* A write-back that is set pending has time enough.
LEMMA Edge180InTime ==
  ASSUME W >= 8, LeaseInv, clk = 180, clk' = 270, ControllerSteps,
         UNCHANGED <<core, hartVars, pathVars>>
  PROVE  InTime'
<1>b. /\ ctl.nTransfer \in 0 .. W - 1 /\ W \in Nat \ {0}
      /\ ctl.state \notin Taking \cup {"writeBuffer"} => ctl.nTransfer = 0
  BY Bursts DEF LeaseInv, Transfers
<1>c. /\ ctl.writebackFlag \in BOOLEAN /\ ctl.reqFlag \in BOOLEAN /\ ctl.done \in BOOLEAN
      /\ core.req \in BOOLEAN /\ io.ready \in BOOLEAN /\ (TableDone => LastWord)
  BY DEF LeaseInv, Registers, CtlShape, IoShape, TableDone
<1>d. /\ Transfers /\ Calm /\ InTime /\ UNCHANGED <<io, phase, newPhase>>
  BY DEF LeaseInv, pathVars, hartVars
<1>e. /\ Cycles(io) \in Nat /\ (Cycles(io) = 0 <=> io.ready)
      /\ Replacing => Cycles(io) <= 6
      /\ Left = 0 /\ Left' = 1 /\ Cycles(io)' = Cycles(io)
  BY <1>d DEF LeaseInv, Registers, IoShape, Alone, Cycles, Left
<1>1. CASE Interrupts /\ lease'.phase = phase /\ single' = NoWord
  BY <1>1, <1>b, <1>c, <1>d, <1>e
     DEF Interrupts, Becomes, Transfers, Calm, InTime, Need, Replacing, Missed, Taking,
         NextTransfer, LastWord, FirstWord, Active
<1>2. CASE TakesTable /\ lease'.phase = lease.phase /\ single' = NoWord
  BY <1>2, <1>b, <1>c, <1>d, <1>e
     DEF TakesTable, Becomes, Transfers, Calm, InTime, Need, Replacing, Missed, Taking,
         NextTransfer, LastWord, FirstWord, Active
<1>3. CASE lease'.phase = lease.phase /\ single' = NoWord /\ TakesHit
  BY <1>3, <1>b, <1>c, <1>d, <1>e
     DEF TakesHit, Becomes, Transfers, Calm, InTime, Need, Replacing, Missed, Taking,
         NextTransfer, LastWord, FirstWord, Active
<1>4. CASE lease'.phase = lease.phase /\ single' = NoWord /\ TakesMiss
  BY <1>4, <1>b, <1>c, <1>d, <1>e
     DEF TakesMiss, Becomes, Transfers, Calm, InTime, Need, Replacing, Missed, Taking,
         NextTransfer, LastWord, FirstWord, Active
<1>5. CASE lease'.phase = lease.phase /\ single' = NoWord /\ RequestsConfig
  BY <1>5, <1>b, <1>c, <1>d, <1>e
     DEF RequestsConfig, Becomes, Transfers, Calm, InTime, Need, Replacing, Missed,
         Taking, NextTransfer, LastWord, FirstWord, Active
<1>6. CASE lease'.phase = lease.phase /\ single' = NoWord /\ RequestsTable
  BY <1>6, <1>b, <1>c, <1>d, <1>e
     DEF RequestsTable, Becomes, Transfers, Calm, InTime, Need, Replacing, Missed,
         Taking, NextTransfer, LastWord, FirstWord, Active
<1>7. CASE lease'.phase = lease.phase /\ single' = NoWord /\ TakesConfig
  BY <1>7, <1>b, <1>c, <1>d, <1>e
     DEF TakesConfig, Becomes, Transfers, Calm, InTime, Need, Replacing, Missed,
         Taking, NextTransfer, LastWord, FirstWord, Active
<1>8. CASE lease'.phase = lease.phase /\ single' = NoWord /\ TakesBlock
  BY <1>8, <1>b, <1>c, <1>d, <1>e
     DEF TakesBlock, Becomes, Transfers, Calm, InTime, Need, Replacing, Missed, Taking,
         NextTransfer, LastWord, FirstWord, Active
<1>9. CASE lease'.phase = lease.phase /\ single' = NoWord /\ TakesSingle
  BY <1>9, <1>b, <1>c, <1>d, <1>e
     DEF TakesSingle, Becomes, Transfers, Calm, InTime, Need, Replacing, Missed,
         Taking, NextTransfer, LastWord, FirstWord, Active
<1>10. CASE lease'.phase = lease.phase /\ single' = NoWord /\ RequestsBlock
  BY <1>10, <1>b, <1>c, <1>d, <1>e
     DEF RequestsBlock, Becomes, Transfers, Calm, InTime, Need, Replacing, Missed,
         Taking, NextTransfer, LastWord, FirstWord, Active
<1>11. CASE lease'.phase = lease.phase /\ single' = NoWord /\ TakesLine
  BY <1>11, <1>b, <1>c, <1>d, <1>e
     DEF TakesLine, Becomes, Transfers, Calm, InTime, Need, Replacing, Missed, Taking,
         NextTransfer, LastWord, FirstWord, Active
<1>12. CASE lease'.phase = lease.phase /\ single' = NoWord /\ Pushes
  BY <1>12, <1>b, <1>c, <1>d, <1>e
     DEF Pushes, Becomes, Transfers, Calm, InTime, Need, Replacing, Missed, Taking,
         NextTransfer, LastWord, FirstWord, Active
<1>13. CASE lease'.phase = lease.phase /\ single' = NoWord /\ StaysPut
  BY <1>13, <1>b, <1>c, <1>d, <1>e
     DEF StaysPut, Becomes, Transfers, Calm, InTime, Need, Replacing, Missed, Taking,
         NextTransfer, LastWord, FirstWord, Active
<1>14. CASE lease'.phase = lease.phase /\ single' = NoWord /\ Sleeps
  BY <1>14, <1>b, <1>c, <1>d, <1>e
     DEF Sleeps, Becomes, Transfers, Calm, InTime, Need, Replacing, Missed, Taking,
         NextTransfer, LastWord, FirstWord, Active
<1>15. CASE lease'.phase = lease.phase /\ single' = core.word /\ RequestsSingle
  BY <1>15, <1>b, <1>c, <1>d, <1>e
     DEF RequestsSingle, Becomes, Transfers, Calm, InTime, Need, Replacing, Missed,
         Taking, NextTransfer, LastWord, FirstWord, Active
<1>16. CASE lease'.phase = lease.phase /\ single' = core.word /\ WritesSingle
  BY <1>16, <1>b, <1>c, <1>d, <1>e
     DEF WritesSingle, Becomes, Transfers, Calm, InTime, Need, Replacing, Missed,
         Taking, NextTransfer, LastWord, FirstWord, Active
<1> QED BY Outcomes, <1>1, <1>2, <1>3, <1>4, <1>5, <1>6, <1>7, <1>8, <1>9, <1>10, <1>11, <1>12,
           <1>13, <1>14, <1>15, <1>16, Zenon DEF Outcome

\* The edge at 180 degrees keeps the invariant.
LEMMA Edge180Inv ==
  ASSUME W >= 8, LeaseInv, clk = 180, clk' = 270, ControllerSteps,
         UNCHANGED <<core, hartVars, pathVars>>
  PROVE  LeaseInv'
<1>1. /\ UNCHANGED <<core, phase, newPhase, io, ddr3, rx, clear>> /\ clk = 180 /\ clk' = 270
  BY DEF hartVars, pathVars
<1>2. CtlShape(ctl') /\ LeaseShape(lease') /\ lease'.counter \in Counter
  <2>1. CtlShape(ctl)  /\ LeaseShape(lease) /\ lease.counter \in Counter
    BY DEF LeaseInv, Registers
  <2>2. CtlShape(ctl')
    BY <2>1, Zenon DEF ControllerSteps, Resumes, Interrupts, TakesTable, TakesHit, TakesMiss,
       RequestsConfig, RequestsTable, TakesConfig, TakesBlock, TakesSingle, RequestsBlock,
       TakesLine, Pushes, StaysPut, Sleeps, RequestsSingle, WritesSingle, Becomes
  <2>3. LeaseShape(lease') /\ lease'.counter \in Counter
    BY <2>1 DEF ControllerSteps, Resumes, LeaseKept
  <2> QED BY <2>2, <2>3
<1>3. Registers'
  BY <1>1, <1>2 DEF LeaseInv, Registers
<1>4. Flow'
  <2>1. ToCome(io) + Len(io.tx) + Len(rx) = Need
    BY <1>1 DEF LeaseInv, Flow
  <2>2. /\ Asked' + Need = Need' + (IF out'.ack THEN 1 ELSE 0)
        /\ out'.ack => rx # <<>>
    BY Edge180Words
  <2>3. /\ ToCome(io) \in Nat /\ Len(io.tx) \in Nat /\ Len(rx) \in Nat /\ Need \in Nat
    BY WordCounts DEF LeaseInv
  <2>4. Asked' \in Nat /\ Need' \in Nat
    <3>1. Transfers'
      BY Edge180Transfers
    <3> QED BY <3>1, Bursts DEF Transfers, Need, Asked
  <2>5. Asked' + ToCome(io) + Len(io.tx) + Len(rx) = Need' + (IF out'.ack THEN 1 ELSE 0)
    <3>1. CASE out'.ack
      BY <2>1, <2>2, <2>3, <2>4, <3>1
    <3>2. CASE ~out'.ack
      BY <2>1, <2>2, <2>3, <2>4, <3>2
    <3> QED BY <3>1, <3>2
  <2>6. ToCome(io)' = ToCome(io) /\ Len(io.tx)' = Len(io.tx) /\ Len(rx)' = Len(rx)
    BY <1>1
  <2> QED BY <1>1, <2>2, <2>5, <2>6 DEF Flow
<1>5. Ready' /\ Acknowledged'
  BY <1>1 DEF LeaseInv, Ready, Acknowledged
<1> QED BY <1>3, <1>4, <1>5, Edge180Transfers, Edge180Requests, Edge180Calm, Edge180Alone,
           Edge180InTime DEF LeaseInv

-----------------------------------------------------------------------------
(* The specification.                                                       *)

\* At power-up the controller is about to load the table of phase 0, and nothing
\* is under way.
LEMMA InitInv ==
  ASSUME SystemInit
  PROVE  LeaseInv
<1>1. /\ clk = 180 /\ phase = 0 /\ newPhase = 0 /\ out = Quiet /\ single = NoWord
      /\ rx = <<>> /\ clear = FALSE /\ ddr3 = "free" /\ Len(rx) = 0
  BY DEF SystemInit, LeaseCacheInit, P!PathInit
<1>2. /\ core.req = FALSE
      /\ core \in [req : BOOLEAN, rw : BOOLEAN, block : Block, word : Word, data : Data]
  BY CacheAssumption DEF SystemInit, LeaseCacheInit, Access
<1>3. /\ ctl.state = "requestLlt" /\ ctl.nTransfer = 0 /\ ctl.reqFlag = FALSE
      /\ ctl.done = FALSE /\ ctl.writebackFlag = FALSE
      /\ CtlShape(ctl)
  BY DEF SystemInit, LeaseCacheInit, CtlShape, Ctl
<1>4. lease.phase = 0 /\ lease.counter = 0 /\ LeaseShape(lease)
  BY DEF SystemInit, LeaseCacheInit, LeaseShape, LeaseOf
<1>5. /\ io.state = "idle" /\ io.flag = 0 /\ io.tx = <<>> /\ io.delay = 0 /\ io.ready = FALSE
      /\ io.valid = FALSE /\ io.done = FALSE /\ Len(io.tx) = 0
      /\ io = [state |-> io.state, flag |-> io.flag, rx |-> io.rx, tx |-> io.tx,
               delay |-> io.delay, ready |-> io.ready, valid |-> io.valid, done |-> io.done,
               data |-> io.data, add |-> io.add, word |-> io.word]
  BY DEF SystemInit, P!PathInit
<1>6. IsSeq(<<>>)
  BY NoWords
<1>7. IoShape(io)
  <2>1. io.state \in IoStates /\ io.flag \in 0 .. 3 /\ io.delay \in 0 .. 4
    BY <1>5 DEF IoStates
  <2>2. io.ready \in BOOLEAN /\ io.valid \in BOOLEAN /\ io.done \in BOOLEAN /\ IsSeq(io.tx)
    BY <1>5, <1>6
  <2> QED BY <1>5, <2>1, <2>2, Zenon DEF IoShape
<1>8. Registers
  <2>1. 0 \in Phase /\ 0 \in Counter
    BY TableAssumption DEF Counter
  <2> QED BY <1>1, <1>2, <1>3, <1>4, <1>6, <1>7, <2>1 DEF Registers
<1>9. Flow
  BY <1>1, <1>3, <1>5 DEF Flow, Need, ToCome, Taking
<1>10. Transfers
  BY <1>3, Bursts DEF Transfers, Missed, Taking
<1>11. Calm /\ Requests
  BY <1>1, <1>2, <1>3 DEF Calm, Requests, Missed
<1>12. Ready /\ Acknowledged
  BY <1>1, <1>5 DEF Ready, Acknowledged
<1>13. Alone /\ InTime
  BY <1>3 DEF Alone, InTime, Replacing
<1> QED BY <1>8, <1>9, <1>10, <1>11, <1>12, <1>13 DEF LeaseInv

\* The invariant holds across every step, of the hart and the cache, the memory
\* path, the DDR3 controller, and the sampler that stalls them.
LEMMA StepInv ==
  ASSUME W >= 8, LeaseInv, [SampledNext]_sampledVars
  PROVE  LeaseInv'
<1>1. CASE SampledEdge0
  BY <1>1, Edge0Inv DEF SampledEdge0
<1>2. CASE SampledEdge90
  BY <1>2, Edge90Inv DEF SampledEdge90
<1>3. CASE SampledEdge180
  <2>0. CtlShape(ctl) /\ LeaseShape(lease) /\ lease.counter \in Counter
    BY DEF LeaseInv, Registers
  <2>1. CASE Edge180
    <3>1. PICK v : LeaseControllerEdge(io.ready, Len(tx.fifo) < W, rx # <<>>, FromBuffer, v,
                                       phase)
      BY <2>1, Zenon DEF Edge180
    <3>2. ControllerSteps /\ UNCHANGED core
      BY <2>0, <3>1, EnabledSteps, Zenon
    <3> QED BY <2>1, <3>2, Edge180Inv DEF Edge180
  <2>2. CASE clk = 180 /\ clk' = 270 /\ LeaseDisabled /\ UNCHANGED <<hartVars, pathVars>>
    BY <2>0, <2>2, SleepingSteps, Edge180Inv
  <2> QED BY <1>3, <2>1, <2>2 DEF SampledEdge180
<1>4. CASE SampledEdge270
  BY <1>4, Edge270Inv DEF SampledEdge270
<1>5. CASE SampledDdr
  BY <1>5, DdrInv DEF SampledDdr
<1>6. CASE UNCHANGED sampledVars
  <2>1. /\ UNCHANGED <<clk, core, ctl, out, lease, single, phase, newPhase>>
        /\ UNCHANGED <<bus, rx, clear, io, ddr3>>
    BY <1>6 DEF sampledVars, systemVars, cacheVars, leaseVars, hartVars, pathVars
  <2>2. /\ Need' = Need /\ ToCome(io)' = ToCome(io) /\ Asked' = Asked
        /\ AskedOnBus' = AskedOnBus /\ Words(io)' = Words(io) /\ Left' = Left
        /\ Replacing' = Replacing /\ Cycles(io)' = Cycles(io)
    BY <2>1 DEF Need, Asked, AskedOnBus, Left, Replacing
  <2>3. Registers' /\ Ready' /\ Requests' /\ Transfers' /\ Calm' /\ Acknowledged'
    BY <2>1 DEF LeaseInv, Registers, Ready, Requests, Transfers, Calm, Acknowledged
  <2>4. Flow'
    BY <2>1, <2>2 DEF LeaseInv, Flow
  <2>5. Alone' /\ InTime'
    BY <2>1, <2>2 DEF LeaseInv, Alone, InTime
  <2> QED BY <2>3, <2>4, <2>5 DEF LeaseInv
<1> QED BY <1>1, <1>2, <1>3, <1>4, <1>5, <1>6, Zenon DEF SampledNext, SampledEdge

\* No word is lost between the memory and the lease cache, and a write-back is
\* requested before the phase can change.
THEOREM LeaseInvariant == W >= 8 => (SampledSpec => []LeaseInv)
<1> SUFFICES ASSUME W >= 8
             PROVE  SampledSpec => []LeaseInv
  OBVIOUS
<1>1. SampledInit => LeaseInv
  BY InitInv DEF SampledInit
<1>2. LeaseInv /\ [SampledNext]_sampledVars => LeaseInv'
  BY StepInv
<1> QED BY <1>1, <1>2, PTL DEF SampledSpec

\* The controller of the lease cache never makes two requests at once, nor one
\* of a memory path that is not ready, whichever phases the program sets and
\* whenever the sampler stalls it (n_set_dynamic_controller_tracker.v).
THEOREM RequestsAreSingle == W >= 8 => (SampledSpec => []OneRequestAtATime)
<1> SUFFICES ASSUME W >= 8
             PROVE  SampledSpec => []OneRequestAtATime
  OBVIOUS
<1>1. LeaseInv => OneRequestAtATime
  BY DEF LeaseInv, Requests, OneRequestAtATime
<1>2. SampledSpec => []LeaseInv
  BY LeaseInvariant
<1> QED BY <1>1, <1>2, PTL
=============================================================================
