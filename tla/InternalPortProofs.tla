------------------------- MODULE InternalPortProofs -------------------------
(***************************************************************************)
(* Proofs that the caches of the internal system implement MemoryPort, for *)
(* every hart, every two caches of the fixed policies, every replacement   *)
(* and every length of a block: what the hart loads, stores and fetches    *)
(* through n_set_cache_controller.v, memory_controller_internal.v,         *)
(* txrx_buffer.v and io_conversion_buffer_v2.v is what a memory would give *)
(* that serves one access at a time.                                       *)
(*                                                                         *)
(* SysInv counts the words that are on the path.  Here their values are    *)
(* followed.  Reads: the words that arrive (Arriving) are those of the     *)
(* missing block, in order, so that a line that has been filled holds its  *)
(* block.  Writes: the words underway (Underway) are those of the line     *)
(* that is written out, in order, so that Contents, made of the memory and *)
(* of the words underway, loses none of them.  A line that is being        *)
(* refilled is no copy, and a clean line holds what Contents does: when a  *)
(* line stops being a copy, nothing that the hart sees changes.            *)
(*                                                                         *)
(* The data cache's invariant is DataInv, the instruction cache's          *)
(* FetchInv; both rest on LinesInv, on the tags and on the line that is    *)
(* being replaced.  The parts: a cycle of a controller in full, the edges, *)
(* the lines, the words on their way to a cache, the instruction cache,    *)
(* the port, the words on their way to the memory, the data cache, the     *)
(* memory that the hart sees.                                              *)
(***************************************************************************)
EXTENDS InternalSystemProofs

-----------------------------------------------------------------------------
(* One cycle of a controller in full: its registers c become c2, the dirty   *)
(* lines become dirty2, and its strobes are o2.                              *)

\* The line l holds block b, as the comparators read it.
Holding(SetOf, tagMem, l, b) == SetOf[l] = b[2] /\ tagMem[l] = b[1]

\* The writeback block, for the flag and the address that the cycle left.
Requested(flag, add, mready, c2, o2) ==
  /\ c2.addWriteback = add
  /\ IF flag /\ mready THEN ~c2.writebackFlag /\ o2.write = add
     ELSE c2.writebackFlag = flag /\ o2.write = NoBlock

\* Strobes that move no word.
Still(o) == o.wr = NoWord /\ o.push = NoWord /\ ~o.ack /\ ~o.cam

\* The reference in service stays as it is.
SameReference(c, c2) == c2.reqFlag = c.reqFlag /\ c2.rwFlag = c.rwFlag

\* A reference stores; a repeated one does if it was noted to.
StoreOf(core, c) == IF c.reqFlag THEN c.rwFlag ELSE core.rw

HitCycle(core, c, mready, l, dirty, c2, dirty2, o2) ==
  /\ c.state = "normal" /\ Active(core, c)
  /\ c2.state = "normal" /\ ~c2.reqFlag /\ c2.nTransfer = c.nTransfer
  /\ c2.ptr = c.ptr /\ c2.cacheAdd = <<l, core.word>>
  /\ o2.wr = (IF StoreOf(core, c) THEN core.data ELSE NoWord)
  /\ dirty2 = (IF StoreOf(core, c) THEN dirty \cup {l} ELSE dirty)
  /\ o2.read = NoBlock /\ o2.push = NoWord /\ ~o2.ack /\ ~o2.cam
  /\ Requested(c.writebackFlag, c.addWriteback, mready, c2, o2)

MissCycle(core, c, mready, dirty, c2, dirty2, o2) ==
  /\ c.state = "normal" /\ Active(core, c)
  /\ c2.state = "waitReady" /\ c2.reqFlag /\ c2.rwFlag = core.rw
  /\ c2.nTransfer = c.nTransfer /\ c2.ptr = c.ptr /\ c2.cacheAdd = c.cacheAdd
  /\ dirty2 = dirty
  /\ o2.read = NoBlock /\ Still(o2)
  /\ Requested(c.writebackFlag, c.addWriteback, mready, c2, o2)

RequestCycle(core, c, mready, dirty, c2, dirty2, o2) ==
  /\ c.state = "waitReady" /\ mready /\ ~c.writebackFlag
  /\ c2.state = "waitReplacement" /\ SameReference(c, c2)
  /\ c2.nTransfer = c.nTransfer /\ c2.ptr = c.ptr /\ c2.cacheAdd = c.cacheAdd
  /\ dirty2 = dirty
  /\ o2.read = core.block /\ Still(o2)
  /\ ~c2.writebackFlag /\ o2.write = NoBlock

ReplaceCycle(c, mready, v, dirty, c2, dirty2, o2) ==
  /\ c.state = "waitReplacement"
  /\ c2.ptr = v /\ SameReference(c, c2) /\ c2.nTransfer = c.nTransfer
  /\ IF v \in dirty THEN c2.state = "writeBuffer" /\ c2.cacheAdd = <<v, 0>>
     ELSE c2.state = "readBuffer" /\ c2.cacheAdd = c.cacheAdd
  /\ dirty2 = dirty
  /\ o2.read = NoBlock /\ Still(o2)
  /\ Requested(c.writebackFlag, c.addWriteback, mready, c2, o2)

PushCycle(core, c, mready, wready, tagMem, mem, dirty, c2, dirty2, o2) ==
  /\ c.state = "writeBuffer" /\ wready
  /\ c2.ptr = c.ptr /\ SameReference(c, c2)
  /\ IF c.nTransfer = W - 1
     THEN /\ c2.nTransfer = 0 /\ c2.state = "readBuffer"
          /\ c2.cacheAdd = c.cacheAdd /\ dirty2 = dirty \ {c.ptr}
     ELSE /\ c2.nTransfer = c.nTransfer + 1 /\ c2.state = "writeBuffer"
          /\ c2.cacheAdd = <<c.ptr, c.nTransfer + 1>> /\ dirty2 = dirty
  /\ o2.push = mem[c.cacheAdd[1]][c.cacheAdd[2]]
  /\ o2.read = NoBlock /\ o2.wr = NoWord /\ ~o2.ack /\ ~o2.cam
  /\ Requested(c.nTransfer = 0 \/ c.writebackFlag,
               IF c.nTransfer = 0 THEN <<tagMem[c.ptr], core.block[2]>> ELSE c.addWriteback,
               mready, c2, o2)

FillCycle(c, mready, rready, d, dirty, c2, dirty2, o2) ==
  /\ c.state = "readBuffer" /\ rready
  /\ c2.ptr = c.ptr /\ SameReference(c, c2) /\ c2.cacheAdd = <<c.ptr, c.nTransfer>>
  /\ IF c.nTransfer = W - 1
     THEN c2.nTransfer = 0 /\ c2.state = "normal" /\ o2.cam
     ELSE c2.nTransfer = c.nTransfer + 1 /\ c2.state = "readBuffer" /\ ~o2.cam
  /\ dirty2 = dirty
  /\ o2.read = NoBlock /\ o2.push = NoWord /\ o2.ack /\ o2.wr = d
  /\ Requested(c.writebackFlag, c.addWriteback, mready, c2, o2)

WaitCycle(core, c, mready, dirty, c2, dirty2, o2) ==
  /\ c.state = "normal" => ~Active(core, c)
  /\ c2.state = c.state /\ SameReference(c, c2) /\ c2.nTransfer = c.nTransfer
  /\ c2.ptr = c.ptr /\ c2.cacheAdd = c.cacheAdd /\ dirty2 = dirty
  /\ o2.read = NoBlock /\ Still(o2)
  /\ Requested(c.writebackFlag, c.addWriteback, mready, c2, o2)

\* A cycle is one of these.
Cycle(L, SetOf, core, c, tagMem, mem, mready, wready, rready, d, dirty, c2, dirty2, o2) ==
  \/ \E l \in L : /\ Holding(SetOf, tagMem, l, core.block)
                  /\ HitCycle(core, c, mready, l, dirty, c2, dirty2, o2)
  \/ /\ \A l \in L : ~Holding(SetOf, tagMem, l, core.block)
     /\ MissCycle(core, c, mready, dirty, c2, dirty2, o2)
  \/ RequestCycle(core, c, mready, dirty, c2, dirty2, o2)
  \/ \E v \in L : /\ SetOf[v] = core.block[2]
                  /\ ReplaceCycle(c, mready, v, dirty, c2, dirty2, o2)
  \/ PushCycle(core, c, mready, wready, tagMem, mem, dirty, c2, dirty2, o2)
  \/ FillCycle(c, mready, rready, d, dirty, c2, dirty2, o2)
  \/ WaitCycle(core, c, mready, dirty, c2, dirty2, o2)

\* What the writeback block leaves of the registers and strobes.
LEMMA FinishedCycle ==
  ASSUME NEW L, NEW c \in CtlType(L), NEW o \in OutType, o.write = NoBlock,
         NEW mready, NEW c2, NEW o2, Finished(mready, c, o, c2, o2)
  PROVE  /\ c2.state = c.state /\ c2.nTransfer = c.nTransfer /\ c2.ptr = c.ptr
         /\ c2.reqFlag = c.reqFlag /\ c2.rwFlag = c.rwFlag /\ c2.cacheAdd = c.cacheAdd
         /\ o2.read = o.read /\ o2.push = o.push /\ o2.ack = o.ack
         /\ o2.wr = o.wr /\ o2.cam = o.cam
         /\ Requested(c.writebackFlag, c.addWriteback, mready, c2, o2)
<1>1. c.addWriteback \in Block /\ c.addWriteback \in Block \cup {NoBlock} /\ FALSE \in BOOLEAN
  BY Zenon DEF CtlType
<1>2. CASE c.writebackFlag /\ mready
  <2>1. c2 = [c EXCEPT !.writebackFlag = FALSE] /\ o2 = [o EXCEPT !.write = c.addWriteback]
    BY <1>2, Zenon DEF Finished
  <2>2. /\ ~c2.writebackFlag /\ c2.addWriteback = c.addWriteback
        /\ c2.state = c.state /\ c2.nTransfer = c.nTransfer /\ c2.ptr = c.ptr
        /\ c2.reqFlag = c.reqFlag /\ c2.rwFlag = c.rwFlag /\ c2.cacheAdd = c.cacheAdd
    BY <1>1, <2>1, Zenon DEF CtlType
  <2>3. /\ o2.write = c.addWriteback /\ o2.read = o.read /\ o2.push = o.push
        /\ o2.ack = o.ack /\ o2.wr = o.wr /\ o2.cam = o.cam
    BY <1>1, <2>1, Zenon DEF OutType
  <2> QED BY <1>1, <1>2, <2>2, <2>3, Zenon DEF Requested
<1>3. CASE ~(c.writebackFlag /\ mready)
  BY <1>3, Zenon DEF Finished, Requested
<1> QED BY <1>2, <1>3, Zenon

\* What a hit is, and what it leaves before the writeback block.
HitServed(core, c, l, dirty, dirty2, a, d) ==
  /\ c.state = "normal" /\ Active(core, c)
  /\ a = <<l, core.word>>
  /\ d = (IF StoreOf(core, c) THEN core.data ELSE NoWord)
  /\ dirty2 = (IF StoreOf(core, c) THEN dirty \cup {l} ELSE dirty)

\* A hit of line l is the first kind of cycle.
LEMMA IsHitCycle ==
  ASSUME NEW L, NEW core \in CoreType, NEW c \in CtlType(L), NEW dirty, NEW dirty2,
         NEW l \in L, NEW mready, NEW c2, NEW o2, NEW a \in L \X D!Word,
         NEW d \in Data \cup {NoWord},
         HitServed(core, c, l, dirty, dirty2, a, d),
         Finished(mready, [c EXCEPT !.reqFlag = FALSE, !.done = TRUE, !.cacheAdd = a],
                  [D!Quiet EXCEPT !.wr = d], c2, o2)
  PROVE  HitCycle(core, c, mready, l, dirty, c2, dirty2, o2)
<1> DEFINE c1 == [c EXCEPT !.reqFlag = FALSE, !.done = TRUE, !.cacheAdd = a]
           o1 == [D!Quiet EXCEPT !.wr = d]
<1>1. TRUE \in BOOLEAN /\ FALSE \in BOOLEAN
  OBVIOUS
<1>2. Finished(mready, c1, o1, c2, o2)
  OBVIOUS
<1>3. /\ c1 \in CtlType(L) /\ c1.state = c.state /\ c1.nTransfer = c.nTransfer
      /\ c1.ptr = c.ptr /\ c1.reqFlag = FALSE /\ c1.cacheAdd = a
      /\ c1.writebackFlag = c.writebackFlag /\ c1.addWriteback = c.addWriteback
  BY <1>1, Zenon DEF CtlType
<1>4. /\ o1 \in OutType /\ o1.read = D!Quiet.read /\ o1.write = D!Quiet.write
      /\ o1.push = D!Quiet.push /\ o1.ack = D!Quiet.ack /\ o1.wr = d /\ o1.cam = D!Quiet.cam
  BY <1>1, QuietFacts, Zenon DEF OutType
<1> HIDE DEF c1, o1
<1>5. /\ c2.state = c1.state /\ c2.nTransfer = c1.nTransfer /\ c2.ptr = c1.ptr
      /\ c2.reqFlag = c1.reqFlag /\ c2.rwFlag = c1.rwFlag /\ c2.cacheAdd = c1.cacheAdd
      /\ o2.read = o1.read /\ o2.push = o1.push /\ o2.ack = o1.ack
      /\ o2.wr = o1.wr /\ o2.cam = o1.cam
      /\ Requested(c1.writebackFlag, c1.addWriteback, mready, c2, o2)
  <2>1. c1 \in CtlType(L) /\ o1 \in OutType /\ o1.write = NoBlock
    BY <1>3, <1>4, QuietFacts, Zenon
  <2> QED BY <1>2, <2>1, FinishedCycle, Zenon
<1>6. /\ c2.state = "normal" /\ ~c2.reqFlag /\ c2.nTransfer = c.nTransfer
      /\ c2.ptr = c.ptr /\ c2.cacheAdd = a /\ o2.wr = d
      /\ o2.read = NoBlock /\ o2.push = NoWord /\ ~o2.ack /\ ~o2.cam
      /\ Requested(c.writebackFlag, c.addWriteback, mready, c2, o2)
  <2>1. c.state = "normal"
    BY Zenon DEF HitServed
  <2> QED BY <1>3, <1>4, <1>5, <2>1, QuietFacts, Zenon
<1>7. /\ c.state = "normal" /\ Active(core, c)
      /\ a = <<l, core.word>>
      /\ d = (IF StoreOf(core, c) THEN core.data ELSE NoWord)
      /\ dirty2 = (IF StoreOf(core, c) THEN dirty \cup {l} ELSE dirty)
  BY Zenon DEF HitServed
<1> QED BY <1>6, <1>7, Zenon DEF HitCycle

\* A miss is the second: the reference is noted, to be repeated.
LEMMA IsMissCycle ==
  ASSUME NEW L, NEW core \in CoreType, NEW c \in CtlType(L), NEW dirty, NEW dirty2,
         NEW mready, NEW c2, NEW o2,
         c.state = "normal", Active(core, c), dirty2 = dirty,
         Finished(mready,
                  [c EXCEPT !.reqFlag = TRUE, !.rwFlag = core.rw, !.done = FALSE,
                            !.state = "waitReady"], D!Quiet, c2, o2)
  PROVE  MissCycle(core, c, mready, dirty, c2, dirty2, o2)
<1> DEFINE c1 == [c EXCEPT !.reqFlag = TRUE, !.rwFlag = core.rw, !.done = FALSE,
                           !.state = "waitReady"]
<1>1. /\ TRUE \in BOOLEAN /\ FALSE \in BOOLEAN /\ core.rw \in BOOLEAN
      /\ "waitReady" \in CtlState
  BY Zenon DEF CoreType, CtlState
<1>2. /\ c1 \in CtlType(L) /\ c1.state = "waitReady" /\ c1.nTransfer = c.nTransfer
      /\ c1.ptr = c.ptr /\ c1.reqFlag = TRUE /\ c1.rwFlag = core.rw /\ c1.cacheAdd = c.cacheAdd
      /\ c1.writebackFlag = c.writebackFlag /\ c1.addWriteback = c.addWriteback
  BY <1>1, Zenon DEF CtlType
<1>3. Finished(mready, c1, D!Quiet, c2, o2)
  OBVIOUS
<1> HIDE DEF c1
<1>4. /\ c2.state = c1.state /\ c2.nTransfer = c1.nTransfer /\ c2.ptr = c1.ptr
      /\ c2.reqFlag = c1.reqFlag /\ c2.rwFlag = c1.rwFlag /\ c2.cacheAdd = c1.cacheAdd
      /\ o2.read = D!Quiet.read /\ o2.push = D!Quiet.push /\ o2.ack = D!Quiet.ack
      /\ o2.wr = D!Quiet.wr /\ o2.cam = D!Quiet.cam
      /\ Requested(c1.writebackFlag, c1.addWriteback, mready, c2, o2)
  BY <1>2, <1>3, QuietFacts, FinishedCycle, Zenon
<1> QED BY <1>2, <1>4, QuietFacts, Zenon DEF MissCycle, Still

\* The request for the missing block.
LEMMA IsRequestCycle ==
  ASSUME NEW L, NEW core \in CoreType, NEW c \in CtlType(L), NEW dirty, NEW dirty2,
         NEW mready, NEW c2, NEW o2,
         c.state = "waitReady", mready, ~c.writebackFlag, dirty2 = dirty,
         c2 = [c EXCEPT !.state = "waitReplacement"],
         o2 = [D!Quiet EXCEPT !.read = core.block]
  PROVE  RequestCycle(core, c, mready, dirty, c2, dirty2, o2)
<1>1. "waitReplacement" \in CtlState /\ core.block \in Block \cup {NoBlock}
  BY DEF CtlState, CoreType
<1>2. /\ c2.state = "waitReplacement" /\ c2.nTransfer = c.nTransfer /\ c2.ptr = c.ptr
      /\ c2.reqFlag = c.reqFlag /\ c2.rwFlag = c.rwFlag /\ c2.cacheAdd = c.cacheAdd
      /\ c2.writebackFlag = c.writebackFlag
  BY <1>1, Zenon DEF CtlType
<1>3. /\ o2.read = core.block /\ o2.write = D!Quiet.write
      /\ o2.push = D!Quiet.push /\ o2.ack = D!Quiet.ack
      /\ o2.wr = D!Quiet.wr /\ o2.cam = D!Quiet.cam
  BY <1>1, QuietFacts, Zenon DEF OutType
<1> QED BY <1>2, <1>3, QuietFacts, Zenon DEF RequestCycle, Still, SameReference

\* The victim is taken.
LEMMA IsReplaceCycle ==
  ASSUME NEW L, NEW c \in CtlType(L), NEW dirty, NEW dirty2,
         NEW v \in L, NEW mready, NEW c2, NEW o2,
         c.state = "waitReplacement", dirty2 = dirty,
         Finished(mready,
                  IF v \in dirty
                  THEN [c EXCEPT !.ptr = v, !.cacheAdd = <<v, 0>>, !.state = "writeBuffer"]
                  ELSE [c EXCEPT !.ptr = v, !.state = "readBuffer"], D!Quiet, c2, o2)
  PROVE  ReplaceCycle(c, mready, v, dirty, c2, dirty2, o2)
<1> DEFINE c1 == IF v \in dirty
                 THEN [c EXCEPT !.ptr = v, !.cacheAdd = <<v, 0>>, !.state = "writeBuffer"]
                 ELSE [c EXCEPT !.ptr = v, !.state = "readBuffer"]
<1>1. /\ "writeBuffer" \in CtlState /\ "readBuffer" \in CtlState
      /\ <<v, 0>> \in L \X D!Word
  BY Constants DEF CtlState
<1>2. /\ c1 \in CtlType(L) /\ c1.nTransfer = c.nTransfer
      /\ c1.reqFlag = c.reqFlag /\ c1.rwFlag = c.rwFlag
      /\ c1.writebackFlag = c.writebackFlag /\ c1.ptr = v
      /\ c1.addWriteback = c.addWriteback
      /\ IF v \in dirty THEN c1.state = "writeBuffer" /\ c1.cacheAdd = <<v, 0>>
         ELSE c1.state = "readBuffer" /\ c1.cacheAdd = c.cacheAdd
  <2>1. CASE v \in dirty
    <3>1. c1 = [c EXCEPT !.ptr = v, !.cacheAdd = <<v, 0>>, !.state = "writeBuffer"]
      BY <2>1, Zenon
    <3> HIDE DEF c1
    <3> QED BY <1>1, <2>1, <3>1, Zenon DEF CtlType
  <2>2. CASE v \notin dirty
    <3>1. c1 = [c EXCEPT !.ptr = v, !.state = "readBuffer"]
      BY <2>2, Zenon
    <3> HIDE DEF c1
    <3> QED BY <1>1, <2>2, <3>1, Zenon DEF CtlType
  <2> QED BY <2>1, <2>2, Zenon
<1>3. Finished(mready, c1, D!Quiet, c2, o2)
  BY Zenon
<1> HIDE DEF c1
<1>4. /\ c2.state = c1.state /\ c2.nTransfer = c1.nTransfer /\ c2.ptr = c1.ptr
      /\ c2.reqFlag = c1.reqFlag /\ c2.rwFlag = c1.rwFlag /\ c2.cacheAdd = c1.cacheAdd
      /\ o2.read = D!Quiet.read /\ o2.push = D!Quiet.push /\ o2.ack = D!Quiet.ack
      /\ o2.wr = D!Quiet.wr /\ o2.cam = D!Quiet.cam
      /\ Requested(c1.writebackFlag, c1.addWriteback, mready, c2, o2)
  BY <1>2, <1>3, QuietFacts, FinishedCycle, Zenon
<1>5. /\ c2.ptr = v /\ SameReference(c, c2) /\ c2.nTransfer = c.nTransfer
      /\ o2.read = NoBlock /\ Still(o2)
      /\ Requested(c.writebackFlag, c.addWriteback, mready, c2, o2)
  BY <1>2, <1>4, QuietFacts, Zenon DEF Still, SameReference
<1>6. IF v \in dirty THEN c2.state = "writeBuffer" /\ c2.cacheAdd = <<v, 0>>
      ELSE c2.state = "readBuffer" /\ c2.cacheAdd = c.cacheAdd
  BY <1>2, <1>4, Zenon
<1> QED BY <1>5, <1>6, Zenon DEF ReplaceCycle

\* A cycle that waits does no more than the writeback block.
LEMMA IsWaitCycle ==
  ASSUME NEW L, NEW core, NEW c \in CtlType(L), NEW dirty, NEW dirty2,
         NEW mready, NEW c2, NEW o2,
         c.state = "normal" => ~Active(core, c), dirty2 = dirty,
         Finished(mready, c, D!Quiet, c2, o2)
  PROVE  WaitCycle(core, c, mready, dirty, c2, dirty2, o2)
<1>1. /\ c2.state = c.state /\ c2.nTransfer = c.nTransfer /\ c2.ptr = c.ptr
      /\ c2.reqFlag = c.reqFlag /\ c2.rwFlag = c.rwFlag /\ c2.cacheAdd = c.cacheAdd
      /\ o2.read = D!Quiet.read /\ o2.push = D!Quiet.push /\ o2.ack = D!Quiet.ack
      /\ o2.wr = D!Quiet.wr /\ o2.cam = D!Quiet.cam
      /\ Requested(c.writebackFlag, c.addWriteback, mready, c2, o2)
  BY QuietFacts, FinishedCycle, Zenon
<1> QED BY <1>1, QuietFacts, Zenon DEF WaitCycle, Still, SameReference

WordPushed(core, c, wready, tagMem, mem, dirty, dirty2, wb, ad, n, a, st, d) ==
  /\ c.state = "writeBuffer" /\ wready /\ Counted(c, "readBuffer", n, st)
  /\ wb = (c.nTransfer = 0 \/ c.writebackFlag)
  /\ ad = (IF c.nTransfer = 0 THEN <<tagMem[c.ptr], core.block[2]>> ELSE c.addWriteback)
  /\ a = (IF c.nTransfer = W - 1 THEN c.cacheAdd ELSE <<c.ptr, c.nTransfer + 1>>)
  /\ d = mem[c.cacheAdd[1]][c.cacheAdd[2]]
  /\ dirty2 = (IF c.nTransfer = W - 1 THEN dirty \ {c.ptr} ELSE dirty)

\* A word of a dirty line goes to the buffer.
LEMMA IsPushCycle ==
  ASSUME NEW L, NEW core, NEW c \in CtlType(L), NEW dirty, NEW dirty2, NEW tagMem, NEW mem,
         NEW wb \in BOOLEAN, NEW ad \in Block, NEW n \in D!Word,
         NEW a \in L \X D!Word, NEW st \in CtlState, NEW d \in Data,
         NEW mready, NEW wready, NEW c2, NEW o2,
         WordPushed(core, c, wready, tagMem, mem, dirty, dirty2, wb, ad, n, a, st, d),
         Finished(mready,
                  [c EXCEPT !.writebackFlag = wb, !.addWriteback = ad,
                            !.nTransfer = n, !.cacheAdd = a, !.state = st],
                  [D!Quiet EXCEPT !.push = d], c2, o2)
  PROVE  PushCycle(core, c, mready, wready, tagMem, mem, dirty, c2, dirty2, o2)
<1> DEFINE c1 == [c EXCEPT !.writebackFlag = wb, !.addWriteback = ad,
                           !.nTransfer = n, !.cacheAdd = a, !.state = st]
           o1 == [D!Quiet EXCEPT !.push = d]
<1>1. /\ c1 \in CtlType(L) /\ c1.state = st /\ c1.nTransfer = n /\ c1.ptr = c.ptr
      /\ c1.reqFlag = c.reqFlag /\ c1.rwFlag = c.rwFlag /\ c1.cacheAdd = a
      /\ c1.writebackFlag = wb /\ c1.addWriteback = ad
  BY Zenon DEF CtlType
<1>2. /\ o1 \in OutType /\ o1.read = D!Quiet.read /\ o1.write = D!Quiet.write
      /\ o1.push = d /\ o1.ack = D!Quiet.ack /\ o1.wr = D!Quiet.wr /\ o1.cam = D!Quiet.cam
  BY QuietFacts, Zenon DEF OutType
<1>3. Finished(mready, c1, o1, c2, o2)
  OBVIOUS
<1> HIDE DEF c1, o1
<1>4. /\ c2.state = c1.state /\ c2.nTransfer = c1.nTransfer /\ c2.ptr = c1.ptr
      /\ c2.reqFlag = c1.reqFlag /\ c2.rwFlag = c1.rwFlag /\ c2.cacheAdd = c1.cacheAdd
      /\ o2.read = o1.read /\ o2.push = o1.push /\ o2.ack = o1.ack
      /\ o2.wr = o1.wr /\ o2.cam = o1.cam
      /\ Requested(c1.writebackFlag, c1.addWriteback, mready, c2, o2)
  <2>1. c1 \in CtlType(L) /\ o1 \in OutType /\ o1.write = NoBlock
    BY <1>1, <1>2, QuietFacts, Zenon
  <2> QED BY <1>3, <2>1, FinishedCycle, Zenon
<1>5. /\ c2.state = st /\ c2.nTransfer = n /\ c2.ptr = c.ptr /\ SameReference(c, c2)
      /\ c2.cacheAdd = a /\ o2.push = d
      /\ o2.read = NoBlock /\ o2.wr = NoWord /\ ~o2.ack /\ ~o2.cam
      /\ Requested(wb, ad, mready, c2, o2)
  BY <1>1, <1>2, <1>4, QuietFacts, Zenon DEF SameReference
<1>6. Requested(c.nTransfer = 0 \/ c.writebackFlag,
                IF c.nTransfer = 0 THEN <<tagMem[c.ptr], core.block[2]>> ELSE c.addWriteback,
                mready, c2, o2)
  BY <1>5, Zenon DEF WordPushed
<1>7. CASE c.nTransfer = W - 1
  BY <1>5, <1>6, <1>7 DEF PushCycle, Counted, WordPushed
<1>8. CASE c.nTransfer # W - 1
  BY <1>5, <1>6, <1>8 DEF PushCycle, Counted, WordPushed
<1> QED BY <1>7, <1>8

WordFilled(c, rready, dirty, dirty2, n, a, st, cam) ==
  /\ c.state = "readBuffer" /\ rready /\ Counted(c, "normal", n, st) /\ dirty2 = dirty
  /\ a = <<c.ptr, c.nTransfer>> /\ cam = (c.nTransfer = W - 1)

\* A word from the buffer goes to the line.
LEMMA IsFillCycle ==
  ASSUME NEW L, NEW c \in CtlType(L), NEW dirty, NEW dirty2,
         NEW n \in D!Word, NEW a \in L \X D!Word, NEW st \in CtlState,
         NEW d \in Data \cup {NoWord}, NEW cam \in BOOLEAN,
         NEW mready, NEW rready, NEW c2, NEW o2,
         WordFilled(c, rready, dirty, dirty2, n, a, st, cam),
         Finished(mready,
                  [c EXCEPT !.nTransfer = n, !.cacheAdd = a, !.state = st],
                  [D!Quiet EXCEPT !.ack = TRUE, !.wr = d, !.cam = cam], c2, o2)
  PROVE  FillCycle(c, mready, rready, d, dirty, c2, dirty2, o2)
<1> DEFINE c1 == [c EXCEPT !.nTransfer = n, !.cacheAdd = a, !.state = st]
           o1 == [D!Quiet EXCEPT !.ack = TRUE, !.wr = d, !.cam = cam]
<1>0. TRUE \in BOOLEAN
  OBVIOUS
<1>1. /\ c1 \in CtlType(L) /\ c1.state = st /\ c1.nTransfer = n /\ c1.ptr = c.ptr
      /\ c1.reqFlag = c.reqFlag /\ c1.rwFlag = c.rwFlag /\ c1.cacheAdd = a
      /\ c1.writebackFlag = c.writebackFlag /\ c1.addWriteback = c.addWriteback
  BY Zenon DEF CtlType
<1>2. /\ o1 \in OutType /\ o1.read = D!Quiet.read /\ o1.write = D!Quiet.write
      /\ o1.push = D!Quiet.push /\ o1.ack = TRUE /\ o1.wr = d /\ o1.cam = cam
  BY <1>0, QuietFacts, Zenon DEF OutType
<1>3. Finished(mready, c1, o1, c2, o2)
  OBVIOUS
<1> HIDE DEF c1, o1
<1>4. /\ c2.state = c1.state /\ c2.nTransfer = c1.nTransfer /\ c2.ptr = c1.ptr
      /\ c2.reqFlag = c1.reqFlag /\ c2.rwFlag = c1.rwFlag /\ c2.cacheAdd = c1.cacheAdd
      /\ o2.read = o1.read /\ o2.push = o1.push /\ o2.ack = o1.ack
      /\ o2.wr = o1.wr /\ o2.cam = o1.cam
      /\ Requested(c1.writebackFlag, c1.addWriteback, mready, c2, o2)
  <2>1. c1 \in CtlType(L) /\ o1 \in OutType /\ o1.write = NoBlock
    BY <1>1, <1>2, QuietFacts, Zenon
  <2> QED BY <1>3, <2>1, FinishedCycle, Zenon
<1>5. /\ c2.state = st /\ c2.nTransfer = n /\ c2.ptr = c.ptr /\ SameReference(c, c2)
      /\ c2.cacheAdd = a /\ o2.wr = d /\ o2.cam = cam
      /\ o2.read = NoBlock /\ o2.push = NoWord /\ o2.ack
      /\ Requested(c.writebackFlag, c.addWriteback, mready, c2, o2)
  BY <1>1, <1>2, <1>4, QuietFacts, Zenon DEF SameReference
<1>6. CASE c.nTransfer = W - 1
  BY <1>5, <1>6 DEF FillCycle, Counted, WordFilled
<1>7. CASE c.nTransfer # W - 1
  BY <1>5, <1>7 DEF FillCycle, Counted, WordFilled
<1> QED BY <1>6, <1>7

-----------------------------------------------------------------------------
(* The edges of the two controllers are such cycles.                         *)

\* An edge of the data cache's controller is a cycle, and leaves the memories.
LEMMA DataCycle ==
  ASSUME DCacheOK, NEW mready, NEW wready, NEW rready, NEW d, rready => d \in Data,
         NEW v \in D!Victim \ {NoLine}, D!ControllerEdge(mready, wready, rready, d, v)
  PROVE  /\ Cycle(DLine, DSetOf, dCore, dCtl, dTag, dMem, mready, wready, rready, d,
                  dDirty, dCtl', dDirty', dOut')
         /\ UNCHANGED <<dCore, dTag, dMem>>
<1> DEFINE Goal == Cycle(DLine, DSetOf, dCore, dCtl, dTag, dMem, mready, wready, rready, d,
                         dDirty, dCtl', dDirty', dOut')
<1>1. /\ dCore \in CoreType /\ dCtl \in CtlType(DLine)
      /\ dTag \in [DLine -> Tag \cup {NoTag}] /\ dMem \in [DLine -> [D!Word -> Data]]
      /\ \A l \in dDirty : dTag[l] \in Tag
      /\ dCtl.state = "writeBuffer" => dCtl.ptr \in dDirty
  BY Zenon DEF DCacheOK, CacheOK
<1>2. UNCHANGED <<dCore, dTag, dMem>>
  BY DEF D!ControllerEdge, D!memories
<1>3. /\ dCore.block \in Tag \X Set /\ dCtl.ptr \in DLine /\ dCtl.nTransfer \in D!Word
      /\ dCtl.cacheAdd \in DLine \X D!Word /\ dCtl.state \in CtlState
  BY <1>1, Zenon DEF CoreType, CtlType, Block, D!Block
<1>4. 0 \in D!Word /\ W \in Nat /\ D!Quiet = D!Quiet
  BY Constants, QuietFacts
<1>5. ASSUME D!Hit(mready) PROVE Goal
  <2> DEFINE l == D!CamAddr
             a == <<l, dCore.word>>
             dd == IF StoreOf(dCore, dCtl) THEN dCore.data ELSE NoWord
  <2>1. D!CamAddr \in DLine /\ Holding(DSetOf, dTag, D!CamAddr, dCore.block)
    <3>1. D!CamAddr \in D!Match(dCore.block)
      BY <1>5 DEF D!Hit, D!Hits, D!CamAddr
    <3> QED BY <3>1 DEF D!Match, Holding
  <2>2. /\ HitServed(dCore, dCtl, l, dDirty, dDirty', a, dd)
        /\ Finished(mready, [dCtl EXCEPT !.reqFlag = FALSE, !.done = TRUE, !.cacheAdd = a],
                    [D!Quiet EXCEPT !.wr = dd], dCtl', dOut')
    BY <1>4, <1>5, Zenon DEF D!Hit, D!Active, D!Finish, D!MarkDirty, Finished, Active,
                             HitServed, StoreOf
  <2>3. a \in DLine \X D!Word /\ dd \in Data \cup {NoWord}
    BY <1>1, <2>1 DEF CoreType
  <2> HIDE DEF l, a, dd
  <2>4. l \in DLine /\ Holding(DSetOf, dTag, l, dCore.block)
    BY <2>1, Zenon DEF l
  <2>5. HitCycle(dCore, dCtl, mready, l, dDirty, dCtl', dDirty', dOut')
    BY <1>1, <2>2, <2>3, <2>4, IsHitCycle, Zenon
  <2> QED BY <2>4, <2>5, Zenon DEF Cycle
<1>6. ASSUME D!Miss(mready) PROVE Goal
  <2>1. /\ dCtl.state = "normal" /\ Active(dCore, dCtl) /\ dDirty' = dDirty
        /\ Finished(mready, [dCtl EXCEPT !.reqFlag = TRUE, !.rwFlag = dCore.rw,
                                         !.done = FALSE, !.state = "waitReady"],
                    D!Quiet, dCtl', dOut')
    BY <1>4, <1>6, Zenon DEF D!Miss, D!Active, D!Finish, Finished, Active
  <2>2. \A l \in DLine : ~Holding(DSetOf, dTag, l, dCore.block)
    BY <1>6 DEF D!Miss, D!Hits, D!Match, Holding
  <2>3. MissCycle(dCore, dCtl, mready, dDirty, dCtl', dDirty', dOut')
    BY <1>1, <2>1, IsMissCycle
  <2> QED BY <2>2, <2>3 DEF Cycle
<1>7. ASSUME D!RequestBlock(mready) PROVE Goal
  <2>1. /\ dCtl.state = "waitReady" /\ mready /\ ~dCtl.writebackFlag /\ dDirty' = dDirty
        /\ dCtl' = [dCtl EXCEPT !.state = "waitReplacement"]
        /\ dOut' = [D!Quiet EXCEPT !.read = dCore.block]
    BY <1>4, <1>7, Zenon DEF D!RequestBlock, D!WritebackDone
  <2>2. RequestCycle(dCore, dCtl, mready, dDirty, dCtl', dDirty', dOut')
    BY <1>1, <2>1, IsRequestCycle
  <2> QED BY <2>2 DEF Cycle
<1>8. ASSUME D!TakeReplacement(mready, v) PROVE Goal
  <2>1. v \in DLine /\ DSetOf[v] = dCore.block[2]
    BY DEF D!Victim
  <2>2. /\ dCtl.state = "waitReplacement" /\ dDirty' = dDirty
        /\ Finished(mready,
             IF v \in dDirty
             THEN [dCtl EXCEPT !.ptr = v, !.cacheAdd = <<v, 0>>, !.state = "writeBuffer"]
             ELSE [dCtl EXCEPT !.ptr = v, !.state = "readBuffer"], D!Quiet, dCtl', dOut')
    BY <1>4, <1>8, Zenon DEF D!TakeReplacement, D!Replace, D!Finish, Finished
  <2>3. ReplaceCycle(dCtl, mready, v, dDirty, dCtl', dDirty', dOut')
    BY <1>1, <2>1, <2>2, IsReplaceCycle
  <2> QED BY <2>1, <2>3 DEF Cycle
<1>9. ASSUME D!PushWord(mready, wready) PROVE Goal
  <2> DEFINE wb == D!Pending
             ad == IF D!FirstWord THEN <<dTag[dCtl.ptr], dCore.block[2]>>
                   ELSE dCtl.addWriteback
             a == IF D!LastWord THEN dCtl.cacheAdd ELSE <<dCtl.ptr, D!NextTransfer>>
             st == IF D!LastWord THEN "readBuffer" ELSE dCtl.state
             n == D!NextTransfer
             dd == D!CacheOut
  <2>1. /\ dCtl.state = "writeBuffer" /\ wready
        /\ Finished(mready,
             [dCtl EXCEPT !.writebackFlag = wb, !.addWriteback = ad,
                          !.nTransfer = n, !.cacheAdd = a, !.state = st],
             [D!Quiet EXCEPT !.push = dd], dCtl', dOut')
        /\ dDirty' = IF D!LastWord THEN dDirty \ {dCtl.ptr} ELSE dDirty
    BY <1>4, <1>9, Zenon DEF D!PushWord, D!Finish, Finished
  <2>2. wb \in BOOLEAN /\ wb = (dCtl.nTransfer = 0 \/ dCtl.writebackFlag)
    BY <1>1, Zenon DEF D!Pending, D!FirstWord, CtlType
  <2>3. ad \in Block
        /\ ad = (IF dCtl.nTransfer = 0 THEN <<dTag[dCtl.ptr], dCore.block[2]>>
                 ELSE dCtl.addWriteback)
    <3>1. dTag[dCtl.ptr] \in Tag /\ dCore.block[2] \in Set
      BY <1>1, <1>3, <2>1
    <3>2. dCtl.addWriteback \in Block
      BY <1>1, Zenon DEF CtlType
    <3> QED BY <3>1, <3>2 DEF Block, D!Block, D!FirstWord
  <2>4. n \in D!Word
    BY <1>3, <1>4, Constants DEF D!NextTransfer, D!LastWord
  <2>5. a \in DLine \X D!Word /\ st \in CtlState
    BY <1>3, <2>4 DEF CtlState
  <2>6. /\ Counted(dCtl, "readBuffer", n, st)
        /\ a = (IF dCtl.nTransfer = W - 1 THEN dCtl.cacheAdd
                ELSE <<dCtl.ptr, dCtl.nTransfer + 1>>)
    BY DEF Counted, D!NextTransfer, D!LastWord
  <2>7. dd \in Data /\ dd = dMem[dCtl.cacheAdd[1]][dCtl.cacheAdd[2]]
    <3>1. dCtl.cacheAdd[1] \in DLine /\ dCtl.cacheAdd[2] \in D!Word
      BY <1>3
    <3>2. dMem[dCtl.cacheAdd[1]] \in [D!Word -> Data]
      BY <1>1, <3>1
    <3> QED BY <3>1, <3>2 DEF D!CacheOut
  <2>8. dDirty' = (IF dCtl.nTransfer = W - 1 THEN dDirty \ {dCtl.ptr} ELSE dDirty)
    BY <2>1 DEF D!LastWord
  <2> HIDE DEF wb, ad, a, st, n, dd
  <2>9. WordPushed(dCore, dCtl, wready, dTag, dMem, dDirty, dDirty', wb, ad, n, a, st, dd)
    BY <2>1, <2>2, <2>3, <2>6, <2>7, <2>8, Zenon DEF WordPushed
  <2>10. PushCycle(dCore, dCtl, mready, wready, dTag, dMem, dDirty, dCtl', dDirty', dOut')
    <3>1. Finished(mready,
             [dCtl EXCEPT !.writebackFlag = wb, !.addWriteback = ad,
                          !.nTransfer = n, !.cacheAdd = a, !.state = st],
             [D!Quiet EXCEPT !.push = dd], dCtl', dOut')
      BY <2>1
    <3>2. /\ wb \in BOOLEAN /\ ad \in Block /\ n \in D!Word
          /\ a \in DLine \X D!Word /\ st \in CtlState /\ dd \in Data
          /\ dCtl \in CtlType(DLine)
      BY <1>1, <2>2, <2>3, <2>4, <2>5, <2>7
    <3> QED BY <3>1, <3>2, <2>9, IsPushCycle, Zenon
  <2> QED BY <2>10, Zenon DEF Cycle
<1>10. ASSUME D!FillWord(mready, rready, d) PROVE Goal
  <2> DEFINE st == IF D!LastWord THEN "normal" ELSE dCtl.state
             n == D!NextTransfer
             a == <<dCtl.ptr, dCtl.nTransfer>>
             cam == D!LastWord
  <2>1. /\ dCtl.state = "readBuffer" /\ rready /\ dDirty' = dDirty
        /\ Finished(mready,
             [dCtl EXCEPT !.nTransfer = n, !.cacheAdd = a, !.state = st],
             [D!Quiet EXCEPT !.ack = TRUE, !.wr = d, !.cam = cam], dCtl', dOut')
    BY <1>4, <1>10, Zenon DEF D!FillWord, D!Finish, Finished
  <2>2. n \in D!Word
    BY <1>3, <1>4, Constants DEF D!NextTransfer, D!LastWord
  <2>3. /\ a \in DLine \X D!Word /\ st \in CtlState
        /\ cam \in BOOLEAN /\ d \in Data \cup {NoWord} /\ cam = (dCtl.nTransfer = W - 1)
    BY <1>3, <2>1 DEF CtlState, D!LastWord
  <2>4. Counted(dCtl, "normal", n, st) /\ a = <<dCtl.ptr, dCtl.nTransfer>>
    BY DEF Counted, D!NextTransfer, D!LastWord
  <2> HIDE DEF st, n, a, cam
  <2>5. WordFilled(dCtl, rready, dDirty, dDirty', n, a, st, cam)
    BY <2>1, <2>3, <2>4, Zenon DEF WordFilled
  <2>6. FillCycle(dCtl, mready, rready, d, dDirty, dCtl', dDirty', dOut')
    BY <1>1, <2>1, <2>2, <2>3, <2>5, IsFillCycle, ZenonT(30)
  <2> QED BY <2>6, Zenon DEF Cycle
<1>11. ASSUME D!Wait(mready, wready, rready, v) PROVE Goal
  <2>1. Finished(mready, dCtl, D!Quiet, dCtl', dOut') /\ dDirty' = dDirty
    BY <1>4, <1>11, Zenon DEF D!Wait, D!Finish, Finished
  <2>2. dCtl.state = "normal" => ~Active(dCore, dCtl)
    BY <1>11 DEF D!Wait, D!Waits, Active, D!Active
  <2>3. WaitCycle(dCore, dCtl, mready, dDirty, dCtl', dDirty', dOut')
    BY <1>1, <2>1, <2>2, IsWaitCycle
  <2> QED BY <2>3 DEF Cycle
<1>12. Goal
  BY <1>5, <1>6, <1>7, <1>8, <1>9, <1>10, <1>11, Zenon DEF D!ControllerEdge
<1> QED BY <1>2, <1>12

\* An edge of the instruction cache's controller is one, too.
LEMMA InstCycle ==
  ASSUME ICacheOK, NEW mready, NEW wready, NEW rready, NEW d, rready => d \in Data,
         NEW v \in I!Victim \ {NoLine}, I!ControllerEdge(mready, wready, rready, d, v)
  PROVE  /\ Cycle(ILine, ISetOf, iCore, iCtl, iTag, iMem, mready, wready, rready, d,
                  iDirty, iCtl', iDirty', iOut')
         /\ UNCHANGED <<iCore, iTag, iMem>>
<1> DEFINE Goal == Cycle(ILine, ISetOf, iCore, iCtl, iTag, iMem, mready, wready, rready, d,
                         iDirty, iCtl', iDirty', iOut')
<1>1. /\ iCore \in CoreType /\ iCtl \in CtlType(ILine)
      /\ iTag \in [ILine -> Tag \cup {NoTag}] /\ iMem \in [ILine -> [D!Word -> Data]]
      /\ \A l \in iDirty : iTag[l] \in Tag
      /\ iCtl.state = "writeBuffer" => iCtl.ptr \in iDirty
  BY Zenon DEF ICacheOK, CacheOK
<1>2. UNCHANGED <<iCore, iTag, iMem>>
  BY DEF I!ControllerEdge, I!memories
<1>3. /\ iCore.block \in Tag \X Set /\ iCtl.ptr \in ILine /\ iCtl.nTransfer \in D!Word
      /\ iCtl.cacheAdd \in ILine \X D!Word /\ iCtl.state \in CtlState
  BY <1>1, Zenon DEF CoreType, CtlType, Block, D!Block
<1>4. 0 \in D!Word /\ W \in Nat /\ I!Quiet = D!Quiet
  BY Constants, QuietFacts
<1>5. ASSUME I!Hit(mready) PROVE Goal
  <2> DEFINE l == I!CamAddr
             a == <<l, iCore.word>>
             dd == IF StoreOf(iCore, iCtl) THEN iCore.data ELSE NoWord
  <2>1. I!CamAddr \in ILine /\ Holding(ISetOf, iTag, I!CamAddr, iCore.block)
    <3>1. I!CamAddr \in I!Match(iCore.block)
      BY <1>5 DEF I!Hit, I!Hits, I!CamAddr
    <3> QED BY <3>1 DEF I!Match, Holding
  <2>2. /\ HitServed(iCore, iCtl, l, iDirty, iDirty', a, dd)
        /\ Finished(mready, [iCtl EXCEPT !.reqFlag = FALSE, !.done = TRUE, !.cacheAdd = a],
                    [D!Quiet EXCEPT !.wr = dd], iCtl', iOut')
    BY <1>4, <1>5, Zenon DEF I!Hit, I!Active, I!Finish, I!MarkDirty, Finished, Active,
                             HitServed, StoreOf
  <2>3. a \in ILine \X D!Word /\ dd \in Data \cup {NoWord}
    BY <1>1, <2>1 DEF CoreType
  <2> HIDE DEF l, a, dd
  <2>4. l \in ILine /\ Holding(ISetOf, iTag, l, iCore.block)
    BY <2>1, Zenon DEF l
  <2>5. HitCycle(iCore, iCtl, mready, l, iDirty, iCtl', iDirty', iOut')
    BY <1>1, <2>2, <2>3, <2>4, IsHitCycle, Zenon
  <2> QED BY <2>4, <2>5, Zenon DEF Cycle
<1>6. ASSUME I!Miss(mready) PROVE Goal
  <2>1. /\ iCtl.state = "normal" /\ Active(iCore, iCtl) /\ iDirty' = iDirty
        /\ Finished(mready, [iCtl EXCEPT !.reqFlag = TRUE, !.rwFlag = iCore.rw,
                                         !.done = FALSE, !.state = "waitReady"],
                    D!Quiet, iCtl', iOut')
    BY <1>4, <1>6, Zenon DEF I!Miss, I!Active, I!Finish, Finished, Active
  <2>2. \A l \in ILine : ~Holding(ISetOf, iTag, l, iCore.block)
    BY <1>6 DEF I!Miss, I!Hits, I!Match, Holding
  <2>3. MissCycle(iCore, iCtl, mready, iDirty, iCtl', iDirty', iOut')
    BY <1>1, <2>1, IsMissCycle
  <2> QED BY <2>2, <2>3 DEF Cycle
<1>7. ASSUME I!RequestBlock(mready) PROVE Goal
  <2>1. /\ iCtl.state = "waitReady" /\ mready /\ ~iCtl.writebackFlag /\ iDirty' = iDirty
        /\ iCtl' = [iCtl EXCEPT !.state = "waitReplacement"]
        /\ iOut' = [D!Quiet EXCEPT !.read = iCore.block]
    BY <1>4, <1>7, Zenon DEF I!RequestBlock, I!WritebackDone
  <2>2. RequestCycle(iCore, iCtl, mready, iDirty, iCtl', iDirty', iOut')
    BY <1>1, <2>1, IsRequestCycle
  <2> QED BY <2>2 DEF Cycle
<1>8. ASSUME I!TakeReplacement(mready, v) PROVE Goal
  <2>1. v \in ILine /\ ISetOf[v] = iCore.block[2]
    BY DEF I!Victim
  <2>2. /\ iCtl.state = "waitReplacement" /\ iDirty' = iDirty
        /\ Finished(mready,
             IF v \in iDirty
             THEN [iCtl EXCEPT !.ptr = v, !.cacheAdd = <<v, 0>>, !.state = "writeBuffer"]
             ELSE [iCtl EXCEPT !.ptr = v, !.state = "readBuffer"], D!Quiet, iCtl', iOut')
    BY <1>4, <1>8, Zenon DEF I!TakeReplacement, I!Replace, I!Finish, Finished
  <2>3. ReplaceCycle(iCtl, mready, v, iDirty, iCtl', iDirty', iOut')
    BY <1>1, <2>1, <2>2, IsReplaceCycle
  <2> QED BY <2>1, <2>3 DEF Cycle
<1>9. ASSUME I!PushWord(mready, wready) PROVE Goal
  <2> DEFINE wb == I!Pending
             ad == IF I!FirstWord THEN <<iTag[iCtl.ptr], iCore.block[2]>>
                   ELSE iCtl.addWriteback
             a == IF I!LastWord THEN iCtl.cacheAdd ELSE <<iCtl.ptr, I!NextTransfer>>
             st == IF I!LastWord THEN "readBuffer" ELSE iCtl.state
             n == I!NextTransfer
             dd == I!CacheOut
  <2>1. /\ iCtl.state = "writeBuffer" /\ wready
        /\ Finished(mready,
             [iCtl EXCEPT !.writebackFlag = wb, !.addWriteback = ad,
                          !.nTransfer = n, !.cacheAdd = a, !.state = st],
             [D!Quiet EXCEPT !.push = dd], iCtl', iOut')
        /\ iDirty' = IF I!LastWord THEN iDirty \ {iCtl.ptr} ELSE iDirty
    BY <1>4, <1>9, Zenon DEF I!PushWord, I!Finish, Finished
  <2>2. wb \in BOOLEAN /\ wb = (iCtl.nTransfer = 0 \/ iCtl.writebackFlag)
    BY <1>1, Zenon DEF I!Pending, I!FirstWord, CtlType
  <2>3. ad \in Block
        /\ ad = (IF iCtl.nTransfer = 0 THEN <<iTag[iCtl.ptr], iCore.block[2]>>
                 ELSE iCtl.addWriteback)
    <3>1. iTag[iCtl.ptr] \in Tag /\ iCore.block[2] \in Set
      BY <1>1, <1>3, <2>1
    <3>2. iCtl.addWriteback \in Block
      BY <1>1, Zenon DEF CtlType
    <3> QED BY <3>1, <3>2 DEF Block, D!Block, I!FirstWord
  <2>4. n \in D!Word
    BY <1>3, <1>4, Constants DEF I!NextTransfer, I!LastWord
  <2>5. a \in ILine \X D!Word /\ st \in CtlState
    BY <1>3, <2>4 DEF CtlState
  <2>6. /\ Counted(iCtl, "readBuffer", n, st)
        /\ a = (IF iCtl.nTransfer = W - 1 THEN iCtl.cacheAdd
                ELSE <<iCtl.ptr, iCtl.nTransfer + 1>>)
    BY DEF Counted, I!NextTransfer, I!LastWord
  <2>7. dd \in Data /\ dd = iMem[iCtl.cacheAdd[1]][iCtl.cacheAdd[2]]
    <3>1. iCtl.cacheAdd[1] \in ILine /\ iCtl.cacheAdd[2] \in D!Word
      BY <1>3
    <3>2. iMem[iCtl.cacheAdd[1]] \in [D!Word -> Data]
      BY <1>1, <3>1
    <3> QED BY <3>1, <3>2 DEF I!CacheOut
  <2>8. iDirty' = (IF iCtl.nTransfer = W - 1 THEN iDirty \ {iCtl.ptr} ELSE iDirty)
    BY <2>1 DEF I!LastWord
  <2> HIDE DEF wb, ad, a, st, n, dd
  <2>9. WordPushed(iCore, iCtl, wready, iTag, iMem, iDirty, iDirty', wb, ad, n, a, st, dd)
    BY <2>1, <2>2, <2>3, <2>6, <2>7, <2>8, Zenon DEF WordPushed
  <2>10. PushCycle(iCore, iCtl, mready, wready, iTag, iMem, iDirty, iCtl', iDirty', iOut')
    <3>1. Finished(mready,
             [iCtl EXCEPT !.writebackFlag = wb, !.addWriteback = ad,
                          !.nTransfer = n, !.cacheAdd = a, !.state = st],
             [D!Quiet EXCEPT !.push = dd], iCtl', iOut')
      BY <2>1
    <3>2. /\ wb \in BOOLEAN /\ ad \in Block /\ n \in D!Word
          /\ a \in ILine \X D!Word /\ st \in CtlState /\ dd \in Data
          /\ iCtl \in CtlType(ILine)
      BY <1>1, <2>2, <2>3, <2>4, <2>5, <2>7
    <3> QED BY <3>1, <3>2, <2>9, IsPushCycle, Zenon
  <2> QED BY <2>10, Zenon DEF Cycle
<1>10. ASSUME I!FillWord(mready, rready, d) PROVE Goal
  <2> DEFINE st == IF I!LastWord THEN "normal" ELSE iCtl.state
             n == I!NextTransfer
             a == <<iCtl.ptr, iCtl.nTransfer>>
             cam == I!LastWord
  <2>1. /\ iCtl.state = "readBuffer" /\ rready /\ iDirty' = iDirty
        /\ Finished(mready,
             [iCtl EXCEPT !.nTransfer = n, !.cacheAdd = a, !.state = st],
             [D!Quiet EXCEPT !.ack = TRUE, !.wr = d, !.cam = cam], iCtl', iOut')
    BY <1>4, <1>10, Zenon DEF I!FillWord, I!Finish, Finished
  <2>2. n \in D!Word
    BY <1>3, <1>4, Constants DEF I!NextTransfer, I!LastWord
  <2>3. /\ a \in ILine \X D!Word /\ st \in CtlState
        /\ cam \in BOOLEAN /\ d \in Data \cup {NoWord} /\ cam = (iCtl.nTransfer = W - 1)
    BY <1>3, <2>1 DEF CtlState, I!LastWord
  <2>4. Counted(iCtl, "normal", n, st) /\ a = <<iCtl.ptr, iCtl.nTransfer>>
    BY DEF Counted, I!NextTransfer, I!LastWord
  <2> HIDE DEF st, n, a, cam
  <2>5. WordFilled(iCtl, rready, iDirty, iDirty', n, a, st, cam)
    BY <2>1, <2>3, <2>4, Zenon DEF WordFilled
  <2>6. FillCycle(iCtl, mready, rready, d, iDirty, iCtl', iDirty', iOut')
    BY <1>1, <2>1, <2>2, <2>3, <2>5, IsFillCycle, ZenonT(30)
  <2> QED BY <2>6, Zenon DEF Cycle
<1>11. ASSUME I!Wait(mready, wready, rready, v) PROVE Goal
  <2>1. Finished(mready, iCtl, D!Quiet, iCtl', iOut') /\ iDirty' = iDirty
    BY <1>4, <1>11, Zenon DEF I!Wait, I!Finish, Finished
  <2>2. iCtl.state = "normal" => ~Active(iCore, iCtl)
    BY <1>11 DEF I!Wait, I!Waits, Active, I!Active
  <2>3. WaitCycle(iCore, iCtl, mready, iDirty, iCtl', iDirty', iOut')
    BY <1>1, <2>1, <2>2, IsWaitCycle
  <2> QED BY <2>3 DEF Cycle
<1>12. Goal
  BY <1>5, <1>6, <1>7, <1>8, <1>9, <1>10, <1>11, Zenon DEF I!ControllerEdge
<1> QED BY <1>2, <1>12

-----------------------------------------------------------------------------
(* What the edges of the hart, of the caches and of their memories change.   *)

\* The hart withdraws its request or, when both caches are done, makes one.
CoreMove(Refs, core, core2) ==
  \/ /\ ~core2.req /\ ~core2.rw /\ core2.block = core.block
     /\ core2.word = core.word /\ core2.data = core.data
  \/ /\ iCtl.done /\ dCtl.done
     /\ \E a \in Refs : core2 = [req |-> TRUE, rw |-> a.rw, block |-> a.block,
                                 word |-> a.word, data |-> a.data]

\* 0 degrees: the hart moves its request registers and leaves the caches alone.
LEMMA HartMoves ==
  ASSUME SysInv, Edge0
  PROVE  /\ clk = 0 /\ clk' = 90 /\ P!IoEdge
         /\ CoreMove(Fetch, iCore, iCore') /\ CoreMove(LoadStore, dCore, dCore')
         /\ UNCHANGED <<iCtl, iDirty, iOut, iTag, iMem>>
         /\ UNCHANGED <<dCtl, dDirty, dOut, dTag, dMem>>
         /\ UNCHANGED <<tx, bus, rx>>
<1>1. iCore \in CoreType /\ dCore \in CoreType /\ FALSE \in BOOLEAN
  BY Zenon DEF SysInv, CachesOK, ICacheOK, DCacheOK, CacheOK
<1>2. CoreMove(LoadStore, dCore, dCore') /\ UNCHANGED <<dCtl, dDirty, dOut, dTag, dMem>>
  <2>1. CASE D!HartIdle
    <3>1. dCore' = [dCore EXCEPT !.req = FALSE, !.rw = FALSE]
      BY <2>1, Zenon DEF D!HartIdle, D!Withdraw
    <3>2. /\ ~dCore'.req /\ ~dCore'.rw /\ dCore'.block = dCore.block
          /\ dCore'.word = dCore.word /\ dCore'.data = dCore.data
      BY <1>1, <3>1, Zenon DEF CoreType
    <3> QED BY <2>1, <3>2 DEF CoreMove, D!HartIdle, D!memories
  <2>2. CASE Done(dCtl) /\ D!HartIssue
    BY <2>2, Zenon DEF CoreMove, Done, D!HartIssue, D!Issue, D!memories
  <2> QED BY <2>1, <2>2 DEF Edge0, Hart
<1>3. CoreMove(Fetch, iCore, iCore') /\ UNCHANGED <<iCtl, iDirty, iOut, iTag, iMem>>
  <2>1. CASE I!HartIdle
    <3>1. iCore' = [iCore EXCEPT !.req = FALSE, !.rw = FALSE]
      BY <2>1, Zenon DEF I!HartIdle, I!Withdraw
    <3>2. /\ ~iCore'.req /\ ~iCore'.rw /\ iCore'.block = iCore.block
          /\ iCore'.word = iCore.word /\ iCore'.data = iCore.data
      BY <1>1, <3>1, Zenon DEF CoreType
    <3> QED BY <2>1, <3>2 DEF CoreMove, I!HartIdle, I!memories
  <2>2. CASE Done(iCtl) /\ I!HartIssue
    BY <2>2, Zenon DEF CoreMove, Done, I!HartIssue, I!Issue, I!memories
  <2> QED BY <2>1, <2>2 DEF Edge0, Hart
<1> QED BY <1>2, <1>3 DEF Edge0, P!IoEdge

\* While a reference is in service, in either cache, the hart asks for nothing.
LEMMA HartWaits ==
  ASSUME NEW Refs, NEW core, NEW core2, CoreMove(Refs, core, core2),
         CachesOK, iCtl.state # "normal" \/ dCtl.state # "normal" \/ iCtl.reqFlag \/ dCtl.reqFlag
  PROVE  core2.block = core.block /\ core2.word = core.word /\ core2.data = core.data /\ ~core2.rw
BY CacheAtRest DEF CoreMove, CachesOK, ICacheOK, DCacheOK, CacheOK

\* 180 degrees: both caches make a cycle.
LEMMA CacheCycles ==
  ASSUME SysInv, Edge180
  PROVE  /\ clk = 180 /\ clk' = 270 /\ UNCHANGED <<mem_access, pathVars>>
         /\ UNCHANGED <<iCore, iTag, iMem, dCore, dTag, dMem>>
         /\ \A c \in {0, 1} : Ready(c, rx # <<>>) => FromBuffer \in Data
         /\ Cycle(ILine, ISetOf, iCore, iCtl, iTag, iMem, Ready(0, io.ready),
                  Ready(0, Len(tx.fifo) < W), Ready(0, rx # <<>>), FromBuffer,
                  iDirty, iCtl', iDirty', iOut')
         /\ Cycle(DLine, DSetOf, dCore, dCtl, dTag, dMem, Ready(1, io.ready),
                  Ready(1, Len(tx.fifo) < W), Ready(1, rx # <<>>), FromBuffer,
                  dDirty, dCtl', dDirty', dOut')
<1>1. ICacheOK /\ DCacheOK
  BY DEF SysInv, CachesOK
<1>2. rx # <<>> => FromBuffer \in Data
  BY HeadTailProperties DEF SysInv, PathTypeOK, FromBuffer
<1>3. /\ Ready(0, rx # <<>>) => FromBuffer \in Data
      /\ Ready(1, rx # <<>>) => FromBuffer \in Data
  BY <1>2 DEF Ready
<1>4. PICK v \in I!Victim \ {NoLine} :
        I!ControllerEdge(Ready(0, io.ready), Ready(0, Len(tx.fifo) < W),
                         Ready(0, rx # <<>>), FromBuffer, v)
  BY Zenon DEF Edge180
<1>5. PICK u \in D!Victim \ {NoLine} :
        D!ControllerEdge(Ready(1, io.ready), Ready(1, Len(tx.fifo) < W),
                         Ready(1, rx # <<>>), FromBuffer, u)
  BY Zenon DEF Edge180
<1>6. /\ Cycle(ILine, ISetOf, iCore, iCtl, iTag, iMem, Ready(0, io.ready),
               Ready(0, Len(tx.fifo) < W), Ready(0, rx # <<>>), FromBuffer,
               iDirty, iCtl', iDirty', iOut')
      /\ UNCHANGED <<iCore, iTag, iMem>>
  BY <1>1, <1>3, <1>4, InstCycle, Zenon
<1>7. /\ Cycle(DLine, DSetOf, dCore, dCtl, dTag, dMem, Ready(1, io.ready),
               Ready(1, Len(tx.fifo) < W), Ready(1, rx # <<>>), FromBuffer,
               dDirty, dCtl', dDirty', dOut')
      /\ UNCHANGED <<dCore, dTag, dMem>>
  BY <1>1, <1>3, <1>5, DataCycle, Zenon
<1>8. clk = 180 /\ clk' = 270 /\ UNCHANGED <<mem_access, pathVars>>
  BY DEF Edge180
<1>9. \A c \in {0, 1} : Ready(c, rx # <<>>) => FromBuffer \in Data
  BY <1>2 DEF Ready
<1> QED BY <1>6, <1>7, <1>8, <1>9

\* What the memories of a cache make of its strobes.
Sampled(core, c, o, tagMem, mem, tagMem2, mem2) ==
  /\ tagMem2 = IF o.cam THEN [tagMem EXCEPT ![c.ptr] = core.block[1]] ELSE tagMem
  /\ mem2 = IF o.wr = NoWord THEN mem
            ELSE [mem EXCEPT ![c.cacheAdd[1]][c.cacheAdd[2]] = o.wr]

\* 270 degrees: the memories sample the strobes; the registers stay.
LEMMA MemoriesSample ==
  ASSUME Edge270
  PROVE  /\ clk = 270 /\ clk' = 0
         /\ UNCHANGED <<iCore, iCtl, iDirty, iOut, dCore, dCtl, dDirty, dOut, mem_access>>
         /\ UNCHANGED <<io, ddr>>
         /\ Sampled(iCore, iCtl, iOut, iTag, iMem, iTag', iMem')
         /\ Sampled(dCore, dCtl, dOut, dTag, dMem, dTag', dMem')
BY DEF Edge270, I!MemoryEdge, D!MemoryEdge, P!TxEdge, Sampled

\* The other steps leave the caches alone.
LEMMA OtherSteps ==
  ASSUME Edge90 \/ Ddr \/ UNCHANGED vars
  PROVE  /\ UNCHANGED <<iCore, iCtl, iDirty, iOut, iTag, iMem>>
         /\ UNCHANGED <<dCore, dCtl, dDirty, dOut, dTag, dMem>>
         /\ UNCHANGED <<tx, bus, io, ddr, mem_access>>
         /\ clk' = clk \/ (clk = 90 /\ clk' = 180)
BY DEF Edge90, Ddr, vars, iVars, dVars, pathVars, P!RxEdge, P!DdrStep

-----------------------------------------------------------------------------
(* The lines of a cache.                                                     *)

\* The last word of a refill is about to be written, and the tag with it.
Ends(o) == clk = 270 /\ o.cam

\* A line is being replaced.
Replaces(c, e) == c.state \in {"writeBuffer", "readBuffer"} \/ e

\* The line being replaced is one of the requested set; a word from the buffer
\* goes to it.
LinesOf(SetOf, core, c, o, t, e) ==
  /\ Replaces(c, e) => SetOf[c.ptr] = core.block[2]
  /\ e => c.state = "normal" /\ c.reqFlag /\ o.ack
  /\ t /\ o.ack => /\ o.wr # NoWord /\ c.cacheAdd[1] = c.ptr
                   /\ c.state = "readBuffer" \/ e
  /\ t /\ o.wr # NoWord => c.state \in {"normal", "readBuffer"}

\* No block is in two lines; the block in service is in none until its tag is
\* written, and in one then; a store goes to a dirty line; a line is written
\* out word by word.
DataLines ==
  /\ \A l, m \in DLine, b \in Block :
       Holding(DSetOf, dTag, l, b) /\ Holding(DSetOf, dTag, m, b) => l = m
  /\ dCtl.state # "normal" \/ Ends(dOut)
       => \A l \in DLine : ~Holding(DSetOf, dTag, l, dCore.block)
  /\ dCtl.reqFlag /\ dCtl.state = "normal"
       => Ends(dOut) \/ \E l \in DLine : Holding(DSetOf, dTag, l, dCore.block)
  /\ clk = 270 /\ dOut.wr # NoWord /\ ~dOut.ack
       => dCtl.cacheAdd[1] \in dDirty /\ dCtl.state = "normal" /\ ~dOut.cam
  /\ dCtl.state = "writeBuffer" => dCtl.cacheAdd = <<dCtl.ptr, dCtl.nTransfer>>

LinesInv ==
  /\ LinesOf(ISetOf, iCore, iCtl, iOut, clk = 270, Ends(iOut))
  /\ LinesOf(DSetOf, dCore, dCtl, dOut, clk = 270, Ends(dOut))
  /\ clk = 270 /\ iOut.wr # NoWord => iOut.ack
  /\ DataLines

\* A cycle keeps that.
LEMMA CycleKeepsLines ==
  ASSUME NEW L, NEW SetOf, NEW core, NEW c, InService(c),
         NEW tagMem, NEW mem, NEW mready, NEW wready, NEW rready, NEW d,
         rready => d \in Data, NEW dirty, NEW c2, NEW dirty2, NEW o2, NEW o,
         LinesOf(SetOf, core, c, o, FALSE, FALSE),
         Cycle(L, SetOf, core, c, tagMem, mem, mready, wready, rready, d, dirty, c2, dirty2, o2)
  PROVE  LinesOf(SetOf, core, c2, o2, TRUE, o2.cam)
<1>1. NoWord \notin Data
  BY Constants
<1>2. ASSUME NEW l \in L, HitCycle(core, c, mready, l, dirty, c2, dirty2, o2)
      PROVE  LinesOf(SetOf, core, c2, o2, TRUE, o2.cam)
  BY <1>2 DEF HitCycle, LinesOf, Replaces
<1>3. CASE MissCycle(core, c, mready, dirty, c2, dirty2, o2)
  BY <1>3 DEF MissCycle, LinesOf, Replaces, Still
<1>4. CASE RequestCycle(core, c, mready, dirty, c2, dirty2, o2)
  BY <1>4 DEF RequestCycle, LinesOf, Replaces, Still
<1>5. ASSUME NEW v \in L, SetOf[v] = core.block[2],
             ReplaceCycle(c, mready, v, dirty, c2, dirty2, o2)
      PROVE  LinesOf(SetOf, core, c2, o2, TRUE, o2.cam)
  BY <1>5 DEF ReplaceCycle, LinesOf, Replaces, Still
<1>6. CASE PushCycle(core, c, mready, wready, tagMem, mem, dirty, c2, dirty2, o2)
  BY <1>6 DEF PushCycle, LinesOf, Replaces
<1>7. CASE FillCycle(c, mready, rready, d, dirty, c2, dirty2, o2)
  <2>1. o2.wr # NoWord /\ c2.cacheAdd[1] = c2.ptr /\ c.reqFlag
    BY <1>1, <1>7 DEF FillCycle, InService
  <2> QED BY <1>7, <2>1 DEF FillCycle, LinesOf, Replaces, SameReference
<1>8. CASE WaitCycle(core, c, mready, dirty, c2, dirty2, o2)
  BY <1>8 DEF WaitCycle, LinesOf, Replaces, Still
<1> QED BY <1>2, <1>3, <1>4, <1>5, <1>6, <1>7, <1>8, Zenon DEF Cycle

\* A cycle keeps what is said of the data cache's lines.
LEMMA CycleKeepsData ==
  ASSUME DCacheOK, DataLines, clk = 180, clk' = 270, UNCHANGED <<dCore, dTag>>,
         NEW mem, NEW mready, NEW wready, NEW rready, NEW d,
         Cycle(DLine, DSetOf, dCore, dCtl, dTag, mem, mready, wready, rready, d,
               dDirty, dCtl', dDirty', dOut')
  PROVE  DataLines'
<1> DEFINE Held == \E l \in DLine : Holding(DSetOf, dTag, l, dCore.block)
           Kept == /\ dCtl'.state # "normal" \/ dOut'.cam => ~Held
                   /\ dCtl'.reqFlag /\ dCtl'.state = "normal" => dOut'.cam \/ Held
                   /\ dOut'.wr # NoWord /\ ~dOut'.ack
                        => /\ dCtl'.cacheAdd[1] \in dDirty'
                           /\ dCtl'.state = "normal" /\ ~dOut'.cam
                   /\ dCtl'.state = "writeBuffer"
                        => dCtl'.cacheAdd = <<dCtl'.ptr, dCtl'.nTransfer>>
<1>0. /\ dCtl.state # "normal" => ~Held
      /\ dCtl.reqFlag /\ dCtl.state = "normal" => Held
      /\ dCtl.state = "writeBuffer" => dCtl.cacheAdd = <<dCtl.ptr, dCtl.nTransfer>>
      /\ InService(dCtl)
  BY DEF DataLines, Ends, DCacheOK, CacheOK
<1> SUFFICES Kept
  BY DEF DataLines, Ends, Holding
<1> HIDE DEF Held
<1>2. ASSUME NEW l \in DLine, HitCycle(dCore, dCtl, mready, l, dDirty, dCtl', dDirty', dOut')
      PROVE  Kept
  BY <1>2 DEF HitCycle
<1>3. CASE /\ \A l \in DLine : ~Holding(DSetOf, dTag, l, dCore.block)
           /\ MissCycle(dCore, dCtl, mready, dDirty, dCtl', dDirty', dOut')
  BY <1>3 DEF MissCycle, Still, Held
<1>4. CASE RequestCycle(dCore, dCtl, mready, dDirty, dCtl', dDirty', dOut')
  BY <1>0, <1>4 DEF RequestCycle, Still
<1>5. ASSUME NEW v \in DLine, ReplaceCycle(dCtl, mready, v, dDirty, dCtl', dDirty', dOut')
      PROVE  Kept
  <2>1. dCtl.nTransfer = 0
    BY <1>0, <1>5 DEF ReplaceCycle, InService
  <2> QED BY <1>0, <1>5, <2>1 DEF ReplaceCycle, Still
<1>6. CASE PushCycle(dCore, dCtl, mready, wready, dTag, mem, dDirty, dCtl', dDirty', dOut')
  BY <1>0, <1>6 DEF PushCycle
<1>7. CASE FillCycle(dCtl, mready, rready, d, dDirty, dCtl', dDirty', dOut')
  BY <1>0, <1>7 DEF FillCycle
<1>8. CASE WaitCycle(dCore, dCtl, mready, dDirty, dCtl', dDirty', dOut')
  BY <1>0, <1>8 DEF WaitCycle, Still, SameReference, Active
<1> QED BY <1>2, <1>3, <1>4, <1>5, <1>6, <1>7, <1>8, Zenon DEF Cycle

\* Writing the tag of the line that was refilled.
LEMMA TagWritten ==
  ASSUME DCacheOK, DataLines, LinesOf(DSetOf, dCore, dCtl, dOut, TRUE, dOut.cam),
         clk = 270, dOut.cam, dTag' = [dTag EXCEPT ![dCtl.ptr] = dCore.block[1]]
  PROVE  /\ Holding(DSetOf, dTag', dCtl.ptr, dCore.block)
         /\ \A l \in DLine, b \in Block :
              Holding(DSetOf, dTag', l, b)
              => IF l = dCtl.ptr THEN b = dCore.block
                 ELSE Holding(DSetOf, dTag, l, b) /\ b # dCore.block
<1>1. dCtl.ptr \in DLine /\ dTag \in [DLine -> Tag \cup {NoTag}] /\ dCore.block \in Block
  BY Zenon DEF DCacheOK, CacheOK, CtlType, CoreType
<1>2. DSetOf[dCtl.ptr] = dCore.block[2]
  BY DEF LinesOf, Replaces
<1>3. \A l \in DLine : ~Holding(DSetOf, dTag, l, dCore.block)
  BY DEF DataLines, Ends
<1>4. Holding(DSetOf, dTag', dCtl.ptr, dCore.block)
  BY <1>1, <1>2 DEF Holding
<1>5. ASSUME NEW l \in DLine, NEW b \in Block, Holding(DSetOf, dTag', l, b)
      PROVE  IF l = dCtl.ptr THEN b = dCore.block
             ELSE Holding(DSetOf, dTag, l, b) /\ b # dCore.block
  <2>1. CASE l = dCtl.ptr
    <3>1. b[1] = dCore.block[1] /\ b[2] = dCore.block[2]
      BY <1>1, <1>2, <1>5, <2>1 DEF Holding
    <3>2. b = dCore.block
      BY <1>1, <3>1 DEF Block, D!Block
    <3> QED BY <2>1, <3>2
  <2>2. CASE l # dCtl.ptr
    <3>1. dTag'[l] = dTag[l]
      BY <1>1, <2>2
    <3>2. Holding(DSetOf, dTag, l, b)
      BY <1>5, <3>1 DEF Holding
    <3> QED BY <1>3, <2>2, <3>2
  <2> QED BY <2>1, <2>2
<1> QED BY <1>4, <1>5, Zenon

\* LinesInv is inductive, given SysInv.
LEMMA LinesStep ==
  ASSUME SysInv, LinesInv, [Next]_vars
  PROVE  LinesInv'
<1>1. ICacheOK /\ DCacheOK /\ CachesOK /\ ReadOnly
  BY DEF SysInv, CachesOK
<1>2. CASE Edge0
  <2>1. /\ clk' = 90 /\ UNCHANGED <<iCtl, iOut, dCtl, dOut, dTag>>
        /\ CoreMove(Fetch, iCore, iCore') /\ CoreMove(LoadStore, dCore, dCore') /\ clk = 0
    BY <1>2, HartMoves
  <2>2. iCtl.state # "normal" => iCore'.block = iCore.block
    BY <1>1, <2>1, HartWaits
  <2>3. dCtl.state # "normal" \/ dCtl.reqFlag => dCore'.block = dCore.block
    BY <1>1, <2>1, HartWaits
  <2>4. LinesOf(ISetOf, iCore, iCtl, iOut, clk = 270, Ends(iOut))'
    BY <2>1, <2>2 DEF LinesInv, LinesOf, Ends, Replaces
  <2>5. LinesOf(DSetOf, dCore, dCtl, dOut, clk = 270, Ends(dOut))'
    BY <2>1, <2>3 DEF LinesInv, LinesOf, Ends, Replaces
  <2>6. DataLines'
    BY <2>1, <2>3 DEF LinesInv, DataLines, Ends, Holding
  <2> QED BY <2>1, <2>4, <2>5, <2>6 DEF LinesInv
<1>3. CASE Edge180
  <2>1. /\ clk = 180 /\ clk' = 270 /\ UNCHANGED <<iCore, iTag, iMem, dCore, dTag, dMem>>
        /\ Ready(0, rx # <<>>) => FromBuffer \in Data
        /\ Ready(1, rx # <<>>) => FromBuffer \in Data
        /\ Cycle(ILine, ISetOf, iCore, iCtl, iTag, iMem, Ready(0, io.ready),
                 Ready(0, Len(tx.fifo) < W), Ready(0, rx # <<>>), FromBuffer,
                 iDirty, iCtl', iDirty', iOut')
        /\ Cycle(DLine, DSetOf, dCore, dCtl, dTag, dMem, Ready(1, io.ready),
                 Ready(1, Len(tx.fifo) < W), Ready(1, rx # <<>>), FromBuffer,
                 dDirty, dCtl', dDirty', dOut')
    BY <1>3, CacheCycles
  <2>2. InService(iCtl) /\ InService(dCtl)
    BY <1>1 DEF ICacheOK, DCacheOK, CacheOK
  <2>3. LinesOf(ISetOf, iCore, iCtl, iOut, FALSE, FALSE)
    BY <2>1 DEF LinesInv, LinesOf, Ends, Replaces
  <2>4. LinesOf(ISetOf, iCore, iCtl', iOut', TRUE, iOut'.cam)
    BY <2>1, <2>2, <2>3, CycleKeepsLines, Zenon
  <2>5. LinesOf(DSetOf, dCore, dCtl, dOut, FALSE, FALSE)
    BY <2>1 DEF LinesInv, LinesOf, Ends, Replaces
  <2>6. LinesOf(DSetOf, dCore, dCtl', dOut', TRUE, dOut'.cam)
    BY <2>1, <2>2, <2>5, CycleKeepsLines, Zenon
  <2>7. DataLines'
    <3>1. DataLines /\ UNCHANGED <<dCore, dTag>>
      BY <2>1 DEF LinesInv
    <3> QED BY <1>1, <2>1, <3>1, CycleKeepsData, Zenon
  <2>8. iOut'.wr # NoWord => iOut'.ack
    <3>1. ~StoreOf(iCore, iCtl)
      BY <1>1 DEF ReadOnly, StoreOf
    <3> QED BY <2>1, <3>1 DEF Cycle, HitCycle, MissCycle, RequestCycle, ReplaceCycle, PushCycle,
                              FillCycle, WaitCycle, Still
  <2> QED BY <2>1, <2>4, <2>6, <2>7, <2>8 DEF LinesInv, LinesOf, Ends, Replaces
<1>4. CASE Edge270
  <2>1. /\ clk = 270 /\ clk' = 0
        /\ UNCHANGED <<iCore, iCtl, iDirty, iOut, dCore, dCtl, dDirty, dOut>>
        /\ Sampled(dCore, dCtl, dOut, dTag, dMem, dTag', dMem')
    BY <1>4, MemoriesSample
  <2>2. LinesOf(ISetOf, iCore, iCtl, iOut, clk = 270, Ends(iOut))'
    BY <2>1 DEF LinesInv, LinesOf, Ends, Replaces
  <2>3. LinesOf(DSetOf, dCore, dCtl, dOut, clk = 270, Ends(dOut))'
    BY <2>1 DEF LinesInv, LinesOf, Ends, Replaces
  <2>4. DataLines'
    <3>1. CASE dOut.cam
      <4>1. LinesOf(DSetOf, dCore, dCtl, dOut, TRUE, dOut.cam)
        BY <2>1 DEF LinesInv, LinesOf, Ends, Replaces
      <4>2. dTag' = [dTag EXCEPT ![dCtl.ptr] = dCore.block[1]]
        BY <2>1, <3>1 DEF Sampled
      <4>3. /\ Holding(DSetOf, dTag', dCtl.ptr, dCore.block)
            /\ \A l \in DLine, b \in Block :
                 Holding(DSetOf, dTag', l, b)
                 => IF l = dCtl.ptr THEN b = dCore.block
                    ELSE Holding(DSetOf, dTag, l, b) /\ b # dCore.block
        BY <1>1, <2>1, <3>1, <4>1, <4>2, TagWritten DEF LinesInv
      <4>4. \A l, m \in DLine, b \in Block :
              Holding(DSetOf, dTag', l, b) /\ Holding(DSetOf, dTag', m, b) => l = m
        BY <4>3 DEF LinesInv, DataLines
      <4>5. dCtl.state = "normal" /\ dCtl.ptr \in DLine
        BY <1>1, <3>1, <4>1 DEF LinesOf, DCacheOK, CacheOK, CtlType
      <4> QED BY <2>1, <4>3, <4>4, <4>5 DEF DataLines, Ends
    <3>2. CASE ~dOut.cam
      <4>1. dTag' = dTag
        BY <2>1, <3>2 DEF Sampled
      <4> QED BY <2>1, <3>2, <4>1 DEF LinesInv, DataLines, Ends
    <3> QED BY <3>1, <3>2
  <2> QED BY <2>1, <2>2, <2>3, <2>4 DEF LinesInv
<1>5. CASE Edge90 \/ Ddr \/ UNCHANGED vars
  <2>1. /\ UNCHANGED <<iCore, iCtl, iDirty, iOut, iTag, iMem>>
        /\ UNCHANGED <<dCore, dCtl, dDirty, dOut, dTag, dMem>>
        /\ clk' = clk \/ (clk = 90 /\ clk' = 180)
    BY <1>5, OtherSteps
  <2>2. (clk = 270) <=> (clk' = 270)
    BY <2>1
  <2> QED BY <2>1, <2>2 DEF LinesInv, DataLines, LinesOf, Ends
<1> QED BY <1>2, <1>3, <1>4, <1>5 DEF Next, Edge

-----------------------------------------------------------------------------
(* The words on the path, in the order in which they move.                   *)

\* What an edge of the buffer of the DDR3 controller does to its words, before
\* it sends one: it leaves them alone, accepts a request, adds a burst to those
\* that are read, or takes a burst from those to be written.
Resting(c) ==
  /\ c.tx = io.tx /\ c.rx = P!Received.rx /\ ddr' = ddr
  /\ c.add = io.add /\ ToRead(c) = ToRead(io)
  /\ c.state = "write" => io.state = "write"

Accepting(c) ==
  /\ bus.req /\ io.state = "idle"
  /\ c.tx = io.tx /\ c.rx = P!Received.rx /\ ddr' = ddr
  /\ c.add = bus.add /\ c.flag = 0
  /\ c.state = IF bus.rw THEN "write" ELSE "read"

ReadingBurst(c) ==
  \E h \in {0, 1} :
    /\ io.state = "read" /\ io.flag = h + h
    /\ c.state = "read" /\ c.flag = io.flag + 1 /\ c.add = io.add
    /\ c.tx = io.tx \o P!Burst(io.add, h) /\ c.rx = P!Received.rx /\ ddr' = ddr

WritingBurst(c) ==
  /\ io.state = "write" /\ io.flag \in {0, 1} /\ Len(P!Received.rx) >= Half
  /\ c.state = "write" /\ c.flag = io.flag + 1 /\ c.add = io.add /\ c.tx = io.tx
  /\ c.rx = SubSeq(P!Received.rx, Half + 1, Len(P!Received.rx))
  /\ ddr' = [ddr EXCEPT ![io.add] =
               [w \in 0 .. W - 1 |->
                  IF w \div Half = io.flag THEN P!Received.rx[w - io.flag * Half + 1]
                  ELSE ddr[io.add][w]]]

IoStep(c) == Resting(c) \/ Accepting(c) \/ ReadingBurst(c) \/ WritingBurst(c)

\* The steps that leave the words alone.
LEMMA RestingSteps ==
  ASSUME IoBefore,
         P!IoDelay \/ P!IoIdle \/ P!IoWait \/ P!IoWaitClear
         \/ P!IoReadNext \/ P!IoReadEnd \/ P!IoWriteEnd
  PROVE  \E c \in IoType : io' = P!Sent(c) /\ ~c.valid /\ Resting(c)
<1> DEFINE r == P!Received
           Goal == \E c \in IoType : io' = P!Sent(c) /\ ~c.valid /\ Resting(c)
<1>1. /\ r \in IoType /\ ~r.valid /\ io \in IoType
      /\ r.delay = io.delay /\ r.state = io.state /\ r.flag = io.flag
      /\ r.tx = io.tx /\ r.add = io.add /\ r.ready = io.ready
  BY Busy
<1>2. ddr' = ddr
  BY DEF P!IoDelay, P!IoIdle, P!IoWait, P!IoWaitClear, P!IoReadNext, P!IoReadEnd,
         P!IoWriteEnd, P!Quietly
<1>4. CASE P!IoDelay
  <2> DEFINE c == [r EXCEPT !.delay = r.delay - 1]
  <2>1. io' = P!Sent(c) /\ io.delay > 0
    BY <1>4 DEF P!IoDelay
  <2> HIDE DEF r
  <2>2. r.delay - 1 \in Nat
    BY <1>1, <2>1 DEF IoType
  <2>3. /\ c \in IoType /\ ~c.valid /\ c.state = r.state /\ c.flag = r.flag
        /\ c.tx = r.tx /\ c.add = r.add /\ c.rx = r.rx
    BY <1>1, <2>2, Zenon DEF IoType
  <2> HIDE DEF c
  <2>4. ToRead(c) = ToRead(io)
    BY <1>1, <2>3 DEF ToRead
  <2>5. Resting(c)
    BY <1>1, <1>2, <2>1, <2>3, <2>4 DEF Resting, r
  <2> QED BY <2>1, <2>3, <2>5
<1>5. CASE P!IoIdle
  <2> DEFINE ready == r.ready \/ (ddr3 = "free" /\ io.tx = <<>>)
             c == [r EXCEPT !.ready = ready]
  <2>1. io' = P!Sent(c)
    BY <1>5 DEF P!IoIdle
  <2>2. ready \in BOOLEAN
    BY <1>1 DEF IoType
  <2> HIDE DEF r, ready
  <2>3. /\ c \in IoType /\ ~c.valid /\ c.state = r.state /\ c.flag = r.flag
        /\ c.tx = r.tx /\ c.add = r.add /\ c.rx = r.rx
    BY <1>1, <2>2, Zenon DEF IoType
  <2> HIDE DEF c
  <2>4. ToRead(c) = ToRead(io)
    BY <1>1, <2>3 DEF ToRead
  <2>5. Resting(c)
    BY <1>1, <1>2, <2>1, <2>3, <2>4 DEF Resting, r
  <2> QED BY <2>1, <2>3, <2>5
<1>6. CASE P!IoWait
  <2>1. io' = P!Sent(r)
    BY <1>6 DEF P!IoWait
  <2> HIDE DEF r
  <2>2. ToRead(r) = ToRead(io)
    BY <1>1 DEF ToRead
  <2>3. Resting(r)
    BY <1>1, <1>2, <2>2 DEF Resting, r
  <2> QED BY <1>1, <2>1, <2>3
<1>7. CASE P!IoWaitClear
  <2> DEFINE acknowledged == [r EXCEPT !.done = FALSE, !.state = "idle", !.delay = P!ClearDelay]
             waiting == [r EXCEPT !.done = TRUE]
  <2>1. (io' = P!Sent(acknowledged) \/ io' = P!Sent(waiting)) /\ io.state = "waitClear"
    BY <1>7 DEF P!IoWaitClear, P!Stepping
  <2> HIDE DEF r
  <2>2. TRUE \in BOOLEAN /\ FALSE \in BOOLEAN /\ "idle" \in IoState /\ P!ClearDelay \in Nat
    BY DEF P!ClearDelay, IoState
  <2>3. /\ acknowledged \in IoType /\ ~acknowledged.valid /\ acknowledged.add = r.add
        /\ acknowledged.rx = r.rx /\ acknowledged.tx = r.tx /\ acknowledged.state = "idle"
    BY <1>1, <2>2, Zenon DEF IoType
  <2>4. /\ waiting \in IoType /\ ~waiting.valid /\ waiting.add = r.add
        /\ waiting.rx = r.rx /\ waiting.tx = r.tx /\ waiting.state = r.state
    BY <1>1, <2>2, Zenon DEF IoType
  <2> HIDE DEF acknowledged, waiting
  <2>5. ToRead(acknowledged) = ToRead(io) /\ ToRead(waiting) = ToRead(io)
    BY <1>1, <2>1, <2>3, <2>4 DEF ToRead
  <2>6. Resting(acknowledged) /\ Resting(waiting)
    BY <1>1, <1>2, <2>1, <2>3, <2>4, <2>5 DEF Resting, r
  <2> QED BY <2>1, <2>3, <2>4, <2>6
<1>8. CASE P!IoReadNext
  <2> DEFINE c == [r EXCEPT !.flag = 2]
  <2>1. io' = P!Sent(c) /\ io.state = "read" /\ io.flag = 1
    BY <1>8 DEF P!IoReadNext, P!Stepping
  <2> HIDE DEF r
  <2>2. 2 \in 0 .. 3
    OBVIOUS
  <2>3. /\ c \in IoType /\ ~c.valid /\ c.state = r.state /\ c.flag = 2
        /\ c.tx = r.tx /\ c.add = r.add /\ c.rx = r.rx
    BY <1>1, <2>2, Zenon DEF IoType
  <2> HIDE DEF c
  <2>4. ToRead(c) = ToRead(io)
    BY <1>1, <2>1, <2>3 DEF ToRead
  <2>5. Resting(c)
    BY <1>1, <1>2, <2>1, <2>3, <2>4 DEF Resting, r
  <2> QED BY <2>1, <2>3, <2>5
<1>9. CASE P!IoReadEnd \/ P!IoWriteEnd
  <2> DEFINE c == [r EXCEPT !.flag = 0, !.state = "waitClear"]
  <2>1. io' = P!Sent(c) /\ ((io.state = "read" /\ io.flag = 3) \/ io.state = "write")
    BY <1>9 DEF P!IoReadEnd, P!IoWriteEnd, P!Stepping
  <2> HIDE DEF r
  <2>2. 0 \in 0 .. 3 /\ "waitClear" \in IoState
    BY DEF IoState
  <2>3. /\ c \in IoType /\ ~c.valid /\ c.state = "waitClear"
        /\ c.tx = r.tx /\ c.add = r.add /\ c.rx = r.rx
    BY <1>1, <2>2, Zenon DEF IoType
  <2> HIDE DEF c
  <2>4. ToRead(c) = ToRead(io)
    BY <1>1, <2>1, <2>3 DEF ToRead
  <2>5. Resting(c)
    BY <1>1, <1>2, <2>1, <2>3, <2>4 DEF Resting, r
  <2> QED BY <2>1, <2>3, <2>5
<1> QED BY <1>4, <1>5, <1>6, <1>7, <1>8, <1>9

\* Every edge is one of the four.
LEMMA IoSteps ==
  ASSUME IoBefore, P!IoEdge
  PROVE  \E c \in IoType : io' = P!Sent(c) /\ ~c.valid /\ IoStep(c)
<1> DEFINE r == P!Received
           Goal == \E c \in IoType : io' = P!Sent(c) /\ ~c.valid /\ IoStep(c)
<1>1. /\ r \in IoType /\ ~r.valid /\ io \in IoType
      /\ r.delay = io.delay /\ r.state = io.state /\ r.flag = io.flag
      /\ r.tx = io.tx /\ r.add = io.add /\ r.ready = io.ready
      /\ io.state \in {"read", "write"} => io.add \in Block
  BY Busy
<1>2. ~P!IoReadWord /\ ~P!IoFetchBurst /\ ~P!IoWriteWord /\ ~P!IoWordEnd
  BY <1>1 DEF IoType, IoState, P!IoReadWord, P!IoFetchBurst, P!IoWriteWord, P!IoWordEnd,
              P!Stepping
<1>3. CASE P!IoDelay \/ P!IoIdle \/ P!IoWait \/ P!IoWaitClear
           \/ P!IoReadNext \/ P!IoReadEnd \/ P!IoWriteEnd
  BY <1>3, RestingSteps DEF IoStep
<1>4. CASE P!IoAccept
  <2> DEFINE c == [r EXCEPT !.ready = FALSE, !.flag = 0, !.add = bus.add,
                            !.word = bus.word, !.state = P!Serving]
  <2>1. io.state = "idle" /\ bus.req /\ io' = P!Sent(c) /\ ddr' = ddr
    BY <1>4 DEF P!IoAccept, P!Stepping
  <2>2. /\ bus.add \in Block /\ bus.word = NoWord
        /\ P!Serving = IF bus.rw THEN "write" ELSE "read"
    BY <2>1 DEF IoBefore, PathTypeOK, BusType, P!Serving
  <2>3. /\ FALSE \in BOOLEAN /\ 0 \in 0 .. 3 /\ bus.add \in Block \cup {NoBlock}
        /\ bus.word \in {NoWord} /\ P!Serving \in IoState
    BY <2>2 DEF IoState
  <2> HIDE DEF r, P!Serving
  <2>4. /\ c \in IoType /\ ~c.valid /\ c.flag = 0 /\ c.add = bus.add
        /\ c.state = P!Serving /\ c.tx = r.tx /\ c.rx = r.rx
    BY <1>1, <2>3, Zenon DEF IoType
  <2> HIDE DEF c
  <2> QED BY <1>1, <2>1, <2>2, <2>4 DEF IoStep, Accepting, r
<1>5. CASE P!IoReadBurst
  <2> DEFINE h == io.flag \div 2
             t == r.tx \o P!Burst(io.add, h)
             c == [r EXCEPT !.tx = t, !.flag = r.flag + 1]
  <2>1. /\ io.state = "read" /\ io.flag \in {0, 2} /\ io' = P!Sent(c) /\ ddr' = ddr
    BY <1>1, <1>5 DEF P!IoReadBurst, P!Stepping
  <2>2. h \in {0, 1} /\ io.flag = h + h /\ r.flag + 1 \in 0 .. 3
    BY <1>1, <2>1
  <2>3. t \in Seq(Data)
    <3>1. P!Burst(io.add, h) \in Seq(Data)
      BY <1>1, <2>1, <2>2, Bursts DEF IoBefore
    <3>2. r.tx \in Seq(Data)
      BY <1>1 DEF IoType
    <3> QED BY <3>1, <3>2, ConcatProperties
  <2> HIDE DEF t, r, h
  <2>4. /\ c \in IoType /\ ~c.valid /\ c.state = r.state /\ c.flag = r.flag + 1
        /\ c.tx = t /\ c.add = r.add /\ c.rx = r.rx
    BY <1>1, <2>2, <2>3, Zenon DEF IoType
  <2> HIDE DEF c
  <2>5. ReadingBurst(c)
    BY <1>1, <2>1, <2>2, <2>4 DEF ReadingBurst, r, t
  <2> QED BY <2>1, <2>4, <2>5 DEF IoStep
<1>6. CASE P!IoWriteBurst
  <2> DEFINE rest == SubSeq(r.rx, Half + 1, Len(r.rx))
             c == [r EXCEPT !.rx = rest, !.flag = r.flag + 1]
  <2>1. /\ io' = P!Sent(c) /\ io.state = "write" /\ io.flag \in {0, 1} /\ Len(r.rx) >= Half
        /\ ddr' = [ddr EXCEPT ![io.add] =
                     [w \in 0 .. W - 1 |->
                        IF w \div Half = io.flag THEN r.rx[w - io.flag * Half + 1]
                        ELSE ddr[io.add][w]]]
    BY <1>6 DEF P!IoWriteBurst, P!BurstComplete, P!Stepping, Half
  <2>2. rest \in Seq(Data)
    <3>1. r.rx \in Seq(Data) /\ Len(r.rx) \in Nat
      BY <1>1 DEF IoType
    <3>2. \A i \in Half + 1 .. Len(r.rx) : r.rx[i] \in Data
      BY <3>1, ElementOfSeq, Constants
    <3> QED BY <3>1, <3>2, SubSeqProperties, Constants
  <2>3. r.flag + 1 \in 0 .. 3
    BY <1>1, <2>1
  <2> HIDE DEF rest, r
  <2>4. /\ c \in IoType /\ ~c.valid /\ c.state = r.state /\ c.flag = r.flag + 1
        /\ c.tx = r.tx /\ c.add = r.add /\ c.rx = rest
    BY <1>1, <2>2, <2>3, Zenon DEF IoType
  <2> HIDE DEF c
  <2>5. WritingBurst(c)
    BY <1>1, <2>1, <2>4 DEF WritingBurst, r, rest
  <2> QED BY <2>1, <2>4, <2>5 DEF IoStep
<1> QED BY <1>2, <1>3, <1>4, <1>5, <1>6 DEF P!IoEdge

-----------------------------------------------------------------------------
(* Words in a row, and the two rows that are on the path.                    *)

\* The words of s are those of v from place n on.
SegmentAt(s, n, v) == \A i \in 1 .. Len(s) : s[i] = v[n + i - 1]

\* Without its first word, a row is that of the next places.
LEMMA SegmentTail ==
  ASSUME NEW s \in Seq(Data), s # <<>>, NEW n \in Int, NEW v, SegmentAt(s, n, v)
  PROVE  SegmentAt(Tail(s), n + 1, v) /\ Head(s) = v[n]
<1>1. /\ Len(Tail(s)) = Len(s) - 1 /\ Len(s) \in Nat /\ Len(s) > 0
      /\ \A i \in 1 .. Len(Tail(s)) : Tail(s)[i] = s[i + 1]
  BY HeadTailProperties, EmptySeq
<1>2. ASSUME NEW i \in 1 .. Len(Tail(s)) PROVE Tail(s)[i] = v[n + 1 + i - 1]
  <2>1. i \in Int /\ i + 1 \in 1 .. Len(s)
    BY <1>1
  <2>2. s[i + 1] = v[n + (i + 1) - 1] /\ n + (i + 1) - 1 = n + 1 + i - 1
    BY <2>1 DEF SegmentAt
  <2> QED BY <1>1, <2>2
<1>3. s[1] = v[n + 1 - 1] /\ Head(s) = s[1] /\ n + 1 - 1 = n
  BY <1>1 DEF SegmentAt
<1> QED BY <1>2, <1>3 DEF SegmentAt

\* Two rows that follow each other are one.
LEMMA SegmentConcat ==
  ASSUME NEW s \in Seq(Data), NEW t \in Seq(Data), NEW n \in Int, NEW v,
         SegmentAt(s, n, v), SegmentAt(t, n + Len(s), v)
  PROVE  SegmentAt(s \o t, n, v)
<1>1. /\ Len(s \o t) = Len(s) + Len(t) /\ Len(s) \in Nat /\ Len(t) \in Nat
      /\ \A i \in 1 .. Len(s) + Len(t) :
           (s \o t)[i] = IF i <= Len(s) THEN s[i] ELSE t[i - Len(s)]
  BY ConcatProperties
<1>2. ASSUME NEW i \in 1 .. Len(s \o t) PROVE (s \o t)[i] = v[n + i - 1]
  <2>1. CASE i <= Len(s)
    <3>1. i \in 1 .. Len(s) /\ i \in 1 .. Len(s) + Len(t)
      BY <1>1, <2>1
    <3> QED BY <1>1, <2>1, <3>1 DEF SegmentAt
  <2>2. CASE i > Len(s)
    <3>1. i - Len(s) \in 1 .. Len(t) /\ i \in 1 .. Len(s) + Len(t) /\ ~(i <= Len(s))
      BY <1>1, <2>2
    <3>2. t[i - Len(s)] = v[n + Len(s) + (i - Len(s)) - 1]
      BY <3>1 DEF SegmentAt
    <3>3. n + Len(s) + (i - Len(s)) - 1 = n + i - 1
      BY <1>1
    <3> QED BY <1>1, <3>1, <3>2, <3>3
  <2> QED BY <1>1, <2>1, <2>2
<1> QED BY <1>2 DEF SegmentAt

\* The word that the buffer c of the DDR3 controller shows on its port.
Port(c) == IF c.valid THEN <<c.data>> ELSE <<>>

\* Sending a word moves it from the buffer to the port.
LEMMA SentStream ==
  ASSUME NEW c \in IoType, ~c.valid
  PROVE  LET s == P!Sent(c)
         IN  Port(s) \o s.tx = c.tx /\ Port(s) \in Seq(Data)
<1>1. CASE c.tx = <<>>
  <2>1. P!Sent(c) = c /\ Port(c) = <<>> /\ <<>> \in Seq(Data) /\ c.tx \in Seq(Data)
    BY <1>1 DEF P!Sent, Port, IoType
  <2>2. <<>> \o c.tx = c.tx
    BY <2>1, ConcatEmptySeq
  <2> QED BY <2>1, <2>2
<1>2. CASE c.tx # <<>>
  <2> DEFINE s == P!Sent(c)
  <2>1. s = [c EXCEPT !.tx = Tail(c.tx), !.valid = TRUE, !.data = Head(c.tx)]
    BY <1>2 DEF P!Sent, IoType
  <2>2. s.tx = Tail(c.tx) /\ s.valid = TRUE /\ s.data = Head(c.tx)
    BY <2>1 DEF IoType
  <2> HIDE DEF s
  <2>3. Port(s) = <<Head(c.tx)>> /\ c.tx \in Seq(Data)
    BY <2>2 DEF Port, IoType
  <2>4. Head(c.tx) \in Data /\ Tail(c.tx) \in Seq(Data)
    BY <1>2, <2>3, HeadTailProperties
  <2>5. <<Head(c.tx)>> \o Tail(c.tx) = c.tx /\ <<Head(c.tx)>> \in Seq(Data)
    BY <1>2, <2>3, <2>4
  <2> QED BY <2>2, <2>3, <2>5 DEF s
<1> QED BY <1>1, <1>2

\* The words that have been read from the memory, on their way to a cache: in
\* the buffer, on the port, and behind it.
OnPort == IF clk = 90 THEN Port(io) ELSE <<>>
Arriving == rx \o OnPort \o io.tx

ArrivingOK ==
  /\ Arriving \in Seq(Data) /\ OnPort \in Seq(Data) /\ rx \in Seq(Data) /\ io.tx \in Seq(Data)
  /\ Len(Arriving) = Len(rx) + At(90, Sends(io)) + Len(io.tx)
  /\ Len(rx) \in Nat /\ At(90, Sends(io)) \in Nat /\ Len(io.tx) \in Nat
  /\ rx # <<>> => Arriving # <<>> /\ Head(Arriving) = Head(rx)

\* The arriving words are words, as many as are in the three places.
LEMMA ArrivingType == PathTypeOK => ArrivingOK
<1> SUFFICES ASSUME PathTypeOK PROVE ArrivingOK
  OBVIOUS
<1>1. rx \in Seq(Data) /\ io.tx \in Seq(Data) /\ (io.valid => io.data \in Data)
  BY DEF PathTypeOK, IoType
<1>2. OnPort \in Seq(Data) /\ Len(OnPort) = At(90, Sends(io)) /\ At(90, Sends(io)) \in Nat
  <2>1. CASE clk = 90 /\ io.valid
    <3>1. OnPort = <<io.data>> /\ At(90, Sends(io)) = 1
      BY <2>1 DEF OnPort, Port, At, Sends
    <3> QED BY <1>1, <2>1, <3>1
  <2>2. CASE ~(clk = 90 /\ io.valid)
    <3>1. OnPort = <<>> /\ At(90, Sends(io)) = 0
      BY <2>2 DEF OnPort, Port, At, Sends
    <3> QED BY <3>1
  <2> QED BY <2>1, <2>2
<1>3. rx \o OnPort \in Seq(Data) /\ Len(rx \o OnPort) = Len(rx) + Len(OnPort)
  BY <1>1, <1>2, ConcatProperties
<1>4. /\ Arriving \in Seq(Data)
      /\ Len(Arriving) = Len(rx \o OnPort) + Len(io.tx)
      /\ \A i \in 1 .. Len(rx \o OnPort) + Len(io.tx) :
           i <= Len(rx \o OnPort) => Arriving[i] = (rx \o OnPort)[i]
  <2> DEFINE p == rx \o OnPort
  <2>1. p \in Seq(Data) /\ Arriving = p \o io.tx
    BY <1>3 DEF Arriving
  <2> HIDE DEF p
  <2>2. /\ Arriving \in Seq(Data) /\ Len(Arriving) = Len(p) + Len(io.tx)
        /\ \A i \in 1 .. Len(p) + Len(io.tx) :
             Arriving[i] = IF i <= Len(p) THEN p[i] ELSE io.tx[i - Len(p)]
    BY <1>1, <2>1, ConcatProperties
  <2> QED BY <2>2 DEF p
<1>5. ASSUME rx # <<>> PROVE Arriving # <<>> /\ Head(Arriving) = Head(rx)
  <2>1. Len(rx) \in Nat /\ Len(rx) > 0 /\ Len(OnPort) \in Nat /\ Len(io.tx) \in Nat
    BY <1>1, <1>2, <1>5, EmptySeq
  <2>2. Len(Arriving) # 0 /\ 1 <= Len(rx \o OnPort) /\ 1 \in 1 .. Len(rx \o OnPort) + Len(io.tx)
    <3>1. Len(rx \o OnPort) = Len(rx) + Len(OnPort)
      BY <1>3
    <3>2. Len(Arriving) = Len(rx \o OnPort) + Len(io.tx)
      BY <1>4
    <3>3. \A a, b, c \in Nat : a > 0 => a + b + c # 0 /\ 1 <= a + b /\ 1 \in 1 .. a + b + c
      OBVIOUS
    <3> QED BY <2>1, <3>1, <3>2, <3>3, Zenon
  <2>3. Arriving[1] = (rx \o OnPort)[1]
    BY <1>4, <2>2
  <2>4. (rx \o OnPort)[1] = rx[1]
    <3>1. 1 \in 1 .. Len(rx) + Len(OnPort) /\ 1 <= Len(rx)
      BY <2>1
    <3> QED BY <1>1, <1>2, <3>1, ConcatProperties
  <2>5. Arriving # <<>>
    BY <2>2, EmptySeq
  <2> QED BY <2>3, <2>4, <2>5
<1> QED BY <1>1, <1>2, <1>3, <1>4, <1>5 DEF ArrivingOK

\* The same after a step.
LEMMA ArrivingTypeNext == PathTypeOK' => ArrivingOK'
BY ArrivingType, PTL

\* What a step does to the arriving words: nothing, and then a read is only
\* accepted while there are none; a burst is added; the owner takes one.
ReadStays == Arriving' = Arriving /\ (ToRead(io') = ToRead(io) \/ Arriving = <<>>)

ReadAdds ==
  \E h \in {0, 1} :
    /\ io.state = "read" /\ ToRead(io) + h * Half = W /\ ToRead(io') + Half = ToRead(io)
    /\ Arriving' = Arriving \o P!Burst(io.add, h) /\ ddr' = ddr

ReadTakes ==
  /\ clk = 270 /\ Strobes.ack /\ Arriving # <<>>
  /\ Arriving' = Tail(Arriving) /\ ToRead(io') = ToRead(io)

\* Before the edge of the hart, what the buffer of the DDR3 controller relies on.
LEMMA IoReadyToStep ==
  ASSUME SysInv, clk = 0
  PROVE  IoBefore
BY DEF SysInv, IoBefore, Accepted

\* A request to read is accepted when no word is on its way.
LEMMA NothingArrives ==
  ASSUME SysInv, clk = 0, bus.req, ~bus.rw
  PROVE  Arriving = <<>>
<1>1. NumbersOK /\ ArrivingOK
  BY Numbers, ArrivingType DEF SysInv
<1>2. Need(iCtl) = 0 \/ Need(dCtl) = 0
  BY OneWaits DEF SysInv
<1>3. AskedToRead = W
  BY DEF AskedToRead
<1>4. /\ Need(iCtl) + Need(dCtl) + At(270, Acked(iOut) + Acked(dOut)) =
           At(270, Asked(iOut) + Asked(dOut)) + At(0, AskedToRead)
           + ToRead(io) + Len(io.tx) + At(90, Sends(io)) + Len(rx)
  BY DEF SysInv, ReadBalance
<1>5. Need(iCtl) + Need(dCtl) = W + ToRead(io) + Len(io.tx) + Len(rx)
  <2>1. /\ At(270, Acked(iOut) + Acked(dOut)) = 0 /\ At(270, Asked(iOut) + Asked(dOut)) = 0
        /\ At(0, AskedToRead) = W /\ At(90, Sends(io)) = 0
    BY <1>3 DEF At
  <2>2. /\ Need(iCtl) + Need(dCtl) + 0 = 0 + W + ToRead(io) + Len(io.tx) + 0 + Len(rx)
    BY <1>4, <2>1
  <2>3. /\ Need(iCtl) \in Nat /\ Need(dCtl) \in Nat /\ W \in Nat /\ ToRead(io) \in Nat
        /\ Len(io.tx) \in Nat /\ Len(rx) \in Nat
    BY <1>1, Constants DEF NumbersOK
  <2> QED BY <2>2, <2>3
<1>6. Len(io.tx) = 0 /\ Len(rx) = 0
  <2>1. /\ Need(iCtl) \in 0 .. W /\ Need(dCtl) \in 0 .. W /\ W \in Nat /\ ToRead(io) \in Nat
        /\ Len(io.tx) \in Nat /\ Len(rx) \in Nat
    BY <1>1, Constants DEF NumbersOK
  <2> QED BY <1>2, <1>5, <2>1
<1>7. Len(Arriving) = 0 /\ Arriving \in Seq(Data)
  <2>1. At(90, Sends(io)) = 0
    BY DEF At
  <2> QED BY <1>1, <1>6, <2>1 DEF ArrivingOK
<1> QED BY <1>7, EmptySeq

\* Rows may be joined in any order of joining.
LEMMA Joined ==
  ASSUME NEW s \in Seq(Data), NEW t \in Seq(Data), NEW u \in Seq(Data)
  PROVE  (s \o t) \o u = s \o (t \o u)
BY ConcatAssociative

\* The edge of the hart: what the buffer has got is on the port and behind it.
LEMMA HartStream ==
  ASSUME SysInv, Edge0, NEW c \in IoType, io' = P!Sent(c), ~c.valid, rx' = rx, clk = 0, clk' = 90
  PROVE  /\ Arriving = rx \o io.tx /\ Arriving' = rx \o c.tx
         /\ ToRead(io') = ToRead(c) /\ ToWrite(io') = ToWrite(c)
         /\ io'.state = c.state /\ io'.add = c.add /\ io'.rx = c.rx
         /\ rx \in Seq(Data) /\ io.tx \in Seq(Data) /\ c.tx \in Seq(Data)
<1>1. rx \in Seq(Data) /\ io.tx \in Seq(Data) /\ c.tx \in Seq(Data)
  BY DEF SysInv, PathTypeOK, IoType
<1>2. Port(io') \o io'.tx = c.tx /\ Port(io') \in Seq(Data) /\ io' \in IoType
  BY SentStream, SentFacts
<1>3. io'.tx \in Seq(Data)
  BY <1>2 DEF IoType
<1>4. Arriving = rx \o io.tx
  <2>1. OnPort = <<>> /\ rx \o <<>> = rx
    BY <1>1, ConcatEmptySeq DEF OnPort
  <2> QED BY <2>1 DEF Arriving
<1>5. Arriving' = rx \o c.tx
  <2>1. OnPort' = Port(io')
    BY DEF OnPort
  <2>2. Arriving' = (rx \o Port(io')) \o io'.tx
    BY <2>1 DEF Arriving
  <2>3. (rx \o Port(io')) \o io'.tx = rx \o (Port(io') \o io'.tx)
    BY <1>1, <1>2, <1>3, Joined, ZenonT(30)
  <2> QED BY <1>2, <2>2, <2>3
<1>6. io'.state = c.state /\ io'.flag = c.flag /\ io'.add = c.add /\ io'.rx = c.rx
  BY SentFacts
<1> QED BY <1>1, <1>4, <1>5, <1>6 DEF ToRead, ToWrite

\* Every step does one of the three to the arriving words.
LEMMA ReadStream ==
  ASSUME SysInv, SysInv', [Next]_vars
  PROVE  ReadStays \/ ReadAdds \/ ReadTakes
<1>1. ArrivingOK
  BY ArrivingType DEF SysInv
<1>2. CASE Edge0
  <2>1. clk = 0 /\ clk' = 90 /\ P!IoEdge /\ rx' = rx
    BY <1>2, HartMoves
  <2>2. IoBefore
    BY <2>1, IoReadyToStep
  <2>3. PICK c \in IoType : io' = P!Sent(c) /\ ~c.valid /\ IoStep(c)
    BY <2>1, <2>2, IoSteps
  <2>4. /\ Arriving = rx \o io.tx /\ Arriving' = rx \o c.tx /\ ToRead(io') = ToRead(c)
        /\ rx \in Seq(Data) /\ io.tx \in Seq(Data)
    BY <1>2, <2>1, <2>3, HartStream
  <2>5. CASE Resting(c)
    BY <2>4, <2>5 DEF Resting, ReadStays
  <2>6. CASE Accepting(c)
    <3>1. CASE bus.rw
      BY <2>4, <2>6, <3>1 DEF Accepting, ReadStays, ToRead
    <3>2. CASE ~bus.rw
      BY <2>1, <2>4, <2>6, <3>2, NothingArrives DEF Accepting, ReadStays
    <3> QED BY <3>1, <3>2
  <2>7. CASE ReadingBurst(c)
    <3>1. PICK h \in {0, 1} :
            /\ io.state = "read" /\ io.flag = h + h
            /\ c.state = "read" /\ c.flag = io.flag + 1 /\ c.add = io.add
            /\ c.tx = io.tx \o P!Burst(io.add, h) /\ ddr' = ddr
      BY <2>7 DEF ReadingBurst
    <3>2. ToRead(io) + h * Half = W /\ ToRead(io') + Half = ToRead(io)
      BY <2>4, <3>1, Constants DEF ToRead
    <3>3. io.add \in Block /\ PathTypeOK
      BY <3>1 DEF SysInv, PathTypeOK
    <3>4. P!Burst(io.add, h) \in Seq(Data)
      BY <3>3, Bursts
    <3>5. Arriving' = Arriving \o P!Burst(io.add, h)
      <4> DEFINE burst == P!Burst(io.add, h)
      <4>1. burst \in Seq(Data) /\ c.tx = io.tx \o burst
        BY <3>1, <3>4
      <4> HIDE DEF burst
      <4>2. (rx \o io.tx) \o burst = rx \o (io.tx \o burst)
        BY <2>4, <4>1, Joined
      <4>3. Arriving' = Arriving \o burst
        BY <2>4, <4>1, <4>2, Zenon
      <4> QED BY <4>3 DEF burst
    <3> QED BY <3>1, <3>2, <3>5 DEF ReadAdds
  <2>8. CASE WritingBurst(c)
    BY <2>4, <2>8 DEF WritingBurst, ReadStays, ToRead
  <2> QED BY <2>3, <2>5, <2>6, <2>7, <2>8 DEF IoStep
<1>3. CASE Edge90
  <2>1. clk = 90 /\ clk' = 180 /\ io' = io /\ rx' = IF io.valid THEN Append(rx, io.data) ELSE rx
    BY <1>3 DEF Edge90, P!RxEdge
  <2>2. rx \in Seq(Data) /\ io.tx \in Seq(Data) /\ (io.valid => io.data \in Data)
    BY DEF SysInv, PathTypeOK, IoType
  <2>3. rx' = rx \o OnPort
    <3>1. CASE io.valid
      <4>1. Append(rx, io.data) = rx \o <<io.data>>
        BY <2>2, <3>1, AppendIsConcat
      <4> QED BY <2>1, <3>1, <4>1 DEF OnPort, Port
    <3>2. CASE ~io.valid
      BY <2>1, <2>2, <3>2, ConcatEmptySeq DEF OnPort, Port
    <3> QED BY <3>1, <3>2
  <2>4. rx' \in Seq(Data) /\ OnPort' = <<>>
    BY <2>1 DEF SysInv, PathTypeOK, OnPort
  <2>5. Arriving' = rx' \o io.tx
    BY <2>1, <2>4, ConcatEmptySeq DEF Arriving
  <2> QED BY <2>1, <2>3, <2>5 DEF Arriving, ReadStays
<1>4. CASE Edge180
  <2>1. clk = 180 /\ clk' = 270 /\ rx' = rx /\ io' = io
    BY <1>4 DEF Edge180, pathVars
  <2> QED BY <2>1 DEF ReadStays, Arriving, OnPort
<1>5. CASE Edge270
  <2>1. clk = 270 /\ clk' = 0 /\ io' = io /\ rx' = IF Strobes.ack THEN Tail(rx) ELSE rx
    BY <1>5, SendFacts
  <2>2. OnPort = <<>> /\ OnPort' = <<>> /\ rx \in Seq(Data) /\ io.tx \in Seq(Data)
    BY <2>1, <1>1 DEF OnPort, ArrivingOK
  <2>3. Arriving = rx \o io.tx
    BY <2>2, ConcatEmptySeq DEF Arriving
  <2>4. rx' \in Seq(Data)
    BY DEF SysInv, PathTypeOK
  <2>5. Arriving' = rx' \o io.tx
    BY <2>1, <2>2, <2>4, ConcatEmptySeq DEF Arriving
  <2>6. CASE Strobes.ack
    <3>1. rx # <<>>
      BY <2>1, <2>6, OwnersStrobes
    <3>2. Arriving # <<>>
      BY <1>1, <3>1 DEF ArrivingOK
    <3>3. Tail(rx) \o io.tx = Tail(rx \o io.tx)
      BY <2>2, <3>1
    <3> QED BY <2>1, <2>3, <2>5, <2>6, <3>2, <3>3 DEF ReadTakes
  <2>7. CASE ~Strobes.ack
    BY <2>1, <2>3, <2>5, <2>7 DEF ReadStays
  <2> QED BY <2>6, <2>7
<1>6. CASE Ddr \/ UNCHANGED vars
  <2>1. clk' = clk /\ rx' = rx /\ io' = io
    BY <1>6 DEF Ddr, P!DdrStep, vars, pathVars
  <2> QED BY <2>1 DEF ReadStays, Arriving, OnPort
<1> QED BY <1>2, <1>3, <1>4, <1>5, <1>6 DEF Next, Edge

\* The place in its block of the first arriving word.
Position == W - ToRead(io) - Len(Arriving)

\* The arriving words stay those of one block, v.
LEMMA ArrivingStep ==
  ASSUME SysInv, SysInv', [Next]_vars, NEW v, SegmentAt(Arriving, Position, v),
         io.state = "read" /\ ToRead(io) # 0 => \A w \in D!Word : ddr[io.add][w] = v[w]
  PROVE  SegmentAt(Arriving', Position', v)
<1>1. ArrivingOK /\ ArrivingOK' /\ NumbersOK /\ NumbersOK'
  BY ArrivingType, ArrivingTypeNext, Numbers, NumbersNext DEF SysInv
<1>2. /\ Arriving \in Seq(Data) /\ Len(Arriving) \in Nat /\ ToRead(io) \in Nat
      /\ W \in Nat /\ Half \in Nat
  BY <1>1, Constants DEF ArrivingOK, NumbersOK
<1>3. Position' = W - ToRead(io') - Len(Arriving') /\ Position \in Int
  BY <1>2 DEF Position
<1>4. CASE ReadStays
  <2>1. CASE ToRead(io') = ToRead(io)
    BY <1>3, <1>4, <2>1 DEF ReadStays, Position
  <2>2. CASE Arriving = <<>>
    BY <1>4, <2>2 DEF ReadStays, SegmentAt
  <2> QED BY <1>4, <2>1, <2>2 DEF ReadStays
<1>5. CASE ReadAdds
  <2>1. PICK h \in {0, 1} :
          /\ io.state = "read" /\ ToRead(io) + h * Half = W /\ ToRead(io') + Half = ToRead(io)
          /\ Arriving' = Arriving \o P!Burst(io.add, h)
    BY <1>5 DEF ReadAdds
  <2>2. io.add \in Block /\ PathTypeOK
    BY <2>1 DEF SysInv, PathTypeOK
  <2>3. P!Burst(io.add, h) \in Seq(Data) /\ Len(P!Burst(io.add, h)) = Half
    BY <2>2, Bursts
  <2>4. Position + Len(Arriving) = h * Half /\ ToRead(io) # 0 /\ ToRead(io') \in Int
    <3>1. ToRead(io') \in Nat
      BY <1>1 DEF NumbersOK
    <3>2. Half > 0
      BY Constants
    <3>3. h * Half \in Int
      BY <1>2
    <3>4. \A r, n, k, s \in Int :
            r + k = W /\ s + Half = r /\ s >= 0 => (W - r - n) + n = k /\ r # 0
      BY <1>2, <3>2
    <3>5. (W - ToRead(io) - Len(Arriving)) + Len(Arriving) = h * Half /\ ToRead(io) # 0
      <4>1. ToRead(io') \in Int /\ ToRead(io') >= 0 /\ ToRead(io) \in Int /\ Len(Arriving) \in Int
        BY <1>2, <3>1
      <4> QED BY <2>1, <3>3, <3>4, <4>1, Zenon
    <3> QED BY <3>1, <3>5 DEF Position
  <2>5. SegmentAt(P!Burst(io.add, h), h * Half, v)
    <3>1. ASSUME NEW i \in 1 .. Half PROVE P!Burst(io.add, h)[i] = v[h * Half + i - 1]
      <4>1. h * Half + i - 1 \in D!Word
        BY Constants
      <4>2. P!Burst(io.add, h)[i] = ddr[io.add][h * Half + i - 1]
        BY DEF P!Burst, Half
      <4> QED BY <2>1, <2>4, <4>1, <4>2
    <3> QED BY <2>3, <3>1 DEF SegmentAt
  <2>6. SegmentAt(Arriving', Position, v)
    <3> DEFINE burst == P!Burst(io.add, h)
    <3>1. burst \in Seq(Data) /\ SegmentAt(burst, Position + Len(Arriving), v)
      BY <2>3, <2>4, <2>5
    <3> HIDE DEF burst
    <3>2. SegmentAt(Arriving \o burst, Position, v)
      BY <1>2, <1>3, <3>1, SegmentConcat
    <3> QED BY <2>1, <3>2 DEF burst
  <2>7. Position' = Position
    <3>1. Len(Arriving') = Len(Arriving) + Half
      <4> DEFINE burst == P!Burst(io.add, h)
      <4>1. burst \in Seq(Data) /\ Len(burst) = Half
        BY <2>3
      <4> HIDE DEF burst
      <4>2. Len(Arriving \o burst) = Len(Arriving) + Half
        BY <1>2, <4>1, ConcatProperties
      <4> QED BY <2>1, <4>2 DEF burst
    <3>2. \A r, n, s \in Int : s + Half = r => W - s - (n + Half) = W - r - n
      BY <1>2
    <3>3. W - ToRead(io') - (Len(Arriving) + Half) = W - ToRead(io) - Len(Arriving)
      <4>1. ToRead(io') \in Int /\ ToRead(io) \in Int /\ Len(Arriving) \in Int
        BY <1>2, <2>4
      <4> QED BY <2>1, <3>2, <4>1, Zenon
    <3> QED BY <1>3, <3>1, <3>3, Zenon DEF Position
  <2> QED BY <2>6, <2>7
<1>6. CASE ReadTakes
  <2>1. SegmentAt(Tail(Arriving), Position + 1, v)
    BY <1>2, <1>3, <1>6, SegmentTail DEF ReadTakes
  <2>2. Len(Arriving') = Len(Arriving) - 1
    BY <1>2, <1>6, HeadTailProperties DEF ReadTakes
  <2>3. Position' = Position + 1
    BY <1>2, <1>3, <1>6, <2>2 DEF ReadTakes, Position
  <2> QED BY <1>6, <2>1, <2>3 DEF ReadTakes
<1> QED BY <1>4, <1>5, <1>6, ReadStream

\* When a cache fills a line, the first arriving word is the one that it needs.
LEMMA PositionIs ==
  ASSUME SysInv, NEW c \in {iCtl, dCtl}, c.state = "readBuffer", clk = 180
  PROVE  Position = c.nTransfer
<1>1. NumbersOK /\ ArrivingOK
  BY Numbers, ArrivingType DEF SysInv
<1>2. Need(iCtl) = 0 \/ Need(dCtl) = 0
  BY OneWaits DEF SysInv
<1>3. iCtl.nTransfer \in 0 .. W - 1 /\ dCtl.nTransfer \in 0 .. W - 1
  BY Constants, Zenon DEF SysInv, CachesOK, ICacheOK, DCacheOK, CacheOK, CtlType
<1>4. Need(c) = W - c.nTransfer /\ c.nTransfer \in 0 .. W - 1 /\ W \in Nat
  BY <1>3, Constants DEF Need
<1>5. Need(iCtl) + Need(dCtl) = ToRead(io) + Len(Arriving)
  <2>1. /\ Need(iCtl) + Need(dCtl) + At(270, Acked(iOut) + Acked(dOut)) =
             At(270, Asked(iOut) + Asked(dOut)) + At(0, AskedToRead)
             + ToRead(io) + Len(io.tx) + At(90, Sends(io)) + Len(rx)
    BY DEF SysInv, ReadBalance
  <2>2. /\ At(270, Acked(iOut) + Acked(dOut)) = 0 /\ At(270, Asked(iOut) + Asked(dOut)) = 0
        /\ At(0, AskedToRead) = 0 /\ At(90, Sends(io)) = 0
    BY DEF At
  <2>3. Need(iCtl) + Need(dCtl) + 0 = 0 + 0 + ToRead(io) + Len(io.tx) + 0 + Len(rx)
    BY <2>1, <2>2
  <2>4. Len(Arriving) = Len(rx) + 0 + Len(io.tx)
    BY <1>1, <2>2 DEF ArrivingOK
  <2>5. /\ Need(iCtl) \in Nat /\ Need(dCtl) \in Nat /\ W \in Nat /\ ToRead(io) \in Nat
        /\ Len(io.tx) \in Nat /\ Len(rx) \in Nat
    BY <1>1, Constants DEF NumbersOK
  <2> QED BY <2>3, <2>4, <2>5
<1>6. W - c.nTransfer = ToRead(io) + Len(Arriving)
  <2>1. Need(iCtl) \in 0 .. W /\ Need(dCtl) \in 0 .. W
    BY <1>1 DEF NumbersOK
  <2>2. Need(c) > 0
    BY <1>4
  <2>3. Need(iCtl) + Need(dCtl) = Need(c)
    BY <1>2, <1>4, <2>1, <2>2
  <2> QED BY <1>4, <1>5, <2>3
<1>7. ToRead(io) \in Nat /\ Len(Arriving) \in Nat
  BY <1>1 DEF NumbersOK, ArrivingOK
<1> QED BY <1>4, <1>6, <1>7 DEF Position

-----------------------------------------------------------------------------
(* One cache: what it asks for, what it is filled with, and what its lines   *)
(* hold, if v are the words of the blocks.                                   *)

\* From its request on, a read is that of block b.
ReadsOf(b, c, o, i, s, t) ==
  Transferring(c) =>
    /\ ToRead(i) # 0 => i.add = b
    /\ t = 0 /\ s.req /\ ~s.rw => s.add = b
    /\ t = 270 /\ o.read # NoBlock => o.read = b

\* A step as the read sees it: only at 180 degrees the registers change, and a
\* transfer starts with the request, when nothing is left of the last one.
ReadMoves(b, c, o, b2, c2, o2) ==
  \/ /\ ~Edge180 /\ c2 = c /\ o2 = o
     /\ Transferring(c) => b2 = b
  \/ /\ Edge180 /\ b2 = b
     /\ Transferring(c2) => \/ Transferring(c) /\ o2.read = NoBlock
                            \/ io.ready /\ rx = <<>> /\ o2.read = b

\* The registers of one of the caches.
OwnStrobes(c, o) == \/ c = iCtl /\ o = iOut
                    \/ c = dCtl /\ o = dOut

\* A read that a cache waits for stays that of its block, on the bus and at the
\* memory.
LEMMA ReadsStep ==
  ASSUME SysInv, [Next]_vars, NEW b, NEW c, NEW o, NEW b2, NEW c2, NEW o2,
         OwnStrobes(c, o), ReadMoves(b, c, o, b2, c2, o2),
         ReadsOf(b, c, o, io, bus, clk)
  PROVE  ReadsOf(b2, c2, o2, io', bus', clk')
<1> USE DEF ReadsOf
<1>1. CASE Edge0
  <2>1. clk = 0 /\ clk' = 90 /\ P!IoEdge /\ rx' = rx /\ bus' = bus
    BY <1>1, HartMoves
  <2>2. IoBefore
    BY <2>1, IoReadyToStep
  <2>3. PICK d \in IoType : io' = P!Sent(d) /\ ~d.valid /\ IoStep(d)
    BY <2>1, <2>2, IoSteps
  <2>4. ToRead(io') = ToRead(d) /\ io'.add = d.add /\ io'.state = d.state
    BY <1>1, <2>1, <2>3, HartStream
  <2>5. c2 = c /\ o2 = o /\ (Transferring(c) => b2 = b)
    BY <2>1 DEF ReadMoves, Edge180
  <2>6. ToRead(d) # 0 => \/ d.add = io.add /\ ToRead(io) # 0
                         \/ d.add = bus.add /\ bus.req /\ ~bus.rw
    <3>1. CASE Resting(d)
      BY <3>1 DEF Resting
    <3>2. CASE Accepting(d)
      BY <3>2 DEF Accepting, ToRead
    <3>3. CASE ReadingBurst(d)
      <4>1. io.state = "read" /\ io.flag \in {0, 2} /\ d.add = io.add
        BY <3>3 DEF ReadingBurst
      <4>2. ToRead(io) # 0
        BY <4>1, Constants DEF ToRead
      <4> QED BY <4>1, <4>2
    <3>4. CASE WritingBurst(d)
      BY <3>4 DEF WritingBurst, ToRead
    <3> QED BY <2>3, <3>1, <3>2, <3>3, <3>4 DEF IoStep
  <2> QED BY <2>1, <2>4, <2>5, <2>6
<1>2. CASE Edge180
  <2>1. clk = 180 /\ clk' = 270 /\ io' = io /\ b2 = b
    BY <1>2 DEF Edge180, pathVars, ReadMoves
  <2>2. Transferring(c2) => \/ Transferring(c) /\ o2.read = NoBlock
                            \/ io.ready /\ o2.read = b
    BY <1>2 DEF ReadMoves
  <2>3. io.ready => ToRead(io) = 0
    BY DEF SysInv, IoReady, ToRead
  <2> QED BY <2>1, <2>2, <2>3
<1>3. CASE Edge270
  <2>1. /\ clk = 270 /\ clk' = 0 /\ io' = io /\ bus'.req = Requests(Strobes)
        /\ bus'.req => /\ bus'.rw = (dOut.write # NoBlock)
                       /\ bus'.add = IF dOut.write # NoBlock THEN dOut.write ELSE Strobes.read
    BY <1>3, SendFacts
  <2>2. Transferring(c) => Strobes = o
    BY <2>1 DEF OwnStrobes, SysInv, Arbitration, Strobes
  <2>3. Strobes.write = dOut.write
    BY <2>1, OwnersStrobes
  <2>4. bus'.req /\ ~bus'.rw => bus'.add = Strobes.read /\ Strobes.read # NoBlock
    BY <2>1, <2>3 DEF Requests
  <2>5. c2 = c /\ o2 = o /\ (Transferring(c) => b2 = b)
    BY <2>1 DEF ReadMoves, Edge180
  <2> QED BY <2>1, <2>2, <2>4, <2>5
<1>4. CASE Edge90 \/ Ddr \/ UNCHANGED vars
  <2>1. bus' = bus /\ io' = io /\ (clk' = clk \/ (clk = 90 /\ clk' = 180))
    BY <1>4, OtherSteps
  <2>2. clk' = 0 => clk = 0
    BY <2>1
  <2>3. clk' = 270 => clk = 270
    BY <2>1
  <2>4. ~Edge180
    BY <1>4, <2>1 DEF Edge180, Edge90
  <2>5. c2 = c /\ o2 = o /\ (Transferring(c) => b2 = b)
    BY <2>4 DEF ReadMoves
  <2> QED BY <2>1, <2>2, <2>3, <2>5
<1> QED BY <1>1, <1>2, <1>3, <1>4 DEF Next, Edge

\* The words that arrive are those of the block, if those that are read are.
LEMMA ArrivesStep ==
  ASSUME SysInv, SysInv', [Next]_vars, NEW b, NEW c, NEW o, NEW b2, NEW c2, NEW o2,
         ReadMoves(b, c, o, b2, c2, o2), ReadsOf(b, c, o, io, bus, clk), NEW v,
         Transferring(c) => SegmentAt(Arriving, Position, v),
         Transferring(c) => \A w \in D!Word : ddr[b][w] = v[w]
  PROVE  Transferring(c2) => SegmentAt(Arriving', Position', v)
<1> SUFFICES ASSUME Transferring(c2) PROVE SegmentAt(Arriving', Position', v)
  OBVIOUS
<1>1. CASE Transferring(c)
  <2>1. io.state = "read" /\ ToRead(io) # 0 => \A w \in D!Word : ddr[io.add][w] = v[w]
    BY <1>1 DEF ReadsOf
  <2>2. SegmentAt(Arriving, Position, v)
    BY <1>1
  <2> QED BY <2>1, <2>2, ArrivingStep
<1>2. CASE ~Transferring(c)
  <2>1. Edge180 /\ io.ready /\ rx = <<>>
    BY <1>2 DEF ReadMoves
  <2>2. io.tx = <<>> /\ clk = 180 /\ clk' = 270 /\ io' = io /\ rx' = rx
    BY <2>1 DEF SysInv, IoReady, Edge180, pathVars
  <2>3. Arriving' = <<>>
    <3>1. OnPort' = <<>> /\ rx' = <<>> /\ io'.tx = <<>>
      BY <2>1, <2>2 DEF OnPort
    <3> QED BY <3>1 DEF Arriving
  <2> QED BY <2>3 DEF SegmentAt
<1> QED BY <1>1, <1>2

\* How many words of the block the line at the pointer has got; e: the tag is
\* about to be written.
Filled(c, e) == IF c.state = "readBuffer" THEN c.nTransfer ELSE IF e THEN W ELSE 0

\* A word of a line, the strobe that is about to write it included (t).
ShownAt(t, c, o, mem, l, w) ==
  IF t /\ o.wr # NoWord /\ c.cacheAdd = <<l, w>> THEN o.wr ELSE mem[l][w]

\* The words that the line has got are those of v.
FillOf(c, o, mem, t, e, v) ==
  \A w \in D!Word : w < Filled(c, e) => ShownAt(t, c, o, mem, c.ptr, w) = v[w]

\* A line that holds its block: not the one that is being refilled.
Intact(c, e, l) == l = c.ptr => c.state # "readBuffer" /\ ~e

\* A clean line holds the words of its block.
CleanOf(L, SetOf, c, dirty, e, tagMem, mem, v) ==
  \A l \in L, b \in Block :
    l \notin dirty /\ Holding(SetOf, tagMem, l, b) /\ Intact(c, e, l)
    => \A w \in D!Word : mem[l][w] = v[b][w]

\* A cycle of the controller fills the line with the word that it takes.
LEMMA CycleFills ==
  ASSUME NEW L, NEW SetOf, NEW core, NEW c \in CtlType(L), InService(c), NEW o,
         NEW tagMem, NEW mem, NEW mready, NEW wready, NEW rready, NEW d,
         NEW dirty, NEW c2, NEW dirty2, NEW o2, NEW v,
         Cycle(L, SetOf, core, c, tagMem, mem, mready, wready, rready, d, dirty, c2, dirty2, o2),
         FillOf(c, o, mem, FALSE, FALSE, v),
         c.state = "readBuffer" /\ rready => d # NoWord /\ d = v[c.nTransfer]
  PROVE  FillOf(c2, o2, mem, TRUE, o2.cam, v)
<1>1. c.nTransfer \in D!Word /\ D!Word = 0 .. W - 1 /\ W \in Nat
  BY Constants DEF CtlType
<1>2. \A w \in D!Word : w < Filled(c, FALSE) => mem[c.ptr][w] = v[w]
  BY DEF FillOf, ShownAt
<1>3. ASSUME Filled(c2, o2.cam) = 0 PROVE FillOf(c2, o2, mem, TRUE, o2.cam, v)
  BY <1>1, <1>3 DEF FillOf
<1>4. CASE \E l \in L : HitCycle(core, c, mready, l, dirty, c2, dirty2, o2)
  BY <1>3, <1>4 DEF HitCycle, Filled
<1>5. CASE MissCycle(core, c, mready, dirty, c2, dirty2, o2)
  BY <1>3, <1>5 DEF MissCycle, Still, Filled
<1>6. CASE RequestCycle(core, c, mready, dirty, c2, dirty2, o2)
  BY <1>3, <1>6 DEF RequestCycle, Still, Filled
<1>7. CASE \E l \in L : ReplaceCycle(c, mready, l, dirty, c2, dirty2, o2)
  BY <1>3, <1>7 DEF ReplaceCycle, Still, Filled, InService
<1>8. CASE PushCycle(core, c, mready, wready, tagMem, mem, dirty, c2, dirty2, o2)
  BY <1>3, <1>8 DEF PushCycle, Filled
<1>9. CASE FillCycle(c, mready, rready, d, dirty, c2, dirty2, o2)
  <2>1. /\ c.state = "readBuffer" /\ rready /\ c2.ptr = c.ptr
        /\ c2.cacheAdd = <<c.ptr, c.nTransfer>> /\ o2.wr = d
        /\ IF c.nTransfer = W - 1 THEN c2.state = "normal" /\ o2.cam
           ELSE c2.nTransfer = c.nTransfer + 1 /\ c2.state = "readBuffer" /\ ~o2.cam
    BY <1>9 DEF FillCycle
  <2>2. Filled(c2, o2.cam) = c.nTransfer + 1 /\ Filled(c, FALSE) = c.nTransfer
    BY <1>1, <2>1 DEF Filled
  <2>3. ASSUME NEW w \in D!Word, w < c.nTransfer + 1
        PROVE  ShownAt(TRUE, c2, o2, mem, c2.ptr, w) = v[w]
    <3>1. CASE w = c.nTransfer
      BY <2>1, <3>1 DEF ShownAt
    <3>2. CASE w # c.nTransfer
      <4>1. w < c.nTransfer
        BY <1>1, <2>3, <3>2
      <4>2. <<c.ptr, c.nTransfer>> # <<c.ptr, w>>
        BY <3>2
      <4> QED BY <1>2, <2>1, <2>2, <4>1, <4>2 DEF ShownAt
    <3> QED BY <3>1, <3>2
  <2> QED BY <2>2, <2>3 DEF FillOf
<1>10. CASE WaitCycle(core, c, mready, dirty, c2, dirty2, o2)
  <2>1. c2.state = c.state /\ c2.nTransfer = c.nTransfer /\ c2.ptr = c.ptr
        /\ o2.wr = NoWord /\ ~o2.cam
    BY <1>10 DEF WaitCycle, Still
  <2> QED BY <1>2, <2>1 DEF FillOf, ShownAt, Filled
<1> QED BY <1>4, <1>5, <1>6, <1>7, <1>8, <1>9, <1>10 DEF Cycle

\* The block RAM mem2 holds what mem showed before the edge.
ShownIn(L, c, o, mem, mem2) ==
  \A l \in L, w \in D!Word : mem2[l][w] = ShownAt(TRUE, c, o, mem, l, w)

\* What the memories sample is what the lines showed.
LEMMA SampledShown ==
  ASSUME NEW L, NEW c \in CtlType(L), NEW o, NEW core, NEW tagMem,
         NEW mem \in [L -> [D!Word -> Data]],
         NEW tagMem2, NEW mem2, Sampled(core, c, o, tagMem, mem, tagMem2, mem2)
  PROVE  ShownIn(L, c, o, mem, mem2)
<1>1. c.cacheAdd \in L \X D!Word
  BY DEF CtlType
<1>2. PICK l0 \in L, w0 \in D!Word : c.cacheAdd = <<l0, w0>>
  BY <1>1
<1>3. mem2 = IF o.wr = NoWord THEN mem ELSE [mem EXCEPT ![l0][w0] = o.wr]
  BY <1>2 DEF Sampled
<1>4. ASSUME NEW l \in L, NEW w \in D!Word PROVE mem2[l][w] = ShownAt(TRUE, c, o, mem, l, w)
  <2>1. <<l0, w0>> = <<l, w>> <=> l0 = l /\ w0 = w
    OBVIOUS
  <2> QED BY <1>2, <1>3, <2>1 DEF ShownAt
<1> QED BY <1>4 DEF ShownIn

\* v and v2 agree on the blocks of clean lines.
SameInClean(L, SetOf, dirty, tagMem, v, v2) ==
  \A l \in L, b \in Block :
    l \notin dirty /\ Holding(SetOf, tagMem, l, b) => \A w \in D!Word : v2[b][w] = v[b][w]

\* A cycle of the controller keeps the words of clean lines.
LEMMA CycleClean ==
  ASSUME NEW L, NEW SetOf, NEW core, NEW c, NEW tagMem, NEW mem, NEW mready, NEW wready,
         NEW rready, NEW d, NEW dirty, NEW c2, NEW dirty2, NEW o2, NEW v, NEW v2,
         Cycle(L, SetOf, core, c, tagMem, mem, mready, wready, rready, d, dirty, c2, dirty2, o2),
         CleanOf(L, SetOf, c, dirty, FALSE, tagMem, mem, v),
         SameInClean(L, SetOf, dirty, tagMem, v, v2)
  PROVE  CleanOf(L, SetOf, c2, dirty2, o2.cam, tagMem, mem, v2)
<1> SUFFICES ASSUME NEW l \in L, NEW b \in Block, l \notin dirty2, Holding(SetOf, tagMem, l, b),
                    Intact(c2, o2.cam, l), NEW w \in D!Word
             PROVE  mem[l][w] = v2[b][w]
  BY DEF CleanOf
<1>1. ASSUME l \notin dirty, Intact(c, FALSE, l) PROVE mem[l][w] = v2[b][w]
  BY <1>1 DEF CleanOf, SameInClean
<1>2. CASE \E m \in L : HitCycle(core, c, mready, m, dirty, c2, dirty2, o2)
  BY <1>1, <1>2 DEF HitCycle, Intact
<1>3. CASE MissCycle(core, c, mready, dirty, c2, dirty2, o2)
  BY <1>1, <1>3 DEF MissCycle, Still, Intact
<1>4. CASE RequestCycle(core, c, mready, dirty, c2, dirty2, o2)
  BY <1>1, <1>4 DEF RequestCycle, Still, Intact
<1>5. CASE \E m \in L : ReplaceCycle(c, mready, m, dirty, c2, dirty2, o2)
  BY <1>1, <1>5 DEF ReplaceCycle, Still, Intact
<1>6. CASE PushCycle(core, c, mready, wready, tagMem, mem, dirty, c2, dirty2, o2)
  BY <1>1, <1>6 DEF PushCycle, Intact
<1>7. CASE FillCycle(c, mready, rready, d, dirty, c2, dirty2, o2)
  BY <1>1, <1>7 DEF FillCycle, Intact
<1>8. CASE WaitCycle(core, c, mready, dirty, c2, dirty2, o2)
  BY <1>1, <1>8 DEF WaitCycle, Still, Intact
<1> QED BY <1>2, <1>3, <1>4, <1>5, <1>6, <1>7, <1>8 DEF Cycle

\* The edge of the memories: a line that is full holds the words of its block.
LEMMA SampleClean ==
  ASSUME NEW L, NEW SetOf, NEW core \in CoreType, NEW c \in CtlType(L), NEW o,
         NEW tagMem \in [L -> Tag \cup {NoTag}], NEW mem \in [L -> [D!Word -> Data]],
         NEW tagMem2, NEW mem2, Sampled(core, c, o, tagMem, mem, tagMem2, mem2),
         NEW dirty, NEW v,
         LinesOf(SetOf, core, c, o, TRUE, o.cam),
         o.wr # NoWord /\ ~o.ack => c.cacheAdd[1] \in dirty,
         FillOf(c, o, mem, TRUE, o.cam, v[core.block]),
         CleanOf(L, SetOf, c, dirty, o.cam, tagMem, mem, v)
  PROVE  CleanOf(L, SetOf, c, dirty, FALSE, tagMem2, mem2, v)
<1>1. \A l \in L, w \in D!Word : mem2[l][w] = ShownAt(TRUE, c, o, mem, l, w)
  <2>1. ShownIn(L, c, o, mem, mem2)
    BY SampledShown, Zenon
  <2> QED BY <2>1 DEF ShownIn
<1> SUFFICES ASSUME NEW l \in L, NEW b \in Block, l \notin dirty, Holding(SetOf, tagMem2, l, b),
                    Intact(c, FALSE, l), NEW w \in D!Word
             PROVE  mem2[l][w] = v[b][w]
  BY DEF CleanOf
<1>2. CASE o.cam /\ l = c.ptr
  <2>1. tagMem2[l] = core.block[1] /\ SetOf[l] = core.block[2]
    BY <1>2 DEF Sampled, LinesOf, Replaces
  <2>2. b = core.block
    <3>1. b[1] = core.block[1] /\ b[2] = core.block[2]
      BY <2>1 DEF Holding
    <3>2. core.block \in Block
      BY DEF CoreType
    <3> QED BY <3>1, <3>2 DEF Block, D!Block
  <2>3. c.state = "normal" /\ w < W
    BY <1>2, Constants DEF LinesOf
  <2>4. w < Filled(c, o.cam)
    BY <1>2, <2>3 DEF Filled
  <2> QED BY <1>1, <1>2, <2>2, <2>4 DEF FillOf
<1>3. CASE ~(o.cam /\ l = c.ptr)
  <2>1. Holding(SetOf, tagMem, l, b) /\ Intact(c, o.cam, l)
    BY <1>3 DEF Sampled, Holding, Intact
  <2>2. mem[l][w] = v[b][w]
    BY <2>1 DEF CleanOf
  <2>3. ~(o.wr # NoWord /\ c.cacheAdd = <<l, w>>)
    <3> SUFFICES ASSUME o.wr # NoWord, c.cacheAdd = <<l, w>> PROVE FALSE
      OBVIOUS
    <3>1. c.cacheAdd[1] = l
      OBVIOUS
    <3>2. CASE o.ack
      BY <1>3, <2>1, <3>1, <3>2 DEF LinesOf, Intact
    <3>3. CASE ~o.ack
      BY <3>1, <3>3
    <3> QED BY <3>2, <3>3
  <2> QED BY <1>1, <2>2, <2>3 DEF ShownAt
<1> QED BY <1>2, <1>3

-----------------------------------------------------------------------------
(* Which blocks are written.                                                 *)

FetchBlock == {a.block : a \in Fetch}
StoreBlock == {a.block : a \in {s \in LoadStore : s.rw}}

\* Only blocks that the hart stores into are dirty, are written back and are
\* written in the memory.
StoresOnly ==
  /\ dCore.rw => dCore.block \in StoreBlock
  /\ dCtl.reqFlag /\ dCtl.rwFlag => dCore.block \in StoreBlock
  /\ \A l \in dDirty : <<dTag[l], DSetOf[l]>> \in StoreBlock
  /\ dCtl.state = "readBuffer" \/ Ends(dOut) => dCtl.ptr \notin dDirty
  /\ dCtl.writebackFlag => dCtl.addWriteback \in StoreBlock
  /\ clk = 270 /\ dOut.write # NoBlock => dOut.write \in StoreBlock
  /\ clk = 0 /\ bus.req /\ bus.rw => bus.add \in StoreBlock
  /\ io.state = "write" => io.add \in StoreBlock

\* The part that the cache controller's edge changes.
Writes(core, c, dirty, tagMem, o, t) ==
  /\ core.rw => core.block \in StoreBlock
  /\ c.reqFlag /\ c.rwFlag => core.block \in StoreBlock
  /\ \A l \in dirty : <<tagMem[l], DSetOf[l]>> \in StoreBlock
  /\ c.state = "readBuffer" \/ (t /\ o.cam) => c.ptr \notin dirty
  /\ c.writebackFlag => c.addWriteback \in StoreBlock
  /\ t /\ o.write # NoBlock => o.write \in StoreBlock

\* A cycle keeps what is said of the blocks that are written.
LEMMA WritesCycle ==
  ASSUME NEW core \in CoreType, NEW c, NEW dirty, NEW tagMem, NEW o, NEW mem,
         NEW mready, NEW wready, NEW rready, NEW d, NEW c2, NEW dirty2, NEW o2,
         Writes(core, c, dirty, tagMem, o, FALSE),
         c.state = "writeBuffer" => c.ptr \in dirty /\ DSetOf[c.ptr] = core.block[2],
         Cycle(DLine, DSetOf, core, c, tagMem, mem, mready, wready, rready, d, dirty, c2, dirty2, o2)
  PROVE  Writes(core, c2, dirty2, tagMem, o2, TRUE)
<1>1. ASSUME c2.writebackFlag => c.writebackFlag, c2.addWriteback = c.addWriteback,
             o2.write # NoBlock => c.writebackFlag /\ o2.write = c.addWriteback
      PROVE  /\ c2.writebackFlag => c2.addWriteback \in StoreBlock
             /\ o2.write # NoBlock => o2.write \in StoreBlock
  BY <1>1 DEF Writes
<1>2. CASE \E l \in DLine : /\ Holding(DSetOf, tagMem, l, core.block)
                            /\ HitCycle(core, c, mready, l, dirty, c2, dirty2, o2)
  <2>1. PICK l \in DLine : /\ Holding(DSetOf, tagMem, l, core.block)
                           /\ HitCycle(core, c, mready, l, dirty, c2, dirty2, o2)
    BY <1>2
  <2>2. <<tagMem[l], DSetOf[l]>> = core.block
    BY <2>1 DEF Holding, CoreType, Block, D!Block
  <2>3. StoreOf(core, c) => core.block \in StoreBlock
    BY DEF Writes, StoreOf
  <2>4. dirty2 = dirty \/ (dirty2 = dirty \cup {l} /\ StoreOf(core, c))
    BY <2>1 DEF HitCycle
  <2>5. \A m \in dirty2 : <<tagMem[m], DSetOf[m]>> \in StoreBlock
    BY <2>2, <2>3, <2>4 DEF Writes
  <2>6. c2.state = "normal" /\ ~c2.reqFlag /\ ~o2.cam
    BY <2>1 DEF HitCycle
  <2>7. /\ c2.writebackFlag => c.writebackFlag
        /\ c2.addWriteback = c.addWriteback
        /\ o2.write # NoBlock => c.writebackFlag /\ o2.write = c.addWriteback
    BY <2>1 DEF HitCycle, Requested
  <2> QED BY <1>1, <2>5, <2>6, <2>7 DEF Writes
<1>3. CASE MissCycle(core, c, mready, dirty, c2, dirty2, o2)
  BY <1>1, <1>3 DEF MissCycle, Still, Requested, Writes
<1>4. CASE RequestCycle(core, c, mready, dirty, c2, dirty2, o2)
  BY <1>4 DEF RequestCycle, Still, SameReference, Writes
<1>5. CASE \E l \in DLine : ReplaceCycle(c, mready, l, dirty, c2, dirty2, o2)
  BY <1>1, <1>5 DEF ReplaceCycle, Still, SameReference, Requested, Writes
<1>6. CASE PushCycle(core, c, mready, wready, tagMem, mem, dirty, c2, dirty2, o2)
  <2>1. /\ c.state = "writeBuffer" /\ c2.ptr = c.ptr /\ SameReference(c, c2) /\ ~o2.cam
        /\ \/ c2.state = "readBuffer" /\ dirty2 = dirty \ {c.ptr}
           \/ c2.state = "writeBuffer" /\ dirty2 = dirty
    BY <1>6 DEF PushCycle
  <2>2. PICK add : /\ add = IF c.nTransfer = 0 THEN <<tagMem[c.ptr], core.block[2]>>
                            ELSE c.addWriteback
                   /\ Requested(c.nTransfer = 0 \/ c.writebackFlag, add, mready, c2, o2)
    BY <1>6 DEF PushCycle
  <2>3. c.nTransfer = 0 \/ c.writebackFlag => add \in StoreBlock
    BY <2>1, <2>2 DEF Writes
  <2>4. /\ c2.writebackFlag => c2.addWriteback \in StoreBlock
        /\ o2.write # NoBlock => o2.write \in StoreBlock
    BY <2>2, <2>3 DEF Requested
  <2> QED BY <2>1, <2>4 DEF Writes, SameReference
<1>7. CASE FillCycle(c, mready, rready, d, dirty, c2, dirty2, o2)
  BY <1>1, <1>7 DEF FillCycle, SameReference, Requested, Writes
<1>8. CASE WaitCycle(core, c, mready, dirty, c2, dirty2, o2)
  BY <1>1, <1>8 DEF WaitCycle, Still, SameReference, Requested, Writes
<1> QED BY <1>2, <1>3, <1>4, <1>5, <1>6, <1>7, <1>8 DEF Cycle

\* What the edges of the path do to the address of a write, and to the memory.
LEMMA HartWrites ==
  ASSUME SysInv, Edge0
  PROVE  /\ io'.state = "write" => \/ io.state = "write" /\ io'.add = io.add
                                   \/ bus.req /\ bus.rw /\ io'.add = bus.add
         /\ \A b \in Block : ddr'[b] = ddr[b] \/ (io.state = "write" /\ b = io.add)
<1>1. clk = 0 /\ clk' = 90 /\ P!IoEdge /\ rx' = rx
  BY HartMoves
<1>2. PICK c \in IoType : io' = P!Sent(c) /\ ~c.valid /\ IoStep(c)
  BY <1>1, IoReadyToStep, IoSteps
<1>3. io'.add = c.add /\ io'.state = c.state
  BY <1>1, <1>2, HartStream
<1>4. CASE Resting(c)
  BY <1>3, <1>4 DEF Resting
<1>5. CASE Accepting(c)
  BY <1>3, <1>5 DEF Accepting
<1>6. CASE ReadingBurst(c)
  BY <1>3, <1>6 DEF ReadingBurst
<1>7. CASE WritingBurst(c)
  <2>1. ddr \in [Block -> [D!Word -> Data]]
    BY DEF SysInv, PathTypeOK
  <2>2. \A b \in Block : b # io.add => ddr'[b] = ddr[b]
    BY <1>7, <2>1 DEF WritingBurst
  <2> QED BY <1>3, <1>7, <2>2 DEF WritingBurst
<1> QED BY <1>2, <1>4, <1>5, <1>6, <1>7 DEF IoStep

\* Blocks that are not stored into keep their words in the memory.
LEMMA OthersKept ==
  ASSUME SysInv, StoresOnly, [Next]_vars, NEW b \in Block, b \notin StoreBlock
  PROVE  ddr'[b] = ddr[b]
<1>1. CASE Edge0
  BY <1>1, HartWrites DEF StoresOnly
<1>2. CASE ~Edge0
  BY <1>2 DEF Next, Edge, Edge90, Edge180, Edge270, Ddr, P!RxEdge, P!TxEdge,
         P!DdrStep, pathVars, vars
<1> QED BY <1>1, <1>2

\* Only blocks that the hart stores into are ever written to the memory.
LEMMA StoresStep ==
  ASSUME SysInv, LinesInv, StoresOnly, [Next]_vars
  PROVE  StoresOnly'
<1>1. ICacheOK /\ DCacheOK /\ CachesOK
  BY DEF SysInv, CachesOK
<1>2. CASE Edge0
  <2>1. /\ clk = 0 /\ clk' = 90 /\ UNCHANGED <<dCtl, dDirty, dOut, dTag, bus>>
        /\ CoreMove(LoadStore, dCore, dCore')
    BY <1>2, HartMoves
  <2>2. dCtl.reqFlag => dCore'.block = dCore.block
    BY <1>1, <2>1, HartWaits
  <2>3. dCore'.rw => dCore'.block \in StoreBlock
    BY <2>1 DEF CoreMove, StoreBlock
  <2>4. io'.state = "write" => \/ io.state = "write" /\ io'.add = io.add
                               \/ bus.req /\ bus.rw /\ io'.add = bus.add
    BY <1>2, HartWrites
  <2> QED BY <2>1, <2>2, <2>3, <2>4 DEF StoresOnly, Ends
<1>3. CASE Edge180
  <2>1. /\ clk = 180 /\ clk' = 270 /\ UNCHANGED <<mem_access, pathVars>>
        /\ UNCHANGED <<dCore, dTag, dMem>>
        /\ Cycle(DLine, DSetOf, dCore, dCtl, dTag, dMem, Ready(1, io.ready),
                 Ready(1, Len(tx.fifo) < W), Ready(1, rx # <<>>), FromBuffer,
                 dDirty, dCtl', dDirty', dOut')
    BY <1>3, CacheCycles
  <2>2. dCore \in CoreType
    BY <1>1 DEF DCacheOK, CacheOK
  <2>3. dCtl.state = "writeBuffer" => dCtl.ptr \in dDirty /\ DSetOf[dCtl.ptr] = dCore.block[2]
    BY <1>1 DEF DCacheOK, CacheOK, LinesInv, LinesOf, Replaces
  <2>4. Writes(dCore, dCtl, dDirty, dTag, dOut, FALSE)
    BY DEF StoresOnly, Writes
  <2>5. Writes(dCore, dCtl', dDirty', dTag, dOut', TRUE)
    BY <2>1, <2>2, <2>3, <2>4, WritesCycle, Zenon
  <2> QED BY <2>1, <2>5 DEF StoresOnly, Writes, Ends, pathVars
<1>4. CASE Edge270
  <2>1. /\ clk = 270 /\ clk' = 0 /\ UNCHANGED <<dCore, dCtl, dDirty, dOut, io>>
        /\ Sampled(dCore, dCtl, dOut, dTag, dMem, dTag', dMem')
    BY <1>4, MemoriesSample
  <2>2. /\ bus'.req => /\ bus'.rw = (dOut.write # NoBlock)
                       /\ bus'.add = IF dOut.write # NoBlock THEN dOut.write ELSE Strobes.read
    BY <1>4, SendFacts
  <2>3. \A l \in dDirty : dTag'[l] = dTag[l]
    <3>1. dTag \in [DLine -> Tag \cup {NoTag}]
      BY <1>1 DEF DCacheOK, CacheOK
    <3>2. CASE dOut.cam
      <4>1. dCtl.ptr \notin dDirty
        BY <2>1, <3>2 DEF StoresOnly, Ends
      <4> QED BY <2>1, <3>1, <3>2, <4>1 DEF Sampled
    <3>3. CASE ~dOut.cam
      BY <2>1, <3>3 DEF Sampled
    <3> QED BY <3>2, <3>3
  <2>4. dCtl.state = "readBuffer" => dCtl.ptr \notin dDirty
    BY DEF StoresOnly
  <2>5. bus'.req /\ bus'.rw => bus'.add \in StoreBlock
    BY <2>1, <2>2 DEF StoresOnly
  <2> QED BY <2>1, <2>3, <2>4, <2>5 DEF StoresOnly, Ends
<1>5. CASE Edge90 \/ Ddr \/ UNCHANGED vars
  <2>1. /\ UNCHANGED <<dCore, dCtl, dDirty, dOut, dTag, dMem>>
        /\ UNCHANGED <<tx, bus, io, ddr, mem_access>>
        /\ clk' = clk \/ (clk = 90 /\ clk' = 180)
    BY <1>5, OtherSteps
  <2>2. ((clk = 270) <=> (clk' = 270)) /\ (clk' = 0 => clk = 0)
    BY <2>1
  <2> QED BY <2>1, <2>2 DEF StoresOnly, Ends
<1> QED BY <1>2, <1>3, <1>4, <1>5 DEF Next, Edge

\* Only blocks that the hart fetches are in the instruction cache.
FetchesOnly ==
  /\ iCore.block \in FetchBlock
  /\ \A l \in ILine : iTag[l] = NoTag \/ <<iTag[l], ISetOf[l]>> \in FetchBlock

\* Only blocks that the hart fetches ever get into the instruction cache.
LEMMA FetchesStep ==
  ASSUME SysInv, LinesInv, FetchesOnly, [Next]_vars
  PROVE  FetchesOnly'
<1>1. ICacheOK
  BY DEF SysInv, CachesOK
<1>2. CASE Edge0
  <2>1. iTag' = iTag /\ CoreMove(Fetch, iCore, iCore')
    BY <1>2, HartMoves
  <2> QED BY <2>1 DEF FetchesOnly, CoreMove, FetchBlock
<1>3. CASE Edge180
  <2>1. iTag' = iTag /\ iCore' = iCore
    BY <1>3, CacheCycles
  <2> QED BY <2>1 DEF FetchesOnly
<1>4. CASE Edge270
  <2>1. /\ clk = 270 /\ iCore' = iCore
        /\ Sampled(iCore, iCtl, iOut, iTag, iMem, iTag', iMem')
    BY <1>4, MemoriesSample
  <2>2. CASE iOut.cam
    <3>1. /\ iTag' = [iTag EXCEPT ![iCtl.ptr] = iCore.block[1]] /\ iCtl.ptr \in ILine
          /\ iTag \in [ILine -> Tag \cup {NoTag}]
      BY <1>1, <2>1, <2>2 DEF Sampled, ICacheOK, CacheOK, CtlType
    <3>2. ISetOf[iCtl.ptr] = iCore.block[2] /\ iCore.block \in Block
      BY <1>1, <2>1, <2>2 DEF LinesInv, LinesOf, Replaces, Ends, ICacheOK, CacheOK, CoreType
    <3>3. <<iCore.block[1], ISetOf[iCtl.ptr]>> = iCore.block
      BY <3>2 DEF Block, D!Block
    <3> QED BY <2>1, <3>1, <3>3 DEF FetchesOnly
  <2>3. CASE ~iOut.cam
    BY <2>1, <2>3 DEF Sampled, FetchesOnly
  <2> QED BY <2>2, <2>3
<1>5. CASE Edge90 \/ Ddr \/ UNCHANGED vars
  <2>1. iTag' = iTag /\ iCore' = iCore
    BY <1>5, OtherSteps
  <2> QED BY <2>1 DEF FetchesOnly
<1> QED BY <1>2, <1>3, <1>4, <1>5 DEF Next, Edge

-----------------------------------------------------------------------------
(* The instruction cache: what it holds is what is in the memory.            *)

\* ReadsOf, the arriving words, FillOf and CleanOf for the instruction cache, all
\* of whose lines are clean; v is the memory.
IReads == ReadsOf(iCore.block, iCtl, iOut, io, bus, clk)
IArrives == Transferring(iCtl) => SegmentAt(Arriving, Position, ddr[iCore.block])
IFill == FillOf(iCtl, iOut, iMem, clk = 270, Ends(iOut), ddr[iCore.block])
IClean == CleanOf(ILine, ISetOf, iCtl, {}, Ends(iOut), iTag, iMem, ddr)

\* What the instruction cache reads, fills and holds are words of the memory.
FetchInv == StoresOnly /\ FetchesOnly /\ IReads /\ IArrives /\ IFill /\ IClean

\* What the instruction cache cannot see, stores into code, does not happen.
CodeIsNotWritten == StoreBlock \cap FetchBlock = {}

\* What an edge of the instruction cache says of its reads.
LEMMA InstReadMoves ==
  ASSUME SysInv, SysInv', [Next]_vars
  PROVE  ReadMoves(iCore.block, iCtl, iOut, iCore'.block, iCtl', iOut')
<1>1. CachesOK /\ ReadOnly
  BY DEF SysInv, CachesOK
<1>2. CASE Edge0
  <2>1. UNCHANGED <<iCtl, iOut>> /\ CoreMove(Fetch, iCore, iCore') /\ clk = 0
    BY <1>2, HartMoves
  <2>2. iCtl.state # "normal" => iCore'.block = iCore.block
    BY <1>1, <2>1, HartWaits
  <2>3. ~Edge180
    BY <2>1 DEF Edge180
  <2> QED BY <2>1, <2>2, <2>3 DEF ReadMoves, Transferring
<1>3. CASE Edge180
  <2>1. /\ clk = 180 /\ clk' = 270 /\ UNCHANGED <<mem_access, pathVars>>
        /\ UNCHANGED <<iCore, iTag, iMem>>
        /\ Cycle(ILine, ISetOf, iCore, iCtl, iTag, iMem, Ready(0, io.ready),
                 Ready(0, Len(tx.fifo) < W), Ready(0, rx # <<>>), FromBuffer,
                 iDirty, iCtl', iDirty', iOut')
    BY <1>3, CacheCycles
  <2>2. iOut'.read # NoBlock => rx = <<>>
    BY <2>1 DEF SysInv, Gated, pathVars
  <2>3. iCore.block \in Block /\ NoBlock \notin Block
    BY <1>1, Constants DEF CachesOK, ICacheOK, CacheOK, CoreType
  <2>4. Transferring(iCtl') => \/ Transferring(iCtl) /\ iOut'.read = NoBlock
                               \/ io.ready /\ iOut'.read = iCore.block
    <3> HIDE DEF Ready
    <3>1. Ready(0, io.ready) => io.ready
      BY DEF Ready
    <3> QED BY <2>1, <3>1 DEF Cycle, HitCycle, MissCycle, RequestCycle, ReplaceCycle, PushCycle,
                              FillCycle, WaitCycle, Transferring
  <2> QED BY <1>3, <2>1, <2>2, <2>3, <2>4 DEF ReadMoves
<1>4. CASE Edge270 \/ Edge90 \/ Ddr \/ UNCHANGED vars
  <2>1. UNCHANGED <<iCore, iCtl, iOut>>
    BY <1>4, MemoriesSample, OtherSteps
  <2>2. ~Edge180
    BY <1>4 DEF Edge180, Edge270, Edge90, Ddr, vars
  <2> QED BY <2>1, <2>2 DEF ReadMoves
<1> QED BY <1>2, <1>3, <1>4 DEF Next, Edge

\* What the instruction cache's lines and reads need of the memory: the blocks
\* that it may hold stay what they are.
LEMMA CodeKept ==
  ASSUME SysInv, StoresOnly, FetchesOnly, CodeIsNotWritten, [Next]_vars
  PROVE  /\ ddr'[iCore.block] = ddr[iCore.block]
         /\ \A l \in ILine, b \in Block : Holding(ISetOf, iTag, l, b) => ddr'[b] = ddr[b]
<1>1. iCore.block \in Block
  BY Zenon DEF SysInv, CachesOK, ICacheOK, CacheOK, CoreType
<1>2. iCore.block \notin StoreBlock
  BY DEF FetchesOnly, CodeIsNotWritten
<1>3. ASSUME NEW l \in ILine, NEW b \in Block, Holding(ISetOf, iTag, l, b)
      PROVE  ddr'[b] = ddr[b]
  <2>1. b[1] \in Tag /\ b = <<b[1], b[2]>>
    BY DEF Block, D!Block
  <2>2. iTag[l] # NoTag /\ <<iTag[l], ISetOf[l]>> = b
    BY <1>3, <2>1, SystemAssumption DEF Holding, I!CacheAssumption
  <2>3. b \notin StoreBlock
    BY <2>2 DEF FetchesOnly, CodeIsNotWritten
  <2> QED BY <2>3, OthersKept
<1> QED BY <1>1, <1>2, <1>3, OthersKept

\* The word that a cache takes from the buffer is the first that arrives.
LEMMA FromBufferIs ==
  ASSUME SysInv, rx # <<>>, NEW c \in {iCtl, dCtl}, c.state = "readBuffer", clk = 180,
         NEW v, SegmentAt(Arriving, Position, v)
  PROVE  FromBuffer = v[c.nTransfer] /\ FromBuffer # NoWord
<1>1. ArrivingOK
  BY ArrivingType DEF SysInv
<1>2. Arriving \in Seq(Data) /\ Arriving # <<>> /\ Head(Arriving) = FromBuffer
  BY <1>1 DEF ArrivingOK, FromBuffer
<1>3. Position = c.nTransfer
  BY PositionIs
<1>4. Position \in Int
  <2>1. iCtl.nTransfer \in 0 .. W - 1 /\ dCtl.nTransfer \in 0 .. W - 1
    BY Constants, Zenon DEF SysInv, CachesOK, ICacheOK, DCacheOK, CacheOK, CtlType
  <2>2. c.nTransfer \in 0 .. W - 1
    BY <2>1
  <2> QED BY <1>3, <2>2, Constants
<1>5. Head(Arriving) = v[Position]
  BY <1>2, <1>4, SegmentTail
<1>6. Head(Arriving) \in Data
  BY <1>2, HeadTailProperties
<1> QED BY <1>2, <1>3, <1>5, <1>6, Constants

\* The words that arrive for the instruction cache stay those of its block.
LEMMA FetchArrivesStep ==
  ASSUME SysInv, SysInv', [Next]_vars, FetchInv, CodeIsNotWritten
  PROVE  IReads' /\ IArrives'
<1>1. ReadMoves(iCore.block, iCtl, iOut, iCore'.block, iCtl', iOut')
  BY InstReadMoves
<1>2. ReadsOf(iCore.block, iCtl, iOut, io, bus, clk)
  BY DEF FetchInv, IReads
<1>3. OwnStrobes(iCtl, iOut)
  BY DEF OwnStrobes
<1>4. ReadsOf(iCore'.block, iCtl', iOut', io', bus', clk')
  BY <1>1, <1>2, <1>3, ReadsStep, Zenon
<1>5. Transferring(iCtl) => SegmentAt(Arriving, Position, ddr[iCore.block])
  BY DEF FetchInv, IArrives
<1>6. Transferring(iCtl') => SegmentAt(Arriving', Position', ddr[iCore.block])
  <2> DEFINE v == ddr[iCore.block]
  <2>1. Transferring(iCtl) => SegmentAt(Arriving, Position, v)
    BY <1>5
  <2>2. Transferring(iCtl) => \A w \in D!Word : ddr[iCore.block][w] = v[w]
    OBVIOUS
  <2> HIDE DEF v
  <2>3. Transferring(iCtl') => SegmentAt(Arriving', Position', v)
    BY <1>1, <1>2, <2>1, <2>2, ArrivesStep, Zenon
  <2> QED BY <2>3 DEF v
<1>7. Transferring(iCtl') => ddr'[iCore'.block] = ddr[iCore.block]
  <2>1. ddr'[iCore.block] = ddr[iCore.block]
    BY CodeKept DEF FetchInv
  <2>2. Transferring(iCtl') => iCore'.block = iCore.block
    BY <1>1 DEF ReadMoves
  <2> QED BY <2>1, <2>2
<1>8. Transferring(iCtl') => SegmentAt(Arriving', Position', ddr'[iCore'.block])
  BY <1>6, <1>7
<1> QED BY <1>4, <1>8 DEF IReads, IArrives

\* What the instruction cache's lines hold stays what is in the memory.
LEMMA FetchFillStep ==
  ASSUME SysInv, SysInv', LinesInv, [Next]_vars, FetchInv, CodeIsNotWritten
  PROVE  IFill' /\ IClean'
<1>1. /\ ICacheOK /\ CachesOK /\ iDirty = {} /\ StoresOnly /\ FetchesOnly
      /\ iCore \in CoreType /\ iCtl \in CtlType(ILine) /\ InService(iCtl)
      /\ iMem \in [ILine -> [D!Word -> Data]] /\ iTag \in [ILine -> Tag \cup {NoTag}]
  BY DEF SysInv, CachesOK, ReadOnly, ICacheOK, CacheOK, FetchInv
<1>2. /\ ddr'[iCore.block] = ddr[iCore.block]
      /\ \A l \in ILine, b \in Block : Holding(ISetOf, iTag, l, b) => ddr'[b] = ddr[b]
  BY CodeKept DEF FetchInv
<1>3. /\ FillOf(iCtl, iOut, iMem, clk = 270, Ends(iOut), ddr[iCore.block])
      /\ CleanOf(ILine, ISetOf, iCtl, {}, Ends(iOut), iTag, iMem, ddr)
  BY DEF FetchInv, IFill, IClean
<1>4. ASSUME UNCHANGED <<iCtl, iOut, iTag, iMem>>, (clk = 270) <=> (clk' = 270),
             iCtl.state # "normal" \/ iCtl.reqFlag => iCore'.block = iCore.block
      PROVE  IFill' /\ IClean'
  <2>1. Ends(iOut) => iCtl.reqFlag
    BY DEF LinesInv, LinesOf
  <2>2. Ends(iOut)' <=> Ends(iOut)
    BY <1>4 DEF Ends
  <2>3. IFill'
    <3>1. CASE iCtl.state # "normal" \/ iCtl.reqFlag
      BY <1>2, <1>3, <1>4, <2>2, <3>1 DEF IFill, FillOf, ShownAt, Filled
    <3>2. CASE ~(iCtl.state # "normal" \/ iCtl.reqFlag)
      <4>1. Filled(iCtl, Ends(iOut)) = 0
        BY <2>1, <3>2 DEF Filled
      <4>2. Filled(iCtl', Ends(iOut)') = 0
        BY <1>4, <2>2, <4>1 DEF Filled
      <4>3. \A w \in D!Word : ~(w < 0)
        BY Constants
      <4> QED BY <4>2, <4>3 DEF IFill, FillOf
    <3> QED BY <3>1, <3>2
  <2>4. IClean'
    BY <1>2, <1>3, <1>4, <2>2 DEF IClean, CleanOf, Intact
  <2> QED BY <2>3, <2>4
<1>5. CASE Edge0
  <2>1. /\ clk = 0 /\ clk' = 90 /\ UNCHANGED <<iCtl, iOut, iTag, iMem>>
        /\ CoreMove(Fetch, iCore, iCore')
    BY <1>5, HartMoves
  <2>2. iCtl.state # "normal" \/ iCtl.reqFlag => iCore'.block = iCore.block
    BY <1>1, <2>1, HartWaits
  <2> QED BY <1>4, <2>1, <2>2
<1>6. CASE Edge180
  <2>1. /\ clk = 180 /\ clk' = 270 /\ UNCHANGED <<iCore, iTag, iMem>> /\ ddr' = ddr
        /\ Cycle(ILine, ISetOf, iCore, iCtl, iTag, iMem, Ready(0, io.ready),
                 Ready(0, Len(tx.fifo) < W), Ready(0, rx # <<>>), FromBuffer,
                 iDirty, iCtl', iDirty', iOut')
    BY <1>6, CacheCycles DEF pathVars
  <2>2. FillOf(iCtl, iOut, iMem, FALSE, FALSE, ddr[iCore.block])
    <3>1. ~(clk = 270) /\ ~Ends(iOut)
      BY <2>1 DEF Ends
    <3>2. /\ \A w \in D!Word : ShownAt(clk = 270, iCtl, iOut, iMem, iCtl.ptr, w)
                             = ShownAt(FALSE, iCtl, iOut, iMem, iCtl.ptr, w)
          /\ Filled(iCtl, Ends(iOut)) = Filled(iCtl, FALSE)
      BY <3>1 DEF ShownAt, Filled
    <3> QED BY <1>3, <3>2 DEF FillOf
  <2>3. iCtl.state = "readBuffer" /\ Ready(0, rx # <<>>)
        => FromBuffer # NoWord /\ FromBuffer = ddr[iCore.block][iCtl.nTransfer]
    <3> SUFFICES ASSUME iCtl.state = "readBuffer", Ready(0, rx # <<>>)
                 PROVE  FromBuffer # NoWord /\ FromBuffer = ddr[iCore.block][iCtl.nTransfer]
      OBVIOUS
    <3>1. rx # <<>>
      BY DEF Ready
    <3>2. SegmentAt(Arriving, Position, ddr[iCore.block])
      BY DEF FetchInv, IArrives, Transferring
    <3> QED BY <2>1, <3>1, <3>2, FromBufferIs
  <2>4. FillOf(iCtl', iOut', iMem, TRUE, iOut'.cam, ddr[iCore.block])
    <3> DEFINE v == ddr[iCore.block]
    <3>1. FillOf(iCtl, iOut, iMem, FALSE, FALSE, v)
      BY <2>2
    <3>2. iCtl.state = "readBuffer" /\ Ready(0, rx # <<>>)
          => FromBuffer # NoWord /\ FromBuffer = v[iCtl.nTransfer]
      BY <2>3
    <3> HIDE DEF v
    <3>3. FillOf(iCtl', iOut', iMem, TRUE, iOut'.cam, v)
      BY <1>1, <2>1, <3>1, <3>2, CycleFills, Zenon
    <3> QED BY <3>3 DEF v
  <2>5. CleanOf(ILine, ISetOf, iCtl, iDirty, FALSE, iTag, iMem, ddr)
    BY <1>1, <1>3, <2>1 DEF CleanOf, Intact, Ends
  <2>6. CleanOf(ILine, ISetOf, iCtl', iDirty', iOut'.cam, iTag, iMem, ddr)
    <3>1. SameInClean(ILine, ISetOf, iDirty, iTag, ddr, ddr)
      BY DEF SameInClean
    <3> QED BY <2>1, <2>5, <3>1, CycleClean, Zenon
  <2>7. iDirty' = {}
    BY DEF SysInv, CachesOK, ReadOnly
  <2>8. IFill'
    <3>1. (clk' = 270) = TRUE /\ Ends(iOut)' = iOut'.cam
      <4>1. iOut'.cam \in BOOLEAN
        BY DEF SysInv, CachesOK, ICacheOK, CacheOK, OutType
      <4> QED BY <2>1, <4>1 DEF Ends
    <3> QED BY <2>1, <2>4, <3>1 DEF IFill, FillOf, ShownAt, Filled
  <2>9. IClean'
    BY <2>1, <2>6, <2>7 DEF IClean, CleanOf, Intact, Ends
  <2> QED BY <2>8, <2>9
<1>7. CASE Edge270
  <2>1. /\ clk = 270 /\ clk' = 0 /\ UNCHANGED <<iCore, iCtl, iDirty, iOut>> /\ ddr' = ddr
        /\ Sampled(iCore, iCtl, iOut, iTag, iMem, iTag', iMem')
    BY <1>7, MemoriesSample
  <2>2. FillOf(iCtl, iOut, iMem, TRUE, iOut.cam, ddr[iCore.block])
    BY <1>3, <2>1 DEF FillOf, ShownAt, Filled, Ends
  <2>3. CleanOf(ILine, ISetOf, iCtl, iDirty, iOut.cam, iTag, iMem, ddr)
    BY <1>1, <1>3, <2>1 DEF CleanOf, Intact, Ends
  <2>4. LinesOf(ISetOf, iCore, iCtl, iOut, TRUE, iOut.cam)
    BY <2>1 DEF LinesInv, LinesOf, Ends, Replaces
  <2>5. iOut.wr # NoWord /\ ~iOut.ack => iCtl.cacheAdd[1] \in iDirty
    BY <2>1 DEF LinesInv
  <2>6. CleanOf(ILine, ISetOf, iCtl, iDirty, FALSE, iTag', iMem', ddr)
    BY <1>1, <2>1, <2>2, <2>3, <2>4, <2>5, SampleClean, Zenon
  <2>7. ShownIn(ILine, iCtl, iOut, iMem, iMem')
    BY <1>1, <2>1, SampledShown, Zenon
  <2>8. IFill'
    <3>1. iCtl.ptr \in ILine
      BY <1>1 DEF CtlType
    <3>2. \A w \in D!Word : iMem'[iCtl.ptr][w] = ShownAt(TRUE, iCtl, iOut, iMem, iCtl.ptr, w)
      BY <2>7, <3>1 DEF ShownIn
    <3>3. \A w \in D!Word : w < Filled(iCtl, FALSE) => w < Filled(iCtl, iOut.cam)
      BY Constants DEF Filled
    <3> QED BY <2>1, <2>2, <3>2, <3>3 DEF IFill, FillOf, ShownAt, Ends, Filled
  <2>9. IClean'
    BY <1>1, <2>1, <2>6 DEF IClean, CleanOf, Intact, Ends
  <2> QED BY <2>8, <2>9
<1>8. CASE Edge90 \/ Ddr \/ UNCHANGED vars
  <2>1. /\ UNCHANGED <<iCore, iCtl, iDirty, iOut, iTag, iMem>>
        /\ clk' = clk \/ (clk = 90 /\ clk' = 180)
    BY <1>8, OtherSteps
  <2> QED BY <1>4, <2>1
<1> QED BY <1>5, <1>6, <1>7, <1>8 DEF Next, Edge

\* FetchInv is inductive, given SysInv and LinesInv.
LEMMA FetchStep ==
  ASSUME SysInv, SysInv', LinesInv, FetchInv, CodeIsNotWritten, [Next]_vars
  PROVE  FetchInv'
BY StoresStep, FetchesStep, FetchArrivesStep, FetchFillStep DEF FetchInv

-----------------------------------------------------------------------------
(* The port of a cache: the access in service and the word that it left.     *)

\* PortAccess and PortResult of InternalSystem, with the edges that matter as
\* parameters: the hart has asked and the cache has not seen it (t), a strobe
\* is about to be sampled (s).
AccessAt(t, core, c) ==
  IF c.reqFlag \/ (core.req /\ t)
  THEN [rw |-> IF c.reqFlag THEN c.rwFlag ELSE core.rw,
        block |-> core.block, word |-> core.word, data |-> core.data]
  ELSE NoAccess

ResultAt(t, s, core, c, o, mem) ==
  IF c.reqFlag \/ (core.req /\ t) THEN NoWord
  ELSE ShownAt(s, c, o, mem, c.cacheAdd[1], c.cacheAdd[2])

Asking == clk \in {90, 180}

\* The refinement mapping's access and result, in these terms.
LEMMA PortsAre ==
  /\ PortAccess(iCore, iCtl) = AccessAt(Asking, iCore, iCtl)
  /\ PortAccess(dCore, dCtl) = AccessAt(Asking, dCore, dCtl)
  /\ PortResult(iCore, iCtl, iOut, iMem) = ResultAt(Asking, clk = 270, iCore, iCtl, iOut, iMem)
  /\ PortResult(dCore, dCtl, dOut, dMem) = ResultAt(Asking, clk = 270, dCore, dCtl, dOut, dMem)
<1>1. \A core, c : Pending(core, c) <=> c.reqFlag \/ (core.req /\ Asking)
  BY DEF Pending, Asking
<1>2. \A core, c : PortAccess(core, c) = AccessAt(Asking, core, c)
  BY <1>1 DEF PortAccess, AccessAt
<1>3. \A c, o, mem : ShownAt(clk = 270, c, o, mem, c.cacheAdd[1], c.cacheAdd[2])
                     = Shown(c, o, mem, c.cacheAdd[1], c.cacheAdd[2])
  BY DEF Shown, ShownAt
<1>4. \A core, c, o, mem :
        PortResult(core, c, o, mem) = ResultAt(Asking, clk = 270, core, c, o, mem)
  BY <1>1, <1>3 DEF PortResult, ResultAt
<1> QED BY <1>2, <1>4

\* Three steps of the port, from core, c, o and mem to core2, c2, o2 and mem2:
\* nothing, the hart asks for one of Refs, and the line l serves the access.
PortSame(t, s, core, c, o, mem, t2, s2, core2, c2, o2, mem2) ==
  /\ AccessAt(t2, core2, c2) = AccessAt(t, core, c)
  /\ ResultAt(t2, s2, core2, c2, o2, mem2) = ResultAt(t, s, core, c, o, mem)

PortAsked(Refs, core, core2, c, o, mem) ==
  \E a \in Refs :
    /\ AccessAt(FALSE, core, c) = NoAccess
    /\ AccessAt(TRUE, core2, c) = a
    /\ ResultAt(TRUE, FALSE, core2, c, o, mem) = NoWord

PortServed(core, c, mem, l, c2, o2) ==
  /\ AccessAt(TRUE, core, c) = [rw |-> StoreOf(core, c), block |-> core.block,
                                word |-> core.word, data |-> core.data]
  /\ AccessAt(FALSE, core, c2) = NoAccess
  /\ ResultAt(FALSE, TRUE, core, c2, o2, mem)
     = IF StoreOf(core, c) THEN core.data ELSE mem[l][core.word]

\* The hart withdraws a request that the cache has seen, or asks.
LEMMA PortHart ==
  ASSUME NEW Refs, Refs \subseteq D!Access, NEW core, NEW c, NEW core2, NEW o, NEW mem,
         CoreMove(Refs, core, core2), iCtl.done /\ dCtl.done => ~c.reqFlag
  PROVE  \/ PortSame(FALSE, FALSE, core, c, o, mem, TRUE, FALSE, core2, c, o, mem)
         \/ PortAsked(Refs, core, core2, c, o, mem)
<1>1. CASE /\ ~core2.req /\ ~core2.rw /\ core2.block = core.block
           /\ core2.word = core.word /\ core2.data = core.data
  <2>1. AccessAt(TRUE, core2, c) = AccessAt(FALSE, core, c)
    BY <1>1 DEF AccessAt
  <2>2. ResultAt(TRUE, FALSE, core2, c, o, mem) = ResultAt(FALSE, FALSE, core, c, o, mem)
    BY <1>1 DEF ResultAt
  <2> QED BY <2>1, <2>2 DEF PortSame
<1>2. CASE /\ iCtl.done /\ dCtl.done
           /\ \E a \in Refs : core2 = [req |-> TRUE, rw |-> a.rw, block |-> a.block,
                                       word |-> a.word, data |-> a.data]
  <2>1. PICK a \in Refs : core2 = [req |-> TRUE, rw |-> a.rw, block |-> a.block,
                                   word |-> a.word, data |-> a.data]
    BY <1>2
  <2>2. ~c.reqFlag
    BY <1>2
  <2>3. a = [rw |-> a.rw, block |-> a.block, word |-> a.word, data |-> a.data]
    BY DEF D!Access
  <2>4. /\ core2.req = TRUE /\ core2.rw = a.rw /\ core2.block = a.block
        /\ core2.word = a.word /\ core2.data = a.data
    BY <2>1
  <2>5. AccessAt(TRUE, core2, c) = a
    BY <2>2, <2>3, <2>4 DEF AccessAt
  <2>6. AccessAt(FALSE, core, c) = NoAccess
    BY <2>2 DEF AccessAt
  <2>7. ResultAt(TRUE, FALSE, core2, c, o, mem) = NoWord
    BY <2>4 DEF ResultAt
  <2> QED BY <2>5, <2>6, <2>7 DEF PortAsked
<1> QED BY <1>1, <1>2 DEF CoreMove

\* A hit serves the access: the word is on the port, or about to be written.
LEMMA PortServes ==
  ASSUME NEW L, NEW core \in CoreType, NEW c, NEW tagMem, NEW mem, NEW mready,
         NEW dirty, NEW c2, NEW dirty2, NEW o2, NEW l \in L,
         HitCycle(core, c, mready, l, dirty, c2, dirty2, o2)
  PROVE  PortServed(core, c, mem, l, c2, o2)
<1>1. core.data \in Data
  BY DEF CoreType
<1>2. core.data # NoWord
  BY <1>1, Constants
<1>3. AccessAt(TRUE, core, c) = [rw |-> StoreOf(core, c), block |-> core.block,
                                 word |-> core.word, data |-> core.data]
  BY DEF HitCycle, Active, AccessAt, StoreOf
<1>4. ~c2.reqFlag /\ c2.cacheAdd = <<l, core.word>>
      /\ o2.wr = IF StoreOf(core, c) THEN core.data ELSE NoWord
  BY DEF HitCycle
<1>5. c2.cacheAdd[1] = l /\ c2.cacheAdd[2] = core.word
  BY <1>4
<1>6. AccessAt(FALSE, core, c2) = NoAccess
  BY <1>4 DEF AccessAt
<1>7. ResultAt(FALSE, TRUE, core, c2, o2, mem) = ShownAt(TRUE, c2, o2, mem, l, core.word)
  BY <1>4, <1>5 DEF ResultAt
<1>8. ShownAt(TRUE, c2, o2, mem, l, core.word)
      = IF StoreOf(core, c) THEN core.data ELSE mem[l][core.word]
  BY <1>2, <1>4 DEF ShownAt
<1> QED BY <1>3, <1>6, <1>7, <1>8 DEF PortServed

\* Every other cycle leaves the port alone.
LEMMA PortStays ==
  ASSUME NEW L, NEW SetOf, NEW core, NEW c, InService(c), NEW o,
         NEW tagMem, NEW mem, NEW mready, NEW wready, NEW rready, NEW d,
         NEW dirty, NEW c2, NEW dirty2, NEW o2,
         Cycle(L, SetOf, core, c, tagMem, mem, mready, wready, rready, d, dirty, c2, dirty2, o2),
         \A l \in L : ~HitCycle(core, c, mready, l, dirty, c2, dirty2, o2),
         \/ ~c.reqFlag \/ c.state # "normal" \/ c.rwFlag = core.rw
         \/ \E l \in L : Holding(SetOf, tagMem, l, core.block)
  PROVE  PortSame(TRUE, FALSE, core, c, o, mem, FALSE, TRUE, core, c2, o2, mem)
<1> DEFINE Same == /\ AccessAt(FALSE, core, c2) = AccessAt(TRUE, core, c)
                   /\ ResultAt(FALSE, TRUE, core, c2, o2, mem) = ResultAt(TRUE, FALSE, core, c, o, mem)
<1> SUFFICES Same
  BY DEF PortSame
<1>1. ASSUME c.reqFlag, SameReference(c, c2)
      PROVE  Same
  <2>1. c2.reqFlag /\ c2.rwFlag = c.rwFlag
    BY <1>1 DEF SameReference
  <2>2. AccessAt(FALSE, core, c2) = AccessAt(TRUE, core, c)
    BY <1>1, <2>1 DEF AccessAt
  <2>3. ResultAt(FALSE, TRUE, core, c2, o2, mem) = ResultAt(TRUE, FALSE, core, c, o, mem)
    BY <1>1, <2>1 DEF ResultAt
  <2> QED BY <2>2, <2>3
<1>2. c.state # "normal" => c.reqFlag
  BY DEF InService
<1>3. CASE /\ \A l \in L : ~Holding(SetOf, tagMem, l, core.block)
           /\ MissCycle(core, c, mready, dirty, c2, dirty2, o2)
  <2>1. /\ c.state = "normal" /\ (core.req \/ c.reqFlag)
        /\ c2.reqFlag /\ c2.rwFlag = core.rw
    BY <1>3 DEF MissCycle, Active
  <2>2. c.reqFlag => c.rwFlag = core.rw
    BY <1>3, <2>1
  <2>3. AccessAt(FALSE, core, c2) = AccessAt(TRUE, core, c)
    BY <2>1, <2>2 DEF AccessAt
  <2>4. ResultAt(FALSE, TRUE, core, c2, o2, mem) = ResultAt(TRUE, FALSE, core, c, o, mem)
    BY <2>1 DEF ResultAt
  <2> QED BY <2>3, <2>4
<1>4. CASE RequestCycle(core, c, mready, dirty, c2, dirty2, o2)
  BY <1>1, <1>2, <1>4 DEF RequestCycle
<1>5. CASE \E v \in L : ReplaceCycle(c, mready, v, dirty, c2, dirty2, o2)
  BY <1>1, <1>2, <1>5 DEF ReplaceCycle
<1>6. CASE PushCycle(core, c, mready, wready, tagMem, mem, dirty, c2, dirty2, o2)
  BY <1>1, <1>2, <1>6 DEF PushCycle
<1>7. CASE FillCycle(c, mready, rready, d, dirty, c2, dirty2, o2)
  BY <1>1, <1>2, <1>7 DEF FillCycle
<1>8. CASE WaitCycle(core, c, mready, dirty, c2, dirty2, o2)
  <2>1. SameReference(c, c2) /\ c2.cacheAdd = c.cacheAdd /\ o2.wr = NoWord
    BY <1>8 DEF WaitCycle, Still
  <2>2. CASE c.reqFlag
    BY <1>1, <2>1, <2>2
  <2>3. CASE ~c.reqFlag
    <3>1. ~core.req /\ ~c2.reqFlag
      BY <1>2, <1>8, <2>1, <2>3 DEF WaitCycle, Active, SameReference
    <3>2. AccessAt(FALSE, core, c2) = AccessAt(TRUE, core, c)
      BY <2>3, <3>1 DEF AccessAt
    <3>3. ResultAt(FALSE, TRUE, core, c2, o2, mem) = ResultAt(TRUE, FALSE, core, c, o, mem)
      BY <2>1, <2>3, <3>1 DEF ResultAt, ShownAt
    <3> QED BY <3>2, <3>3
  <2> QED BY <2>2, <2>3
<1> HIDE DEF Same
<1> QED BY <1>3, <1>4, <1>5, <1>6, <1>7, <1>8 DEF Cycle

\* The memories take what the strobes show.
LEMMA PortSamples ==
  ASSUME NEW L, NEW core, NEW c \in CtlType(L), NEW o, NEW mem, NEW mem2,
         ShownIn(L, c, o, mem, mem2)
  PROVE  PortSame(FALSE, TRUE, core, c, o, mem, FALSE, FALSE, core, c, o, mem2)
<1>1. c.cacheAdd[1] \in L /\ c.cacheAdd[2] \in D!Word
  BY DEF CtlType
<1>2. ShownAt(FALSE, c, o, mem2, c.cacheAdd[1], c.cacheAdd[2])
      = ShownAt(TRUE, c, o, mem, c.cacheAdd[1], c.cacheAdd[2])
  <2>1. mem2[c.cacheAdd[1]][c.cacheAdd[2]] = ShownAt(TRUE, c, o, mem, c.cacheAdd[1], c.cacheAdd[2])
    BY <1>1 DEF ShownIn
  <2> QED BY <2>1 DEF ShownAt
<1> QED BY <1>2 DEF ResultAt, PortSame

-----------------------------------------------------------------------------
(* The instruction cache implements MemoryPort.                              *)

\* Out of reset, no line holds a block.
LEMMA LinesInit == Init => LinesInv
<1> SUFFICES ASSUME Init PROVE LinesInv
  OBVIOUS
<1>1. /\ clk = 90 /\ iOut = D!Quiet /\ dOut = D!Quiet
      /\ iCtl.state = "normal" /\ dCtl.state = "normal" /\ ~dCtl.reqFlag
      /\ dTag = [l \in DLine |-> NoTag]
  BY DEF Init, I!CacheInit, D!CacheInit, I!Quiet, D!Quiet
<1>2. ~Ends(iOut) /\ ~Ends(dOut)
  BY <1>1 DEF Ends
<1>3. \A l \in DLine, b \in Block : ~Holding(DSetOf, dTag, l, b)
  <2> SUFFICES ASSUME NEW l \in DLine, NEW b \in Block PROVE dTag[l] # b[1]
    BY DEF Holding
  <2>1. b[1] \in Tag
    BY DEF Block, D!Block
  <2> QED BY <1>1, <2>1, SystemAssumption DEF D!CacheAssumption
<1>4. DataLines
  BY <1>1, <1>2, <1>3 DEF DataLines
<1>5. LinesOf(ISetOf, iCore, iCtl, iOut, clk = 270, Ends(iOut))
  BY <1>1, <1>2 DEF LinesOf, Replaces
<1>6. LinesOf(DSetOf, dCore, dCtl, dOut, clk = 270, Ends(dOut))
  BY <1>1, <1>2 DEF LinesOf, Replaces
<1> QED BY <1>1, <1>4, <1>5, <1>6 DEF LinesInv

\* FetchInv holds out of reset.
LEMMA FetchInit == Init => FetchInv
<1> SUFFICES ASSUME Init PROVE FetchInv
  OBVIOUS
<1>1. /\ clk = 90 /\ iOut = D!Quiet /\ dOut = D!Quiet /\ dDirty = {}
      /\ iCtl.state = "normal" /\ ~iCtl.reqFlag /\ dCtl.state = "normal"
      /\ ~dCtl.reqFlag /\ ~dCtl.writebackFlag /\ ~dCore.rw
      /\ iTag = [l \in ILine |-> NoTag]
      /\ ~bus.req /\ io.state = "idle"
  BY DEF Init, I!CacheInit, D!CacheInit, I!Quiet, D!Quiet, P!PathInit
<1>2. iCore.block \in FetchBlock
  BY DEF Init, I!CacheInit, FetchBlock
<1>3. \A l \in ILine, b \in Block : ~Holding(ISetOf, iTag, l, b)
  <2> SUFFICES ASSUME NEW l \in ILine, NEW b \in Block PROVE iTag[l] # b[1]
    BY DEF Holding
  <2>1. b[1] \in Tag
    BY DEF Block, D!Block
  <2> QED BY <1>1, <2>1, SystemAssumption DEF D!CacheAssumption
<1>4. ~Ends(iOut) /\ ~Ends(dOut) /\ ~Transferring(iCtl)
  BY <1>1 DEF Ends, Transferring
<1>5. StoresOnly
  BY <1>1, <1>4 DEF StoresOnly
<1>6. FetchesOnly
  BY <1>1, <1>2 DEF FetchesOnly
<1>7. IReads /\ IArrives
  BY <1>4 DEF IReads, ReadsOf, IArrives
<1>8. IFill
  <2>1. Filled(iCtl, Ends(iOut)) = 0
    BY <1>1, <1>4 DEF Filled
  <2>2. \A w \in D!Word : ~(w < 0)
    BY Constants
  <2> QED BY <2>1, <2>2 DEF IFill, FillOf
<1>9. IClean
  BY <1>3 DEF IClean, CleanOf
<1> QED BY <1>5, <1>6, <1>7, <1>8, <1>9 DEF FetchInv

\* What the step of the port is, in these terms.
FetchMemory == [b \in FetchBlock |-> ddr[b]]

FetchAsked ==
  \E a \in Fetch :
    /\ PortAccess(iCore, iCtl) = NoAccess
    /\ PortAccess(iCore, iCtl)' = a
    /\ PortResult(iCore, iCtl, iOut, iMem)' = NoWord
    /\ FetchMemory' = FetchMemory

FetchServed ==
  \E b \in FetchBlock, w \in D!Word, d \in Data :
    /\ PortAccess(iCore, iCtl) = [rw |-> FALSE, block |-> b, word |-> w, data |-> d]
    /\ PortAccess(iCore, iCtl)' = NoAccess
    /\ PortResult(iCore, iCtl, iOut, iMem)' = FetchMemory[b][w]
    /\ FetchMemory' = FetchMemory

FetchQuiet ==
  /\ PortAccess(iCore, iCtl)' = PortAccess(iCore, iCtl)
  /\ PortResult(iCore, iCtl, iOut, iMem)' = PortResult(iCore, iCtl, iOut, iMem)
  /\ FetchMemory' = FetchMemory

\* The blocks that the hart fetches are blocks.
LEMMA FetchBlocks == FetchBlock \subseteq Block
<1> SUFFICES ASSUME NEW a \in Fetch PROVE a.block \in Block
  BY DEF FetchBlock
<1>1. a \in [rw : BOOLEAN, block : I!Block, word : I!Word, data : Data]
  BY SystemAssumption, Zenon DEF I!CacheAssumption, I!Access
<1> QED BY <1>1, Constants

\* The three are steps of MemoryPort, or stutter.
LEMMA FetchSteps ==
  ASSUME FetchAsked \/ FetchServed \/ FetchQuiet
  PROVE  IPort!Next \/ UNCHANGED IPort!vars
<1>1. CASE FetchAsked
  BY <1>1 DEF FetchAsked, FetchMemory, FetchBlock, IPort!Next, IPort!Ask
<1>2. CASE FetchServed
  <2>1. PICK b \in FetchBlock, w \in D!Word, d \in Data :
          /\ PortAccess(iCore, iCtl) = [rw |-> FALSE, block |-> b, word |-> w, data |-> d]
          /\ PortAccess(iCore, iCtl)' = NoAccess
          /\ PortResult(iCore, iCtl, iOut, iMem)' = FetchMemory[b][w]
          /\ FetchMemory' = FetchMemory
    BY <1>2 DEF FetchServed
  <2>2. PortAccess(iCore, iCtl) # NoAccess
    <3>1. b \in D!Block
      BY FetchBlocks DEF Block
    <3>2. [rw |-> FALSE, block |-> b, word |-> w, data |-> d] \in D!Access
      BY <3>1 DEF D!Access
    <3> QED BY <2>1, <3>2, SystemAssumption
  <2> QED BY <2>1, <2>2 DEF FetchMemory, FetchBlock, IPort!Next, IPort!Serve
<1>3. CASE FetchQuiet
  BY <1>3 DEF FetchQuiet, FetchMemory, FetchBlock, IPort!vars
<1> QED BY <1>1, <1>2, <1>3

\* The code stays what it is.
LEMMA FetchMemoryKept ==
  ASSUME SysInv, FetchInv, CodeIsNotWritten, [Next]_vars
  PROVE  FetchMemory' = FetchMemory
<1>1. \A b \in FetchBlock : b \in Block /\ b \notin StoreBlock
  BY FetchBlocks DEF CodeIsNotWritten
<1>2. \A b \in FetchBlock : ddr'[b] = ddr[b]
  BY <1>1, OthersKept DEF FetchInv
<1> QED BY <1>2 DEF FetchMemory

\* PortsAre, before and after a step.
LEMMA InstPort ==
  /\ PortAccess(iCore, iCtl) = AccessAt(Asking, iCore, iCtl)
  /\ PortResult(iCore, iCtl, iOut, iMem) = ResultAt(Asking, clk = 270, iCore, iCtl, iOut, iMem)
  /\ PortAccess(iCore, iCtl)' = AccessAt(Asking', iCore', iCtl')
  /\ PortResult(iCore, iCtl, iOut, iMem)'
     = ResultAt(Asking', clk' = 270, iCore', iCtl', iOut', iMem')
<1>1. /\ PortAccess(iCore, iCtl) = AccessAt(Asking, iCore, iCtl)
      /\ PortResult(iCore, iCtl, iOut, iMem) = ResultAt(Asking, clk = 270, iCore, iCtl, iOut, iMem)
  BY PortsAre
<1>2. (/\ PortAccess(iCore, iCtl) = AccessAt(Asking, iCore, iCtl)
       /\ PortResult(iCore, iCtl, iOut, iMem)
          = ResultAt(Asking, clk = 270, iCore, iCtl, iOut, iMem))'
  BY <1>1, PTL
<1> QED BY <1>1, <1>2

\* A hit is of a line that holds the block.
LEMMA HitsHold ==
  ASSUME NEW L, NEW SetOf, NEW core, NEW c,
         NEW tagMem, NEW mem, NEW mready, NEW wready, NEW rready, NEW d,
         NEW dirty, NEW c2, NEW dirty2, NEW o2,
         Cycle(L, SetOf, core, c, tagMem, mem, mready, wready, rready, d, dirty, c2, dirty2, o2)
  PROVE  \/ \A l \in L : ~HitCycle(core, c, mready, l, dirty, c2, dirty2, o2)
         \/ \E l \in L : /\ Holding(SetOf, tagMem, l, core.block)
                         /\ HitCycle(core, c, mready, l, dirty, c2, dirty2, o2)
BY Zenon DEF Cycle, HitCycle, MissCycle, RequestCycle, ReplaceCycle, PushCycle, FillCycle, WaitCycle

\* 0 degrees: the hart asks for a fetch, or not.
LEMMA FetchAsks ==
  ASSUME SysInv, FetchInv, CodeIsNotWritten, Edge0
  PROVE  FetchAsked \/ FetchQuiet
<1>1. /\ clk = 0 /\ clk' = 90 /\ UNCHANGED <<iCtl, iOut, iMem>>
      /\ CoreMove(Fetch, iCore, iCore')
  BY HartMoves
<1>2. Fetch \subseteq D!Access
  <2>1. Fetch \subseteq I!Access
    BY SystemAssumption DEF I!CacheAssumption
  <2>2. I!Access = D!Access
    BY Constants DEF I!Access, D!Access, Block
  <2> QED BY <2>1, <2>2
<1>3. iCtl.done => ~iCtl.reqFlag
  BY DEF SysInv, CachesOK, ICacheOK, CacheOK, InService
<1>4. FetchMemory' = FetchMemory
  BY <1>1, FetchMemoryKept DEF Next, Edge
<1>5. /\ PortAccess(iCore, iCtl) = AccessAt(FALSE, iCore, iCtl)
      /\ PortResult(iCore, iCtl, iOut, iMem) = ResultAt(FALSE, FALSE, iCore, iCtl, iOut, iMem)
      /\ PortAccess(iCore, iCtl)' = AccessAt(TRUE, iCore', iCtl)
      /\ PortResult(iCore, iCtl, iOut, iMem)' = ResultAt(TRUE, FALSE, iCore', iCtl, iOut, iMem)
  <2>1. /\ Asking = FALSE /\ (clk = 270) = FALSE /\ Asking' = TRUE /\ (clk' = 270) = FALSE
    BY <1>1 DEF Asking
  <2> QED BY <1>1, <2>1, InstPort
<1>6. \/ PortSame(FALSE, FALSE, iCore, iCtl, iOut, iMem, TRUE, FALSE, iCore', iCtl, iOut, iMem)
      \/ PortAsked(Fetch, iCore, iCore', iCtl, iOut, iMem)
  BY <1>1, <1>2, <1>3, PortHart, Zenon
<1> QED BY <1>4, <1>5, <1>6 DEF FetchAsked, FetchQuiet, PortSame, PortAsked

\* 180 degrees: a hit serves the fetch, any other cycle leaves the port alone.
LEMMA FetchServes ==
  ASSUME SysInv, SysInv', FetchInv, CodeIsNotWritten, Edge180
  PROVE  FetchServed \/ FetchQuiet
<1>1. /\ clk = 180 /\ clk' = 270 /\ UNCHANGED <<iCore, iTag, iMem>> /\ ddr' = ddr
      /\ Cycle(ILine, ISetOf, iCore, iCtl, iTag, iMem, Ready(0, io.ready),
               Ready(0, Len(tx.fifo) < W), Ready(0, rx # <<>>), FromBuffer,
               iDirty, iCtl', iDirty', iOut')
  BY CacheCycles DEF pathVars
<1>2. /\ iCore \in CoreType /\ iCtl \in CtlType(ILine) /\ InService(iCtl)
      /\ ~iCore.rw /\ ~iCtl.rwFlag
  BY DEF SysInv, CachesOK, ReadOnly, ICacheOK, CacheOK
<1>3. FetchMemory' = FetchMemory
  BY <1>1 DEF FetchMemory
<1>4. /\ PortAccess(iCore, iCtl) = AccessAt(TRUE, iCore, iCtl)
      /\ PortResult(iCore, iCtl, iOut, iMem) = ResultAt(TRUE, FALSE, iCore, iCtl, iOut, iMem)
      /\ PortAccess(iCore, iCtl)' = AccessAt(FALSE, iCore, iCtl')
      /\ PortResult(iCore, iCtl, iOut, iMem)' = ResultAt(FALSE, TRUE, iCore, iCtl', iOut', iMem)
  <2>1. /\ Asking = TRUE /\ (clk = 270) = FALSE /\ Asking' = FALSE /\ (clk' = 270) = TRUE
    BY <1>1 DEF Asking
  <2> QED BY <1>1, <2>1, InstPort
<1>5. CASE \A l \in ILine :
             ~HitCycle(iCore, iCtl, Ready(0, io.ready), l, iDirty, iCtl', iDirty', iOut')
  <2>1. iCtl.rwFlag = iCore.rw
    BY <1>2 DEF CoreType, CtlType
  <2>2. PortSame(TRUE, FALSE, iCore, iCtl, iOut, iMem, FALSE, TRUE, iCore, iCtl', iOut', iMem)
    BY <1>1, <1>2, <1>5, <2>1, PortStays, Zenon
  <2> QED BY <1>3, <1>4, <2>2 DEF FetchQuiet, PortSame
<1>6. ASSUME NEW l \in ILine, Holding(ISetOf, iTag, l, iCore.block),
             HitCycle(iCore, iCtl, Ready(0, io.ready), l, iDirty, iCtl', iDirty', iOut')
      PROVE  FetchServed
  <2>1. PortServed(iCore, iCtl, iMem, l, iCtl', iOut')
    BY <1>2, <1>6, PortServes, Zenon
  <2>2. StoreOf(iCore, iCtl) = FALSE
    <3>1. iCore.rw \in BOOLEAN /\ iCtl.rwFlag \in BOOLEAN
      BY <1>2 DEF CoreType, CtlType
    <3> QED BY <1>2, <3>1 DEF StoreOf
  <2>3. iCore.block \in FetchBlock /\ iCore.block \in Block
        /\ iCore.word \in D!Word /\ iCore.data \in Data
    BY <1>2 DEF FetchInv, FetchesOnly, CoreType
  <2>4. iMem[l][iCore.word] = ddr[iCore.block][iCore.word]
    <3>1. iCtl.state = "normal"
      BY <1>6 DEF HitCycle
    <3>2. Intact(iCtl, Ends(iOut), l)
      BY <1>1, <3>1 DEF Intact, Ends
    <3> QED BY <1>6, <2>3, <3>2 DEF FetchInv, IClean, CleanOf
  <2>5. FetchMemory[iCore.block][iCore.word] = iMem[l][iCore.word]
    BY <2>3, <2>4 DEF FetchMemory
  <2> QED BY <1>3, <1>4, <2>1, <2>2, <2>3, <2>5 DEF FetchServed, PortServed
<1>7. (\A l \in ILine :
         ~HitCycle(iCore, iCtl, Ready(0, io.ready), l, iDirty, iCtl', iDirty', iOut'))
      \/ \E l \in ILine :
           /\ Holding(ISetOf, iTag, l, iCore.block)
           /\ HitCycle(iCore, iCtl, Ready(0, io.ready), l, iDirty, iCtl', iDirty', iOut')
  BY <1>1, HitsHold, Zenon
<1> QED BY <1>5, <1>6, <1>7

\* Every step of the system is a step of a memory, seen at the instruction port.
LEMMA FetchPortStep ==
  ASSUME SysInv, SysInv', FetchInv, CodeIsNotWritten, [Next]_vars
  PROVE  IPort!Next \/ UNCHANGED IPort!vars
<1>1. CASE Edge0
  BY <1>1, FetchAsks, FetchSteps
<1>2. CASE Edge180
  BY <1>2, FetchServes, FetchSteps
<1>3. CASE Edge270
  <2>1. /\ clk = 270 /\ clk' = 0 /\ UNCHANGED <<iCore, iCtl, iDirty, iOut>> /\ ddr' = ddr
        /\ Sampled(iCore, iCtl, iOut, iTag, iMem, iTag', iMem')
    BY <1>3, MemoriesSample
  <2>2. iCtl \in CtlType(ILine) /\ iMem \in [ILine -> [D!Word -> Data]]
    BY DEF SysInv, CachesOK, ICacheOK, CacheOK
  <2>3. ShownIn(ILine, iCtl, iOut, iMem, iMem')
    BY <2>1, <2>2, SampledShown, Zenon
  <2>4. PortSame(FALSE, TRUE, iCore, iCtl, iOut, iMem, FALSE, FALSE, iCore, iCtl, iOut, iMem')
    BY <2>2, <2>3, PortSamples, Zenon
  <2>5. /\ PortAccess(iCore, iCtl) = AccessAt(FALSE, iCore, iCtl)
        /\ PortResult(iCore, iCtl, iOut, iMem) = ResultAt(FALSE, TRUE, iCore, iCtl, iOut, iMem)
        /\ PortAccess(iCore, iCtl)' = AccessAt(FALSE, iCore, iCtl)
        /\ PortResult(iCore, iCtl, iOut, iMem)' = ResultAt(FALSE, FALSE, iCore, iCtl, iOut, iMem')
    <3>1. /\ Asking = FALSE /\ (clk = 270) = TRUE /\ Asking' = FALSE /\ (clk' = 270) = FALSE
      BY <2>1 DEF Asking
    <3> QED BY <2>1, <3>1, InstPort
  <2>6. FetchQuiet
    BY <2>1, <2>4, <2>5 DEF FetchQuiet, FetchMemory, PortSame
  <2> QED BY <2>6, FetchSteps
<1>4. CASE Edge90 \/ Ddr \/ UNCHANGED vars
  <2>1. /\ UNCHANGED <<iCore, iCtl, iDirty, iOut, iTag, iMem>> /\ ddr' = ddr
        /\ clk' = clk \/ (clk = 90 /\ clk' = 180)
    BY <1>4, OtherSteps
  <2>2. Asking' = Asking /\ (clk' = 270) = (clk = 270)
    BY <2>1 DEF Asking
  <2>3. FetchQuiet
    BY <2>1, <2>2, InstPort DEF FetchQuiet, FetchMemory
  <2> QED BY <2>3, FetchSteps
<1> QED BY <1>1, <1>2, <1>3, <1>4 DEF Next, Edge

\* The hart leaves reset with a fetch.
LEMMA FetchPortInit == Init => IPort!Init
<1> SUFFICES ASSUME Init PROVE IPort!Init
  OBVIOUS
<1>1. PICK a \in Fetch :
        iCore = [req |-> TRUE, rw |-> FALSE, block |-> a.block,
                 word |-> a.word, data |-> a.data]
  BY Zenon DEF Init, I!CacheInit
<1>2. clk = 90 /\ ~iCtl.reqFlag
  BY DEF Init, I!CacheInit
<1>3. PortAccess(iCore, iCtl) = [rw |-> FALSE, block |-> a.block, word |-> a.word, data |-> a.data]
  BY <1>1, <1>2 DEF PortAccess, Pending
<1>4. a \in [rw : BOOLEAN, block : I!Block, word : I!Word, data : Data] /\ ~a.rw
  BY SystemAssumption, Zenon DEF I!CacheAssumption, I!Access
<1>5. a = [rw |-> FALSE, block |-> a.block, word |-> a.word, data |-> a.data]
  BY <1>4
<1> QED BY <1>3, <1>5 DEF IPort!Init

\* Fetches see the memory: when the hart stores into no block that it fetches,
\* the instruction port is that of a memory that serves one fetch at a time.
\* Whatever the two caches do to each other at the arbiter, in the buffer and at
\* the DDR3 controller, no fetch returns a word of another block, of the other
\* cache's read, or of a line that is still being filled.  Without the hypothesis
\* it is not so, and is not meant to be: nothing in the hardware tells the
\* instruction cache of a store.
THEOREM FetchPort == CodeIsNotWritten => (Spec => FetchPortIsMemory)
<1> SUFFICES ASSUME CodeIsNotWritten PROVE Spec => FetchPortIsMemory
  OBVIOUS
<1>1. Init => SysInv /\ LinesInv /\ FetchInv
  BY SysInit, LinesInit, FetchInit
<1>2. SysInv /\ LinesInv /\ FetchInv /\ [Next]_vars => (SysInv /\ LinesInv /\ FetchInv)'
  BY SysStep, LinesStep, FetchStep
<1>3. Init => IPort!Init
  BY FetchPortInit
<1>4. SysInv /\ SysInv' /\ FetchInv /\ [Next]_vars => IPort!Next \/ UNCHANGED IPort!vars
  BY FetchPortStep
<1> QED BY <1>1, <1>2, <1>3, <1>4, PTL DEF Spec, FetchPortIsMemory, IPort!Safe

-----------------------------------------------------------------------------
(* The words of a write-back on their way to the memory.                     *)

UnderwayOK ==
  /\ Underway \in Seq(Data) /\ io.rx \in Seq(Data) /\ OnBus \in Seq(Data)
  /\ tx.fifo \in Seq(Data) /\ Pushed(dOut) \in Seq(Data)
  /\ Len(Underway) = Len(io.rx) + At(0, Taken) + Len(tx.fifo) + At(270, Pushes(dOut))

\* The words underway are words, as many as are in the four places.
LEMMA UnderwayType == SysInv => UnderwayOK
<1> SUFFICES ASSUME SysInv PROVE UnderwayOK
  OBVIOUS
<1>1. /\ io.rx \in Seq(Data) /\ tx.fifo \in Seq(Data)
      /\ clk = 0 /\ P!WordOnBus => bus.data \in Data
      /\ dOut.push \in Data \cup {NoWord}
  BY DEF SysInv, PathTypeOK, IoType, CachesOK, DCacheOK, CacheOK, OutType
<1>2. OnBus \in Seq(Data) /\ Len(OnBus) = At(0, Taken)
  BY <1>1 DEF OnBus, At, Taken
<1>3. Pushed(dOut) \in Seq(Data) /\ Len(Pushed(dOut)) = At(270, Pushes(dOut))
  BY <1>1 DEF Pushed, At, Pushes
<1>4. \A r, s, t, u \in Seq(Data) : /\ r \o s \o t \o u \in Seq(Data)
                                    /\ Len(r \o s \o t \o u) = Len(r) + Len(s) + Len(t) + Len(u)
  OBVIOUS
<1>5. /\ Underway \in Seq(Data)
      /\ Len(Underway) = Len(io.rx) + Len(OnBus) + Len(tx.fifo) + Len(Pushed(dOut))
  <2> DEFINE r == io.rx
             s == OnBus
             t == tx.fifo
             u == Pushed(dOut)
  <2>1. r \in Seq(Data) /\ s \in Seq(Data) /\ t \in Seq(Data) /\ u \in Seq(Data)
    BY <1>1, <1>2, <1>3
  <2> HIDE DEF r, s, t, u
  <2>2. /\ r \o s \o t \o u \in Seq(Data)
        /\ Len(r \o s \o t \o u) = Len(r) + Len(s) + Len(t) + Len(u)
    BY <1>4, <2>1
  <2> QED BY <2>2 DEF Underway, r, s, t, u
<1> QED BY <1>1, <1>2, <1>3, <1>5 DEF UnderwayOK

\* The same after a step.
LEMMA UnderwayTypeNext == SysInv' => UnderwayOK'
BY UnderwayType, PTL

\* Nothing is left to write of the last write-back when the next one starts.
PathClear ==
  Announced \/ dCtl.state = "waitReplacement" \/ (dCtl.state = "writeBuffer" /\ dCtl.nTransfer = 0)
  => ToWrite(io) = 0 /\ At(0, AskedToWrite) = 0

\* The memory is written at the address that was asked for last.
WriteAdd == io.state = "write" => io.add = bus.add

\* How many words are underway.
LEMMA UnderwayLength ==
  ASSUME SysInv, PathClear
  PROVE  /\ Len(Underway) + ToPush(dCtl)
            = IF Announced THEN W ELSE At(0, AskedToWrite) + ToWrite(io)
         /\ Len(Underway) \in Nat /\ ToPush(dCtl) \in 0 .. W /\ W \in Nat
         /\ ToWrite(io) \in 0 .. W /\ At(0, AskedToWrite) \in {0, W}
         /\ Len(Underway) = 0 => Underway = <<>>
<1>1. NumbersOK /\ UnderwayOK /\ W \in Nat
  BY Numbers, UnderwayType, Constants DEF SysInv
<1>2. /\ (IF Announced THEN W ELSE tx.left) = Len(tx.fifo) + At(270, Pushes(dOut)) + ToPush(dCtl)
      /\ Announced => tx.left = 0
  BY DEF SysInv, PushBalance
<1>3. At(0, AskedToWrite) + ToWrite(io) = Len(io.rx) + At(0, Taken) + tx.left
  BY DEF SysInv, WriteBalance
<1>4. Len(Underway) = Len(io.rx) + At(0, Taken) + Len(tx.fifo) + At(270, Pushes(dOut))
  BY <1>1 DEF UnderwayOK
<1>5. /\ Len(io.rx) \in Nat /\ At(0, Taken) \in Nat /\ Len(tx.fifo) \in Nat /\ tx.left \in Nat
      /\ At(270, Pushes(dOut)) \in Nat /\ ToPush(dCtl) \in 0 .. W
      /\ ToWrite(io) \in 0 .. W /\ At(0, AskedToWrite) \in {0, W}
  BY <1>1 DEF NumbersOK, At
<1>6. Len(Underway) + ToPush(dCtl) = IF Announced THEN W ELSE At(0, AskedToWrite) + ToWrite(io)
  <2>1. CASE Announced
    <3>1. ToWrite(io) = 0 /\ At(0, AskedToWrite) = 0 /\ tx.left = 0
      BY <1>2, <2>1 DEF PathClear
    <3>2. 0 + 0 = Len(io.rx) + At(0, Taken) + 0
      BY <1>3, <3>1
    <3>3. W = Len(tx.fifo) + At(270, Pushes(dOut)) + ToPush(dCtl)
      BY <1>2, <2>1
    <3>4. \A a, b, f, p, n \in Int : 0 + 0 = a + b + 0 /\ W = f + p + n => a + b + f + p + n = W
      BY <1>1
    <3>5. Len(Underway) + ToPush(dCtl) = W
      BY <1>4, <1>5, <3>2, <3>3, <3>4
    <3> QED BY <2>1, <3>5
  <2>2. CASE ~Announced
    <3>1. tx.left = Len(tx.fifo) + At(270, Pushes(dOut)) + ToPush(dCtl)
      BY <1>2, <2>2
    <3>2. \A a, b, f, p, n, l, x, y \in Int :
            l = f + p + n /\ x + y = a + b + l => a + b + f + p + n = x + y
      OBVIOUS
    <3>3. /\ Len(io.rx) \in Int /\ At(0, Taken) \in Int /\ Len(tx.fifo) \in Int /\ tx.left \in Int
          /\ At(270, Pushes(dOut)) \in Int /\ ToPush(dCtl) \in Int
          /\ ToWrite(io) \in Int /\ At(0, AskedToWrite) \in Int
      BY <1>1, <1>5
    <3> DEFINE a == Len(io.rx)
               b == At(0, Taken)
               f == Len(tx.fifo)
               p == At(270, Pushes(dOut))
               n == ToPush(dCtl)
               l == tx.left
               x == At(0, AskedToWrite)
               y == ToWrite(io)
    <3>4. /\ a \in Int /\ b \in Int /\ f \in Int /\ p \in Int /\ n \in Int
          /\ l \in Int /\ x \in Int /\ y \in Int
          /\ l = f + p + n /\ x + y = a + b + l
      BY <1>3, <3>1, <3>3
    <3> HIDE DEF a, b, f, p, n, l, x, y
    <3>5. a + b + f + p + n = x + y
      BY <3>2, <3>4
    <3>6. Len(Underway) + ToPush(dCtl) = At(0, AskedToWrite) + ToWrite(io)
      BY <1>4, <3>5 DEF a, b, f, p, n, x, y
    <3> QED BY <2>2, <3>6
  <2> QED BY <2>1, <2>2
<1>7. Len(Underway) \in Nat /\ (Len(Underway) = 0 => Underway = <<>>)
  <2>1. Underway \in Seq(Data)
    BY <1>1 DEF UnderwayOK
  <2> HIDE DEF Underway
  <2> QED BY <2>1, EmptySeq
<1> QED BY <1>1, <1>5, <1>6, <1>7

\* A ready memory: nothing is underway, unless a write-back waits for it.
LEMMA NothingUnderway ==
  ASSUME SysInv, PathClear, ~Announced, io.ready, clk # 0
  PROVE  Underway = <<>> /\ ToPush(dCtl) = 0
<1>1. io.state = "idle"
  BY DEF SysInv, IoReady
<1>2. ToWrite(io) = 0 /\ At(0, AskedToWrite) = 0
  BY <1>1 DEF ToWrite, At
<1> QED BY <1>2, UnderwayLength

\* The edge of the hart, as the words underway see it.
LEMMA HartWords ==
  ASSUME SysInv, Edge0
  PROVE  /\ UNCHANGED <<dCtl, dOut, bus, tx>> /\ clk = 0 /\ clk' = 90
         /\ \E c \in IoType :
              /\ io'.state = c.state /\ io'.add = c.add /\ io'.rx = c.rx
              /\ ToWrite(io') = ToWrite(c) /\ IoStep(c)
         /\ ToWrite(io') + Len(io.rx) + Taken = AskedToWrite + ToWrite(io) + Len(io'.rx)
         /\ P!Received.rx \in Seq(Data) /\ Len(P!Received.rx) = Len(io.rx) + Taken
<1>1. /\ UNCHANGED <<dCtl, dOut, bus, tx, rx>> /\ clk = 0 /\ clk' = 90 /\ P!IoEdge
  BY HartMoves
<1>2. IoBefore
  BY <1>1, IoReadyToStep
<1>3. PICK c \in IoType : io' = P!Sent(c) /\ ~c.valid /\ IoStep(c)
  BY <1>1, <1>2, IoSteps
<1>4. /\ io'.state = c.state /\ io'.add = c.add /\ io'.rx = c.rx /\ ToWrite(io') = ToWrite(c)
  BY <1>1, <1>3, HartStream
<1>5. ToWrite(io') + Len(io.rx) + Taken = AskedToWrite + ToWrite(io) + Len(io'.rx)
  BY <1>1, <1>2, IoEdgeOutcome DEF IoOutcome
<1>6. P!Received.rx \in Seq(Data) /\ Len(P!Received.rx) = Len(io.rx) + Taken
  BY <1>1, ReceivedFacts DEF SysInv
<1> QED BY <1>1, <1>3, <1>4, <1>5, <1>6

\* A cycle announces a write-back or starts a transfer only from such a state,
\* or when the memory is ready.
Starts(c, o, t) ==
  \/ c.writebackFlag \/ (t /\ o.write # NoBlock)
  \/ c.state = "waitReplacement" \/ (c.state = "writeBuffer" /\ c.nTransfer = 0)

StartsOrReady(c, mready) == Starts(c, c, FALSE) \/ mready

\* Nothing is announced that did not wait for the memory or find it ready.
LEMMA CycleAnnounces ==
  ASSUME NEW L, NEW SetOf, NEW core, NEW c, InService(c),
         NEW tagMem, NEW mem, NEW mready, NEW wready, NEW rready, NEW d,
         NEW dirty, NEW c2, NEW dirty2, NEW o2, c.nTransfer \in D!Word,
         Cycle(L, SetOf, core, c, tagMem, mem, mready, wready, rready, d, dirty, c2, dirty2, o2),
         Starts(c2, o2, TRUE)
  PROVE  StartsOrReady(c, mready)
<1> SUFFICES Starts(c, c, FALSE) \/ mready
  BY DEF StartsOrReady
<1>1. ASSUME Requested(c.writebackFlag, c.addWriteback, mready, c2, o2),
             ~(c2.writebackFlag = FALSE /\ o2.write = NoBlock)
      PROVE  c.writebackFlag
  BY <1>1 DEF Requested
<1>2. CASE MissCycle(core, c, mready, dirty, c2, dirty2, o2)
  BY <1>1, <1>2 DEF MissCycle, Starts
<1>3. CASE RequestCycle(core, c, mready, dirty, c2, dirty2, o2)
  BY <1>3 DEF RequestCycle, Starts
<1>4. CASE \E v \in L : ReplaceCycle(c, mready, v, dirty, c2, dirty2, o2)
  BY <1>4 DEF ReplaceCycle, Starts
<1>5. CASE PushCycle(core, c, mready, wready, tagMem, mem, dirty, c2, dirty2, o2)
  <2>1. CASE c.nTransfer = 0
    BY <1>5, <2>1 DEF PushCycle, Starts
  <2>2. CASE c.nTransfer # 0
    <3>1. c2.writebackFlag \/ o2.write # NoBlock => c.writebackFlag
      BY <1>5, <2>2 DEF PushCycle, Requested
    <3>2. ~(c2.state = "waitReplacement" \/ (c2.state = "writeBuffer" /\ c2.nTransfer = 0))
      BY <1>5, Constants DEF PushCycle
    <3> QED BY <3>1, <3>2 DEF Starts
  <2> QED BY <2>1, <2>2
<1>6. CASE FillCycle(c, mready, rready, d, dirty, c2, dirty2, o2)
  BY <1>1, <1>6 DEF FillCycle, Starts
<1>7. CASE WaitCycle(core, c, mready, dirty, c2, dirty2, o2)
  BY <1>1, <1>7 DEF WaitCycle, Starts
<1>8. CASE \E l \in L : HitCycle(core, c, mready, l, dirty, c2, dirty2, o2)
  BY <1>1, <1>8 DEF HitCycle, Starts
<1> QED BY <1>2, <1>3, <1>4, <1>5, <1>6, <1>7, <1>8 DEF Cycle

\* PathClear and WriteAdd are inductive, given SysInv.
LEMMA PathStep ==
  ASSUME SysInv, SysInv', [Next]_vars, PathClear, WriteAdd
  PROVE  PathClear' /\ WriteAdd'
<1>1. CASE Edge0
  <2>1. /\ UNCHANGED <<dCtl, dOut, bus, tx>> /\ clk = 0 /\ clk' = 90
        /\ \E c \in IoType :
             /\ io'.state = c.state /\ io'.add = c.add /\ io'.rx = c.rx
             /\ ToWrite(io') = ToWrite(c) /\ IoStep(c)
        /\ ToWrite(io') + Len(io.rx) + Taken = AskedToWrite + ToWrite(io) + Len(io'.rx)
        /\ P!Received.rx \in Seq(Data) /\ Len(P!Received.rx) = Len(io.rx) + Taken
    BY <1>1, HartWords
  <2>2. PICK c \in IoType :
             /\ io'.state = c.state /\ io'.add = c.add /\ io'.rx = c.rx
             /\ ToWrite(io') = ToWrite(c) /\ IoStep(c)
    BY <2>1
  <2>3. WriteAdd'
    BY <2>1, <2>2 DEF WriteAdd, IoStep, Resting, Accepting, ReadingBurst, WritingBurst
  <2>4. Announced' => Announced
    BY <2>1 DEF Announced
  <2>5. ASSUME ToWrite(io) = 0, At(0, AskedToWrite) = 0
        PROVE  ToWrite(c) = 0
    <3>1. ~(bus.req /\ bus.rw)
      BY <2>1, <2>5, Constants DEF At, AskedToWrite
    <3>2. CASE Resting(c)
      <4>1. io'.rx = P!Received.rx
        BY <2>2, <3>2 DEF Resting
      <4>2. /\ ToWrite(io') + Len(io.rx) + Taken = 0 + 0 + (Len(io.rx) + Taken)
            /\ Len(io.rx) \in Nat /\ Taken \in Nat /\ ToWrite(io') \in Nat
        <5>1. AskedToWrite = 0
          BY <2>1, <2>5 DEF At
        <5>2. Len(io.rx) \in Nat /\ Taken \in Nat
          BY Numbers DEF SysInv, NumbersOK
        <5>3. ToWrite(io') \in Nat
          BY NumbersNext DEF SysInv, NumbersOK
        <5> QED BY <2>1, <2>5, <4>1, <5>1, <5>2, <5>3
      <4> QED BY <2>2, <4>2
    <3>3. CASE Accepting(c)
      BY <3>1, <3>3 DEF Accepting, ToWrite
    <3>4. CASE ReadingBurst(c)
      BY <3>4 DEF ReadingBurst, ToWrite
    <3>5. CASE WritingBurst(c)
      BY <2>5, <3>5, Constants DEF WritingBurst, ToWrite
    <3> QED BY <2>2, <3>2, <3>3, <3>4, <3>5 DEF IoStep
  <2>6. At(0, AskedToWrite)' = 0
    BY <2>1 DEF At
  <2> QED BY <2>1, <2>2, <2>3, <2>4, <2>5, <2>6 DEF PathClear
<1>2. CASE Edge180
  <2>1. /\ clk = 180 /\ clk' = 270 /\ UNCHANGED <<bus, io>>
        /\ Cycle(DLine, DSetOf, dCore, dCtl, dTag, dMem, Ready(1, io.ready),
                 Ready(1, Len(tx.fifo) < W), Ready(1, rx # <<>>), FromBuffer,
                 dDirty, dCtl', dDirty', dOut')
    BY <1>2, CacheCycles DEF pathVars
  <2>2. InService(dCtl)
    BY DEF SysInv, CachesOK, DCacheOK, CacheOK
  <2>3. Announced' \/ dCtl'.state = "waitReplacement"
          \/ (dCtl'.state = "writeBuffer" /\ dCtl'.nTransfer = 0)
        => \/ Announced \/ io.ready \/ dCtl.state = "waitReplacement"
           \/ (dCtl.state = "writeBuffer" /\ dCtl.nTransfer = 0)
    <3>1. dCtl.nTransfer \in D!Word
      BY Zenon DEF SysInv, CachesOK, DCacheOK, CacheOK, CtlType
    <3>2. ASSUME Starts(dCtl', dOut', TRUE)
          PROVE  StartsOrReady(dCtl, Ready(1, io.ready))
      BY <2>1, <2>2, <3>1, <3>2, CycleAnnounces, Zenon
    <3>3. Ready(1, io.ready) => io.ready
      BY DEF Ready
    <3> QED BY <2>1, <3>2, <3>3 DEF Starts, StartsOrReady, Announced
  <2>4. io.ready => ToWrite(io) = 0
    BY DEF SysInv, IoReady, ToWrite
  <2>5. At(0, AskedToWrite)' = 0
    BY <2>1 DEF At
  <2> QED BY <2>1, <2>3, <2>4, <2>5 DEF PathClear, WriteAdd, ToWrite
<1>3. CASE Edge270
  <2>1. /\ clk = 270 /\ clk' = 0 /\ io' = io /\ dCtl' = dCtl /\ dOut' = dOut
        /\ bus'.req = Requests(Strobes)
        /\ bus'.req => bus'.rw = (dOut.write # NoBlock)
        /\ ~bus'.req => bus'.add = bus.add
    BY <1>3, SendFacts, MemoriesSample
  <2>2. Requests(Strobes) => io.ready
    BY <2>1, OwnersStrobes
  <2>3. io.ready => io.state = "idle"
    BY DEF SysInv, IoReady
  <2>4. WriteAdd'
    BY <2>1, <2>2, <2>3 DEF WriteAdd
  <2>5. Announced' \/ dCtl'.state = "waitReplacement"
          \/ (dCtl'.state = "writeBuffer" /\ dCtl'.nTransfer = 0)
        => ToWrite(io) = 0 /\ dOut.write = NoBlock
    <3>1. dOut.write # NoBlock => Announced /\ ~dCtl.writebackFlag
      BY <2>1 DEF Announced, SysInv, Gated
    <3>2. dCtl.state = "waitReplacement" \/ (dCtl.state = "writeBuffer" /\ dCtl.nTransfer = 0)
          => ~Announced
      BY DEF SysInv, PushBalance
    <3>3. Announced' <=> dCtl.writebackFlag
      BY <2>1 DEF Announced
    <3> QED BY <2>1, <3>1, <3>2, <3>3 DEF PathClear, Announced
  <2>6. dOut.write = NoBlock => At(0, AskedToWrite)' = 0
    BY <2>1 DEF At, AskedToWrite
  <2> QED BY <2>1, <2>4, <2>5, <2>6 DEF PathClear, ToWrite
<1>4. CASE Edge90 \/ Ddr \/ UNCHANGED vars
  <2>1. /\ UNCHANGED <<dCtl, dOut, bus, io>>
        /\ clk' = clk \/ (clk = 90 /\ clk' = 180)
    BY <1>4, OtherSteps
  <2> QED BY <2>1 DEF PathClear, WriteAdd, Announced, At, AskedToWrite, ToWrite
<1> QED BY <1>1, <1>2, <1>3, <1>4 DEF Next, Edge

-----------------------------------------------------------------------------
(* What the memory and the words underway together hold.                     *)

\* The place in its block of the first word underway.
First == W - Len(Underway) - ToPush(dCtl)

Latest(b, w) ==
  IF b = UnderwayBlock /\ w >= First /\ w < First + Len(Underway)
  THEN Underway[w - First + 1] ELSE ddr[b][w]

Contents == [b \in Block |-> [w \in D!Word |-> Latest(b, w)]]

\* The sequence r is s without its first h elements.
Dropped(s, r, h) ==
  /\ Len(s) >= h /\ Len(r) = Len(s) - h
  /\ \A i \in 1 .. Len(s) - h : r[i] = s[h + i]

\* Words taken from the front of a row are taken from the front of a longer one.
LEMMA DroppedConcat ==
  ASSUME NEW s \in Seq(Data), NEW t \in Seq(Data), NEW h \in Nat, Len(s) >= h
  PROVE  /\ Dropped(s \o t, SubSeq(s, h + 1, Len(s)) \o t, h)
         /\ \A i \in 1 .. h : (s \o t)[i] = s[i]
<1> DEFINE p == SubSeq(s, h + 1, Len(s))
<1>1. /\ p \in Seq(Data) /\ Len(p) = Len(s) - h
      /\ \A i \in 1 .. Len(s) - h : p[i] = s[h + i]
  OBVIOUS
<1>2. /\ Len(s \o t) = Len(s) + Len(t) /\ Len(s) \in Nat /\ Len(t) \in Nat
      /\ \A i \in 1 .. Len(s) : (s \o t)[i] = s[i]
      /\ \A i \in 1 .. Len(t) : (s \o t)[Len(s) + i] = t[i]
  OBVIOUS
<1> HIDE DEF p
<1>3. /\ Len(p \o t) = Len(p) + Len(t)
      /\ \A i \in 1 .. Len(p) : (p \o t)[i] = p[i]
      /\ \A i \in 1 .. Len(t) : (p \o t)[Len(p) + i] = t[i]
  <2>1. p \in Seq(Data)
    BY <1>1
  <2> QED BY <2>1
<1>4. ASSUME NEW i \in 1 .. Len(s \o t) - h
      PROVE  (p \o t)[i] = (s \o t)[h + i]
  <2>1. CASE i \in 1 .. Len(s) - h
    BY <1>1, <1>2, <1>3, <2>1
  <2>2. CASE i \notin 1 .. Len(s) - h
    <3> DEFINE k == i - (Len(s) - h)
    <3>1. k \in 1 .. Len(t) /\ Len(p) + k = i /\ Len(s) + k = h + i
      BY <1>1, <1>2, <2>2
    <3> HIDE DEF k
    <3>2. (p \o t)[Len(p) + k] = t[k] /\ (s \o t)[Len(s) + k] = t[k]
      BY <1>2, <1>3, <3>1
    <3> QED BY <3>1, <3>2
  <2> QED BY <2>1, <2>2
<1>5. Dropped(s \o t, p \o t, h)
  BY <1>1, <1>2, <1>3, <1>4 DEF Dropped
<1> QED BY <1>2, <1>5 DEF p

\* What a step does to the words underway: nothing; the memory takes a burst of
\* them; the data cache pushes one more.
UnderwaySame ==
  /\ Underway' = Underway /\ ToPush(dCtl') = ToPush(dCtl) /\ ddr' = ddr
  /\ UnderwayBlock' = UnderwayBlock \/ (Underway = <<>> /\ ToPush(dCtl) = 0)

UnderwayWritten ==
  /\ UnderwayBlock' = UnderwayBlock /\ UnderwayBlock \in Block
  /\ ToPush(dCtl') = ToPush(dCtl) /\ Dropped(Underway, Underway', Half)
  /\ ddr' = [ddr EXCEPT ![UnderwayBlock] =
               [w \in 0 .. W - 1 |->
                  IF w >= First /\ w < First + Half THEN Underway[w - First + 1]
                  ELSE ddr[UnderwayBlock][w]]]

UnderwayPushed ==
  /\ clk = 180 /\ dCtl.state = "writeBuffer" /\ ddr' = ddr
  /\ dOut'.push = dMem[dCtl.cacheAdd[1]][dCtl.cacheAdd[2]]
  /\ Underway' = Append(Underway, dOut'.push)
  /\ First' + Len(Underway) = dCtl.nTransfer
  /\ IF dCtl.nTransfer = 0
     THEN Underway = <<>> /\ UnderwayBlock' = <<dTag[dCtl.ptr], dCore.block[2]>>
     ELSE First' = First /\ UnderwayBlock' = UnderwayBlock

\* 0 degrees: a burst is written, or nothing happens.
LEMMA HartUnderway ==
  ASSUME SysInv, SysInv', PathClear, WriteAdd, Edge0
  PROVE  UnderwaySame \/ UnderwayWritten
<1>1. /\ UNCHANGED <<dCtl, dOut, bus, tx>> /\ clk = 0 /\ clk' = 90
      /\ \E c \in IoType :
           /\ io'.state = c.state /\ io'.add = c.add /\ io'.rx = c.rx
           /\ ToWrite(io') = ToWrite(c) /\ IoStep(c)
      /\ P!Received.rx \in Seq(Data) /\ Len(P!Received.rx) = Len(io.rx) + Taken
  BY HartWords
<1>2. PICK c \in IoType :
        /\ io'.state = c.state /\ io'.add = c.add /\ io'.rx = c.rx
        /\ ToWrite(io') = ToWrite(c) /\ IoStep(c)
  BY <1>1
<1> DEFINE R == P!Received.rx
<1>3. /\ io.rx \in Seq(Data) /\ tx.fifo \in Seq(Data) /\ R \in Seq(Data) /\ io'.rx \in Seq(Data)
      /\ OnBus \in Seq(Data)
  BY <1>1, UnderwayType, UnderwayTypeNext DEF UnderwayOK
<1>4. R = io.rx \o OnBus
  <2>1. io \in IoType
    BY DEF SysInv, PathTypeOK
  <2>2. CASE P!WordOnBus
    <3>1. OnBus = <<bus.data>> /\ R = Append(io.rx, bus.data)
      BY <1>1, <2>1, <2>2 DEF OnBus, P!Received, IoType
    <3>2. bus.data \in Data
      BY <1>1, <2>2 DEF SysInv, PathTypeOK
    <3> QED BY <1>3, <3>1, <3>2, AppendIsConcat
  <2>3. CASE ~P!WordOnBus
    <3>1. OnBus = <<>> /\ R = io.rx
      BY <1>1, <2>1, <2>3 DEF OnBus, P!Received, IoType
    <3> QED BY <1>3, <3>1, ConcatEmptySeq
  <2> QED BY <2>2, <2>3
<1> HIDE DEF R
<1>5. Underway = R \o tx.fifo
  <2>1. Pushed(dOut) = <<>>
    BY <1>1 DEF Pushed
  <2>2. Underway = (R \o tx.fifo) \o <<>> /\ R \o tx.fifo \in Seq(Data)
    BY <1>3, <1>4, <2>1 DEF Underway
  <2> QED BY <2>2, ConcatEmptySeq
<1>6. Underway' = io'.rx \o tx.fifo
  <2>1. Pushed(dOut)' = <<>> /\ OnBus' = <<>>
    BY <1>1 DEF Pushed, OnBus
  <2>2. Underway' = ((io'.rx \o <<>>) \o tx.fifo) \o <<>>
    BY <1>1, <2>1 DEF Underway
  <2>3. io'.rx \o <<>> = io'.rx /\ io'.rx \o tx.fifo \in Seq(Data)
    BY <1>3, ConcatEmptySeq
  <2> QED BY <2>2, <2>3, ConcatEmptySeq
<1>7. UnderwayBlock' = UnderwayBlock /\ ToPush(dCtl') = ToPush(dCtl)
  BY <1>1 DEF UnderwayBlock
<1>8. CASE Resting(c) \/ Accepting(c) \/ ReadingBurst(c)
  <2>1. c.rx = R /\ ddr' = ddr
    BY <1>8 DEF Resting, Accepting, ReadingBurst, R
  <2> QED BY <1>2, <1>5, <1>6, <1>7, <2>1 DEF UnderwaySame
<1>9. CASE WritingBurst(c)
  <2>1. /\ io.state = "write" /\ io.flag \in {0, 1} /\ Len(R) >= Half
        /\ c.rx = SubSeq(R, Half + 1, Len(R))
        /\ ddr' = [ddr EXCEPT ![io.add] =
                     [w \in 0 .. W - 1 |->
                        IF w \div Half = io.flag THEN R[w - io.flag * Half + 1]
                        ELSE ddr[io.add][w]]]
    BY <1>9 DEF WritingBurst, R
  <2>2. ToWrite(io) = W - io.flag * Half /\ ToWrite(io) # 0
    <3>1. io.flag = 0 \/ io.flag = 1
      BY <2>1
    <3>2. CASE io.flag = 0
      <4>1. io.flag * Half = 0
        BY <3>2, Constants
      <4> QED BY <2>1, <3>2, <4>1, Constants DEF ToWrite
    <3>3. CASE io.flag = 1
      <4>1. io.flag * Half = Half
        BY <3>3, Constants
      <4> QED BY <2>1, <3>3, <4>1, Constants DEF ToWrite
    <3> QED BY <3>1, <3>2, <3>3
  <2>3. ~Announced
    BY <2>2 DEF PathClear
  <2>4. UnderwayBlock = bus.add /\ io.add = bus.add /\ io.add \in Block
    BY <1>1, <2>1, <2>3 DEF UnderwayBlock, Announced, WriteAdd, SysInv, PathTypeOK
  <2>5. At(0, AskedToWrite) = 0
    <3>1. ~io.ready
      BY <2>1 DEF SysInv, IoReady
    <3>2. ~bus.req
      BY <1>1, <3>1 DEF SysInv, Accepted
    <3> QED BY <3>2 DEF At, AskedToWrite
  <2>6. First = io.flag * Half
    <3>1. /\ Len(Underway) + ToPush(dCtl) = 0 + ToWrite(io)
          /\ Len(Underway) \in Nat /\ ToPush(dCtl) \in 0 .. W /\ W \in Nat
      BY <2>3, <2>5, UnderwayLength
    <3>2. \A u, p, q, v \in Int : u + p = 0 + q /\ q = v => W - u - p = W - v
      BY Constants
    <3>3. ToWrite(io) = IF io.flag = 0 THEN W ELSE Half
      BY <2>1, <2>2, Constants DEF ToWrite
    <3>4. W - Len(Underway) - ToPush(dCtl) = W - ToWrite(io)
      BY <3>1, <3>3, Constants
    <3>5. io.flag = 0 \/ io.flag = 1
      BY <2>1
    <3> QED BY <3>3, <3>4, <3>5, Constants DEF First
  <2>7. \A w \in 0 .. W - 1 : w \div Half = io.flag <=> (w >= First /\ w < First + Half)
    <3> SUFFICES ASSUME NEW w \in 0 .. W - 1
                 PROVE  w \div Half = io.flag <=> (w >= First /\ w < First + Half)
      OBVIOUS
    <3>1. w \in Nat /\ w < Half + Half /\ Half \in Nat
      BY Constants
    <3>2. (w \div Half = 0 <=> w < Half) /\ (w \div Half = 1 <=> w >= Half)
      BY <3>1, Halves
    <3>3. CASE io.flag = 0
      <4>1. First = 0
        BY <2>6, <3>1, <3>3
      <4> QED BY <3>1, <3>2, <3>3, <4>1
    <3>4. CASE io.flag = 1
      <4>1. First = Half
        BY <2>6, <3>1, <3>4
      <4> QED BY <3>1, <3>2, <3>4, <4>1
    <3> QED BY <2>1, <3>3, <3>4
  <2>8. /\ Dropped(Underway, Underway', Half)
        /\ \A i \in 1 .. Half : Underway[i] = R[i]
    <3>2. Half \in Nat
      BY Constants
    <3>3. Dropped(R \o tx.fifo, SubSeq(R, Half + 1, Len(R)) \o tx.fifo, Half)
          /\ \A i \in 1 .. Half : (R \o tx.fifo)[i] = R[i]
      BY <1>3, <2>1, <3>2, DroppedConcat
    <3> QED BY <1>2, <1>5, <1>6, <2>1, <3>3
  <2>9. [w \in 0 .. W - 1 |->
           IF w \div Half = io.flag THEN R[w - io.flag * Half + 1] ELSE ddr[io.add][w]]
        = [w \in 0 .. W - 1 |->
             IF w >= First /\ w < First + Half THEN Underway[w - First + 1]
             ELSE ddr[UnderwayBlock][w]]
    <3>1. First \in Nat
      <4>1. io.flag = 0 \/ io.flag = 1
        BY <2>1
      <4> QED BY <2>6, <4>1, Constants
    <3>2. ASSUME NEW w \in 0 .. W - 1, w >= First, w < First + Half
          PROVE  Underway[w - First + 1] = R[w - io.flag * Half + 1]
      <4>1. w - First + 1 \in 1 .. Half
        BY <3>1, <3>2, Constants
      <4> QED BY <2>6, <2>8, <4>1
    <3> QED BY <2>4, <2>7, <3>2
  <2> QED BY <1>7, <2>1, <2>4, <2>8, <2>9 DEF UnderwayWritten
<1> QED BY <1>2, <1>8, <1>9 DEF IoStep

\* 270 degrees: the buffer takes the word that is pushed, and sends one.
LEMMA SendUnderway ==
  ASSUME SysInv, SysInv', PathClear, Edge270
  PROVE  UnderwaySame
<1>1. /\ clk = 270 /\ clk' = 0 /\ UNCHANGED <<io, ddr>>
      /\ tx'.fifo = IF SendsWord THEN Tail(Fifo) ELSE Fifo
      /\ bus'.req = Requests(Strobes)
      /\ bus'.req => bus'.block /\ bus'.rw = (dOut.write # NoBlock)
      /\ ~bus'.req => bus'.block = SendsWord /\ bus'.add = bus.add
      /\ bus'.req => bus'.add = IF dOut.write # NoBlock THEN dOut.write ELSE Strobes.read
      /\ SendsWord => bus'.data = Head(Fifo)
  BY SendFacts
<1>2. /\ Fifo \in Seq(Data) /\ Left \in Nat
      /\ dOut.write # NoBlock => SendsWord /\ tx.left = 0 /\ Left = W
      /\ io.ready => tx.left = 0
  BY <1>1, BufferFacts
<1>3. /\ Strobes.write = dOut.write
      /\ Requests(Strobes) => io.ready
      /\ Strobes.write # NoBlock => Strobes.read = NoBlock /\ ~dCtl.writebackFlag
  BY <1>1, OwnersStrobes
<1>4. UNCHANGED <<dCtl, dOut>>
  BY <1>1, MemoriesSample, <1>1
<1>5. P!WordOnBus' <=> SendsWord
  <2>1. Strobes.read # NoBlock /\ Strobes.write = NoBlock => ~SendsWord
    BY <1>2, <1>3 DEF Left, Requests, SendsWord
  <2> QED BY <1>1, <1>2, <1>3, <2>1 DEF P!WordOnBus, Requests
<1>6. io.rx \in Seq(Data) /\ tx.fifo \in Seq(Data) /\ Pushed(dOut) \in Seq(Data)
  BY UnderwayType DEF UnderwayOK
<1>7. tx.fifo \o Pushed(dOut) = Fifo
  <2>1. CASE dOut.push = NoWord
    <3>1. Pushed(dOut) = <<>> /\ Fifo = tx.fifo
      BY <2>1 DEF Pushed, Fifo
    <3> QED BY <1>6, <3>1, ConcatEmptySeq
  <2>2. CASE dOut.push # NoWord
    <3>1. Pushed(dOut) = <<dOut.push>> /\ Fifo = Append(tx.fifo, dOut.push)
      BY <1>1, <2>2 DEF Pushed, Fifo
    <3>2. dOut.push \in Data
      BY <2>2 DEF SysInv, CachesOK, DCacheOK, CacheOK, OutType
    <3> QED BY <1>6, <3>1, <3>2, AppendIsConcat
  <2> QED BY <2>1, <2>2
<1>8. OnBus' \o tx'.fifo = Fifo
  <2>1. CASE SendsWord
    <3>1. OnBus' = <<Head(Fifo)>> /\ tx'.fifo = Tail(Fifo) /\ Fifo # <<>>
      BY <1>1, <1>5, <2>1 DEF OnBus, SendsWord
    <3>2. \A s \in Seq(Data) : s # <<>> => <<Head(s)>> \o Tail(s) = s
      OBVIOUS
    <3> QED BY <1>2, <3>1, <3>2
  <2>2. CASE ~SendsWord
    <3>1. OnBus' = <<>> /\ tx'.fifo = Fifo
      BY <1>1, <1>5, <2>2 DEF OnBus
    <3> QED BY <1>2, <3>1, ConcatEmptySeq
  <2> QED BY <2>1, <2>2
<1>9. Underway = io.rx \o Fifo
  <2>1. OnBus = <<>>
    BY <1>1 DEF OnBus
  <2>2. Underway = ((io.rx \o <<>>) \o tx.fifo) \o Pushed(dOut)
    BY <2>1 DEF Underway
  <2>3. io.rx \o <<>> = io.rx
    BY <1>6, ConcatEmptySeq
  <2>4. (io.rx \o tx.fifo) \o Pushed(dOut) = io.rx \o (tx.fifo \o Pushed(dOut))
    BY <1>6, Joined
  <2> QED BY <1>7, <2>2, <2>3, <2>4
<1>10. Underway' = io.rx \o Fifo
  <2>1. Pushed(dOut)' = <<>>
    BY <1>1 DEF Pushed
  <2>2. Underway' = ((io.rx \o OnBus') \o tx'.fifo) \o <<>>
    BY <1>1, <2>1 DEF Underway
  <2>3. OnBus' \in Seq(Data) /\ tx'.fifo \in Seq(Data)
    BY UnderwayTypeNext DEF UnderwayOK
  <2>4. (io.rx \o OnBus') \o tx'.fifo = io.rx \o (OnBus' \o tx'.fifo)
    BY <1>6, <2>3, Joined
  <2>5. io.rx \o Fifo \in Seq(Data)
    BY <1>2, <1>6
  <2> QED BY <1>8, <2>2, <2>4, <2>5, ConcatEmptySeq
<1>11. UnderwayBlock' = UnderwayBlock \/ (Underway = <<>> /\ ToPush(dCtl) = 0)
  <2>1. CASE dCtl.writebackFlag
    BY <1>4, <2>1 DEF UnderwayBlock
  <2>2. CASE ~dCtl.writebackFlag /\ dOut.write # NoBlock
    <3>1. bus'.req /\ bus'.add = dOut.write
      BY <1>1, <1>3, <2>2 DEF Requests
    <3> QED BY <1>1, <1>4, <2>2, <3>1 DEF UnderwayBlock
  <2>3. CASE ~dCtl.writebackFlag /\ dOut.write = NoBlock
    <3>1. CASE bus'.req
      <4>1. io.ready /\ ~Announced
        BY <1>1, <1>3, <2>3, <3>1 DEF Announced
      <4> QED BY <1>1, <4>1, NothingUnderway
    <3>2. CASE ~bus'.req
      BY <1>1, <1>4, <2>3, <3>2 DEF UnderwayBlock
    <3> QED BY <3>1, <3>2
  <2> QED BY <2>1, <2>2, <2>3
<1> QED BY <1>1, <1>4, <1>9, <1>10, <1>11 DEF UnderwaySame

\* The writeback block moves the address, and keeps it.
LEMMA RequestedBlock ==
  ASSUME NEW flag \in BOOLEAN, NEW add \in Block, NEW mready, clk = 180, clk' = 270, bus' = bus,
         Requested(flag, add, mready, dCtl', dOut')
  PROVE  UnderwayBlock' = IF flag THEN add ELSE bus.add
<1>1. add # NoBlock
  BY Constants
<1> QED BY <1>1 DEF Requested, UnderwayBlock

\* 180 degrees: a word of a write-back is pushed, or nothing happens.
LEMMA CycleUnderway ==
  ASSUME SysInv, SysInv', PathClear, Edge180
  PROVE  IF dOut'.push = NoWord THEN UnderwaySame ELSE UnderwayPushed
<1>1. /\ clk = 180 /\ clk' = 270 /\ UNCHANGED <<tx, bus, io, ddr>>
      /\ Cycle(DLine, DSetOf, dCore, dCtl, dTag, dMem, Ready(1, io.ready),
               Ready(1, Len(tx.fifo) < W), Ready(1, rx # <<>>), FromBuffer,
               dDirty, dCtl', dDirty', dOut')
  BY CacheCycles DEF pathVars
<1>2. /\ InService(dCtl) /\ dCtl \in CtlType(DLine) /\ dTag \in [DLine -> Tag \cup {NoTag}]
      /\ \A l \in dDirty : dTag[l] \in Tag
      /\ dCtl.state = "writeBuffer" => dCtl.ptr \in dDirty
      /\ dCore \in CoreType
  BY DEF SysInv, CachesOK, DCacheOK, CacheOK
<1>3. dCtl.nTransfer \in D!Word /\ dCtl.writebackFlag \in BOOLEAN /\ dCtl.addWriteback \in Block
      /\ dCore.block \in Block
  BY <1>2, Zenon DEF CtlType, CoreType
<1>4. /\ io.rx \in Seq(Data) /\ tx.fifo \in Seq(Data) /\ Underway \in Seq(Data)
      /\ Pushed(dOut)' \in Seq(Data)
  BY UnderwayType, UnderwayTypeNext DEF UnderwayOK
<1>5. Underway' = Underway \o Pushed(dOut)'
  <2>1. OnBus = <<>> /\ OnBus' = <<>> /\ Pushed(dOut) = <<>>
    BY <1>1 DEF OnBus, Pushed
  <2>2. /\ Underway = (io.rx \o <<>>) \o tx.fifo \o <<>>
        /\ Underway' = (io.rx \o <<>>) \o tx.fifo \o Pushed(dOut)'
    BY <1>1, <2>1 DEF Underway
  <2>3. io.rx \o <<>> = io.rx /\ io.rx \o tx.fifo \in Seq(Data)
    BY <1>4, ConcatEmptySeq
  <2> QED BY <2>2, <2>3, ConcatEmptySeq
<1>6. UnderwayBlock = IF dCtl.writebackFlag THEN dCtl.addWriteback ELSE bus.add
  BY <1>1 DEF UnderwayBlock
<1>7. ASSUME Requested(dCtl.writebackFlag, dCtl.addWriteback, Ready(1, io.ready), dCtl', dOut')
      PROVE  UnderwayBlock' = UnderwayBlock
  BY <1>1, <1>3, <1>6, <1>7, RequestedBlock
<1>8. ASSUME dOut'.push = NoWord, ToPush(dCtl') = ToPush(dCtl), UnderwayBlock' = UnderwayBlock
      PROVE  UnderwaySame
  <2>1. Pushed(dOut)' = <<>>
    BY <1>8 DEF Pushed
  <2> QED BY <1>1, <1>4, <1>5, <1>8, <2>1, ConcatEmptySeq DEF UnderwaySame
<1>9. dCtl.state # "writeBuffer" => ToPush(dCtl) = 0
  BY DEF ToPush
<1>10. CASE \E l \in DLine :
             HitCycle(dCore, dCtl, Ready(1, io.ready), l, dDirty, dCtl', dDirty', dOut')
  BY <1>7, <1>8, <1>10 DEF HitCycle, ToPush
<1>11. CASE MissCycle(dCore, dCtl, Ready(1, io.ready), dDirty, dCtl', dDirty', dOut')
  BY <1>7, <1>8, <1>11 DEF MissCycle, ToPush, Still
<1>12. CASE RequestCycle(dCore, dCtl, Ready(1, io.ready), dDirty, dCtl', dDirty', dOut')
  <2>1. ~dCtl'.writebackFlag /\ dOut'.write = NoBlock /\ ~dCtl.writebackFlag
    BY <1>12 DEF RequestCycle
  <2>2. UnderwayBlock' = UnderwayBlock
    BY <1>1, <1>6, <2>1 DEF UnderwayBlock
  <2> QED BY <1>8, <1>12, <2>2 DEF RequestCycle, ToPush, Still
<1>13. CASE \E v \in DLine :
             ReplaceCycle(dCtl, Ready(1, io.ready), v, dDirty, dCtl', dDirty', dOut')
  <2>1. dCtl.state = "waitReplacement" /\ dCtl'.nTransfer = dCtl.nTransfer
    BY <1>13 DEF ReplaceCycle
  <2>2. ToPush(dCtl') = 0 /\ ToPush(dCtl) = 0
    BY <1>2, <2>1 DEF InService, ToPush
  <2> QED BY <1>7, <1>8, <1>13, <2>2 DEF ReplaceCycle, Still
<1>14. CASE FillCycle(dCtl, Ready(1, io.ready), Ready(1, rx # <<>>), FromBuffer,
                      dDirty, dCtl', dDirty', dOut')
  <2>1. dCtl.state # "writeBuffer" /\ dCtl'.state # "writeBuffer"
    BY <1>14 DEF FillCycle
  <2>2. ToPush(dCtl') = 0 /\ ToPush(dCtl) = 0
    BY <2>1 DEF ToPush
  <2> QED BY <1>7, <1>8, <1>14, <2>2 DEF FillCycle
<1>15. CASE WaitCycle(dCore, dCtl, Ready(1, io.ready), dDirty, dCtl', dDirty', dOut')
  <2>1. ToPush(dCtl') = ToPush(dCtl)
    BY <1>15 DEF WaitCycle, ToPush
  <2> QED BY <1>7, <1>8, <1>15, <2>1 DEF WaitCycle, Still
<1>16. CASE PushCycle(dCore, dCtl, Ready(1, io.ready), Ready(1, Len(tx.fifo) < W), dTag, dMem,
                      dDirty, dCtl', dDirty', dOut')
  <2> DEFINE n == dCtl.nTransfer
             d == dMem[dCtl.cacheAdd[1]][dCtl.cacheAdd[2]]
             add == IF n = 0 THEN <<dTag[dCtl.ptr], dCore.block[2]>> ELSE dCtl.addWriteback
  <2>1. /\ dCtl.state = "writeBuffer" /\ dOut'.push = d
        /\ IF n = W - 1 THEN dCtl'.nTransfer = 0 /\ dCtl'.state = "readBuffer"
           ELSE dCtl'.nTransfer = n + 1 /\ dCtl'.state = "writeBuffer"
        /\ Requested(n = 0 \/ dCtl.writebackFlag, add, Ready(1, io.ready), dCtl', dOut')
    BY <1>16, Zenon DEF PushCycle
  <2>2. d \in Data
    <3>1. dCtl.cacheAdd \in DLine \X D!Word
      BY <1>2 DEF CtlType
    <3>2. dMem \in [DLine -> [D!Word -> Data]]
      BY DEF SysInv, CachesOK, DCacheOK, CacheOK
    <3> QED BY <3>1, <3>2
  <2>3. Underway' = Append(Underway, dOut'.push)
    <3>1. Pushed(dOut)' = <<d>>
      BY <1>1, <2>1, <2>2, Constants DEF Pushed
    <3> QED BY <1>4, <1>5, <2>1, <2>2, <3>1, AppendIsConcat
  <2>4. Len(Underway') = Len(Underway) + 1 /\ Len(Underway) \in Nat
    BY <1>4, <2>1, <2>2, <2>3
  <2>5. n \in 0 .. W - 1 /\ W \in Nat /\ W > 1
    BY <1>3, Constants
  <2>6. ToPush(dCtl') = W - (n + 1)
    <3>1. CASE n = W - 1
      BY <2>1, <2>5, <3>1 DEF ToPush
    <3>2. CASE n # W - 1
      BY <2>1, <2>5, <3>2 DEF ToPush
    <3> QED BY <3>1, <3>2
  <2>7. First' = W - (Len(Underway) + 1) - (W - (n + 1))
    BY <2>4, <2>6 DEF First
  <2>8. CASE n = 0
    <3>1. Len(Underway) = 0 /\ Underway = <<>>
      <4>1. ~Announced /\ ToWrite(io) = 0 /\ At(0, AskedToWrite) = 0 /\ ToPush(dCtl) = 0
        BY <2>1, <2>8 DEF SysInv, PushBalance, PathClear, ToPush
      <4> QED BY <4>1, UnderwayLength
    <3>2. UnderwayBlock' = <<dTag[dCtl.ptr], dCore.block[2]>>
      <4>1. add = <<dTag[dCtl.ptr], dCore.block[2]>> /\ add \in Block
        BY <1>2, <1>3, <2>1, <2>8 DEF Block, D!Block
      <4>2. (n = 0 \/ dCtl.writebackFlag) = TRUE
        BY <2>8
      <4>3. Requested(TRUE, add, Ready(1, io.ready), dCtl', dOut')
        BY <2>1, <4>2
      <4> HIDE DEF add
      <4> QED BY <1>1, <4>1, <4>3, RequestedBlock
    <3>3. First' + Len(Underway) = n
      BY <2>5, <2>7, <2>8, <3>1
    <3> QED BY <1>1, <2>1, <2>2, <2>3, <2>8, <3>1, <3>2, <3>3, Constants DEF UnderwayPushed
  <2>9. CASE n # 0
    <3>1. Requested(dCtl.writebackFlag, dCtl.addWriteback, Ready(1, io.ready), dCtl', dOut')
      <4>1. (n = 0 \/ dCtl.writebackFlag) = dCtl.writebackFlag /\ add = dCtl.addWriteback
        BY <1>3, <2>9
      <4> QED BY <2>1, <4>1
    <3>2. UnderwayBlock' = UnderwayBlock
      BY <1>7, <3>1
    <3>3. First = W - Len(Underway) - (W - n)
      BY <2>1, <2>9 DEF First, ToPush
    <3>4. First' + Len(Underway) = n /\ First' = First
      BY <2>4, <2>5, <2>7, <3>3
    <3> QED BY <1>1, <2>1, <2>2, <2>3, <2>9, <3>2, <3>4, Constants DEF UnderwayPushed
  <2> QED BY <2>8, <2>9
<1> QED BY <1>1, <1>10, <1>11, <1>12, <1>13, <1>14, <1>15, <1>16 DEF Cycle

\* Every step does one of the three to the words underway.
LEMMA UnderwayStep ==
  ASSUME SysInv, SysInv', PathClear, WriteAdd, [Next]_vars
  PROVE  \/ UnderwaySame \/ UnderwayWritten
         \/ Edge180 /\ dOut'.push # NoWord /\ UnderwayPushed
<1>1. CASE Edge90 \/ Ddr \/ UNCHANGED vars
  <2>1. UNCHANGED <<dCtl, dOut, tx, bus, io, ddr>> /\ (clk' = clk \/ (clk = 90 /\ clk' = 180))
    BY <1>1, OtherSteps
  <2>2. Pushed(dOut)' = Pushed(dOut) /\ OnBus' = OnBus
    BY <2>1 DEF Pushed, OnBus, P!WordOnBus
  <2>3. Underway' = Underway
    BY <2>1, <2>2 DEF Underway
  <2> QED BY <2>1, <2>3 DEF UnderwaySame, UnderwayBlock
<1> QED BY <1>1, HartUnderway, SendUnderway, CycleUnderway DEF Next, Edge

\* Nothing is lost on the path: a word that is underway, or in the memory, is
\* found in the same place of the same block after every step.
LEMMA ContentsKept ==
  ASSUME SysInv, SysInv', UnderwaySame \/ UnderwayWritten
  PROVE  Contents' = Contents
<1>1. Len(Underway) \in Nat /\ Len(Underway') \in Nat /\ W \in Nat /\ Half \in Nat
      /\ ToPush(dCtl) \in 0 .. W
  BY UnderwayType, UnderwayTypeNext, Constants, Numbers DEF UnderwayOK, SysInv, NumbersOK
<1>2. First \in Int
  BY <1>1 DEF First
<1>3. ASSUME \A b \in Block, w \in D!Word : Latest(b, w)' = Latest(b, w)
      PROVE  Contents' = Contents
  BY <1>3 DEF Contents
<1>4. CASE UnderwaySame
  <2> SUFFICES ASSUME NEW b \in Block, NEW w \in D!Word PROVE Latest(b, w)' = Latest(b, w)
    BY <1>3
  <2>1. First' = First
    BY <1>4 DEF UnderwaySame, First
  <2>2. CASE UnderwayBlock' = UnderwayBlock
    BY <1>4, <2>1, <2>2 DEF UnderwaySame, Latest
  <2>3. CASE Underway = <<>>
    <3>1. Len(Underway) = 0 /\ Len(Underway') = 0
      BY <1>4, <2>3 DEF UnderwaySame
    <3>2. ~(w >= First /\ w < First + 0)
      BY <1>2, Constants
    <3> QED BY <1>4, <2>1, <3>1, <3>2 DEF UnderwaySame, Latest
  <2> QED BY <1>4, <2>2, <2>3 DEF UnderwaySame
<1>5. CASE UnderwayWritten
  <2> SUFFICES ASSUME NEW b \in Block, NEW w \in D!Word PROVE Latest(b, w)' = Latest(b, w)
    BY <1>3
  <2>1. /\ UnderwayBlock' = UnderwayBlock /\ UnderwayBlock \in Block
        /\ ToPush(dCtl') = ToPush(dCtl)
        /\ Len(Underway) >= Half /\ Len(Underway') = Len(Underway) - Half
        /\ \A i \in 1 .. Len(Underway) - Half : Underway'[i] = Underway[Half + i]
        /\ ddr' = [ddr EXCEPT ![UnderwayBlock] =
                     [v \in 0 .. W - 1 |->
                        IF v >= First /\ v < First + Half THEN Underway[v - First + 1]
                        ELSE ddr[UnderwayBlock][v]]]
    BY <1>5 DEF UnderwayWritten, Dropped
  <2>2. First' = First + Half
    BY <1>1, <2>1 DEF First
  <2>3. CASE b # UnderwayBlock
    BY <2>1, <2>3 DEF Latest
  <2>4. CASE b = UnderwayBlock
    <3>1. ddr \in [Block -> [D!Word -> Data]]
      BY DEF SysInv, PathTypeOK
    <3>2. ddr'[b][w] = IF w >= First /\ w < First + Half THEN Underway[w - First + 1]
                       ELSE ddr[b][w]
      BY <2>1, <2>4, <3>1, Constants
    <3>3. w \in Int
      BY Constants
    <3>4. CASE w >= First /\ w < First + Half
      <4>1. ~(w >= First') /\ w < First + Len(Underway)
        BY <1>1, <1>2, <2>1, <2>2, <3>3, <3>4
      <4> QED BY <2>1, <2>4, <3>2, <3>4, <4>1 DEF Latest
    <3>5. CASE w >= First + Half /\ w < First + Len(Underway)
      <4>1. /\ w - First' + 1 \in 1 .. Len(Underway) - Half
            /\ Half + (w - First' + 1) = w - First + 1
            /\ w >= First' /\ w < First' + Len(Underway')
            /\ w >= First
        BY <1>1, <1>2, <2>1, <2>2, <3>3, <3>5, SMTT(30)
      <4>2. Underway'[w - First' + 1] = Underway[w - First + 1]
        BY <2>1, <4>1
      <4> QED BY <2>1, <2>4, <3>5, <4>1, <4>2 DEF Latest
    <3>6. CASE ~(w >= First /\ w < First + Len(Underway))
      <4>1. ~(w >= First' /\ w < First' + Len(Underway')) /\ ~(w >= First /\ w < First + Half)
        BY <1>1, <1>2, <2>1, <2>2, <3>3, <3>6
      <4> QED BY <2>1, <2>4, <3>2, <3>6, <4>1 DEF Latest
    <3>7. \/ w >= First /\ w < First + Half
          \/ w >= First + Half /\ w < First + Len(Underway)
          \/ ~(w >= First /\ w < First + Len(Underway))
      BY <1>1, <1>2, <2>1, <3>3
    <3> QED BY <3>4, <3>5, <3>6, <3>7
  <2> QED BY <2>3, <2>4
<1> QED BY <1>4, <1>5

\* A word that is pushed joins those of its block.
LEMMA ContentsPushed ==
  ASSUME SysInv, SysInv', UnderwayPushed
  PROVE  \A b \in Block, w \in D!Word :
           Contents'[b][w] = IF b = UnderwayBlock' /\ w = dCtl.nTransfer THEN dOut'.push
                             ELSE Contents[b][w]
<1> SUFFICES ASSUME NEW b \in Block, NEW w \in D!Word
             PROVE  Latest(b, w)' = IF b = UnderwayBlock' /\ w = dCtl.nTransfer THEN dOut'.push
                                    ELSE Latest(b, w)
  BY DEF Contents
<1>1. /\ Underway \in Seq(Data) /\ Len(Underway) \in Nat /\ W \in Nat
      /\ ToPush(dCtl) \in 0 .. W /\ ToPush(dCtl') \in 0 .. W /\ dCtl.nTransfer \in Nat /\ w \in Nat
      /\ Underway' \in Seq(Data)
  <2>1. dCtl.nTransfer \in D!Word
    BY Zenon DEF SysInv, CachesOK, DCacheOK, CacheOK, CtlType
  <2>2. ToPush(dCtl') \in 0 .. W
    BY NumbersNext DEF SysInv, NumbersOK
  <2> QED BY <2>1, <2>2, UnderwayType, UnderwayTypeNext, Constants, Numbers
          DEF UnderwayOK, SysInv, NumbersOK
<1>2. /\ Underway' = Append(Underway, dOut'.push) /\ ddr' = ddr
      /\ First' + Len(Underway) = dCtl.nTransfer
      /\ dCtl.nTransfer = 0 => Underway = <<>>
      /\ dCtl.nTransfer # 0 => First' = First /\ UnderwayBlock' = UnderwayBlock
  BY DEF UnderwayPushed
<1>3. First \in Int /\ First' \in Int
  <2>1. Len(Underway') \in Nat
    BY <1>1
  <2> QED BY <1>1, <2>1 DEF First
<1>4. /\ Len(Underway') = Len(Underway) + 1 /\ Underway'[Len(Underway) + 1] = dOut'.push
      /\ \A i \in 1 .. Len(Underway) : Underway'[i] = Underway[i]
  <2>1. Len(Underway') = Len(Underway) + 1
    BY <1>1, <1>2
  <2> QED BY <1>1, <1>2, <2>1
<1>5. CASE b = UnderwayBlock' /\ w = dCtl.nTransfer
  <2>1. w >= First' /\ w < First' + Len(Underway') /\ w - First' + 1 = Len(Underway) + 1
    BY <1>1, <1>2, <1>3, <1>4, <1>5, SMTT(30)
  <2> QED BY <1>4, <1>5, <2>1 DEF Latest
<1>6. CASE b # UnderwayBlock'
  <2>1. b # UnderwayBlock \/ ~(w >= First /\ w < First + Len(Underway))
    <3>1. CASE dCtl.nTransfer = 0
      <4>1. Len(Underway) = 0
        BY <1>2, <3>1
      <4> QED BY <1>1, <1>3, <4>1
    <3> QED BY <1>2, <1>6, <3>1
  <2> QED BY <1>2, <1>6, <2>1 DEF Latest
<1>7. CASE b = UnderwayBlock' /\ w # dCtl.nTransfer
  <2>1. CASE dCtl.nTransfer = 0
    <3>0. Len(Underway) = 0
      BY <1>2, <2>1
    <3>1. Len(Underway) = 0 /\ First' = 0
      <4>1. First' + 0 = 0
        BY <1>2, <2>1, <3>0
      <4>2. \A f \in Int : f + 0 = 0 => f = 0
        OBVIOUS
      <4> QED BY <1>3, <3>0, <4>1, <4>2, Zenon
    <3>2. ~(w >= First' /\ w < First' + Len(Underway')) /\ ~(w >= First /\ w < First + Len(Underway))
      BY <1>1, <1>3, <1>4, <1>7, <2>1, <3>1
    <3> QED BY <1>2, <1>7, <3>2 DEF Latest
  <2>2. CASE dCtl.nTransfer # 0
    <3>1. First' = First /\ UnderwayBlock' = UnderwayBlock
      BY <1>2, <2>2
    <3>2. CASE w >= First /\ w < First + Len(Underway)
      <4>1. /\ w >= First' /\ w < First' + Len(Underway')
            /\ w - First' + 1 = w - First + 1 /\ w - First + 1 \in 1 .. Len(Underway)
        BY <1>1, <1>3, <1>4, <3>1, <3>2
      <4> QED BY <1>4, <1>7, <3>1, <3>2, <4>1 DEF Latest
    <3>3. CASE ~(w >= First /\ w < First + Len(Underway))
      <4>1. ~(w >= First' /\ w < First' + Len(Underway'))
        BY <1>1, <1>2, <1>3, <1>4, <1>7, <3>1, <3>3
      <4> QED BY <1>2, <1>7, <3>1, <3>3, <4>1 DEF Latest
    <3> QED BY <3>2, <3>3
  <2> QED BY <2>1, <2>2
<1> QED BY <1>5, <1>6, <1>7

-----------------------------------------------------------------------------
(* A write-back and the line that it leaves.                                 *)

\* Its words are those of the block that the line holds.
WriteOut ==
  dCtl.state = "writeBuffer" /\ dCtl.nTransfer # 0
  => UnderwayBlock = <<dTag[dCtl.ptr], dCore.block[2]>>

\* The block that is read is not the one that is written back.
Behind == Transferring(dCtl) /\ Underway # <<>> => UnderwayBlock # dCore.block

\* What has been pushed is what is in the line.
Copied ==
  dCtl.state = "writeBuffer" =>
    \A w \in D!Word : w < dCtl.nTransfer => Contents[UnderwayBlock][w] = dMem[dCtl.ptr][w]

\* Edges of the others: the controller rests, and a line that is written out
\* stays what it is.
LEMMA DataRests ==
  ASSUME SysInv, LinesInv, [Next]_vars, ~Edge180
  PROVE  /\ UNCHANGED <<dCtl, dDirty, dOut>>
         /\ dCtl.state # "normal" \/ dCtl.reqFlag => dCore'.block = dCore.block
         /\ dCtl.state \in {"waitReplacement", "writeBuffer"} => dTag' = dTag /\ dMem' = dMem
<1>1. CASE Edge0
  <2>1. UNCHANGED <<dCtl, dDirty, dOut, dTag, dMem>> /\ CoreMove(LoadStore, dCore, dCore')
    BY <1>1, HartMoves
  <2>2. CachesOK
    BY DEF SysInv
  <2>3. dCtl.state # "normal" \/ dCtl.reqFlag => dCore'.block = dCore.block
    BY <2>1, <2>2, HartWaits
  <2> QED BY <2>1, <2>3
<1>2. CASE Edge270
  <2>1. /\ clk = 270 /\ UNCHANGED <<dCore, dCtl, dDirty, dOut>>
        /\ Sampled(dCore, dCtl, dOut, dTag, dMem, dTag', dMem')
    BY <1>2, MemoriesSample
  <2>2. /\ dOut.cam => dCtl.state = "normal"
        /\ dOut.wr # NoWord => dCtl.state \in {"normal", "readBuffer"}
    BY <2>1 DEF LinesInv, LinesOf, Ends
  <2> QED BY <2>1, <2>2 DEF Sampled
<1>3. CASE Edge90 \/ Ddr \/ UNCHANGED vars
  BY <1>3, OtherSteps
<1> QED BY <1>1, <1>2, <1>3 DEF Next, Edge

\* A cycle that pushes nothing goes on with the same line, and starts a
\* transfer only when the memory is ready.
GoesOn(c, mready, c2) ==
  /\ c2.state = "writeBuffer" /\ c2.nTransfer # 0
       => c.state = "writeBuffer" /\ c2.nTransfer = c.nTransfer /\ c2.ptr = c.ptr
  /\ Transferring(c2) => Transferring(c) \/ (mready /\ ~c.writebackFlag)

\* A controller that pushes no word starts no transfer before the memory is ready.
LEMMA CycleWithoutPush ==
  ASSUME NEW L, NEW SetOf, NEW core, NEW c, InService(c), c.nTransfer \in D!Word,
         NEW tagMem, NEW mem \in [L -> [D!Word -> Data]], c.cacheAdd \in L \X D!Word,
         NEW mready, NEW wready, NEW rready, NEW d,
         NEW dirty, NEW c2, NEW dirty2, NEW o2, o2.push = NoWord,
         Cycle(L, SetOf, core, c, tagMem, mem, mready, wready, rready, d, dirty, c2, dirty2, o2)
  PROVE  GoesOn(c, mready, c2)
<1> DEFINE Goal ==
      /\ c2.state = "writeBuffer" /\ c2.nTransfer # 0
           => c.state = "writeBuffer" /\ c2.nTransfer = c.nTransfer /\ c2.ptr = c.ptr
      /\ Transferring(c2) => Transferring(c) \/ (mready /\ ~c.writebackFlag)
<1> SUFFICES Goal
  BY DEF GoesOn
<1>1. ASSUME NEW l \in L, HitCycle(core, c, mready, l, dirty, c2, dirty2, o2)
      PROVE  c2.state = "normal"
  BY <1>1 DEF HitCycle
<1>2. CASE MissCycle(core, c, mready, dirty, c2, dirty2, o2)
  BY <1>2 DEF MissCycle, Transferring
<1>3. CASE RequestCycle(core, c, mready, dirty, c2, dirty2, o2)
  BY <1>3 DEF RequestCycle, Transferring
<1>4. ASSUME NEW v \in L, ReplaceCycle(c, mready, v, dirty, c2, dirty2, o2)
      PROVE  Transferring(c) /\ c2.nTransfer = 0
  BY <1>4 DEF ReplaceCycle, Transferring, InService
<1>5. ~PushCycle(core, c, mready, wready, tagMem, mem, dirty, c2, dirty2, o2)
  <2>1. mem[c.cacheAdd[1]][c.cacheAdd[2]] \in Data
    OBVIOUS
  <2> QED BY <2>1, Constants DEF PushCycle
<1>6. CASE FillCycle(c, mready, rready, d, dirty, c2, dirty2, o2)
  BY <1>6 DEF FillCycle, Transferring
<1>7. CASE WaitCycle(core, c, mready, dirty, c2, dirty2, o2)
  BY <1>7 DEF WaitCycle, Transferring
<1> QED BY <1>1, <1>2, <1>3, <1>4, <1>5, <1>6, <1>7 DEF Cycle, Transferring

\* A cycle that pushes a word.
LEMMA CycleWithPush ==
  ASSUME NEW L, NEW SetOf, NEW core, NEW c,
         NEW tagMem, NEW mem, NEW mready, NEW wready, NEW rready, NEW d,
         NEW dirty, NEW c2, NEW dirty2, NEW o2, o2.push # NoWord,
         Cycle(L, SetOf, core, c, tagMem, mem, mready, wready, rready, d, dirty, c2, dirty2, o2)
  PROVE  PushCycle(core, c, mready, wready, tagMem, mem, dirty, c2, dirty2, o2)
BY Zenon DEF Cycle, HitCycle, MissCycle, RequestCycle, ReplaceCycle, FillCycle, WaitCycle, Still

\* What a write-back is at every moment.
WriteBackInv == PathClear /\ WriteAdd /\ WriteOut /\ Behind /\ Copied

\* An edge of the data cache's controller, in short.
LEMMA DataCycleIs ==
  ASSUME SysInv, Edge180
  PROVE  /\ clk = 180 /\ clk' = 270 /\ UNCHANGED <<dCore, dTag, dMem, io>>
         /\ InService(dCtl) /\ dCtl.nTransfer \in D!Word /\ dCtl.cacheAdd \in DLine \X D!Word
         /\ dCtl.ptr \in DLine /\ dCtl \in CtlType(DLine) /\ dMem \in [DLine -> [D!Word -> Data]]
         /\ Cycle(DLine, DSetOf, dCore, dCtl, dTag, dMem, Ready(1, io.ready),
                  Ready(1, Len(tx.fifo) < W), Ready(1, rx # <<>>), FromBuffer,
                  dDirty, dCtl', dDirty', dOut')
<1>1. /\ clk = 180 /\ clk' = 270 /\ UNCHANGED <<dCore, dTag, dMem, io>>
      /\ Cycle(DLine, DSetOf, dCore, dCtl, dTag, dMem, Ready(1, io.ready),
               Ready(1, Len(tx.fifo) < W), Ready(1, rx # <<>>), FromBuffer,
               dDirty, dCtl', dDirty', dOut')
  BY CacheCycles DEF pathVars
<1>2. InService(dCtl) /\ dCtl \in CtlType(DLine) /\ dMem \in [DLine -> [D!Word -> Data]]
  BY DEF SysInv, CachesOK, DCacheOK, CacheOK
<1>3. dCtl.nTransfer \in D!Word /\ dCtl.cacheAdd \in DLine \X D!Word /\ dCtl.ptr \in DLine
  BY <1>2, Zenon DEF CtlType
<1> QED BY <1>1, <1>2, <1>3

\* The block of a push, its address and its word.
LEMMA DataPushIs ==
  ASSUME SysInv, SysInv', LinesInv, WriteBackInv, Edge180, dOut'.push # NoWord
  PROVE  /\ UnderwayPushed /\ dCtl.state = "writeBuffer" /\ dCtl'.ptr = dCtl.ptr
         /\ dOut'.push = dMem[dCtl.ptr][dCtl.nTransfer]
         /\ IF dCtl.nTransfer = W - 1 THEN dCtl'.nTransfer = 0 /\ dCtl'.state = "readBuffer"
            ELSE dCtl'.nTransfer = dCtl.nTransfer + 1 /\ dCtl'.state = "writeBuffer"
         /\ UnderwayBlock' = <<dTag[dCtl.ptr], dCore.block[2]>> /\ UnderwayBlock' \in Block
         /\ Holding(DSetOf, dTag, dCtl.ptr, UnderwayBlock')
         /\ UnderwayBlock' # dCore.block
<1>1. UnderwayPushed
  BY CycleUnderway DEF WriteBackInv
<1>2. /\ dCtl.state = "writeBuffer" /\ dCtl'.ptr = dCtl.ptr
      /\ IF dCtl.nTransfer = W - 1 THEN dCtl'.nTransfer = 0 /\ dCtl'.state = "readBuffer"
         ELSE dCtl'.nTransfer = dCtl.nTransfer + 1 /\ dCtl'.state = "writeBuffer"
  <2>1. PushCycle(dCore, dCtl, Ready(1, io.ready), Ready(1, Len(tx.fifo) < W), dTag, dMem,
                  dDirty, dCtl', dDirty', dOut')
    <3>1. Cycle(DLine, DSetOf, dCore, dCtl, dTag, dMem, Ready(1, io.ready),
                    Ready(1, Len(tx.fifo) < W), Ready(1, rx # <<>>), FromBuffer,
                    dDirty, dCtl', dDirty', dOut')
      BY DataCycleIs
    <3> QED BY <3>1, CycleWithPush, Zenon
  <2> QED BY <2>1, Zenon DEF PushCycle
<1>3. dCtl.cacheAdd = <<dCtl.ptr, dCtl.nTransfer>>
  BY <1>2 DEF LinesInv, DataLines
<1>4. dOut'.push = dMem[dCtl.ptr][dCtl.nTransfer]
  BY <1>1, <1>3 DEF UnderwayPushed
<1>5. UnderwayBlock' = <<dTag[dCtl.ptr], dCore.block[2]>>
  BY <1>1, <1>2 DEF UnderwayPushed, WriteBackInv, WriteOut
<1>6. /\ dCtl.ptr \in DLine /\ dTag[dCtl.ptr] \in Tag /\ dCore.block \in Block
      /\ DSetOf[dCtl.ptr] = dCore.block[2]
  <2>1. DSetOf[dCtl.ptr] = dCore.block[2]
    BY <1>2 DEF LinesInv, LinesOf, Replaces
  <2>2. dCtl.ptr \in DLine
    BY DataCycleIs
  <2>3. dCore.block \in Block
    BY Zenon DEF SysInv, CachesOK, DCacheOK, CacheOK, CoreType
  <2> QED BY <1>2, <2>1, <2>2, <2>3 DEF SysInv, CachesOK, DCacheOK, CacheOK
<1>7. UnderwayBlock' \in Block /\ Holding(DSetOf, dTag, dCtl.ptr, UnderwayBlock')
  BY <1>5, <1>6 DEF Block, D!Block, Holding
<1>8. ~Holding(DSetOf, dTag, dCtl.ptr, dCore.block)
  BY <1>2, <1>6 DEF LinesInv, DataLines
<1> QED BY <1>1, <1>2, <1>4, <1>5, <1>7, <1>8

\* Nothing new is underway, and the block of what is stays.
LEMMA UnderwayKept ==
  ASSUME SysInv, SysInv', UnderwaySame \/ UnderwayWritten
  PROVE  /\ Underway' # <<>> => Underway # <<>> /\ UnderwayBlock' = UnderwayBlock
         /\ dCtl.state = "writeBuffer" /\ dCtl.nTransfer # 0 => UnderwayBlock' = UnderwayBlock
         /\ Contents' = Contents
<1>1. Contents' = Contents
  BY ContentsKept
<1>2. dCtl.state = "writeBuffer" /\ dCtl.nTransfer # 0 => ToPush(dCtl) # 0
  <2>1. dCtl.nTransfer \in D!Word
    BY Zenon DEF SysInv, CachesOK, DCacheOK, CacheOK, CtlType
  <2> QED BY <2>1, Constants DEF ToPush
<1>3. Underway \in Seq(Data) /\ Underway' \in Seq(Data)
  BY UnderwayType, UnderwayTypeNext DEF UnderwayOK
<1>4. CASE UnderwaySame
  BY <1>1, <1>2, <1>4 DEF UnderwaySame
<1>5. CASE UnderwayWritten
  <2>1. UnderwayBlock' = UnderwayBlock /\ Len(Underway) >= Half
    BY <1>5 DEF UnderwayWritten, Dropped
  <2>2. Underway # <<>>
    <3>1. \A s \in Seq(Data) : Len(s) >= Half => s # <<>>
      BY Constants
    <3> QED BY <1>3, <2>1, <3>1
  <2> QED BY <1>1, <2>1, <2>2
<1> QED BY <1>4, <1>5

\* WriteBackInv is inductive, given SysInv and LinesInv.
LEMMA WriteBackStep ==
  ASSUME SysInv, SysInv', LinesInv, WriteBackInv, [Next]_vars
  PROVE  WriteBackInv'
<1>1. PathClear' /\ WriteAdd'
  BY PathStep DEF WriteBackInv
<1>2. ASSUME ~Edge180 PROVE WriteOut' /\ Behind' /\ Copied'
  <2>1. /\ Underway' # <<>> => Underway # <<>> /\ UnderwayBlock' = UnderwayBlock
        /\ dCtl.state = "writeBuffer" /\ dCtl.nTransfer # 0 => UnderwayBlock' = UnderwayBlock
        /\ Contents' = Contents
    BY <1>2, UnderwayStep, UnderwayKept DEF WriteBackInv
  <2>2. /\ UNCHANGED <<dCtl, dDirty, dOut>>
        /\ dCtl.state # "normal" \/ dCtl.reqFlag => dCore'.block = dCore.block
        /\ dCtl.state \in {"waitReplacement", "writeBuffer"} => dTag' = dTag /\ dMem' = dMem
    BY <1>2, DataRests
  <2>3. WriteOut'
    BY <2>1, <2>2 DEF WriteBackInv, WriteOut
  <2>4. Behind'
    BY <2>1, <2>2 DEF WriteBackInv, Behind, Transferring
  <2>5. Copied'
    <3>1. CASE dCtl.nTransfer = 0
      <4>1. \A w \in D!Word : ~(w < 0)
        BY Constants
      <4> QED BY <2>2, <3>1, <4>1 DEF Copied
    <3>2. CASE dCtl.nTransfer # 0
      BY <2>1, <2>2, <3>2 DEF WriteBackInv, Copied
    <3> QED BY <3>1, <3>2
  <2> QED BY <2>3, <2>4, <2>5
<1>3. ASSUME Edge180, dOut'.push = NoWord PROVE WriteOut' /\ Behind' /\ Copied'
  <2>1. /\ UnderwaySame
        /\ UNCHANGED <<dCore, dTag, dMem>> /\ clk = 180
    BY <1>3, CycleUnderway, DataCycleIs DEF WriteBackInv
  <2>2. /\ Underway' # <<>> => Underway # <<>> /\ UnderwayBlock' = UnderwayBlock
        /\ dCtl.state = "writeBuffer" /\ dCtl.nTransfer # 0 => UnderwayBlock' = UnderwayBlock
        /\ Contents' = Contents
    BY <2>1, UnderwayKept
  <2>3. /\ dCtl'.state = "writeBuffer" /\ dCtl'.nTransfer # 0
              => /\ dCtl.state = "writeBuffer" /\ dCtl'.nTransfer = dCtl.nTransfer
                 /\ dCtl'.ptr = dCtl.ptr
        /\ Transferring(dCtl') => Transferring(dCtl) \/ (Ready(1, io.ready) /\ ~dCtl.writebackFlag)
    <3>1. /\ InService(dCtl) /\ dCtl.nTransfer \in D!Word /\ dCtl.cacheAdd \in DLine \X D!Word
          /\ dMem \in [DLine -> [D!Word -> Data]]
          /\ Cycle(DLine, DSetOf, dCore, dCtl, dTag, dMem, Ready(1, io.ready),
                       Ready(1, Len(tx.fifo) < W), Ready(1, rx # <<>>), FromBuffer,
                       dDirty, dCtl', dDirty', dOut')
      BY <1>3, DataCycleIs
    <3>2. dOut'.push = NoWord
      BY <1>3
    <3>3. GoesOn(dCtl, Ready(1, io.ready), dCtl')
      BY <3>1, <3>2, CycleWithoutPush, Zenon
    <3> QED BY <3>3 DEF GoesOn
  <2>4. WriteOut'
    BY <2>1, <2>2, <2>3 DEF WriteBackInv, WriteOut
  <2>5. Behind'
    <3>1. Ready(1, io.ready) /\ ~dCtl.writebackFlag => Underway = <<>>
      BY <2>1, NothingUnderway DEF Ready, Announced, WriteBackInv
    <3> QED BY <2>1, <2>2, <2>3, <3>1 DEF WriteBackInv, Behind
  <2>6. Copied'
    <3>1. CASE dCtl'.nTransfer = 0
      <4>1. \A w \in D!Word : ~(w < 0)
        BY Constants
      <4> QED BY <3>1, <4>1 DEF Copied
    <3>2. CASE dCtl'.nTransfer # 0
      BY <2>1, <2>2, <2>3, <3>2 DEF WriteBackInv, Copied
    <3> QED BY <3>1, <3>2
  <2> QED BY <2>4, <2>5, <2>6
<1>4. ASSUME Edge180, dOut'.push # NoWord PROVE WriteOut' /\ Behind' /\ Copied'
  <2>1. UNCHANGED <<dCore, dTag, dMem>> /\ dCtl.nTransfer \in D!Word
    BY <1>4, DataCycleIs
  <2>2. /\ UnderwayPushed /\ dCtl.state = "writeBuffer" /\ dCtl'.ptr = dCtl.ptr
        /\ dOut'.push = dMem[dCtl.ptr][dCtl.nTransfer]
        /\ IF dCtl.nTransfer = W - 1 THEN dCtl'.nTransfer = 0 /\ dCtl'.state = "readBuffer"
           ELSE dCtl'.nTransfer = dCtl.nTransfer + 1 /\ dCtl'.state = "writeBuffer"
        /\ UnderwayBlock' = <<dTag[dCtl.ptr], dCore.block[2]>> /\ UnderwayBlock' \in Block
        /\ UnderwayBlock' # dCore.block
    BY <1>4, DataPushIs
  <2>3. WriteOut' /\ Behind'
    BY <2>1, <2>2 DEF WriteOut, Behind
  <2>4. Copied'
    <3> SUFFICES ASSUME dCtl'.state = "writeBuffer", NEW w \in D!Word, w < dCtl'.nTransfer
                 PROVE  Contents'[UnderwayBlock'][w] = dMem'[dCtl'.ptr][w]
      BY DEF Copied
    <3>1. dCtl'.nTransfer = dCtl.nTransfer + 1
      BY <2>2
    <3>2. Contents'[UnderwayBlock'][w] = IF w = dCtl.nTransfer THEN dOut'.push
                                         ELSE Contents[UnderwayBlock'][w]
      BY <2>2, ContentsPushed
    <3>3. CASE w = dCtl.nTransfer
      BY <2>1, <2>2, <3>2, <3>3
    <3>4. CASE w # dCtl.nTransfer
      <4>1. w < dCtl.nTransfer /\ dCtl.nTransfer # 0
        BY <2>1, <3>1, <3>4, Constants
      <4>2. UnderwayBlock' = UnderwayBlock
        BY <2>2, <4>1 DEF UnderwayPushed
      <4>3. Contents[UnderwayBlock][w] = dMem[dCtl.ptr][w]
        BY <2>2, <4>1 DEF WriteBackInv, Copied
      <4> QED BY <2>1, <2>2, <3>2, <3>4, <4>2, <4>3
    <3> QED BY <3>3, <3>4
  <2> QED BY <2>3, <2>4
<1> QED BY <1>1, <1>2, <1>3, <1>4 DEF WriteBackInv

-----------------------------------------------------------------------------
(* The data cache: what it holds is what the memory and the words underway   *)
(* hold, but for its dirty lines.                                            *)

\* The same for the data cache; v is Contents.
DReads == ReadsOf(dCore.block, dCtl, dOut, io, bus, clk)
DArrives == Transferring(dCtl) => SegmentAt(Arriving, Position, Contents[dCore.block])
DFill == FillOf(dCtl, dOut, dMem, clk = 270, Ends(dOut), Contents[dCore.block])
DClean == CleanOf(DLine, DSetOf, dCtl, dDirty, Ends(dOut), dTag, dMem, Contents)

\* What the data cache reads, fills, holds and writes back are words of Contents.
DataInv == WriteBackInv /\ DReads /\ DArrives /\ DFill /\ DClean

\* What an edge of the data cache says of its reads.
LEMMA DataReadMoves ==
  ASSUME SysInv, SysInv', LinesInv, [Next]_vars
  PROVE  ReadMoves(dCore.block, dCtl, dOut, dCore'.block, dCtl', dOut')
<1>1. CASE Edge180
  <2>1. /\ clk = 180 /\ clk' = 270 /\ UNCHANGED <<mem_access, pathVars>> /\ dCore' = dCore
        /\ Cycle(DLine, DSetOf, dCore, dCtl, dTag, dMem, Ready(1, io.ready),
                 Ready(1, Len(tx.fifo) < W), Ready(1, rx # <<>>), FromBuffer,
                 dDirty, dCtl', dDirty', dOut')
    BY <1>1, CacheCycles
  <2>2. dOut'.read # NoBlock => rx = <<>>
    BY <2>1 DEF SysInv, Gated, pathVars
  <2>3. dCore.block \in Block /\ NoBlock \notin Block
    BY Constants DEF SysInv, CachesOK, DCacheOK, CacheOK, CoreType
  <2>4. Transferring(dCtl') => \/ Transferring(dCtl) /\ dOut'.read = NoBlock
                               \/ io.ready /\ dOut'.read = dCore.block
    <3> HIDE DEF Ready
    <3>1. Ready(1, io.ready) => io.ready
      BY DEF Ready
    <3> QED BY <2>1, <3>1 DEF Cycle, HitCycle, MissCycle, RequestCycle, ReplaceCycle, PushCycle,
                              FillCycle, WaitCycle, Transferring
  <2> QED BY <1>1, <2>1, <2>2, <2>3, <2>4 DEF ReadMoves
<1>2. CASE ~Edge180
  BY <1>2, DataRests DEF ReadMoves, Transferring
<1> QED BY <1>1, <1>2

\* While the block is read, the memory has its words.
LEMMA ReadIsWhole ==
  ASSUME SysInv, WriteBackInv, Transferring(dCtl)
  PROVE  \A w \in D!Word : ddr[dCore.block][w] = Contents[dCore.block][w]
<1> SUFFICES ASSUME NEW w \in D!Word
             PROVE  ddr[dCore.block][w] = Contents[dCore.block][w]
  OBVIOUS
<1>1. dCore.block \in Block
  BY Zenon DEF SysInv, CachesOK, DCacheOK, CacheOK, CoreType
<1>2. CASE Underway = <<>>
  <2>1. Len(Underway) = 0 /\ ToPush(dCtl) \in 0 .. W /\ W \in Nat
    BY <1>2, Constants, Numbers DEF SysInv, NumbersOK
  <2>2. First \in Int
    BY <2>1 DEF First
  <2>3. ~(w >= First /\ w < First + Len(Underway))
    BY <2>1, <2>2, Constants
  <2> QED BY <1>1, <2>3 DEF Contents, Latest
<1>3. CASE Underway # <<>>
  BY <1>1, <1>3 DEF WriteBackInv, Behind, Contents, Latest
<1> QED BY <1>2, <1>3

\* Contents is a function of blocks and words.
LEMMA ContentsForm ==
  \A b \in Block : /\ Contents[b] = [w \in D!Word |-> Contents[b][w]]
                   /\ Contents'[b] = [w \in D!Word |-> Contents'[b][w]]
<1> SUFFICES ASSUME NEW b \in Block
             PROVE  /\ Contents[b] = [w \in D!Word |-> Contents[b][w]]
                    /\ Contents'[b] = [w \in D!Word |-> Contents'[b][w]]
  OBVIOUS
<1>1. Contents[b] = [w \in D!Word |-> Latest(b, w)]
  BY DEF Contents
<1>2. Contents'[b] = [w \in D!Word |-> Latest(b, w)']
  BY DEF Contents
<1> QED BY <1>1, <1>2

\* A step keeps the words of the block that is read, and of those in clean lines.
LEMMA OthersContents ==
  ASSUME SysInv, SysInv', LinesInv, WriteBackInv, [Next]_vars
  PROVE  /\ ~(Edge180 /\ dOut'.push # NoWord) => Contents' = Contents
         /\ Contents'[dCore.block] = Contents[dCore.block]
         /\ \A l \in DLine, b \in Block :
              l \notin dDirty /\ Holding(DSetOf, dTag, l, b)
              => \A w \in D!Word : Contents'[b][w] = Contents[b][w]
<1>1. CASE UnderwaySame \/ UnderwayWritten
  BY <1>1, ContentsKept
<1>2. CASE Edge180 /\ dOut'.push # NoWord
  <2>1. /\ UnderwayPushed /\ dCtl.state = "writeBuffer" /\ UnderwayBlock' \in Block
        /\ Holding(DSetOf, dTag, dCtl.ptr, UnderwayBlock')
        /\ UnderwayBlock' # dCore.block
    BY <1>2, DataPushIs
  <2>2. \A b \in Block, w \in D!Word : b # UnderwayBlock' => Contents'[b][w] = Contents[b][w]
    BY <2>1, ContentsPushed
  <2>3. dCtl.ptr \in dDirty /\ dCtl.ptr \in DLine /\ dCore.block \in Block
    <3>1. dCore.block \in Block /\ dCtl.ptr \in DLine
      BY Zenon DEF SysInv, CachesOK, DCacheOK, CacheOK, CoreType, CtlType
    <3> QED BY <2>1, <3>1 DEF SysInv, CachesOK, DCacheOK, CacheOK
  <2>4. \A l \in DLine : l \notin dDirty => ~Holding(DSetOf, dTag, l, UnderwayBlock')
    BY <2>1, <2>3 DEF LinesInv, DataLines
  <2>5. Contents'[dCore.block] = Contents[dCore.block]
    <3>1. \A w \in D!Word : Contents'[dCore.block][w] = Contents[dCore.block][w]
      BY <2>1, <2>2, <2>3
    <3>2. /\ Contents'[dCore.block] = [w \in D!Word |-> Contents'[dCore.block][w]]
          /\ Contents[dCore.block] = [w \in D!Word |-> Contents[dCore.block][w]]
      BY <2>3, ContentsForm
    <3> QED BY <3>1, <3>2
  <2> QED BY <1>2, <2>2, <2>4, <2>5
<1> QED BY <1>1, <1>2, UnderwayStep DEF WriteBackInv

\* The words that arrive for the data cache stay those of its block.
LEMMA DataArrivesStep ==
  ASSUME SysInv, SysInv', LinesInv, DataInv, [Next]_vars
  PROVE  DReads' /\ DArrives'
<1>1. ReadMoves(dCore.block, dCtl, dOut, dCore'.block, dCtl', dOut')
  BY DataReadMoves
<1>2. ReadsOf(dCore.block, dCtl, dOut, io, bus, clk)
  BY DEF DataInv, DReads
<1>3. OwnStrobes(dCtl, dOut)
  BY DEF OwnStrobes
<1>4. ReadsOf(dCore'.block, dCtl', dOut', io', bus', clk')
  BY <1>1, <1>2, <1>3, ReadsStep, Zenon
<1>5. Transferring(dCtl') => SegmentAt(Arriving', Position', Contents[dCore.block])
  <2> DEFINE v == Contents[dCore.block]
  <2>1. Transferring(dCtl) => SegmentAt(Arriving, Position, v)
    BY DEF DataInv, DArrives
  <2>2. Transferring(dCtl) => \A w \in D!Word : ddr[dCore.block][w] = v[w]
    BY ReadIsWhole DEF DataInv
  <2> HIDE DEF v
  <2>3. Transferring(dCtl') => SegmentAt(Arriving', Position', v)
    BY <1>1, <1>2, <2>1, <2>2, ArrivesStep, Zenon
  <2> QED BY <2>3 DEF v
<1>6. Contents'[dCore.block] = Contents[dCore.block]
  BY OthersContents DEF DataInv
<1>7. Transferring(dCtl') => dCore'.block = dCore.block
  BY <1>1 DEF ReadMoves
<1>8. Transferring(dCtl') => SegmentAt(Arriving', Position', Contents'[dCore'.block])
  BY <1>5, <1>6, <1>7
<1> QED BY <1>4, <1>8 DEF DReads, DArrives

\* Edges that leave the lines alone.
LEMMA DataFillRests ==
  ASSUME SysInv, LinesInv, DataInv, Contents' = Contents,
         UNCHANGED <<dCtl, dDirty, dOut, dTag, dMem>>, (clk = 270) <=> (clk' = 270),
         dCtl.state # "normal" \/ dCtl.reqFlag => dCore'.block = dCore.block
  PROVE  DFill' /\ DClean'
<1>1. /\ FillOf(dCtl, dOut, dMem, clk = 270, Ends(dOut), Contents[dCore.block])
      /\ CleanOf(DLine, DSetOf, dCtl, dDirty, Ends(dOut), dTag, dMem, Contents)
  BY DEF DataInv, DFill, DClean
<1>2. Ends(dOut) => dCtl.reqFlag
  BY DEF LinesInv, LinesOf
<1>3. Ends(dOut)' <=> Ends(dOut)
  BY DEF Ends
<1>4. DFill'
  <2>1. CASE dCtl.state # "normal" \/ dCtl.reqFlag
    BY <1>1, <1>3, <2>1 DEF DFill, FillOf, ShownAt, Filled
  <2>2. CASE ~(dCtl.state # "normal" \/ dCtl.reqFlag)
    <3>1. Filled(dCtl, Ends(dOut)) = 0
      BY <1>2, <2>2 DEF Filled
    <3>2. Filled(dCtl', Ends(dOut)') = 0
      BY <1>3, <3>1 DEF Filled
    <3>3. \A w \in D!Word : ~(w < 0)
      BY Constants
    <3> QED BY <3>2, <3>3 DEF DFill, FillOf
  <2> QED BY <2>1, <2>2
<1>5. DClean'
  BY <1>1, <1>3 DEF DClean, CleanOf, Intact
<1> QED BY <1>4, <1>5

\* 180 degrees: the line that is filled gets the word that it needs.
LEMMA DataFillCycle ==
  ASSUME SysInv, SysInv', LinesInv, DataInv, [Next]_vars, Edge180
  PROVE  DFill' /\ DClean'
<1>1. /\ clk = 180 /\ clk' = 270 /\ UNCHANGED <<dCore, dTag, dMem>>
      /\ InService(dCtl) /\ dCtl \in CtlType(DLine)
      /\ Cycle(DLine, DSetOf, dCore, dCtl, dTag, dMem, Ready(1, io.ready),
               Ready(1, Len(tx.fifo) < W), Ready(1, rx # <<>>), FromBuffer,
               dDirty, dCtl', dDirty', dOut')
  BY DataCycleIs
<1>2. /\ Contents'[dCore.block] = Contents[dCore.block]
      /\ \A l \in DLine, b \in Block :
           l \notin dDirty /\ Holding(DSetOf, dTag, l, b)
           => \A w \in D!Word : Contents'[b][w] = Contents[b][w]
  BY OthersContents DEF DataInv
<1>3. FillOf(dCtl, dOut, dMem, FALSE, FALSE, Contents[dCore.block])
  <2>1. ~(clk = 270) /\ ~Ends(dOut)
    BY <1>1 DEF Ends
  <2>2. /\ \A w \in D!Word : ShownAt(clk = 270, dCtl, dOut, dMem, dCtl.ptr, w)
                           = ShownAt(FALSE, dCtl, dOut, dMem, dCtl.ptr, w)
        /\ Filled(dCtl, Ends(dOut)) = Filled(dCtl, FALSE)
    BY <2>1 DEF ShownAt, Filled
  <2> QED BY <2>2 DEF DataInv, DFill, FillOf
<1>4. dCtl.state = "readBuffer" /\ Ready(1, rx # <<>>)
      => FromBuffer # NoWord /\ FromBuffer = Contents[dCore.block][dCtl.nTransfer]
  <2> SUFFICES ASSUME dCtl.state = "readBuffer", Ready(1, rx # <<>>)
               PROVE  FromBuffer # NoWord /\ FromBuffer = Contents[dCore.block][dCtl.nTransfer]
    OBVIOUS
  <2>1. rx # <<>>
    BY DEF Ready
  <2>2. SegmentAt(Arriving, Position, Contents[dCore.block])
    BY DEF DataInv, DArrives, Transferring
  <2> QED BY <1>1, <2>1, <2>2, FromBufferIs
<1>5. FillOf(dCtl', dOut', dMem, TRUE, dOut'.cam, Contents[dCore.block])
  <2> DEFINE v == Contents[dCore.block]
  <2>1. FillOf(dCtl, dOut, dMem, FALSE, FALSE, v)
    BY <1>3
  <2>2. dCtl.state = "readBuffer" /\ Ready(1, rx # <<>>)
        => FromBuffer # NoWord /\ FromBuffer = v[dCtl.nTransfer]
    BY <1>4
  <2> HIDE DEF v
  <2>3. FillOf(dCtl', dOut', dMem, TRUE, dOut'.cam, v)
    BY <1>1, <2>1, <2>2, CycleFills, Zenon
  <2> QED BY <2>3 DEF v
<1>6. CleanOf(DLine, DSetOf, dCtl, dDirty, FALSE, dTag, dMem, Contents)
  BY <1>1 DEF DataInv, DClean, CleanOf, Intact, Ends
<1>7. CleanOf(DLine, DSetOf, dCtl', dDirty', dOut'.cam, dTag, dMem, Contents')
  <2>1. SameInClean(DLine, DSetOf, dDirty, dTag, Contents, Contents')
    BY <1>2 DEF SameInClean
  <2> QED BY <1>1, <1>6, <2>1, CycleClean, Zenon
<1>8. (clk' = 270) = TRUE /\ Ends(dOut)' = dOut'.cam
  <2>1. dOut'.cam \in BOOLEAN
    BY DEF SysInv, CachesOK, DCacheOK, CacheOK, OutType
  <2> QED BY <1>1, <2>1 DEF Ends
<1>9. DFill'
  <2>1. FillOf(dCtl', dOut', dMem', TRUE, Ends(dOut)', Contents'[dCore'.block])
    BY <1>1, <1>2, <1>5, <1>8
  <2> QED BY <1>8, <2>1 DEF DFill
<1>10. DClean'
  BY <1>1, <1>7, <1>8 DEF DClean
<1> QED BY <1>9, <1>10

\* 270 degrees: the memories take the word and, with the last one, the tag.
LEMMA DataFillSamples ==
  ASSUME SysInv, SysInv', LinesInv, DataInv, [Next]_vars, Edge270
  PROVE  DFill' /\ DClean'
<1>1. /\ clk = 270 /\ clk' = 0 /\ UNCHANGED <<dCore, dCtl, dDirty, dOut>>
      /\ Sampled(dCore, dCtl, dOut, dTag, dMem, dTag', dMem')
  BY MemoriesSample
<1>2. /\ dCore \in CoreType /\ dCtl \in CtlType(DLine)
      /\ dMem \in [DLine -> [D!Word -> Data]] /\ dTag \in [DLine -> Tag \cup {NoTag}]
  BY DEF SysInv, CachesOK, DCacheOK, CacheOK
<1>3. Contents' = Contents
  BY <1>1, OthersContents DEF DataInv, Edge180
<1>4. FillOf(dCtl, dOut, dMem, TRUE, dOut.cam, Contents[dCore.block])
  BY <1>1 DEF DataInv, DFill, FillOf, ShownAt, Filled, Ends
<1>5. CleanOf(DLine, DSetOf, dCtl, dDirty, dOut.cam, dTag, dMem, Contents)
  BY <1>1 DEF DataInv, DClean, CleanOf, Intact, Ends
<1>6. LinesOf(DSetOf, dCore, dCtl, dOut, TRUE, dOut.cam)
  BY <1>1 DEF LinesInv, LinesOf, Ends, Replaces
<1>7. dOut.wr # NoWord /\ ~dOut.ack => dCtl.cacheAdd[1] \in dDirty
  BY <1>1 DEF LinesInv, DataLines
<1>8. CleanOf(DLine, DSetOf, dCtl, dDirty, FALSE, dTag', dMem', Contents)
  BY <1>1, <1>2, <1>4, <1>5, <1>6, <1>7, SampleClean, Zenon
<1>9. ShownIn(DLine, dCtl, dOut, dMem, dMem')
  BY <1>1, <1>2, SampledShown, Zenon
<1>10. DFill'
  <2>1. dCtl.ptr \in DLine
    BY <1>2 DEF CtlType
  <2>2. \A w \in D!Word : dMem'[dCtl.ptr][w] = ShownAt(TRUE, dCtl, dOut, dMem, dCtl.ptr, w)
    BY <1>9, <2>1 DEF ShownIn
  <2>3. \A w \in D!Word : w < Filled(dCtl, FALSE) => w < Filled(dCtl, dOut.cam)
    BY Constants DEF Filled
  <2> QED BY <1>1, <1>3, <1>4, <2>2, <2>3 DEF DFill, FillOf, ShownAt, Ends, Filled
<1>11. DClean'
  BY <1>1, <1>3, <1>8 DEF DClean, CleanOf, Intact, Ends
<1> QED BY <1>10, <1>11

\* DataInv is inductive, given SysInv and LinesInv.
LEMMA DataStep ==
  ASSUME SysInv, SysInv', LinesInv, DataInv, [Next]_vars
  PROVE  DataInv'
<1>1. WriteBackInv' /\ DReads' /\ DArrives'
  BY WriteBackStep, DataArrivesStep DEF DataInv
<1>2. CASE Edge0
  <2>1. /\ clk = 0 /\ clk' = 90 /\ UNCHANGED <<dCtl, dDirty, dOut, dTag, dMem>>
    BY <1>2, HartMoves
  <2>2. ~Edge180
    BY <2>1 DEF Edge180
  <2>3. dCtl.state # "normal" \/ dCtl.reqFlag => dCore'.block = dCore.block
    BY <2>2, DataRests
  <2>4. Contents' = Contents
    BY <2>2, OthersContents DEF DataInv
  <2> QED BY <1>1, <2>1, <2>3, <2>4, DataFillRests DEF DataInv
<1>3. CASE Edge90 \/ Ddr \/ UNCHANGED vars
  <2>1. /\ UNCHANGED <<dCore, dCtl, dDirty, dOut, dTag, dMem>>
        /\ clk' = clk \/ (clk = 90 /\ clk' = 180)
    BY <1>3, OtherSteps
  <2>2. ~Edge180
    BY <1>3, <2>1 DEF Edge180
  <2>3. Contents' = Contents
    BY <2>2, OthersContents DEF DataInv
  <2> QED BY <1>1, <2>1, <2>3, DataFillRests DEF DataInv
<1>4. CASE Edge180
  BY <1>1, <1>4, DataFillCycle DEF DataInv
<1>5. CASE Edge270
  BY <1>1, <1>5, DataFillSamples DEF DataInv
<1> QED BY <1>2, <1>3, <1>4, <1>5 DEF Next, Edge

-----------------------------------------------------------------------------
(* The memory that the hart sees through the data cache.                     *)

\* The line l has a copy of block b that counts, and the word that it shows.
Copy(l, b) == Holding(DSetOf, dTag, l, b) /\ Intact(dCtl, Ends(dOut), l)
ShownData(l, w) == ShownAt(clk = 270, dCtl, dOut, dMem, l, w)

\* DNewest shows the word of the copy, or what is underway or in the memory.
NewestOK ==
  \A b \in Block, w \in D!Word :
    /\ \A l \in DLine : Copy(l, b) => DNewest[b][w] = ShownData(l, w)
    /\ (\A l \in DLine : ~Copy(l, b)) => DNewest[b][w] = Contents[b][w]

\* The refinement mapping's memory in these terms; the CHOOSE of it has no choice.
LEMMA NewestIs ==
  ASSUME SysInv, LinesInv, WriteBackInv
  PROVE  NewestOK
<1> SUFFICES ASSUME NEW b \in Block, NEW w \in D!Word
             PROVE  /\ \A l \in DLine : Copy(l, b) => DNewest[b][w] = ShownData(l, w)
                    /\ (\A l \in DLine : ~Copy(l, b)) => DNewest[b][w] = Contents[b][w]
  BY DEF NewestOK
<1> DEFINE S == {l \in DLine : Copy(l, b)}
<1>1. DNewest[b][w] = IF S = {} THEN InMemory(b, w)
                      ELSE Shown(dCtl, dOut, dMem, CHOOSE l \in S : TRUE, w)
  <2>1. IntactLines(DLine, D!Holds, dCtl, dOut, b) = S
    BY DEF IntactLines, D!Holds, Copy, Holding, Intact, Ends
  <2> HIDE DEF S
  <2>2. b \in D!Block
    BY DEF Block
  <2> QED BY <2>1, <2>2 DEF DNewest
<1>2. ASSUME NEW l \in DLine, Copy(l, b)
      PROVE  DNewest[b][w] = ShownData(l, w)
  <2>1. S = {l}
    BY <1>2 DEF LinesInv, DataLines, Copy
  <2> HIDE DEF S
  <2>2. (CHOOSE m \in S : TRUE) = l /\ S # {}
    BY <2>1
  <2>3. DNewest[b][w] = Shown(dCtl, dOut, dMem, l, w)
    BY <1>1, <2>2
  <2> QED BY <2>3 DEF Shown, ShownData, ShownAt
<1>3. ASSUME \A l \in DLine : ~Copy(l, b)
      PROVE  DNewest[b][w] = Contents[b][w]
  <2>1. DNewest[b][w] = InMemory(b, w)
    BY <1>1, <1>3
  <2>2. Contents[b][w] = Latest(b, w)
    BY DEF Contents
  <2>3. CASE b # UnderwayBlock
    BY <2>1, <2>2, <2>3 DEF InMemory, Latest
  <2>4. CASE b = UnderwayBlock
    <3>1. ToPush(dCtl) = 0
      <4> SUFFICES ASSUME ToPush(dCtl) # 0 PROVE FALSE
        OBVIOUS
      <4>1. dCtl.state = "writeBuffer" /\ dCtl.nTransfer # 0
        BY DEF ToPush
      <4>2. b = <<dTag[dCtl.ptr], dCore.block[2]>>
        BY <2>4, <4>1 DEF WriteBackInv, WriteOut
      <4>3. DSetOf[dCtl.ptr] = dCore.block[2] /\ dCtl.ptr \in DLine
        <5>1. dCtl.ptr \in DLine
          BY Zenon DEF SysInv, CachesOK, DCacheOK, CacheOK, CtlType
        <5> QED BY <4>1, <5>1 DEF LinesInv, LinesOf, Replaces
      <4>4. Holding(DSetOf, dTag, dCtl.ptr, b)
        BY <4>2, <4>3 DEF Holding
      <4>5. ~Ends(dOut)
        BY <4>1 DEF LinesInv, LinesOf
      <4> QED BY <1>3, <4>1, <4>3, <4>4, <4>5 DEF Copy, Intact
    <3>2. Len(Underway) \in Nat /\ W \in Nat /\ w \in 0 .. W - 1
      BY UnderwayType, Constants DEF UnderwayOK
    <3>3. First = W - Len(Underway)
      BY <3>1, <3>2 DEF First
    <3>4. w < First + Len(Underway)
      BY <3>2, <3>3
    <3> QED BY <2>1, <2>2, <2>4, <3>3, <3>4 DEF InMemory, Latest
  <2> QED BY <2>3, <2>4
<1> QED BY <1>2, <1>3

\* The same after a step.
LEMMA NewestIsNext == (SysInv /\ LinesInv /\ WriteBackInv)' => NewestOK'
<1>1. SysInv /\ LinesInv /\ WriteBackInv => NewestOK
  BY NewestIs
<1> QED BY <1>1, PTL

\* A step that leaves the copies of a block, and the words that they show, or
\* the word that counts without one, leaves the word.
LEMMA NewestKept ==
  ASSUME NewestOK, NewestOK', NEW b \in Block, NEW w \in D!Word,
         \A l \in DLine : Copy(l, b)' <=> Copy(l, b),
         \A l \in DLine : Copy(l, b) => ShownData(l, w)' = ShownData(l, w),
         (\A l \in DLine : ~Copy(l, b)) => Contents'[b][w] = Contents[b][w]
  PROVE  DNewest'[b][w] = DNewest[b][w]
<1>1. CASE \E l \in DLine : Copy(l, b)
  <2>1. PICK l \in DLine : Copy(l, b)
    BY <1>1
  <2>2. Copy(l, b)' /\ ShownData(l, w)' = ShownData(l, w)
    BY <2>1
  <2>3. DNewest[b][w] = ShownData(l, w)
    BY <2>1 DEF NewestOK
  <2>4. DNewest'[b][w] = ShownData(l, w)'
    BY <2>2 DEF NewestOK
  <2> QED BY <2>2, <2>3, <2>4
<1>2. CASE \A l \in DLine : ~Copy(l, b)
  <2>1. \A l \in DLine : ~Copy(l, b)'
    BY <1>2
  <2>2. DNewest[b][w] = Contents[b][w]
    BY <1>2 DEF NewestOK
  <2>3. DNewest'[b][w] = Contents'[b][w]
    BY <2>1 DEF NewestOK
  <2> QED BY <1>2, <2>2, <2>3
<1> QED BY <1>1, <1>2

\* DNewest is a function of blocks and words.
LEMMA NewestForm ==
  /\ DNewest = [b \in Block |-> [w \in D!Word |-> DNewest[b][w]]]
  /\ DNewest' = [b \in Block |-> [w \in D!Word |-> DNewest'[b][w]]]
<1>1. DNewest = [b \in Block |-> [w \in D!Word |-> DNewest[b][w]]]
  <2> DEFINE word(b, w) ==
        LET lines == IntactLines(DLine, D!Holds, dCtl, dOut, b)
        IN IF lines = {} THEN InMemory(b, w)
           ELSE Shown(dCtl, dOut, dMem, CHOOSE l \in lines : TRUE, w)
  <2>1. DNewest = [b \in Block |-> [w \in D!Word |-> word(b, w)]]
    BY DEF DNewest, Block
  <2> HIDE DEF word
  <2> QED BY <2>1
<1>2. (DNewest = [b \in Block |-> [w \in D!Word |-> DNewest[b][w]]])'
  BY <1>1, PTL
<1> QED BY <1>1, <1>2

\* A step in which the line v stops being a copy, and its words are then the
\* ones that count without it.
LEMMA NewestLeaves ==
  ASSUME NewestOK, NewestOK', LinesInv, NEW b \in Block, NEW w \in D!Word, NEW v \in DLine,
         \A l \in DLine : Copy(l, b)' <=> Copy(l, b) /\ l # v,
         \A l \in DLine : Copy(l, b) /\ l # v => ShownData(l, w)' = ShownData(l, w),
         Copy(v, b) => Contents'[b][w] = ShownData(v, w),
         (\A l \in DLine : ~Copy(l, b)) => Contents'[b][w] = Contents[b][w]
  PROVE  DNewest'[b][w] = DNewest[b][w]
<1>1. CASE Copy(v, b)
  <2>1. \A l \in DLine : Copy(l, b) => l = v
    BY <1>1 DEF LinesInv, DataLines, Copy
  <2>2. \A l \in DLine : ~Copy(l, b)'
    BY <2>1
  <2>3. DNewest[b][w] = ShownData(v, w)
    BY <1>1 DEF NewestOK
  <2>4. DNewest'[b][w] = Contents'[b][w]
    BY <2>2 DEF NewestOK
  <2> QED BY <1>1, <2>3, <2>4
<1>2. CASE ~Copy(v, b)
  <2>1. \A l \in DLine : Copy(l, b)' <=> Copy(l, b)
    BY <1>2
  <2>2. \A l \in DLine : Copy(l, b) => ShownData(l, w)' = ShownData(l, w)
    BY <1>2
  <2> QED BY <2>1, <2>2, NewestKept
<1> QED BY <1>1, <1>2

\* Word by word, the memory that the hart sees.
LEMMA NewestEqual ==
  ASSUME \A b \in Block, w \in D!Word : DNewest'[b][w] = DNewest[b][w]
  PROVE  DNewest' = DNewest
BY NewestForm

\* Edges that leave the lines alone.
LEMMA NewestRests ==
  ASSUME NewestOK, NewestOK', Contents' = Contents,
         UNCHANGED <<dCtl, dOut, dTag, dMem>>, (clk = 270) <=> (clk' = 270)
  PROVE  DNewest' = DNewest
<1> SUFFICES ASSUME NEW b \in Block, NEW w \in D!Word
             PROVE  DNewest'[b][w] = DNewest[b][w]
  BY NewestEqual
<1>1. \A l \in DLine : Copy(l, b)' <=> Copy(l, b)
  BY DEF Copy, Ends, Intact, Holding
<1>2. \A l \in DLine : ShownData(l, w)' = ShownData(l, w)
  BY DEF ShownData, ShownAt
<1>3. Contents'[b][w] = Contents[b][w]
  OBVIOUS
<1> QED BY <1>1, <1>2, <1>3, NewestKept

\* 270 degrees: the memories take what the strobes show, and a line that has
\* been filled becomes the copy of its block.
LEMMA NewestSamples ==
  ASSUME SysInv, LinesInv, DataInv, NewestOK, NewestOK', Edge270, Contents' = Contents
  PROVE  DNewest' = DNewest
<1>1. /\ clk = 270 /\ clk' = 0 /\ UNCHANGED <<dCore, dCtl, dDirty, dOut>>
      /\ Sampled(dCore, dCtl, dOut, dTag, dMem, dTag', dMem')
  BY MemoriesSample
<1>2. /\ dCore \in CoreType /\ dCtl \in CtlType(DLine) /\ dOut.cam \in BOOLEAN
      /\ dMem \in [DLine -> [D!Word -> Data]] /\ dTag \in [DLine -> Tag \cup {NoTag}]
  BY DEF SysInv, CachesOK, DCacheOK, CacheOK, OutType
<1>3. ShownIn(DLine, dCtl, dOut, dMem, dMem')
  BY <1>1, <1>2, SampledShown, Zenon
<1>4. \A l \in DLine, w \in D!Word : ShownData(l, w)' = ShownData(l, w)
  BY <1>1, <1>3 DEF ShownIn, ShownData, ShownAt
<1>5. \A l \in DLine, b \in Block :
        /\ Copy(l, b)' <=> Holding(DSetOf, dTag', l, b) /\ Intact(dCtl, FALSE, l)
        /\ Copy(l, b) <=> Holding(DSetOf, dTag, l, b) /\ Intact(dCtl, dOut.cam, l)
  BY <1>1 DEF Copy, Ends, Holding, Intact
<1> SUFFICES ASSUME NEW b \in Block, NEW w \in D!Word
             PROVE  DNewest'[b][w] = DNewest[b][w]
  BY NewestEqual
<1>6. CASE ~dOut.cam
  <2>1. dTag' = dTag
    BY <1>1, <1>6 DEF Sampled
  <2>2. \A l \in DLine : Copy(l, b)' <=> Copy(l, b)
    BY <1>5, <1>6, <2>1 DEF Intact
  <2> QED BY <1>4, <2>2, NewestKept
<1>7. CASE dOut.cam
  <2>1. dTag' = [dTag EXCEPT ![dCtl.ptr] = dCore.block[1]]
    BY <1>1, <1>7 DEF Sampled
  <2>2. /\ DCacheOK /\ DataLines /\ LinesOf(DSetOf, dCore, dCtl, dOut, TRUE, dOut.cam)
        /\ dCtl.state = "normal" /\ Ends(dOut)
    <3>1. (clk = 270) = TRUE /\ Ends(dOut) = dOut.cam
      BY <1>1, <1>2 DEF Ends
    <3>2. LinesOf(DSetOf, dCore, dCtl, dOut, TRUE, dOut.cam)
      BY <3>1 DEF LinesInv
    <3>3. dCtl.state = "normal"
      BY <1>7, <3>2 DEF LinesOf
    <3> QED BY <1>7, <3>1, <3>2, <3>3 DEF SysInv, CachesOK, LinesInv
  <2>3. /\ Holding(DSetOf, dTag', dCtl.ptr, dCore.block)
        /\ \A l \in DLine, a \in Block :
             Holding(DSetOf, dTag', l, a)
             => IF l = dCtl.ptr THEN a = dCore.block
                ELSE Holding(DSetOf, dTag, l, a) /\ a # dCore.block
    BY <1>1, <1>7, <2>1, <2>2, TagWritten
  <2>4. dCtl.ptr \in DLine /\ dCore.block \in Block
    BY <1>2, Zenon DEF CtlType, CoreType
  <2>5. CASE b = dCore.block
    <3>1. \A l \in DLine : ~Copy(l, b)
      BY <2>2, <2>5 DEF DataLines, Copy
    <3>2. DNewest[b][w] = Contents[b][w]
      BY <3>1 DEF NewestOK
    <3>3. ShownData(dCtl.ptr, w) = Contents[b][w]
      <4>1. w < Filled(dCtl, Ends(dOut))
        BY <2>2, Constants DEF Filled
      <4> QED BY <2>5, <4>1 DEF DataInv, DFill, FillOf, ShownData
    <3>4. DNewest'[b][w] = ShownData(dCtl.ptr, w)
      <4>1. PICK p \in DLine : p = dCtl.ptr
        BY <2>4
      <4>2. Copy(p, b)'
        BY <1>1, <2>2, <2>3, <2>5, <4>1 DEF Copy, Ends, Intact
      <4>3. DNewest'[b][w] = ShownData(p, w)'
        BY <4>2 DEF NewestOK
      <4> QED BY <1>4, <4>1, <4>3
    <3> QED BY <3>2, <3>3, <3>4
  <2>6. CASE b # dCore.block
    <3>1. \A l \in DLine : Copy(l, b)' <=> Copy(l, b)
      <4> SUFFICES ASSUME NEW l \in DLine PROVE Copy(l, b)' <=> Copy(l, b)
        OBVIOUS
      <4>1. CASE l = dCtl.ptr
        <5>1. ~Holding(DSetOf, dTag', l, b)
          BY <2>3, <2>6, <4>1
        <5>2. ~Intact(dCtl, dOut.cam, l)
          BY <1>7, <4>1 DEF Intact
        <5> QED BY <1>5, <5>1, <5>2
      <4>2. CASE l # dCtl.ptr
        <5>1. dTag'[l] = dTag[l]
          BY <1>2, <2>1, <4>2
        <5> QED BY <1>5, <4>2, <5>1 DEF Holding, Intact
      <4> QED BY <4>1, <4>2
    <3> QED BY <1>4, <3>1, NewestKept
  <2> QED BY <2>5, <2>6
<1> QED BY <1>6, <1>7

\* The copies of the blocks, before and after an edge of the controllers.
LEMMA CopiesInCycle ==
  ASSUME SysInv, SysInv', Edge180
  PROVE  /\ \A l \in DLine, b \in Block :
              /\ Copy(l, b) <=> Holding(DSetOf, dTag, l, b) /\ Intact(dCtl, FALSE, l)
              /\ Copy(l, b)' <=> Holding(DSetOf, dTag, l, b) /\ Intact(dCtl', dOut'.cam, l)
         /\ \A l \in DLine, w \in D!Word :
              /\ ShownData(l, w) = dMem[l][w]
              /\ ShownData(l, w)' = ShownAt(TRUE, dCtl', dOut', dMem, l, w)
<1>1. clk = 180 /\ clk' = 270 /\ UNCHANGED <<dTag, dMem>>
  BY DataCycleIs
<1>2. dOut'.cam \in BOOLEAN
  BY DEF SysInv, CachesOK, DCacheOK, CacheOK, OutType
<1>3. /\ ~Ends(dOut) /\ Ends(dOut)' = dOut'.cam
      /\ (clk = 270) = FALSE /\ (clk' = 270) = TRUE
  BY <1>1, <1>2 DEF Ends
<1>4. \A l \in DLine, b \in Block :
        /\ Copy(l, b) <=> Holding(DSetOf, dTag, l, b) /\ Intact(dCtl, FALSE, l)
        /\ Copy(l, b)' <=> Holding(DSetOf, dTag, l, b) /\ Intact(dCtl', dOut'.cam, l)
  BY <1>1, <1>3 DEF Copy, Holding, Intact
<1>5. \A l \in DLine, w \in D!Word :
        /\ ShownData(l, w) = dMem[l][w]
        /\ ShownData(l, w)' = ShownAt(TRUE, dCtl', dOut', dMem, l, w)
  BY <1>1, <1>3 DEF ShownData, ShownAt
<1> QED BY <1>4, <1>5

\* The memory that the hart sees after a hit of line l.
Accessed(l) ==
  /\ dMem[l][dCore.word] = DNewest[dCore.block][dCore.word]
  /\ DNewest' = IF StoreOf(dCore, dCtl)
                THEN [DNewest EXCEPT ![dCore.block][dCore.word] = dCore.data]
                ELSE DNewest

\* A hit reads the word of the line, or writes it.
LEMMA NewestHit ==
  ASSUME SysInv, SysInv', LinesInv, NewestOK, NewestOK', Edge180, Contents' = Contents,
         NEW l \in DLine, Holding(DSetOf, dTag, l, dCore.block), NEW mready,
         HitCycle(dCore, dCtl, mready, l, dDirty, dCtl', dDirty', dOut')
  PROVE  Accessed(l)
<1>1. /\ dCtl.state = "normal" /\ dCtl'.state = "normal" /\ ~dOut'.cam
      /\ dCtl'.cacheAdd = <<l, dCore.word>>
      /\ dOut'.wr = (IF StoreOf(dCore, dCtl) THEN dCore.data ELSE NoWord)
  BY Zenon DEF HitCycle
<1>2. dCore.block \in Block /\ dCore.word \in D!Word /\ dCore.data \in Data /\ NoWord \notin Data
  BY Constants DEF SysInv, CachesOK, DCacheOK, CacheOK, CoreType
<1>3. \A m \in DLine, b \in Block :
        /\ Copy(m, b) <=> Holding(DSetOf, dTag, m, b)
        /\ Copy(m, b)' <=> Holding(DSetOf, dTag, m, b)
  BY <1>1, CopiesInCycle DEF Intact
<1>4. \A m \in DLine, w \in D!Word :
        /\ ShownData(m, w) = dMem[m][w]
        /\ ShownData(m, w)' = IF StoreOf(dCore, dCtl) /\ m = l /\ w = dCore.word
                              THEN dCore.data ELSE dMem[m][w]
  BY <1>1, <1>2, CopiesInCycle DEF ShownAt
<1>5. \A b \in Block : Holding(DSetOf, dTag, l, b) => b = dCore.block
  <2> SUFFICES ASSUME NEW b \in Block, Holding(DSetOf, dTag, l, b) PROVE b = dCore.block
    OBVIOUS
  <2>1. b[1] = dCore.block[1] /\ b[2] = dCore.block[2]
    BY DEF Holding
  <2>2. \A x, y \in Tag \X Set : x[1] = y[1] /\ x[2] = y[2] => x = y
    OBVIOUS
  <2> QED BY <1>2, <2>1, <2>2 DEF Block, D!Block
<1>6. \A b \in Block, w \in D!Word :
        DNewest'[b][w] = IF StoreOf(dCore, dCtl) /\ b = dCore.block /\ w = dCore.word
                         THEN dCore.data ELSE DNewest[b][w]
  <2> SUFFICES ASSUME NEW b \in Block, NEW w \in D!Word
               PROVE  DNewest'[b][w] = IF StoreOf(dCore, dCtl) /\ b = dCore.block /\ w = dCore.word
                                       THEN dCore.data ELSE DNewest[b][w]
    OBVIOUS
  <2>1. CASE b = dCore.block
    <3>1. Copy(l, b) /\ Copy(l, b)'
      BY <1>3, <2>1
    <3>2. DNewest[b][w] = ShownData(l, w) /\ DNewest'[b][w] = ShownData(l, w)'
      BY <3>1 DEF NewestOK
    <3> QED BY <1>4, <2>1, <3>2
  <2>2. CASE b # dCore.block
    <3>1. \A m \in DLine : Copy(m, b)' <=> Copy(m, b)
      BY <1>3
    <3>2. \A m \in DLine : Copy(m, b) => ShownData(m, w)' = ShownData(m, w)
      BY <1>3, <1>4, <1>5, <2>2
    <3>3. DNewest'[b][w] = DNewest[b][w]
      BY <3>1, <3>2, NewestKept
    <3> QED BY <2>2, <3>3
  <2> QED BY <2>1, <2>2
<1>7. dMem[l][dCore.word] = DNewest[dCore.block][dCore.word]
  BY <1>2, <1>3, <1>4 DEF NewestOK
<1>8. CASE ~StoreOf(dCore, dCtl)
  <2>1. DNewest' = DNewest
    BY <1>6, <1>8, NewestEqual
  <2> QED BY <1>7, <1>8, <2>1 DEF Accessed
<1>9. CASE StoreOf(dCore, dCtl)
  <2>1. DNewest' = [DNewest EXCEPT ![dCore.block][dCore.word] = dCore.data]
    <3> DEFINE now(b, w) == DNewest[b][w]
               next(b, w) == DNewest'[b][w]
    <3>1. /\ DNewest = [b \in Block |-> [w \in D!Word |-> now(b, w)]]
          /\ DNewest' = [b \in Block |-> [w \in D!Word |-> next(b, w)]]
      BY NewestForm
    <3>2. \A b \in Block, w \in D!Word :
            next(b, w) = IF b = dCore.block /\ w = dCore.word THEN dCore.data ELSE now(b, w)
      BY <1>6, <1>9
    <3> HIDE DEF now, next
    <3>3. [DNewest EXCEPT ![dCore.block][dCore.word] = dCore.data]
          = [b \in Block |-> [w \in D!Word |->
               IF b = dCore.block /\ w = dCore.word THEN dCore.data ELSE now(b, w)]]
      BY <1>2, <3>1
    <3> QED BY <3>1, <3>2, <3>3
  <2> QED BY <1>7, <1>9, <2>1 DEF Accessed
<1> QED BY <1>8, <1>9

\* A cycle that neither hits nor pushes: the lines stay copies, but for a
\* clean one that is about to be refilled.
ClearedBy(v) ==
  /\ \A l \in DLine, b \in Block : Copy(l, b)' <=> Copy(l, b) /\ l # v
  /\ \A l \in DLine, b \in Block, w \in D!Word :
       Copy(l, b) /\ l # v => ShownData(l, w)' = dMem[l][w]
  /\ v \in DLine => v \notin dDirty /\ dCtl.state = "waitReplacement"

\* Such a cycle takes at most one line from the copies, and then a clean one.
LEMMA CycleClears ==
  ASSUME SysInv, SysInv', Edge180, dOut'.push = NoWord,
         NEW mready, NEW wready, NEW rready, NEW d,
         Cycle(DLine, DSetOf, dCore, dCtl, dTag, dMem, mready, wready, rready, d,
               dDirty, dCtl', dDirty', dOut'),
         \A l \in DLine : ~HitCycle(dCore, dCtl, mready, l, dDirty, dCtl', dDirty', dOut')
  PROVE  \E v \in DLine \cup {NoLine} : ClearedBy(v)
<1>1. NoLine \notin DLine
  BY SystemAssumption DEF D!CacheAssumption
<1>2. /\ \A l \in DLine, b \in Block :
           /\ Copy(l, b) <=> Holding(DSetOf, dTag, l, b) /\ Intact(dCtl, FALSE, l)
           /\ Copy(l, b)' <=> Holding(DSetOf, dTag, l, b) /\ Intact(dCtl', dOut'.cam, l)
      /\ \A l \in DLine, w \in D!Word :
           ShownData(l, w)' = ShownAt(TRUE, dCtl', dOut', dMem, l, w)
  BY CopiesInCycle
<1>3. ASSUME dOut'.wr = NoWord, ~dOut'.cam, dCtl'.ptr = dCtl.ptr,
             dCtl.state = "readBuffer" <=> dCtl'.state = "readBuffer"
      PROVE  ClearedBy(NoLine)
  <2>1. \A l \in DLine, b \in Block : Copy(l, b)' <=> Copy(l, b)
    BY <1>2, <1>3 DEF Intact
  <2>2. \A l \in DLine, w \in D!Word : ShownData(l, w)' = dMem[l][w]
    BY <1>2, <1>3 DEF ShownAt
  <2> QED BY <1>1, <2>1, <2>2 DEF ClearedBy
<1>4. ASSUME NEW v \in DLine, ReplaceCycle(dCtl, mready, v, dDirty, dCtl', dDirty', dOut')
      PROVE  \E u \in DLine \cup {NoLine} : ClearedBy(u)
  <2>1. /\ dCtl.state = "waitReplacement" /\ dCtl'.ptr = v /\ dOut'.wr = NoWord /\ ~dOut'.cam
        /\ dCtl'.state = IF v \in dDirty THEN "writeBuffer" ELSE "readBuffer"
    BY <1>4, Zenon DEF ReplaceCycle, Still
  <2>2. \A l \in DLine, w \in D!Word : ShownData(l, w)' = dMem[l][w]
    BY <1>2, <2>1 DEF ShownAt
  <2>3. CASE v \in dDirty
    <3>1. \A l \in DLine, b \in Block : Copy(l, b)' <=> Copy(l, b)
      BY <1>2, <2>1, <2>3 DEF Intact
    <3>2. ClearedBy(NoLine)
      BY <1>1, <2>2, <3>1 DEF ClearedBy
    <3> QED BY <3>2
  <2>4. CASE v \notin dDirty
    <3>1. \A l \in DLine, b \in Block : Copy(l, b)' <=> Copy(l, b) /\ l # v
      BY <1>2, <2>1, <2>4 DEF Intact
    <3>2. ClearedBy(v)
      BY <2>1, <2>2, <2>4, <3>1 DEF ClearedBy
    <3> QED BY <3>2
  <2> QED BY <2>3, <2>4
<1>5. CASE FillCycle(dCtl, mready, rready, d, dDirty, dCtl', dDirty', dOut')
  <2>1. /\ dCtl.state = "readBuffer" /\ dCtl'.ptr = dCtl.ptr
        /\ dCtl'.cacheAdd = <<dCtl.ptr, dCtl.nTransfer>>
        /\ dCtl'.state = "readBuffer" \/ dOut'.cam
    BY <1>5, Zenon DEF FillCycle
  <2>2. \A l \in DLine, b \in Block : (Copy(l, b)' <=> Copy(l, b)) /\ (Copy(l, b) => l # dCtl.ptr)
    BY <1>2, <2>1 DEF Intact
  <2>3. \A l \in DLine, w \in D!Word : l # dCtl.ptr => ShownData(l, w)' = dMem[l][w]
    BY <1>2, <2>1 DEF ShownAt
  <2>4. ClearedBy(NoLine)
    BY <1>1, <2>2, <2>3 DEF ClearedBy
  <2> QED BY <2>4
<1>6. CASE MissCycle(dCore, dCtl, mready, dDirty, dCtl', dDirty', dOut')
  <2>1. /\ dOut'.wr = NoWord /\ ~dOut'.cam /\ dCtl'.ptr = dCtl.ptr
        /\ dCtl.state = "normal" /\ dCtl'.state = "waitReady"
    BY <1>6, Zenon DEF MissCycle, Still
  <2> QED BY <1>3, <2>1
<1>7. CASE RequestCycle(dCore, dCtl, mready, dDirty, dCtl', dDirty', dOut')
  <2>1. /\ dOut'.wr = NoWord /\ ~dOut'.cam /\ dCtl'.ptr = dCtl.ptr
        /\ dCtl.state = "waitReady" /\ dCtl'.state = "waitReplacement"
    BY <1>7, Zenon DEF RequestCycle, Still
  <2> QED BY <1>3, <2>1
<1>8. CASE WaitCycle(dCore, dCtl, mready, dDirty, dCtl', dDirty', dOut')
  <2>1. /\ dOut'.wr = NoWord /\ ~dOut'.cam /\ dCtl'.ptr = dCtl.ptr
        /\ dCtl'.state = dCtl.state
    BY <1>8, Zenon DEF WaitCycle, Still
  <2> QED BY <1>3, <2>1
<1>9. ~PushCycle(dCore, dCtl, mready, wready, dTag, dMem, dDirty, dCtl', dDirty', dOut')
  <2>1. dMem \in [DLine -> [D!Word -> Data]] /\ dCtl.cacheAdd \in DLine \X D!Word
    BY DataCycleIs
  <2>2. dMem[dCtl.cacheAdd[1]][dCtl.cacheAdd[2]] \in Data
    BY <2>1
  <2> QED BY <2>2, Constants DEF PushCycle
<1> QED BY <1>4, <1>5, <1>6, <1>7, <1>8, <1>9, Zenon DEF Cycle

\* Such a cycle leaves the memory that the hart sees: a clean line shows what
\* counts without it.
LEMMA NewestCleared ==
  ASSUME SysInv, SysInv', LinesInv, DataInv, NewestOK, NewestOK', Edge180, Contents' = Contents,
         NEW v \in DLine \cup {NoLine}, ClearedBy(v)
  PROVE  DNewest' = DNewest
<1> SUFFICES ASSUME NEW b \in Block, NEW w \in D!Word
             PROVE  DNewest'[b][w] = DNewest[b][w]
  BY NewestEqual
<1>1. \A l \in DLine : ShownData(l, w) = dMem[l][w]
  BY CopiesInCycle
<1>2. /\ \A l \in DLine : Copy(l, b)' <=> Copy(l, b) /\ l # v
      /\ \A l \in DLine : Copy(l, b) /\ l # v => ShownData(l, w)' = ShownData(l, w)
  BY <1>1 DEF ClearedBy
<1>3. CASE v \in DLine
  <2>1. Copy(v, b) => Contents'[b][w] = ShownData(v, w)
    <3> SUFFICES ASSUME Copy(v, b) PROVE Contents'[b][w] = ShownData(v, w)
      OBVIOUS
    <3>1. v \notin dDirty /\ Holding(DSetOf, dTag, v, b) /\ Intact(dCtl, Ends(dOut), v)
      BY <1>3 DEF ClearedBy, Copy
    <3>2. dMem[v][w] = Contents[b][w]
      BY <1>3, <3>1 DEF DataInv, DClean, CleanOf
    <3> QED BY <1>1, <1>3, <3>2
  <2> QED BY <1>2, <1>3, <2>1, NewestLeaves
<1>4. CASE v \notin DLine
  <2>1. \A l \in DLine : l # v
    BY <1>4
  <2>2. /\ \A l \in DLine : Copy(l, b)' <=> Copy(l, b)
        /\ \A l \in DLine : Copy(l, b) => ShownData(l, w)' = ShownData(l, w)
    BY <1>2, <2>1
  <2> QED BY <2>2, NewestKept
<1> QED BY <1>3, <1>4

\* A push leaves the memory that the hart sees: the line is a copy until its
\* last word is underway, and then all of them are.
LEMMA NewestPushed ==
  ASSUME SysInv, SysInv', LinesInv, DataInv, NewestOK, NewestOK', Edge180, dOut'.push # NoWord
  PROVE  DNewest' = DNewest
<1>1. /\ UnderwayPushed /\ dCtl.state = "writeBuffer" /\ dCtl'.ptr = dCtl.ptr
      /\ dOut'.push = dMem[dCtl.ptr][dCtl.nTransfer]
      /\ IF dCtl.nTransfer = W - 1 THEN dCtl'.nTransfer = 0 /\ dCtl'.state = "readBuffer"
         ELSE dCtl'.nTransfer = dCtl.nTransfer + 1 /\ dCtl'.state = "writeBuffer"
      /\ UnderwayBlock' = <<dTag[dCtl.ptr], dCore.block[2]>> /\ UnderwayBlock' \in Block
      /\ Holding(DSetOf, dTag, dCtl.ptr, UnderwayBlock')
  BY DataPushIs DEF DataInv
<1>2. dCtl.ptr \in DLine /\ dCtl.nTransfer \in D!Word
  BY DataCycleIs
<1>3. dOut'.wr = NoWord /\ ~dOut'.cam
  <2>1. Cycle(DLine, DSetOf, dCore, dCtl, dTag, dMem, Ready(1, io.ready),
              Ready(1, Len(tx.fifo) < W), Ready(1, rx # <<>>), FromBuffer,
              dDirty, dCtl', dDirty', dOut')
    BY DataCycleIs
  <2>2. PushCycle(dCore, dCtl, Ready(1, io.ready), Ready(1, Len(tx.fifo) < W),
                  dTag, dMem, dDirty, dCtl', dDirty', dOut')
    BY <2>1, CycleWithPush, Zenon
  <2> QED BY <2>2, Zenon DEF PushCycle
<1> DEFINE full == dCtl.nTransfer = W - 1
<1>4. \A l \in DLine, b \in Block :
        Copy(l, b)' <=> Copy(l, b) /\ ~(full /\ l = dCtl.ptr)
  BY <1>1, <1>3, CopiesInCycle DEF Intact
<1>5. \A l \in DLine, w \in D!Word : ShownData(l, w) = dMem[l][w] /\ ShownData(l, w)' = dMem[l][w]
  BY <1>3, CopiesInCycle DEF ShownAt
<1>6. \A b \in Block, w \in D!Word :
        Contents'[b][w] = IF b = UnderwayBlock' /\ w = dCtl.nTransfer THEN dOut'.push
                          ELSE Contents[b][w]
  BY <1>1, ContentsPushed
<1>7. Copy(dCtl.ptr, UnderwayBlock')
  BY <1>1, <1>2, CopiesInCycle DEF Intact
<1>8. \A b \in Block : Holding(DSetOf, dTag, dCtl.ptr, b) => b = UnderwayBlock'
  <2> SUFFICES ASSUME NEW b \in Block, Holding(DSetOf, dTag, dCtl.ptr, b)
               PROVE  b = UnderwayBlock'
    OBVIOUS
  <2> DEFINE u == UnderwayBlock'
  <2>1. b[1] = u[1] /\ b[2] = u[2] /\ u \in Block
    BY <1>1 DEF Holding
  <2> HIDE DEF u
  <2>2. \A x, y \in Tag \X Set : x[1] = y[1] /\ x[2] = y[2] => x = y
    OBVIOUS
  <2>3. b = u
    BY <2>1, <2>2 DEF Block, D!Block
  <2> QED BY <2>3 DEF u
<1> SUFFICES ASSUME NEW b \in Block, NEW w \in D!Word
             PROVE  DNewest'[b][w] = DNewest[b][w]
  BY NewestEqual
<1>9. (\A l \in DLine : ~Copy(l, b)) => Contents'[b][w] = Contents[b][w]
  BY <1>2, <1>6, <1>7
<1>10. CASE ~full
  BY <1>4, <1>5, <1>9, <1>10, NewestKept
<1>11. CASE full
  <2>1. Copy(dCtl.ptr, b) => Contents'[b][w] = ShownData(dCtl.ptr, w)
    <3> SUFFICES ASSUME Copy(dCtl.ptr, b) PROVE Contents'[b][w] = dMem[dCtl.ptr][w]
      BY <1>2, <1>5
    <3>1. b = UnderwayBlock'
      BY <1>8 DEF Copy
    <3>2. CASE w = dCtl.nTransfer
      BY <1>1, <1>6, <3>1, <3>2
    <3>3. CASE w # dCtl.nTransfer
      <4>1. w < dCtl.nTransfer /\ dCtl.nTransfer # 0
        BY <1>11, <3>3, Constants
      <4>2. UnderwayBlock = <<dTag[dCtl.ptr], dCore.block[2]>>
        BY <1>1, <4>1 DEF DataInv, WriteBackInv, WriteOut
      <4>3. Contents[UnderwayBlock][w] = dMem[dCtl.ptr][w]
        BY <1>1, <4>1 DEF DataInv, WriteBackInv, Copied
      <4> QED BY <1>1, <1>6, <3>1, <3>3, <4>2, <4>3
    <3> QED BY <3>2, <3>3
  <2>2. \A l \in DLine : Copy(l, b)' <=> Copy(l, b) /\ l # dCtl.ptr
    BY <1>4, <1>11
  <2>3. \A l \in DLine : Copy(l, b) /\ l # dCtl.ptr => ShownData(l, w)' = ShownData(l, w)
    BY <1>5
  <2> QED BY <1>2, <1>9, <2>1, <2>2, <2>3, NewestLeaves
<1> QED BY <1>10, <1>11

-----------------------------------------------------------------------------
(* The data cache implements MemoryPort.                                     *)

\* DataInv holds out of reset.
LEMMA DataHoldsInit == Init => DataInv
<1> SUFFICES ASSUME Init PROVE DataInv
  OBVIOUS
<1>1. /\ clk = 90 /\ dOut = D!Quiet /\ dDirty = {}
      /\ dCtl.state = "normal" /\ ~dCtl.reqFlag /\ dCtl.nTransfer = 0
      /\ ~dCtl.writebackFlag
      /\ dTag = [l \in DLine |-> NoTag]
      /\ ~bus.req /\ io.state = "idle"
  BY DEF Init, D!CacheInit, D!Quiet, P!PathInit
<1>2. ~Ends(dOut) /\ ~Transferring(dCtl) /\ ~Announced
  BY <1>1 DEF Ends, Transferring, Announced, D!Quiet
<1>3. \A l \in DLine, b \in Block : ~Holding(DSetOf, dTag, l, b)
  <2> SUFFICES ASSUME NEW l \in DLine, NEW b \in Block PROVE dTag[l] # b[1]
    BY DEF Holding
  <2>1. b[1] \in Tag
    BY DEF Block, D!Block
  <2> QED BY <1>1, <2>1, SystemAssumption DEF D!CacheAssumption
<1>4. WriteBackInv
  BY <1>1, <1>2 DEF WriteBackInv, PathClear, WriteAdd, WriteOut, Behind, Copied
<1>5. DReads /\ DArrives
  BY <1>2 DEF DReads, ReadsOf, DArrives
<1>6. DFill
  <2>1. Filled(dCtl, Ends(dOut)) = 0
    BY <1>1, <1>2 DEF Filled
  <2>2. \A w \in D!Word : ~(w < 0)
    BY Constants
  <2> QED BY <2>1, <2>2 DEF DFill, FillOf
<1>7. DClean
  BY <1>3 DEF DClean, CleanOf
<1> QED BY <1>4, <1>5, <1>6, <1>7 DEF DataInv

\* What the step of the port is, in these terms.
DataAsked ==
  \E a \in LoadStore :
    /\ PortAccess(dCore, dCtl) = NoAccess
    /\ PortAccess(dCore, dCtl)' = a
    /\ PortResult(dCore, dCtl, dOut, dMem)' = NoWord
    /\ DNewest' = DNewest

DataServed ==
  \E rw \in BOOLEAN, b \in Block, w \in D!Word, d \in Data :
    /\ PortAccess(dCore, dCtl) = [rw |-> rw, block |-> b, word |-> w, data |-> d]
    /\ PortAccess(dCore, dCtl)' = NoAccess
    /\ PortResult(dCore, dCtl, dOut, dMem)' = IF rw THEN d ELSE DNewest[b][w]
    /\ DNewest' = IF rw THEN [DNewest EXCEPT ![b][w] = d] ELSE DNewest

DataQuiet ==
  /\ PortAccess(dCore, dCtl)' = PortAccess(dCore, dCtl)
  /\ PortResult(dCore, dCtl, dOut, dMem)' = PortResult(dCore, dCtl, dOut, dMem)
  /\ DNewest' = DNewest

\* The three are steps of MemoryPort, or stutter.
LEMMA DataSteps ==
  ASSUME DataAsked \/ DataServed \/ DataQuiet
  PROVE  DPort!Next \/ UNCHANGED DPort!vars
<1>1. CASE DataAsked
  BY <1>1 DEF DataAsked, DPort!Next, DPort!Ask
<1>2. CASE DataServed
  <2>1. PICK rw \in BOOLEAN, b \in Block, w \in D!Word, d \in Data :
          /\ PortAccess(dCore, dCtl) = [rw |-> rw, block |-> b, word |-> w, data |-> d]
          /\ PortAccess(dCore, dCtl)' = NoAccess
          /\ PortResult(dCore, dCtl, dOut, dMem)' = IF rw THEN d ELSE DNewest[b][w]
          /\ DNewest' = IF rw THEN [DNewest EXCEPT ![b][w] = d] ELSE DNewest
    BY <1>2 DEF DataServed
  <2>2. PortAccess(dCore, dCtl) # NoAccess
    <3>1. [rw |-> rw, block |-> b, word |-> w, data |-> d] \in D!Access
      BY DEF D!Access, Block
    <3> QED BY <2>1, <3>1, SystemAssumption
  <2>3. DNewest'[b][w] = IF rw THEN d ELSE DNewest[b][w]
    <3>1. CASE rw
      <4>1. DNewest' = [DNewest EXCEPT ![b][w] = d]
        BY <2>1, <3>1
      <4> DEFINE now(x, y) == DNewest[x][y]
      <4>2. DNewest = [x \in Block |-> [y \in D!Word |-> now(x, y)]]
        BY NewestForm
      <4> HIDE DEF now
      <4> QED BY <3>1, <4>1, <4>2
    <3> QED BY <2>1, <3>1
  <2>4. DPort!Serve
    BY <2>1, <2>2, <2>3 DEF DPort!Serve
  <2> QED BY <2>4 DEF DPort!Next
<1>3. CASE DataQuiet
  BY <1>3 DEF DataQuiet, DPort!vars
<1> QED BY <1>1, <1>2, <1>3

\* PortsAre, before and after a step.
LEMMA DataPortIs ==
  /\ PortAccess(dCore, dCtl) = AccessAt(Asking, dCore, dCtl)
  /\ PortResult(dCore, dCtl, dOut, dMem) = ResultAt(Asking, clk = 270, dCore, dCtl, dOut, dMem)
  /\ PortAccess(dCore, dCtl)' = AccessAt(Asking', dCore', dCtl')
  /\ PortResult(dCore, dCtl, dOut, dMem)'
     = ResultAt(Asking', clk' = 270, dCore', dCtl', dOut', dMem')
<1>1. /\ PortAccess(dCore, dCtl) = AccessAt(Asking, dCore, dCtl)
      /\ PortResult(dCore, dCtl, dOut, dMem) = ResultAt(Asking, clk = 270, dCore, dCtl, dOut, dMem)
  BY PortsAre
<1>2. (/\ PortAccess(dCore, dCtl) = AccessAt(Asking, dCore, dCtl)
       /\ PortResult(dCore, dCtl, dOut, dMem)
          = ResultAt(Asking, clk = 270, dCore, dCtl, dOut, dMem))'
  BY <1>1, PTL
<1> QED BY <1>1, <1>2

\* 0 degrees: the hart asks, or not.
LEMMA DataAsks ==
  ASSUME SysInv, SysInv', LinesInv, DataInv, NewestOK, NewestOK', Edge0
  PROVE  DataAsked \/ DataQuiet
<1>1. /\ clk = 0 /\ clk' = 90 /\ UNCHANGED <<dCtl, dDirty, dOut, dTag, dMem>>
      /\ CoreMove(LoadStore, dCore, dCore')
  BY HartMoves
<1>2. LoadStore \subseteq D!Access
  BY SystemAssumption DEF D!CacheAssumption
<1>3. dCtl.done => ~dCtl.reqFlag
  BY DEF SysInv, CachesOK, DCacheOK, CacheOK, InService
<1>4. DNewest' = DNewest
  <2>1. ~Edge180 /\ [Next]_vars
    BY <1>1 DEF Edge180, Next, Edge
  <2>2. Contents' = Contents
    BY <2>1, OthersContents DEF DataInv
  <2> QED BY <1>1, <2>2, NewestRests
<1>5. /\ PortAccess(dCore, dCtl) = AccessAt(FALSE, dCore, dCtl)
      /\ PortResult(dCore, dCtl, dOut, dMem) = ResultAt(FALSE, FALSE, dCore, dCtl, dOut, dMem)
      /\ PortAccess(dCore, dCtl)' = AccessAt(TRUE, dCore', dCtl)
      /\ PortResult(dCore, dCtl, dOut, dMem)' = ResultAt(TRUE, FALSE, dCore', dCtl, dOut, dMem)
  <2>1. /\ Asking = FALSE /\ (clk = 270) = FALSE /\ Asking' = TRUE /\ (clk' = 270) = FALSE
    BY <1>1 DEF Asking
  <2> QED BY <1>1, <2>1, DataPortIs
<1>6. \/ PortSame(FALSE, FALSE, dCore, dCtl, dOut, dMem, TRUE, FALSE, dCore', dCtl, dOut, dMem)
      \/ PortAsked(LoadStore, dCore, dCore', dCtl, dOut, dMem)
  BY <1>1, <1>2, <1>3, PortHart, Zenon
<1> QED BY <1>4, <1>5, <1>6 DEF DataAsked, DataQuiet, PortSame, PortAsked

\* 180 degrees: a hit serves the access, any other cycle leaves the port alone.
LEMMA DataServes ==
  ASSUME SysInv, SysInv', LinesInv, DataInv, NewestOK, NewestOK', [Next]_vars, Edge180
  PROVE  DataServed \/ DataQuiet
<1>1. /\ clk = 180 /\ clk' = 270 /\ UNCHANGED <<dCore, dTag, dMem, io>>
      /\ InService(dCtl) /\ dMem \in [DLine -> [D!Word -> Data]]
      /\ Cycle(DLine, DSetOf, dCore, dCtl, dTag, dMem, Ready(1, io.ready),
               Ready(1, Len(tx.fifo) < W), Ready(1, rx # <<>>), FromBuffer,
               dDirty, dCtl', dDirty', dOut')
  BY DataCycleIs
<1>2. /\ dCore \in CoreType /\ dCtl.rwFlag \in BOOLEAN
      /\ dCore.block \in Block /\ dCore.word \in D!Word /\ dCore.data \in Data
  BY DEF SysInv, CachesOK, DCacheOK, CacheOK, CoreType, CtlType
<1>3. /\ PortAccess(dCore, dCtl) = AccessAt(TRUE, dCore, dCtl)
      /\ PortResult(dCore, dCtl, dOut, dMem) = ResultAt(TRUE, FALSE, dCore, dCtl, dOut, dMem)
      /\ PortAccess(dCore, dCtl)' = AccessAt(FALSE, dCore, dCtl')
      /\ PortResult(dCore, dCtl, dOut, dMem)' = ResultAt(FALSE, TRUE, dCore, dCtl', dOut', dMem)
  <2>1. /\ Asking = TRUE /\ (clk = 270) = FALSE /\ Asking' = FALSE /\ (clk' = 270) = TRUE
    BY <1>1 DEF Asking
  <2> QED BY <1>1, <2>1, DataPortIs
<1>4. dOut'.push = NoWord => Contents' = Contents
  BY OthersContents DEF DataInv
<1>5. CASE \A l \in DLine :
             ~HitCycle(dCore, dCtl, Ready(1, io.ready), l, dDirty, dCtl', dDirty', dOut')
  <2>1. \/ ~dCtl.reqFlag \/ dCtl.state # "normal" \/ dCtl.rwFlag = dCore.rw
        \/ \E l \in DLine : Holding(DSetOf, dTag, l, dCore.block)
    BY <1>1 DEF LinesInv, DataLines, Ends
  <2>2. PortSame(TRUE, FALSE, dCore, dCtl, dOut, dMem, FALSE, TRUE, dCore, dCtl', dOut', dMem)
    BY <1>1, <1>5, <2>1, PortStays, Zenon
  <2>3. DNewest' = DNewest
    <3>1. CASE dOut'.push # NoWord
      BY <3>1, NewestPushed
    <3>2. CASE dOut'.push = NoWord
      <4>1. \E v \in DLine \cup {NoLine} : ClearedBy(v)
        BY <1>1, <1>5, <3>2, CycleClears, Zenon
      <4> QED BY <1>4, <3>2, <4>1, NewestCleared
    <3> QED BY <3>1, <3>2
  <2> QED BY <1>3, <2>2, <2>3 DEF DataQuiet, PortSame
<1>6. ASSUME NEW l \in DLine, Holding(DSetOf, dTag, l, dCore.block),
             HitCycle(dCore, dCtl, Ready(1, io.ready), l, dDirty, dCtl', dDirty', dOut')
      PROVE  DataServed
  <2>1. PortServed(dCore, dCtl, dMem, l, dCtl', dOut')
    BY <1>2, <1>6, PortServes, Zenon
  <2>2. Contents' = Contents
    <3>1. dOut'.push = NoWord
      BY <1>6, Zenon DEF HitCycle
    <3> QED BY <1>4, <3>1
  <2>3. Accessed(l)
    BY <1>6, <2>2, NewestHit
  <2>4. StoreOf(dCore, dCtl) \in BOOLEAN
    BY <1>2 DEF StoreOf, CoreType
  <2> QED BY <1>2, <1>3, <2>1, <2>3, <2>4 DEF DataServed, PortServed, Accessed
<1>7. (\A l \in DLine :
         ~HitCycle(dCore, dCtl, Ready(1, io.ready), l, dDirty, dCtl', dDirty', dOut'))
      \/ \E l \in DLine :
           /\ Holding(DSetOf, dTag, l, dCore.block)
           /\ HitCycle(dCore, dCtl, Ready(1, io.ready), l, dDirty, dCtl', dDirty', dOut')
  BY <1>1, HitsHold, Zenon
<1> QED BY <1>5, <1>6, <1>7

\* Every step of the system is a step of a memory, seen at the data port.
LEMMA DataPortStep ==
  ASSUME SysInv, SysInv', LinesInv, LinesInv', DataInv, DataInv', [Next]_vars
  PROVE  DPort!Next \/ UNCHANGED DPort!vars
<1>1. NewestOK /\ NewestOK'
  <2>1. WriteBackInv /\ WriteBackInv'
    BY DEF DataInv
  <2>2. (SysInv /\ LinesInv /\ WriteBackInv)' => NewestOK'
    BY NewestIsNext
  <2> QED BY <2>1, <2>2, NewestIs
<1>2. CASE Edge0
  BY <1>1, <1>2, DataAsks, DataSteps
<1>3. CASE Edge180
  BY <1>1, <1>3, DataServes, DataSteps
<1>4. CASE Edge270
  <2>1. /\ clk = 270 /\ clk' = 0 /\ UNCHANGED <<dCore, dCtl, dDirty, dOut>>
        /\ Sampled(dCore, dCtl, dOut, dTag, dMem, dTag', dMem')
    BY <1>4, MemoriesSample
  <2>2. dCtl \in CtlType(DLine) /\ dMem \in [DLine -> [D!Word -> Data]]
    BY DEF SysInv, CachesOK, DCacheOK, CacheOK
  <2>3. ShownIn(DLine, dCtl, dOut, dMem, dMem')
    BY <2>1, <2>2, SampledShown, Zenon
  <2>4. PortSame(FALSE, TRUE, dCore, dCtl, dOut, dMem, FALSE, FALSE, dCore, dCtl, dOut, dMem')
    BY <2>2, <2>3, PortSamples, Zenon
  <2>5. /\ PortAccess(dCore, dCtl) = AccessAt(FALSE, dCore, dCtl)
        /\ PortResult(dCore, dCtl, dOut, dMem) = ResultAt(FALSE, TRUE, dCore, dCtl, dOut, dMem)
        /\ PortAccess(dCore, dCtl)' = AccessAt(FALSE, dCore, dCtl)
        /\ PortResult(dCore, dCtl, dOut, dMem)' = ResultAt(FALSE, FALSE, dCore, dCtl, dOut, dMem')
    <3>1. /\ Asking = FALSE /\ (clk = 270) = TRUE /\ Asking' = FALSE /\ (clk' = 270) = FALSE
      BY <2>1 DEF Asking
    <3> QED BY <2>1, <3>1, DataPortIs
  <2>6. DNewest' = DNewest
    <3>1. Contents' = Contents
      BY <2>1, OthersContents DEF DataInv, Edge180
    <3> QED BY <1>1, <1>4, <3>1, NewestSamples
  <2>7. DataQuiet
    BY <2>4, <2>5, <2>6 DEF DataQuiet, PortSame
  <2> QED BY <2>7, DataSteps
<1>5. CASE Edge90 \/ Ddr \/ UNCHANGED vars
  <2>1. /\ UNCHANGED <<dCore, dCtl, dDirty, dOut, dTag, dMem>>
        /\ clk' = clk \/ (clk = 90 /\ clk' = 180)
    BY <1>5, OtherSteps
  <2>2. Asking' = Asking /\ (clk' = 270) = (clk = 270)
    BY <2>1 DEF Asking
  <2>3. DNewest' = DNewest
    <3>1. Contents' = Contents
      BY <2>1, OthersContents DEF DataInv, Edge180
    <3> QED BY <1>1, <2>1, <3>1, NewestRests
  <2>4. DataQuiet
    BY <2>1, <2>2, <2>3, DataPortIs DEF DataQuiet
  <2> QED BY <2>4, DataSteps
<1> QED BY <1>2, <1>3, <1>4, <1>5 DEF Next, Edge

\* The hart leaves reset without a load or a store.
LEMMA DataPortInit == Init => DPort!Init
<1> SUFFICES ASSUME Init PROVE DPort!Init
  OBVIOUS
<1>1. ~dCore.req /\ ~dCtl.reqFlag
  BY DEF Init, D!CacheInit
<1>2. PortAccess(dCore, dCtl) = NoAccess
  BY <1>1 DEF PortAccess, Pending
<1> QED BY <1>2 DEF DPort!Init

\* Loads see the stores before them: the data port is that of a memory that
\* serves one access at a time.  Every load returns what was stored last, or what
\* the memory started with, wherever the word is: in a clean or a dirty line, on
\* its way to the memory while the line is being refilled, or in the memory.  No
\* eviction, write-back, refill or request of the other cache shows, and no store
\* changes any other word.
THEOREM DataPort == Spec => DataPortIsMemory
<1>1. Init => SysInv /\ LinesInv /\ DataInv
  BY SysInit, LinesInit, DataHoldsInit
<1>2. SysInv /\ LinesInv /\ DataInv /\ [Next]_vars => (SysInv /\ LinesInv /\ DataInv)'
  BY SysStep, LinesStep, DataStep
<1>3. Init => DPort!Init
  BY DataPortInit
<1>4. /\ SysInv /\ SysInv' /\ LinesInv /\ LinesInv' /\ DataInv /\ DataInv' /\ [Next]_vars
      => DPort!Next \/ UNCHANGED DPort!vars
  BY DataPortStep
<1> QED BY <1>1, <1>2, <1>3, <1>4, PTL DEF Spec, DataPortIsMemory, DPort!Safe
=============================================================================
