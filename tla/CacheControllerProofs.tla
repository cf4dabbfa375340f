------------------------ MODULE CacheControllerProofs ------------------------
(***************************************************************************)
(* Proofs about CacheController, for any number of tags, sets, lines and   *)
(* words, and for an environment that may do anything: any composition of  *)
(* the controller's edges, InternalSystem's included, inherits them.       *)
(***************************************************************************)
EXTENDS CacheController, TLAPS

CoreType == [req : BOOLEAN, rw : BOOLEAN, block : Block, word : Word, data : Data]

CtlType == [state : State, nTransfer : Word, reqFlag : BOOLEAN,
            rwFlag : BOOLEAN, done : BOOLEAN, ptr : Line,
            writebackFlag : BOOLEAN, addWriteback : Block,
            cacheAdd : Line \X Word]

OutType == [read : Block \cup {NoBlock}, write : Block \cup {NoBlock},
            wr : Data \cup {NoWord}, push : Data \cup {NoWord},
            ack : BOOLEAN, cam : BOOLEAN]

\* The tag strobe is up and the tag memory has not sampled it yet.
Tagging == clk = 270 /\ out.cam

\* The line at the pointer is being replaced.
Replacing == ctl.state \in {"writeBuffer", "readBuffer"} \/ Tagging

\* A reference in service: the hart waits, and its block is in no line until
\* the refill has written the tag.
InService ==
  /\ ctl.reqFlag => ~ctl.done
  /\ ctl.state # "normal" => ctl.reqFlag /\ ~Hits
  /\ Tagging => ctl.state = "normal" /\ ctl.reqFlag /\ ~Hits
  /\ ctl.state = "normal" /\ ctl.reqFlag => Hits \/ Tagging

\* The line being replaced is in the requested set, and clean by the time its
\* new words arrive.
Pointer ==
  /\ Replacing => SetOf[ctl.ptr] = core.block[2]
  /\ ctl.state = "readBuffer" \/ Tagging => ctl.ptr \notin dirty

\* The write-back's words and address are taken from the line being replaced.
Transfer ==
  /\ ctl.state \notin {"writeBuffer", "readBuffer"} => ctl.nTransfer = 0
  /\ ctl.state = "waitReplacement" => ~ctl.writebackFlag
  /\ ctl.state = "writeBuffer" /\ ctl.nTransfer = 0 => ~ctl.writebackFlag
  /\ WritesBackInOrder

\* Where the block of a pending write-back may be, and that it is not the one
\* being fetched.
Behind ==
  ctl.writebackFlag =>
    /\ Replacing => ctl.addWriteback # core.block
    /\ \A l \in Line : Holds(l, ctl.addWriteback) => l = ctl.ptr /\ Replacing

Inv ==
  /\ TypeOK
  /\ TagsUnique
  /\ DirtyLinesValid
  /\ InService
  /\ Pointer
  /\ Transfer
  /\ Behind

-----------------------------------------------------------------------------
\* The type invariant part by part, for proofs that need a few of the registers.
LEMMA TypeParts ==
  TypeOK <=> /\ clk \in {0, 180, 270}
             /\ core \in CoreType
             /\ ctl \in CtlType
             /\ dirty \in SUBSET Line
             /\ out \in OutType
             /\ tagMem \in [Line -> Tag \cup {NoTag}]
             /\ cacheMem \in [Line -> [Word -> Data]]
             /\ stored \in SUBSET Line
BY DEF TypeOK, CoreType, CtlType, OutType

\* The strobes at rest.
LEMMA QuietType == Quiet \in OutType /\ ~Quiet.cam /\ Quiet.read = NoBlock
BY DEF Quiet, OutType

\* What the writeback block leaves of the registers c and the strobes o that the
\* rest of the cycle gave it.
LEMMA FinishKeeps ==
  ASSUME NEW c \in CtlType, NEW o \in OutType, NEW mready \in BOOLEAN,
         Finish(mready, c, o)
  PROVE  /\ ctl' \in CtlType /\ out' \in OutType
         /\ ctl'.state = c.state /\ ctl'.nTransfer = c.nTransfer
         /\ ctl'.reqFlag = c.reqFlag /\ ctl'.done = c.done
         /\ ctl'.ptr = c.ptr /\ ctl'.cacheAdd = c.cacheAdd
         /\ ctl'.addWriteback = c.addWriteback
         /\ ctl'.writebackFlag => c.writebackFlag
         /\ out'.cam = o.cam /\ out'.read = o.read
         /\ out'.wr = o.wr /\ out'.ack = o.ack
         /\ c.writebackFlag => ctl'.writebackFlag \/ out'.write = c.addWriteback
<1>1. CASE c.writebackFlag /\ mready
  <2>1. /\ ctl' = [c EXCEPT !.writebackFlag = FALSE]
        /\ out' = [o EXCEPT !.write = c.addWriteback]
    BY <1>1 DEF Finish
  <2>2. ctl' \in CtlType /\ out' \in OutType
    BY <2>1 DEF CtlType, OutType
  <2>3. /\ ctl'.state = c.state /\ ctl'.nTransfer = c.nTransfer
        /\ ctl'.reqFlag = c.reqFlag /\ ctl'.done = c.done
        /\ ctl'.ptr = c.ptr /\ ctl'.cacheAdd = c.cacheAdd
        /\ ctl'.addWriteback = c.addWriteback
        /\ ~ctl'.writebackFlag
        /\ out'.cam = o.cam /\ out'.read = o.read /\ out'.write = c.addWriteback
        /\ out'.wr = o.wr /\ out'.ack = o.ack
    BY <2>1 DEF CtlType, OutType
  <2> QED BY <2>2, <2>3
<1>2. CASE ~(c.writebackFlag /\ mready)
  BY <1>2 DEF Finish
<1> QED BY <1>1, <1>2

\* The invariant holds when the controller leaves reset (the initial values of
\* n_set_cache_controller.v and of the tag memory).
THEOREM InitInv == Init => Inv
<1> SUFFICES ASSUME Init PROVE Inv
  OBVIOUS
<1> USE CacheAssumption
<1>1. PICK a \in Reference :
        core = [req |-> Boot, rw |-> FALSE, block |-> a.block,
                word |-> a.word, data |-> a.data]
  BY DEF Init, CacheInit
<1>2. PICK l \in Line, d \in Data :
        /\ ctl = [state |-> "normal", nTransfer |-> 0, reqFlag |-> FALSE,
                  rwFlag |-> FALSE, done |-> ~Boot, ptr |-> l,
                  writebackFlag |-> FALSE, addWriteback |-> core.block,
                  cacheAdd |-> <<l, 0>>]
        /\ cacheMem = [m \in Line |-> [w \in Word |-> d]]
  BY DEF Init, CacheInit
<1>3. a \in Access /\ 0 \in Word
  BY DEF Word
<1>4. core \in CoreType
  BY <1>1, <1>3 DEF CoreType, Access
<1>5. ctl \in CtlType
  BY <1>2, <1>3, <1>4 DEF CtlType, CoreType, State
<1>6. cacheMem \in [Line -> [Word -> Data]]
  BY <1>2
<1>7. TypeOK
  BY <1>4, <1>5, <1>6, TypeParts, QuietType DEF Init, CacheInit
<1>8. \A l1 \in Line, b \in Block : ~Holds(l1, b)
  BY DEF Init, CacheInit, Holds, Block
<1>9. TagsUnique /\ DirtyLinesValid
  BY <1>8 DEF TagsUnique, DirtyLinesValid, Init, CacheInit
<1>10. InService /\ Pointer /\ Transfer /\ Behind
  BY <1>2 DEF InService, Pointer, Transfer, Behind, Tagging, Replacing,
              WritesBackInOrder, Init, CacheInit
<1> QED BY <1>7, <1>9, <1>10 DEF Inv

-----------------------------------------------------------------------------
(***************************************************************************)
(* The edges.                                                              *)
(***************************************************************************)
LEMMA HartInv == Inv /\ Hart => Inv'
<1> SUFFICES ASSUME Inv, Hart PROVE Inv'
  OBVIOUS
<1> USE CacheAssumption
<1>1. UNCHANGED <<ctl, dirty, out, tagMem, cacheMem, stored>> /\ clk = 0 /\ clk' = 180
  BY DEF Hart, HartIdle, HartIssue, memories
<1>2. core \in CoreType
  BY TypeParts DEF Inv
<1>3. /\ core' \in CoreType
      /\ core'.block = core.block \/ ctl.done
  <2>1. CASE HartIdle
    BY <2>1, <1>2 DEF HartIdle, Withdraw, CoreType
  <2>2. CASE HartIssue
    <3>1. PICK a \in Reference : Issue(a)
      BY <2>2 DEF HartIssue
    <3>2. a \in Access
      OBVIOUS
    <3> QED BY <2>2, <3>1, <3>2 DEF HartIssue, Issue, CoreType, Access
  <2> QED BY <2>1, <2>2 DEF Hart
<1>4. TypeOK'
  BY <1>1, <1>3, TypeParts DEF Inv, TypeOK, CoreType
<1>5. TagsUnique' /\ DirtyLinesValid'
  BY <1>1 DEF Inv, TagsUnique, DirtyLinesValid, Holds
<1>6. CASE ctl.done
  <2>1. ctl.state = "normal" /\ ~ctl.reqFlag
    BY <1>6 DEF Inv, InService
  <2> QED
    BY <1>1, <1>4, <1>5, <1>6, <2>1
       DEF Inv, InService, Pointer, Transfer, Behind, Tagging, Replacing,
           WritesBackInOrder, Holds
<1>7. CASE core'.block = core.block
  <2>1. Hits' = Hits
    BY <1>1, <1>7 DEF Hits, Match
  <2> QED
    BY <1>1, <1>4, <1>5, <1>7, <2>1
       DEF Inv, InService, Pointer, Transfer, Behind, Tagging, Replacing,
           WritesBackInOrder, Holds
<1> QED BY <1>3, <1>6, <1>7

\* A disabled controller keeps the invariant: it only lowers its strobes.
LEMMA StalledInv == Inv /\ Stalled => Inv'
<1> SUFFICES ASSUME Inv, Stalled PROVE Inv'
  OBVIOUS
<1>1. /\ UNCHANGED <<core, ctl, dirty, tagMem, cacheMem, stored>>
      /\ clk = 180 /\ clk' = 270 /\ out' = Quiet
  BY DEF Stalled, Disabled, memories
<1>2. Hits' = Hits /\ ~Tagging /\ ~Tagging'
  BY <1>1, QuietType DEF Hits, Match, Tagging
<1>3. TypeOK'
  BY <1>1, QuietType, TypeParts DEF Inv, TypeOK, OutType
<1> QED
  BY <1>1, <1>2, <1>3
     DEF Inv, TagsUnique, DirtyLinesValid, InService, Pointer, Transfer,
         Behind, Replacing, WritesBackInOrder, Holds

\* A block is known by its tag and its set.
LEMMA BlockParts ==
  ASSUME NEW b \in Block, NEW c \in Block, b[1] = c[1], b[2] = c[2]
  PROVE  b = c
BY DEF Block

\* The edge of the tag memory and of the block RAM keeps the invariant.
LEMMA MemoriesInv == Inv /\ Memories => Inv'
<1> SUFFICES ASSUME Inv, Memories PROVE Inv'
  OBVIOUS
<1> USE CacheAssumption
<1>1. /\ UNCHANGED <<core, ctl, dirty, out>> /\ clk = 270 /\ clk' = 0
      /\ ~Tagging'
  BY DEF Memories, MemoryEdge, Tagging
<1>2. /\ core \in CoreType /\ ctl \in CtlType /\ out \in OutType
      /\ tagMem \in [Line -> Tag \cup {NoTag}]
      /\ cacheMem \in [Line -> [Word -> Data]]
  BY TypeParts DEF Inv
<1>3. cacheMem' \in [Line -> [Word -> Data]]
  <2>1. CASE out.wr = NoWord
    BY <1>2, <2>1 DEF Memories, MemoryEdge
  <2>2. CASE out.wr # NoWord
    <3>1. out.wr \in Data
      BY <1>2, <2>2 DEF OutType
    <3>2. ctl.cacheAdd[1] \in Line /\ ctl.cacheAdd[2] \in Word
      BY <1>2 DEF CtlType
    <3>3. cacheMem' = [cacheMem EXCEPT
                         ![ctl.cacheAdd[1]][ctl.cacheAdd[2]] = out.wr]
      BY <2>2 DEF Memories, MemoryEdge
    <3> QED BY <1>2, <3>1, <3>2, <3>3
  <2> QED BY <2>1, <2>2
<1> stored' \in SUBSET Line
  <2>1. ctl.cacheAdd[1] \in Line /\ stored \in SUBSET Line
    BY <1>2, TypeParts DEF CtlType, Inv
  <2> QED BY <2>1 DEF Memories, MemoryEdge
<1>4. CASE out.cam
  <2>1. tagMem' = [tagMem EXCEPT ![ctl.ptr] = core.block[1]]
    BY <1>4 DEF Memories, MemoryEdge
  <2>2. /\ Tagging /\ ctl.state = "normal" /\ ctl.reqFlag /\ ~Hits
        /\ SetOf[ctl.ptr] = core.block[2] /\ ctl.ptr \notin dirty
    BY <1>1, <1>4 DEF Tagging, Inv, InService, Pointer, Replacing
  <2>3. /\ ctl.ptr \in Line /\ core.block \in Block /\ core.block[1] \in Tag
        /\ ctl.addWriteback \in Block
    BY <1>2 DEF CtlType, CoreType, Block
  <2>4. TypeOK'
    BY <1>1, <1>2, <1>3, <2>1, <2>3, TypeParts DEF Inv, TypeOK
  <2>5. /\ \A l \in Line \ {ctl.ptr} : tagMem'[l] = tagMem[l]
        /\ tagMem'[ctl.ptr] = core.block[1]
    BY <1>2, <2>1, <2>3
  <2>6. \A l \in Line : ~Holds(l, core.block)
    BY <2>2 DEF Hits, Match, Holds
  <2>7. ASSUME NEW b \in Block, Holds(ctl.ptr, b)'
        PROVE  b = core.block
    BY <1>1, <2>2, <2>3, <2>5, <2>7, BlockParts DEF Holds
  <2>8. TagsUnique'
    <3> SUFFICES ASSUME NEW b \in Block, NEW l \in Line, NEW m \in Line,
                        Holds(l, b)', Holds(m, b)'
                 PROVE  l = m
      BY DEF TagsUnique
    <3>1. CASE l = ctl.ptr \/ m = ctl.ptr
      BY <1>1, <3>1, <2>5, <2>6, <2>7 DEF Holds
    <3>2. CASE l # ctl.ptr /\ m # ctl.ptr
      BY <3>2, <2>5 DEF Holds, Inv, TagsUnique
    <3> QED BY <3>1, <3>2
  <2>9. DirtyLinesValid'
    BY <1>1, <1>2, <2>2, <2>3, <2>5, TypeParts DEF Inv, DirtyLinesValid
  <2>10. Hits'
    BY <1>1, <2>2, <2>3, <2>5 DEF Hits, Match
  <2>11. InService' /\ Pointer' /\ Transfer'
    BY <1>1, <2>2, <2>10
       DEF Inv, InService, Pointer, Transfer, Replacing, WritesBackInOrder
  <2>12. Behind'
    <3> SUFFICES ASSUME ctl.writebackFlag, NEW l \in Line,
                        Holds(l, ctl.addWriteback)'
                 PROVE  FALSE
      BY <1>1, <2>2 DEF Behind, Replacing, Holds
    <3>1. /\ ctl.addWriteback # core.block
          /\ Holds(l, ctl.addWriteback) => l = ctl.ptr
      BY <2>2 DEF Inv, Behind, Replacing
    <3>2. CASE l = ctl.ptr
      BY <3>1, <3>2, <2>3, <2>7, <1>1
    <3>3. CASE l # ctl.ptr
      BY <3>1, <3>3, <2>5, <1>1 DEF Holds
    <3> QED BY <3>2, <3>3
  <2> QED BY <2>4, <2>8, <2>9, <2>11, <2>12 DEF Inv
<1>5. CASE ~out.cam
  <2>1. tagMem' = tagMem /\ ~Tagging
    BY <1>5 DEF Memories, MemoryEdge, Tagging
  <2>2. Hits' = Hits
    BY <1>1, <2>1 DEF Hits, Match
  <2>3. TypeOK'
    BY <1>1, <1>2, <1>3, <2>1, TypeParts DEF Inv, TypeOK
  <2> QED
    BY <1>1, <2>1, <2>2, <2>3
       DEF Inv, TagsUnique, DirtyLinesValid, InService, Pointer, Transfer,
           Behind, Replacing, WritesBackInOrder, Holds
<1> QED BY <1>4, <1>5
-----------------------------------------------------------------------------
(***************************************************************************)
(* The controller's edge, one lemma per action.  Each one first reads the  *)
(* effect of the action off FinishKeeps.                                   *)
(***************************************************************************)
AtEdge == clk = 180 /\ clk' = 270 /\ UNCHANGED <<core, memories>>

\* What the edge may do to a pending write-back.
WritebackStep ==
  /\ ctl.writebackFlag =>
       /\ ctl'.addWriteback = ctl.addWriteback
       /\ out'.read = NoBlock
       /\ ctl'.writebackFlag \/ out'.write = ctl.addWriteback
  /\ out'.read # NoBlock => ~ctl'.writebackFlag

\* What every action of this edge keeps: the tags, and the type of the rest.
LEMMA EdgeFrame ==
  ASSUME Inv, AtEdge, ctl' \in CtlType, out' \in OutType, dirty' \in SUBSET Line
  PROVE  /\ TypeOK' /\ TagsUnique'
         /\ Hits' = Hits /\ ~Tagging
         /\ Tagging' = out'.cam
<1>1. /\ UNCHANGED <<core, tagMem, cacheMem, stored>> /\ clk = 180 /\ clk' = 270
  BY DEF AtEdge, memories
<1>2. TypeOK'
  BY <1>1, TypeParts DEF Inv, TypeOK, CtlType, OutType
<1>3. TagsUnique' /\ Hits' = Hits
  BY <1>1 DEF Inv, TagsUnique, Hits, Match, Holds
<1>4. ~Tagging /\ Tagging' = out'.cam
  BY <1>1 DEF Tagging, OutType
<1> QED BY <1>2, <1>3, <1>4

\* A hit keeps the invariant and the pending write-back.
LEMMA HitInv ==
  ASSUME Inv, AtEdge, NEW mready \in BOOLEAN, Hit(mready)
  PROVE  Inv' /\ WritebackStep
<1> DEFINE store == IF ctl.reqFlag THEN ctl.rwFlag ELSE core.rw
           c == [ctl EXCEPT !.reqFlag = FALSE, !.done = TRUE,
                            !.cacheAdd = <<CamAddr, core.word>>]
           o == [Quiet EXCEPT !.wr = IF store THEN core.data ELSE NoWord]
<1>1. /\ core \in CoreType /\ ctl \in CtlType /\ dirty \in SUBSET Line
  BY TypeParts DEF Inv
<1>2. CamAddr \in Line /\ tagMem[CamAddr] = core.block[1]
  BY DEF Hit, Hits, CamAddr, Match
<1>3. core.word \in Word /\ core.data \in Data /\ core.block[1] \in Tag
  BY <1>1 DEF CoreType, Block
<1>4. c \in CtlType
  BY <1>1, <1>2, <1>3 DEF CtlType
<1>5. o \in OutType /\ ~o.cam /\ o.read = NoBlock
  BY <1>3 DEF OutType, Quiet
<1>6. /\ c.state = ctl.state /\ c.nTransfer = ctl.nTransfer
      /\ ~c.reqFlag /\ c.ptr = ctl.ptr
      /\ c.addWriteback = ctl.addWriteback
      /\ c.writebackFlag = ctl.writebackFlag
  BY <1>1 DEF CtlType
<1>7. Finish(mready, c, o)
  BY DEF Hit
<1>8. /\ ctl' \in CtlType /\ out' \in OutType /\ ~out'.cam
      /\ ctl'.state = ctl.state /\ ctl'.nTransfer = ctl.nTransfer
      /\ ~ctl'.reqFlag /\ ctl'.ptr = ctl.ptr
      /\ ctl'.addWriteback = ctl.addWriteback
      /\ ctl'.writebackFlag => ctl.writebackFlag
  <2> HIDE DEF c, o
  <2> QED BY <1>4, <1>5, <1>6, <1>7, FinishKeeps
<1>9. ctl.state = "normal"
  BY DEF Hit
<1>10. dirty' \in SUBSET (dirty \cup {CamAddr})
  BY DEF Hit, MarkDirty
<1>11. /\ TypeOK' /\ TagsUnique' /\ Hits' = Hits /\ ~Tagging /\ ~Tagging'
  BY <1>1, <1>2, <1>8, <1>10, EdgeFrame
<1>12. tagMem' = tagMem /\ core' = core
  BY DEF AtEdge, memories
<1>13. DirtyLinesValid'
  BY <1>2, <1>3, <1>10, <1>12, CacheAssumption DEF Inv, DirtyLinesValid
<1>14. InService' /\ Pointer' /\ Transfer'
  BY <1>8, <1>9, <1>11 DEF Inv, InService, Pointer, Transfer, Replacing,
                           WritesBackInOrder
<1>15. Behind'
  BY <1>8, <1>9, <1>11, <1>12 DEF Inv, Behind, Replacing, Holds
<1>16. WritebackStep
  <2> HIDE DEF c, o
  <2> QED BY <1>4, <1>5, <1>6, <1>7, FinishKeeps DEF WritebackStep
<1> QED BY <1>11, <1>13, <1>14, <1>15, <1>16 DEF Inv

\* So does a miss,
LEMMA MissInv ==
  ASSUME Inv, AtEdge, NEW mready \in BOOLEAN, Miss(mready)
  PROVE  Inv' /\ WritebackStep
<1> DEFINE c == [ctl EXCEPT !.reqFlag = TRUE, !.rwFlag = core.rw, !.done = FALSE,
                            !.state = "waitReady"]
<1>1. /\ core \in CoreType /\ ctl \in CtlType /\ dirty \in SUBSET Line
  BY TypeParts DEF Inv
<1>2. c \in CtlType
  BY <1>1 DEF CtlType, CoreType, State
<1>3. /\ c.state = "waitReady" /\ c.nTransfer = ctl.nTransfer
      /\ c.reqFlag /\ ~c.done /\ c.ptr = ctl.ptr
      /\ c.addWriteback = ctl.addWriteback
      /\ c.writebackFlag = ctl.writebackFlag
  BY <1>1 DEF CtlType
<1>4. Finish(mready, c, Quiet)
  BY DEF Miss
<1>5. /\ ctl' \in CtlType /\ out' \in OutType /\ ~out'.cam
      /\ ctl'.state = "waitReady" /\ ctl'.nTransfer = ctl.nTransfer
      /\ ctl'.reqFlag /\ ~ctl'.done /\ ctl'.ptr = ctl.ptr
      /\ ctl'.addWriteback = ctl.addWriteback
      /\ ctl'.writebackFlag => ctl.writebackFlag
  <2> HIDE DEF c
  <2> QED BY <1>2, <1>3, <1>4, QuietType, FinishKeeps
<1>6. ctl.state = "normal" /\ ~Hits /\ dirty' = dirty
  BY DEF Miss
<1>7. /\ TypeOK' /\ TagsUnique' /\ Hits' = Hits /\ ~Tagging /\ ~Tagging'
  BY <1>1, <1>5, <1>6, EdgeFrame
<1>8. tagMem' = tagMem /\ core' = core
  BY DEF AtEdge, memories
<1>9. DirtyLinesValid' /\ InService' /\ Pointer' /\ Transfer'
  BY <1>5, <1>6, <1>7, <1>8
     DEF Inv, DirtyLinesValid, InService, Pointer, Transfer, Replacing,
         WritesBackInOrder
<1>10. Behind'
  BY <1>5, <1>6, <1>7, <1>8 DEF Inv, Behind, Replacing, Holds
<1>11. WritebackStep
  <2> HIDE DEF c
  <2> QED BY <1>2, <1>3, <1>4, QuietType, FinishKeeps DEF WritebackStep
<1> QED BY <1>7, <1>9, <1>10, <1>11 DEF Inv

\* the request of the missing block,
LEMMA RequestBlockInv ==
  ASSUME Inv, AtEdge, NEW mready \in BOOLEAN, RequestBlock(mready)
  PROVE  Inv' /\ WritebackStep
<1>1. /\ core \in CoreType /\ ctl \in CtlType /\ dirty \in SUBSET Line
  BY TypeParts DEF Inv
<1>2. /\ ctl' = [ctl EXCEPT !.state = "waitReplacement"]
      /\ out' = [Quiet EXCEPT !.read = core.block]
      /\ ctl.state = "waitReady" /\ ~ctl.writebackFlag /\ dirty' = dirty
  BY DEF RequestBlock, WritebackDone
<1>3. ctl' \in CtlType /\ out' \in OutType
  BY <1>1, <1>2, QuietType DEF CtlType, CoreType, OutType, State
<1>4. /\ ctl'.state = "waitReplacement" /\ ctl'.nTransfer = ctl.nTransfer
      /\ ctl'.reqFlag = ctl.reqFlag /\ ctl'.done = ctl.done
      /\ ctl'.ptr = ctl.ptr /\ ~ctl'.writebackFlag /\ ~out'.cam
  BY <1>1, <1>2 DEF CtlType, Quiet
<1>5. /\ TypeOK' /\ TagsUnique' /\ Hits' = Hits /\ ~Tagging /\ ~Tagging'
  BY <1>1, <1>2, <1>3, <1>4, EdgeFrame
<1>6. tagMem' = tagMem /\ core' = core
  BY DEF AtEdge, memories
<1>7. DirtyLinesValid' /\ InService' /\ Pointer' /\ Transfer' /\ Behind'
  BY <1>2, <1>4, <1>5, <1>6
     DEF Inv, DirtyLinesValid, InService, Pointer, Transfer, Replacing,
         WritesBackInOrder, Behind
<1>8. WritebackStep
  BY <1>2, <1>4 DEF WritebackStep
<1> QED BY <1>5, <1>7, <1>8 DEF Inv

\* the choice of the line to replace,
LEMMA TakeReplacementInv ==
  ASSUME Inv, AtEdge, NEW mready \in BOOLEAN, NEW victim \in Victim,
         TakeReplacement(mready, victim)
  PROVE  Inv' /\ WritebackStep
<1> DEFINE c == Replace(victim)
<1>1. /\ core \in CoreType /\ ctl \in CtlType /\ dirty \in SUBSET Line
  BY TypeParts DEF Inv
<1>2. /\ victim \in Line /\ SetOf[victim] = core.block[2]
      /\ ctl.state = "waitReplacement" /\ dirty' = dirty
  BY DEF TakeReplacement, Victim
<1>3. 0 \in Word
  BY CacheAssumption DEF Word
<1>4. c \in CtlType
  BY <1>1, <1>2, <1>3 DEF Replace, CtlType, State
<1>5. /\ c.nTransfer = ctl.nTransfer
      /\ c.reqFlag = ctl.reqFlag /\ c.done = ctl.done
      /\ c.ptr = victim
      /\ c.writebackFlag = ctl.writebackFlag
      /\ victim \in dirty => c.state = "writeBuffer" /\ c.cacheAdd = <<victim, 0>>
      /\ victim \notin dirty => c.state = "readBuffer"
  BY <1>1 DEF Replace, CtlType
<1>6. Finish(mready, c, Quiet)
  BY DEF TakeReplacement
<1>7. /\ ctl' \in CtlType /\ out' \in OutType /\ ~out'.cam
      /\ ctl'.nTransfer = ctl.nTransfer
      /\ ctl'.reqFlag = ctl.reqFlag /\ ctl'.done = ctl.done
      /\ ctl'.ptr = victim
      /\ ctl'.writebackFlag => ctl.writebackFlag
      /\ victim \in dirty =>
           ctl'.state = "writeBuffer" /\ ctl'.cacheAdd = <<victim, 0>>
      /\ victim \notin dirty => ctl'.state = "readBuffer"
  <2> HIDE DEF c
  <2> QED BY <1>4, <1>5, <1>6, QuietType, FinishKeeps
<1>8. /\ TypeOK' /\ TagsUnique' /\ Hits' = Hits /\ ~Tagging /\ ~Tagging'
  BY <1>1, <1>2, <1>7, EdgeFrame
<1>9. tagMem' = tagMem /\ core' = core
  BY DEF AtEdge, memories
<1>10. ctl.nTransfer = 0 /\ ~ctl.writebackFlag
  BY <1>2 DEF Inv, Transfer
<1>11. DirtyLinesValid' /\ InService' /\ Pointer'
  BY <1>2, <1>7, <1>8, <1>9
     DEF Inv, DirtyLinesValid, InService, Pointer, Replacing
<1>12. Transfer' /\ Behind'
  BY <1>2, <1>7, <1>8, <1>9, <1>10
     DEF Inv, Transfer, WritesBackInOrder, Behind
<1>13. WritebackStep
  <2> HIDE DEF c
  <2> QED BY <1>4, <1>5, <1>6, <1>10, QuietType, FinishKeeps DEF WritebackStep
<1> QED BY <1>8, <1>11, <1>12, <1>13 DEF Inv

\* a cycle of waiting,
LEMMA WaitInv ==
  ASSUME Inv, AtEdge, NEW mready \in BOOLEAN, Finish(mready, ctl, Quiet),
         dirty' = dirty,
         ctl.state # "normal" \/ ~ctl.reqFlag
  PROVE  Inv' /\ WritebackStep
<1>1. /\ core \in CoreType /\ ctl \in CtlType /\ dirty \in SUBSET Line
  BY TypeParts DEF Inv
<1>2. /\ ctl' \in CtlType /\ out' \in OutType /\ ~out'.cam
      /\ ctl'.state = ctl.state /\ ctl'.nTransfer = ctl.nTransfer
      /\ ctl'.reqFlag = ctl.reqFlag /\ ctl'.done = ctl.done
      /\ ctl'.ptr = ctl.ptr /\ ctl'.cacheAdd = ctl.cacheAdd
      /\ ctl'.addWriteback = ctl.addWriteback
      /\ ctl'.writebackFlag => ctl.writebackFlag
  BY <1>1, QuietType, FinishKeeps
<1>3. /\ TypeOK' /\ TagsUnique' /\ Hits' = Hits /\ ~Tagging /\ ~Tagging'
  BY <1>1, <1>2, EdgeFrame
<1>4. tagMem' = tagMem /\ core' = core
  BY DEF AtEdge, memories
<1>5. DirtyLinesValid' /\ InService' /\ Pointer' /\ Transfer'
  BY <1>2, <1>3, <1>4
     DEF Inv, DirtyLinesValid, InService, Pointer, Transfer, Replacing,
         WritesBackInOrder
<1>6. Behind'
  BY <1>2, <1>3, <1>4 DEF Inv, Behind, Replacing, Holds
<1>7. WritebackStep
  BY <1>1, QuietType, FinishKeeps DEF WritebackStep
<1> QED BY <1>3, <1>5, <1>6, <1>7 DEF Inv

\* (the transfer counter goes round with the last word of a block)
LEMMA NextTransferType ==
  ASSUME TypeOK
  PROVE  /\ NextTransfer \in Word
         /\ LastWord => NextTransfer = 0
         /\ ~LastWord => NextTransfer = ctl.nTransfer + 1 /\ NextTransfer # 0
<1>1. ctl.nTransfer \in 0 .. W - 1 /\ W \in Nat \ {0}
  BY TypeParts, CacheAssumption DEF CtlType, Word
<1> QED BY <1>1 DEF NextTransfer, LastWord, Word

\* a word pushed into the transmit buffer,
LEMMA PushWordInv ==
  ASSUME Inv, AtEdge, NEW mready \in BOOLEAN, NEW wready \in BOOLEAN,
         PushWord(mready, wready)
  PROVE  /\ Inv' /\ WritebackStep
         /\ out'.wr = NoWord
         /\ LastWord => ctl'.state = "readBuffer" /\ ctl'.ptr = ctl.ptr
<1> DEFINE add == IF FirstWord THEN <<tagMem[ctl.ptr], core.block[2]>>
                  ELSE ctl.addWriteback
           c == [ctl EXCEPT
                   !.writebackFlag = Pending,
                   !.addWriteback = add,
                   !.nTransfer = NextTransfer,
                   !.cacheAdd = IF LastWord THEN @ ELSE <<ctl.ptr, NextTransfer>>,
                   !.state = IF LastWord THEN "readBuffer" ELSE @]
           o == [Quiet EXCEPT !.push = CacheOut]
<1>1. /\ core \in CoreType /\ ctl \in CtlType /\ dirty \in SUBSET Line
      /\ tagMem \in [Line -> Tag \cup {NoTag}]
      /\ cacheMem \in [Line -> [Word -> Data]]
  BY TypeParts DEF Inv
<1>2. /\ ctl.state = "writeBuffer" /\ ctl.ptr \in dirty /\ ctl.ptr \in Line
      /\ ctl.cacheAdd = <<ctl.ptr, ctl.nTransfer>>
      /\ SetOf[ctl.ptr] = core.block[2]
      /\ ctl.reqFlag /\ ~ctl.done /\ ~Hits
      /\ FirstWord => ~ctl.writebackFlag
      /\ ~FirstWord => ctl.addWriteback = <<tagMem[ctl.ptr], core.block[2]>>
  BY <1>1 DEF PushWord, Inv, Transfer, WritesBackInOrder, Pointer, Replacing,
              InService, FirstWord, CtlType
<1>3. /\ tagMem[ctl.ptr] \in Tag /\ core.block \in Block
      /\ core.block[2] \in Set
  BY <1>1, <1>2 DEF Inv, DirtyLinesValid, CoreType, Block
<1>4. /\ add = <<tagMem[ctl.ptr], core.block[2]>>
      /\ add \in Block
  BY <1>2, <1>3 DEF Block
<1>5. /\ NextTransfer \in Word
      /\ LastWord => NextTransfer = 0
      /\ ~LastWord => NextTransfer # 0
  BY NextTransferType DEF Inv
<1>6. CacheOut \in Data
  BY <1>1 DEF CacheOut, CtlType
<1>7. Pending \in BOOLEAN
  BY <1>1 DEF Pending, FirstWord, CtlType
<1>8. c \in CtlType
  <2> HIDE DEF add
  <2> QED BY <1>1, <1>2, <1>4, <1>5, <1>7 DEF CtlType, State
<1>9. o \in OutType /\ ~o.cam /\ o.read = NoBlock /\ o.wr = NoWord
  BY <1>6 DEF OutType, Quiet
<1>10. /\ c.reqFlag = ctl.reqFlag /\ c.done = ctl.done /\ c.ptr = ctl.ptr
       /\ c.nTransfer = NextTransfer /\ c.addWriteback = add
       /\ c.writebackFlag = Pending
       /\ LastWord => c.state = "readBuffer"
       /\ ~LastWord => /\ c.state = "writeBuffer"
                       /\ c.cacheAdd = <<ctl.ptr, NextTransfer>>
  <2> HIDE DEF add
  <2> QED BY <1>1, <1>2 DEF CtlType
<1>11. Finish(mready, c, o)
  BY DEF PushWord
<1>12. /\ ctl' \in CtlType /\ out' \in OutType /\ ~out'.cam
       /\ out'.wr = NoWord
       /\ ctl'.reqFlag /\ ~ctl'.done /\ ctl'.ptr = ctl.ptr
       /\ ctl'.nTransfer = NextTransfer
       /\ ctl'.addWriteback = <<tagMem[ctl.ptr], core.block[2]>>
       /\ LastWord => ctl'.state = "readBuffer"
       /\ ~LastWord => /\ ctl'.state = "writeBuffer"
                       /\ ctl'.cacheAdd = <<ctl.ptr, NextTransfer>>
  <2> HIDE DEF add, c, o
  <2> QED BY <1>2, <1>4, <1>8, <1>9, <1>10, <1>11, FinishKeeps
<1>13. dirty' = IF LastWord THEN dirty \ {ctl.ptr} ELSE dirty
  BY DEF PushWord
<1>14. /\ TypeOK' /\ TagsUnique' /\ Hits' = Hits /\ ~Tagging /\ ~Tagging'
  BY <1>1, <1>12, <1>13, EdgeFrame
<1>15. tagMem' = tagMem /\ core' = core
  BY DEF AtEdge, memories
<1>16. DirtyLinesValid'
  BY <1>13, <1>15 DEF Inv, DirtyLinesValid
<1>17. InService' /\ Pointer'
  BY <1>2, <1>12, <1>13, <1>14, <1>15 DEF InService, Pointer, Replacing
<1>18. Transfer'
  BY <1>2, <1>5, <1>12, <1>13, <1>15 DEF Transfer, WritesBackInOrder
<1>19. Behind'
  <2>1. Replacing' /\ Holds(ctl.ptr, <<tagMem[ctl.ptr], core.block[2]>>)
    BY <1>2, <1>12 DEF Replacing, Holds
  <2>2. ctl'.addWriteback # core.block
    BY <1>2, <1>12, <2>1 DEF Hits, Match, Holds
  <2>3. ASSUME NEW l \in Line, Holds(l, ctl.addWriteback)'
        PROVE  l = ctl.ptr
    <3>1. Holds(l, <<tagMem[ctl.ptr], core.block[2]>>)
      BY <1>12, <1>15, <2>3 DEF Holds
    <3>2. <<tagMem[ctl.ptr], core.block[2]>> \in Block
      BY <1>3 DEF Block
    <3> QED BY <1>2, <2>1, <3>1, <3>2 DEF Inv, TagsUnique
  <2> QED BY <1>12, <1>15, <2>1, <2>2, <2>3 DEF Behind
<1>20. WritebackStep
  <2>1. ctl.writebackFlag => Pending /\ add = ctl.addWriteback
    BY <1>2 DEF Pending
  <2> HIDE DEF add, c, o
  <2> QED BY <2>1, <1>8, <1>9, <1>10, <1>11, FinishKeeps DEF WritebackStep
<1> QED BY <1>12, <1>14, <1>16, <1>17, <1>18, <1>19, <1>20 DEF Inv

\* and a word filled into the line, the last of which writes the tag.
LEMMA FillWordInv ==
  ASSUME Inv, AtEdge, NEW mready \in BOOLEAN, NEW rready \in BOOLEAN,
         NEW d \in Data, FillWord(mready, rready, d)
  PROVE  /\ Inv' /\ WritebackStep
         /\ out'.ack /\ out'.cam = LastWord /\ ctl'.ptr = ctl.ptr
         /\ ~LastWord => ctl'.state = "readBuffer"
<1> DEFINE c == [ctl EXCEPT !.nTransfer = NextTransfer,
                            !.cacheAdd = <<ctl.ptr, ctl.nTransfer>>,
                            !.state = IF LastWord THEN "normal" ELSE @]
           o == [Quiet EXCEPT !.ack = TRUE, !.wr = d, !.cam = LastWord]
<1>1. /\ core \in CoreType /\ ctl \in CtlType /\ dirty \in SUBSET Line
  BY TypeParts DEF Inv
<1>2. ctl.ptr \in Line /\ ctl.nTransfer \in Word
  BY <1>1 DEF CtlType
<1>3. /\ ctl.state = "readBuffer" /\ ctl.ptr \notin dirty
      /\ SetOf[ctl.ptr] = core.block[2]
      /\ ctl.reqFlag /\ ~ctl.done /\ ~Hits
  BY DEF FillWord, Inv, Pointer, Replacing, InService
<1>4. /\ NextTransfer \in Word
      /\ LastWord => NextTransfer = 0
  BY NextTransferType DEF Inv
<1>5. c \in CtlType
  BY <1>1, <1>2, <1>4 DEF CtlType, State
<1>6. LastWord \in BOOLEAN
  BY DEF LastWord
<1>7. o \in OutType /\ o.cam = LastWord /\ o.read = NoBlock /\ o.ack
  BY <1>6 DEF OutType, Quiet
<1>8. /\ c.reqFlag = ctl.reqFlag /\ c.done = ctl.done /\ c.ptr = ctl.ptr
      /\ c.nTransfer = NextTransfer /\ c.addWriteback = ctl.addWriteback
      /\ c.writebackFlag = ctl.writebackFlag
      /\ LastWord => c.state = "normal"
      /\ ~LastWord => c.state = "readBuffer"
  BY <1>1, <1>3 DEF CtlType
<1>9. Finish(mready, c, o)
  BY DEF FillWord
<1>10. /\ ctl' \in CtlType /\ out' \in OutType /\ out'.cam = LastWord
       /\ out'.ack
       /\ ctl'.reqFlag /\ ~ctl'.done /\ ctl'.ptr = ctl.ptr
       /\ ctl'.nTransfer = NextTransfer
       /\ ctl'.addWriteback = ctl.addWriteback
       /\ ctl'.writebackFlag => ctl.writebackFlag
       /\ LastWord => ctl'.state = "normal"
       /\ ~LastWord => ctl'.state = "readBuffer"
  <2> HIDE DEF c, o
  <2> QED BY <1>3, <1>5, <1>7, <1>8, <1>9, FinishKeeps
<1>11. dirty' = dirty
  BY DEF FillWord
<1>12. /\ TypeOK' /\ TagsUnique' /\ Hits' = Hits /\ ~Tagging
       /\ Tagging' = LastWord
  BY <1>1, <1>10, <1>11, EdgeFrame
<1>13. tagMem' = tagMem /\ core' = core
  BY DEF AtEdge, memories
<1>14. DirtyLinesValid'
  BY <1>11, <1>13 DEF Inv, DirtyLinesValid
<1>15. InService' /\ Pointer' /\ Transfer'
  BY <1>3, <1>4, <1>10, <1>11, <1>12, <1>13
     DEF InService, Pointer, Replacing, Transfer, WritesBackInOrder
<1>16. Replacing /\ Replacing'
  BY <1>3, <1>10, <1>12 DEF Replacing
<1>17. Behind'
  BY <1>10, <1>13, <1>16 DEF Inv, Behind, Holds
<1>18. WritebackStep
  <2> HIDE DEF c, o
  <2> QED BY <1>5, <1>7, <1>8, <1>9, FinishKeeps DEF WritebackStep
<1> QED BY <1>10, <1>12, <1>14, <1>15, <1>17, <1>18 DEF Inv

-----------------------------------------------------------------------------
\* The controller's edge, whichever state it is in, keeps the invariant.
LEMMA EnabledInv == Inv /\ Enabled => Inv' /\ WritebackStep
<1> SUFFICES ASSUME Inv, Enabled PROVE Inv' /\ WritebackStep
  OBVIOUS
<1>1. PICK mready \in BOOLEAN, wready \in BOOLEAN, rready \in BOOLEAN,
           d \in Data, v \in Victim : ControllerEdge(mready, wready, rready, d, v)
  BY DEF Enabled
<1>2. AtEdge
  BY <1>1 DEF Enabled, ControllerEdge, AtEdge
<1>3. CASE Hit(mready)
  BY <1>2, <1>3, HitInv
<1>4. CASE Miss(mready)
  BY <1>2, <1>4, MissInv
<1>5. CASE RequestBlock(mready)
  BY <1>2, <1>5, RequestBlockInv
<1>6. CASE TakeReplacement(mready, v)
  BY <1>2, <1>6, TakeReplacementInv
<1>7. CASE PushWord(mready, wready)
  BY <1>2, <1>7, PushWordInv
<1>8. CASE FillWord(mready, rready, d)
  BY <1>2, <1>8, FillWordInv
<1>9. CASE Wait(mready, wready, rready, v)
  <2>1. ctl.state # "normal" \/ ~ctl.reqFlag
    BY <1>9 DEF Wait, Waits, Active
  <2> QED BY <1>2, <1>9, <2>1, WaitInv DEF Wait
<1> QED
  BY <1>1, <1>3, <1>4, <1>5, <1>6, <1>7, <1>8, <1>9 DEF ControllerEdge

\* Inv is inductive.
THEOREM StepInv == Inv /\ [Next]_vars => Inv'
<1> SUFFICES ASSUME Inv, [Next]_vars PROVE Inv'
  OBVIOUS
<1>1. CASE Next
  BY <1>1, HartInv, EnabledInv, StalledInv, MemoriesInv DEF Next
<1>2. CASE UNCHANGED vars
  BY <1>2 DEF vars, cacheVars, memories, Inv, TypeOK, TagsUnique,
     DirtyLinesValid, InService, Pointer, Transfer, Behind, Tagging, Replacing,
     WritesBackInOrder, Holds, Hits, Match
<1> QED BY <1>1, <1>2

\* The invariant holds in every reachable state of the controller, whatever the
\* system around n_set_cache_controller.v does.
THEOREM InvHolds == Spec => []Inv
BY InitInv, StepInv, PTL DEF Spec

-----------------------------------------------------------------------------
\* Every register keeps its type (n_set_cache_controller.v's widths).
THEOREM CacheTypeOK == Spec => []TypeOK
<1>1. Inv => TypeOK
  BY DEF Inv
<1> QED BY <1>1, InvHolds, PTL

\* A block is never in two lines of the cache, whatever the policy answers and
\* whenever the memory does (the lookup of tag_memory_n_set.v).
THEOREM BlocksAreInOneLine == Spec => []TagsUnique
<1>1. Inv => TagsUnique
  BY DEF Inv
<1> QED BY <1>1, InvHolds, PTL

\* Only valid lines are dirty, so that every write-back has an address.
THEOREM DirtyLinesAreValid == Spec => []DirtyLinesValid
<1>1. Inv => DirtyLinesValid
  BY DEF Inv
<1> QED BY <1>1, InvHolds, PTL

\* The words of a dirty line go to the buffer in order, with the tag that the
\* refill has not yet overwritten (ST_WRITE_BUFFER).
THEOREM WordsLeaveInOrder == Spec => []WritesBackInOrder
<1>1. Inv => WritesBackInOrder
  BY DEF Inv, Transfer
<1> QED BY <1>1, InvHolds, PTL

\* The reference that missed hits when ST_NORMAL repeats it.
THEOREM MissesOnce == Spec => []RepeatedReferenceHits
<1>1. Inv => RepeatedReferenceHits
  BY DEF Inv, InService, RepeatedReferenceHits, Tagging
<1> QED BY <1>1, InvHolds, PTL

\* While a write-back waits for the memory the cache keeps no other copy of its
\* block: a later fetch, which ST_WAIT_READY holds back, reads what it wrote.
THEOREM PendingBlockIsNotCached == Spec => []NoCopyBehindWriteback
<1>1. Inv => NoCopyBehindWriteback
  <2> SUFFICES ASSUME Inv, NEW l \in Line, ctl.writebackFlag,
                      Holds(l, ctl.addWriteback)
               PROVE  l = ctl.ptr /\ ~ctl.done
    BY DEF NoCopyBehindWriteback
  <2>1. l = ctl.ptr /\ Replacing
    BY DEF Inv, Behind
  <2>2. ctl.reqFlag
    BY <2>1 DEF Inv, InService, Replacing
  <2> QED BY <2>1, <2>2 DEF Inv, InService
<1> QED BY <1>1, InvHolds, PTL
\* A block is not requested while a write-back is pending; the strobe lasts
\* until the controller's next edge.
ReadsAlone == out.read # NoBlock => ~ctl.writebackFlag

\* No read strobe is raised while a write-back is pending.
LEMMA ReadsAloneInductive == Inv /\ ReadsAlone /\ [Next]_vars => ReadsAlone'
<1> SUFFICES ASSUME Inv, ReadsAlone, [Next]_vars PROVE ReadsAlone'
  OBVIOUS
<1>1. CASE Enabled
  BY <1>1, EnabledInv DEF WritebackStep, ReadsAlone
<1>2. CASE Stalled
  BY <1>2, QuietType DEF Stalled, Disabled, ReadsAlone
<1>3. CASE UNCHANGED <<ctl, out>>
  BY <1>3 DEF ReadsAlone
<1>4. Hart \/ Memories \/ UNCHANGED vars => UNCHANGED <<ctl, out>>
  BY DEF Hart, HartIdle, HartIssue, Memories, MemoryEdge, vars, cacheVars
<1> QED BY <1>1, <1>2, <1>3, <1>4 DEF Next

\* No write-back is lost, and no block is requested while one is pending
\* (writeback_flag_reg and add_writeback_reg).
THEOREM WritebacksAreNotLost == Spec => WritebackNotLost
<1>1. Init => ReadsAlone
  BY QuietType DEF Init, CacheInit, ReadsAlone
<1>2. Spec => []ReadsAlone
  BY <1>1, ReadsAloneInductive, InvHolds, PTL DEF Spec
<1>3. Inv /\ ReadsAlone /\ [Next]_vars =>
        [ctl.writebackFlag =>
           /\ ctl'.addWriteback = ctl.addWriteback
           /\ out'.read = NoBlock
           /\ ctl'.writebackFlag \/ out'.write = ctl.addWriteback]_vars
  <2> SUFFICES ASSUME Inv, ReadsAlone, [Next]_vars, ctl.writebackFlag
               PROVE  /\ ctl'.addWriteback = ctl.addWriteback
                      /\ out'.read = NoBlock
                      /\ ctl'.writebackFlag \/ out'.write = ctl.addWriteback
    OBVIOUS
  <2>1. CASE Enabled
    BY <2>1, EnabledInv DEF WritebackStep
  <2>2. CASE Stalled
    BY <2>2, QuietType DEF Stalled, Disabled
  <2>3. CASE UNCHANGED <<ctl, out>>
    BY <2>3 DEF ReadsAlone
  <2>4. Hart \/ Memories \/ UNCHANGED vars => UNCHANGED <<ctl, out>>
    BY DEF Hart, HartIdle, HartIssue, Memories, MemoryEdge, vars, cacheVars
  <2> QED BY <2>1, <2>2, <2>3, <2>4 DEF Next
<1> QED BY <1>2, <1>3, InvHolds, PTL DEF Spec, WritebackNotLost

-----------------------------------------------------------------------------
(***************************************************************************)
(* No store is forgotten.  Given Inv, StoresAreKept is inductive: what the *)
(* controller's actions do to the dirty bits and to the pointer decides.   *)
(***************************************************************************)
\* An action of the controller's edge that raises no store strobe and makes no
\* dirty line clean.
LEMMA StoresFrame ==
  ASSUME AtEdge, ~Storing', stored \subseteq dirty'
  PROVE  StoresAreKept'
BY DEF AtEdge, memories, StoresAreKept

\* A hit that stores makes its line dirty.
LEMMA HitStores ==
  ASSUME Inv, StoresAreKept, AtEdge, NEW mready \in BOOLEAN, Hit(mready)
  PROVE  StoresAreKept'
<1> DEFINE store == IF ctl.reqFlag THEN ctl.rwFlag ELSE core.rw
           c == [ctl EXCEPT !.reqFlag = FALSE, !.done = TRUE,
                            !.cacheAdd = <<CamAddr, core.word>>]
           o == [Quiet EXCEPT !.wr = IF store THEN core.data ELSE NoWord]
<1>1. core \in CoreType /\ ctl \in CtlType
  BY TypeParts DEF Inv
<1>2. CamAddr \in Line
  BY DEF Hit, Hits, CamAddr, Match
<1>3. core.word \in Word /\ core.data \in Data
  BY <1>1 DEF CoreType
<1>4. c \in CtlType /\ c.cacheAdd = <<CamAddr, core.word>>
  BY <1>1, <1>2, <1>3 DEF CtlType
<1>5. o \in OutType /\ o.wr = IF store THEN core.data ELSE NoWord
  BY <1>3 DEF OutType, Quiet
<1>6. Finish(mready, c, o)
  BY DEF Hit
<1>7. ctl'.cacheAdd = <<CamAddr, core.word>> /\ out'.wr = o.wr
  <2> HIDE DEF c, o
  <2> QED BY <1>4, <1>5, <1>6, FinishKeeps
<1>8. dirty' = IF store THEN dirty \cup {CamAddr} ELSE dirty
  BY DEF Hit, MarkDirty
<1>9. stored \subseteq dirty /\ stored' = stored
  BY DEF Hit, AtEdge, memories, StoresAreKept
<1>10. Storing' => ctl'.cacheAdd[1] \in dirty'
  BY <1>5, <1>7, <1>8 DEF Storing
<1> QED BY <1>8, <1>9, <1>10 DEF StoresAreKept

\* A line given up with stores in it is written out.
LEMMA TakeReplacementStores ==
  ASSUME Inv, StoresAreKept, AtEdge, NEW mready \in BOOLEAN,
         NEW victim \in Victim, TakeReplacement(mready, victim)
  PROVE  StoresAreKept'
<1>1. ctl \in CtlType /\ victim \in Line /\ Finish(mready, Replace(victim), Quiet)
  BY TypeParts DEF Inv, TakeReplacement, Victim
<1>2. 0 \in Word
  BY CacheAssumption DEF Word
<1>3. Replace(victim) \in CtlType
  BY <1>1, <1>2 DEF Replace, CtlType, State
<1>4. out'.wr = NoWord
  <2>1. out'.wr = Quiet.wr
    BY <1>1, <1>3, QuietType, FinishKeeps
  <2> QED BY <2>1 DEF Quiet
<1>5. stored \subseteq dirty'
  BY DEF TakeReplacement, AtEdge, StoresAreKept
<1> QED BY <1>4, <1>5, StoresFrame DEF Storing

\* Once all words are in the buffer the line may lose its stores.
LEMMA PushWordStores ==
  ASSUME Inv, StoresAreKept, AtEdge, NEW mready \in BOOLEAN,
         NEW wready \in BOOLEAN, PushWord(mready, wready)
  PROVE  StoresAreKept'
<1>1. /\ stored \subseteq dirty /\ stored' = stored
      /\ dirty' = IF LastWord THEN dirty \ {ctl.ptr} ELSE dirty
  BY DEF PushWord, AtEdge, memories, StoresAreKept
<1>2. /\ out'.wr = NoWord
      /\ LastWord => ctl'.state = "readBuffer" /\ ctl'.ptr = ctl.ptr
  BY PushWordInv
<1> QED BY <1>1, <1>2 DEF StoresAreKept, Storing

\* The words of a refill are no stores; the line stays the one at the pointer
\* until its tag is written.
LEMMA FillWordStores ==
  ASSUME Inv, StoresAreKept, AtEdge, NEW mready \in BOOLEAN,
         NEW rready \in BOOLEAN, NEW d \in Data, FillWord(mready, rready, d)
  PROVE  StoresAreKept'
<1>1. stored \subseteq dirty \cup {ctl.ptr} /\ stored' = stored /\ dirty' = dirty
  BY DEF FillWord, AtEdge, memories, StoresAreKept
<1>2. /\ out'.ack /\ out'.cam = LastWord /\ ctl'.ptr = ctl.ptr
      /\ ~LastWord => ctl'.state = "readBuffer"
  BY FillWordInv
<1>3. clk' = 270
  BY DEF AtEdge
<1> QED BY <1>1, <1>2, <1>3 DEF StoresAreKept, Storing

\* A cycle that raises no strobe but those of the write-back.
LEMMA QuietStores ==
  ASSUME Inv, StoresAreKept, AtEdge, NEW mready \in BOOLEAN, NEW c \in CtlType,
         Finish(mready, c, Quiet), dirty' = dirty, c.ptr = ctl.ptr,
         ctl.state = "readBuffer" => c.state = "readBuffer"
  PROVE  StoresAreKept'
<1>1. ctl'.state = c.state /\ ctl'.ptr = ctl.ptr /\ out'.wr = NoWord
  <2>1. ctl'.state = c.state /\ ctl'.ptr = c.ptr /\ out'.wr = Quiet.wr
    BY QuietType, FinishKeeps
  <2> QED BY <2>1 DEF Quiet
<1>2. /\ stored \subseteq
           dirty \cup IF ctl.state = "readBuffer" THEN {ctl.ptr} ELSE {}
      /\ stored' = stored
  BY DEF AtEdge, memories, StoresAreKept
<1> QED BY <1>1, <1>2 DEF StoresAreKept, Storing

\* The controller's edge forgets no store.
LEMMA EnabledStores == Inv /\ StoresAreKept /\ Enabled => StoresAreKept'
<1> SUFFICES ASSUME Inv, StoresAreKept, Enabled PROVE StoresAreKept'
  OBVIOUS
<1>1. PICK mready \in BOOLEAN, wready \in BOOLEAN, rready \in BOOLEAN,
           d \in Data, v \in Victim : ControllerEdge(mready, wready, rready, d, v)
  BY DEF Enabled
<1>2. AtEdge /\ ctl \in CtlType /\ core \in CoreType
  BY <1>1, TypeParts DEF Enabled, ControllerEdge, AtEdge, Inv
<1>3. CASE Hit(mready)
  BY <1>2, <1>3, HitStores
<1>4. CASE Miss(mready)
  <2> DEFINE c == [ctl EXCEPT !.reqFlag = TRUE, !.rwFlag = core.rw,
                              !.done = FALSE, !.state = "waitReady"]
  <2>1. c \in CtlType /\ c.ptr = ctl.ptr
    BY <1>2 DEF CtlType, CoreType, State
  <2>2. Finish(mready, c, Quiet) /\ dirty' = dirty /\ ctl.state = "normal"
    BY <1>4 DEF Miss
  <2> HIDE DEF c
  <2> QED BY <1>2, <2>1, <2>2, QuietStores
<1>5. CASE RequestBlock(mready)
  <2>1. stored \subseteq dirty' /\ out'.wr = NoWord
    BY <1>2, <1>5 DEF RequestBlock, AtEdge, StoresAreKept, Quiet
  <2> QED BY <1>2, <2>1, StoresFrame DEF Storing
<1>6. CASE TakeReplacement(mready, v)
  BY <1>2, <1>6, TakeReplacementStores
<1>7. CASE PushWord(mready, wready)
  BY <1>2, <1>7, PushWordStores
<1>8. CASE FillWord(mready, rready, d)
  BY <1>2, <1>8, FillWordStores
<1>9. CASE Wait(mready, wready, rready, v)
  BY <1>2, <1>9, QuietStores DEF Wait
<1> QED
  BY <1>1, <1>3, <1>4, <1>5, <1>6, <1>7, <1>8, <1>9 DEF ControllerEdge


\* The memories' edge forgets no store.
LEMMA MemoriesStores == Inv /\ StoresAreKept /\ Memories => StoresAreKept'
<1> SUFFICES ASSUME Inv, StoresAreKept, Memories PROVE StoresAreKept'
  OBVIOUS
<1>1. /\ UNCHANGED <<core, ctl, dirty, out>> /\ clk = 270 /\ clk' = 0
      /\ stored' = (IF out.cam THEN stored \ {ctl.ptr} ELSE stored)
                   \cup IF Storing THEN {ctl.cacheAdd[1]} ELSE {}
  BY DEF Memories, MemoryEdge
<1>2. CASE Storing
  BY <1>1, <1>2 DEF StoresAreKept
<1>3. CASE ~Storing
  BY <1>1, <1>3 DEF StoresAreKept
<1> QED BY <1>2, <1>3

\* No store is forgotten (dirtybits_reg): whatever happens, the line that a word
\* was stored into is written out before it is given to another block.
THEOREM StoresAreWrittenBack == Spec => []StoresAreKept
<1>1. Init => StoresAreKept
  BY DEF Init, CacheInit, StoresAreKept
<1>2. Inv /\ StoresAreKept /\ [Next]_vars => StoresAreKept'
  <2> SUFFICES ASSUME Inv, StoresAreKept, [Next]_vars PROVE StoresAreKept'
    OBVIOUS
  <2>1. CASE Enabled
    BY <2>1, EnabledStores
  <2>2. CASE Memories
    BY <2>2, MemoriesStores
  <2>3. CASE Stalled
    BY <2>3 DEF Stalled, Disabled, memories, Quiet, StoresAreKept, Storing
  <2>4. CASE Hart
    BY <2>4 DEF Hart, HartIdle, HartIssue, memories, StoresAreKept
  <2>5. CASE UNCHANGED vars
    BY <2>5 DEF vars, cacheVars, memories, StoresAreKept, Storing
  <2> QED BY <2>1, <2>2, <2>3, <2>4, <2>5 DEF Next
<1> QED BY <1>1, <1>2, InvHolds, PTL DEF Spec
=============================================================================
