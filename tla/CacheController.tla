--------------------------- MODULE CacheController ---------------------------
(***************************************************************************)
(* The n-set cache controller (n_set_cache_controller.v) with the memories *)
(* it drives, the tag memory (tag_memory_n_set.v) and the block RAM of     *)
(* cache_n_set_all.v, and the hart's port to it.                           *)
(*                                                                         *)
(* One clock cycle has three edges here: the hart's at 0 degrees, the      *)
(* controller's at 180, its memories' at 270.  What the controller shares  *)
(* with the rest of the system (enable_i, mem_ready_i, the buffer's ready  *)
(* signals and data, the replacement policy's address) is a parameter of   *)
(* its edge: InternalSystem gives the parameters their values, and Spec    *)
(* below leaves them free, so what holds of Spec holds in every system.    *)
(***************************************************************************)
EXTENDS Naturals, FiniteSets

CONSTANTS
  Tag, Set, Line,   \* block tags, cache sets, lines
  SetOf,            \* SetOf[l]: the set that line l belongs to
  W,                \* words in a block (2^BW_BLOCK)
  Data,             \* word values
  NoTag, NoLine, NoWord, NoBlock,
  Reference,        \* the references that the hart may make
  Boot              \* the hart leaves reset with a request (inst_req_reg)

Block == Tag \X Set
Word == 0 .. W - 1
Access == [rw : BOOLEAN, block : Block, word : Word, data : Data]

ASSUME CacheAssumption ==
  /\ W \in Nat \ {0}
  /\ SetOf \in [Line -> Set]
  /\ NoTag \notin Tag /\ NoLine \notin Line
  /\ NoWord \notin Data /\ NoBlock \notin Block
  /\ Reference \subseteq Access
  /\ Boot \in BOOLEAN

VARIABLES
  clk,        \* the phase of the edge that comes next
  core,       \* the hart's request registers: req, rw, block, word, data
  ctl,        \* the controller's registers
  dirty,      \* dirtybits_reg
  out,        \* its strobes, low unless the last edge raised them
  tagMem,     \* tag_mem with its valid bits: NoTag in an invalid line
  cacheMem,   \* the block RAM
  stored      \* history: lines stored into since they were filled

memories == <<tagMem, cacheMem, stored>>
cacheVars == <<core, ctl, dirty, out, memories>>

\* Strobes that are low: no read or write request (mem_req_reg), no word to
\* the block RAM (wr) or the buffer (push), no acknowledge (ack), no tag (cam).
Quiet == [read |-> NoBlock, write |-> NoBlock, wr |-> NoWord, push |-> NoWord,
          ack |-> FALSE, cam |-> FALSE]

\* The lookup: lines of the requested set that hold the requested tag.
Match(b) == {l \in Line : SetOf[l] = b[2] /\ tagMem[l] = b[1]}
Hits == Match(core.block) # {}
CamAddr == CHOOSE l \in Match(core.block) : TRUE

\* What the block RAM shows at the address that the controller last gave it.
CacheOut == cacheMem[ctl.cacheAdd[1]][ctl.cacheAdd[2]]

\* INIT_DONE is 0 in a cache that leaves reset with a request to serve.
CacheInit ==
  /\ \E a \in Reference :
       core = [req |-> Boot, rw |-> FALSE, block |-> a.block,
               word |-> a.word, data |-> a.data]
  /\ \E l \in Line, d \in Data :
       /\ ctl = [state |-> "normal", nTransfer |-> 0, reqFlag |-> FALSE,
                 rwFlag |-> FALSE, done |-> ~Boot, ptr |-> l,
                 writebackFlag |-> FALSE, addWriteback |-> core.block,
                 cacheAdd |-> <<l, 0>>]
       /\ cacheMem = [m \in Line |-> [w \in Word |-> d]]
  /\ dirty = {}
  /\ out = Quiet
  /\ tagMem = [l \in Line |-> NoTag]
  /\ stored = {}

-----------------------------------------------------------------------------
(* 0 degrees: the hart.  A request is a pulse: the next edge withdraws it,  *)
(* served or not, and leaves the address and data registers alone.          *)

Withdraw == core' = [core EXCEPT !.req = FALSE, !.rw = FALSE]

Issue(a) == core' = [req |-> TRUE, rw |-> a.rw, block |-> a.block,
                     word |-> a.word, data |-> a.data]

HartIdle == Withdraw /\ UNCHANGED <<ctl, dirty, out, memories>>

\* A mutation of HartIssue: the next reference does not wait for the caches.
HartIssueEarly == /\ \E a \in Reference : Issue(a)
                  /\ UNCHANGED <<ctl, dirty, out, memories>>

\* Issued only while the caches report done.
HartIssue == /\ ctl.done
             /\ \E a \in Reference : Issue(a)
             /\ UNCHANGED <<ctl, dirty, out, memories>>

-----------------------------------------------------------------------------
(* 180 degrees: the controller, one action per state and outcome.           *)

Active == core.req \/ ctl.reqFlag

\* Every enabled cycle ends with the writeback block: a pending write-back is
\* requested as soon as the memory is ready, also in the cycle that set it.
Finish(mready, c, o) ==
  IF c.writebackFlag /\ mready
  THEN /\ ctl' = [c EXCEPT !.writebackFlag = FALSE]
       /\ out' = [o EXCEPT !.write = c.addWriteback]
  ELSE ctl' = c /\ out' = o

\* A mutation of MarkDirty: a store marks the line that was replaced last.
MarkReplaced(store) == dirty' = IF store THEN dirty \cup {ctl.ptr} ELSE dirty

MarkDirty(store) == dirty' = IF store THEN dirty \cup {CamAddr} ELSE dirty

\* A reference that hits; after a miss it is the repeated one, whose type is
\* in rw_flag_reg because the hart has withdrawn core_rw_i.
Hit(mready) ==
  LET store == IF ctl.reqFlag THEN ctl.rwFlag ELSE core.rw
  IN /\ ctl.state = "normal" /\ Active /\ Hits
     /\ Finish(mready,
               [ctl EXCEPT !.reqFlag = FALSE, !.done = TRUE,
                           !.cacheAdd = <<CamAddr, core.word>>],
               [Quiet EXCEPT !.wr = IF store THEN core.data ELSE NoWord])
     /\ MarkDirty(store)

Miss(mready) ==
  /\ ctl.state = "normal" /\ Active /\ ~Hits
  /\ Finish(mready,
            [ctl EXCEPT !.reqFlag = TRUE, !.rwFlag = core.rw, !.done = FALSE,
                        !.state = "waitReady"],
            Quiet)
  /\ UNCHANGED dirty

\* A mutation of WritebackDone: the read does not wait for the write-back.
DoNotWait == TRUE

WritebackDone == ~ctl.writebackFlag

\* The missing block is requested once no write-back is pending.
RequestBlock(mready) ==
  /\ ctl.state = "waitReady" /\ mready /\ WritebackDone
  /\ ctl' = [ctl EXCEPT !.state = "waitReplacement"]
  /\ out' = [Quiet EXCEPT !.read = core.block]
  /\ UNCHANGED dirty

\* Mutations of Replace: the pointer of a clean line is not registered; the
\* first word of a dirty line is not addressed.
ReplaceKeepsPtr(victim) ==
  IF victim \in dirty
  THEN [ctl EXCEPT !.ptr = victim, !.cacheAdd = <<victim, 0>>, !.state = "writeBuffer"]
  ELSE [ctl EXCEPT !.state = "readBuffer"]

ReplaceKeepsAdd(victim) ==
  [ctl EXCEPT !.ptr = victim,
              !.state = IF victim \in dirty THEN "writeBuffer" ELSE "readBuffer"]

Replace(victim) ==
  IF victim \in dirty
  THEN [ctl EXCEPT !.ptr = victim, !.cacheAdd = <<victim, 0>>, !.state = "writeBuffer"]
  ELSE [ctl EXCEPT !.ptr = victim, !.state = "readBuffer"]

\* The policy's address is taken; a dirty line is written out first.
TakeReplacement(mready, victim) ==
  /\ ctl.state = "waitReplacement" /\ victim # NoLine
  /\ Finish(mready, Replace(victim), Quiet)
  /\ UNCHANGED dirty

FirstWord == ctl.nTransfer = 0
LastWord == ctl.nTransfer = W - 1

\* A mutation of NextTransfer: the counter is not reset after the last word.
NextTransferNoReset == ctl.nTransfer + 1

NextTransfer == IF LastWord THEN 0 ELSE ctl.nTransfer + 1

\* A mutation of Pending: every word assigns the flag.
PendingFirstOnly == FirstWord

\* writeback_flag_reg after a word has gone to the buffer.
Pending == FirstWord \/ ctl.writebackFlag

\* One word of the dirty line to the buffer; the first one also captures the
\* address, before the refill overwrites the tag.
PushWord(mready, wready) ==
  /\ ctl.state = "writeBuffer" /\ wready
  /\ Finish(mready,
       [ctl EXCEPT
          !.writebackFlag = Pending,
          !.addWriteback = IF FirstWord THEN <<tagMem[ctl.ptr], core.block[2]>> ELSE @,
          !.nTransfer = NextTransfer,
          !.cacheAdd = IF LastWord THEN @ ELSE <<ctl.ptr, NextTransfer>>,
          !.state = IF LastWord THEN "readBuffer" ELSE @],
       [Quiet EXCEPT !.push = CacheOut])
  /\ dirty' = IF LastWord THEN dirty \ {ctl.ptr} ELSE dirty

\* One word of the block to the line; the last one also writes the tag.
FillWord(mready, rready, d) ==
  /\ ctl.state = "readBuffer" /\ rready
  /\ Finish(mready,
       [ctl EXCEPT !.nTransfer = NextTransfer,
                   !.cacheAdd = <<ctl.ptr, ctl.nTransfer>>,
                   !.state = IF LastWord THEN "normal" ELSE @],
       [Quiet EXCEPT !.ack = TRUE, !.wr = d, !.cam = LastWord])
  /\ UNCHANGED dirty

\* Nothing to do in this state but the writeback block.
Waits(mready, wready, rready, victim) ==
  \/ ctl.state = "normal" /\ ~Active
  \/ ctl.state = "waitReady" /\ ~(mready /\ WritebackDone)
  \/ ctl.state = "waitReplacement" /\ victim = NoLine
  \/ ctl.state = "writeBuffer" /\ ~wready
  \/ ctl.state = "readBuffer" /\ ~rready

Wait(mready, wready, rready, victim) ==
  /\ Waits(mready, wready, rready, victim)
  /\ Finish(mready, ctl, Quiet)
  /\ UNCHANGED dirty

\* enable_i low: the strobes return to their defaults, nothing else moves.
Disabled == out' = Quiet /\ UNCHANGED <<ctl, dirty>>

ControllerEdge(mready, wready, rready, d, victim) ==
  /\ \/ Hit(mready)
     \/ Miss(mready)
     \/ RequestBlock(mready)
     \/ TakeReplacement(mready, victim)
     \/ PushWord(mready, wready)
     \/ FillWord(mready, rready, d)
     \/ Wait(mready, wready, rready, victim)
  /\ UNCHANGED <<core, memories>>

-----------------------------------------------------------------------------
\* The word about to be written comes from the hart, not from the buffer.
Storing == out.wr # NoWord /\ ~out.ack

\* 270 degrees: the tag memory and the block RAM sample the strobes.
MemoryEdge ==
  /\ tagMem' = IF out.cam THEN [tagMem EXCEPT ![ctl.ptr] = core.block[1]]
               ELSE tagMem
  /\ cacheMem' = IF out.wr = NoWord THEN cacheMem
                 ELSE [cacheMem EXCEPT
                         ![ctl.cacheAdd[1]][ctl.cacheAdd[2]] = out.wr]
  /\ stored' = (IF out.cam THEN stored \ {ctl.ptr} ELSE stored)
               \cup IF Storing THEN {ctl.cacheAdd[1]} ELSE {}
  /\ UNCHANGED <<core, ctl, dirty, out>>

\* The addresses that a policy may give: lines of the requested set.
Victim == {l \in Line : SetOf[l] = core.block[2]} \cup {NoLine}

-----------------------------------------------------------------------------
\* The controller on its own, in an environment that may do anything.
Init == clk = 180 /\ CacheInit

Hart == clk = 0 /\ clk' = 180 /\ (HartIdle \/ HartIssue)

Enabled ==
  /\ clk = 180 /\ clk' = 270
  /\ \E mready, wready, rready \in BOOLEAN, d \in Data, v \in Victim :
       ControllerEdge(mready, wready, rready, d, v)

Stalled ==
  clk = 180 /\ clk' = 270 /\ Disabled /\ UNCHANGED <<core, memories>>

Memories == clk = 270 /\ clk' = 0 /\ MemoryEdge

Next == Hart \/ Enabled \/ Stalled \/ Memories

vars == <<clk, cacheVars>>

Spec == Init /\ [][Next]_vars

-----------------------------------------------------------------------------
State == {"normal", "waitReady", "waitReplacement", "writeBuffer", "readBuffer"}

\* Every register holds a value of its type.
TypeOK ==
  /\ clk \in {0, 180, 270}
  /\ core \in [req : BOOLEAN, rw : BOOLEAN, block : Block, word : Word,
               data : Data]
  /\ ctl \in [state : State, nTransfer : Word, reqFlag : BOOLEAN,
              rwFlag : BOOLEAN, done : BOOLEAN, ptr : Line,
              writebackFlag : BOOLEAN, addWriteback : Block,
              cacheAdd : Line \X Word]
  /\ dirty \in SUBSET Line
  /\ out \in [read : Block \cup {NoBlock}, write : Block \cup {NoBlock},
              wr : Data \cup {NoWord}, push : Data \cup {NoWord},
              ack : BOOLEAN, cam : BOOLEAN]
  /\ tagMem \in [Line -> Tag \cup {NoTag}]
  /\ cacheMem \in [Line -> [Word -> Data]]
  /\ stored \in SUBSET Line

\* The block that line l holds, as the comparators read it.
Holds(l, b) == SetOf[l] = b[2] /\ tagMem[l] = b[1]

\* No block is ever in two lines, so the priority encoder of the lookup never
\* hides a second copy.
TagsUnique ==
  \A b \in Block : \A l, m \in Line : Holds(l, b) /\ Holds(m, b) => l = m

\* Only a line with a valid tag is dirty: the address of a write-back, read
\* from the tag memory, is that of a block.
DirtyLinesValid == \A l \in dirty : tagMem[l] # NoTag

\* No store is forgotten: the line that it went to is dirty, from the moment
\* the word is written until all words of the line have gone to the buffer.
StoresAreKept ==
  /\ stored \subseteq
       dirty \cup IF ctl.state = "readBuffer" \/ (clk = 270 /\ out.cam)
                 THEN {ctl.ptr} ELSE {}
  /\ clk = 270 /\ Storing => ctl.cacheAdd[1] \in dirty

\* While a write-back waits for the memory, the block it belongs to is in no
\* line but the one being replaced: no hit can change or return a copy that
\* the pending write would overwrite.
NoCopyBehindWriteback ==
  \A l \in Line : ctl.writebackFlag /\ Holds(l, ctl.addWriteback)
                  => l = ctl.ptr /\ ~ctl.done

\* The line that a write-back leaves from keeps its words and its tag until
\* every word is in the buffer, and the words leave in order.
WritesBackInOrder ==
  ctl.state = "writeBuffer" =>
    /\ ctl.ptr \in dirty
    /\ ctl.cacheAdd = <<ctl.ptr, ctl.nTransfer>>
    /\ ctl.nTransfer # 0 => ctl.addWriteback = <<tagMem[ctl.ptr], core.block[2]>>

\* A reference misses at most once: when the controller repeats it, its block
\* is there.
RepeatedReferenceHits ==
  clk = 180 /\ ctl.state = "normal" /\ ctl.reqFlag => Hits

\* A pending write-back keeps its address until it is requested, and no read
\* is requested while it is pending.
WritebackNotLost ==
  [][ctl.writebackFlag =>
       /\ ctl'.addWriteback = ctl.addWriteback
       /\ out'.read = NoBlock
       /\ ctl'.writebackFlag \/ out'.write = ctl.addWriteback]_vars
=============================================================================
