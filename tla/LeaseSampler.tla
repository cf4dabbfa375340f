---------------------------- MODULE LeaseSampler ----------------------------
(***************************************************************************)
(* The reuse-interval sampler (lease_sampler_all.v) and what it is wired   *)
(* to: a hart that references blocks, stalled while the sampler's buffer   *)
(* or its table is full (cache_n_set_all.v), a program that turns sampling *)
(* on and off, and a host that empties a full buffer (sampler_run).        *)
(*                                                                         *)
(* The hart and the peripheral system are clocked at 0 degrees, the        *)
(* sampler at 180.  The sampler registers a reference one cycle before it  *)
(* looks at it.  An entry goes to the buffer when a sampled block is used  *)
(* again; a table that fills up gives its oldest entry to the buffer.  Of  *)
(* an entry the model keeps where it goes, not what the buffer holds.      *)
(***************************************************************************)
EXTENDS Integers

CONSTANTS
    Tags,      \* blocks
    NSampler,  \* entries of the table
    Top,       \* last address of the buffer (N_BUFFER_SAMPLER)
    MaxCount,  \* value at which a counter stays
    Thresholds \* values the masked shift register may have

ASSUME SamplerAssumption ==
    /\ NSampler \in Nat \ {0, 1} /\ Top \in Nat /\ MaxCount \in Nat \ {0}
    /\ Tags # {} /\ Thresholds \subseteq Nat

VARIABLES
    edge,      \* which clock edge is next: 0 or 180 degrees
    issued,    \* the hart's reference of this cycle, {} if none
    ref,       \* the reference the sampler has registered
    comm,      \* the program's and the host's controls
    table,     \* tag, counter and valid bit of each entry
    scan,      \* state and registers of the search through the table
    rate,      \* references since the last sample, and the threshold
    n, add,    \* entries since the buffer was cleared; address of the last one
    writeout,  \* the table is being written out for the host
    age,       \* history: references taken since the last use of each tag
    unread     \* history: the buffer has filled up and was not cleared since

samplerVars == <<edge, issued, ref, comm, table, scan, rate, n, add, writeout, age, unread>>

Slots     == 0 .. NSampler - 1
Full      == add = Top
Valid     == {s \in Slots : table[s].valid}
TableFull == Valid = Slots
Stall     == Full \/ TableFull
Least(S)  == CHOOSE s \in S : \A x \in S : s <= x

SamplerInit ==
    /\ edge = 0 /\ issued = {} /\ ref = {}
    /\ comm = [enable |-> FALSE, store |-> {}, clear |-> FALSE, writeout |-> FALSE]
    /\ table = [s \in Slots |-> [tag |-> CHOOSE t \in Tags : TRUE,
                                 count |-> 0, valid |-> FALSE]]
    /\ scan = [finding |-> FALSE, oldest |-> 0, value |-> 0, search |-> 0]
    /\ rate = [counter |-> 0, threshold |-> 0]
    /\ n = 0 /\ add = 0 /\ writeout = FALSE
    /\ age = [t \in Tags |-> 0] /\ unread = FALSE

----------------------------------------------------------------------------
(* 0 degrees.                                                              *)

\* The hart, unless the stall masks the cache's done, references a block or
\* stores to the control register; the store takes effect a cycle later.  The
\* host clears a full buffer, or one no longer in use, and asks for the table
\* when sampling is off; both are pulses.
SamplerEdge0 ==
    /\ edge = 0 /\ edge' = 180
    /\ \E store \in {{}, {TRUE}, {FALSE}}, clear, out \in BOOLEAN :
          /\ \/ issued' = {}
             \/ ~Stall /\ store = {} /\ \E t \in Tags : issued' = {t}
          /\ store # {} => ~Stall
          /\ clear => ~comm.clear /\ (Full \/ ~comm.enable)
          /\ out => ~comm.writeout /\ ~comm.enable /\ ~clear /\ ~writeout
          /\ comm' = [enable |-> IF comm.store = {} THEN comm.enable
                                 ELSE TRUE \in comm.store,
                      store |-> store, clear |-> clear, writeout |-> out]
    /\ UNCHANGED <<ref, table, scan, rate, n, add, writeout, age, unread>>

----------------------------------------------------------------------------
(* 180 degrees.                                                            *)

\* An entry goes to the next address of the buffer, or none does; a clear
\* takes effect first.
Start == IF comm.clear THEN 0 ELSE n
Emit == add' = Start /\ n' = (Start + 1) % (Top + 1)
KeepFull == add' = add /\ n' = Start   \* mutant: the clear leaves the address
Keep == add' = (IF comm.clear THEN 0 ELSE add) /\ n' = Start

\* The host's request to write the table out is noted at any time, and starts at
\* the first entry.
Asked     == writeout \/ comm.writeout
Rewind(s) == IF comm.writeout THEN [s EXCEPT !.oldest = 0] ELSE s

UpTo(k) == IF k < MaxCount THEN k + 1 ELSE k
Matching == {s \in Valid : table[s].tag \in ref}

\* The table after a reference: every counter is raised, the entry that
\* matched is given up, and its place, or the first free one, is for a sample.
Place == IF Matching # {} THEN Least(Matching) ELSE Least(Slots \ Valid)

RaiseValid(s) ==    \* mutant: the match's counter is not reset with its sample
    [table[s] EXCEPT !.count = IF s \in Matching THEN @ ELSE UpTo(@)]
Raise(s) == [table[s] EXCEPT !.count = UpTo(@), !.valid = @ /\ s \notin Matching]

Sample(t) ==
    IF rate.counter >= rate.threshold
    THEN /\ table' = [s \in Slots |-> IF s = Place
                          THEN [tag |-> t, count |-> 0, valid |-> TRUE] ELSE Raise(s)]
         /\ \E k \in Thresholds : rate' = [counter |-> 0, threshold |-> k]
    ELSE /\ table' = [s \in Slots |-> Raise(s)]
         /\ rate' = [rate EXCEPT !.counter = @ + 1]

\* A reference is taken while the table has room.
Track(t) ==
    /\ comm.enable /\ ~scan.finding /\ ~TableFull
    /\ t \in ref
    /\ Sample(t)
    /\ IF Matching # {} THEN Emit ELSE Keep
    /\ age' = [u \in Tags |-> IF u = t THEN 0 ELSE UpTo(age[u])]
    /\ scan' = Rewind(scan) /\ writeout' = Asked

\* Sampling is on, the table has room, and there is no reference.
Quiet ==
    /\ comm.enable /\ ~scan.finding /\ ~TableFull /\ ref = {}
    /\ Keep
    /\ scan' = Rewind(scan) /\ writeout' = Asked
    /\ UNCHANGED <<table, rate, age>>

\* The table is full: the search for its oldest entry starts.  A reference
\* registered in the meantime is not looked at.
StartSearch ==
    /\ comm.enable /\ ~scan.finding /\ TableFull
    /\ scan' = [finding |-> TRUE, oldest |-> 0, value |-> table[0].count, search |-> 1]
    /\ Keep
    /\ writeout' = Asked
    /\ UNCHANGED <<table, rate, age>>

Search ==
    /\ comm.enable /\ scan.finding /\ scan.search # 0
    /\ LET s == scan.search
           older == table[s].count > scan.value
       IN  scan' = [finding |-> TRUE,
                    oldest |-> IF older THEN s ELSE Rewind(scan).oldest,
                    value |-> IF older THEN table[s].count ELSE scan.value,
                    search |-> (s + 1) % NSampler]
    /\ Keep
    /\ writeout' = Asked
    /\ UNCHANGED <<table, rate, age>>

\* The whole table has been looked at: the oldest entry goes to the buffer.
EvictOldest ==
    /\ comm.enable /\ scan.finding /\ scan.search = 0
    /\ table' = [table EXCEPT ![scan.oldest].valid = FALSE]
    /\ scan' = [Rewind(scan) EXCEPT !.finding = FALSE]
    /\ Emit
    /\ writeout' = Asked
    /\ UNCHANGED <<rate, age>>

\* Sampling is off: on the host's request every entry goes to the buffer.
WriteOut ==
    /\ ~comm.enable /\ writeout
    /\ table' = [table EXCEPT ![scan.oldest].valid = FALSE]
    /\ IF table[scan.oldest].valid THEN Emit ELSE Keep
    /\ scan' = [scan EXCEPT !.oldest = (@ + 1) % NSampler]
    /\ writeout' = (scan.oldest # NSampler - 1)
    /\ UNCHANGED <<rate, age>>

SamplerOff ==
    /\ ~comm.enable /\ ~writeout
    /\ writeout' = Asked /\ scan' = Rewind(scan)
    /\ Keep
    /\ UNCHANGED <<table, rate, age>>

SamplerEdge(request) ==
    /\ \/ \E t \in Tags : Track(t)
       \/ Quiet \/ StartSearch \/ Search \/ EvictOldest \/ WriteOut \/ SamplerOff
    /\ ref' = request
    /\ unread' = ((unread /\ ~comm.clear) \/ (comm.enable /\ add' = Top))

SamplerEdge180 ==
    /\ edge = 180 /\ edge' = 0
    /\ SamplerEdge(issued)
    /\ UNCHANGED <<issued, comm>>

SamplerNext == SamplerEdge0 \/ SamplerEdge180

SamplerSpec == SamplerInit /\ [][SamplerNext]_samplerVars

----------------------------------------------------------------------------
(* Properties.                                                             *)

\* What the sampler writes is a reuse interval: a block is in the table at
\* most once, and its counter is the number of references taken since the
\* block's last use, through hits, samples, evictions and pauses.
SamplesAreReuses ==
    \A s \in Valid :
        /\ table[s].count = age[table[s].tag]
        /\ \A u \in Valid : table[u].tag = table[s].tag => u = s

\* A buffer that is full stays so until the host clears it: "stalls the cache
\* which in turn stalls the core so that the host can pull the buffer data".
FullIsHeld == edge = 0 /\ unread => Full

=============================================================================
