-------------------------- MODULE InstrumentProofs --------------------------
(***************************************************************************)
(* Proofs about the two instruments of a cache: what the sampler writes    *)
(* are reuse intervals, for a table of any size and counters of any width; *)
(* the tracker keeps its entries and records them evenly, for every size   *)
(* of its buffer, sampling rate and width of its counters.                 *)
(***************************************************************************)
EXTENDS TrackedCache, LeaseSampler, WellFoundedInduction, TLAPS

-----------------------------------------------------------------------------
(* The sampler.                                                             *)

TableEntry == [tag : Tags, count : Nat, valid : BOOLEAN]
AtMostOne(S) == \A x, y \in S : x = y

\* The state on which the samples depend.
SamplerTypeOK ==
    /\ table \in [Slots -> TableEntry]
    /\ age \in [Tags -> Nat]
    /\ issued \in SUBSET Tags /\ AtMostOne(issued)
    /\ ref \in SUBSET Tags /\ AtMostOne(ref)

SamplerInv == SamplerTypeOK /\ SamplesAreReuses

-----------------------------------------------------------------------------
\* A non-empty set of entries has a least member.
LEMMA LeastIsMember ==
    ASSUME NEW S \in SUBSET Nat, S # {}
    PROVE  Least(S) \in S
<1> DEFINE Less == {p \in Nat \X Nat : p[1] < p[2]}
<1>1. IsWellFoundedOn(Less, Nat)
    BY NatLessThanWellFounded, Zenon DEF OpToRel
<1> HIDE DEF Less
<1>2. PICK x \in S : \A y \in S : ~ (<<y, x>> \in Less)
    BY <1>1, WFMin, Zenon
<1>3. ASSUME NEW y \in S PROVE x <= y
    <2>1. x \in Nat /\ y \in Nat
        OBVIOUS
    <2>2. y < x => <<y, x>> \in Less
        BY <2>1, Zenon DEF Less
    <2> QED BY <1>2, <2>1, <2>2
<1> QED BY <1>3 DEF Least

\* The place of a sample is free after the reference: the entry that matched,
\* or one that was not valid.
LEMMA PlaceIsFree ==
    ASSUME SamplerInv, ~TableFull
    PROVE  /\ Place \in Slots
           /\ Place \notin Valid \ Matching
<1>1. Slots \in SUBSET Nat
    BY SamplerAssumption DEF Slots
<1>2. Matching \in SUBSET Nat /\ Slots \ Valid \in SUBSET Nat /\ Matching \subseteq Slots
    BY <1>1 DEF Matching, Valid
<1>3. CASE Matching # {}
    BY <1>2, <1>3, LeastIsMember DEF Place
<1>4. CASE Matching = {}
    <2>1. Slots \ Valid # {}
        BY DEF TableFull, Valid
    <2> QED BY <1>2, <1>4, <2>1, LeastIsMember DEF Place
<1> QED BY <1>3, <1>4

\* Raising an entry keeps its tag and gives up nothing but the match.
LEMMA RaisedEntry ==
    ASSUME SamplerInv, NEW s \in Slots
    PROVE  /\ Raise(s) \in TableEntry
           /\ Raise(s).tag = table[s].tag
           /\ Raise(s).count = UpTo(table[s].count)
           /\ Raise(s).valid <=> s \in Valid \ Matching
<1>1. table[s] \in TableEntry
    BY DEF SamplerInv, SamplerTypeOK
<1> DEFINE c == UpTo(table[s].count)
           v == table[s].valid /\ s \notin Matching
<1>2. c \in Nat
    BY <1>1 DEF UpTo, TableEntry
<1>3. v \in BOOLEAN /\ (v <=> s \in Valid \ Matching)
    BY <1>1, Zenon DEF Valid
<1>4. Raise(s) = [[table[s] EXCEPT !.count = c] EXCEPT !.valid = v]
    BY DEF Raise
<1> HIDE DEF c, v
<1>5. /\ Raise(s) \in TableEntry
      /\ Raise(s).tag = table[s].tag /\ Raise(s).count = c /\ Raise(s).valid = v
    BY <1>1, <1>2, <1>3, <1>4 DEF TableEntry
<1> QED BY <1>3, <1>5 DEF c

-----------------------------------------------------------------------------
\* A reference leaves an entry of its own block at most where it is sampled,
\* and raises every other entry with the age of its block.
LEMMA TrackKeepsInv ==
    ASSUME SamplerInv, NEW t \in Tags, Track(t), ref' = issued, UNCHANGED issued
    PROVE  SamplerInv'
<1> DEFINE kept == [s \in Slots |-> Raise(s)]
           fresh == [tag |-> t, count |-> 0, valid |-> TRUE]
           added == [s \in Slots |-> IF s = Place THEN fresh ELSE Raise(s)]
<1> HIDE DEF kept, fresh, added
<1>1. table' = kept \/ table' = added
    BY Zenon DEF Track, Sample, kept, added, fresh
<1>2. /\ Place \in Slots
      /\ Place \notin Valid \ Matching
    BY PlaceIsFree DEF Track
<1>3. ref = {t}
    BY DEF Track, SamplerInv, SamplerTypeOK, AtMostOne
<1>4. /\ age' \in [Tags -> Nat]
      /\ age'[t] = 0
      /\ \A u \in Tags \ {t} : age'[u] = UpTo(age[u])
    <2>1. \A u \in Tags : UpTo(age[u]) \in Nat
        BY DEF SamplerInv, SamplerTypeOK, UpTo
    <2> QED BY <2>1 DEF Track
<1>5. fresh \in TableEntry
    BY DEF fresh, TableEntry
<1>6. table' \in [Slots -> TableEntry]
    BY <1>1, <1>5, RaisedEntry DEF kept, added
<1>7. SamplerTypeOK'
    BY <1>4, <1>6 DEF SamplerInv, SamplerTypeOK, AtMostOne
\* An entry that is valid afterwards is the sample or an entry of another block.
<1>8. ASSUME NEW s \in Valid'
      PROVE  \/ s = Place /\ table'[s] = fresh
             \/ /\ s \in Valid \ Matching
                /\ table'[s] = Raise(s)
                /\ table[s].tag # t
    <2>1. s \in Slots /\ table'[s].valid
        BY DEF Valid
    <2>2. CASE table'[s] = fresh /\ s = Place
        BY <2>2
    <2>3. CASE table'[s] = Raise(s)
        <3>1. s \in Valid \ Matching
            BY <2>1, <2>3, RaisedEntry
        <3> QED BY <1>3, <2>3, <3>1 DEF Matching
    <2> QED BY <1>1, <2>1, <2>2, <2>3 DEF kept, added
<1>9. ASSUME NEW s \in Valid'
      PROVE  table'[s].count = age'[table'[s].tag]
    <2>1. CASE s = Place /\ table'[s] = fresh
        BY <1>4, <2>1 DEF fresh
    <2>2. CASE s \in Valid \ Matching /\ table'[s] = Raise(s) /\ table[s].tag # t
        <3>1. s \in Slots /\ table[s].tag \in Tags
            BY <2>2 DEF Valid, SamplerInv, SamplerTypeOK, TableEntry
        <3>2. table[s].count = age[table[s].tag]
            BY <2>2 DEF SamplerInv, SamplesAreReuses
        <3> QED BY <1>4, <2>2, <3>1, <3>2, RaisedEntry
    <2> QED BY <1>8, <2>1, <2>2
<1>10. ASSUME NEW s \in Valid', NEW u \in Valid', table'[u].tag = table'[s].tag
       PROVE  u = s
    <2>1. /\ s \in Slots /\ u \in Slots
          /\ \A x \in {s, u} : Raise(x).tag = table[x].tag
        BY RaisedEntry DEF Valid
    <2>2. fresh.tag = t
        BY DEF fresh
    <2>3. \A x, y \in Valid : table[x].tag = table[y].tag => x = y
        BY DEF SamplerInv, SamplesAreReuses
    <2>4. CASE u = Place /\ table'[u] = fresh
        BY <1>8, <1>10, <2>1, <2>2, <2>4
    <2>5. CASE u \in Valid \ Matching /\ table'[u] = Raise(u) /\ table[u].tag # t
        BY <1>8, <1>10, <2>1, <2>2, <2>3, <2>5
    <2> QED BY <1>8, <2>4, <2>5
<1> QED BY <1>7, <1>9, <1>10 DEF SamplerInv, SamplesAreReuses

\* Taking an entry out of the table disturbs no other.
LEMMA DroppingKeepsInv ==
    ASSUME SamplerInv, NEW i, table' = [table EXCEPT ![i].valid = FALSE],
           UNCHANGED age, ref' = issued, UNCHANGED issued
    PROVE  SamplerInv'
<1>1. ASSUME NEW s \in Slots
      PROVE  /\ table'[s] \in TableEntry
             /\ table'[s].tag = table[s].tag /\ table'[s].count = table[s].count
             /\ table'[s].valid => table[s].valid
    <2>1. table[s] \in TableEntry
        BY DEF SamplerInv, SamplerTypeOK
    <2>2. table'[s] = table[s] \/ table'[s] = [table[s] EXCEPT !.valid = FALSE]
        BY DEF SamplerInv, SamplerTypeOK
    <2>3. CASE table'[s] = table[s]
        BY <2>1, <2>3
    <2>4. CASE table'[s] = [table[s] EXCEPT !.valid = FALSE]
        BY <2>1, <2>4 DEF TableEntry
    <2> QED BY <2>2, <2>3, <2>4
<1>2. table' \in [Slots -> TableEntry]
    BY <1>1 DEF SamplerInv, SamplerTypeOK
<1>3. SamplerTypeOK'
    BY <1>2 DEF SamplerInv, SamplerTypeOK, AtMostOne
<1>4. Valid' \subseteq Valid /\ Valid \subseteq Slots
    BY <1>1 DEF Valid
<1> QED BY <1>1, <1>3, <1>4 DEF SamplerInv, SamplesAreReuses

\* A step that leaves the table and the ages alone keeps the invariant.
LEMMA KeepingKeepsInv ==
    ASSUME SamplerInv, UNCHANGED <<table, age>>,
           ref' \in SUBSET Tags, AtMostOne(ref'), issued' \in SUBSET Tags, AtMostOne(issued')
    PROVE  SamplerInv'
BY DEF SamplerInv, SamplerTypeOK, SamplesAreReuses, Valid, AtMostOne

-----------------------------------------------------------------------------
\* The invariant holds when the sampler leaves reset.
LEMMA SamplerInitInv == SamplerInit => SamplerInv
<1> SUFFICES ASSUME SamplerInit PROVE SamplerInv
    OBVIOUS
<1>1. (CHOOSE t \in Tags : TRUE) \in Tags
    BY SamplerAssumption
<1>2. SamplerTypeOK
    BY <1>1 DEF SamplerInit, SamplerTypeOK, TableEntry, AtMostOne
<1>3. Valid = {}
    BY DEF SamplerInit, Valid
<1> QED BY <1>2, <1>3 DEF SamplerInv, SamplesAreReuses

\* Every step of the sampler keeps the invariant.
LEMMA SamplerStepInv == SamplerInv /\ [SamplerNext]_samplerVars => SamplerInv'
<1> SUFFICES ASSUME SamplerInv, [SamplerNext]_samplerVars PROVE SamplerInv'
    OBVIOUS
<1>1. CASE SamplerEdge0
    <2>1. issued' \in SUBSET Tags /\ AtMostOne(issued')
        BY <1>1 DEF SamplerEdge0, AtMostOne
    <2>2. UNCHANGED <<table, age, ref>>
        BY <1>1 DEF SamplerEdge0
    <2> QED BY <2>1, <2>2, KeepingKeepsInv DEF SamplerInv, SamplerTypeOK
<1>2. CASE SamplerEdge180
    <2>1. ref' = issued /\ UNCHANGED issued
        BY <1>2 DEF SamplerEdge180, SamplerEdge
    <2>2. ASSUME UNCHANGED <<table, age>> PROVE SamplerInv'
        BY <2>1, <2>2, KeepingKeepsInv DEF SamplerInv, SamplerTypeOK
    <2>3. CASE \E t \in Tags : Track(t)
        BY <2>1, <2>3, TrackKeepsInv
    <2>4. CASE Quiet
        BY <2>2, <2>4 DEF Quiet
    <2>5. CASE StartSearch
        BY <2>2, <2>5 DEF StartSearch
    <2>6. CASE Search
        BY <2>2, <2>6 DEF Search
    <2>7. CASE EvictOldest
        BY <2>1, <2>7, DroppingKeepsInv DEF EvictOldest
    <2>8. CASE WriteOut
        BY <2>1, <2>8, DroppingKeepsInv DEF WriteOut
    <2>9. CASE SamplerOff
        BY <2>2, <2>9 DEF SamplerOff
    <2> QED BY <1>2, <2>3, <2>4, <2>5, <2>6, <2>7, <2>8, <2>9 DEF SamplerEdge180, SamplerEdge
<1>3. CASE UNCHANGED samplerVars
    BY <1>3, KeepingKeepsInv DEF samplerVars, SamplerInv, SamplerTypeOK
<1> QED BY <1>1, <1>2, <1>3 DEF SamplerNext

\* What the sampler writes is a reuse interval (lease_sampler_all.v): in every
\* reachable state a valid entry is the only one of its block and its counter
\* is the number of references since the block's last use.
THEOREM SamplerCountsReuses == SamplerSpec => []SamplesAreReuses
<1>1. SamplerInv => SamplesAreReuses
    BY DEF SamplerInv
<1> QED BY <1>1, SamplerInitInv, SamplerStepInv, PTL DEF SamplerSpec

-----------------------------------------------------------------------------
(* The tracker.                                                             *)

EntryType == [trace : 0 .. TraceRange - 1, flags : Flags]

TrkType == [stall : BOOLEAN, counter : 0 .. CounterRange - 1,
            addr : 0 .. Limit - 1, next : 0 .. Limit,
            rw : BOOLEAN, flags : Flags]

TrackerTypeOK ==
  /\ clk \in {0, 90, 180, 270}
  /\ config \in [track : BOOLEAN, clear : BOOLEAN]
  /\ trk \in TrkType
  /\ port \in [rw : BOOLEAN, addr : 0 .. Limit - 1, delay : BOOLEAN]
  /\ refCount \in 0 .. TraceRange - 1
  /\ buf \in [0 .. Limit - 1 -> EntryType]
  /\ sampled \in Seq(EntryType)

\* The history and the address count the same entries, and a full buffer is
\* what stalls the cache.
Counts == /\ Len(sampled) = trk.next
          /\ trk.stall <=> trk.next = Limit
          /\ trk.stall => trk.counter = Rate

\* The newest entry, as the buffer's memory would sample it now.
Newest(trace) == /\ trk.next > 0
                 /\ sampled[trk.next] = Entry(trace, trk.flags)

\* An entry that has just been recorded finds the port free and its own.
Recorded ==
  clk = 180 /\ trk.rw =>
    /\ config.track /\ ~port.rw /\ (trk.stall => ~port.delay)
    /\ trk.counter = Rate /\ trk.addr = trk.next - 1
    /\ Newest((IF core.req THEN refCount ELSE refCount - 1) % TraceRange)

\* An entry at the port is the newest one, unless the host has cleared the
\* buffer; the next is at least Rate references away.
AtPort ==
  port.rw =>
    /\ trk.next > 0 => port.addr = trk.next - 1
                       /\ Newest((refCount - 1) % TraceRange)
    /\ clk # 180 => trk.counter = Rate

\* The host has the port only while no record can be made.
Delayed ==
  port.delay => \/ trk.counter = Rate
                \/ clk = 180 /\ config.track /\ ~trk.stall

Stored == \A i \in 0 .. trk.next - 1 : Underway(i) \/ buf[i] = sampled[i + 1]

TrackerInv == TrackerTypeOK /\ Counts /\ Recorded /\ AtPort /\ Delayed /\ Stored

-----------------------------------------------------------------------------
USE TrackerAssumption

\* The tracker invariant holds when the board leaves reset.
LEMMA TrackerInitInv == Init => TrackerInv
<1> SUFFICES ASSUME Init PROVE TrackerInv
  OBVIOUS
<1> USE DEF Init, TrackerInit
<1>1. PICK f \in Flags :
        /\ trk = [stall |-> FALSE, counter |-> 0, addr |-> 0, next |-> 0,
                  rw |-> FALSE, flags |-> f]
        /\ buf = [i \in 0 .. Limit - 1 |-> Entry(0, f)]
  OBVIOUS
<1>2. Entry(0, f) \in EntryType
  BY DEF Entry, EntryType
<1>3. TrackerTypeOK
  BY <1>1, <1>2 DEF TrackerTypeOK, TrkType
<1>4. Counts /\ Recorded /\ AtPort /\ Delayed /\ Stored
  BY <1>1 DEF Counts, Recorded, AtPort, Delayed, Stored
<1> QED BY <1>3, <1>4 DEF TrackerInv

\* The sampling counter stays in its range, and comes down by one with a request.
LEMMA CountedInRange ==
  ASSUME TrackerTypeOK, NEW request
  PROVE  /\ Counted(request) \in 0 .. CounterRange - 1
         /\ trk.counter \in 0 .. CounterRange - 1
         /\ trk.counter > 0 =>
              Counted(request) = IF request THEN trk.counter - 1 ELSE trk.counter
<1>1. trk.counter \in 0 .. CounterRange - 1
  BY DEF TrackerTypeOK, TrkType
<1>2. (trk.counter - 1) % CounterRange \in 0 .. CounterRange - 1
  BY <1>1
<1>3. trk.counter > 0 => (trk.counter - 1) % CounterRange = trk.counter - 1
  BY <1>1
<1> QED BY <1>1, <1>2, <1>3 DEF Counted

-----------------------------------------------------------------------------
\* 90 degrees.

\* What a clear leaves of the registers and of the entries that are to be kept.
LEMMA ClearedRegisters ==
  ASSUME TrackerTypeOK, Counts
  PROVE  /\ Cleared \in TrkType
         /\ Cleared.counter = trk.counter /\ Cleared.flags = trk.flags
         /\ ~Cleared.rw
         /\ Kept \in Seq(EntryType) /\ Len(Kept) = Cleared.next
         /\ Cleared.next > 0 => Kept = sampled /\ Cleared.next = trk.next
         /\ Cleared.stall => trk.stall
         /\ Cleared.stall <=> Cleared.next = Limit
<1>1. CASE config.clear
  <2>1. Cleared = [trk EXCEPT !.rw = FALSE, !.stall = FALSE, !.addr = 0, !.next = 0]
    BY <1>1 DEF Cleared
  <2>2. Kept \in Seq(EntryType) /\ Len(Kept) = 0
    BY <1>1 DEF Kept
  <2>3. /\ Cleared \in TrkType /\ ~Cleared.stall /\ Cleared.next = 0 /\ ~Cleared.rw
        /\ Cleared.counter = trk.counter /\ Cleared.flags = trk.flags
    <3>1. 0 \in 0 .. Limit - 1 /\ 0 \in 0 .. Limit /\ trk \in TrkType
      BY DEF TrackerTypeOK
    <3>2. Cleared \in TrkType
      BY <2>1, <3>1 DEF TrkType
    <3>3. ~Cleared.stall /\ Cleared.next = 0 /\ ~Cleared.rw
      BY <2>1, <3>1 DEF TrkType
    <3>4. Cleared.counter = trk.counter /\ Cleared.flags = trk.flags
      BY <2>1, <3>1 DEF TrkType
    <3> QED BY <3>2, <3>3, <3>4
  <2> QED BY <2>2, <2>3
<1>2. CASE ~config.clear
  <2>1. Cleared = [trk EXCEPT !.rw = FALSE]
    <3>1. trk = [trk EXCEPT !.stall = @, !.addr = @, !.next = @]
      BY DEF TrackerTypeOK, TrkType
    <3> QED BY <1>2, <3>1 DEF Cleared, TrackerTypeOK, TrkType
  <2>2. Kept = sampled
    BY <1>2 DEF Kept
  <2> QED BY <2>1, <2>2 DEF TrackerTypeOK, TrkType, Counts
<1> QED BY <1>1, <1>2

\* The edge at 90 degrees, at which the tracker skips or records, keeps the invariant.
LEMMA RecordKeepsInv ==
  ASSUME Rate >= 2, TrackerInv, clk = 90, clk' = 180, core' = core,
         NEW f \in Flags, RecordEdge(core.req, f)
  PROVE  TrackerInv'
<1> USE DEF TrackerInv
<1>1. UNCHANGED <<config, port, refCount, buf>>
  BY DEF RecordEdge
<1>2. CASE Off
  <2>1. trk' = Cleared /\ sampled' = Kept
    BY <1>2 DEF Off
  <2>2. TrackerTypeOK'
    <3>1. trk' \in TrkType
      BY <2>1, ClearedRegisters
    <3>2. sampled' \in Seq(EntryType)
      BY <2>1, ClearedRegisters
    <3> QED BY <1>1, <3>1, <3>2 DEF TrackerTypeOK
  <2>3. Counts'
    BY <2>1, ClearedRegisters DEF Counts, TrkType
  <2>4. Recorded'
    BY <2>1, ClearedRegisters DEF Recorded, TrkType
  <2>5. AtPort'
    BY <1>1, <2>1, ClearedRegisters DEF AtPort, Newest, TrkType
  <2>6. Delayed'
    BY <1>1, <2>1, ClearedRegisters DEF Delayed, TrkType
  <2>7. Stored'
    BY <1>1, <2>1, ClearedRegisters DEF Stored, Underway, TrkType
  <2> QED BY <2>2, <2>3, <2>4, <2>5, <2>6, <2>7
<1>3. CASE Skip(core.req)
  <2>1. /\ trk' = [Cleared EXCEPT !.counter = Counted(core.req)]
        /\ sampled' = Kept /\ config.track /\ ~Cleared.stall
    BY <1>3 DEF Skip, Tracks
  <2>2. TrackerTypeOK'
    <3>1. Counted(core.req) \in 0 .. CounterRange - 1
      BY CountedInRange
    <3>2. trk' \in TrkType
      BY <2>1, <3>1, ClearedRegisters DEF TrkType
    <3>3. sampled' \in Seq(EntryType)
      BY <2>1, ClearedRegisters
    <3> QED BY <1>1, <3>2, <3>3 DEF TrackerTypeOK
  <2>3. Counts'
    BY <2>1, ClearedRegisters DEF Counts, TrkType
  <2>4. Recorded'
    BY <2>1, ClearedRegisters DEF Recorded, TrkType
  <2>5. AtPort'
    BY <1>1, <2>1, ClearedRegisters DEF AtPort, Newest, TrkType
  <2>6. Delayed'
    BY <1>1, <2>1, ClearedRegisters DEF Delayed, TrkType
  <2>7. Stored'
    BY <1>1, <2>1, ClearedRegisters DEF Stored, Underway, TrkType
  <2> QED BY <2>2, <2>3, <2>4, <2>5, <2>6, <2>7
<1>4. CASE Record(core.req, f)
  <2> DEFINE new == Entry((IF core.req THEN refCount ELSE refCount - 1) % TraceRange, f)
             k == Cleared.next
  <2>1. /\ trk' = [stall |-> k + 1 = Limit, counter |-> Rate, addr |-> k,
                   next |-> k + 1, rw |-> TRUE, flags |-> f]
        /\ sampled' = Append(Kept, new)
        /\ config.track /\ ~Cleared.stall /\ Counted(core.req) = 0
    BY <1>4 DEF Record, Tracks, Reload
  <2>2. k \in 0 .. Limit - 1
    BY <2>1, ClearedRegisters DEF TrkType
  <2>3. refCount % TraceRange \in 0 .. TraceRange - 1 /\ (refCount - 1) % TraceRange \in 0 .. TraceRange - 1
    BY DEF TrackerTypeOK
  <2>4. new \in EntryType
    BY <2>3 DEF Entry, EntryType
  <2> HIDE DEF new, k
  <2>5. trk'.rw /\ trk'.addr = k /\ trk'.next = k + 1 /\ trk'.counter = Rate
    BY <2>1
  <2>6. sampled' \in Seq(EntryType) /\ Len(sampled') = k + 1
    BY <2>1, <2>4, ClearedRegisters DEF k
  <2>7. sampled'[k + 1] = new /\ \A i \in 1 .. k : sampled'[i] = Kept[i]
    BY <2>1, <2>4, ClearedRegisters DEF k
  \* The counter has come down from Rate: what was at the port has gone.
  <2>8. trk.counter < Rate /\ ~trk.stall
    BY <2>1, CountedInRange, SMTT(30) DEF Counts
  <2>9. ~port.rw /\ ~port.delay
    BY <2>8 DEF AtPort, Delayed
  <2>10. TrackerTypeOK'
    BY <1>1, <2>1, <2>2, <2>6 DEF TrackerTypeOK, TrkType
  <2>11. Counts'
    BY <2>1, <2>2, <2>6 DEF Counts
  <2>12. Recorded'
    <3>1. new = Entry((IF core.req THEN refCount ELSE refCount - 1) % TraceRange, f)
      BY DEF new
    <3>2. trk'.addr = trk'.next - 1 /\ trk'.next > 0 /\ trk'.next = k + 1
      BY <2>1, <2>2
    <3>3. Newest((IF core.req THEN refCount ELSE refCount - 1) % TraceRange)'
      BY <1>1, <2>1, <2>7, <3>1, <3>2 DEF Newest
    <3>4. trk'.counter = Rate /\ config'.track /\ ~port'.rw /\ ~port'.delay
      BY <1>1, <2>1, <2>9
    <3> QED BY <3>2, <3>3, <3>4 DEF Recorded
  <2>13. AtPort' /\ Delayed'
    BY <1>1, <2>9 DEF AtPort, Delayed
  <2>14. Stored'
    <3> SUFFICES ASSUME NEW i \in 0 .. k, i # k
                 PROVE  buf[i] = Kept[i + 1]
      <4>1. \A i \in 0 .. k : i # k => i + 1 \in 1 .. k
        BY <2>2
      <4>2. trk'.next - 1 = k
        BY <2>1, <2>2
      <4> QED BY <1>1, <2>7, <2>5, <4>1, <4>2 DEF Stored, Underway
    <3>1. k > 0 /\ Kept = sampled /\ k = trk.next
      BY <2>2, ClearedRegisters DEF k
    <3> QED BY <3>1, <2>2, <2>9 DEF Stored, Underway
  <2> QED BY <2>10, <2>11, <2>12, <2>13, <2>14
<1> QED BY <1>2, <1>3, <1>4 DEF RecordEdge

-----------------------------------------------------------------------------
\* 180 degrees.

\* The trace counter stays in its range through the wrap.
LEMMA TraceCounts ==
  ASSUME TrackerTypeOK, NEW m \in {refCount, (refCount + 1) % TraceRange}
  PROVE  /\ m \in 0 .. TraceRange - 1
         /\ m = (refCount + 1) % TraceRange =>
              (m - 1) % TraceRange = refCount % TraceRange
<1>1. refCount \in 0 .. TraceRange - 1
  BY DEF TrackerTypeOK
<1>2. CASE refCount < TraceRange - 1
  <2>1. (refCount + 1) % TraceRange = refCount + 1
    BY <1>1, <1>2
  <2> QED BY <1>1, <2>1
<1>3. CASE refCount = TraceRange - 1
  <2>1. (refCount + 1) % TraceRange = 0
    BY <1>1, <1>3, TraceRange % TraceRange = 0
  <2>2. (0 - 1) % TraceRange = TraceRange - 1
    BY <1>1
  <2>3. refCount % TraceRange = refCount
    BY <1>1
  <2> QED BY <1>1, <1>3, <2>1, <2>2, <2>3
<1> QED BY <1>1, <1>2, <1>3

\* The edge at 180 degrees, of the buffer's port and memory, keeps the invariant.
LEMMA PortKeepsInv ==
  ASSUME TrackerInv, clk = 180, clk' = 270,
         NEW host \in 0 .. Limit - 1, PortEdge(core.req, host)
  PROVE  TrackerInv'
<1> USE DEF TrackerInv
<1>1. UNCHANGED <<config, trk, sampled>>
  BY DEF PortEdge
<1>2. refCount' = IF config.track /\ core.req THEN (refCount + 1) % TraceRange
                  ELSE refCount
  BY DEF PortEdge
<1>3. refCount' \in 0 .. TraceRange - 1
  BY <1>2, TraceCounts
<1>4. /\ port' \in [rw : BOOLEAN, addr : 0 .. Limit - 1, delay : BOOLEAN]
      /\ port'.rw <=> HardwareAccess /\ trk.rw
      /\ port'.rw => port'.addr = trk.addr
      /\ port'.delay <=> IF HardwareAccess THEN trk.stall ELSE port.delay
  <2>1. CASE HardwareAccess
    BY <2>1, SMTT(30) DEF PortEdge, TrackerTypeOK, TrkType
  <2>2. CASE ~HardwareAccess
    BY <2>2, ZenonT(30) DEF PortEdge, TrackerTypeOK
  <2> QED BY <2>1, <2>2
<1>5. (refCount - 1) % TraceRange \in 0 .. TraceRange - 1
  BY DEF TrackerTypeOK
<1>6. /\ buf' \in [0 .. Limit - 1 -> EntryType]
      /\ \A i \in 0 .. Limit - 1 :
           buf'[i] = IF port.rw /\ i = port.addr
                     THEN Entry((refCount - 1) % TraceRange, trk.flags) ELSE buf[i]
  <2>1. Entry((refCount - 1) % TraceRange, trk.flags) \in EntryType
    BY <1>5 DEF Entry, EntryType, TrackerTypeOK, TrkType
  <2>2. port.addr \in 0 .. Limit - 1 /\ buf \in [0 .. Limit - 1 -> EntryType]
    BY DEF TrackerTypeOK
  <2> HIDE DEF TrackerInv
  <2> QED BY <2>1, <2>2 DEF PortEdge
<1>7. TrackerTypeOK'
  BY <1>1, <1>3, <1>4, <1>6 DEF TrackerTypeOK
<1>8. Counts' /\ Recorded'
  BY <1>1 DEF Counts, Recorded
<1>9. AtPort'
  <2> SUFFICES ASSUME port'.rw
               PROVE  /\ trk.next > 0 => port'.addr = trk.next - 1
                         /\ sampled[trk.next] =
                              Entry((refCount' - 1) % TraceRange, trk.flags)
                      /\ trk.counter = Rate
    BY <1>1 DEF AtPort, Newest
  <2>1. trk.rw /\ port'.addr = trk.addr
    BY <1>4
  <2>2. /\ config.track /\ trk.counter = Rate /\ trk.addr = trk.next - 1
        /\ Newest((IF core.req THEN refCount ELSE refCount - 1) % TraceRange)
    BY <2>1 DEF Recorded
  <2>3. (refCount' - 1) % TraceRange =
          (IF core.req THEN refCount ELSE refCount - 1) % TraceRange
    BY <1>2, <2>2, TraceCounts
  <2> QED BY <2>1, <2>2, <2>3 DEF Newest
<1>10. Delayed'
  BY <1>1, <1>4 DEF Delayed, HardwareAccess, Counts
<1>11. Stored'
  <2> SUFFICES ASSUME NEW i \in 0 .. trk.next - 1, ~(port'.rw /\ port'.addr = i)
               PROVE  buf'[i] = sampled[i + 1]
    BY <1>1 DEF Stored, Underway
  <2>1. i \in 0 .. Limit - 1 /\ trk.next > 0 /\ trk.next \in Nat
    BY DEF TrackerTypeOK, TrkType
  <2>2. CASE trk.rw
    \* The entry has the port, as HardwareAccess is given.
    <3>1. HardwareAccess /\ ~port.rw
      BY <2>2 DEF Recorded, HardwareAccess
    <3>2. trk.addr # i
      BY <2>2, <3>1, <1>4
    <3> QED BY <1>6, <2>1, <3>1, <3>2 DEF Stored, Underway
  <2>3. CASE ~trk.rw /\ port.rw /\ port.addr = i
    <3>1. i = trk.next - 1 /\ Newest((refCount - 1) % TraceRange)
      BY <2>1, <2>3 DEF AtPort
    <3> QED BY <1>6, <2>1, <2>3, <3>1 DEF Newest
  <2>4. CASE ~trk.rw /\ ~(port.rw /\ port.addr = i)
    BY <1>6, <2>1, <2>4 DEF Stored, Underway
  <2> QED BY <2>2, <2>3, <2>4
<1> QED BY <1>7, <1>8, <1>9, <1>10, <1>11

-----------------------------------------------------------------------------
\* The communication register stays a pair of flags.
LEMMA PeripheralType ==
  ASSUME config \in [track : BOOLEAN, clear : BOOLEAN], Peripheral
  PROVE  config' \in [track : BOOLEAN, clear : BOOLEAN]
<1> DEFINE t == IF control = 2 THEN config.track ELSE control = 1
<1>1. PICK clear \in BOOLEAN :
        config' = [track |-> t, clear |-> clear /\ ~config.clear]
  BY DEF Peripheral
<1>2. t \in BOOLEAN
  <2>1. CASE control = 2
    <3>1. config.track \in BOOLEAN
      OBVIOUS
    <3> QED BY <2>1, <3>1, Zenon
  <2>2. CASE control # 2
    <3>1. t = (control = 1)
      BY <2>2, Zenon
    <3> QED BY <3>1, Zenon
  <2> QED BY <2>1, <2>2
<1>3. (clear /\ ~config.clear) \in BOOLEAN
  BY Zenon
<1> HIDE DEF t
<1> QED BY <1>1, <1>2, <1>3, Zenon

\* Every step of the tracked cache keeps the invariant.
LEMMA TrackerStep ==
  ASSUME Rate >= 2, TrackerInv, [Next]_vars
  PROVE  TrackerInv'
<1>1. CASE Edge0
  <2>1. clk' = 90 /\ clk = 0 /\ UNCHANGED <<trk, port, refCount, buf, sampled>>
    BY <1>1 DEF Edge0
  <2>2. config' \in [track : BOOLEAN, clear : BOOLEAN]
    BY <1>1, PeripheralType DEF Edge0, TrackerInv, TrackerTypeOK
  <2> QED BY <2>1, <2>2 DEF TrackerInv, TrackerTypeOK, Counts, Recorded, AtPort,
                            Newest, Delayed, Stored, Underway
<1>2. CASE Edge90
  BY <1>2, RecordKeepsInv DEF Edge90, cacheVars
<1>3. CASE Edge180
  BY <1>3, PortKeepsInv DEF Edge180
<1>4. CASE Edge270
  <2>1. clk' = 0 /\ clk = 270 /\ UNCHANGED trackerVars
    BY <1>4 DEF Edge270
  <2> QED BY <2>1 DEF trackerVars, TrackerInv, TrackerTypeOK, Counts, Recorded,
                      AtPort, Newest, Delayed, Stored, Underway
<1>5. CASE UNCHANGED vars
  BY <1>5 DEF vars, cacheVars, trackerVars, TrackerInv, TrackerTypeOK, Counts,
              Recorded, AtPort, Newest, Delayed, Stored, Underway
<1> QED BY <1>1, <1>2, <1>3, <1>4, <1>5 DEF Next

\* With two or more references between records, every entry that was recorded is
\* in the buffer or on its last steps to it, however the buffer fills, is
\* cleared or changes hands.
THEOREM TrackerKeepsEntries ==
  ASSUME Rate >= 2
  PROVE  Spec => []EntriesKept
<1>1. Init => TrackerInv
  BY TrackerInitInv
<1>2. TrackerInv /\ [Next]_vars => TrackerInv'
  BY TrackerStep
<1>3. TrackerInv => EntriesKept
  BY DEF TrackerInv, Stored, EntriesKept
<1> QED BY <1>1, <1>2, <1>3, PTL DEF Spec

-----------------------------------------------------------------------------
(* Entries are Rate references apart.                                       *)

\* References that the trace counts: at 180 degrees the sampling counter has seen
\* the current one already.
Referenced ==
  IF clk = 180 /\ config.track /\ core.req THEN refCount + 1 ELSE refCount

\* The counter tells how many references the last entry is past; modulo
\* TraceRange, of which k is the multiple.
Paced ==
  sampled # <<>> =>
    /\ trk.counter \in 1 .. Rate
    /\ \E k \in Int :
         Referenced - 1 - sampled[Len(sampled)].trace
           = (Rate - trk.counter) + (k * TraceRange)

\* A stalled hart makes no reference that the counter would miss.
StalledHart == /\ "req" \in DOMAIN core
               /\ clk = 90 /\ trk.stall => ~core.req

PaceInv == TrackerTypeOK /\ Counts /\ StalledHart /\ Paced /\ SampledEvenly

\* A remainder is known by its quotient.
LEMMA Remainder ==
  ASSUME NEW T \in Nat \ {0}, NEW a \in Int, NEW q \in Int, NEW r \in 0 .. T - 1,
         a = (q * T) + r
  PROVE  a % T = r
OBVIOUS

\* Numbers that differ by a multiple of T have the same remainder.
LEMMA Congruent ==
  ASSUME NEW T \in Nat \ {0}, NEW a \in Int, NEW b \in Int, NEW k \in Int,
         a = b + (k * T)
  PROVE  a % T = b % T
<1>1. /\ b \div T \in Int /\ b % T \in 0 .. T - 1
      /\ b = ((b \div T) * T) + (b % T)
  OBVIOUS
<1> DEFINE q == b \div T
           r == b % T
<1> HIDE DEF q, r
<1>2. q \in Int /\ r \in 0 .. T - 1 /\ b = (q * T) + r
  BY <1>1 DEF q, r
<1>3. (q + k) * T = (q * T) + (k * T)
  BY <1>2
<1>4. a = ((q + k) * T) + r
  BY <1>2, <1>3
<1>5. a % T = r
  BY <1>2, <1>4, Remainder
<1> QED BY <1>5 DEF r

\* The edge at 90 degrees keeps the entries one period apart.
LEMMA PaceRecord ==
  ASSUME Rate >= 1, PaceInv, clk = 90, clk' = 180, core' = core,
         NEW f \in Flags, RecordEdge(core.req, f)
  PROVE  Paced' /\ SampledEvenly'
<1> USE DEF PaceInv
<1>1. UNCHANGED <<config, port, refCount, buf>>
  BY DEF RecordEdge
<1>2. /\ refCount \in 0 .. TraceRange - 1 /\ sampled \in Seq(EntryType)
      /\ \A i \in 1 .. Len(sampled) : sampled[i].trace \in 0 .. TraceRange - 1
      /\ trk.counter \in 0 .. CounterRange - 1
  <2>1. /\ refCount \in 0 .. TraceRange - 1 /\ sampled \in Seq(EntryType)
        /\ trk.counter \in 0 .. CounterRange - 1
    BY DEF TrackerTypeOK, TrkType
  <2>2. \A i \in 1 .. Len(sampled) : sampled[i] \in EntryType
    BY <2>1
  <2> QED BY <2>1, <2>2 DEF EntryType
<1>3. Referenced' = IF config.track /\ core.req THEN refCount + 1 ELSE refCount
  BY <1>1 DEF Referenced
<1>4. Kept = sampled \/ Kept = <<>>
  BY DEF Kept
<1>5. CASE Off
  <2>1. trk'.counter = trk.counter /\ sampled' = Kept
    BY <1>5, ClearedRegisters DEF Off
  <2>2. ~(config.track /\ core.req)
    BY <1>5, ClearedRegisters DEF Off, Tracks, StalledHart
  <2>3. SampledEvenly'
    BY <1>4, <2>1 DEF SampledEvenly
  <2> QED BY <1>3, <1>4, <2>1, <2>2, <2>3 DEF Paced, Referenced
<1>6. CASE Skip(core.req)
  <2>1. /\ trk'.counter = Counted(core.req) /\ Counted(core.req) # 0
        /\ sampled' = Kept /\ config.track
    BY <1>6, ClearedRegisters DEF Skip, Tracks, TrkType
  <2>2. SampledEvenly'
    BY <1>4, <2>1 DEF SampledEvenly
  <2>3. sampled' # <<>> =>
          /\ trk.counter \in 1 .. Rate
          /\ trk'.counter = IF core.req THEN trk.counter - 1 ELSE trk.counter
    BY <1>4, <2>1, CountedInRange DEF Paced
  <2>4. ASSUME sampled' # <<>> PROVE Paced'
    <3>1. PICK k \in Int :
            refCount - 1 - sampled[Len(sampled)].trace
              = (Rate - trk.counter) + (k * TraceRange)
      BY <1>4, <2>1, <2>4 DEF Paced, Referenced
    <3>2. sampled' = sampled /\ Len(sampled) \in 1 .. Len(sampled)
      BY <1>2, <1>4, <2>1, <2>4
    <3>3. k * TraceRange \in Int /\ sampled[Len(sampled)].trace \in Int
      BY <1>2, <3>2
    <3>4. Referenced' - 1 - sampled[Len(sampled)].trace
              = (Rate - trk'.counter) + (k * TraceRange)
      <4> DEFINE last == sampled[Len(sampled)].trace
                 turns == k * TraceRange
      <4>1. last \in Int /\ turns \in Int /\ refCount \in Int /\ trk.counter \in Int
        BY <1>2, <3>3
      <4>2. refCount - 1 - last = (Rate - trk.counter) + turns
        BY <3>1
      <4> HIDE DEF last, turns
      <4>3. CASE core.req
        <5>1. Referenced' = refCount + 1 /\ trk'.counter = trk.counter - 1
          BY <1>3, <2>1, <2>3, <2>4, <4>3
        <5>2. Referenced' - 1 - last = (Rate - trk'.counter) + turns
          BY <4>1, <4>2, <5>1
        <5> QED BY <5>2 DEF last, turns
      <4>4. CASE ~core.req
        <5>1. Referenced' = refCount /\ trk'.counter = trk.counter
          BY <1>3, <2>1, <2>3, <2>4, <4>4
        <5>2. Referenced' - 1 - last = (Rate - trk'.counter) + turns
          BY <4>1, <4>2, <5>1
        <5> QED BY <5>2 DEF last, turns
      <4> QED BY <4>3, <4>4
    <3>5. trk'.counter \in 1 .. Rate
      BY <1>2, <2>1, <2>3, <2>4
    <3> QED BY <3>2, <3>4, <3>5 DEF Paced
  <2> QED BY <2>2, <2>4 DEF Paced
<1>7. CASE Record(core.req, f)
  <2> DEFINE trace == (IF core.req THEN refCount ELSE refCount - 1) % TraceRange
             new == Entry(trace, f)
  <2>1. /\ trk'.counter = Rate /\ sampled' = Append(Kept, new)
        /\ config.track /\ Counted(core.req) = 0
    BY <1>7 DEF Record, Tracks, Reload
  <2>2. /\ core.req => trace = refCount
        /\ ~core.req /\ refCount > 0 => trace = refCount - 1
        /\ ~core.req /\ refCount = 0 => trace = TraceRange - 1
    <3>1. refCount % TraceRange = refCount
      <4>1. refCount \in 0 .. TraceRange - 1
        BY <1>2
      <4> QED BY <4>1
    <3>2. refCount > 0 => (refCount - 1) % TraceRange = refCount - 1
      BY <1>2
    <3>3. (0 - 1) % TraceRange = TraceRange - 1
      OBVIOUS
    <3> QED BY <3>1, <3>2, <3>3
  <2>3. new \in EntryType /\ new.trace = trace
    BY <1>2, <2>2 DEF Entry, EntryType
  <2> HIDE DEF trace, new
  <2>4. Kept \in Seq(EntryType) /\ Len(Kept) \in Nat
    BY ClearedRegisters
  <2>5. /\ Len(sampled') = Len(Kept) + 1 /\ sampled'[Len(Kept) + 1] = new
        /\ \A i \in 1 .. Len(Kept) : sampled'[i] = Kept[i]
    BY <2>1, <2>3, <2>4
  <2>6. Paced'
    <3>1. Referenced' - 1 = IF core.req THEN refCount ELSE refCount - 1
      BY <1>2, <1>3, <2>1
    <3>2. ASSUME NEW k \in Int,
                 Referenced' - 1 - trace = (Rate - Rate) + (k * TraceRange)
          PROVE  Paced'
      <4>1. trk'.counter = Rate /\ trk'.counter \in 1 .. Rate
        BY <2>1
      <4>2. sampled'[Len(sampled')].trace = trace
        BY <2>3, <2>5
      <4> QED BY <3>2, <4>1, <4>2 DEF Paced
    <3>3. CASE ~core.req /\ refCount = 0
      <4>1. Referenced' - 1 - trace = (Rate - Rate) + ((-1) * TraceRange)
        BY <1>2, <2>2, <3>1, <3>3
      <4> QED BY <3>2, <4>1
    <3>4. CASE core.req \/ refCount > 0
      <4>1. Referenced' - 1 - trace = (Rate - Rate) + (0 * TraceRange)
        BY <1>2, <2>2, <3>1, <3>4
      <4> QED BY <3>2, <4>1
    <3> QED BY <1>2, <3>3, <3>4
  <2>7. SampledEvenly'
    <3> SUFFICES ASSUME NEW i \in 1 .. Len(Kept)
                 PROVE  (sampled'[i + 1].trace - sampled'[i].trace) % TraceRange
                          = Rate % TraceRange
      BY <2>4, <2>5 DEF SampledEvenly
    <3>1. Kept = sampled /\ sampled # <<>>
      BY <1>4, <2>4
    <3>2. CASE i < Len(Kept)
      <4>1. i \in 1 .. Len(sampled) - 1 /\ i + 1 \in 1 .. Len(Kept)
        BY <2>4, <3>1, <3>2
      <4> QED BY <2>5, <3>1, <4>1 DEF SampledEvenly
    <3>3. CASE i = Len(Kept)
      <4>1. PICK k \in Int :
              refCount - 1 - sampled[i].trace
                = (Rate - trk.counter) + (k * TraceRange)
        BY <3>1, <3>3 DEF Paced, Referenced
      <4>2. core.req /\ trk.counter = 1
        <5>1. trk.counter \in 1 .. Rate
          BY <3>1 DEF Paced
        <5>2. Counted(core.req) = IF core.req THEN trk.counter - 1 ELSE trk.counter
          BY <5>1, CountedInRange
        <5> QED BY <2>1, <5>1, <5>2
      <4>3. /\ sampled'[i + 1].trace = refCount
            /\ sampled'[i] = sampled[i] /\ sampled[i].trace \in Int
        BY <1>2, <2>2, <2>3, <2>5, <3>1, <3>3, <4>2
      <4>4. refCount - sampled[i].trace = Rate + (k * TraceRange)
        <5>1. k * TraceRange \in Int
          OBVIOUS
        <5> QED BY <1>2, <4>1, <4>2, <4>3, <5>1
      <4>5. (refCount - sampled[i].trace) % TraceRange = Rate % TraceRange
        <5>1. refCount - sampled[i].trace \in Int /\ Rate \in Int
          BY <1>2, <4>3
        <5> QED BY <4>4, <5>1, Congruent
      <4> QED BY <4>3, <4>5
    <3> QED BY <2>4, <3>2, <3>3
  <2> QED BY <2>6, <2>7
<1> QED BY <1>5, <1>6, <1>7 DEF RecordEdge

\* The pacing invariant holds when the board leaves reset.
LEMMA PaceInit == Init => PaceInv
<1> SUFFICES ASSUME Init PROVE PaceInv
  OBVIOUS
<1>1. TrackerTypeOK /\ Counts
  BY TrackerInitInv DEF TrackerInv
<1>2. sampled = <<>> /\ ~trk.stall
  BY DEF Init, TrackerInit
<1>3. "req" \in DOMAIN core
  BY DEF Init, C!CacheInit
<1> QED BY <1>1, <1>2, <1>3 DEF PaceInv, StalledHart, Paced, SampledEvenly

\* The hart references nothing while the stall lasts.
LEMMA PaceHart ==
  ASSUME PaceInv, Edge0
  PROVE  StalledHart'
<1>1. trk' = trk /\ "req" \in DOMAIN core
  BY DEF Edge0, PaceInv, StalledHart
<1>2. CASE C!HartIdle
  <2>1. core' = [core EXCEPT !.req = FALSE, !.rw = FALSE]
    BY <1>2 DEF C!HartIdle, C!Withdraw
  <2> QED BY <1>1, <2>1 DEF StalledHart
<1>3. CASE Done /\ C!HartIssue
  <2>1. PICK a \in Reference :
          core' = [req |-> TRUE, rw |-> a.rw, block |-> a.block,
                   word |-> a.word, data |-> a.data]
    BY <1>3 DEF C!HartIssue, C!Issue
  <2> QED BY <1>1, <1>3, <2>1 DEF StalledHart, Done
<1> QED BY <1>2, <1>3 DEF Edge0, Hart

\* Every step of the tracked cache keeps the pacing invariant.
LEMMA PaceStep ==
  ASSUME Rate >= 2, TrackerInv, PaceInv, [Next]_vars
  PROVE  PaceInv'
<1> USE DEF PaceInv
<1>1. TrackerTypeOK' /\ Counts'
  BY TrackerStep DEF TrackerInv
<1>2. CASE Edge0
  <2>1. clk' = 90 /\ clk = 0 /\ UNCHANGED <<trk, refCount, sampled>>
    BY <1>2 DEF Edge0
  <2>2. Paced' /\ SampledEvenly'
    BY <2>1 DEF Paced, Referenced, SampledEvenly
  <2> QED BY <1>1, <1>2, <2>2, PaceHart
<1>3. CASE Edge90
  <2>1. clk' = 180 /\ core' = core
    BY <1>3 DEF Edge90, cacheVars
  <2>2. Paced' /\ SampledEvenly'
    BY <1>3, <2>1, PaceRecord DEF Edge90
  <2> QED BY <1>1, <2>1, <2>2 DEF StalledHart
<1>4. CASE Edge180
  <2>1. clk = 180 /\ clk' = 270 /\ UNCHANGED <<trk, sampled, core>>
    BY <1>4 DEF Edge180, PortEdge, C!ControllerEdge
  <2>2. refCount' = IF config.track /\ core.req THEN (refCount + 1) % TraceRange
                    ELSE refCount
    BY <1>4 DEF Edge180, PortEdge
  <2>3. Paced'
    <3> SUFFICES ASSUME sampled # <<>>
                 PROVE  Paced'
      BY <2>1 DEF Paced
    <3> DEFINE last == sampled[Len(sampled)].trace
               past == Rate - trk.counter
    <3>1. PICK k \in Int : Referenced - 1 - last = past + (k * TraceRange)
      BY DEF Paced
    <3>2. refCount \in 0 .. TraceRange - 1 /\ last \in Int /\ past \in Int
      <4>1. /\ refCount \in 0 .. TraceRange - 1 /\ sampled \in Seq(EntryType)
            /\ trk.counter \in Int
        BY DEF TrackerTypeOK, TrkType
      <4>2. sampled[Len(sampled)] \in EntryType
        BY <4>1
      <4> QED BY <4>1, <4>2 DEF EntryType
    <3> HIDE DEF last, past
    <3>3. Referenced' = refCount'
      BY <2>1 DEF Referenced
    <3>4. CASE Referenced' = Referenced
      <4>1. Referenced' - 1 - last = past + (k * TraceRange)
        BY <3>1, <3>4
      <4> QED BY <2>1, <4>1 DEF Paced, last, past
    <3>5. CASE Referenced' # Referenced
      \* The trace wraps.
      <4>1. refCount = TraceRange - 1 /\ Referenced = TraceRange /\ refCount' = 0
        <5>1. config.track /\ core.req /\ Referenced = refCount + 1
          BY <2>1, <2>2, <3>3, <3>5 DEF Referenced
        <5>2. refCount < TraceRange - 1 => (refCount + 1) % TraceRange = refCount + 1
          BY <3>2
        <5>3. TraceRange % TraceRange = 0
          OBVIOUS
        <5> QED BY <2>2, <3>2, <3>3, <3>5, <5>1, <5>2, <5>3
      <4>2. (k - 1) * TraceRange = (k * TraceRange) - TraceRange
        OBVIOUS
      <4>3. Referenced' - 1 - last = past + ((k - 1) * TraceRange)
        <5>1. k * TraceRange \in Int
          OBVIOUS
        <5> QED BY <3>1, <3>2, <3>3, <4>1, <4>2, <5>1
      <4>4. k - 1 \in Int
        OBVIOUS
      <4> QED BY <2>1, <4>3, <4>4 DEF Paced, last, past
    <3> QED BY <3>4, <3>5
  <2>4. SampledEvenly' /\ StalledHart'
    BY <2>1 DEF SampledEvenly, StalledHart
  <2> QED BY <1>1, <2>3, <2>4
<1>5. CASE Edge270
  <2>1. clk = 270 /\ clk' = 0 /\ UNCHANGED <<trk, refCount, sampled, core>>
    BY <1>5 DEF Edge270, trackerVars, C!MemoryEdge
  <2> QED BY <1>1, <2>1 DEF Paced, Referenced, SampledEvenly, StalledHart
<1>6. CASE UNCHANGED vars
  <2>1. UNCHANGED <<clk, core, config, trk, refCount, sampled>>
    BY <1>6 DEF vars, cacheVars, trackerVars
  <2> QED BY <1>1, <2>1 DEF Paced, Referenced, SampledEvenly, StalledHart
<1> QED BY <1>2, <1>3, <1>4, <1>5, <1>6 DEF Next

\* Consecutive entries are Rate references apart by their traces, modulo the width
\* of the trace, however tracking is turned off and on and the buffer is cleared
\* between them.
THEOREM TrackerSamplesEvenly ==
  ASSUME Rate >= 2
  PROVE  Spec => []SampledEvenly
<1>1. Init => TrackerInv /\ PaceInv
  BY TrackerInitInv, PaceInit
<1>2. TrackerInv /\ PaceInv /\ [Next]_vars => TrackerInv' /\ PaceInv'
  BY TrackerStep, PaceStep
<1>3. PaceInv => SampledEvenly
  BY DEF PaceInv
<1> QED BY <1>1, <1>2, <1>3, PTL DEF Spec
=============================================================================
