----------------------------- MODULE HostProxy -----------------------------
(***************************************************************************)
(* A session of the host's proxy program with the FPGA: it synchronizes    *)
(* with the communication controller (protocol_synchronize), loads a       *)
(* program into memory packet by packet, verifies it and rewrites what it  *)
(* finds wrong (dma_elf_data), and reads the performance counters          *)
(* (protocol_cache_fusion).  Between the two are the JTAG driver of the    *)
(* FPGA and the buffers of the JTAG library.                               *)
(*                                                                         *)
(* The host sends a whole command, then waits until exactly the bytes it   *)
(* expects have arrived (jtag_read compares for equality, so one word too  *)
(* many blocks it for good).                                               *)
(***************************************************************************)
EXTENDS CommController

CONSTANTS
    Image,      \* the program: a value for each word of memory
    Packet,     \* words in a packet
    WordBytes,  \* bytes in a word, and
    ByteValues, \* values of a byte: bytes are what the host compares
    Attempts,   \* times it tries to repair a byte
    Exchanges,  \* answers in a row that make a synchronization
    Extra,      \* words it sends above those
    Counters,   \* performance counters it reads in the end
    Stale,      \* words that an earlier session has left in the JTAG library
    MaxLull     \* timing: cycles that the next of them lets the purge see empty

ASSUME HostAssumption ==
    /\ Image \in [0 .. Words - 1 -> WordValues]
    /\ Packet \in 1 .. 15 /\ Attempts \in Nat \ {0}
    /\ WordBytes \in Nat \ {0} /\ ByteValues \in Nat \ {0}
    /\ Exchanges \in Nat /\ Extra \in Nat
    /\ Exchanges + Extra <= KeySync   \* no number that it sends is the key
    /\ Counters \in Nat \ {0}
    /\ Stale \in Seq(Nat)
    /\ MaxLull \in 0 .. Purge

VARIABLES
    host,     \* what the host is doing
    out,      \* words on their way to the driver
    in,       \* words that have arrived at the host
    driver,   \* the JTAG driver: state, next state and the word it moves
    lull      \* timing: empty cycles of the purge since a word has come

vars == <<linkVars, host, out, in, driver, lull>>

\* The reset empties the buffers; what an earlier session has left is still to
\* come through the driver.
Init ==
    /\ CommInit
    /\ rx = <<>>
    /\ host = [at |-> "connect", awaits |-> 0, sent |-> 0, correct |-> 0,
               add |-> 0, verify |-> <<>>, byte |-> 0, tries |-> 0,
               report |-> <<>>]
    /\ out = Stale /\ in = <<>> /\ lull = 0
    /\ driver = [state |-> "idle", next |-> "idle", word |-> 0]

----------------------------------------------------------------------------
(* The JTAG driver.  When both directions have a word it goes to transmit  *)
(* without fetching the word to transmit: the word sent is what the shifts *)
(* of the last transmission left, zero.                                    *)

DriverIdle ==
    /\ driver.state = "idle" /\ (tx # <<>> \/ out # <<>>)
    /\ LET fetches == tx # <<>> /\ out = <<>>
       IN  /\ driver' = [state |-> IF tx # <<>> THEN "transmit" ELSE "receive",
                         next |-> IF tx # <<>> /\ out # <<>> THEN "receive" ELSE "idle",
                         word |-> IF fetches THEN Head(tx) ELSE 0]
           /\ tx' = IF fetches THEN Tail(tx) ELSE tx
    /\ UNCHANGED <<rx, cc, bus, mem, selected, faults, host, out, in>>

DriverReceive ==
    /\ driver.state = "receive" /\ out # <<>>
    /\ driver' = [driver EXCEPT !.state = "writeout", !.word = Head(out)]
    /\ out' = Tail(out)
    /\ UNCHANGED <<linkVars, host, in>>

DriverTransmit ==
    /\ driver.state = "transmit"
    /\ in' = Append(in, driver.word)
    /\ driver' = [driver EXCEPT !.state = driver.next, !.word = 0]
    /\ UNCHANGED <<linkVars, host, out>>

DriverWriteout ==
    /\ driver.state = "writeout" /\ Len(rx) < BufferSize
    /\ rx' = Append(rx, driver.word)
    /\ driver' = [driver EXCEPT !.state = "idle"]
    /\ UNCHANGED <<tx, cc, bus, mem, selected, faults, host, out, in>>

----------------------------------------------------------------------------
(* The host.                                                               *)

\* A step of the host: it takes the answer it waited for, if it waited, and
\* sends the words of its next command.
Step(new, words) ==
    /\ host' = new
    /\ out' = out \o words
    /\ in' = IF host.awaits = 0 THEN in ELSE <<>>
    /\ UNCHANGED <<linkVars, driver>>

At(place)   == host.at = place /\ host.awaits = 0
Back(place) == host.at = place /\ host.awaits # 0 /\ Len(in) = host.awaits

\* The board has been reset before the proxy is started, and its purge is over.
Connect ==
    /\ At("connect") /\ In("SYNC")
    /\ Step([host EXCEPT !.at = "sync"], <<>>)

SyncSend ==
    /\ At("sync") /\ host.sent < Exchanges + Extra
    /\ Step([host EXCEPT !.awaits = 1], <<host.sent>>)

SyncCheck ==
    /\ Back("sync")
    /\ Step([host EXCEPT !.awaits = 0, !.sent = @ + 1,
                         !.correct = IF Head(in) = Echo(host.sent) THEN @ + 1 ELSE 0],
            <<>>)

SyncEnd ==
    /\ At("sync") /\ host.sent = Exchanges + Extra
    /\ IF host.correct < Exchanges
       THEN Step([host EXCEPT !.at = "failed"], <<>>)
       ELSE Step([host EXCEPT !.at = "load"], <<KeySync>>)

\* The packet at hand, and the commands about words of memory.
Size == IF Words - host.add < Packet THEN Words - host.add ELSE Packet
ReadCommand(add, n)  == <<0, Config(n, FALSE, FALSE), add>>
WriteCommand(add, n) == <<0, Config(n, TRUE, FALSE), add>>
                        \o [i \in 1 .. n |-> Image[add + i - 1]]

\* On to the next packet, or when there is none to what comes after.
Onward(new, after) ==
    IF new.add + Size < Words
    THEN [new EXCEPT !.add = @ + Size]
    ELSE [new EXCEPT !.add = 0, !.at = after]

Load ==
    /\ At("load")
    /\ Step([host EXCEPT !.awaits = 1], WriteCommand(host.add, Size))

LoadCheck ==
    /\ Back("load")
    /\ IF Head(in) # 0 THEN Step([host EXCEPT !.awaits = 0, !.at = "failed"], <<>>)
       ELSE Step(Onward([host EXCEPT !.awaits = 0], "verify"), <<>>)

Verify ==
    /\ At("verify")
    /\ Step([host EXCEPT !.awaits = Size], ReadCommand(host.add, Size))

VerifyCheck ==
    /\ Back("verify")
    /\ Step([host EXCEPT !.at = "compare", !.awaits = 0, !.verify = in,
                         !.byte = 0, !.tries = 0], <<>>)

\* A word is known by its bytes.
ByteOf(word, k) == (word \div ByteValues ^ k) % ByteValues
ASSUME BytesAssumption ==
    \A v, w \in WordValues :
        (\A k \in 0 .. WordBytes - 1 : ByteOf(v, k) = ByteOf(w, k)) => v = w

\* The bytes that differ from the file's, from the one at hand on.
Differing ==
    {k \in host.byte .. Size * WordBytes - 1 :
        ByteOf(Image[host.add + k \div WordBytes], k % WordBytes)
            # ByteOf(host.verify[k \div WordBytes + 1], k % WordBytes)}
DifferingAligned ==    \* mutant: the comparison steps by words
    {k \in Differing : k % WordBytes = 0}
Wrong == Differing
Word == host.add + host.byte \div WordBytes

\* The first wrong byte is repaired by writing its word again and reading the
\* word back; bytes before it are not looked at again.
Compare ==
    /\ At("compare")
    /\ IF Wrong = {} THEN Step(Onward([host EXCEPT !.at = "verify"], "report"), <<>>)
       ELSE LET k == CHOOSE k \in Wrong : \A j \in Wrong : k <= j
            IN  Step([host EXCEPT !.at = "rewrite", !.awaits = 1, !.byte = k,
                                  !.tries = IF k = host.byte THEN @ + 1 ELSE 1],
                     WriteCommand(host.add + k \div WordBytes, 1))

Rewritten ==
    /\ Back("rewrite")
    /\ Step([host EXCEPT !.at = "reread", !.awaits = 1], ReadCommand(Word, 1))

Reread ==
    /\ Back("reread")
    /\ Step([host EXCEPT !.at = IF host.tries = Attempts THEN "failed" ELSE "compare",
                         !.awaits = 0,
                         !.verify[host.byte \div WordBytes + 1] = Head(in)], <<>>)

Report ==
    /\ At("report")
    /\ Step([host EXCEPT !.awaits = Counters],
            <<0, Config(0, FALSE, TRUE), Select, Result, Counters>>)

ReportCheck ==
    /\ Back("report")
    /\ Step([host EXCEPT !.at = "done", !.awaits = 0, !.report = in], <<>>)

Host ==
    /\ \/ Connect \/ SyncSend \/ SyncCheck \/ SyncEnd
       \/ Load \/ LoadCheck \/ Verify \/ VerifyCheck
       \/ Compare \/ Rewritten \/ Reread \/ Report \/ ReportCheck
    /\ UNCHANGED lull

----------------------------------------------------------------------------
\* A cycle of the purge that finds the buffer empty while words are still to
\* come.  There are at most MaxLull of them in a row: the words of an earlier
\* session come without a gap as long as the purge.
Lulled == In("RESET_PURGE") /\ rx = <<>> /\ (out # <<>> \/ driver.state # "idle")

Fpga ==
    /\ Lulled => lull < MaxLull
    /\ Controller
    /\ lull' = IF Lulled THEN lull + 1 ELSE 0
    /\ UNCHANGED <<host, out, in, driver>>
Memory == Serve /\ UNCHANGED <<host, out, in, driver, lull>>
Driver ==
    /\ DriverIdle \/ DriverReceive \/ DriverTransmit \/ DriverWriteout
    /\ UNCHANGED lull

Next == Fpga \/ Memory \/ Driver \/ Host

\* The FPGA's machines are clocked, and the host's process is scheduled.
Spec == Init /\ [][Next]_vars
FairSpec == Spec /\ WF_vars(Fpga) /\ WF_vars(Memory) /\ WF_vars(Driver) /\ WF_vars(Host)

----------------------------------------------------------------------------
(* Properties.                                                             *)

\* Framing is never lost: the controller does not meet a word where it
\* expects another, there are never more answers on their way than the host
\* waits for (jtag_read would wait for good, and the driver never sends the
\* empty word it sends when both directions are busy), and the counters come
\* back in the order the host asked for them.
AnswersBelong ==
    /\ ~In("ERROR")
    /\ Len(in) + Len(tx) + (IF driver.state = "transmit" THEN 1 ELSE 0) <= host.awaits
    /\ host.at = "done" => host.report = [i \in 1 .. Counters |-> Counter(i - 1)]

\* Once VERIFY has succeeded, memory holds the program (dma_elf_data).
VerifiedMeansLoaded == host.at \in {"report", "done"} => mem = Image

\* Every command of the session is answered, and with fewer faults than the
\* host makes attempts the session succeeds.
SessionSucceeds == <>(IF MaxFaults < Attempts THEN host.at = "done"
                      ELSE host.at \in {"done", "failed"})

=============================================================================
