--------------------------- MODULE HostProxyProofs ---------------------------
(***************************************************************************)
(* Proofs about a session of the host with the FPGA, for every program,    *)
(* every size of memory, packets and buffers, and whatever words an        *)
(* earlier session has left, if they come without a gap as long as the     *)
(* purge.                                                                  *)
(*                                                                         *)
(* Nothing on the link says what a word is for, so the argument is about   *)
(* numbers of words.  Outgoing are the words of the host's command that    *)
(* the controller has not taken yet, Incoming the answers that the host    *)
(* has not taken yet, wherever on the link they are; moving them does not  *)
(* change either.  The invariant gives, for every kind of command and      *)
(* every state of the controller, the length of both (CommandInv): a state *)
(* is reached with no other number of words left.                          *)
(***************************************************************************)
EXTENDS HostProxy, SequenceTheorems, WellFoundedInduction, TLAPS

-----------------------------------------------------------------------------
(* The link.                                                                *)

\* The word that the driver has in its hands, for either side.
ForController == IF driver.state = "writeout" THEN <<driver.word>> ELSE <<>>
ForHost == IF driver.state = "transmit" THEN <<driver.word>> ELSE <<>>

\* Words on their way to the controller and to the host, first one first.
Outgoing == (rx \o ForController) \o out
Incoming == (in \o ForHost) \o tx

Left == Len(Outgoing)
Answers == Len(Incoming)

States == {"RESET_PURGE", "SYNC", "IDLE", "CONFIG", "GET_WORD", "SEND_WORD",
           "CONFIG2", "MANAGE", "WAIT_READY_READ", "WAIT_READY_WRITE",
           "JTAG_READ", "JTAG_WRITE", "ACKNOWLEDGE", "FUSION_MANAGE0",
           "FUSION_MANAGE1", "FUSION_MANAGE2", "FUSION_WRITE", "FUSION_READ"}

CcType == [state : States, next0 : States, next1 : States, write : BOOLEAN,
           counter : Nat, add : Nat, word : Nat, purge : Nat, to : Nat,
           from : Nat, words : Nat]

BusType == [state : {"ready", "busy", "done"}, write : BOOLEAN, add : Nat,
            data : Nat]

Places == {"connect", "sync", "failed", "load", "verify", "compare", "rewrite",
           "reread", "report", "done"}

HostType == [at : Places, awaits : Nat, sent : Nat, correct : Nat, add : Nat,
             verify : Seq(Nat), byte : Nat, tries : Nat, report : Seq(Nat)]

DriverType == [state : {"idle", "receive", "transmit", "writeout"},
               next : {"idle"}, word : Nat]

\* The host never sends while an answer is due, so that the driver, whose
\* transmissions are of nothing when it has a word to receive, has words for
\* one direction only.
LinkOK ==
    /\ rx \in Seq(Nat) /\ out \in Seq(Nat) /\ in \in Seq(Nat) /\ tx \in Seq(Nat)
    /\ driver \in DriverType
    /\ driver.state = "receive" => out # <<>>
    /\ Left = 0 \/ Answers = 0

TypesOK ==
    /\ cc \in CcType /\ bus \in BusType /\ host \in HostType
    /\ mem \in [0 .. Words - 1 -> WordValues]
    /\ selected \in Nat /\ faults \in Nat

-----------------------------------------------------------------------------
(* The commands: what the controller's registers are, word by word.         *)

Writing == host.at \in {"load", "rewrite"} /\ host.awaits = 1
Reading == host.at \in {"verify", "reread"} /\ host.awaits # 0
Reporting == host.at = "report" /\ host.awaits # 0

\* The words of memory that the command is about.
First == IF host.at \in {"load", "verify"} THEN host.add ELSE Word
Count == IF host.at \in {"load", "verify"} THEN Size ELSE 1

\* The word of the command that has j - 1 words behind it, for every j.  The key of the
\* synchronization may still be in front of the first command.
Spelt ==
    [j \in Nat |->
        IF Writing
        THEN IF j <= Count THEN Image[First + Count - j]
             ELSE IF j = Count + 1 THEN First
             ELSE IF j = Count + 2 THEN Config(Count, TRUE, FALSE)
             ELSE IF j = Count + 3 THEN 0 ELSE KeySync
        ELSE IF Reading
        THEN IF j = 1 THEN First
             ELSE IF j = 2 THEN Config(Count, FALSE, FALSE) ELSE 0
        ELSE IF Reporting
        THEN IF j = 1 THEN Counters ELSE IF j = 2 THEN Result
             ELSE IF j = 3 THEN Select
             ELSE IF j = 4 THEN Config(0, FALSE, TRUE) ELSE 0
        ELSE IF host.at = "sync" THEN host.sent
        ELSE KeySync]

\* What is left of the command is its end.
Spelled == \A j \in 1 .. Left : Outgoing[j] = Spelt[Left - j + 1]

\* A controller that has requested a transfer waits for it.
Requested(write, add) ==
    /\ bus.write = write /\ bus.add = add /\ bus.state # "ready"

WriteInv ==
    /\ cc.state \in {"SYNC", "IDLE", "CONFIG", "GET_WORD", "CONFIG2", "MANAGE",
                     "WAIT_READY_WRITE", "JTAG_WRITE", "ACKNOWLEDGE"}
    /\ In("IDLE") \/ Answers = 0
    /\ In("SYNC") => Left = Count + 4
    /\ In("IDLE") =>
         \/ Left = Count + 3 /\ Answers = 0
         \/ Left = 0 /\ Answers = 1 /\ Head(Incoming) = 0
    /\ In("CONFIG") => Left = Count + 2
    /\ In("GET_WORD") =>
         /\ cc.write
         /\ \/ /\ cc.next0 = "CONFIG2" /\ cc.next1 = "MANAGE"
               /\ cc.counter = Count /\ Left = Count + 1
            \/ /\ cc.next0 = "WAIT_READY_WRITE" /\ Left \in 1 .. Count
               /\ cc.add = First + Count - Left + 1
               /\ IF Left = 1 THEN cc.next1 = "ACKNOWLEDGE"
                  ELSE cc.next1 = "MANAGE" /\ cc.counter = Left - 1
    /\ In("CONFIG2") =>
         /\ cc.write /\ cc.next1 = "MANAGE" /\ cc.counter = Count
         /\ cc.word = First /\ Left = Count
    /\ In("MANAGE") =>
         /\ cc.write /\ Left \in 1 .. Count
         /\ cc.counter = Left /\ cc.add = First + Count - Left
    /\ In("WAIT_READY_WRITE") \/ In("JTAG_WRITE") =>
         /\ cc.write /\ Left \in 0 .. Count - 1
         /\ cc.add = First + Count - Left
         /\ cc.word = Image[First + Count - Left - 1]
         /\ IF Left = 0 THEN cc.next1 = "ACKNOWLEDGE"
            ELSE cc.next1 = "MANAGE" /\ cc.counter = Left
    /\ In("JTAG_WRITE") => Requested(TRUE, First + Count - Left - 1)
                           /\ bus.data = cc.word
    /\ In("ACKNOWLEDGE") => Left = 0

ReadInv ==
    /\ cc.state \in {"IDLE", "CONFIG", "GET_WORD", "CONFIG2", "MANAGE",
                     "WAIT_READY_READ", "JTAG_READ", "SEND_WORD"}
    /\ host.awaits = Count
    /\ In("IDLE") => \/ Left = 3 /\ Answers = 0
                     \/ Left = 0 /\ Answers = Count
    /\ In("CONFIG") => Left = 2 /\ Answers = 0
    /\ In("GET_WORD") \/ In("CONFIG2") =>
         /\ ~cc.write /\ cc.counter = Count /\ Answers = 0
         /\ cc.next1 = "MANAGE"
    /\ In("GET_WORD") => cc.next0 = "CONFIG2" /\ Left = 1
    /\ In("CONFIG2") => cc.word = First /\ Left = 0
    /\ In("MANAGE") =>
         /\ Left = 0 /\ ~cc.write /\ Answers < Count
         /\ cc.counter = Count - Answers /\ cc.add = First + Answers
    /\ cc.state \in {"WAIT_READY_READ", "JTAG_READ", "SEND_WORD"} =>
         /\ Left = 0 /\ ~cc.write /\ Answers < Count
         /\ cc.add = First + Answers + 1
         /\ IF Answers = Count - 1 THEN cc.next0 = "IDLE"
            ELSE cc.next0 = "MANAGE" /\ cc.counter = Count - Answers - 1
    /\ In("JTAG_READ") => Requested(FALSE, First + Answers)

ReportInv ==
    /\ cc.state \in {"IDLE", "CONFIG", "GET_WORD", "FUSION_MANAGE0",
                     "FUSION_MANAGE1", "FUSION_MANAGE2", "FUSION_WRITE",
                     "FUSION_READ", "WAIT_READY_WRITE", "JTAG_WRITE",
                     "WAIT_READY_READ", "JTAG_READ", "SEND_WORD"}
    /\ host.awaits = Counters
    /\ \A i \in 1 .. Answers : Incoming[i] = Counter(i - 1)
    /\ In("IDLE") => \/ Left = 5 /\ Answers = 0
                     \/ Left = 0 /\ Answers = Counters
    /\ In("CONFIG") => Left = 4 /\ Answers = 0
    /\ In("GET_WORD") =>
         /\ Answers = 0
         /\ \/ cc.next0 = "FUSION_MANAGE0" /\ Left = 3
            \/ cc.next0 = "FUSION_MANAGE1" /\ Left = 2 /\ cc.to = Select + 1
            \/ /\ cc.next0 = "FUSION_MANAGE2" /\ Left = 1
               /\ cc.to = Select + 1 /\ cc.from = Result + 1
    /\ In("FUSION_MANAGE0") => Left = 2 /\ Answers = 0 /\ cc.word = Select
    /\ In("FUSION_MANAGE1") => /\ Left = 1 /\ Answers = 0 /\ cc.word = Result
                               /\ cc.to = Select + 1
    /\ In("FUSION_MANAGE2") => /\ Left = 0 /\ Answers = 0 /\ cc.word = Counters
                               /\ cc.to = Select + 1 /\ cc.from = Result + 1
    /\ cc.state \in {"FUSION_WRITE", "FUSION_READ", "WAIT_READY_WRITE",
                     "JTAG_WRITE", "WAIT_READY_READ", "JTAG_READ",
                     "SEND_WORD"} =>
         /\ Left = 0 /\ cc.to = Select + 1 /\ cc.from = Result + 1
         /\ cc.words = Counters /\ Answers <= Counters
    /\ In("FUSION_WRITE") => cc.counter = Answers
    /\ cc.state \in {"WAIT_READY_WRITE", "JTAG_WRITE", "FUSION_READ"} =>
         cc.counter = Answers /\ Answers < Counters
    /\ In("WAIT_READY_WRITE") \/ In("JTAG_WRITE") =>
         /\ cc.add = cc.to /\ cc.word = Answers /\ cc.next1 = "FUSION_READ"
    /\ In("JTAG_WRITE") => /\ Requested(TRUE, Select) /\ bus.data = Answers
                           /\ bus.state = "done" => selected = Answers
    /\ cc.state \in {"FUSION_READ", "WAIT_READY_READ", "JTAG_READ"} =>
         selected = Answers
    /\ cc.state \in {"WAIT_READY_READ", "JTAG_READ", "SEND_WORD"} =>
         /\ cc.counter = Answers + 1 /\ Answers < Counters
         /\ cc.next0 = "FUSION_WRITE"
    /\ In("WAIT_READY_READ") => cc.add = cc.from
    /\ In("JTAG_READ") => /\ Requested(FALSE, Result)
                          /\ bus.state = "done" => bus.data = Counter(Answers)
    /\ In("SEND_WORD") => cc.word = Counter(Answers)

SyncInv ==
    /\ In("SYNC") /\ host.sent < Exchanges + Extra
    /\ \/ Left = 1 /\ Answers = 0
       \/ Left = 0 /\ Answers = 1

\* Before the synchronization what an earlier session left is thrown away: the
\* purge has counted no more empty cycles than the words to come have left it.
Coming == out # <<>> \/ driver.state # "idle"
ConnectInv ==
    /\ In("RESET_PURGE") \/ (In("SYNC") /\ rx = <<>> /\ ~Coming)
    /\ lull \in Nat
    /\ Coming => cc.purge + lull >= Purge
    /\ in = <<>> /\ tx = <<>> /\ driver.state # "transmit"
    /\ host.sent = 0 /\ host.add = 0

\* Between two commands nothing is on its way, but for the key.
QuietInv ==
    /\ Answers = 0
    /\ CASE host.at = "sync" -> In("SYNC") /\ Left = 0
                                /\ host.sent <= Exchanges + Extra
         [] host.at = "failed" -> (In("SYNC") \/ In("IDLE")) /\ Left = 0
         [] host.at = "load" -> (In("SYNC") /\ Left = 1) \/ (In("IDLE") /\ Left = 0)
         [] host.at = "done" ->
              Left = 0 /\ (In("IDLE") \/ (In("FUSION_WRITE") /\ cc.counter = cc.words))
         [] OTHER -> In("IDLE") /\ Left = 0

\* What the host has asked for.
AskedInv ==
    CASE host.at = "connect" -> host.awaits = 0
      [] host.at = "sync" -> host.awaits \in {0, 1}
      [] host.at = "load" -> host.awaits \in {0, 1}
      [] host.at = "rewrite" -> host.awaits = 1
      [] host.at = "reread" -> host.awaits = 1
      [] host.at \in {"verify", "report"} -> TRUE
      [] OTHER -> host.awaits = 0

\* The packet and the place in it.
PlaceInv ==
    /\ host.at \in {"sync", "load", "verify", "compare", "rewrite", "reread"} =>
         host.add < Words
    /\ host.at \in {"compare", "rewrite", "reread"} => Len(host.verify) = Size
    /\ host.at \in {"rewrite", "reread"} => host.byte < Size * WordBytes

CommandInv ==
    /\ bus.state = "ready" \/ In("JTAG_READ") \/ In("JTAG_WRITE")
    /\ IF host.at = "connect" THEN ConnectInv
       ELSE /\ Spelled
            /\ IF host.awaits = 0 THEN QuietInv
               ELSE IF host.at = "sync" THEN SyncInv
               ELSE IF Writing THEN WriteInv
               ELSE IF Reading THEN ReadInv
               ELSE ReportInv

ReportOK == host.at = "done" => host.report = [i \in 1 .. Counters |-> Counter(i - 1)]

SessionInv == LinkOK /\ TypesOK /\ AskedInv /\ PlaceInv /\ CommandInv /\ ReportOK

-----------------------------------------------------------------------------
(* Facts about the link.                                                    *)

\* Concatenation of two sequences of words.
LEMMA Join ==
  ASSUME NEW s \in Seq(Nat), NEW t \in Seq(Nat)
  PROVE  /\ s \o t \in Seq(Nat) /\ Len(s) \in Nat /\ Len(t) \in Nat
         /\ Len(s \o t) = Len(s) + Len(t)
         /\ \A i \in 1 .. Len(s) : (s \o t)[i] = s[i]
         /\ \A i \in Len(s) + 1 .. Len(s) + Len(t) : (s \o t)[i] = t[i - Len(s)]
<1>1. Len(s) \in Nat /\ Len(t) \in Nat
  OBVIOUS
<1> QED BY <1>1, ConcatProperties

\* A controller that takes a word takes the first one.
LEMMA TakeWord ==
  ASSUME NEW a \in Seq(Nat), NEW b \in Seq(Nat), NEW c \in Seq(Nat), a # <<>>,
         NEW q, q = (a \o b) \o c, NEW t, t = (Tail(a) \o b) \o c
  PROVE  /\ q \in Seq(Nat) /\ t \in Seq(Nat) /\ Tail(a) \in Seq(Nat)
         /\ Len(q) \in Nat \ {0} /\ Len(t) = Len(q) - 1
         /\ q[1] = Head(a) /\ Head(a) \in Nat
         /\ \A j \in 1 .. Len(t) : t[j] = q[j + 1]
<1>1. /\ Tail(a) \in Seq(Nat) /\ Head(a) \in Nat
      /\ Len(Tail(a)) = Len(a) - 1 /\ Len(a) \in Nat \ {0} /\ Head(a) = a[1]
      /\ \A i \in 1 .. Len(Tail(a)) : Tail(a)[i] = a[i + 1]
  BY HeadTailProperties
<1>2. /\ Tail(a) \o b \in Seq(Nat) /\ a \o b \in Seq(Nat)
      /\ Len(a \o b) = Len(a) + Len(b) /\ Len(b) \in Nat
      /\ Len(Tail(a) \o b) = Len(a) - 1 + Len(b)
  BY <1>1
<1>3. /\ (a \o b)[1] = Head(a)
      /\ \A j \in 1 .. Len(Tail(a) \o b) : (Tail(a) \o b)[j] = (a \o b)[j + 1]
  BY <1>1, <1>2
<1> DEFINE p == a \o b
           r == Tail(a) \o b
<1>4. /\ p \in Seq(Nat) /\ r \in Seq(Nat) /\ Len(p) \in Nat \ {0}
      /\ Len(r) = Len(p) - 1 /\ p[1] = Head(a)
      /\ \A j \in 1 .. Len(r) : r[j] = p[j + 1]
  BY <1>1, <1>2, <1>3, SMTT(60)
<1> HIDE DEF p, r
<1>5. /\ p \o c \in Seq(Nat) /\ r \o c \in Seq(Nat) /\ Len(c) \in Nat
      /\ Len(p \o c) = Len(p) + Len(c) /\ Len(r \o c) = Len(r) + Len(c)
  BY <1>4, Join
<1>6. /\ (p \o c)[1] = Head(a)
      /\ \A j \in 1 .. Len(r \o c) : (r \o c)[j] = (p \o c)[j + 1]
  <2>1. ASSUME NEW j \in 1 .. Len(r \o c) PROVE (r \o c)[j] = (p \o c)[j + 1]
    <3> USE <1>4, <1>5
    <3>1. CASE j <= Len(r)
      <4>1. (r \o c)[j] = r[j]
        <5>1. j \in 1 .. Len(r)
          BY <3>1
        <5>2. \A i \in 1 .. Len(r) : (r \o c)[i] = r[i]
          BY Join
        <5> QED BY <5>1, <5>2
      <4>2. j + 1 \in 1 .. Len(p)
        BY <1>4, <1>5, <3>1
      <4>3. (p \o c)[j + 1] = p[j + 1]
        BY <1>4, <1>5, <4>2, Join
      <4>4. r[j] = p[j + 1]
        BY <3>1
      <4> QED BY <4>1, <4>3, <4>4
    <3>2. CASE j > Len(r)
      <4>1. (r \o c)[j] = c[j - Len(r)]
        <5>1. j \in Len(r) + 1 .. Len(r) + Len(c)
          BY <3>2
        <5>2. \A i \in Len(r) + 1 .. Len(r) + Len(c) : (r \o c)[i] = c[i - Len(r)]
          BY Join
        <5> QED BY <5>1, <5>2
      <4>2. (p \o c)[j + 1] = c[j + 1 - Len(p)]
        <5>1. j + 1 \in Len(p) + 1 .. Len(p) + Len(c)
          BY <3>2
        <5>2. \A i \in Len(p) + 1 .. Len(p) + Len(c) : (p \o c)[i] = c[i - Len(p)]
          BY Join
        <5> QED BY <5>1, <5>2
      <4>3. j + 1 - Len(p) = j - Len(r)
        OBVIOUS
      <4> QED BY <4>1, <4>2, <4>3, Zenon
    <3>3. j <= Len(r) \/ j > Len(r)
      OBVIOUS
    <3> QED BY <3>1, <3>2, <3>3, Zenon
  <2>2. (p \o c)[1] = Head(a)
    BY <1>4, <1>5, Join
  <2> QED BY <2>1, <2>2
<1> QED BY <1>1, <1>4, <1>5, <1>6 DEF p, r

\* A word that is put on the link is behind the ones that are there.
LEMMA PutWord ==
  ASSUME NEW a \in Seq(Nat), NEW b \in Seq(Nat), NEW w \in Nat
  PROVE  /\ a \o Append(b, w) \in Seq(Nat) /\ Append(b, w) \in Seq(Nat)
         /\ a \o b \in Seq(Nat) /\ Len(a \o b) \in Nat
         /\ Len(a \o Append(b, w)) = Len(a \o b) + 1
         /\ (a \o Append(b, w))[Len(a \o b) + 1] = w
         /\ \A j \in 1 .. Len(a \o b) : (a \o Append(b, w))[j] = (a \o b)[j]
  OBVIOUS

\* Concatenation with words that are on neither end.
LEMMA Regroup ==
  ASSUME NEW a \in Seq(Nat), NEW b \in Seq(Nat), NEW w \in Nat
  PROVE  /\ (Append(a, w) \o <<>>) \o b = (a \o <<w>>) \o b
         /\ b # <<>> => /\ (a \o <<Head(b)>>) \o Tail(b) = (a \o <<>>) \o b
                        /\ Tail(b) \in Seq(Nat) /\ Head(b) \in Nat
         /\ <<w>> \in Seq(Nat) /\ <<>> \in Seq(Nat)
<1>1. /\ Append(a, w) \in Seq(Nat)
      /\ a \o <<>> = a /\ Append(a, w) \o <<>> = Append(a, w)
  BY ConcatEmptySeq, AppendProperties
<1>2. Append(a, w) = a \o <<w>>
  BY AppendIsConcat
<1>4. <<w>> \in Seq(Nat) /\ <<>> \in Seq(Nat)
  OBVIOUS
<1>3. ASSUME b # <<>>
      PROVE  /\ Tail(b) \in Seq(Nat) /\ Head(b) \in Nat
             /\ (a \o <<Head(b)>>) \o Tail(b) = a \o b
  <2>1. /\ Tail(b) \in Seq(Nat) /\ Head(b) \in Nat /\ <<Head(b)>> \in Seq(Nat)
        /\ Len(Tail(b)) = Len(b) - 1 /\ Len(b) \in Nat \ {0} /\ Head(b) = b[1]
        /\ \A i \in 1 .. Len(Tail(b)) : Tail(b)[i] = b[i + 1]
    BY <1>3, HeadTailProperties
  <2>2. <<Head(b)>> \o Tail(b) = b
    <3>1. <<Head(b)>> \o Tail(b) \in Seq(Nat)
      BY <2>1
    <3>2. Len(<<Head(b)>> \o Tail(b)) = Len(b)
      BY <2>1
    <3>3. \A i \in 1 .. Len(b) : (<<Head(b)>> \o Tail(b))[i] = b[i]
      BY <2>1
    <3> QED BY <3>1, <3>2, <3>3, SeqEqual
  <2>3. (a \o <<Head(b)>>) \o Tail(b) = a \o (<<Head(b)>> \o Tail(b))
    BY <2>1, ConcatAssociative
  <2> QED BY <2>1, <2>2, <2>3
<1>5. (Append(a, w) \o <<>>) \o b = (a \o <<w>>) \o b
  BY <1>1, <1>2
<1>6. (a \o <<>>) \o b = a \o b
  BY <1>1
<1> QED BY <1>3, <1>4, <1>5, <1>6

\* The types that the words on their way have.
LEMMA LinkTypes ==
  ASSUME LinkOK
  PROVE  /\ ForController \in Seq(Nat) /\ ForHost \in Seq(Nat)
         /\ rx \o ForController \in Seq(Nat) /\ in \o ForHost \in Seq(Nat)
         /\ Outgoing \in Seq(Nat) /\ Incoming \in Seq(Nat)
         /\ Left \in Nat /\ Answers \in Nat
         /\ Left = Len(rx) + Len(ForController) + Len(out)
         /\ Answers = Len(in) + Len(ForHost) + Len(tx)
         /\ Len(ForHost) = IF driver.state = "transmit" THEN 1 ELSE 0
<1>1. driver.word \in Nat
  BY DEF LinkOK, DriverType
<1>2. /\ ForController \in Seq(Nat) /\ ForHost \in Seq(Nat)
      /\ Len(ForHost) = IF driver.state = "transmit" THEN 1 ELSE 0
  BY <1>1 DEF ForController, ForHost
<1> HIDE DEF ForController, ForHost
<1>3. /\ rx \o ForController \in Seq(Nat) /\ in \o ForHost \in Seq(Nat)
      /\ Len(rx \o ForController) = Len(rx) + Len(ForController)
      /\ Len(in \o ForHost) = Len(in) + Len(ForHost)
      /\ Len(rx) \in Nat /\ Len(in) \in Nat /\ Len(ForController) \in Nat
  BY <1>2, Join DEF LinkOK
<1>4. /\ Outgoing \in Seq(Nat) /\ Incoming \in Seq(Nat)
      /\ Left = Len(rx) + Len(ForController) + Len(out)
      /\ Answers = Len(in) + Len(ForHost) + Len(tx)
      /\ Left \in Nat /\ Answers \in Nat
  BY <1>3, Join DEF LinkOK, Outgoing, Incoming, Left, Answers
<1> QED BY <1>2, <1>3, <1>4

\* The driver moves words, and changes neither what is on its way to the
\* controller nor what is on its way to the host.
LEMMA DriverMoves ==
  ASSUME LinkOK, Driver
  PROVE  LinkOK' /\ Outgoing' = Outgoing /\ Incoming' = Incoming
<1> USE DEF LinkOK, DriverType
<1>0. Left = Len(rx) + Len(ForController) + Len(out)
      /\ Answers = Len(in) + Len(ForHost) + Len(tx)
      /\ Len(ForController) \in Nat /\ Len(ForHost) \in Nat
      /\ Len(in) \in Nat /\ Len(rx) \in Nat /\ Len(tx) \in Nat /\ Len(out) \in Nat
      /\ Outgoing \in Seq(Nat) /\ Incoming \in Seq(Nat)
      /\ rx \o ForController \in Seq(Nat) /\ in \o ForHost \in Seq(Nat)
  BY LinkTypes
<1>1. out = <<>> \/ tx = <<>>
  BY <1>0
<1>2. CASE DriverIdle
  <2>1. /\ UNCHANGED <<rx, out, in>>
        /\ driver.state = "idle" /\ driver.next = "idle"
        /\ ForController = <<>> /\ ForHost = <<>> /\ ForController' = <<>>
    BY <1>2 DEF DriverIdle, ForController, ForHost, linkVars
  <2>2. CASE tx # <<>>
    <3>1. /\ driver' = [state |-> "transmit", next |-> "idle", word |-> Head(tx)]
          /\ tx' = Tail(tx)
      BY <1>1, <1>2, <2>2 DEF DriverIdle
    <3>2. ForHost' = <<Head(tx)>>
      BY <3>1 DEF ForHost
    <3>3. /\ Tail(tx) \in Seq(Nat) /\ Head(tx) \in Nat
          /\ (in \o <<Head(tx)>>) \o Tail(tx) = (in \o <<>>) \o tx
      BY <2>2, Regroup
    <3>4. Incoming' = Incoming /\ Outgoing' = Outgoing
      BY <2>1, <3>1, <3>2, <3>3 DEF Incoming, Outgoing
    <3>5. driver' \in DriverType /\ driver'.state = "transmit"
      BY <3>1, <3>3
    <3> QED BY <2>1, <3>1, <3>3, <3>4, <3>5 DEF Left, Answers
  <2>3. CASE tx = <<>>
    <3>1. /\ driver' = [state |-> "receive", next |-> "idle", word |-> 0]
          /\ tx' = tx /\ out # <<>>
      BY <1>2, <2>3 DEF DriverIdle
    <3>2. ForHost' = <<>> /\ driver' \in DriverType
      BY <3>1 DEF ForHost
    <3>3. Incoming' = Incoming /\ Outgoing' = Outgoing
      BY <2>1, <3>1, <3>2 DEF Incoming, Outgoing
    <3> QED BY <2>1, <3>1, <3>2, <3>3 DEF Left, Answers
  <2> QED BY <2>2, <2>3
<1>3. CASE DriverReceive
  <2>1. /\ UNCHANGED <<rx, tx, in>> /\ driver.state = "receive" /\ out # <<>>
        /\ driver'.state = "writeout" /\ driver'.word = Head(out)
        /\ driver'.next = "idle" /\ out' = Tail(out)
        /\ driver' = [driver EXCEPT !.state = "writeout", !.word = Head(out)]
    BY <1>3 DEF DriverReceive, linkVars
  <2>2. /\ Tail(out) \in Seq(Nat) /\ Head(out) \in Nat
        /\ (rx \o <<Head(out)>>) \o Tail(out) = (rx \o <<>>) \o out
    BY <2>1, Regroup
  <2>3. /\ ForController = <<>> /\ ForController' = <<Head(out)>>
        /\ ForHost = <<>> /\ ForHost' = <<>>
    BY <2>1 DEF ForController, ForHost
  <2>4. Incoming' = Incoming /\ Outgoing' = Outgoing
    BY <2>1, <2>2, <2>3 DEF Incoming, Outgoing
  <2>5. driver' \in DriverType
    BY <2>1, <2>2
  <2> QED BY <2>1, <2>2, <2>4, <2>5 DEF Left, Answers
<1>4. CASE DriverTransmit
  <2>1. /\ UNCHANGED <<rx, tx, out>> /\ driver.state = "transmit"
        /\ driver'.state = "idle" /\ in' = Append(in, driver.word)
        /\ driver' = [driver EXCEPT !.state = "idle", !.word = 0]
        /\ driver.word \in Nat
    BY <1>4 DEF DriverTransmit, linkVars
  <2>2. in' \in Seq(Nat) /\ (in' \o <<>>) \o tx = (in \o <<driver.word>>) \o tx
    BY <2>1, Regroup, AppendProperties
  <2>3. /\ ForController = <<>> /\ ForController' = <<>>
        /\ ForHost = <<driver.word>> /\ ForHost' = <<>>
    BY <2>1 DEF ForController, ForHost
  <2>4. Incoming' = Incoming /\ Outgoing' = Outgoing
    BY <2>1, <2>2, <2>3 DEF Incoming, Outgoing
  <2>5. driver' \in DriverType
    BY <2>1
  <2> QED BY <2>1, <2>2, <2>4, <2>5 DEF Left, Answers
<1>5. CASE DriverWriteout
  <2>1. /\ UNCHANGED <<in, tx, out>> /\ driver.state = "writeout"
        /\ driver'.state = "idle" /\ rx' = Append(rx, driver.word)
        /\ driver' = [driver EXCEPT !.state = "idle"]
        /\ driver.word \in Nat
    BY <1>5 DEF DriverWriteout
  <2>2. rx' \in Seq(Nat) /\ (rx' \o <<>>) \o out = (rx \o <<driver.word>>) \o out
    <3>1. /\ rx \in Seq(Nat) /\ out \in Seq(Nat) /\ driver.word \in Nat
          /\ rx' = Append(rx, driver.word)
      BY <2>1 DEF LinkOK
    <3>2. Append(rx, driver.word) \in Seq(Nat)
      BY ONLY <3>1, AppendProperties
    <3>3. (Append(rx, driver.word) \o <<>>) \o out = (rx \o <<driver.word>>) \o out
      BY ONLY <3>1, Regroup
    <3> QED BY <3>1, <3>2, <3>3
  <2>3. /\ ForController = <<driver.word>> /\ ForController' = <<>>
        /\ ForHost = <<>> /\ ForHost' = <<>>
    BY <2>1 DEF ForController, ForHost
  <2>4. Incoming' = Incoming /\ Outgoing' = Outgoing
    BY <2>1, <2>2, <2>3 DEF Incoming, Outgoing
  <2>5. driver' \in DriverType
    BY <2>1
  <2> QED BY <2>1, <2>2, <2>4, <2>5 DEF Left, Answers
<1> QED BY <1>2, <1>3, <1>4, <1>5 DEF Driver

\* What the controller does to the link: it takes a word or takes none, and
\* it puts one or puts none.
LEMMA TakeOutcome ==
  ASSUME LinkOK, Take, UNCHANGED <<out, driver>>
  PROVE  /\ rx' \in Seq(Nat) /\ Head(rx) \in Nat
         /\ Left \in Nat \ {0} /\ Left' = Left - 1
         /\ Outgoing[1] = Head(rx)
         /\ \A j \in 1 .. Left' : Outgoing'[j] = Outgoing[j + 1]
<1>1. ForController' = ForController /\ ForController \in Seq(Nat)
  BY LinkTypes DEF ForController
<1>2. rx \in Seq(Nat) /\ out \in Seq(Nat) /\ rx # <<>> /\ rx' = Tail(rx) /\ out' = out
  BY DEF LinkOK, Take
<1> DEFINE b == ForController
           q == (rx \o b) \o out
           t == (Tail(rx) \o b) \o out
<1>3. Outgoing = q /\ Outgoing' = t
  BY <1>1, <1>2 DEF Outgoing
<1>4. b \in Seq(Nat)
  BY <1>1
<1> HIDE DEF b
<1>5. /\ Tail(rx) \in Seq(Nat) /\ Len(q) \in Nat \ {0} /\ Len(t) = Len(q) - 1
      /\ q[1] = Head(rx) /\ Head(rx) \in Nat
      /\ \A j \in 1 .. Len(t) : t[j] = q[j + 1]
  BY ONLY <1>2, <1>4, TakeWord
<1> HIDE DEF q, t
<1>6. Left = Len(q) /\ Left' = Len(t)
  BY <1>3 DEF Left
<1> QED BY <1>2, <1>3, <1>5, <1>6

\* A step that takes no word leaves the words for the controller as they are.
LEMMA TakesNone ==
  ASSUME UNCHANGED <<rx, out, driver>>
  PROVE  Outgoing' = Outgoing /\ Left' = Left
  BY DEF Outgoing, Left, ForController

\* It puts an answer behind those on their way to the host.
LEMMA PutOutcome ==
  ASSUME LinkOK, NEW w \in Nat, Put(w), UNCHANGED <<in, driver>>
  PROVE  /\ tx' \in Seq(Nat) /\ Answers' = Answers + 1 /\ Answers \in Nat
         /\ Incoming'[Answers + 1] = w
         /\ \A j \in 1 .. Answers : Incoming'[j] = Incoming[j]
<1>1. ForHost' = ForHost /\ in \o ForHost \in Seq(Nat)
  BY LinkTypes DEF ForHost
<1>2. tx \in Seq(Nat) /\ tx' = Append(tx, w) /\ in' = in
  BY DEF LinkOK, Put
<1> DEFINE s == in \o ForHost
<1>3. /\ s \o Append(tx, w) \in Seq(Nat) /\ Append(tx, w) \in Seq(Nat)
      /\ s \o tx \in Seq(Nat) /\ Len(s \o tx) \in Nat
      /\ Len(s \o Append(tx, w)) = Len(s \o tx) + 1
      /\ (s \o Append(tx, w))[Len(s \o tx) + 1] = w
      /\ \A j \in 1 .. Len(s \o tx) : (s \o Append(tx, w))[j] = (s \o tx)[j]
  BY <1>1, <1>2, PutWord
<1>4. Incoming = s \o tx /\ Incoming' = s \o Append(tx, w)
  BY <1>1, <1>2 DEF Incoming
<1> HIDE DEF s
<1> QED BY <1>2, <1>3, <1>4 DEF Answers

\* A step that puts none leaves the answers as they are.
LEMMA PutsNone ==
  ASSUME UNCHANGED <<tx, in, driver>>
  PROVE  Incoming' = Incoming /\ Answers' = Answers
  BY DEF Incoming, Answers, ForHost

\* The words of a command depend on the host alone.
LEMMA SpeltKept ==
  ASSUME UNCHANGED host
  PROVE  /\ Spelt' = Spelt
         /\ First' = First /\ Count' = Count
         /\ Writing' = Writing /\ Reading' = Reading /\ Reporting' = Reporting
<1>1. /\ First' = First /\ Count' = Count
      /\ Writing' = Writing /\ Reading' = Reading /\ Reporting' = Reporting
  BY DEF First, Count, Size, Word, Writing, Reading, Reporting
<1> QED BY <1>1 DEF Spelt

\* A word that is taken is the one that the command has at this place.
LEMMA SpelledTake ==
  ASSUME LinkOK, Spelled, Take, UNCHANGED <<host, out, driver>>
  PROVE  Head(rx) = Spelt[Left] /\ Spelled'
<1>1. /\ Left \in Nat \ {0} /\ Left' = Left - 1 /\ Outgoing[1] = Head(rx)
      /\ \A j \in 1 .. Left' : Outgoing'[j] = Outgoing[j + 1]
  BY TakeOutcome
<1>2. Head(rx) = Spelt[Left]
  <2>1. Outgoing[1] = Spelt[Left - 1 + 1] /\ Left - 1 + 1 = Left
    BY <1>1 DEF Spelled
  <2> QED BY <1>1, <2>1
<1>3. ASSUME NEW j \in 1 .. Left'
      PROVE  Outgoing'[j] = Spelt[Left' - j + 1]
  <2>1. j + 1 \in 1 .. Left /\ Left - (j + 1) + 1 = Left' - j + 1
    BY <1>1
  <2>2. Outgoing[j + 1] = Spelt[Left - (j + 1) + 1]
    BY <2>1 DEF Spelled
  <2> QED BY <1>1, <2>1, <2>2
<1> QED BY <1>2, <1>3, SpeltKept DEF Spelled

\* So does a step that takes no word of the command.
LEMMA SpelledSame ==
  ASSUME Spelled, UNCHANGED <<host, Outgoing>>
  PROVE  Spelled'
<1>1. Left' = Left
  BY DEF Left
<1> QED BY <1>1, SpeltKept DEF Spelled

-----------------------------------------------------------------------------
(* The controller carries out the command.                                  *)

\* A byte of a packet is in a word of it.
LEMMA Divided ==
  ASSUME NEW n \in Nat, NEW w \in Nat \ {0}, NEW k \in Nat, k < n * w
  PROVE  k \div w \in Nat /\ k \div w < n
<1>1. k \div w \in Nat
  OBVIOUS
<1>2. ASSUME NEW q \in Nat, q = k \div w PROVE q < n
  <2>1. k < w * n
    OBVIOUS
  <2> QED BY <1>2, <2>1
<1> QED BY <1>1, <1>2

\* The fields of a configuration word.
LEMMA ConfigFields ==
  /\ \A n \in 0 .. 15, w \in BOOLEAN, f \in BOOLEAN :
       /\ Config(n, w, f) \in Nat
       /\ CountOf(Config(n, w, f)) = n
       /\ IsWrite(Config(n, w, f)) <=> w
       /\ IsFusion(Config(n, w, f)) <=> f
<1> SUFFICES ASSUME NEW n \in 0 .. 15, NEW w \in BOOLEAN, NEW f \in BOOLEAN
             PROVE  /\ Config(n, w, f) \in Nat
                    /\ CountOf(Config(n, w, f)) = n
                    /\ IsWrite(Config(n, w, f)) <=> w
                    /\ IsFusion(Config(n, w, f)) <=> f
  OBVIOUS
<1> USE DEF Config, CountOf, IsWrite, IsFusion
<1>1. CASE w /\ f
  <2>1. Config(n, w, f) = n + 48
    BY <1>1
  <2>2. ASSUME NEW c \in Nat, c = n + 48
        PROVE  c % 16 = n /\ (c \div 16) % 2 = 1 /\ (c \div 32) % 2 = 1
    BY <2>2
  <2> QED BY <1>1, <2>1, <2>2
<1>2. CASE w /\ ~f
  <2>1. Config(n, w, f) = n + 16
    BY <1>2
  <2>2. ASSUME NEW c \in Nat, c = n + 16
        PROVE  c % 16 = n /\ (c \div 16) % 2 = 1 /\ (c \div 32) % 2 = 0
    BY <2>2
  <2> QED BY <1>2, <2>1, <2>2
<1>3. CASE ~w /\ f
  <2>1. Config(n, w, f) = n + 32
    BY <1>3
  <2>2. ASSUME NEW c \in Nat, c = n + 32
        PROVE  c % 16 = n /\ (c \div 16) % 2 = 0 /\ (c \div 32) % 2 = 1
    BY <2>2
  <2> QED BY <1>3, <2>1, <2>2
<1>4. CASE ~w /\ ~f
  <2>1. Config(n, w, f) = n
    BY <1>4
  <2>2. n % 16 = n /\ (n \div 16) % 2 = 0 /\ (n \div 32) % 2 = 0
    OBVIOUS
  <2> QED BY <1>4, <2>1, <2>2
<1> QED BY <1>1, <1>2, <1>3, <1>4

\* A packet is within memory.
LEMMA PacketSize ==
  ASSUME host.add \in Nat, host.add < Words
  PROVE  Size \in 1 .. 15 /\ host.add + Size <= Words
<1>1. Words \in Nat \ {0} /\ Packet \in 1 .. 15
  BY HostAssumption, LinkAssumption
<1>2. CASE Words - host.add < Packet
  BY <1>1, <1>2 DEF Size
<1>3. CASE ~(Words - host.add < Packet)
  BY <1>1, <1>3 DEF Size
<1> QED BY <1>2, <1>3

\* A command is about words of memory.
LEMMA Extent ==
  ASSUME TypesOK, PlaceInv, host.at \in {"load", "verify", "rewrite", "reread"}
  PROVE  /\ First \in Nat /\ Count \in 1 .. 15 /\ First + Count <= Words
         /\ Size \in 1 .. 15 /\ host.add + Size <= Words
<1>1. host.add \in Nat /\ host.add < Words /\ host.byte \in Nat
  BY DEF TypesOK, PlaceInv, HostType
<1>2. Size \in 1 .. 15 /\ host.add + Size <= Words
  BY <1>1, PacketSize
<1>3. CASE host.at \in {"load", "verify"}
  BY <1>1, <1>2, <1>3 DEF First, Count
<1>4. CASE host.at \in {"rewrite", "reread"}
  <2>1. host.byte < Size * WordBytes
    BY <1>4 DEF PlaceInv
  <2>2. host.byte \div WordBytes \in Nat /\ host.byte \div WordBytes < Size
    <3>1. WordBytes \in Nat \ {0}
      BY HostAssumption
    <3>2. Size \in Nat
      BY <1>2
    <3> QED BY ONLY <1>1, <2>1, <3>1, <3>2, Divided
  <2> QED BY <1>1, <1>2, <1>4, <2>2, LinkAssumption DEF First, Count, Word
<1> QED BY <1>3, <1>4

\* The state of the controller says what it can do.
LEMMA Acts ==
  ASSUME Controller
  PROVE  /\ In("RESET_PURGE") => ResetPurge
         /\ In("SYNC") => Sync
         /\ In("IDLE") => Idle
         /\ In("CONFIG") => Configure
         /\ In("GET_WORD") => GetWord
         /\ In("SEND_WORD") => SendWord
         /\ In("CONFIG2") => Config2
         /\ In("MANAGE") => Manage
         /\ In("WAIT_READY_WRITE") => Request(TRUE)
         /\ In("WAIT_READY_READ") => Request(FALSE)
         /\ In("JTAG_READ") => JtagRead
         /\ In("JTAG_WRITE") => JtagWrite
         /\ In("ACKNOWLEDGE") => Acknowledge
         /\ In("FUSION_MANAGE0") \/ In("FUSION_MANAGE1") \/ In("FUSION_MANAGE2")
              => FusionManage
         /\ In("FUSION_WRITE") => FusionWrite
         /\ In("FUSION_READ") => FusionRead
<1>1. /\ ResetPurge => In("RESET_PURGE")
      /\ Sync => In("SYNC")
      /\ Idle => In("IDLE")
      /\ Configure => In("CONFIG")
      /\ GetWord => In("GET_WORD")
      /\ SendWord => In("SEND_WORD")
      /\ Config2 => In("CONFIG2")
      /\ Manage => In("MANAGE")
  BY DEF ResetPurge, Sync, Idle, Configure, GetWord, SendWord, Config2, Manage
<1>2. /\ Request(TRUE) => In("WAIT_READY_WRITE")
      /\ Request(FALSE) => In("WAIT_READY_READ")
      /\ JtagRead => In("JTAG_READ")
      /\ JtagWrite => In("JTAG_WRITE")
      /\ Acknowledge => In("ACKNOWLEDGE")
      /\ FusionManage => \/ In("FUSION_MANAGE0") \/ In("FUSION_MANAGE1")
                         \/ In("FUSION_MANAGE2")
      /\ FusionWrite => In("FUSION_WRITE")
      /\ FusionRead => In("FUSION_READ")
  BY DEF Request, JtagRead, JtagWrite, Acknowledge, FusionManage, FusionWrite,
         FusionRead
<1> QED BY <1>1, <1>2 DEF Controller, In

\* What is the same for every command.
CommandKept ==
  /\ LinkOK' /\ cc' \in CcType /\ bus' \in BusType /\ Spelled'
  /\ (bus.state = "ready" \/ In("JTAG_READ") \/ In("JTAG_WRITE"))'

\* An action of the controller on the memory behind it leaves the link alone.
LEMMA NoWord ==
  ASSUME LinkOK, Spelled, UNCHANGED <<rx, tx, host, out, in, driver>>
  PROVE  /\ LinkOK' /\ Spelled' /\ Left' = Left /\ Answers' = Answers
         /\ Incoming' = Incoming
<1>1. /\ Outgoing' = Outgoing /\ Left' = Left
      /\ Incoming' = Incoming /\ Answers' = Answers
  BY TakesNone, PutsNone
<1> QED BY <1>1, SpelledSame DEF LinkOK

\* One that takes a word meets the one that the host has put there.
LEMMA WordTaken ==
  ASSUME LinkOK, Spelled, Take, UNCHANGED <<tx, host, out, in, driver>>
  PROVE  /\ LinkOK' /\ Spelled' /\ Left \in Nat \ {0} /\ Left' = Left - 1
         /\ Answers = 0 /\ Answers' = 0 /\ Head(rx) = Spelt[Left] /\ Head(rx) \in Nat
<1>1. /\ rx' \in Seq(Nat) /\ Head(rx) \in Nat
      /\ Left \in Nat \ {0} /\ Left' = Left - 1
  BY TakeOutcome
<1>2. Incoming' = Incoming /\ Answers' = Answers
  BY PutsNone
<1>3. Head(rx) = Spelt[Left] /\ Spelled'
  BY SpelledTake
<1>4. Answers = 0
  BY <1>1 DEF LinkOK
<1> QED BY <1>1, <1>2, <1>3, <1>4 DEF LinkOK

\* And one that puts a word does so when the command has been taken.
LEMMA WordPut ==
  ASSUME LinkOK, Spelled, NEW w \in Nat, Put(w), Left = 0,
         UNCHANGED <<rx, host, out, in, driver>>
  PROVE  /\ LinkOK' /\ Spelled' /\ Left' = 0
         /\ Answers \in Nat /\ Answers' = Answers + 1
         /\ Incoming'[Answers + 1] = w
         /\ \A j \in 1 .. Answers : Incoming'[j] = Incoming[j]
<1>1. /\ tx' \in Seq(Nat) /\ Answers' = Answers + 1 /\ Answers \in Nat
      /\ Incoming'[Answers + 1] = w
      /\ \A j \in 1 .. Answers : Incoming'[j] = Incoming[j]
  BY PutOutcome
<1>2. Outgoing' = Outgoing /\ Left' = Left
  BY TakesNone
<1> QED BY <1>1, <1>2, SpelledSame DEF LinkOK

\* A command that writes: the controller takes as many words as it is told.
LEMMA WriteStep ==
  ASSUME LinkOK, TypesOK, PlaceInv, Spelled, Writing, WriteInv,
         bus.state = "ready" \/ In("JTAG_READ") \/ In("JTAG_WRITE"),
         Controller, UNCHANGED <<host, out, in, driver>>
  PROVE  CommandKept /\ WriteInv' /\ UNCHANGED <<mem, selected, faults>>
<1>1. /\ First \in Nat /\ Count \in 1 .. 15 /\ First + Count <= Words
      /\ First' = First /\ Count' = Count /\ Writing'
  BY Extent, SpeltKept DEF Writing
<1>2. /\ cc \in CcType /\ bus \in BusType /\ Left \in Nat /\ Answers \in Nat
      /\ \A i \in 0 .. Words - 1 : Image[i] \in Nat
  BY LinkTypes, HostAssumption, LinkAssumption DEF TypesOK
<1>3. /\ Spelt[Count + 4] = KeySync /\ Spelt[Count + 3] = 0
      /\ Spelt[Count + 2] = Config(Count, TRUE, FALSE) /\ Spelt[Count + 1] = First
      /\ \A j \in 1 .. Count : Spelt[j] = Image[First + Count - j]
  <2>1. Spelt = [j \in Nat |->
                   IF j <= Count THEN Image[First + Count - j]
                   ELSE IF j = Count + 1 THEN First
                   ELSE IF j = Count + 2 THEN Config(Count, TRUE, FALSE)
                   ELSE IF j = Count + 3 THEN 0 ELSE KeySync]
    BY DEF Spelt
  <2>2. Count \in Nat /\ Count >= 1
    BY <1>1
  <2> HIDE DEF Spelt
  <2>3. \A j \in Nat : Spelt[j] =
                   IF j <= Count THEN Image[First + Count - j]
                   ELSE IF j = Count + 1 THEN First
                   ELSE IF j = Count + 2 THEN Config(Count, TRUE, FALSE)
                   ELSE IF j = Count + 3 THEN 0 ELSE KeySync
    BY <2>1, Zenon
  <2>4. /\ Count + 1 \in Nat /\ ~(Count + 1 <= Count)
        /\ Count + 2 \in Nat /\ ~(Count + 2 <= Count) /\ Count + 2 # Count + 1
        /\ Count + 3 \in Nat /\ ~(Count + 3 <= Count) /\ Count + 3 # Count + 1
        /\ Count + 3 # Count + 2
        /\ Count + 4 \in Nat /\ ~(Count + 4 <= Count) /\ Count + 4 # Count + 1
        /\ Count + 4 # Count + 2 /\ Count + 4 # Count + 3
    BY <2>2
  <2>5. Spelt[Count + 4] = KeySync /\ Spelt[Count + 3] = 0
    BY <2>3, <2>4, Zenon
  <2>6. Spelt[Count + 2] = Config(Count, TRUE, FALSE) /\ Spelt[Count + 1] = First
    BY <2>3, <2>4, Zenon
  <2>7. ASSUME NEW j \in 1 .. Count PROVE Spelt[j] = Image[First + Count - j]
    BY ONLY <2>1, <2>2, <2>7
  <2> QED BY <2>5, <2>6, <2>7, Zenon
<1>4. CASE In("SYNC")
  <2>1. Sync /\ Left = Count + 4
    BY <1>4, Acts DEF WriteInv
  <2>2. Head(rx) = KeySync
    <3>1. Take /\ Spelt[Left] = KeySync
      BY <1>3, <2>1 DEF Sync
    <3> QED BY <3>1, SpelledTake
  <2>3. /\ cc' = [cc EXCEPT !.state = "IDLE"] /\ Take
        /\ UNCHANGED <<tx, bus, mem, selected, faults>>
    BY <2>1, <2>2 DEF Sync, Goto, OffBus
  <2>4. /\ LinkOK' /\ Spelled' /\ Left' = Left - 1 /\ Answers' = 0
    BY <2>3, WordTaken
  <2>5. cc' \in CcType /\ cc'.state = "IDLE"
    BY <1>2, <2>3 DEF CcType, States
  <2>6. bus.state = "ready" /\ bus' = bus
    BY <1>4, <2>3 DEF In
  <2> QED BY <1>1, <1>2, <2>1, <2>3, <2>4, <2>5, <2>6
          DEF CommandKept, WriteInv, In
<1>5. CASE In("IDLE")
  <2>1. Idle /\ Take
    BY <1>5, Acts DEF Idle
  <2>2. Left = Count + 3
    <3>1. Left # 0
      BY <2>1, TakeOutcome
    <3> QED BY <1>5, <3>1 DEF WriteInv
  <2>3. Head(rx) = 0
    <3>1. Spelt[Left] = 0
      BY <1>3, <2>2
    <3> QED BY <2>1, <3>1, SpelledTake
  <2>4. /\ cc' = [cc EXCEPT !.state = "CONFIG"]
        /\ UNCHANGED <<tx, bus, mem, selected, faults>>
    BY <2>1, <2>3 DEF Idle, Goto, OffBus
  <2>5. /\ LinkOK' /\ Spelled' /\ Left' = Left - 1 /\ Answers' = 0
    BY <2>1, <2>4, WordTaken
  <2>6. cc' \in CcType /\ cc'.state = "CONFIG"
    BY <1>2, <2>4 DEF CcType, States
  <2>7. bus.state = "ready" /\ bus' = bus
    BY <1>5, <2>4 DEF In
  <2> QED BY <1>1, <1>2, <2>2, <2>4, <2>5, <2>6, <2>7
          DEF CommandKept, WriteInv, In
<1>6. CASE In("CONFIG")
  <2>1. Configure /\ Take /\ Left = Count + 2
    BY <1>6, Acts DEF Configure, WriteInv
  <2>2. Head(rx) = Config(Count, TRUE, FALSE)
    <3>1. Spelt[Left] = Config(Count, TRUE, FALSE)
      BY <1>3, <2>1
    <3> QED BY <2>1, <3>1, SpelledTake
  <2>3. /\ CountOf(Head(rx)) = Count /\ IsWrite(Head(rx)) /\ ~IsFusion(Head(rx))
        /\ IsWrite(Head(rx)) = TRUE
    <3>1. Count \in 0 .. 15
      BY <1>1
    <3>2. IsWrite(Head(rx)) \in BOOLEAN
      BY DEF IsWrite
    <3> QED BY <2>2, <3>1, <3>2, ConfigFields
  <2>4. /\ cc' = [cc EXCEPT !.state = "GET_WORD", !.next1 = "MANAGE",
                            !.next0 = "CONFIG2", !.write = TRUE, !.counter = Count]
        /\ UNCHANGED <<tx, bus, mem, selected, faults>>
    BY <2>1, <2>3 DEF Configure, OffBus
  <2>5. /\ LinkOK' /\ Spelled' /\ Left' = Left - 1 /\ Answers' = 0
    BY <2>1, <2>4, WordTaken
  <2>6. /\ cc' \in CcType /\ cc'.state = "GET_WORD" /\ cc'.next1 = "MANAGE"
        /\ cc'.next0 = "CONFIG2" /\ cc'.write /\ cc'.counter = Count
    <3>1. Count \in Nat
      BY <1>1
    <3> QED BY ONLY <1>2, <2>4, <3>1 DEF CcType, States
  <2>7. bus.state = "ready" /\ bus' = bus
    BY <1>6, <2>4 DEF In
  <2> QED BY <1>1, <1>2, <2>1, <2>4, <2>5, <2>6, <2>7
          DEF CommandKept, WriteInv, In
<1>7. CASE In("GET_WORD")
  <2>1. GetWord /\ Take
    BY <1>7, Acts DEF GetWord
  <2>2. /\ cc' = [cc EXCEPT !.word = Head(rx), !.state = cc.next0]
        /\ UNCHANGED <<tx, bus, mem, selected, faults>>
    BY <2>1 DEF GetWord, OffBus
  <2>3. /\ LinkOK' /\ Spelled' /\ Left' = Left - 1 /\ Answers' = 0
        /\ Head(rx) = Spelt[Left] /\ Head(rx) \in Nat /\ Left \in Nat \ {0}
    BY <2>1, <2>2, WordTaken
  <2>4. /\ cc' \in CcType /\ cc'.state = cc.next0 /\ cc'.word = Head(rx)
        /\ cc'.next1 = cc.next1 /\ cc'.write = cc.write
        /\ cc'.counter = cc.counter /\ cc'.add = cc.add
    BY <1>2, <2>2, <2>3 DEF CcType, States
  <2>5. bus.state = "ready" /\ bus' = bus
    BY <1>7, <2>2 DEF In
  <2>6. CASE cc.next0 = "CONFIG2"
    <3>1. /\ cc.write /\ cc.next1 = "MANAGE" /\ cc.counter = Count
          /\ Left = Count + 1
      BY <1>7, <2>6 DEF WriteInv
    <3>2. Head(rx) = First
      BY <1>3, <2>3, <3>1
    <3> QED BY <1>1, <1>2, <2>2, <2>3, <2>4, <2>5, <2>6, <3>1, <3>2
            DEF CommandKept, WriteInv, In
  <2>7. CASE cc.next0 # "CONFIG2"
    <3>1. /\ cc.write /\ cc.next0 = "WAIT_READY_WRITE" /\ Left \in 1 .. Count
          /\ cc.add = First + Count - Left + 1
          /\ IF Left = 1 THEN cc.next1 = "ACKNOWLEDGE"
             ELSE cc.next1 = "MANAGE" /\ cc.counter = Left - 1
      BY <1>7, <2>7 DEF WriteInv
    <3>2. Head(rx) = Image[First + Count - Left' - 1]
      <4>1. Head(rx) = Image[First + Count - Left]
        BY <1>3, <2>3, <3>1
      <4>2. First + Count - Left = First + Count - Left' - 1
        BY <1>1, <2>3, <3>1
      <4> QED BY <4>1, <4>2
    <3>3. /\ Left' \in 0 .. Count - 1 /\ cc'.add = First + Count - Left'
          /\ IF Left' = 0 THEN cc'.next1 = "ACKNOWLEDGE"
             ELSE cc'.next1 = "MANAGE" /\ cc'.counter = Left'
      BY <1>1, <1>2, <2>3, <2>4, <3>1
    <3> QED BY <1>1, <1>2, <2>2, <2>3, <2>4, <2>5, <3>1, <3>2, <3>3
            DEF CommandKept, WriteInv, In
  <2> QED BY <2>6, <2>7
<1>8. CASE In("CONFIG2")
  <2>1. /\ cc' = [cc EXCEPT !.add = cc.word, !.state = cc.next1]
        /\ UNCHANGED <<rx, tx, bus, mem, selected, faults>>
    BY <1>8, Acts DEF Config2, OffBus
  <2>2. /\ LinkOK' /\ Spelled' /\ Left' = Left /\ Answers' = Answers
    BY <2>1, NoWord
  <2>3. /\ cc' \in CcType /\ cc'.state = cc.next1 /\ cc'.add = cc.word
        /\ cc'.write = cc.write /\ cc'.counter = cc.counter
    BY <1>2, <2>1 DEF CcType, States
  <2>4. bus.state = "ready" /\ bus' = bus
    BY <1>8, <2>1 DEF In
  <2>5. /\ Answers = 0 /\ cc.write /\ cc.next1 = "MANAGE" /\ cc.counter = Count
        /\ cc.word = First /\ Left = Count
    BY <1>8 DEF WriteInv, In
  <2>6. /\ Left' \in 1 .. Count /\ cc'.add = First + Count - Left'
        /\ cc'.state = "MANAGE" /\ cc'.counter = Left' /\ cc'.write /\ Answers' = 0
    BY <1>1, <2>2, <2>3, <2>5
  <2> QED BY <1>1, <1>2, <2>1, <2>2, <2>3, <2>4, <2>5, <2>6 DEF CommandKept, WriteInv, In
<1>9. CASE In("MANAGE")
  <2>1. /\ cc.write /\ Left \in 1 .. Count /\ cc.counter = Left
        /\ cc.add = First + Count - Left /\ Answers = 0
    BY <1>9 DEF WriteInv, In
  <2>2. Manage /\ UNCHANGED <<rx, tx, bus, mem, selected, faults>>
    BY <1>9, Acts DEF Manage, OffBus
  <2>3. /\ LinkOK' /\ Spelled' /\ Left' = Left /\ Answers' = Answers
    BY <2>2, NoWord
  <2>4. /\ cc.add + 1 \in Nat /\ Left - 1 \in Nat /\ cc.counter = Left
    BY <1>1, <1>2, <2>1
  <2>5. /\ cc' \in CcType /\ cc'.state = "GET_WORD" /\ cc'.write
        /\ cc'.add = cc.add + 1 /\ cc'.next0 = "WAIT_READY_WRITE"
        /\ Left = 1 => cc'.next1 = "ACKNOWLEDGE"
        /\ Left # 1 => cc'.next1 = "MANAGE" /\ cc'.counter = Left - 1
    <3>1. CASE Left = 1
      <4>1. cc' = [cc EXCEPT !.add = cc.add + 1, !.counter = cc.counter,
                             !.state = "GET_WORD", !.next0 = "WAIT_READY_WRITE",
                             !.next1 = "ACKNOWLEDGE"]
        BY <2>1, <2>2, <3>1 DEF Manage, LastWord
      <4> QED BY <1>2, <2>1, <2>4, <3>1, <4>1 DEF CcType, States
    <3>2. CASE Left # 1
      <4>1. cc' = [cc EXCEPT !.add = cc.add + 1, !.counter = Left - 1,
                             !.state = "GET_WORD", !.next0 = "WAIT_READY_WRITE",
                             !.next1 = "MANAGE"]
        BY <2>1, <2>2, <3>2 DEF Manage, LastWord
      <4> QED BY <1>2, <2>1, <2>4, <3>2, <4>1 DEF CcType, States
    <3> QED BY <3>1, <3>2
  <2>6. bus.state = "ready" /\ bus' = bus
    BY <1>9, <2>2 DEF In
  <2>7. /\ Left' = 1 => cc'.next1 = "ACKNOWLEDGE"
        /\ Left' # 1 => cc'.next1 = "MANAGE" /\ cc'.counter = Left' - 1
        /\ Left' \in 1 .. Count /\ cc'.add = First + Count - Left' + 1
    BY <1>1, <2>1, <2>3, <2>5
  <2> QED BY <1>1, <1>2, <2>1, <2>2, <2>3, <2>5, <2>6, <2>7 DEF CommandKept, WriteInv, In
<1>10. CASE In("WAIT_READY_WRITE")
  <2>1. /\ cc.write /\ Left \in 0 .. Count - 1
        /\ cc.add = First + Count - Left
        /\ cc.word = Image[First + Count - Left - 1]
        /\ IF Left = 0 THEN cc.next1 = "ACKNOWLEDGE"
           ELSE cc.next1 = "MANAGE" /\ cc.counter = Left
        /\ Answers = 0
    BY <1>10 DEF WriteInv, In
  <2>2. /\ bus' = [state |-> "busy", write |-> TRUE, add |-> cc.add - 1,
                   data |-> cc.word]
        /\ cc' = [cc EXCEPT !.state = "JTAG_WRITE"]
        /\ UNCHANGED <<rx, tx, mem, selected, faults>>
    BY <1>10, Acts DEF Request, Goto
  <2>3. /\ LinkOK' /\ Spelled' /\ Left' = Left /\ Answers' = Answers
    BY <2>2, NoWord
  <2>4. /\ cc' \in CcType /\ cc'.state = "JTAG_WRITE" /\ cc'.write = cc.write
        /\ cc'.add = cc.add /\ cc'.word = cc.word /\ cc'.next1 = cc.next1
        /\ cc'.counter = cc.counter /\ cc.word \in Nat
    <3>1. cc \in CcType
      BY <1>2
    <3>2. cc' = [cc EXCEPT !.state = "JTAG_WRITE"]
      BY <2>2
    <3> QED BY ONLY <3>1, <3>2 DEF CcType, States
  <2>5. cc.add - 1 \in Nat /\ cc.add - 1 = First + Count - Left - 1
    <3>1. First \in Nat /\ Count \in 1 .. 15
      BY <1>1
    <3>2. Left \in 0 .. Count - 1 /\ cc.add = First + Count - Left
      BY <2>1
    <3> QED BY ONLY <3>1, <3>2
  <2>6. /\ bus' \in BusType /\ bus'.write = TRUE /\ bus'.add = cc.add - 1
        /\ bus'.state = "busy" /\ bus'.data = cc.word
    BY <2>2, <2>4, <2>5 DEF BusType
  <2> QED BY <1>1, <1>2, <2>1, <2>2, <2>3, <2>4, <2>5, <2>6
          DEF CommandKept, WriteInv, In, Requested
<1>11. CASE In("JTAG_WRITE")
  <2>1. /\ cc.write /\ Left \in 0 .. Count - 1
        /\ cc.add = First + Count - Left
        /\ IF Left = 0 THEN cc.next1 = "ACKNOWLEDGE"
           ELSE cc.next1 = "MANAGE" /\ cc.counter = Left
        /\ Answers = 0
    BY <1>11 DEF WriteInv, In
  <2>2. /\ bus' = [bus EXCEPT !.state = "ready"]
        /\ cc' = [cc EXCEPT !.state = cc.next1]
        /\ UNCHANGED <<rx, tx, mem, selected, faults>>
    BY <1>11, Acts DEF JtagWrite, Goto
  <2>3. /\ LinkOK' /\ Spelled' /\ Left' = Left /\ Answers' = Answers
    BY <2>2, NoWord
  <2>4. /\ cc' \in CcType /\ cc'.state = cc.next1 /\ cc'.write = cc.write
        /\ cc'.add = cc.add /\ cc'.counter = cc.counter
    BY <1>2, <2>2 DEF CcType, States
  <2>5. bus' \in BusType /\ bus'.state = "ready"
    BY <1>2, <2>2 DEF BusType
  <2>6. CASE Left = 0
    <3>1. cc'.state = "ACKNOWLEDGE" /\ Left' = 0
      BY <2>1, <2>3, <2>4, <2>6
    <3> QED BY <1>1, <2>1, <2>2, <2>3, <2>4, <2>5, <3>1
            DEF CommandKept, WriteInv, In
  <2>7. CASE Left # 0
    <3>1. /\ cc'.state = "MANAGE" /\ Left' \in 1 .. Count /\ Left' # 0
          /\ cc'.counter = Left' /\ cc'.add = First + Count - Left'
      BY <1>1, <2>1, <2>3, <2>4, <2>7
    <3> QED BY <1>1, <2>1, <2>2, <2>3, <2>4, <2>5, <3>1
            DEF CommandKept, WriteInv, In
  <2> QED BY <2>6, <2>7
<1>12. CASE In("ACKNOWLEDGE")
  <2>1. Left = 0 /\ Answers = 0
    BY <1>12 DEF WriteInv, In
  <2>2. /\ Put(0) /\ cc' = [cc EXCEPT !.state = "IDLE"]
        /\ UNCHANGED <<rx, bus, mem, selected, faults>>
    BY <1>12, Acts DEF Acknowledge, Goto, OffBus
  <2>3. /\ LinkOK' /\ Spelled' /\ Left' = 0 /\ Answers' = 1
        /\ Incoming'[1] = 0
    BY <2>1, <2>2, WordPut
  <2>4. cc' \in CcType /\ cc'.state = "IDLE"
    BY <1>2, <2>2 DEF CcType, States
  <2>5. bus.state = "ready" /\ bus' = bus
    BY <1>12, <2>2 DEF In
  <2>6. Head(Incoming)' = 0
    BY <2>3
  <2> QED BY <1>1, <1>2, <2>2, <2>3, <2>4, <2>5, <2>6
          DEF CommandKept, WriteInv, In
<1> QED BY <1>4, <1>5, <1>6, <1>7, <1>8, <1>9, <1>10, <1>11, <1>12
        DEF WriteInv, In

\* A command that reads: one answer for each word that it is told.
LEMMA ReadStep ==
  ASSUME LinkOK, TypesOK, PlaceInv, Spelled, Reading, ReadInv,
         bus.state = "ready" \/ In("JTAG_READ") \/ In("JTAG_WRITE"),
         Controller, UNCHANGED <<host, out, in, driver>>
  PROVE  CommandKept /\ ReadInv' /\ UNCHANGED <<mem, selected, faults>>
<1>1. /\ First \in Nat /\ Count \in 1 .. 15 /\ First + Count <= Words
      /\ First' = First /\ Count' = Count /\ Reading'
  BY Extent, SpeltKept DEF Reading
<1>2. /\ cc \in CcType /\ bus \in BusType /\ Left \in Nat /\ Answers \in Nat
  BY LinkTypes DEF TypesOK
<1>3. Spelt[3] = 0 /\ Spelt[2] = Config(Count, FALSE, FALSE) /\ Spelt[1] = First
  <2>1. ~Writing
    BY DEF Writing, Reading
  <2>2. Spelt = [j \in Nat |-> IF j = 1 THEN First
                               ELSE IF j = 2 THEN Config(Count, FALSE, FALSE) ELSE 0]
    BY <2>1 DEF Spelt
  <2> QED BY <2>2
<1>4. host.awaits = Count /\ host' = host
  BY DEF ReadInv
<1>5. CASE In("IDLE")
  <2>1. Idle /\ Take
    BY <1>5, Acts DEF Idle
  <2>2. Left = 3
    <3>1. Left # 0
      BY <2>1, TakeOutcome
    <3> QED BY <1>5, <3>1 DEF ReadInv
  <2>3. Head(rx) = 0
    BY <1>3, <2>1, <2>2, SpelledTake
  <2>4. /\ cc' = [cc EXCEPT !.state = "CONFIG"]
        /\ UNCHANGED <<tx, bus, mem, selected, faults>>
    BY <2>1, <2>3 DEF Idle, Goto, OffBus
  <2>5. /\ LinkOK' /\ Spelled' /\ Left' = 2 /\ Answers' = 0
    BY <2>1, <2>2, <2>4, WordTaken
  <2>6. cc' \in CcType /\ cc'.state = "CONFIG"
    BY <1>2, <2>4 DEF CcType, States
  <2>7. bus.state = "ready" /\ bus' = bus
    BY <1>5, <2>4 DEF In
  <2> QED BY <1>1, <1>2, <1>4, <2>4, <2>5, <2>6, <2>7
          DEF CommandKept, ReadInv, In
<1>6. CASE In("CONFIG")
  <2>1. Configure /\ Take /\ Left = 2
    BY <1>6, Acts DEF Configure, ReadInv
  <2>2. Head(rx) = Config(Count, FALSE, FALSE)
    BY <1>3, <2>1, SpelledTake
  <2>3. /\ CountOf(Head(rx)) = Count /\ ~IsFusion(Head(rx))
        /\ IsWrite(Head(rx)) = FALSE
    <3>1. Count \in 0 .. 15
      BY <1>1
    <3>2. IsWrite(Head(rx)) \in BOOLEAN
      BY DEF IsWrite
    <3> QED BY <2>2, <3>1, <3>2, ConfigFields
  <2>4. /\ cc' = [cc EXCEPT !.state = "GET_WORD", !.next1 = "MANAGE",
                            !.next0 = "CONFIG2", !.write = FALSE, !.counter = Count]
        /\ UNCHANGED <<tx, bus, mem, selected, faults>>
    BY <2>1, <2>3 DEF Configure, OffBus
  <2>5. /\ LinkOK' /\ Spelled' /\ Left' = 1 /\ Answers' = 0
    BY <2>1, <2>4, WordTaken
  <2>6. /\ cc' \in CcType /\ cc'.state = "GET_WORD" /\ cc'.next1 = "MANAGE"
        /\ cc'.next0 = "CONFIG2" /\ ~cc'.write /\ cc'.counter = Count
    <3>1. Count \in Nat
      BY <1>1
    <3> QED BY ONLY <1>2, <2>4, <3>1 DEF CcType, States
  <2>7. bus.state = "ready" /\ bus' = bus
    BY <1>6, <2>4 DEF In
  <2> QED BY <1>1, <1>2, <1>4, <2>4, <2>5, <2>6, <2>7
          DEF CommandKept, ReadInv, In
<1>7. CASE In("GET_WORD")
  <2>1. /\ GetWord /\ Take /\ Left = 1 /\ cc.next0 = "CONFIG2" /\ ~cc.write
        /\ cc.counter = Count /\ cc.next1 = "MANAGE"
    BY <1>7, Acts DEF GetWord, ReadInv
  <2>2. /\ cc' = [cc EXCEPT !.word = Head(rx), !.state = "CONFIG2"]
        /\ UNCHANGED <<tx, bus, mem, selected, faults>>
    BY <2>1 DEF GetWord, OffBus
  <2>3. /\ LinkOK' /\ Spelled' /\ Left' = 0 /\ Answers' = 0 /\ Head(rx) = First
    BY <1>3, <2>1, <2>2, WordTaken
  <2>4. /\ cc' \in CcType /\ cc'.state = "CONFIG2" /\ cc'.word = First
        /\ ~cc'.write /\ cc'.counter = Count /\ cc'.next1 = "MANAGE"
    BY <1>1, <1>2, <2>1, <2>2, <2>3 DEF CcType, States
  <2>5. bus.state = "ready" /\ bus' = bus
    BY <1>7, <2>2 DEF In
  <2> QED BY <1>1, <1>2, <1>4, <2>2, <2>3, <2>4, <2>5
          DEF CommandKept, ReadInv, In
<1>8. CASE In("CONFIG2")
  <2>1. /\ Answers = 0 /\ ~cc.write /\ cc.next1 = "MANAGE" /\ cc.counter = Count
        /\ cc.word = First /\ Left = 0
    BY <1>8 DEF ReadInv
  <2>2. /\ cc' = [cc EXCEPT !.add = First, !.state = "MANAGE"]
        /\ UNCHANGED <<rx, tx, bus, mem, selected, faults>>
    BY <1>8, <2>1, Acts DEF Config2, OffBus
  <2>3. /\ LinkOK' /\ Spelled' /\ Left' = 0 /\ Answers' = 0
    BY <2>1, <2>2, NoWord
  <2>4. /\ cc' \in CcType /\ cc'.state = "MANAGE" /\ cc'.add = First
        /\ ~cc'.write /\ cc'.counter = Count
    BY <1>1, <1>2, <2>1, <2>2 DEF CcType, States
  <2>5. bus.state = "ready" /\ bus' = bus
    BY <1>8, <2>2 DEF In
  <2>6. Answers' < Count /\ Count - Answers' = Count /\ First + Answers' = First
    BY <1>1, <2>3
  <2> QED BY <1>1, <1>2, <1>4, <2>2, <2>3, <2>4, <2>5, <2>6
          DEF CommandKept, ReadInv, In
<1>9. CASE In("MANAGE")
  <2>1. /\ Left = 0 /\ ~cc.write /\ Answers < Count
        /\ cc.counter = Count - Answers /\ cc.add = First + Answers
    BY <1>9 DEF ReadInv, In
  <2>2. Manage /\ UNCHANGED <<rx, tx, bus, mem, selected, faults>>
    BY <1>9, Acts DEF Manage, OffBus
  <2>3. /\ LinkOK' /\ Spelled' /\ Left' = 0 /\ Answers' = Answers
    BY <2>1, <2>2, NoWord
  <2>4. /\ cc.add + 1 \in Nat /\ cc.counter - 1 \in Nat
        /\ cc.counter = 1 <=> Answers = Count - 1
    BY <1>1, <1>2, <2>1
  <2>5. /\ cc' \in CcType /\ cc'.state = "WAIT_READY_READ" /\ ~cc'.write
        /\ cc'.add = cc.add + 1
        /\ Answers = Count - 1 => cc'.next0 = "IDLE"
        /\ Answers # Count - 1 => cc'.next0 = "MANAGE" /\ cc'.counter = cc.counter - 1
    <3>1. CASE cc.counter = 1
      <4>1. cc' = [cc EXCEPT !.add = cc.add + 1, !.counter = cc.counter,
                             !.state = "WAIT_READY_READ", !.next0 = "IDLE",
                             !.next1 = cc.next1]
        BY <2>1, <2>2, <3>1 DEF Manage, LastWord
      <4> QED BY <1>2, <2>1, <2>4, <3>1, <4>1 DEF CcType, States
    <3>2. CASE cc.counter # 1
      <4>1. cc' = [cc EXCEPT !.add = cc.add + 1, !.counter = cc.counter - 1,
                             !.state = "WAIT_READY_READ", !.next0 = "MANAGE",
                             !.next1 = cc.next1]
        BY <2>1, <2>2, <3>2 DEF Manage, LastWord
      <4> QED BY <1>2, <2>1, <2>4, <3>2, <4>1 DEF CcType, States
    <3> QED BY <3>1, <3>2
  <2>6. bus.state = "ready" /\ bus' = bus
    BY <1>9, <2>2 DEF In
  <2>7. /\ Answers' < Count /\ cc'.add = First + Answers' + 1
        /\ IF Answers' = Count - 1 THEN cc'.next0 = "IDLE"
           ELSE cc'.next0 = "MANAGE" /\ cc'.counter = Count - Answers' - 1
    BY <1>1, <1>2, <2>1, <2>3, <2>5
  <2> QED BY <1>1, <1>2, <1>4, <2>2, <2>3, <2>5, <2>6, <2>7
          DEF CommandKept, ReadInv, In
<1>10. CASE cc.state \in {"WAIT_READY_READ", "JTAG_READ", "SEND_WORD"}
  <2>1. /\ Left = 0 /\ ~cc.write /\ Answers < Count
        /\ cc.add = First + Answers + 1
        /\ IF Answers = Count - 1 THEN cc.next0 = "IDLE"
           ELSE cc.next0 = "MANAGE" /\ cc.counter = Count - Answers - 1
    BY <1>10 DEF ReadInv, In
  <2>2. CASE In("WAIT_READY_READ")
    <3>1. /\ bus' = [state |-> "busy", write |-> FALSE, add |-> cc.add - 1,
                     data |-> cc.word]
          /\ cc' = [cc EXCEPT !.state = "JTAG_READ"]
          /\ UNCHANGED <<rx, tx, mem, selected, faults>>
      BY <2>2, Acts DEF Request, Goto
    <3>2. /\ LinkOK' /\ Spelled' /\ Left' = 0 /\ Answers' = Answers
      BY <2>1, <3>1, NoWord
    <3>3. /\ cc' \in CcType /\ cc'.state = "JTAG_READ" /\ ~cc'.write
          /\ cc'.add = cc.add /\ cc'.next0 = cc.next0
          /\ cc'.counter = cc.counter /\ cc.word \in Nat
      BY <1>2, <2>1, <3>1 DEF CcType, States
    <3>4. cc.add - 1 \in Nat /\ cc.add - 1 = First + Answers
      BY <1>1, <1>2, <2>1
    <3>5. /\ bus' \in BusType /\ bus'.write = FALSE /\ bus'.add = First + Answers
          /\ bus'.state = "busy"
      BY <3>1, <3>3, <3>4 DEF BusType
    <3> QED BY <1>1, <1>4, <2>1, <3>1, <3>2, <3>3, <3>5
            DEF CommandKept, ReadInv, In, Requested
  <2>3. CASE In("JTAG_READ")
    <3>1. /\ bus' = [bus EXCEPT !.state = "ready"]
          /\ cc' = [cc EXCEPT !.word = bus.data, !.state = "SEND_WORD"]
          /\ UNCHANGED <<rx, tx, mem, selected, faults>>
      BY <2>3, Acts DEF JtagRead
    <3>2. /\ LinkOK' /\ Spelled' /\ Left' = 0 /\ Answers' = Answers
      BY <2>1, <3>1, NoWord
    <3>3. bus' \in BusType /\ bus'.state = "ready" /\ bus.data \in Nat
      BY <1>2, <3>1 DEF BusType
    <3>4. /\ cc' \in CcType /\ cc'.state = "SEND_WORD" /\ ~cc'.write
          /\ cc'.add = cc.add /\ cc'.next0 = cc.next0 /\ cc'.counter = cc.counter
      BY <1>2, <2>1, <3>1, <3>3 DEF CcType, States
    <3> QED BY <1>1, <1>4, <2>1, <3>1, <3>2, <3>3, <3>4
            DEF CommandKept, ReadInv, In
  <2>4. CASE In("SEND_WORD")
    <3>1. /\ Put(cc.word) /\ cc' = [cc EXCEPT !.state = cc.next0]
          /\ UNCHANGED <<rx, bus, mem, selected, faults>>
      BY <2>4, Acts DEF SendWord, Goto, OffBus
    <3>2. /\ LinkOK' /\ Spelled' /\ Left' = 0 /\ Answers' = Answers + 1
      <4>1. cc.word \in Nat
        BY <1>2 DEF CcType
      <4> QED BY <2>1, <3>1, <4>1, WordPut
    <3>3. /\ cc' \in CcType /\ cc'.state = cc.next0 /\ ~cc'.write
          /\ cc'.add = cc.add /\ cc'.counter = cc.counter
      BY <1>2, <2>1, <3>1 DEF CcType, States
    <3>4. bus.state = "ready" /\ bus' = bus
      BY <2>4, <3>1 DEF In
    <3>5. CASE Answers = Count - 1
      <4>1. cc'.state = "IDLE" /\ Answers' = Count
        BY <1>1, <2>1, <3>2, <3>3, <3>5
      <4> QED BY <1>1, <1>2, <1>4, <3>1, <3>2, <3>3, <3>4, <4>1
              DEF CommandKept, ReadInv, In
    <3>6. CASE Answers # Count - 1
      <4>1. /\ cc'.state = "MANAGE" /\ Answers' < Count
            /\ cc'.counter = Count - Answers' /\ cc'.add = First + Answers'
        BY <1>1, <1>2, <2>1, <3>2, <3>3, <3>6
      <4> QED BY <1>1, <1>2, <1>4, <3>1, <3>2, <3>3, <3>4, <4>1
              DEF CommandKept, ReadInv, In
    <3> QED BY <3>5, <3>6
  <2> QED BY <1>10, <2>2, <2>3, <2>4 DEF In
<1> QED BY <1>5, <1>6, <1>7, <1>8, <1>9, <1>10 DEF ReadInv, In

\* The command that reports: the number of a counter is written, what it
\* counts is read and sent, and then the next one.
LEMMA ReportStep ==
  ASSUME LinkOK, TypesOK, Spelled, Reporting, ReportInv,
         bus.state = "ready" \/ In("JTAG_READ") \/ In("JTAG_WRITE"),
         Controller, UNCHANGED <<host, out, in, driver>>
  PROVE  CommandKept /\ ReportInv' /\ UNCHANGED <<mem, selected, faults>>
<1>1. /\ cc \in CcType /\ bus \in BusType /\ Left \in Nat /\ Answers \in Nat
      /\ Counters \in Nat \ {0} /\ Select \in Nat /\ Result \in Nat
      /\ selected \in Nat
  BY LinkTypes, HostAssumption, LinkAssumption DEF TypesOK, Select, Result
<1>2. /\ Spelt[5] = 0 /\ Spelt[4] = Config(0, FALSE, TRUE) /\ Spelt[3] = Select
      /\ Spelt[2] = Result /\ Spelt[1] = Counters
  <2>1. ~Writing /\ ~Reading
    BY DEF Writing, Reading, Reporting
  <2>2. Spelt = [j \in Nat |->
                   IF j = 1 THEN Counters ELSE IF j = 2 THEN Result
                   ELSE IF j = 3 THEN Select
                   ELSE IF j = 4 THEN Config(0, FALSE, TRUE) ELSE 0]
    BY <2>1 DEF Spelt
  <2> QED BY <2>2
<1>3. /\ host.awaits = Counters /\ host' = host
      /\ \A i \in 1 .. Answers : Incoming[i] = Counter(i - 1)
  BY DEF ReportInv
<1>4. CASE In("IDLE")
  <2>1. Idle /\ Take
    BY <1>4, Acts DEF Idle
  <2>2. Left = 5
    <3>1. Left # 0
      BY <2>1, TakeOutcome
    <3> QED BY <1>4, <3>1 DEF ReportInv
  <2>3. Head(rx) = 0
    BY <1>2, <2>1, <2>2, SpelledTake
  <2>4. /\ cc' = [cc EXCEPT !.state = "CONFIG"]
        /\ UNCHANGED <<tx, bus, mem, selected, faults>>
    BY <2>1, <2>3 DEF Idle, Goto, OffBus
  <2>5. /\ LinkOK' /\ Spelled' /\ Left' = 4 /\ Answers' = 0
    BY <2>1, <2>2, <2>4, WordTaken
  <2>6. cc' \in CcType /\ cc'.state = "CONFIG"
    BY <1>1, <2>4 DEF CcType, States
  <2>7. bus.state = "ready" /\ bus' = bus
    BY <1>4, <2>4 DEF In
  <2> QED BY <1>1, <1>3, <2>4, <2>5, <2>6, <2>7 DEF CommandKept, ReportInv, In
<1>5. CASE In("CONFIG")
  <2>1. Configure /\ Take /\ Left = 4
    BY <1>5, Acts DEF Configure, ReportInv
  <2>2. Head(rx) = Config(0, FALSE, TRUE)
    BY <1>2, <2>1, SpelledTake
  <2>3. /\ CountOf(Head(rx)) = 0 /\ IsFusion(Head(rx))
        /\ IsWrite(Head(rx)) = FALSE
    <3>1. IsWrite(Head(rx)) \in BOOLEAN
      BY DEF IsWrite
    <3>2. /\ CountOf(Config(0, FALSE, TRUE)) = 0 /\ IsFusion(Config(0, FALSE, TRUE))
          /\ ~IsWrite(Config(0, FALSE, TRUE))
      <4>1. 0 \in 0 .. 15 /\ TRUE \in BOOLEAN /\ FALSE \in BOOLEAN
        OBVIOUS
      <4> QED BY ONLY <4>1, ConfigFields, Zenon
    <3> QED BY <2>2, <3>1, <3>2
  <2>4. /\ cc' = [cc EXCEPT !.state = "GET_WORD", !.next1 = "MANAGE",
                            !.next0 = "FUSION_MANAGE0", !.write = FALSE,
                            !.counter = 0]
        /\ UNCHANGED <<tx, bus, mem, selected, faults>>
    BY <2>1, <2>3 DEF Configure, OffBus
  <2>5. /\ LinkOK' /\ Spelled' /\ Left' = 3 /\ Answers' = 0
    BY <2>1, <2>4, WordTaken
  <2>6. /\ cc' \in CcType /\ cc'.state = "GET_WORD"
        /\ cc'.next0 = "FUSION_MANAGE0"
    BY ONLY <1>1, <2>4 DEF CcType, States
  <2>7. bus.state = "ready" /\ bus' = bus
    BY <1>5, <2>4 DEF In
  <2> QED BY <1>1, <1>3, <2>4, <2>5, <2>6, <2>7 DEF CommandKept, ReportInv, In
<1>6. CASE In("GET_WORD")
  <2>1. /\ GetWord /\ Take /\ Answers = 0
        /\ \/ cc.next0 = "FUSION_MANAGE0" /\ Left = 3
           \/ cc.next0 = "FUSION_MANAGE1" /\ Left = 2 /\ cc.to = Select + 1
           \/ /\ cc.next0 = "FUSION_MANAGE2" /\ Left = 1
              /\ cc.to = Select + 1 /\ cc.from = Result + 1
    BY <1>6, Acts DEF GetWord, ReportInv
  <2>2. /\ cc' = [cc EXCEPT !.word = Head(rx), !.state = cc.next0]
        /\ UNCHANGED <<tx, bus, mem, selected, faults>>
    BY <2>1 DEF GetWord, OffBus
  <2>3. /\ LinkOK' /\ Spelled' /\ Left' = Left - 1 /\ Answers' = 0
        /\ Head(rx) = Spelt[Left] /\ Head(rx) \in Nat
    BY <2>1, <2>2, WordTaken
  <2>4. /\ cc' \in CcType /\ cc'.state = cc.next0 /\ cc'.word = Head(rx)
        /\ cc'.to = cc.to /\ cc'.from = cc.from
    BY <1>1, <2>2, <2>3 DEF CcType, States
  <2>5. bus.state = "ready" /\ bus' = bus
    BY <1>6, <2>2 DEF In
  <2>6. CommandKept
    BY <1>1, <2>3, <2>4, <2>5 DEF CommandKept, In
  <2>7. CASE Left = 3
    <3>1. cc'.state = "FUSION_MANAGE0" /\ Left' = 2 /\ cc'.word = Select
      BY <1>2, <2>1, <2>3, <2>4, <2>7
    <3>2. ReportInv'
      BY <1>1, <1>3, <2>3, <3>1 DEF ReportInv, In
    <3> QED BY <2>2, <2>6, <3>2
  <2>8. CASE Left = 2
    <3>1. /\ cc'.state = "FUSION_MANAGE1" /\ Left' = 1 /\ cc'.word = Result
          /\ cc'.to = Select + 1
      BY <1>2, <2>1, <2>3, <2>4, <2>8
    <3>2. ReportInv'
      BY <1>1, <1>3, <2>3, <3>1 DEF ReportInv, In
    <3> QED BY <2>2, <2>6, <3>2
  <2>9. CASE Left = 1
    <3>1. /\ cc'.state = "FUSION_MANAGE2" /\ Left' = 0 /\ cc'.word = Counters
          /\ cc'.to = Select + 1 /\ cc'.from = Result + 1
      BY <1>2, <2>1, <2>3, <2>4, <2>9
    <3>2. ReportInv'
      BY <1>1, <1>3, <2>3, <3>1 DEF ReportInv, In
    <3> QED BY <2>2, <2>6, <3>2
  <2> QED BY <2>1, <2>7, <2>8, <2>9
<1>7. CASE In("FUSION_MANAGE0") \/ In("FUSION_MANAGE1") \/ In("FUSION_MANAGE2")
  <2>1. FusionManage /\ UNCHANGED <<rx, tx, bus, mem, selected, faults>>
    BY <1>7, Acts DEF FusionManage, OffBus
  <2>2. /\ LinkOK' /\ Spelled' /\ Left' = Left /\ Answers' = 0 /\ Answers = 0
    BY <1>7, <2>1, NoWord DEF ReportInv
  <2>3. bus.state = "ready" /\ bus' = bus
    BY <1>7, <2>1 DEF In
  <2>4. CASE In("FUSION_MANAGE0")
    <3>1. /\ cc' = [cc EXCEPT !.to = cc.word + 1, !.state = "GET_WORD",
                              !.next0 = "FUSION_MANAGE1"]
          /\ cc.word = Select /\ Left = 2
      BY <2>1, <2>4 DEF FusionManage, ReportInv, In
    <3>2. /\ cc' \in CcType /\ cc'.state = "GET_WORD"
          /\ cc'.next0 = "FUSION_MANAGE1" /\ cc'.to = Select + 1
      BY ONLY <1>1, <3>1, cc.word + 1 \in Nat DEF CcType, States
    <3> QED BY <1>1, <1>3, <2>1, <2>2, <2>3, <3>1, <3>2
            DEF CommandKept, ReportInv, In
  <2>5. CASE In("FUSION_MANAGE1")
    <3>1. /\ cc' = [cc EXCEPT !.from = cc.word + 1, !.state = "GET_WORD",
                              !.next0 = "FUSION_MANAGE2"]
          /\ cc.word = Result /\ Left = 1 /\ cc.to = Select + 1
      BY <2>1, <2>5 DEF FusionManage, ReportInv, In
    <3>2. /\ cc' \in CcType /\ cc'.state = "GET_WORD"
          /\ cc'.next0 = "FUSION_MANAGE2" /\ cc'.to = Select + 1
          /\ cc'.from = Result + 1
      BY ONLY <1>1, <3>1, cc.word + 1 \in Nat DEF CcType, States
    <3> QED BY <1>1, <1>3, <2>1, <2>2, <2>3, <3>1, <3>2
            DEF CommandKept, ReportInv, In
  <2>6. CASE In("FUSION_MANAGE2")
    <3>1. /\ cc' = [cc EXCEPT !.words = cc.word, !.counter = 0,
                              !.state = "FUSION_WRITE"]
          /\ cc.word = Counters /\ Left = 0 /\ cc.to = Select + 1
          /\ cc.from = Result + 1
      BY <2>1, <2>6 DEF FusionManage, ReportInv, In
    <3>2. /\ cc' \in CcType /\ cc'.state = "FUSION_WRITE"
          /\ cc'.words = Counters /\ cc'.counter = 0
          /\ cc'.to = Select + 1 /\ cc'.from = Result + 1
      BY <1>1, <3>1 DEF CcType, States
    <3> QED BY <1>1, <1>3, <2>1, <2>2, <2>3, <3>1, <3>2
            DEF CommandKept, ReportInv, In
  <2> QED BY <1>7, <2>4, <2>5, <2>6
<1>8. CASE cc.state \in {"FUSION_WRITE", "FUSION_READ", "WAIT_READY_WRITE",
                         "JTAG_WRITE", "WAIT_READY_READ", "JTAG_READ", "SEND_WORD"}
  <2>1. /\ Left = 0 /\ cc.to = Select + 1 /\ cc.from = Result + 1
        /\ cc.words = Counters /\ Answers <= Counters
    BY <1>8 DEF ReportInv
  <2>2. CASE In("FUSION_WRITE")
    <3>1. FusionWrite /\ UNCHANGED <<rx, tx, bus, mem, selected, faults>>
      BY <2>2, Acts DEF FusionWrite, OffBus
    <3>2. /\ LinkOK' /\ Spelled' /\ Left' = 0 /\ Answers' = Answers
          /\ Incoming' = Incoming /\ cc.counter = Answers
      BY <2>1, <2>2, <3>1, NoWord DEF ReportInv
    <3>3. bus.state = "ready" /\ bus' = bus
      BY <2>2, <3>1 DEF In
    <3>4. CASE Answers = Counters
      <4>1. cc' = [cc EXCEPT !.state = "IDLE"]
        BY <2>1, <3>1, <3>2, <3>4 DEF FusionWrite
      <4>2. cc' \in CcType /\ cc'.state = "IDLE"
        BY <1>1, <4>1 DEF CcType, States
      <4> QED BY <1>1, <1>3, <3>1, <3>2, <3>3, <3>4, <4>2
              DEF CommandKept, ReportInv, In
    <3>5. CASE Answers # Counters
      <4>1. cc' = [cc EXCEPT !.state = "WAIT_READY_WRITE", !.add = cc.to,
                             !.word = cc.counter, !.next1 = "FUSION_READ"]
        BY <2>1, <3>1, <3>2, <3>5 DEF FusionWrite
      <4>2. /\ cc' \in CcType /\ cc'.state = "WAIT_READY_WRITE"
            /\ cc'.add = cc'.to /\ cc'.word = Answers /\ cc'.counter = Answers
            /\ cc'.next1 = "FUSION_READ" /\ cc'.to = cc.to /\ cc'.from = cc.from
            /\ cc'.words = cc.words
        BY <1>1, <3>2, <4>1 DEF CcType, States
      <4>3. Answers < Counters
        BY <1>1, <2>1, <3>5
      <4> QED BY <1>1, <1>3, <2>1, <3>1, <3>2, <3>3, <4>2, <4>3
              DEF CommandKept, ReportInv, In
    <3> QED BY <3>4, <3>5
  <2>3. CASE In("WAIT_READY_WRITE")
    <3>1. /\ bus' = [state |-> "busy", write |-> TRUE, add |-> cc.add - 1,
                     data |-> cc.word]
          /\ cc' = [cc EXCEPT !.state = "JTAG_WRITE"]
          /\ UNCHANGED <<rx, tx, mem, selected, faults>>
      BY <2>3, Acts DEF Request, Goto
    <3>2. /\ LinkOK' /\ Spelled' /\ Left' = 0 /\ Answers' = Answers
          /\ Incoming' = Incoming
      BY <2>1, <3>1, NoWord
    <3>3. /\ cc.counter = Answers /\ Answers < Counters /\ cc.add = cc.to
          /\ cc.word = Answers /\ cc.next1 = "FUSION_READ"
      BY <2>3 DEF ReportInv, In
    <3>4. /\ cc' \in CcType /\ cc'.state = "JTAG_WRITE" /\ cc'.add = cc'.to
          /\ cc'.word = Answers /\ cc'.counter = Answers
          /\ cc'.next1 = "FUSION_READ" /\ cc'.to = cc.to /\ cc'.from = cc.from
          /\ cc'.words = cc.words
      BY <1>1, <3>1, <3>3 DEF CcType, States
    <3>5. /\ bus' \in BusType /\ bus'.state = "busy" /\ bus'.write = TRUE
          /\ bus'.add = Select /\ bus'.data = Answers
      BY <1>1, <2>1, <3>1, <3>3 DEF BusType
    <3> QED BY <1>1, <1>3, <2>1, <3>1, <3>2, <3>3, <3>4, <3>5
            DEF CommandKept, ReportInv, In, Requested
  <2>4. CASE In("JTAG_WRITE")
    <3>1. /\ bus' = [bus EXCEPT !.state = "ready"] /\ bus.state = "done"
          /\ cc' = [cc EXCEPT !.state = cc.next1]
          /\ UNCHANGED <<rx, tx, mem, selected, faults>>
      BY <2>4, Acts DEF JtagWrite, Goto
    <3>2. /\ LinkOK' /\ Spelled' /\ Left' = 0 /\ Answers' = Answers
          /\ Incoming' = Incoming
      BY <2>1, <3>1, NoWord
    <3>3. /\ cc.counter = Answers /\ Answers < Counters
          /\ cc.next1 = "FUSION_READ" /\ selected = Answers
      BY <2>4, <3>1 DEF ReportInv, In
    <3>4. /\ cc' \in CcType /\ cc'.state = "FUSION_READ"
          /\ cc'.counter = Answers /\ cc'.to = cc.to /\ cc'.from = cc.from
          /\ cc'.words = cc.words
      BY <1>1, <3>1, <3>3 DEF CcType, States
    <3>5. bus' \in BusType /\ bus'.state = "ready"
      BY <1>1, <3>1 DEF BusType
    <3> QED BY <1>1, <1>3, <2>1, <3>1, <3>2, <3>3, <3>4, <3>5
            DEF CommandKept, ReportInv, In
  <2>5. CASE In("FUSION_READ")
    <3>1. /\ cc' = [cc EXCEPT !.state = "WAIT_READY_READ", !.add = cc.from,
                              !.next0 = "FUSION_WRITE", !.counter = cc.counter + 1]
          /\ UNCHANGED <<rx, tx, bus, mem, selected, faults>>
      BY <2>5, Acts DEF FusionRead, OffBus
    <3>2. /\ LinkOK' /\ Spelled' /\ Left' = 0 /\ Answers' = Answers
          /\ Incoming' = Incoming
      BY <2>1, <3>1, NoWord
    <3>3. cc.counter = Answers /\ Answers < Counters /\ selected = Answers
      BY <2>5 DEF ReportInv, In
    <3>4. /\ cc' \in CcType /\ cc'.state = "WAIT_READY_READ"
          /\ cc'.counter = Answers + 1 /\ cc'.add = cc'.from
          /\ cc'.next0 = "FUSION_WRITE" /\ cc'.to = cc.to /\ cc'.from = cc.from
          /\ cc'.words = cc.words
      BY ONLY <1>1, <3>1, <3>3, Answers + 1 \in Nat DEF CcType, States
    <3>5. bus.state = "ready" /\ bus' = bus
      BY <2>5, <3>1 DEF In
    <3> QED BY <1>1, <1>3, <2>1, <3>1, <3>2, <3>3, <3>4, <3>5
            DEF CommandKept, ReportInv, In
  <2>6. CASE cc.state \in {"WAIT_READY_READ", "JTAG_READ", "SEND_WORD"}
    <3>0. /\ cc.counter = Answers + 1 /\ Answers < Counters
          /\ cc.next0 = "FUSION_WRITE"
          /\ Answers + 1 \in Nat /\ Answers + 1 <= Counters
      BY <1>1, <2>6 DEF ReportInv
    <3>1. CASE In("WAIT_READY_READ")
      <4>1. /\ bus' = [state |-> "busy", write |-> FALSE, add |-> cc.add - 1,
                       data |-> cc.word]
            /\ cc' = [cc EXCEPT !.state = "JTAG_READ"]
            /\ UNCHANGED <<rx, tx, mem, selected, faults>>
        BY <3>1, Acts DEF Request, Goto
      <4>2. /\ LinkOK' /\ Spelled' /\ Left' = 0 /\ Answers' = Answers
            /\ Incoming' = Incoming
        BY <2>1, <4>1, NoWord
      <4>3. cc.add = Result + 1 /\ selected = Answers
        BY <2>1, <3>1 DEF ReportInv, In
      <4>4. /\ cc' \in CcType /\ cc'.state = "JTAG_READ"
            /\ cc'.counter = cc.counter /\ cc'.next0 = cc.next0
            /\ cc'.to = cc.to /\ cc'.from = cc.from /\ cc'.words = cc.words
            /\ cc.word \in Nat
        BY <1>1, <4>1 DEF CcType, States
      <4>5. /\ bus' \in BusType /\ bus'.state = "busy" /\ bus'.write = FALSE
            /\ bus'.add = Result
        BY <1>1, <4>1, <4>3, <4>4 DEF BusType
      <4> QED BY <1>1, <1>3, <2>1, <3>0, <4>1, <4>2, <4>3, <4>4, <4>5
              DEF CommandKept, ReportInv, In, Requested
    <3>2. CASE In("JTAG_READ")
      <4>1. /\ bus' = [bus EXCEPT !.state = "ready"] /\ bus.state = "done"
            /\ cc' = [cc EXCEPT !.word = bus.data, !.state = "SEND_WORD"]
            /\ UNCHANGED <<rx, tx, mem, selected, faults>>
        BY <3>2, Acts DEF JtagRead
      <4>2. /\ LinkOK' /\ Spelled' /\ Left' = 0 /\ Answers' = Answers
            /\ Incoming' = Incoming
        BY <2>1, <4>1, NoWord
      <4>3. bus.data = Counter(Answers)
        BY <3>2, <4>1 DEF ReportInv, In
      <4>4. /\ bus' \in BusType /\ bus'.state = "ready" /\ bus.data \in Nat
        BY <1>1, <4>1 DEF BusType
      <4>5. /\ cc' \in CcType /\ cc'.state = "SEND_WORD"
            /\ cc'.counter = cc.counter /\ cc'.next0 = cc.next0
            /\ cc'.to = cc.to /\ cc'.from = cc.from /\ cc'.words = cc.words
            /\ cc'.word = Counter(Answers)
        BY <1>1, <4>1, <4>3, <4>4 DEF CcType, States
      <4> QED BY <1>1, <1>3, <2>1, <3>0, <4>1, <4>2, <4>4, <4>5
              DEF CommandKept, ReportInv, In
    <3>3. CASE In("SEND_WORD")
      <4>1. /\ Put(cc.word) /\ cc' = [cc EXCEPT !.state = cc.next0]
            /\ UNCHANGED <<rx, bus, mem, selected, faults>>
        BY <3>3, Acts DEF SendWord, Goto, OffBus
      <4>2. cc.word = Counter(Answers) /\ cc.word \in Nat
        BY <1>1, <3>3 DEF ReportInv, In, CcType
      <4>3. /\ LinkOK' /\ Spelled' /\ Left' = 0 /\ Answers' = Answers + 1
            /\ Incoming'[Answers + 1] = cc.word
            /\ \A j \in 1 .. Answers : Incoming'[j] = Incoming[j]
        BY <2>1, <4>1, <4>2, WordPut
      <4>4. /\ cc' \in CcType /\ cc'.state = "FUSION_WRITE"
            /\ cc'.counter = cc.counter
            /\ cc'.to = cc.to /\ cc'.from = cc.from /\ cc'.words = cc.words
        BY <1>1, <3>0, <4>1 DEF CcType, States
      <4>5. bus.state = "ready" /\ bus' = bus
        BY <3>3, <4>1 DEF In
      <4>6. \A i \in 1 .. Answers' : Incoming'[i] = Counter(i - 1)
        <5>1. ASSUME NEW i \in 1 .. Answers + 1
              PROVE  Incoming'[i] = Counter(i - 1)
          <6>1. CASE i = Answers + 1
            <7>1. i - 1 = Answers
              BY <1>1, <6>1
            <7> QED BY <4>2, <4>3, <6>1, <7>1
          <6>2. CASE i # Answers + 1
            <7>1. i \in 1 .. Answers
              BY <1>1, <6>2
            <7> QED BY <1>3, <4>3, <7>1
          <6> QED BY <6>1, <6>2
        <5> QED BY <4>3, <5>1
      <4> QED BY <1>1, <1>3, <2>1, <3>0, <4>1, <4>3, <4>4, <4>5, <4>6
              DEF CommandKept, ReportInv, In
    <3> QED BY <2>6, <3>1, <3>2, <3>3 DEF In
  <2> QED BY <1>8, <2>2, <2>3, <2>4, <2>5, <2>6 DEF In
<1> QED BY <1>4, <1>5, <1>6, <1>7, <1>8 DEF ReportInv, In

\* A number that the host sends to synchronize comes back, once.
LEMMA SyncStep ==
  ASSUME LinkOK, TypesOK, Spelled, host.at = "sync", host.awaits # 0, SyncInv,
         bus.state = "ready" \/ In("JTAG_READ") \/ In("JTAG_WRITE"),
         Controller, UNCHANGED <<host, out, in, driver>>
  PROVE  CommandKept /\ SyncInv' /\ UNCHANGED <<mem, selected, faults>>
<1>1. /\ cc \in CcType /\ bus \in BusType /\ Left \in Nat /\ Answers \in Nat
      /\ host.sent \in Nat
  BY LinkTypes DEF TypesOK, HostType
<1>2. In("SYNC") /\ host.sent < Exchanges + Extra
  BY DEF SyncInv
<1>3. Sync /\ Take /\ UNCHANGED <<bus, mem, selected, faults>>
  BY <1>2, Acts DEF Sync, OffBus
<1>4. Left = 1 /\ Answers = 0
  <2>1. Left # 0
    BY <1>3, TakeOutcome
  <2> QED BY <2>1 DEF SyncInv
<1>5. Head(rx) = host.sent
  <2>1. Spelt[1] = host.sent
    <3>1. ~Writing /\ ~Reading /\ ~Reporting
      BY DEF Writing, Reading, Reporting
    <3>2. Spelt = [j \in Nat |-> host.sent]
      BY <3>1 DEF Spelt
    <3> QED BY <3>2
  <2> QED BY <1>3, <1>4, <2>1, SpelledTake
<1>6. host.sent # KeySync
  BY <1>1, <1>2, HostAssumption DEF KeySync
<1>7. Put(host.sent + 100) /\ cc' = cc
  BY <1>3, <1>5, <1>6 DEF Sync, Echo
<1>8. /\ rx' \in Seq(Nat) /\ Left' = 0
  BY <1>3, <1>4, TakeOutcome
<1>9. /\ tx' \in Seq(Nat) /\ Answers' = 1
  <2>1. host.sent + 100 \in Nat
    BY <1>1
  <2> QED BY <1>4, <1>7, <2>1, PutOutcome
<1>10. LinkOK' /\ Spelled'
  BY <1>8, <1>9 DEF LinkOK, Spelled
<1>11. bus.state = "ready"
  BY <1>2 DEF In
<1> QED BY <1>1, <1>2, <1>3, <1>7, <1>8, <1>9, <1>10, <1>11
        DEF CommandKept, SyncInv, In

\* Before the synchronization the controller throws away what it gets.
LEMMA PurgeStep ==
  ASSUME LinkOK, TypesOK, host.at = "connect", ConnectInv, bus.state = "ready",
         Fpga
  PROVE  /\ LinkOK' /\ cc' \in CcType /\ ConnectInv'
         /\ UNCHANGED <<bus, mem, selected, faults>>
<1>0. Controller /\ UNCHANGED <<host, out, in, driver>>
  BY DEF Fpga
<1>1. In("RESET_PURGE")
  <2>1. CASE In("SYNC") /\ rx = <<>>
    BY <1>0, <2>1, Acts DEF Sync, Take
  <2> QED BY <2>1 DEF ConnectInv
<1>2. ResetPurge /\ UNCHANGED <<tx, bus, mem, selected, faults>>
  BY <1>0, <1>1, Acts DEF ResetPurge, OffBus
<1>3. /\ rx \in Seq(Nat) /\ cc \in CcType /\ Purge \in Nat /\ cc.purge \in Nat
  BY LinkAssumption DEF LinkOK, TypesOK, CcType
<1>4. /\ rx' \in Seq(Nat) /\ cc' \in CcType /\ lull' \in Nat
      /\ \/ cc'.state = "RESET_PURGE"
         \/ cc'.state = "SYNC" /\ rx' = <<>> /\ ~Coming
      /\ Coming => cc'.purge + lull' >= Purge
  <2>0. /\ lull \in Nat /\ MaxLull \in 0 .. Purge
        /\ Coming => cc.purge + lull >= Purge
        /\ lull' \in Nat
        /\ rx = <<>> /\ Coming => lull < MaxLull /\ lull' = lull + 1
    BY <1>1, HostAssumption DEF ConnectInv, Fpga, Lulled, Coming
  <2>1. CASE Take /\ cc' = [cc EXCEPT !.purge = Purge]
    <3>1. rx' \in Seq(Nat)
      BY <1>3, <2>1, HeadTailProperties DEF Take
    <3>2. cc' \in CcType /\ cc'.state = "RESET_PURGE" /\ cc'.purge = Purge
      BY ONLY <1>1, <1>3, <2>1 DEF CcType, States, In
    <3>3. cc'.purge + lull' >= Purge
      <4>1. Purge \in Nat /\ lull' \in Nat
        BY <1>3, <2>0
      <4>2. \A a, b \in Nat : a + b >= a
        OBVIOUS
      <4> QED BY <3>2, <4>1, <4>2
    <3> QED BY <2>0, <3>1, <3>2, <3>3
  <2>2. CASE rx = <<>> /\ rx' = rx /\ cc.purge # 0
             /\ cc' = [cc EXCEPT !.purge = cc.purge - 1]
    <3>1. cc.purge - 1 \in Nat
      BY <1>3, <2>2
    <3>2. cc' \in CcType /\ cc'.state = "RESET_PURGE" /\ cc'.purge = cc.purge - 1
      BY ONLY <1>1, <1>3, <2>2, <3>1 DEF CcType, States, In
    <3> QED BY <1>3, <2>0, <2>2, <3>2
  <2>3. CASE rx = <<>> /\ rx' = rx /\ cc.purge = 0
             /\ cc' = [cc EXCEPT !.state = "SYNC"]
    <3>1. ~Coming
      BY <1>3, <2>0, <2>3
    <3>2. cc' \in CcType /\ cc'.state = "SYNC"
      BY ONLY <1>1, <1>3, <2>3 DEF CcType, States, In
    <3> QED BY <1>3, <2>0, <2>3, <3>1, <3>2
  <2> QED BY <1>2, <2>1, <2>2, <2>3 DEF ResetPurge
<1>5. Answers' = 0
  <2>1. Incoming' = Incoming /\ Answers' = Answers
    BY <1>0, <1>2, PutsNone
  <2>2. Answers = 0
    <3>1. /\ in = <<>> /\ tx = <<>> /\ driver.state # "transmit"
      BY DEF ConnectInv
    <3>2. ForHost = <<>>
      BY <3>1 DEF ForHost
    <3>3. Len(in) = 0 /\ Len(ForHost) = 0 /\ Len(tx) = 0
      BY <3>1, <3>2
    <3> QED BY <3>3, LinkTypes
  <2> QED BY <2>1, <2>2
<1> QED BY <1>0, <1>2, <1>4, <1>5 DEF ConnectInv, Coming, LinkOK, In

\* Between commands the controller takes no more than the key, or finishes.
LEMMA QuietStep ==
  ASSUME LinkOK, TypesOK, Spelled, host.at # "connect", host.awaits = 0, QuietInv,
         bus.state = "ready" \/ In("JTAG_READ") \/ In("JTAG_WRITE"),
         Controller, UNCHANGED <<host, out, in, driver>>
  PROVE  CommandKept /\ QuietInv' /\ UNCHANGED <<mem, selected, faults>>
<1>1. /\ cc \in CcType /\ bus \in BusType /\ Left \in Nat /\ Answers = 0
      /\ host \in HostType
  BY LinkTypes DEF TypesOK, QuietInv
<1>2. Left = 0 => ~Take
  BY TakeOutcome
<1>3. CASE host.at = "load" /\ In("SYNC") /\ Left = 1
  <2>1. Sync /\ Take
    BY <1>3, Acts DEF Sync
  <2>2. Head(rx) = KeySync
    <3>1. ~Writing /\ ~Reading /\ ~Reporting
      BY DEF Writing, Reading, Reporting
    <3>2. Spelt = [j \in Nat |-> KeySync]
      BY <1>3, <3>1 DEF Spelt
    <3> QED BY <1>3, <2>1, <3>2, SpelledTake
  <2>3. /\ cc' = [cc EXCEPT !.state = "IDLE"]
        /\ UNCHANGED <<tx, bus, mem, selected, faults>>
    BY <2>1, <2>2 DEF Sync, Goto, OffBus
  <2>4. /\ LinkOK' /\ Spelled' /\ Left' = 0 /\ Answers' = 0
    BY <1>3, <2>1, <2>3, WordTaken
  <2>5. cc' \in CcType /\ cc'.state = "IDLE"
    BY <1>1, <2>3 DEF CcType, States
  <2>6. bus.state = "ready" /\ bus' = bus
    BY <1>3, <2>3 DEF In
  <2> QED BY <1>1, <1>3, <2>3, <2>4, <2>5, <2>6 DEF CommandKept, QuietInv, In
<1>4. CASE host.at = "done" /\ In("FUSION_WRITE") /\ cc.counter = cc.words
  <2>1. /\ cc' = [cc EXCEPT !.state = "IDLE"]
        /\ UNCHANGED <<rx, tx, bus, mem, selected, faults>>
    BY <1>4, Acts DEF FusionWrite, OffBus
  <2>2. LinkOK' /\ Spelled' /\ Left' = 0 /\ Answers' = 0
    BY <1>1, <1>4, <2>1, NoWord DEF QuietInv
  <2>3. cc' \in CcType /\ cc'.state = "IDLE"
    BY <1>1, <2>1 DEF CcType, States
  <2>4. bus.state = "ready" /\ bus' = bus
    BY <1>4, <2>1 DEF In
  <2> QED BY <1>1, <1>4, <2>1, <2>2, <2>3, <2>4 DEF CommandKept, QuietInv, In
<1>5. CASE Left = 0 /\ (In("SYNC") \/ In("IDLE"))
  BY <1>2, <1>5, Acts DEF Sync, Idle
<1> QED BY <1>1, <1>3, <1>4, <1>5 DEF QuietInv, HostType, Places

\* The invariant is kept by the controller.
LEMMA ControllerStep ==
  ASSUME SessionInv, Fpga
  PROVE  SessionInv' /\ UNCHANGED <<mem, selected, faults>>
<1>1. /\ LinkOK /\ TypesOK /\ AskedInv /\ PlaceInv /\ CommandInv /\ ReportOK
      /\ bus.state = "ready" \/ In("JTAG_READ") \/ In("JTAG_WRITE")
      /\ Controller /\ UNCHANGED <<host, out, in, driver>>
  BY DEF SessionInv, Fpga, CommandInv
<1>2. AskedInv' /\ PlaceInv' /\ ReportOK'
  BY <1>1 DEF AskedInv, PlaceInv, ReportOK, Size
<1>3. ASSUME UNCHANGED <<mem, selected, faults>>, cc' \in CcType, bus' \in BusType
      PROVE  TypesOK'
  BY <1>1, <1>3 DEF TypesOK
<1>4. CASE host.at = "connect"
  <2>1. ConnectInv
    BY <1>1, <1>4 DEF CommandInv
  <2>2. bus.state = "ready"
    BY <1>1, <2>1 DEF ConnectInv, In
  <2>3. /\ LinkOK' /\ cc' \in CcType /\ ConnectInv'
        /\ UNCHANGED <<bus, mem, selected, faults>>
    BY <1>1, <1>4, <2>1, <2>2, PurgeStep
  <2>4. CommandInv'
    BY <1>1, <1>4, <2>2, <2>3 DEF CommandInv
  <2>5. bus' \in BusType
    BY <1>1, <2>3 DEF TypesOK
  <2> QED BY <1>2, <1>3, <2>3, <2>4, <2>5 DEF SessionInv
<1>5. CASE host.at # "connect"
  <2>0. Spelled
    BY <1>1, <1>5 DEF CommandInv
  <2>1. CommandKept /\ UNCHANGED <<mem, selected, faults>>
        /\ IF host.awaits = 0 THEN QuietInv'
           ELSE IF host.at = "sync" THEN SyncInv'
           ELSE IF Writing THEN WriteInv'
           ELSE IF Reading THEN ReadInv'
           ELSE ReportInv'
    <3>1. CASE host.awaits = 0
      <4>1. QuietInv
        BY <1>1, <1>5, <3>1 DEF CommandInv
      <4> QED BY <1>1, <1>5, <2>0, <3>1, <4>1, QuietStep
    <3>2. CASE host.awaits # 0 /\ host.at = "sync"
      <4>1. SyncInv
        BY <1>1, <1>5, <3>2 DEF CommandInv
      <4> QED BY <1>1, <2>0, <3>2, <4>1, SyncStep
    <3>3. CASE host.awaits # 0 /\ host.at # "sync" /\ Writing
      <4>1. WriteInv
        BY <1>1, <1>5, <3>3 DEF CommandInv
      <4> QED BY <1>1, <2>0, <3>3, <4>1, WriteStep
    <3>4. CASE host.awaits # 0 /\ host.at # "sync" /\ ~Writing /\ Reading
      <4>1. ReadInv
        BY <1>1, <1>5, <3>4 DEF CommandInv
      <4> QED BY <1>1, <2>0, <3>4, <4>1, ReadStep
    <3>5. CASE host.awaits # 0 /\ host.at # "sync" /\ ~Writing /\ ~Reading
      <4>1. ReportInv
        BY <1>1, <1>5, <3>5 DEF CommandInv
      <4>2. Reporting
        BY <1>1, <1>5, <3>5 DEF AskedInv, Writing, Reading, Reporting, TypesOK, HostType, Places
      <4> QED BY <1>1, <2>0, <3>5, <4>1, <4>2, ReportStep
    <3> QED BY <3>1, <3>2, <3>3, <3>4, <3>5
  <2>2. /\ LinkOK' /\ cc' \in CcType /\ bus' \in BusType /\ Spelled'
        /\ (bus.state = "ready" \/ In("JTAG_READ") \/ In("JTAG_WRITE"))'
    BY <2>1 DEF CommandKept
  <2>3. CommandInv'
    BY <1>1, <1>5, <2>1, <2>2, SpeltKept DEF CommandInv
  <2> QED BY <1>2, <1>3, <2>1, <2>2, <2>3 DEF SessionInv
<1> QED BY <1>4, <1>5

\* By the driver, which only moves words.
LEMMA DriverStep ==
  ASSUME SessionInv, Driver
  PROVE  /\ SessionInv' /\ UNCHANGED <<cc, bus, mem, selected, faults, host>>
         /\ Incoming' = Incoming /\ Left' = Left /\ Answers' = Answers
<1>1. /\ LinkOK /\ TypesOK /\ AskedInv /\ PlaceInv /\ CommandInv /\ ReportOK
  BY DEF SessionInv
<1>2. LinkOK' /\ Outgoing' = Outgoing /\ Incoming' = Incoming
  BY <1>1, DriverMoves
<1>3. UNCHANGED <<cc, bus, mem, selected, faults, host>>
  BY DEF Driver, DriverIdle, DriverReceive, DriverTransmit, DriverWriteout, linkVars
<1>4. Left' = Left /\ Answers' = Answers
  BY <1>2 DEF Left, Answers
<1>5. host.at = "connect" => ConnectInv'
  <2>1. ASSUME ConnectInv PROVE ConnectInv'
    <3>0. /\ tx = <<>> /\ in = <<>> /\ driver.state # "transmit"
          /\ driver \in DriverType /\ lull' = lull
      BY <1>1, <2>1 DEF ConnectInv, LinkOK, Driver
    <3>1. /\ in' = <<>> /\ tx' = <<>> /\ driver'.state # "transmit" /\ Coming
      <4>1. CASE DriverIdle
        BY <3>0, <4>1 DEF DriverIdle, Coming
      <4>2. CASE DriverReceive
        BY <3>0, <4>2 DEF DriverReceive, Coming, linkVars, DriverType
      <4>3. CASE DriverWriteout
        BY <3>0, <4>3 DEF DriverWriteout, Coming, DriverType
      <4> QED BY <3>0, <4>1, <4>2, <4>3 DEF Driver, DriverTransmit
    <3> QED BY <1>3, <2>1, <3>0, <3>1 DEF ConnectInv, In
  <2> QED BY <1>1, <2>1 DEF CommandInv
<1>6. /\ First' = First /\ Count' = Count
      /\ Writing' = Writing /\ Reading' = Reading /\ Reporting' = Reporting
  BY <1>3, SpeltKept
<1>7. host.at # "connect" => Spelled'
  BY <1>1, <1>2, <1>3, SpelledSame DEF CommandInv
<1>8. QuietInv => QuietInv'
  BY <1>3, <1>4 DEF QuietInv, In
<1>9. SyncInv => SyncInv'
  BY <1>3, <1>4 DEF SyncInv, In
<1>10. WriteInv => WriteInv'
  BY <1>2, <1>3, <1>4, <1>6 DEF WriteInv, In, Requested
<1>11. ReadInv => ReadInv'
  BY <1>3, <1>4, <1>6 DEF ReadInv, In, Requested
<1>12. ReportInv => ReportInv'
  BY <1>2, <1>3, <1>4 DEF ReportInv, In, Requested
<1>13. CommandInv'
  BY <1>1, <1>3, <1>5, <1>6, <1>7, <1>8, <1>9, <1>10, <1>11, <1>12
     DEF CommandInv, In
<1>14. AskedInv' /\ PlaceInv' /\ ReportOK' /\ TypesOK'
  BY <1>1, <1>3 DEF AskedInv, PlaceInv, ReportOK, Size, TypesOK
<1> QED BY <1>2, <1>3, <1>4, <1>13, <1>14 DEF SessionInv

\* What the memory behind the controller has been asked for.
LEMMA Served ==
  ASSUME SessionInv, bus.state = "busy"
  PROVE  /\ host.at # "connect" /\ host.awaits # 0 /\ host.at # "sync"
         /\ \/ Writing /\ WriteInv /\ In("JTAG_WRITE")
            \/ Reading /\ ~Writing /\ ReadInv /\ In("JTAG_READ")
            \/ Reporting /\ ~Writing /\ ~Reading /\ ReportInv
               /\ (In("JTAG_READ") \/ In("JTAG_WRITE"))
<1>1. /\ TypesOK /\ AskedInv /\ CommandInv
      /\ In("JTAG_READ") \/ In("JTAG_WRITE")
  BY DEF SessionInv, CommandInv
<1>2. host.at # "connect"
  BY <1>1 DEF CommandInv, ConnectInv, In
<1>3. host.awaits # 0
  BY <1>1, <1>2 DEF CommandInv, QuietInv, In, TypesOK, HostType, Places
<1>4. host.at # "sync"
  BY <1>1, <1>2, <1>3 DEF CommandInv, SyncInv, In
<1>5. Writing \/ Reading \/ Reporting
  BY <1>1, <1>2, <1>3, <1>4
     DEF AskedInv, Writing, Reading, Reporting, TypesOK, HostType, Places
<1>6. CASE Writing
  BY <1>1, <1>2, <1>3, <1>4, <1>6 DEF CommandInv, WriteInv, In
<1>7. CASE Reading /\ ~Writing
  BY <1>1, <1>2, <1>3, <1>4, <1>7 DEF CommandInv, ReadInv, In
<1>8. CASE Reporting /\ ~Writing /\ ~Reading
  BY <1>1, <1>2, <1>3, <1>4, <1>8 DEF CommandInv
<1> QED BY <1>2, <1>3, <1>4, <1>5, <1>6, <1>7, <1>8

\* By the memory, which answers with the word, or the counter, of the address.
LEMMA MemoryStep ==
  ASSUME SessionInv, Memory
  PROVE  /\ SessionInv' /\ UNCHANGED <<rx, tx, cc, host, out, in, driver>>
         /\ Incoming' = Incoming /\ Left' = Left /\ Answers' = Answers
<1>1. /\ LinkOK /\ TypesOK /\ AskedInv /\ PlaceInv /\ CommandInv /\ ReportOK
      /\ Serve /\ bus.state = "busy"
      /\ UNCHANGED <<rx, tx, cc, host, out, in, driver>>
  BY DEF SessionInv, Memory, Serve
<1>2. /\ host.at # "connect" /\ host.awaits # 0 /\ host.at # "sync"
      /\ \/ Writing /\ WriteInv /\ In("JTAG_WRITE")
         \/ Reading /\ ~Writing /\ ReadInv /\ In("JTAG_READ")
         \/ Reporting /\ ~Writing /\ ~Reading /\ ReportInv
            /\ (In("JTAG_READ") \/ In("JTAG_WRITE"))
  BY <1>1, Served
<1>3. LinkOK' /\ Spelled' /\ Left' = Left /\ Answers' = Answers /\ Incoming' = Incoming
  BY <1>1, <1>2, NoWord DEF CommandInv
<1>4. /\ First' = First /\ Count' = Count
      /\ Writing' = Writing /\ Reading' = Reading /\ Reporting' = Reporting
  BY <1>1, SpeltKept
<1>5. AskedInv' /\ PlaceInv' /\ ReportOK'
  BY <1>1 DEF AskedInv, PlaceInv, ReportOK, Size
<1>6. /\ cc' \in CcType /\ host' \in HostType /\ bus \in BusType
      /\ mem \in [0 .. Words - 1 -> WordValues] /\ selected \in Nat
      /\ faults \in Nat /\ Words \in Nat /\ WordValues \subseteq Nat
      /\ Left \in Nat /\ Answers \in Nat
      /\ bus.data \in Nat /\ bus.add \in Nat
  BY <1>1, LinkAssumption, LinkTypes DEF TypesOK, BusType
<1>7. CASE Writing
  <2>1. WriteInv /\ In("JTAG_WRITE")
    BY <1>2, <1>7 DEF Writing, Reading, Reporting
  <2>2. First \in Nat /\ Count \in 1 .. 15 /\ First + Count <= Words
    BY <1>1, <1>7, Extent DEF Writing
  <2>3. /\ Left \in 0 .. Count - 1 /\ cc.word = Image[First + Count - Left - 1]
        /\ bus.write = TRUE /\ bus.add = First + Count - Left - 1
        /\ bus.data = cc.word
    BY <2>1 DEF WriteInv, In, Requested
  <2>4. /\ bus.add < Words /\ ~(bus.add >= Words) /\ bus.add \in 0 .. Words - 1
        /\ bus.data \in WordValues
    <3>1. bus.add \in 0 .. Words - 1
      BY <1>6, <2>2, <2>3
    <3>2. Image[bus.add] \in WordValues
      BY <3>1, HostAssumption
    <3> QED BY <1>6, <2>3, <3>1, <3>2
  <2>5. PICK v \in Value(bus.data) :
           /\ mem' = [mem EXCEPT ![bus.add] = v]
           /\ faults' = IF v = bus.data THEN faults ELSE faults + 1
    BY ONLY <1>1, <2>4, <2>3 DEF Serve, WriteMemory, ReadMemory, Peripheral
  <2>6. bus' = [bus EXCEPT !.state = "done"] /\ selected' = selected
    BY ONLY <1>1, <2>4, <2>3 DEF Serve, WriteMemory, ReadMemory, Peripheral
  <2>7. v \in WordValues
    BY <2>4 DEF Value
  <2>8. TypesOK'
    <3>1. faults' \in Nat
      BY <1>6, <2>5
    <3>2. mem' \in [0 .. Words - 1 -> WordValues]
      BY <1>6, <2>4, <2>5, <2>7
    <3> QED BY <1>6, <2>6, <3>1, <3>2 DEF TypesOK, BusType
  <2>9. /\ bus'.write = bus.write /\ bus'.add = bus.add /\ bus'.data = bus.data
        /\ bus'.state = "done"
    BY <1>6, <2>6 DEF BusType
  <2>10. WriteInv'
    BY <1>1, <1>3, <1>4, <2>1, <2>9 DEF WriteInv, In, Requested
  <2> QED BY <1>1, <1>2, <1>3, <1>4, <1>5, <1>7, <2>1, <2>8, <2>10
          DEF SessionInv, CommandInv, In
<1>8. CASE Reading /\ ~Writing
  <2>1. ReadInv /\ In("JTAG_READ")
    BY <1>2, <1>8 DEF Reading, Reporting
  <2>2. First \in Nat /\ Count \in 1 .. 15 /\ First + Count <= Words
    BY <1>1, <1>8, Extent DEF Reading
  <2>3. bus.write = FALSE /\ bus.add = First + Answers /\ Answers < Count
    BY <2>1 DEF ReadInv, In, Requested
  <2>4. /\ bus.add < Words /\ ~(bus.add >= Words) /\ bus.add \in 0 .. Words - 1
        /\ mem[bus.add] \in WordValues
    <3>1. bus.add \in 0 .. Words - 1
      BY <1>6, <2>2, <2>3
    <3> QED BY <1>6, <3>1
  <2>5. PICK v \in Value(mem[bus.add]) :
           /\ bus' = [bus EXCEPT !.state = "done", !.data = v]
           /\ faults' = IF v = mem[bus.add] THEN faults ELSE faults + 1
    BY ONLY <1>1, <2>4, <2>3 DEF Serve, WriteMemory, ReadMemory, Peripheral
  <2>6. mem' = mem /\ selected' = selected
    BY <1>1, <1>6, <2>3, <2>4 DEF Serve, WriteMemory, ReadMemory, Peripheral
  <2>7. v \in Nat
    BY <1>6, <2>4 DEF Value
  <2>8. TypesOK'
    <3>1. faults' \in Nat
      BY <1>6, <2>5
    <3> QED BY <1>6, <2>5, <2>6, <2>7, <3>1 DEF TypesOK, BusType
  <2>9. bus'.write = bus.write /\ bus'.add = bus.add /\ bus'.state = "done"
    BY <1>6, <2>5 DEF BusType
  <2>10. ReadInv'
    BY <1>1, <1>3, <1>4, <2>1, <2>9 DEF ReadInv, In, Requested
  <2> QED BY <1>1, <1>2, <1>3, <1>4, <1>5, <1>8, <2>1, <2>8, <2>10
          DEF SessionInv, CommandInv, In
<1>9. CASE Reporting /\ ~Writing /\ ~Reading
  <2>1. ReportInv /\ (In("JTAG_READ") \/ In("JTAG_WRITE"))
    BY <1>2, <1>9
  <2>2. /\ In("JTAG_WRITE") => bus.write = TRUE /\ bus.add = Select /\ bus.data = Answers
        /\ In("JTAG_READ") => bus.write = FALSE /\ bus.add = Result
                              /\ selected = Answers
    BY <2>1 DEF ReportInv, In, Requested
  <2>3. bus.add >= Words /\ ~(bus.add < Words) /\ Select \in Nat /\ Result \in Nat /\ Select # Result
    BY <1>6, <2>1, <2>2 DEF Select, Result
  <2>4. /\ selected' = IF bus.write /\ bus.add = Select THEN bus.data ELSE selected
        /\ bus' = [bus EXCEPT !.state = "done",
                              !.data = IF bus.write THEN bus.data
                                       ELSE IF bus.add = Result THEN Counter(selected)
                                       ELSE 0]
        /\ UNCHANGED <<mem, faults>>
    BY ONLY <1>1, <2>3 DEF Serve, WriteMemory, ReadMemory, Peripheral
  <2>5. /\ bus' \in BusType /\ bus'.write = bus.write /\ bus'.add = bus.add
        /\ bus'.state = "done" /\ selected' \in Nat /\ selected' = Answers
        /\ In("JTAG_WRITE") => bus'.data = Answers
        /\ In("JTAG_READ") => bus'.data = Counter(Answers)
    <3>0. Counter(selected) \in Nat
      BY <1>6 DEF Counter
    <3>1. CASE In("JTAG_WRITE")
      <4>1. bus' = [bus EXCEPT !.state = "done", !.data = bus.data]
        BY <2>2, <2>4, <3>1
      <4> QED BY <1>6, <2>2, <2>4, <3>1, <4>1 DEF BusType, In
    <3>2. CASE In("JTAG_READ")
      <4>1. bus' = [bus EXCEPT !.state = "done", !.data = Counter(selected)]
        BY <2>2, <2>4, <3>2
      <4> QED BY <1>6, <2>2, <2>4, <3>0, <3>2, <4>1 DEF BusType, In
    <3> QED BY <2>1, <3>1, <3>2
  <2>6. TypesOK'
    BY <1>6, <2>4, <2>5 DEF TypesOK
  <2>7. ReportInv'
    <3>1. In("JTAG_WRITE") => In("JTAG_WRITE")' /\ ~In("JTAG_READ")
      BY <1>1 DEF In
    <3> QED BY <1>1, <1>3, <2>1, <2>2, <2>5 DEF ReportInv, In, Requested
  <2> QED BY <1>1, <1>2, <1>3, <1>4, <1>5, <1>9, <2>1, <2>6, <2>7
          DEF SessionInv, CommandInv, In
<1> QED BY <1>1, <1>2, <1>3, <1>7, <1>8, <1>9

-----------------------------------------------------------------------------
(* The host takes answers and sends commands.                               *)

\* Concatenation of words is associative.
LEMMA Grouped ==
  ASSUME NEW p \in Seq(Nat), NEW q \in Seq(Nat), NEW r \in Seq(Nat)
  PROVE  (p \o q) \o r = p \o (q \o r)
BY ConcatAssociative

\* A step of the host, when nothing is on its way that it has not waited for.
LEMMA HostLink ==
  ASSUME LinkOK, NEW words \in Seq(Nat), NEW new, Step(new, words),
         host.awaits = 0 => Answers = 0,
         host.awaits # 0 => Len(in) = Answers
  PROVE  /\ LinkOK' /\ host' = new
         /\ UNCHANGED <<rx, tx, cc, bus, mem, selected, faults, driver>>
         /\ Outgoing \in Seq(Nat) /\ Outgoing' = Outgoing \o words
         /\ Left' = Left + Len(words) /\ Answers' = 0
         /\ Left = 0 => Outgoing' = words
<1>1. /\ host' = new /\ out' = out \o words
      /\ UNCHANGED <<rx, tx, cc, bus, mem, selected, faults, driver>>
      /\ in' = IF host.awaits = 0 THEN in ELSE <<>>
  BY DEF Step, linkVars
<1>2. /\ rx \in Seq(Nat) /\ out \in Seq(Nat) /\ in \in Seq(Nat) /\ tx \in Seq(Nat)
      /\ driver \in DriverType /\ (driver.state = "receive" => out # <<>>)
  BY DEF LinkOK
<1>3. /\ rx \o ForController \in Seq(Nat) /\ Outgoing \in Seq(Nat)
      /\ Left \in Nat /\ Answers = Len(in) + Len(ForHost) + Len(tx)
      /\ Len(ForHost) \in Nat /\ Len(in) \in Nat /\ Len(tx) \in Nat
  <2>1. /\ ForHost \in Seq(Nat) /\ rx \o ForController \in Seq(Nat)
        /\ Outgoing \in Seq(Nat) /\ Left \in Nat
        /\ Answers = Len(in) + Len(ForHost) + Len(tx)
    BY LinkTypes
  <2>2. Len(ForHost) \in Nat /\ Len(in) \in Nat /\ Len(tx) \in Nat
    BY ONLY <1>2, <2>1, LenProperties
  <2> QED BY ONLY <2>1, <2>2
<1>4. ForController' = ForController /\ ForHost' = ForHost
  BY <1>1 DEF ForController, ForHost
<1>5. Outgoing' = Outgoing \o words
  <2> DEFINE a == rx \o ForController
  <2>1. Outgoing = a \o out /\ Outgoing' = a \o (out \o words)
    BY <1>1, <1>4 DEF Outgoing
  <2>2. a \in Seq(Nat)
    BY <1>3
  <2> HIDE DEF a
  <2>3. (a \o out) \o words = a \o (out \o words)
    BY <1>2, <2>2, Grouped
  <2> QED BY <2>1, <2>3
<1>6. Left' = Left + Len(words) /\ Len(words) \in Nat
  BY <1>3, <1>5, Join DEF Left
<1>7. /\ in' \in Seq(Nat) /\ Len(in') + Len(ForHost) + Len(tx) = 0
  <2>1. CASE host.awaits = 0
    BY <1>1, <1>2, <1>3, <2>1
  <2>2. CASE host.awaits # 0
    <3>1. in' = <<>> /\ Len(in') = 0 /\ Len(ForHost) + Len(tx) = 0
      BY <1>1, <1>3, <2>2
    <3> QED BY <1>3, <3>1
  <2> QED BY <2>1, <2>2
<1>8. Answers' = 0
  <2>1. ForHost \in Seq(Nat) /\ in' \o ForHost \in Seq(Nat)
        /\ Len(in' \o ForHost) = Len(in') + Len(ForHost)
    BY <1>2, <1>7, LinkTypes, Join
  <2>2. Len((in' \o ForHost) \o tx) = Len(in' \o ForHost) + Len(tx)
    BY <1>2, <2>1, Join
  <2>3. Incoming' = (in' \o ForHost) \o tx
    BY <1>1, <1>4 DEF Incoming
  <2> QED BY <1>3, <1>7, <2>1, <2>2, <2>3 DEF Answers
<1>9. out' \in Seq(Nat) /\ (driver.state = "receive" => out' # <<>>)
  <2>1. out' \in Seq(Nat) /\ Len(out') = Len(out) + Len(words)
    BY <1>1, <1>2, Join
  <2>2. out # <<>> => Len(out) > 0 /\ Len(out) \in Nat
    BY <1>2
  <2> QED BY <1>2, <1>6, <2>1, <2>2
<1>10. LinkOK'
  BY <1>1, <1>2, <1>7, <1>8, <1>9 DEF LinkOK
<1>11. Left = 0 => Outgoing' = words
  BY <1>3, <1>5, ConcatEmptySeq DEF Left
<1> QED BY <1>1, <1>3, <1>5, <1>6, <1>8, <1>10, <1>11

\* When the host has what it waits for the command has been carried out.
LEMMA Returned ==
  ASSUME SessionInv, host.awaits # 0, Len(in) = host.awaits
  PROVE  /\ Len(in) = Answers /\ in = Incoming /\ Left = 0 /\ bus.state = "ready"
         /\ host.at = "sync" => In("SYNC") /\ host.sent < Exchanges + Extra
         /\ Writing => In("IDLE") /\ Answers = 1 /\ Head(in) = 0
         /\ Reading => In("IDLE") /\ Answers = Count
         /\ Reporting => /\ In("IDLE") \/ (In("FUSION_WRITE") /\ cc.counter = cc.words)
                         /\ Answers = Counters
                         /\ \A i \in 1 .. Answers : in[i] = Counter(i - 1)
<1>1. /\ LinkOK /\ TypesOK /\ AskedInv /\ PlaceInv /\ CommandInv
      /\ bus.state = "ready" \/ In("JTAG_READ") \/ In("JTAG_WRITE")
      /\ host \in HostType /\ host.awaits \in Nat /\ Counters \in Nat \ {0}
  BY HostAssumption DEF SessionInv, CommandInv, TypesOK, HostType
<1>2. /\ Answers = Len(in) + Len(ForHost) + Len(tx) /\ Left \in Nat /\ Answers \in Nat
      /\ Len(ForHost) \in Nat /\ Len(in) \in Nat /\ Len(tx) \in Nat
      /\ in \in Seq(Nat) /\ tx \in Seq(Nat) /\ ForHost \in Seq(Nat)
      /\ in \o ForHost \in Seq(Nat)
  BY <1>1, LinkTypes DEF LinkOK
<1>3. Answers >= host.awaits /\ Answers # 0
  BY <1>1, <1>2
<1>4. Left = 0
  BY <1>1, <1>3 DEF LinkOK
<1>5. host.at # "connect"
  BY <1>1 DEF AskedInv
<1>6. /\ Answers = host.awaits
      /\ host.at = "sync" => In("SYNC") /\ host.sent < Exchanges + Extra
      /\ Writing => In("IDLE") /\ Answers = 1 /\ Head(Incoming) = 0
      /\ Reading => In("IDLE") /\ Answers = Count
      /\ Reporting => /\ In("IDLE") \/ (In("FUSION_WRITE") /\ cc.counter = cc.words)
                      /\ Answers = Counters
                      /\ \A i \in 1 .. Answers : Incoming[i] = Counter(i - 1)
      /\ bus.state = "ready"
  <2>1. CASE host.at = "sync"
    <3>1. SyncInv
      BY <1>1, <1>5, <2>1 DEF CommandInv
    <3>2. ~Writing /\ ~Reading /\ ~Reporting /\ host.awaits = 1
      BY <1>1, <2>1 DEF Writing, Reading, Reporting, AskedInv
    <3> QED BY <1>1, <1>3, <3>1, <3>2 DEF SyncInv, In
  <2>2. CASE Writing
    <3>1. /\ WriteInv /\ host.at # "sync" /\ ~Reading /\ ~Reporting
          /\ host.awaits = 1
      BY <1>1, <1>5, <2>2 DEF CommandInv, Writing, Reading, Reporting
    <3>2. In("IDLE") /\ Answers = 1 /\ Head(Incoming) = 0
      BY <1>3, <3>1 DEF WriteInv, In
    <3> QED BY <1>1, <3>1, <3>2 DEF In
  <2>3. CASE Reading
    <3>1. /\ ReadInv /\ host.at # "sync" /\ ~Writing /\ ~Reporting
      BY <1>1, <1>5, <2>3 DEF CommandInv, Writing, Reading, Reporting
    <3>2. Count \in Nat /\ host.awaits = Count
      BY <1>1, <3>1 DEF ReadInv
    <3>3. In("IDLE") /\ Answers = Count
      BY <1>2, <1>3, <3>1, <3>2 DEF ReadInv, In
    <3> QED BY <1>1, <3>1, <3>2, <3>3 DEF In
  <2>4. CASE Reporting
    <3>1. /\ ReportInv /\ host.at # "sync" /\ ~Writing /\ ~Reading
      BY <1>1, <1>5, <2>4 DEF CommandInv, Writing, Reading, Reporting
    <3>2. host.awaits = Counters
      BY <3>1 DEF ReportInv
    <3>3. /\ In("IDLE") \/ (In("FUSION_WRITE") /\ cc.counter = cc.words)
          /\ Answers = Counters
      BY <1>1, <1>2, <1>3, <3>1, <3>2 DEF ReportInv, In
    <3> QED BY <1>1, <3>1, <3>2, <3>3 DEF In, ReportInv
  <2> QED BY <1>1, <1>5, <2>1, <2>2, <2>3, <2>4
          DEF AskedInv, Writing, Reading, Reporting, HostType, Places
<1>7. Len(ForHost) = 0 /\ Len(tx) = 0
  BY <1>2, <1>6
<1>8. ForHost = <<>> /\ tx = <<>>
  BY <1>2, <1>7
<1>9. in = Incoming
  BY <1>2, <1>8, ConcatEmptySeq DEF Incoming
<1> QED BY <1>4, <1>6, <1>9

\* The words of a command that writes n words from word f on.
LEMMA WriteWords ==
  ASSUME NEW n \in 1 .. 15, NEW f \in Nat, f + n <= Words,
         NEW sp, sp = [j \in Nat |->
                         IF j <= n THEN Image[f + n - j]
                         ELSE IF j = n + 1 THEN f
                         ELSE IF j = n + 2 THEN Config(n, TRUE, FALSE)
                         ELSE IF j = n + 3 THEN 0 ELSE KeySync]
  PROVE  /\ WriteCommand(f, n) \in Seq(Nat) /\ Len(WriteCommand(f, n)) = n + 3
         /\ \A j \in 1 .. n + 3 : WriteCommand(f, n)[j] = sp[n + 3 - j + 1]
         /\ sp[n + 4] = KeySync
<1> DEFINE c == Config(n, TRUE, FALSE)
           h == <<0, c, f>>
           im == [i \in 1 .. n |-> Image[f + i - 1]]
           s == h \o im
<1>1. c \in Nat
  <2>1. n \in 0 .. 15 /\ TRUE \in BOOLEAN /\ FALSE \in BOOLEAN
    OBVIOUS
  <2> QED BY ONLY <2>1, ConfigFields, Zenon
<1>2. WriteCommand(f, n) = s
  BY DEF WriteCommand
<1> HIDE DEF c
<1>3. /\ h \in Seq(Nat) /\ Len(h) = 3 /\ h[1] = 0 /\ h[2] = c /\ h[3] = f
  BY <1>1
<1>4. im \in Seq(Nat) /\ Len(im) = n /\ \A i \in 1 .. n : im[i] = Image[f + i - 1]
  <2>1. \A i \in 1 .. n : Image[f + i - 1] \in Nat
    <3>1. ASSUME NEW i \in 1 .. n PROVE f + i - 1 \in 0 .. Words - 1
      BY LinkAssumption
    <3> QED BY <3>1, HostAssumption, LinkAssumption
  <2>2. n \in Nat
    OBVIOUS
  <2> QED BY ONLY <2>1, <2>2
<1> HIDE DEF h, im
<1>5. /\ s \in Seq(Nat) /\ Len(s) = n + 3
      /\ s[1] = 0 /\ s[2] = c /\ s[3] = f
      /\ \A i \in 4 .. n + 3 : s[i] = im[i - 3]
  <2>1. /\ h \o im \in Seq(Nat)
        /\ Len(h \o im) = Len(h) + Len(im)
        /\ \A i \in 1 .. Len(h) : (h \o im)[i] = h[i]
        /\ \A i \in Len(h) + 1 .. Len(h) + Len(im) : (h \o im)[i] = im[i - Len(h)]
    BY <1>3, <1>4, Join
  <2>2. /\ \A i \in 1 .. 3 : (h \o im)[i] = h[i]
        /\ \A i \in 4 .. n + 3 : (h \o im)[i] = im[i - 3]
        /\ Len(h \o im) = n + 3
    <3>1. n \in Nat /\ Len(h) = 3 /\ Len(im) = n
      BY <1>3, <1>4
    <3>2. ASSUME NEW i \in 1 .. 3 PROVE (h \o im)[i] = h[i]
      <4>1. i \in 1 .. Len(h)
        BY ONLY <3>1, <3>2
      <4> QED BY <2>1, <4>1
    <3>3. ASSUME NEW i \in 4 .. n + 3 PROVE (h \o im)[i] = im[i - 3]
      <4>1. i \in Len(h) + 1 .. Len(h) + Len(im) /\ i - Len(h) = i - 3
        BY ONLY <3>1, <3>3
      <4> QED BY <2>1, <4>1
    <3>4. Len(h \o im) = n + 3
      BY ONLY <2>1, <3>1
    <3> QED BY <3>2, <3>3, <3>4
  <2>3. (h \o im)[1] = 0 /\ (h \o im)[2] = c /\ (h \o im)[3] = f
    BY ONLY <1>3, <2>2
  <2> QED BY <2>1, <2>2, <2>3
<1> HIDE DEF s
<1>6. \A j \in Nat : sp[j] = IF j <= n THEN Image[f + n - j]
                             ELSE IF j = n + 1 THEN f
                             ELSE IF j = n + 2 THEN c
                             ELSE IF j = n + 3 THEN 0 ELSE KeySync
  BY Zenon DEF c
<1>7. /\ n + 1 \in Nat /\ ~(n + 1 <= n)
      /\ n + 2 \in Nat /\ ~(n + 2 <= n) /\ n + 2 # n + 1
      /\ n + 3 \in Nat /\ ~(n + 3 <= n) /\ n + 3 # n + 1 /\ n + 3 # n + 2
      /\ n + 4 \in Nat /\ ~(n + 4 <= n) /\ n + 4 # n + 1 /\ n + 4 # n + 2
      /\ n + 4 # n + 3
  OBVIOUS
<1>8. sp[n + 1] = f /\ sp[n + 2] = c /\ sp[n + 3] = 0 /\ sp[n + 4] = KeySync
  BY <1>6, <1>7, Zenon
<1>9. ASSUME NEW j \in 1 .. n + 3 PROVE s[j] = sp[n + 3 - j + 1]
  <2>1. CASE j = 1
    <3>1. n + 3 - j + 1 = n + 3
      BY <2>1
    <3> QED BY <1>5, <1>8, <2>1, <3>1
  <2>2. CASE j = 2
    <3>1. n + 3 - j + 1 = n + 2
      BY <2>2
    <3> QED BY <1>5, <1>8, <2>2, <3>1
  <2>3. CASE j = 3
    <3>1. n + 3 - j + 1 = n + 1
      BY <2>3
    <3> QED BY <1>5, <1>8, <2>3, <3>1
  <2>4. CASE j \in 4 .. n + 3
    <3>1. s[j] = im[j - 3] /\ j - 3 \in 1 .. n
      BY ONLY <1>5, <2>4
    <3>2. im[j - 3] = Image[f + (j - 3) - 1]
      BY ONLY <1>4, <3>1
    <3>3. /\ n + 3 - j + 1 \in Nat /\ n + 3 - j + 1 <= n
          /\ f + n - (n + 3 - j + 1) = f + (j - 3) - 1
      BY ONLY <2>4, n \in Nat, f \in Nat
    <3>4. sp[n + 3 - j + 1] = Image[f + n - (n + 3 - j + 1)]
      BY ONLY <1>6, <3>3, Zenon
    <3> QED BY ONLY <3>1, <3>2, <3>3, <3>4
  <2>5. j = 1 \/ j = 2 \/ j = 3 \/ j \in 4 .. n + 3
    OBVIOUS
  <2> QED BY <2>1, <2>2, <2>3, <2>4, <2>5
<1> QED BY <1>2, <1>5, <1>8, <1>9

\* And of one that reads n words.
LEMMA ReadWords ==
  ASSUME NEW n \in 1 .. 15, NEW f \in Nat,
         NEW sp, sp = [j \in Nat |-> IF j = 1 THEN f
                         ELSE IF j = 2 THEN Config(n, FALSE, FALSE) ELSE 0]
  PROVE  /\ ReadCommand(f, n) \in Seq(Nat) /\ Len(ReadCommand(f, n)) = 3
         /\ \A j \in 1 .. 3 : ReadCommand(f, n)[j] = sp[3 - j + 1]
<1> DEFINE c == Config(n, FALSE, FALSE)
<1>1. c \in Nat
  <2>1. n \in 0 .. 15 /\ FALSE \in BOOLEAN
    OBVIOUS
  <2> QED BY ONLY <2>1, ConfigFields, Zenon
<1>2. ReadCommand(f, n) = <<0, c, f>>
  BY DEF ReadCommand
<1>3. sp[3] = 0 /\ sp[2] = c /\ sp[1] = f
  OBVIOUS
<1> HIDE DEF c
<1>4. \A j \in 1 .. 3 : <<0, c, f>>[j] = sp[3 - j + 1]
  <2>1. ASSUME NEW j \in 1 .. 3 PROVE <<0, c, f>>[j] = sp[3 - j + 1]
    <3>1. CASE j = 1
      BY ONLY <1>3, <3>1
    <3>2. CASE j = 2
      BY ONLY <1>3, <3>2
    <3>3. CASE j = 3
      BY ONLY <1>3, <3>3
    <3> QED BY ONLY <3>1, <3>2, <3>3, j \in 1 .. 3
  <2> QED BY ONLY <2>1
<1>5. <<0, c, f>> \in Seq(Nat) /\ Len(<<0, c, f>>) = 3
  BY <1>1
<1> QED BY ONLY <1>2, <1>4, <1>5

\* The first of the bytes that differ.
LEMMA FirstWrong ==
  ASSUME NEW S \in SUBSET Nat, S # {}, NEW k, k = CHOOSE c \in S : \A j \in S : c <= j
  PROVE  k \in S /\ \A j \in S : k <= j
<1> DEFINE Less == {p \in Nat \X Nat : p[1] < p[2]}
<1>1. IsWellFoundedOn(Less, Nat)
  BY NatLessThanWellFounded, Zenon DEF OpToRel
<1> HIDE DEF Less
<1>2. PICK x \in S : \A y \in S : ~ (<<y, x>> \in Less)
  BY <1>1, WFMin, Zenon
<1>3. ASSUME NEW y \in S PROVE x <= y
  <2>1. x \in Nat /\ y \in Nat
    OBVIOUS
  <2>2. y < x => <<y, x>> \in Less
    BY <2>1, Zenon DEF Less
  <2> QED BY <1>2, <2>1, <2>2
<1> QED BY <1>3

\* What a step of the host does to the link, and what it leaves alone.
LEMMA Moved ==
  ASSUME SessionInv, host.at # "connect", NEW words \in Seq(Nat), NEW new,
         Step(new, words), host.awaits = 0 \/ Len(in) = host.awaits
  PROVE  /\ LinkOK' /\ host' = new /\ Answers' = 0 /\ bus.state = "ready"
         /\ UNCHANGED <<cc, bus, mem, selected, faults>>
         /\ Left \in Nat /\ Left' = Left + Len(words)
         /\ Outgoing \in Seq(Nat) /\ Outgoing' = Outgoing \o words
         /\ Left = 0 => Outgoing' = words
         /\ host.awaits = 0 => QuietInv
         /\ host.awaits # 0 => Left = 0
<1>1. /\ LinkOK /\ CommandInv /\ TypesOK /\ Left \in Nat
  BY LinkTypes DEF SessionInv
<1>2. host.awaits = 0 => QuietInv
  BY <1>1 DEF CommandInv
<1>3. host.awaits = 0 => Answers = 0 /\ bus.state = "ready"
  BY <1>1, <1>2 DEF CommandInv, QuietInv, In, TypesOK, HostType, Places
<1>4. host.awaits # 0 => Len(in) = Answers /\ Left = 0 /\ bus.state = "ready"
  BY Returned
<1> QED BY <1>1, <1>2, <1>3, <1>4, HostLink

\* The invariant after a step of the host that sends nothing more to answer.
LEMMA Silent ==
  ASSUME SessionInv, host.at # "connect", NEW words \in Seq(Nat), NEW new,
         Step(new, words), host.awaits = 0 \/ Len(in) = host.awaits,
         new \in HostType, new.awaits = 0,
         new.at \in {"sync", "failed", "load", "verify", "compare", "report", "done"},
         PlaceInv', ReportOK', QuietInv', Spelled'
  PROVE  SessionInv'
<1>1. /\ LinkOK' /\ host' = new /\ bus.state = "ready"
      /\ UNCHANGED <<cc, bus, mem, selected, faults>>
  BY Moved
<1>2. TypesOK
  BY DEF SessionInv
<1> QED BY <1>1, <1>2 DEF SessionInv, TypesOK, AskedInv, CommandInv

\* The connection: the controller has thrown away what was on the link.
LEMMA ConnectStep ==
  ASSUME SessionInv, Connect
  PROVE  SessionInv'
<1>1. /\ host.at = "connect" /\ host.awaits = 0 /\ In("SYNC")
      /\ Step([host EXCEPT !.at = "sync"], <<>>)
      /\ LinkOK /\ TypesOK /\ ConnectInv
      /\ bus.state = "ready"
  BY DEF Connect, At, SessionInv, CommandInv, ConnectInv, In
<1>2. /\ rx = <<>> /\ out = <<>> /\ in = <<>> /\ tx = <<>> /\ driver.state = "idle"
      /\ host.sent = 0 /\ host.add = 0
  BY <1>1 DEF ConnectInv, Coming, In
<1>3. /\ Answers = 0 /\ Left = 0
  <2>1. ForHost = <<>> /\ ForController = <<>>
    BY <1>2 DEF ForHost, ForController
  <2>2. Len(<<>>) = 0
    OBVIOUS
  <2> QED BY <1>1, <1>2, <2>1, <2>2, LinkTypes
<1>4. /\ LinkOK' /\ host' = [host EXCEPT !.at = "sync"]
      /\ UNCHANGED <<cc, bus, mem, selected, faults>>
      /\ Left' = 0 /\ Answers' = 0
  <2>1. <<>> \in Seq(Nat) /\ Len(<<>>) = 0
    OBVIOUS
  <2> DEFINE new == [host EXCEPT !.at = "sync"]
             words == <<>>
  <2>2. Step(new, words) /\ words \in Seq(Nat)
    BY <1>1, <2>1
  <2> HIDE DEF new, words
  <2>3. /\ LinkOK' /\ host' = new
        /\ UNCHANGED <<cc, bus, mem, selected, faults>>
        /\ Left' = Left + Len(words) /\ Answers' = 0
    BY <1>1, <1>3, <2>2, HostLink
  <2> QED BY <1>3, <2>1, <2>3 DEF new, words
<1>5. /\ host' \in HostType /\ host'.at = "sync" /\ host'.awaits = 0 /\ host'.sent = 0
      /\ host'.add = 0 /\ 0 < Words
  <2>1. host \in HostType
    BY <1>1 DEF TypesOK
  <2>2. 0 < Words
    BY LinkAssumption
  <2> QED BY ONLY <1>1, <1>2, <1>4, <2>1, <2>2 DEF HostType, Places
<1>6. QuietInv'
  BY <1>1, <1>4, <1>5, HostAssumption DEF QuietInv, In
<1>7. Spelled'
  BY <1>4 DEF Spelled
<1>8. PlaceInv' /\ ReportOK' /\ AskedInv'
  BY <1>4, <1>5 DEF PlaceInv, ReportOK, AskedInv
<1>9. TypesOK'
  BY <1>1, <1>4, <1>5 DEF TypesOK
<1>10. CommandInv'
  BY <1>1, <1>4, <1>5, <1>6, <1>7 DEF CommandInv
<1> QED BY <1>4, <1>8, <1>9, <1>10 DEF SessionInv

\* Nothing is on its way between commands, but for the key before the first.
LEMMA Between ==
  ASSUME SessionInv, host.at # "connect", host.awaits = 0, host.at # "done"
  PROVE  /\ Answers = 0
         /\ host.at = "sync" => In("SYNC") /\ Left = 0
                                /\ host.sent <= Exchanges + Extra
         /\ host.at = "load" => (In("SYNC") /\ Left = 1) \/ (In("IDLE") /\ Left = 0)
         /\ host.at \in {"verify", "compare", "report"} => In("IDLE") /\ Left = 0
  BY DEF SessionInv, CommandInv, QuietInv

\* The synchronization.
LEMMA SyncSteps ==
  ASSUME SessionInv, SyncSend \/ SyncCheck \/ SyncEnd
  PROVE  SessionInv'
<1>1. /\ LinkOK /\ TypesOK /\ host \in HostType /\ host.sent \in Nat
      /\ host.correct \in Nat /\ host.add \in Nat
      /\ host.add < Words
      /\ host.at = "sync" /\ host.at # "connect"
      /\ Exchanges \in Nat /\ Extra \in Nat
      /\ KeySync \in Nat
  BY HostAssumption
     DEF SessionInv, PlaceInv, TypesOK, HostType, SyncSend, SyncCheck, SyncEnd,
         At, Back, KeySync
<1>2. CASE SyncSend
  <2> DEFINE new == [host EXCEPT !.awaits = 1]
             words == <<host.sent>>
  <2>1. /\ host.awaits = 0 /\ host.sent < Exchanges + Extra /\ Step(new, words)
    BY <1>2 DEF SyncSend, At
  <2>2. words \in Seq(Nat) /\ Len(words) = 1 /\ words[1] = host.sent
    BY <1>1
  <2>3. /\ new \in HostType /\ new.at = "sync" /\ new.awaits = 1
        /\ new.sent = host.sent /\ new.add = host.add
    BY <1>1 DEF HostType
  <2> HIDE DEF new, words
  <2>4. In("SYNC") /\ Left = 0
    BY <1>1, <2>1, Between
  <2>5. /\ LinkOK' /\ host' = new /\ Answers' = 0 /\ bus.state = "ready"
        /\ UNCHANGED <<cc, bus, mem, selected, faults>>
        /\ Left' = 0 + Len(words) /\ Outgoing' = words
    BY <1>1, <2>1, <2>2, <2>4, Moved
  <2>6. Spelled'
    <3>1. ~Writing' /\ ~Reading' /\ ~Reporting'
      BY <2>3, <2>5 DEF Writing, Reading, Reporting
    <3>2. Spelt' = [j \in Nat |-> host.sent]
      BY <2>3, <2>5, <3>1 DEF Spelt
    <3>3. Spelt'[1] = host.sent /\ Left' = 1
      BY <2>2, <2>5, <3>2
    <3> QED BY <2>2, <2>5, <3>3 DEF Spelled
  <2>7. SyncInv'
    BY <2>1, <2>2, <2>3, <2>4, <2>5 DEF SyncInv, In
  <2> QED BY <1>1, <2>3, <2>5, <2>6, <2>7
          DEF SessionInv, TypesOK, AskedInv, PlaceInv, ReportOK, CommandInv
<1>3. CASE SyncCheck
  <2> DEFINE c == IF Head(in) = Echo(host.sent) THEN host.correct + 1 ELSE 0
             new == [host EXCEPT !.awaits = 0, !.sent = host.sent + 1, !.correct = c]
             words == <<>>
  <2>1. host.awaits # 0 /\ Len(in) = host.awaits /\ Step(new, words)
    BY <1>3 DEF SyncCheck, Back
  <2>2. words \in Seq(Nat) /\ Len(words) = 0 /\ c \in Nat /\ host.sent + 1 \in Nat
    BY <1>1
  <2> HIDE DEF c
  <2>3. /\ new \in HostType /\ new.at = "sync" /\ new.awaits = 0
        /\ new.sent = host.sent + 1 /\ new.add = host.add
    BY <1>1, <2>2 DEF HostType
  <2> HIDE DEF new, words
  <2>4. In("SYNC") /\ Left = 0 /\ host.sent < Exchanges + Extra
    BY <1>1, <2>1, Returned
  <2>5. /\ LinkOK' /\ host' = new /\ Answers' = 0
        /\ UNCHANGED <<cc, bus, mem, selected, faults>>
        /\ Left' = 0 + Len(words)
    BY <1>1, <2>1, <2>2, <2>4, Moved
  <2>6. QuietInv' /\ Spelled'
    <3>1. host.sent + 1 <= Exchanges + Extra /\ Left' = 0
      BY <1>1, <2>2, <2>4, <2>5
    <3> QED BY <2>3, <2>4, <2>5, <3>1 DEF QuietInv, In, Spelled
  <2>7. PlaceInv' /\ ReportOK'
    BY <1>1, <2>3, <2>5 DEF PlaceInv, ReportOK
  <2> QED BY <1>1, <2>1, <2>2, <2>3, <2>6, <2>7, Silent
<1>4. CASE SyncEnd
  <2>1. host.awaits = 0 /\ In("SYNC") /\ Left = 0
    BY <1>1, <1>4, Between DEF SyncEnd, At
  <2>2. CASE host.correct < Exchanges
    <3> DEFINE new == [host EXCEPT !.at = "failed"]
               words == <<>>
    <3>1. Step(new, words)
      BY <1>4, <2>2 DEF SyncEnd
    <3>2. words \in Seq(Nat) /\ Len(words) = 0
      OBVIOUS
    <3>3. new \in HostType /\ new.at = "failed" /\ new.awaits = 0
      BY <1>1, <2>1 DEF HostType, Places
    <3> HIDE DEF new, words
    <3>4. /\ LinkOK' /\ host' = new /\ Answers' = 0
          /\ UNCHANGED <<cc, bus, mem, selected, faults>>
          /\ Left' = 0 + Len(words)
      BY <1>1, <2>1, <3>1, <3>2, Moved
    <3>5. QuietInv' /\ Spelled'
      BY <2>1, <3>2, <3>3, <3>4 DEF QuietInv, In, Spelled
    <3>6. PlaceInv' /\ ReportOK'
      BY <3>3, <3>4 DEF PlaceInv, ReportOK
    <3> QED BY <1>1, <2>1, <3>1, <3>2, <3>3, <3>5, <3>6, Silent
  <2>3. CASE ~(host.correct < Exchanges)
    <3> DEFINE new == [host EXCEPT !.at = "load"]
               words == <<KeySync>>
    <3>1. Step(new, words)
      BY <1>4, <2>3 DEF SyncEnd
    <3>2. words \in Seq(Nat) /\ Len(words) = 1 /\ words[1] = KeySync
      BY <1>1
    <3>3. /\ new \in HostType /\ new.at = "load" /\ new.awaits = 0
          /\ new.add = host.add
      BY <1>1, <2>1 DEF HostType, Places
    <3> HIDE DEF new, words
    <3>4. /\ LinkOK' /\ host' = new /\ Answers' = 0
          /\ UNCHANGED <<cc, bus, mem, selected, faults>>
          /\ Left' = 0 + Len(words) /\ Outgoing' = words
      BY <1>1, <2>1, <3>1, <3>2, Moved
    <3>5. Spelled'
      <4>1. ~Writing' /\ ~Reading' /\ ~Reporting'
        BY <3>3, <3>4 DEF Writing, Reading, Reporting
      <4>2. Spelt' = [j \in Nat |-> KeySync]
        BY <3>3, <3>4, <4>1 DEF Spelt
      <4>3. Spelt'[1] = KeySync /\ Left' = 1
        BY <3>2, <3>4, <4>2
      <4> QED BY <3>2, <3>4, <4>3 DEF Spelled
    <3>6. QuietInv'
      BY <2>1, <3>2, <3>3, <3>4 DEF QuietInv, In
    <3>7. PlaceInv' /\ ReportOK'
      BY <1>1, <3>3, <3>4 DEF PlaceInv, ReportOK
    <3> QED BY <1>1, <2>1, <3>1, <3>2, <3>3, <3>5, <3>6, <3>7, Silent
  <2> QED BY <2>2, <2>3
<1> QED BY <1>2, <1>3, <1>4

\* On to the next packet: it begins within memory.
LEMMA OnwardPlace ==
  ASSUME Size \in 1 .. 15, NEW new \in HostType, new.add < Words,
         NEW after \in Places
  PROVE  /\ Onward(new, after) \in HostType
         /\ Onward(new, after).awaits = new.awaits
         /\ Onward(new, after).sent = new.sent
         /\ Onward(new, after).report = new.report
         /\ \/ /\ new.add + Size < Words
               /\ Onward(new, after).at = new.at
               /\ Onward(new, after).add = new.add + Size
            \/ /\ ~(new.add + Size < Words)
               /\ Onward(new, after).at = after
               /\ Onward(new, after).add = 0
         /\ Onward(new, after).add < Words
<1>1. new.add \in Nat /\ 0 < Words /\ new.add + Size \in Nat
  BY LinkAssumption DEF HostType
<1>2. CASE new.add + Size < Words
  <2>1. Onward(new, after) = [new EXCEPT !.add = new.add + Size]
    BY <1>2 DEF Onward
  <2> QED BY <1>1, <1>2, <2>1 DEF HostType
<1>3. CASE ~(new.add + Size < Words)
  <2>1. Onward(new, after) = [new EXCEPT !.add = 0, !.at = after]
    BY <1>3 DEF Onward
  <2>2. new \in HostType /\ after \in Places /\ 0 \in Nat
    OBVIOUS
  <2> QED BY ONLY <1>1, <1>3, <2>1, <2>2 DEF HostType
<1> QED BY <1>2, <1>3

\* The invariant after a command that writes has been sent.
LEMMA WriteSent ==
  ASSUME SessionInv, host.at # "connect", host.awaits = 0 \/ Len(in) = host.awaits,
         NEW new \in HostType, NEW n \in 1 .. 15, NEW f \in Nat, f + n <= Words,
         Step(new, WriteCommand(f, n)),
         new.at \in {"load", "rewrite"}, new.awaits = 1, PlaceInv',
         Count' = n, First' = f,
         \/ In("IDLE") /\ Left = 0
         \/ In("SYNC") /\ Left = 1 /\ Outgoing[1] = KeySync
  PROVE  SessionInv'
<1> DEFINE words == WriteCommand(f, n)
<1>1. /\ words \in Seq(Nat) /\ Len(words) = n + 3
  <2>1. PICK sp : sp = [j \in Nat |->
                         IF j <= n THEN Image[f + n - j]
                         ELSE IF j = n + 1 THEN f
                         ELSE IF j = n + 2 THEN Config(n, TRUE, FALSE)
                         ELSE IF j = n + 3 THEN 0 ELSE KeySync]
    OBVIOUS
  <2> QED BY <2>1, WriteWords
<1> DEFINE q == Outgoing
<1>2. /\ LinkOK' /\ host' = new /\ Answers' = 0 /\ bus.state = "ready"
      /\ UNCHANGED <<cc, bus, mem, selected, faults>>
      /\ Left \in Nat /\ Left' = Left + (n + 3) /\ q \in Seq(Nat)
      /\ Outgoing' = q \o words /\ (Left = 0 => Outgoing' = words)
  <2>1. Step(new, words)
    OBVIOUS
  <2> HIDE DEF words
  <2> QED BY <1>1, <2>1, Moved
<1>3. /\ Writing' /\ ~Reading' /\ ~Reporting' /\ n \in Nat
  BY <1>2 DEF Writing, Reading, Reporting
<1>4. Spelt' = [j \in Nat |->
                  IF j <= n THEN Image[f + n - j]
                  ELSE IF j = n + 1 THEN f
                  ELSE IF j = n + 2 THEN Config(n, TRUE, FALSE)
                  ELSE IF j = n + 3 THEN 0 ELSE KeySync]
  BY <1>3 DEF Spelt
<1>5. /\ \A j \in 1 .. n + 3 : words[j] = Spelt'[n + 3 - j + 1]
      /\ Spelt'[n + 4] = KeySync
  <2>1. \A sp : sp = [j \in Nat |->
                         IF j <= n THEN Image[f + n - j]
                         ELSE IF j = n + 1 THEN f
                         ELSE IF j = n + 2 THEN Config(n, TRUE, FALSE)
                         ELSE IF j = n + 3 THEN 0 ELSE KeySync] =>
           /\ \A j \in 1 .. n + 3 : WriteCommand(f, n)[j] = sp[n + 3 - j + 1]
           /\ sp[n + 4] = KeySync
    BY WriteWords
  <2> QED BY <1>4, <2>1
<1> HIDE DEF words
<1>6. CASE In("IDLE") /\ Left = 0
  <2>1. Left' = n + 3 /\ Outgoing' = words
    BY <1>2, <1>3, <1>6
  <2>2. Spelled'
    BY <1>5, <2>1 DEF Spelled
  <2>3. WriteInv'
    BY <1>2, <1>6, <2>1 DEF WriteInv, In
  <2>4. TypesOK' /\ AskedInv' /\ ReportOK'
    BY <1>2 DEF SessionInv, TypesOK, AskedInv, ReportOK
  <2>5. CommandInv'
    BY <1>2, <1>3, <2>2, <2>3 DEF CommandInv
  <2> QED BY <1>2, <2>4, <2>5 DEF SessionInv
<1>7. CASE In("SYNC") /\ Left = 1 /\ Outgoing[1] = KeySync
  <2>1. Left' = n + 4
    BY <1>2, <1>3, <1>7
  <2>2. /\ Outgoing'[1] = KeySync
        /\ \A j \in 2 .. n + 4 : Outgoing'[j] = words[j - 1]
    <3>1. Len(q) = 1 /\ q[1] = KeySync
      BY <1>7 DEF Left
    <3> HIDE DEF q
    <3>2. /\ \A i \in 1 .. Len(q) : (q \o words)[i] = q[i]
          /\ \A i \in Len(q) + 1 .. Len(q) + Len(words) :
                (q \o words)[i] = words[i - Len(q)]
      <4>1. q \in Seq(Nat) /\ words \in Seq(Nat)
        BY <1>1, <1>2
      <4>2. \A s, t \in Seq(Nat) :
               /\ \A i \in 1 .. Len(s) : (s \o t)[i] = s[i]
               /\ \A i \in Len(s) + 1 .. Len(s) + Len(t) : (s \o t)[i] = t[i - Len(s)]
        BY Join
      <4> QED BY ONLY <4>1, <4>2, Zenon
    <3>3. (q \o words)[1] = KeySync
      <4>1. 1 \in 1 .. Len(q)
        BY ONLY <3>1
      <4> QED BY ONLY <3>1, <3>2, <4>1, Zenon
    <3>4. ASSUME NEW j \in 2 .. n + 4 PROVE (q \o words)[j] = words[j - 1]
      <4>1. j \in Len(q) + 1 .. Len(q) + Len(words) /\ j - Len(q) = j - 1
        BY <1>1, <1>3, <3>1
      <4> QED BY <3>2, <4>1
    <3> QED BY <1>2, <3>3, <3>4
  <2>3. ASSUME NEW j \in 1 .. n + 4 PROVE Outgoing'[j] = Spelt'[n + 4 - j + 1]
    <3>1. CASE j = 1
      <4>1. n + 4 - j + 1 = n + 4
        BY <1>3, <3>1
      <4> QED BY <1>5, <2>2, <3>1, <4>1
    <3>2. CASE j # 1
      <4>1. /\ j \in 2 .. n + 4 /\ j - 1 \in 1 .. n + 3
            /\ n + 3 - (j - 1) + 1 = n + 4 - j + 1
        BY <1>3, <3>2
      <4>2. words[j - 1] = Spelt'[n + 3 - (j - 1) + 1]
        BY <1>5, <4>1
      <4> QED BY <2>2, <4>1, <4>2
    <3> QED BY <3>1, <3>2
  <2>4. Spelled'
    BY <2>1, <2>3 DEF Spelled
  <2>5. WriteInv'
    BY <1>2, <1>7, <2>1 DEF WriteInv, In
  <2>6. TypesOK' /\ AskedInv' /\ ReportOK'
    BY <1>2 DEF SessionInv, TypesOK, AskedInv, ReportOK
  <2>7. CommandInv'
    BY <1>2, <1>3, <2>4, <2>5 DEF CommandInv
  <2> QED BY <1>2, <2>6, <2>7 DEF SessionInv
<1> QED BY <1>6, <1>7

\* And after one that reads.
LEMMA ReadSent ==
  ASSUME SessionInv, host.at # "connect", host.awaits = 0 \/ Len(in) = host.awaits,
         NEW new \in HostType, NEW n \in 1 .. 15, NEW f \in Nat,
         Step(new, ReadCommand(f, n)),
         new.at \in {"verify", "reread"}, new.awaits = n,
         new.at = "reread" => n = 1, PlaceInv',
         Count' = n, First' = f, In("IDLE"), Left = 0
  PROVE  SessionInv'
<1> DEFINE words == ReadCommand(f, n)
<1>1. /\ words \in Seq(Nat) /\ Len(words) = 3
  <2>1. PICK sp : sp = [j \in Nat |-> IF j = 1 THEN f
                         ELSE IF j = 2 THEN Config(n, FALSE, FALSE) ELSE 0]
    OBVIOUS
  <2> QED BY <2>1, ReadWords
<1>2. /\ LinkOK' /\ host' = new /\ Answers' = 0 /\ bus.state = "ready"
      /\ UNCHANGED <<cc, bus, mem, selected, faults>>
      /\ Left' = 3 /\ Outgoing' = words
  <2>1. Step(new, words)
    OBVIOUS
  <2> HIDE DEF words
  <2>2. /\ LinkOK' /\ host' = new /\ Answers' = 0 /\ bus.state = "ready"
        /\ UNCHANGED <<cc, bus, mem, selected, faults>>
        /\ Left' = Left + Len(words) /\ (Left = 0 => Outgoing' = words)
    BY <1>1, <2>1, Moved
  <2> QED BY <1>1, <2>2
<1>3. /\ ~Writing' /\ Reading' /\ ~Reporting' /\ n \in Nat /\ n # 0
  BY <1>2 DEF Writing, Reading, Reporting
<1>4. Spelt' = [j \in Nat |-> IF j = 1 THEN f
                  ELSE IF j = 2 THEN Config(n, FALSE, FALSE) ELSE 0]
  BY <1>3 DEF Spelt
<1>5. \A j \in 1 .. 3 : words[j] = Spelt'[3 - j + 1]
  <2>1. \A sp : sp = [j \in Nat |-> IF j = 1 THEN f
                         ELSE IF j = 2 THEN Config(n, FALSE, FALSE) ELSE 0] =>
           \A j \in 1 .. 3 : ReadCommand(f, n)[j] = sp[3 - j + 1]
    BY ReadWords
  <2> QED BY <1>4, <2>1
<1> HIDE DEF words
<1>6. Spelled'
  BY <1>2, <1>5 DEF Spelled
<1>7. ReadInv'
  BY <1>2 DEF ReadInv, In
<1>8. TypesOK' /\ AskedInv' /\ ReportOK'
  BY <1>2 DEF SessionInv, TypesOK, AskedInv, ReportOK
<1>9. CommandInv'
  BY <1>2, <1>3, <1>6, <1>7 DEF CommandInv
<1> QED BY <1>2, <1>8, <1>9 DEF SessionInv

\* The packets are sent, each with an answer.
LEMMA LoadSteps ==
  ASSUME SessionInv, Load \/ LoadCheck
  PROVE  SessionInv'
<1>1. /\ LinkOK /\ TypesOK /\ PlaceInv /\ host \in HostType
      /\ host.at = "load" /\ host.at # "connect"
      /\ host.add \in Nat /\ host.add < Words
      /\ Size \in 1 .. 15 /\ host.add + Size <= Words
  <2>1. host.at = "load" /\ TypesOK /\ PlaceInv /\ LinkOK
    BY DEF SessionInv, Load, LoadCheck, At, Back
  <2> QED BY <2>1, Extent DEF TypesOK, PlaceInv, HostType
<1>2. CASE Load
  <2> DEFINE new == [host EXCEPT !.awaits = 1]
  <2>1. host.awaits = 0 /\ Step(new, WriteCommand(host.add, Size))
    BY <1>2 DEF Load, At
  <2>2. /\ new \in HostType /\ new.at = "load" /\ new.awaits = 1
        /\ new.add = host.add
    BY <1>1 DEF HostType
  <2> HIDE DEF new
  <2>3. host' = new
    BY <2>1 DEF Step
  <2>4. Count' = Size /\ First' = host.add /\ PlaceInv'
    BY <1>1, <2>2, <2>3 DEF Count, First, Size, PlaceInv
  <2>5. \/ In("IDLE") /\ Left = 0
        \/ In("SYNC") /\ Left = 1 /\ Outgoing[1] = KeySync
    <3>1. (In("SYNC") /\ Left = 1) \/ (In("IDLE") /\ Left = 0)
      BY <1>1, <2>1, Between
    <3>2. Left = 1 => Outgoing[1] = KeySync
      <4>1. Spelled
        BY <1>1 DEF SessionInv, CommandInv
      <4>2. ~Writing /\ ~Reading /\ ~Reporting
        BY <2>1 DEF Writing, Reading, Reporting
      <4>3. Spelt[1] = KeySync
        <5>1. Spelt = [j \in Nat |-> KeySync]
          BY <1>1, <4>2 DEF Spelt
        <5> QED BY <5>1
      <4> QED BY <4>1, <4>3 DEF Spelled
    <3> QED BY <3>1, <3>2
  <2>6. host.awaits = 0 \/ Len(in) = host.awaits
    BY <2>1
  <2> QED BY <1>1, <2>1, <2>2, <2>4, <2>5, <2>6, WriteSent
<1>3. CASE LoadCheck
  <2>0. host.awaits # 0 /\ Len(in) = host.awaits
    BY <1>3 DEF LoadCheck, Back
  <2>1. Writing /\ In("IDLE") /\ Left = 0
    <3>1. Writing
      BY <1>1, <2>0 DEF SessionInv, AskedInv, Writing
    <3> QED BY <2>0, <3>1, Returned
  <2> DEFINE quiet == [host EXCEPT !.awaits = 0]
             failed == [host EXCEPT !.awaits = 0, !.at = "failed"]
             words == <<>>
  <2>2. PICK new \in {failed, Onward(quiet, "verify")} : Step(new, words)
    BY <1>3 DEF LoadCheck
  <2>3. /\ failed \in HostType /\ failed.awaits = 0 /\ failed.at = "failed"
        /\ failed.report = host.report
    BY <1>1 DEF HostType, Places
  <2>4. /\ quiet \in HostType /\ quiet.awaits = 0 /\ quiet.at = "load"
        /\ quiet.add = host.add
    BY <1>1 DEF HostType
  <2>5. words \in Seq(Nat) /\ Len(words) = 0
    OBVIOUS
  <2> HIDE DEF failed, quiet, words
  <2>6. /\ new \in HostType /\ new.awaits = 0
        /\ new.at \in {"failed", "load", "verify"}
        /\ new.at # "failed" => new.add < Words
    <3>1. "verify" \in Places
      BY DEF Places
    <3>2. /\ Onward(quiet, "verify") \in HostType
          /\ Onward(quiet, "verify").awaits = 0
          /\ Onward(quiet, "verify").at \in {"load", "verify"}
          /\ Onward(quiet, "verify").add < Words
      BY <1>1, <2>4, <3>1, OnwardPlace
    <3> QED BY <2>3, <3>2
  <2>7. /\ LinkOK' /\ host' = new /\ Answers' = 0
        /\ UNCHANGED <<cc, bus, mem, selected, faults>>
        /\ Left' = 0 + Len(words)
    BY <1>1, <2>0, <2>1, <2>2, <2>5, Moved
  <2>8. PlaceInv' /\ ReportOK'
    BY <2>6, <2>7 DEF PlaceInv, ReportOK
  <2>9. QuietInv' /\ Spelled'
    BY <2>1, <2>5, <2>6, <2>7 DEF QuietInv, In, Spelled
  <2> QED BY <1>1, <2>0, <2>2, <2>5, <2>6, <2>8, <2>9, Silent
<1> QED BY <1>2, <1>3

\* The packets are read back.
LEMMA VerifySteps ==
  ASSUME SessionInv, Verify \/ VerifyCheck
  PROVE  SessionInv'
<1>1. /\ LinkOK /\ TypesOK /\ PlaceInv /\ host \in HostType
      /\ host.at = "verify" /\ host.at # "connect"
      /\ host.add \in Nat /\ host.add < Words
      /\ Size \in 1 .. 15 /\ host.add + Size <= Words
  <2>1. host.at = "verify" /\ TypesOK /\ PlaceInv /\ LinkOK
    BY DEF SessionInv, Verify, VerifyCheck, At, Back
  <2> QED BY <2>1, Extent DEF TypesOK, PlaceInv, HostType
<1>2. CASE Verify
  <2> DEFINE new == [host EXCEPT !.awaits = Size]
  <2>1. host.awaits = 0 /\ Step(new, ReadCommand(host.add, Size))
    BY <1>2 DEF Verify, At
  <2>2. /\ new \in HostType /\ new.at = "verify" /\ new.awaits = Size
        /\ new.add = host.add
    <3>1. Size \in Nat
      BY <1>1
    <3> QED BY <1>1, <3>1 DEF HostType
  <2> HIDE DEF new
  <2>3. host' = new
    BY <2>1 DEF Step
  <2>4. Count' = Size /\ First' = host.add /\ PlaceInv'
    BY <1>1, <2>2, <2>3 DEF Count, First, Size, PlaceInv
  <2>5. In("IDLE") /\ Left = 0
    BY <1>1, <2>1, Between
  <2>6. host.awaits = 0 \/ Len(in) = host.awaits
    BY <2>1
  <2>7. new.at = "reread" => Size = 1
    BY <2>2
  <2> QED BY <1>1, <2>1, <2>2, <2>4, <2>5, <2>6, <2>7, ReadSent
<1>3. CASE VerifyCheck
  <2>0. host.awaits # 0 /\ Len(in) = host.awaits
    BY <1>3 DEF VerifyCheck, Back
  <2>1. Reading /\ In("IDLE") /\ Left = 0 /\ Len(in) = Count
    <3>1. Reading
      BY <1>1, <2>0 DEF Reading
    <3> QED BY <2>0, <3>1, Returned
  <2> DEFINE new == [host EXCEPT !.at = "compare", !.awaits = 0, !.verify = in,
                                 !.byte = 0, !.tries = 0]
             words == <<>>
  <2>2. Step(new, words)
    BY <1>3 DEF VerifyCheck
  <2>3. /\ new \in HostType /\ new.awaits = 0 /\ new.at = "compare"
        /\ new.add = host.add /\ new.verify = in
    BY <1>1 DEF HostType, Places, LinkOK
  <2>5. words \in Seq(Nat) /\ Len(words) = 0
    OBVIOUS
  <2> HIDE DEF new, words
  <2>7. /\ LinkOK' /\ host' = new /\ Answers' = 0
        /\ UNCHANGED <<cc, bus, mem, selected, faults>>
        /\ Left' = 0 + Len(words)
    BY <1>1, <2>0, <2>1, <2>2, <2>5, Moved
  <2>8. PlaceInv' /\ ReportOK'
    <3>1. Len(in) = Size /\ Size' = Size
      BY <1>1, <2>1, <2>3, <2>7 DEF Count, Size
    <3> QED BY <1>1, <2>3, <2>7, <3>1 DEF PlaceInv, ReportOK
  <2>9. QuietInv' /\ Spelled'
    BY <2>1, <2>3, <2>5, <2>7 DEF QuietInv, In, Spelled
  <2> QED BY <1>1, <2>0, <2>2, <2>3, <2>5, <2>8, <2>9, Silent
<1> QED BY <1>2, <1>3

\* The bytes are compared, and a word that differs is written again.
LEMMA CompareStep ==
  ASSUME SessionInv, Compare
  PROVE  SessionInv'
<1>1. /\ LinkOK /\ TypesOK /\ PlaceInv /\ host \in HostType
      /\ host.at = "compare" /\ host.at # "connect" /\ host.awaits = 0
      /\ host.add \in Nat /\ host.add < Words /\ host.byte \in Nat
      /\ host.tries \in Nat /\ Len(host.verify) = Size
      /\ Size \in 1 .. 15 /\ host.add + Size <= Words
      /\ WordBytes \in Nat \ {0}
  <2>1. host.at = "compare" /\ host.awaits = 0 /\ TypesOK /\ PlaceInv /\ LinkOK
    BY DEF SessionInv, Compare, At
  <2>2. /\ host.add \in Nat /\ host.add < Words /\ host.byte \in Nat
        /\ host.tries \in Nat /\ Len(host.verify) = Size
        /\ WordBytes \in Nat \ {0}
    BY <2>1, HostAssumption DEF TypesOK, PlaceInv, HostType
  <2>3. Size \in 1 .. 15 /\ host.add + Size <= Words
    BY <2>2, PacketSize
  <2> QED BY <2>1, <2>2, <2>3 DEF TypesOK
<1>2. In("IDLE") /\ Left = 0
  BY <1>1, Between
<1>3. CASE Wrong = {}
  <2> DEFINE turn == [host EXCEPT !.at = "verify"]
             new == Onward(turn, "report")
             words == <<>>
  <2>1. Step(new, words)
    BY <1>3 DEF Compare
  <2>2. /\ turn \in HostType /\ turn.at = "verify" /\ turn.awaits = 0
        /\ turn.add = host.add
    BY <1>1 DEF HostType, Places
  <2>3. words \in Seq(Nat) /\ Len(words) = 0 /\ "report" \in Places
    BY DEF Places
  <2> HIDE DEF turn, words
  <2>4. /\ new \in HostType /\ new.awaits = 0 /\ new.at \in {"verify", "report"}
        /\ new.add < Words
    BY <1>1, <2>2, <2>3, OnwardPlace
  <2> HIDE DEF new
  <2>5. /\ LinkOK' /\ host' = new /\ Answers' = 0
        /\ UNCHANGED <<cc, bus, mem, selected, faults>>
        /\ Left' = 0 + Len(words)
    BY <1>1, <1>2, <2>1, <2>3, Moved
  <2>6. PlaceInv' /\ ReportOK'
    BY <2>4, <2>5 DEF PlaceInv, ReportOK
  <2>7. QuietInv' /\ Spelled'
    BY <1>2, <2>3, <2>4, <2>5 DEF QuietInv, In, Spelled
  <2> QED BY <1>1, <2>1, <2>3, <2>4, <2>6, <2>7, Silent
<1>4. CASE Wrong # {}
  <2>1. PICK k : /\ k = CHOOSE c \in Wrong : \A j \in Wrong : c <= j
                 /\ Step([host EXCEPT !.at = "rewrite", !.awaits = 1, !.byte = k,
                            !.tries = IF k = host.byte THEN host.tries + 1 ELSE 1],
                         WriteCommand(host.add + k \div WordBytes, 1))
    BY <1>4 DEF Compare
  <2>2. k \in Nat /\ k < Size * WordBytes
    <3>1. Wrong \in SUBSET Nat /\ \A j \in Wrong : j < Size * WordBytes
      <4>1. Size * WordBytes \in Nat
        BY <1>1
      <4>2. \A j \in host.byte .. Size * WordBytes - 1 : j \in Nat /\ j < Size * WordBytes
        BY ONLY <1>1, <4>1
      <4> QED BY <4>2 DEF Wrong, Differing
    <3>2. k \in Wrong
      BY <1>4, <2>1, <3>1, FirstWrong
    <3> QED BY <3>1, <3>2
  <2>3. k \div WordBytes \in Nat /\ k \div WordBytes < Size
    <3>1. Size \in Nat
      BY <1>1
    <3> QED BY ONLY <1>1, <2>2, <3>1, Divided
  <2> DEFINE t == IF k = host.byte THEN host.tries + 1 ELSE 1
             new == [host EXCEPT !.at = "rewrite", !.awaits = 1, !.byte = k,
                                 !.tries = t]
             f == host.add + k \div WordBytes
  <2>4. t \in Nat
    BY <1>1
  <2>5. Step(new, WriteCommand(f, 1))
    BY <2>1
  <2> HIDE DEF t
  <2>6. /\ new \in HostType /\ new.at = "rewrite" /\ new.awaits = 1
        /\ new.add = host.add /\ new.byte = k /\ new.verify = host.verify
    BY ONLY <1>1, <2>2, <2>4 DEF HostType, Places
  <2>7. f \in Nat /\ f + 1 <= Words
    BY <1>1, <2>3, LinkAssumption
  <2>8. host' = new
    BY <2>5 DEF Step
  <2> HIDE DEF new
  <2>9. Count' = 1 /\ First' = f /\ PlaceInv'
    BY <1>1, <2>2, <2>6, <2>8 DEF Count, First, Word, Size, PlaceInv
  <2> HIDE DEF f
  <2>10. 1 \in 1 .. 15
    OBVIOUS
  <2> QED BY <1>1, <1>2, <2>5, <2>6, <2>7, <2>9, <2>10, WriteSent
<1> QED BY <1>3, <1>4

\* The word that has been written again is read again.
LEMMA RewriteSteps ==
  ASSUME SessionInv, Rewritten \/ Reread
  PROVE  SessionInv'
<1>1. /\ LinkOK /\ TypesOK /\ PlaceInv /\ host \in HostType
      /\ host.at \in {"rewrite", "reread"} /\ host.at # "connect"
      /\ host.add \in Nat /\ host.add < Words /\ host.byte \in Nat
      /\ host.byte < Size * WordBytes /\ Len(host.verify) = Size
      /\ Size \in 1 .. 15 /\ WordBytes \in Nat \ {0}
      /\ host.awaits # 0 /\ Len(in) = host.awaits
  <2>1. /\ host.at \in {"rewrite", "reread"} /\ TypesOK /\ PlaceInv /\ LinkOK
        /\ host.awaits # 0 /\ Len(in) = host.awaits
    BY DEF SessionInv, Rewritten, Reread, At, Back
  <2> QED BY <2>1, Extent, HostAssumption DEF TypesOK, PlaceInv, HostType
<1>2. host.byte \div WordBytes \in Nat /\ host.byte \div WordBytes < Size
  <2>1. Size \in Nat
    BY <1>1
  <2> QED BY ONLY <1>1, <2>1, Divided
<1>3. CASE Rewritten
  <2> DEFINE new == [host EXCEPT !.at = "reread", !.awaits = 1]
  <2>1. Step(new, ReadCommand(Word, 1)) /\ host.at = "rewrite"
    BY <1>3 DEF Rewritten, Back
  <2>2. /\ new \in HostType /\ new.at = "reread" /\ new.awaits = 1
        /\ new.add = host.add /\ new.byte = host.byte /\ new.verify = host.verify
    BY <1>1 DEF HostType, Places
  <2> HIDE DEF new
  <2>3. host' = new
    BY <2>1 DEF Step
  <2>4. Count' = 1 /\ First' = Word /\ PlaceInv' /\ Word \in Nat
    BY <1>1, <1>2, <2>2, <2>3 DEF Count, First, Word, Size, PlaceInv
  <2>5. In("IDLE") /\ Left = 0
    <3>1. Writing
      BY <1>1, <2>1 DEF SessionInv, AskedInv, Writing
    <3> QED BY <1>1, <3>1, Returned
  <2>6. 1 \in 1 .. 15
    OBVIOUS
  <2> QED BY <1>1, <2>1, <2>2, <2>4, <2>5, <2>6, ReadSent
<1>4. CASE Reread
  <2>1. /\ Reading /\ In("IDLE") /\ Left = 0
    <3>1. Reading
      BY <1>1, <1>4 DEF Reading, Reread, Back
    <3> QED BY <1>1, <3>1, Returned
  <2> DEFINE place == IF host.tries = Attempts THEN "failed" ELSE "compare"
             i == host.byte \div WordBytes + 1
             v == [host.verify EXCEPT ![i] = Head(in)]
             new == [host EXCEPT !.at = place, !.awaits = 0, !.verify = v]
             words == <<>>
  <2>2. Step(new, words)
    BY <1>4 DEF Reread
  <2>3. v \in Seq(Nat) /\ Len(v) = Size
    <3>1. host.verify \in Seq(Nat)
      BY <1>1 DEF HostType
    <3>2. i \in 1 .. Len(host.verify)
      BY <1>1, <1>2
    <3>3. Head(in) \in Nat
      <4>1. in \in Seq(Nat) /\ in # <<>>
        <5>1. in \in Seq(Nat) /\ Len(in) # 0
          BY <1>1 DEF LinkOK
        <5> QED BY <5>1
      <4> QED BY <4>1, HeadTailProperties
    <3> HIDE DEF i
    <3> QED BY <1>1, <3>1, <3>2, <3>3, ExceptSeq
  <2>4. place \in {"failed", "compare"}
    OBVIOUS
  <2>5. words \in Seq(Nat) /\ Len(words) = 0
    OBVIOUS
  <2> HIDE DEF v, words, place
  <2>6. /\ new \in HostType /\ new.awaits = 0 /\ new.at = place
        /\ new.add = host.add /\ new.verify = v /\ new.byte = host.byte
    BY <1>1, <2>3, <2>4 DEF HostType, Places
  <2> HIDE DEF new
  <2>7. /\ LinkOK' /\ host' = new /\ Answers' = 0
        /\ UNCHANGED <<cc, bus, mem, selected, faults>>
        /\ Left' = 0 + Len(words)
    BY <1>1, <2>1, <2>2, <2>5, Moved
  <2>8. PlaceInv' /\ ReportOK'
    <3>1. Size' = Size
      BY <2>6, <2>7 DEF Size
    <3> QED BY <1>1, <2>3, <2>4, <2>6, <2>7, <3>1 DEF PlaceInv, ReportOK
  <2>9. QuietInv' /\ Spelled'
    BY <2>1, <2>4, <2>5, <2>6, <2>7 DEF QuietInv, In, Spelled
  <2> QED BY <1>1, <2>2, <2>4, <2>5, <2>6, <2>8, <2>9, Silent
<1> QED BY <1>3, <1>4

\* The counters are asked for, and come back in order.
LEMMA ReportSteps ==
  ASSUME SessionInv, Report \/ ReportCheck
  PROVE  SessionInv'
<1>1. /\ LinkOK /\ TypesOK /\ PlaceInv /\ host \in HostType
      /\ host.at = "report" /\ host.at # "connect"
      /\ Counters \in Nat \ {0} /\ Select \in Nat /\ Result \in Nat
  <2>1. /\ LinkOK /\ TypesOK /\ PlaceInv /\ host \in HostType /\ host.at = "report"
    BY DEF SessionInv, Report, ReportCheck, At, Back, TypesOK
  <2>2. Counters \in Nat \ {0} /\ Select \in Nat /\ Result \in Nat
    BY HostAssumption, LinkAssumption DEF Select, Result
  <2> QED BY <2>1, <2>2
<1>2. CASE Report
  <2> DEFINE new == [host EXCEPT !.awaits = Counters]
             c == Config(0, FALSE, TRUE)
             words == <<0, c, Select, Result, Counters>>
  <2>1. host.awaits = 0 /\ Step(new, words)
    BY <1>2 DEF Report, At
  <2>2. /\ new \in HostType /\ new.at = "report" /\ new.awaits = Counters
    BY <1>1 DEF HostType
  <2>3. c \in Nat
    <3>1. 0 \in 0 .. 15 /\ TRUE \in BOOLEAN /\ FALSE \in BOOLEAN
      OBVIOUS
    <3> QED BY ONLY <3>1, ConfigFields, Zenon
  <2> HIDE DEF c
  <2>4. /\ words \in Seq(Nat) /\ Len(words) = 5 /\ words[1] = 0
        /\ words[2] = c /\ words[3] = Select /\ words[4] = Result
        /\ words[5] = Counters
    BY ONLY <1>1, <2>3
  <2> HIDE DEF new, words
  <2>5. In("IDLE") /\ Left = 0
    BY <1>1, <2>1, Between
  <2>6. /\ LinkOK' /\ host' = new /\ Answers' = 0 /\ bus.state = "ready"
        /\ UNCHANGED <<cc, bus, mem, selected, faults>>
        /\ Left' = 5 /\ Outgoing' = words
    <3>1. /\ LinkOK' /\ host' = new /\ Answers' = 0 /\ bus.state = "ready"
          /\ UNCHANGED <<cc, bus, mem, selected, faults>>
          /\ Left' = Left + Len(words) /\ (Left = 0 => Outgoing' = words)
      BY <1>1, <2>1, <2>4, Moved
    <3> QED BY <2>4, <2>5, <3>1
  <2>7. ~Writing' /\ ~Reading' /\ Reporting'
    BY <1>1, <2>2, <2>6 DEF Writing, Reading, Reporting
  <2>8. Spelled'
    <3>1. Spelt' = [j \in Nat |->
                      IF j = 1 THEN Counters ELSE IF j = 2 THEN Result
                      ELSE IF j = 3 THEN Select ELSE IF j = 4 THEN c ELSE 0]
      BY <2>7 DEF Spelt, c
    <3>2. /\ Spelt'[5] = 0 /\ Spelt'[4] = c /\ Spelt'[3] = Select
          /\ Spelt'[2] = Result /\ Spelt'[1] = Counters
      BY <3>1
    <3>3. ASSUME NEW j \in 1 .. 5 PROVE words[j] = Spelt'[5 - j + 1]
      <4>1. j = 1 \/ j = 2 \/ j = 3 \/ j = 4 \/ j = 5
        OBVIOUS
      <4>2. CASE j = 1
        BY ONLY <2>4, <3>2, <4>2
      <4>3. CASE j = 2
        BY ONLY <2>4, <3>2, <4>3
      <4>4. CASE j = 3
        BY ONLY <2>4, <3>2, <4>4
      <4>5. CASE j = 4
        BY ONLY <2>4, <3>2, <4>5
      <4>6. CASE j = 5
        BY ONLY <2>4, <3>2, <4>6
      <4> QED BY ONLY <4>1, <4>2, <4>3, <4>4, <4>5, <4>6
    <3> QED BY <2>6, <3>3 DEF Spelled
  <2>9. ReportInv'
    <3>1. /\ Answers' = 0 /\ Left' = 5 /\ cc'.state = "IDLE" /\ host'.awaits = Counters
          /\ Answers' <= Counters
      BY <1>1, <2>2, <2>5, <2>6 DEF In
    <3>2. \A i \in 1 .. Answers' : Incoming'[i] = Counter(i - 1)
      BY ONLY <3>1
    <3> QED BY ONLY <3>1, <3>2 DEF ReportInv, In
  <2>10. TypesOK' /\ AskedInv' /\ ReportOK' /\ PlaceInv'
    BY <1>1, <2>2, <2>6 DEF TypesOK, AskedInv, ReportOK, PlaceInv
  <2>11. CommandInv'
    BY <1>1, <2>2, <2>6, <2>7, <2>8, <2>9 DEF CommandInv
  <2> QED BY <2>6, <2>10, <2>11 DEF SessionInv
<1>3. CASE ReportCheck
  <2>0. host.awaits # 0 /\ Len(in) = host.awaits
    BY <1>3 DEF ReportCheck, Back
  <2>1. /\ Reporting /\ Left = 0 /\ Len(in) = Counters
        /\ In("IDLE") \/ (In("FUSION_WRITE") /\ cc.counter = cc.words)
        /\ \A i \in 1 .. Counters : in[i] = Counter(i - 1)
    <3>1. Reporting
      BY <1>1, <2>0 DEF Reporting
    <3> QED BY <2>0, <3>1, Returned
  <2> DEFINE new == [host EXCEPT !.at = "done", !.awaits = 0, !.report = in]
             words == <<>>
  <2>2. Step(new, words)
    BY <1>3 DEF ReportCheck
  <2>3. /\ new \in HostType /\ new.awaits = 0 /\ new.at = "done" /\ new.report = in
    BY <1>1 DEF HostType, Places, LinkOK
  <2>4. words \in Seq(Nat) /\ Len(words) = 0
    OBVIOUS
  <2> HIDE DEF new, words
  <2>5. /\ LinkOK' /\ host' = new /\ Answers' = 0
        /\ UNCHANGED <<cc, bus, mem, selected, faults>>
        /\ Left' = 0 + Len(words)
    BY <1>1, <2>0, <2>1, <2>2, <2>4, Moved
  <2>6. PlaceInv' /\ ReportOK'
    <3>1. in = [i \in 1 .. Counters |-> Counter(i - 1)]
      <4>1. in \in Seq(Nat)
        BY <1>1 DEF LinkOK
      <4>2. in \in [1 .. Counters -> Nat]
        BY <2>1, <4>1, LenProperties
      <4> QED BY <2>1, <4>2
    <3> QED BY <2>3, <2>5, <3>1 DEF PlaceInv, ReportOK
  <2>7. QuietInv' /\ Spelled'
    BY <2>1, <2>3, <2>4, <2>5 DEF QuietInv, In, Spelled
  <2> QED BY <1>1, <2>0, <2>2, <2>3, <2>4, <2>6, <2>7, Silent
<1> QED BY <1>2, <1>3

-----------------------------------------------------------------------------
(* The session.                                                             *)

\* It begins with what an earlier session has left.
LEMMA SessionBegins ==
  ASSUME Init
  PROVE  SessionInv
<1>1. /\ rx = <<>> /\ out \in Seq(Nat) /\ in = <<>> /\ tx = <<>> /\ lull = 0
      /\ driver = [state |-> "idle", next |-> "idle", word |-> 0]
      /\ Purge \in Nat
  BY HostAssumption, LinkAssumption DEF Init, CommInit
<1>2. /\ rx \in Seq(Nat) /\ in \in Seq(Nat) /\ tx \in Seq(Nat)
      /\ driver \in DriverType
  BY <1>1 DEF DriverType
<1>3. ForHost = <<>>
  BY <1>1 DEF ForHost
<1>4. Answers = 0
  BY <1>1, <1>3 DEF Answers, Incoming
<1>5. LinkOK
  BY <1>1, <1>2, <1>4 DEF LinkOK
<1>6. /\ host = [at |-> "connect", awaits |-> 0, sent |-> 0, correct |-> 0,
                 add |-> 0, verify |-> <<>>, byte |-> 0, tries |-> 0,
                 report |-> <<>>]
      /\ <<>> \in Seq(Nat)
  BY DEF Init
<1>7. host \in HostType
  BY ONLY <1>6 DEF HostType, Places
<1>8. cc \in CcType /\ cc.state = "RESET_PURGE" /\ cc.purge = Purge
  BY <1>1 DEF Init, CommInit, CcType, States
<1>9. bus \in BusType /\ bus.state = "ready"
  BY DEF Init, CommInit, BusType
<1>10. /\ mem \in [0 .. Words - 1 -> WordValues] /\ selected \in Nat /\ faults \in Nat
  BY LinkAssumption DEF Init, CommInit
<1>11. CommandInv
  BY <1>1, <1>6, <1>8, <1>9 DEF CommandInv, ConnectInv, In
<1>12. AskedInv /\ PlaceInv /\ ReportOK
  BY <1>6 DEF AskedInv, PlaceInv, ReportOK
<1> QED BY <1>5, <1>7, <1>8, <1>9, <1>10, <1>11, <1>12 DEF SessionInv, TypesOK

\* And every step of it keeps the invariant.
LEMMA SessionKept ==
  ASSUME SessionInv, [Next]_vars
  PROVE  SessionInv'
<1>1. CASE Fpga
  BY <1>1, ControllerStep
<1>2. CASE Memory
  BY <1>2, MemoryStep
<1>3. CASE Driver
  BY <1>3, DriverStep
<1>4. CASE Host
  BY <1>4, ConnectStep, SyncSteps, LoadSteps, VerifySteps, CompareStep,
     RewriteSteps, ReportSteps DEF Host
<1>5. CASE UNCHANGED vars
  <2>1. UNCHANGED <<rx, tx, cc, bus, mem, selected, faults, host, out, in, driver, lull>>
    BY <1>5 DEF vars, linkVars
  <2>2. /\ Outgoing' = Outgoing /\ Incoming' = Incoming
        /\ Left' = Left /\ Answers' = Answers
    BY <2>1, TakesNone, PutsNone
  <2>3. /\ Spelt' = Spelt /\ First' = First /\ Count' = Count
        /\ Writing' = Writing /\ Reading' = Reading /\ Reporting' = Reporting
    BY <2>1, SpeltKept
  <2>4. LinkOK' /\ TypesOK' /\ AskedInv' /\ PlaceInv' /\ ReportOK'
    BY <2>1, <2>2 DEF SessionInv, LinkOK, TypesOK, AskedInv, PlaceInv, Size, ReportOK
  <2>5. /\ (ConnectInv => ConnectInv') /\ (QuietInv => QuietInv')
        /\ (SyncInv => SyncInv')
    BY <2>1, <2>2 DEF ConnectInv, Coming, QuietInv, SyncInv, In
  <2>6. /\ (WriteInv => WriteInv') /\ (ReadInv => ReadInv')
        /\ (ReportInv => ReportInv')
    BY <2>1, <2>2, <2>3 DEF WriteInv, ReadInv, ReportInv, In, Requested
  <2>7. Spelled => Spelled'
    BY <2>2, <2>3 DEF Spelled
  <2>8. CommandInv'
    BY <2>1, <2>3, <2>5, <2>6, <2>7 DEF SessionInv, CommandInv, In
  <2> QED BY <2>4, <2>8 DEF SessionInv
<1> QED BY <1>1, <1>2, <1>3, <1>4, <1>5 DEF Next

\* The invariant of the session: for every command and every state of the
\* controller, how many words of the command are left and how many answers are
\* on their way.
THEOREM SessionInvariant == Spec => []SessionInv
<1>1. Init => SessionInv
  BY SessionBegins
<1>2. SessionInv /\ [Next]_vars => SessionInv'
  BY SessionKept
<1> QED BY <1>1, <1>2, PTL DEF Spec

\* Framing is never lost: a controller of any buffers, and a host that sends
\* any program in packets of any size, never take a word for another, the host
\* is never sent more answers than it waits for, and the counters of its report
\* are in the order in which it asked for them.
THEOREM FramingIsKept == Spec => []AnswersBelong
<1>1. ASSUME SessionInv PROVE AnswersBelong
  <2>1. /\ LinkOK /\ TypesOK /\ AskedInv /\ PlaceInv /\ CommandInv /\ ReportOK
        /\ cc \in CcType /\ host \in HostType
    BY <1>1 DEF SessionInv, TypesOK
  <2>2. ~In("ERROR")
    BY <2>1 DEF In, CcType, States
  <2>3. /\ Len(in) + Len(tx) + (IF driver.state = "transmit" THEN 1 ELSE 0) = Answers
        /\ Answers \in Nat
    <3>1. /\ Answers = Len(in) + Len(ForHost) + Len(tx) /\ Answers \in Nat
          /\ Len(ForHost) = IF driver.state = "transmit" THEN 1 ELSE 0
          /\ in \in Seq(Nat) /\ tx \in Seq(Nat)
      BY <2>1, LinkTypes DEF LinkOK
    <3>2. Len(in) \in Nat /\ Len(tx) \in Nat
      BY <3>1
    <3>3. CASE driver.state = "transmit"
      BY ONLY <3>1, <3>2, <3>3
    <3>4. CASE driver.state # "transmit"
      BY ONLY <3>1, <3>2, <3>4
    <3> QED BY <3>3, <3>4
  <2>4. Answers <= host.awaits
    <3>1. CASE host.at = "connect"
      <4>1. /\ in = <<>> /\ tx = <<>> /\ driver.state # "transmit" /\ host.awaits = 0
        BY <2>1, <3>1 DEF CommandInv, ConnectInv, AskedInv
      <4> QED BY <2>3, <4>1
    <3>2. CASE host.at # "connect" /\ host.awaits = 0
      BY <2>1, <3>2 DEF CommandInv, QuietInv
    <3>3. CASE host.at = "sync" /\ host.awaits # 0
      <4>1. host.awaits = 1
        BY <2>1, <3>3 DEF AskedInv
      <4> QED BY <2>1, <3>3, <4>1 DEF CommandInv, SyncInv
    <3>4. CASE Writing
      <4>1. WriteInv /\ host.awaits = 1
        BY <2>1, <3>4 DEF CommandInv, Writing
      <4> QED BY <4>1 DEF WriteInv, In
    <3>5. CASE Reading
      <4>1. ReadInv /\ ~Writing
        BY <2>1, <3>5 DEF CommandInv, Writing, Reading
      <4>2. Count \in 1 .. 15
        BY <2>1, <3>5, Extent DEF Reading
      <4> QED BY <4>1, <4>2, <2>3 DEF ReadInv, In
    <3>6. CASE Reporting
      <4>1. ReportInv
        BY <2>1, <3>6 DEF CommandInv, Writing, Reading, Reporting
      <4> QED BY <2>3, <4>1, HostAssumption DEF ReportInv, In
    <3> QED BY <2>1, <3>1, <3>2, <3>3, <3>4, <3>5, <3>6
            DEF AskedInv, Writing, Reading, Reporting, HostType, Places
  <2> QED BY <2>1, <2>2, <2>3, <2>4 DEF AnswersBelong, ReportOK
<1> QED BY <1>1, SessionInvariant, PTL

-----------------------------------------------------------------------------
(* What verification shows, when one transfer at most goes wrong.           *)

\* A write that the memory has still to carry out, and the number of words of
\* a command that writes which it has carried out.
Pending == In("WAIT_READY_WRITE") \/ (In("JTAG_WRITE") /\ bus.state = "busy")
Written == IF Left > Count THEN 0
           ELSE IF Pending THEN Count - Left - 1 ELSE Count - Left

\* How much of the program has been sent to memory.
Loaded ==
    IF host.at = "load" /\ host.awaits = 1 THEN host.add + Written
    ELSE IF host.at \in {"connect", "sync", "load"} THEN host.add
    ELSE IF host.at = "failed" THEN 0 ELSE Words

\* Either all of it is there ...
MemTrue == \A a \in 0 .. Words - 1 : a < Loaded => mem[a] = Image[a]

\* ... or what the host reads is what memory holds: the answers on their way,
\* and the packet that it compares, but for the word that it writes again.
AnswersTrue ==
    Reading =>
      /\ \A i \in 1 .. Answers : Incoming[i] = mem[First + i - 1]
      /\ In("JTAG_READ") /\ bus.state = "done" => bus.data = mem[First + Answers]
      /\ In("SEND_WORD") => cc.word = mem[First + Answers]

PacketTrue ==
    host.at \in {"compare", "rewrite", "reread"} =>
      \A i \in 1 .. Size :
        \/ host.verify[i] = mem[host.add + i - 1]
        \/ host.at # "compare" /\ i = host.byte \div WordBytes + 1

\* Then the packets before this one have been loaded, and the bytes of this one
\* that have been compared are the program's.
PacketsDone ==
    host.at \in {"verify", "compare", "rewrite", "reread"} =>
      \A a \in 0 .. Words - 1 : a < host.add => mem[a] = Image[a]

BytesDone ==
    host.at \in {"compare", "rewrite", "reread"} =>
      \A i \in 1 .. Size, b \in 0 .. WordBytes - 1 :
        (i - 1) * WordBytes + b < host.byte =>
          ByteOf(Image[host.add + i - 1], b) = ByteOf(host.verify[i], b)

WordDone ==
    (host.at = "reread" \/ (host.at = "rewrite" /\ Written = 1)) =>
      mem[Word] = Image[Word]

AllDone == host.at \in {"report", "done"} => mem = Image

ReadTrue == AnswersTrue /\ PacketTrue /\ PacketsDone /\ BytesDone /\ WordDone /\ AllDone

\* One transfer that goes wrong spoils either memory or what the host reads.
TruthInv ==
    /\ faults \in {0, 1}
    /\ MemTrue \/ ReadTrue
    /\ faults = 0 => MemTrue /\ ReadTrue /\ host.at \notin {"rewrite", "reread"}

\* A step of the controller carries out no write.
LEMMA WrittenKept ==
  ASSUME LinkOK, TypesOK, PlaceInv, Spelled, Writing, WriteInv, Controller,
         UNCHANGED <<host, out, in, driver>>
  PROVE  Written' = Written
<1>1. /\ Count \in 1 .. 15 /\ Count' = Count /\ Count \in Nat
      /\ Left \in Nat /\ Answers \in Nat
  <2>1. Count \in 1 .. 15 /\ Count' = Count
    BY Extent, SpeltKept DEF Writing
  <2> QED BY <2>1, LinkTypes
<1>2. Take => Left # 0 /\ Left' = Left - 1
  BY TakeOutcome
<1>3. rx' = rx => Left' = Left
  BY TakesNone
<1>4. cc \in CcType
  BY DEF TypesOK
<1> USE DEF Written, Pending, In
<1>5. CASE In("SYNC") \/ In("IDLE") \/ In("CONFIG")
  <2>1. Take
    BY <1>5, Acts DEF Sync, Idle, Configure
  <2>2. Left > Count + 1
    BY <1>1, <1>2, <1>5, <2>1 DEF WriteInv
  <2> QED BY <1>1, <1>2, <2>1, <2>2
<1>6. CASE In("GET_WORD")
  <2>1. Take /\ cc' = [cc EXCEPT !.word = Head(rx), !.state = cc.next0]
    BY <1>6, Acts DEF GetWord
  <2>2. Left' = Left - 1 /\ cc'.state = cc.next0
    BY <1>2, <1>4, <2>1 DEF CcType
  <2>3. CASE cc.next0 = "CONFIG2"
    <3>1. Left = Count + 1
      BY <1>6, <2>3 DEF WriteInv
    <3> QED BY <1>1, <2>2, <2>3, <3>1
  <2>4. CASE cc.next0 = "WAIT_READY_WRITE"
    <3>1. Left \in 1 .. Count
      BY <1>6, <2>4 DEF WriteInv
    <3>2. ~Pending /\ Pending'
      BY <1>6, <2>2, <2>4
    <3>3. Written = Count - Left
      BY ONLY <1>1, <3>1, <3>2 DEF Written
    <3>4. Written' = Count - (Left - 1) - 1
      BY ONLY <1>1, <2>2, <3>1, <3>2 DEF Written
    <3> QED BY ONLY <1>1, <3>3, <3>4
  <2> QED BY <1>6, <2>3, <2>4 DEF WriteInv
<1>7. CASE In("CONFIG2") \/ In("MANAGE") \/ In("ACKNOWLEDGE")
  <2>1. rx' = rx
    BY <1>7, Acts DEF Config2, Manage, Acknowledge
  <2>2. ~Pending /\ ~Pending'
    <3>1. CASE In("CONFIG2")
      <4>1. cc' = [cc EXCEPT !.add = cc.word, !.state = cc.next1]
            /\ cc.next1 = "MANAGE"
        BY <3>1, Acts DEF Config2, WriteInv
      <4> QED BY <1>4, <3>1, <4>1 DEF CcType
    <3>2. CASE In("MANAGE")
      <4>1. Manage /\ cc.write
        BY <3>2, Acts DEF WriteInv
      <4>2. cc'.state = "GET_WORD"
        BY <1>4, <4>1 DEF Manage, CcType
      <4> QED BY <3>2, <4>2
    <3>3. CASE In("ACKNOWLEDGE")
      <4>1. cc' = [cc EXCEPT !.state = "IDLE"]
        BY <3>3, Acts DEF Acknowledge, Goto
      <4> QED BY <1>4, <3>3, <4>1 DEF CcType
    <3> QED BY <1>7, <3>1, <3>2, <3>3
  <2> QED BY <1>1, <1>3, <2>1, <2>2
<1>8. CASE In("WAIT_READY_WRITE")
  <2>1. /\ rx' = rx /\ cc' = [cc EXCEPT !.state = "JTAG_WRITE"]
        /\ bus' = [state |-> "busy", write |-> TRUE, add |-> cc.add - 1,
                   data |-> cc.word]
    BY <1>8, Acts DEF Request, Goto
  <2>2. Pending /\ Pending'
    BY <1>4, <1>8, <2>1 DEF CcType
  <2> QED BY <1>1, <1>3, <2>1, <2>2
<1>9. CASE In("JTAG_WRITE")
  <2>1. /\ rx' = rx /\ cc' = [cc EXCEPT !.state = cc.next1] /\ bus.state = "done"
    BY <1>9, Acts DEF JtagWrite, Goto
  <2>2. cc.next1 \in {"ACKNOWLEDGE", "MANAGE"}
    BY <1>9 DEF WriteInv
  <2>3. ~Pending /\ ~Pending'
    BY <1>4, <1>9, <2>1, <2>2 DEF CcType
  <2> QED BY <1>1, <1>3, <2>1, <2>3
<1> QED BY <1>5, <1>6, <1>7, <1>8, <1>9 DEF WriteInv

\* It sends what it has read.
LEMMA AnswersStayTrue ==
  ASSUME LinkOK, TypesOK, PlaceInv, Spelled, Reading, ReadInv, AnswersTrue,
         Controller, UNCHANGED <<host, out, in, driver, mem>>
  PROVE  AnswersTrue'
<1>1. /\ First \in Nat /\ Count \in 1 .. 15 /\ First' = First /\ Count' = Count
      /\ Left \in Nat /\ Answers \in Nat /\ cc \in CcType
  <2>1. /\ First \in Nat /\ Count \in 1 .. 15 /\ First' = First /\ Count' = Count
    BY Extent, SpeltKept DEF Reading
  <2> QED BY <2>1, LinkTypes DEF TypesOK
<1>2. /\ \A i \in 1 .. Answers : Incoming[i] = mem[First + i - 1]
      /\ In("JTAG_READ") /\ bus.state = "done" => bus.data = mem[First + Answers]
      /\ In("SEND_WORD") => cc.word = mem[First + Answers]
  BY DEF AnswersTrue
<1>3. tx' = tx => Incoming' = Incoming /\ Answers' = Answers
  BY PutsNone
<1>4. Take => Left # 0
  BY TakeOutcome
<1> USE DEF In
<1>5. CASE cc.state \in {"IDLE", "CONFIG", "GET_WORD", "CONFIG2", "MANAGE",
                         "WAIT_READY_READ"}
  <2>1. tx' = tx
    BY <1>5, Acts DEF Idle, Configure, GetWord, Config2, Manage, Request
  <2>2. cc'.state # "SEND_WORD" /\ ~(cc'.state = "JTAG_READ" /\ bus'.state = "done")
    <3>1. CASE In("IDLE")
      <4>1. cc'.state \in {"CONFIG", "ERROR"}
        BY <1>1, <3>1, Acts DEF Idle, Goto, CcType
      <4> QED BY <4>1
    <3>2. CASE In("CONFIG")
      <4>1. cc'.state = "GET_WORD"
        BY <1>1, <3>2, Acts DEF Configure, CcType
      <4> QED BY <4>1
    <3>3. CASE In("GET_WORD")
      <4>1. cc'.state = "CONFIG2"
        BY <1>1, <3>3, Acts DEF GetWord, CcType, ReadInv
      <4> QED BY <4>1
    <3>4. CASE In("CONFIG2")
      <4>1. cc'.state = "MANAGE"
        BY <1>1, <3>4, Acts DEF Config2, CcType, ReadInv
      <4> QED BY <4>1
    <3>5. CASE In("MANAGE")
      <4>1. ~cc.write /\ Manage
        BY <3>5, Acts DEF ReadInv
      <4>2. cc'.state = "WAIT_READY_READ"
        BY <1>1, <4>1 DEF Manage, CcType
      <4> QED BY <4>2
    <3>6. CASE In("WAIT_READY_READ")
      <4>1. cc'.state = "JTAG_READ" /\ bus'.state = "busy"
        BY <1>1, <3>6, Acts DEF Request, Goto, CcType
      <4> QED BY <4>1
    <3> QED BY <1>5, <3>1, <3>2, <3>3, <3>4, <3>5, <3>6
  <2> QED BY <1>1, <1>2, <1>3, <2>1, <2>2 DEF AnswersTrue
<1>6. CASE In("JTAG_READ")
  <2>1. /\ tx' = tx /\ bus.state = "done"
        /\ cc' = [cc EXCEPT !.word = bus.data, !.state = "SEND_WORD"]
    BY <1>6, Acts DEF JtagRead
  <2>2. cc'.state = "SEND_WORD" /\ cc'.word = mem[First + Answers]
    BY <1>1, <1>2, <1>6, <2>1 DEF CcType
  <2> QED BY <1>1, <1>2, <1>3, <2>1, <2>2 DEF AnswersTrue
<1>7. CASE In("SEND_WORD")
  <2>1. Put(cc.word) /\ cc' = [cc EXCEPT !.state = cc.next0]
    BY <1>7, Acts DEF SendWord, Goto
  <2>2. cc'.state \in {"IDLE", "MANAGE"}
    BY <1>1, <1>7, <2>1 DEF CcType, ReadInv
  <2>3. /\ Answers' = Answers + 1 /\ Incoming'[Answers + 1] = cc.word
        /\ \A j \in 1 .. Answers : Incoming'[j] = Incoming[j]
    <3>1. cc.word \in Nat
      BY <1>1 DEF CcType
    <3> QED BY <2>1, <3>1, PutOutcome
  <2>4. ASSUME NEW i \in 1 .. Answers + 1 PROVE Incoming'[i] = mem[First + i - 1]
    <3>1. CASE i = Answers + 1
      <4>1. First + i - 1 = First + Answers
        BY <1>1, <3>1
      <4> QED BY <1>2, <1>7, <2>3, <3>1, <4>1
    <3>2. CASE i # Answers + 1
      <4>1. i \in 1 .. Answers
        BY <1>1, <3>2
      <4> QED BY <1>2, <2>3, <4>1
    <3> QED BY <3>1, <3>2
  <2> QED BY <1>1, <2>2, <2>3, <2>4 DEF AnswersTrue
<1> QED BY <1>5, <1>6, <1>7 DEF ReadInv

\* The controller and the driver.
LEMMA TruthMoves ==
  ASSUME SessionInv, TruthInv, Fpga \/ Driver
  PROVE  TruthInv'
<1>1. /\ SessionInv' /\ UNCHANGED <<mem, faults, host>>
      /\ LinkOK /\ TypesOK /\ PlaceInv /\ CommandInv
  <2>1. SessionInv' /\ UNCHANGED <<mem, faults>>
    BY ControllerStep, DriverStep
  <2>2. UNCHANGED host
    BY DriverStep DEF Fpga
  <2> QED BY <2>1, <2>2 DEF SessionInv
<1>2. /\ First' = First /\ Count' = Count
      /\ Writing' = Writing /\ Reading' = Reading
      /\ Size' = Size /\ Word' = Word
  BY <1>1, SpeltKept DEF Size, Word
<1>3. Writing => Written' = Written
  <2>1. CASE Driver
    <3>1. Left' = Left /\ UNCHANGED <<cc, bus>>
      BY <2>1, DriverStep
    <3> QED BY <1>2, <3>1 DEF Written, Pending, In
  <2>2. ASSUME Fpga, Writing PROVE Written' = Written
    <3>1. Spelled /\ WriteInv
      BY <1>1, <2>2 DEF CommandInv, Writing
    <3> QED BY <1>1, <2>2, <3>1, WrittenKept DEF Fpga
  <2> QED BY <2>1, <2>2
<1>4. Loaded' = Loaded
  BY <1>1, <1>3 DEF Loaded, Writing
<1>5. MemTrue => MemTrue'
  BY <1>1, <1>4 DEF MemTrue
<1>6. AnswersTrue => AnswersTrue'
  <2>1. CASE ~Reading
    BY <1>2, <2>1 DEF AnswersTrue
  <2>2. ASSUME Driver, AnswersTrue PROVE AnswersTrue'
    <3>1. UNCHANGED <<cc, bus, mem>> /\ Incoming' = Incoming /\ Answers' = Answers
      BY <2>2, DriverStep
    <3> QED BY <1>2, <2>2, <3>1 DEF AnswersTrue, In
  <2>3. ASSUME Fpga, Reading, AnswersTrue PROVE AnswersTrue'
    <3>1. Spelled /\ ReadInv
      BY <1>1, <2>3 DEF CommandInv, Reading, Writing
    <3> QED BY <1>1, <2>3, <3>1, AnswersStayTrue DEF Fpga
  <2> QED BY <2>1, <2>2, <2>3
<1>7. PacketTrue => PacketTrue'
  BY <1>1, <1>2 DEF PacketTrue
<1>8. (PacketsDone => PacketsDone') /\ (AllDone => AllDone')
  BY <1>1 DEF PacketsDone, AllDone
<1>9. BytesDone => BytesDone'
  BY <1>1, <1>2 DEF BytesDone
<1>10. WordDone => WordDone'
  <2>1. host.at = "rewrite" => Writing
    BY DEF SessionInv, AskedInv, Writing
  <2> QED BY <1>1, <1>2, <1>3, <2>1 DEF WordDone
<1>11. ReadTrue => ReadTrue'
  BY <1>6, <1>7, <1>8, <1>9, <1>10 DEF ReadTrue
<1> QED BY <1>1, <1>5, <1>11 DEF TruthInv

\* The memory: the transfer that goes wrong is the first one that does.
LEMMA TruthServed ==
  ASSUME SessionInv, TruthInv, Memory, MaxFaults <= 1
  PROVE  TruthInv'
<1>1. /\ UNCHANGED <<rx, tx, cc, host, out, in, driver>>
      /\ Incoming' = Incoming /\ Left' = Left /\ Answers' = Answers
      /\ Serve /\ bus.state = "busy"
      /\ LinkOK /\ TypesOK /\ PlaceInv
      /\ faults \in {0, 1} /\ MaxFaults \in Nat
  BY MemoryStep, LinkAssumption DEF SessionInv, Memory, Serve, TruthInv
<1>2. \/ Writing /\ WriteInv /\ In("JTAG_WRITE")
      \/ Reading /\ ~Writing /\ ReadInv /\ In("JTAG_READ")
      \/ Reporting /\ ~Writing /\ ~Reading /\ ReportInv
  BY <1>1, Served
<1>3. /\ First' = First /\ Count' = Count /\ Writing' = Writing
      /\ Reading' = Reading /\ Size' = Size /\ Word' = Word
  BY <1>1, SpeltKept DEF Size, Word
<1>4. /\ bus \in BusType /\ mem \in [0 .. Words - 1 -> WordValues]
      /\ Words \in Nat /\ Left \in Nat /\ Answers \in Nat
      /\ host.add \in Nat
  BY <1>1, LinkAssumption, LinkTypes DEF TypesOK, HostType
<1>5. CASE Writing
  <2>1. WriteInv /\ In("JTAG_WRITE") /\ ~Reading
    BY <1>2, <1>5 DEF Writing, Reading, Reporting
  <2>2. First \in Nat /\ Count \in 1 .. 15 /\ First + Count <= Words
    BY <1>1, <1>5, Extent DEF Writing
  <2>3. /\ Left \in 0 .. Count - 1 /\ bus.data = Image[First + Count - Left - 1]
        /\ bus.write = TRUE /\ bus.add = First + Count - Left - 1
    BY <2>1 DEF WriteInv, In, Requested
  <2>4. bus.add \in 0 .. Words - 1 /\ ~(bus.add >= Words)
    BY <1>4, <2>2, <2>3
  <2>5. PICK v \in Value(bus.data) :
           /\ mem' = [mem EXCEPT ![bus.add] = v]
           /\ faults' = IF v = bus.data THEN faults ELSE faults + 1
    BY ONLY <1>1, <2>3, <2>4 DEF Serve, WriteMemory, ReadMemory, Peripheral
  <2>6. bus' = [bus EXCEPT !.state = "done"]
    BY ONLY <1>1, <2>3, <2>4 DEF Serve, WriteMemory, ReadMemory, Peripheral
  <2>7. v # bus.data => faults = 0 /\ faults' = 1
    <3>1. v # bus.data => faults < MaxFaults
      BY DEF Value
    <3>2. faults < MaxFaults => faults = 0
      BY ONLY <1>1, MaxFaults <= 1
    <3> QED BY <2>5, <3>1, <3>2
  <2>8. /\ mem'[bus.add] = v
        /\ \A a \in 0 .. Words - 1 : a # bus.add => mem'[a] = mem[a]
    BY <1>4, <2>4, <2>5
  <2>9. /\ Written = Count - Left - 1 /\ Written' = Count - Left
        /\ Written \in Nat /\ Written' = Written + 1
    <3>1. Pending /\ ~Pending' /\ ~(Left > Count)
      <4>1. bus'.state = "done"
        BY <1>4, <2>6 DEF BusType
      <4>2. cc' = cc /\ cc.state = "JTAG_WRITE"
        BY <1>1, <2>1 DEF In
      <4> QED BY <1>1, <2>2, <2>3, <4>1, <4>2 DEF Pending, In
    <3> QED BY <1>1, <1>3, <2>2, <2>3, <3>1 DEF Written
  <2>10. CASE host.at = "load"
    <3>1. ReadTrue'
      BY <1>1, <1>3, <2>1, <2>10
         DEF ReadTrue, AnswersTrue, PacketTrue, PacketsDone, BytesDone, WordDone, AllDone
    <3>2. ASSUME MemTrue, v = bus.data PROVE MemTrue'
      <4>1. /\ Loaded = host.add + Written /\ Loaded' = host.add + Written + 1
            /\ bus.add = Loaded
        <5>1. host.awaits = 1 /\ First = host.add
          BY <1>5, <2>10 DEF Writing, First
        <5> QED BY <1>1, <1>4, <2>2, <2>3, <2>9, <2>10, <5>1 DEF Loaded
      <4>2. ASSUME NEW a \in 0 .. Words - 1, a < Loaded' PROVE mem'[a] = Image[a]
        <5>1. CASE a = bus.add
          BY <2>3, <2>8, <3>2, <5>1
        <5>2. CASE a # bus.add
          <6>1. a < Loaded
            BY <1>4, <2>9, <4>1, <4>2, <5>2
          <6> QED BY <2>8, <3>2, <5>2, <6>1 DEF MemTrue
        <5> QED BY <5>1, <5>2
      <4> QED BY <4>2 DEF MemTrue
    <3>3. faults' = faults \/ faults' = 1
      BY <2>5, <2>7
    <3>4. faults' = 0 => faults = 0 /\ v = bus.data
      BY <2>7, <3>3
    <3>5. faults' = 0 => MemTrue'
      BY <3>2, <3>4 DEF TruthInv
    <3>6. faults' \in {0, 1}
      BY <1>1, <3>3
    <3> QED BY <1>1, <2>10, <3>1, <3>5, <3>6 DEF TruthInv
  <2>11. CASE host.at = "rewrite"
    <3>1. faults = 1 /\ v = bus.data /\ faults' = 1
      <4>1. faults = 1
        BY <1>1, <2>11 DEF TruthInv
      <4> QED BY <2>5, <2>7, <4>1
    <3>2. /\ bus.add = Word /\ v = Image[Word]
      <4>1. First = Word /\ Count = 1 /\ Left = 0
        BY <2>3, <2>11 DEF First, Count
      <4>2. bus.add = Word
        BY <2>2, <2>3, <4>1
      <4> QED BY <2>3, <3>1, <4>2
    <3>3. MemTrue => MemTrue'
      <4>1. Loaded' = Loaded
        BY <1>1, <2>11 DEF Loaded
      <4> QED BY <2>8, <3>2, <4>1 DEF MemTrue
    <3>4. ASSUME ReadTrue PROVE ReadTrue'
      <4>0. /\ Size \in 1 .. 15 /\ host.add + Size <= Words
            /\ host.byte \div WordBytes \in Nat
            /\ Word = host.add + host.byte \div WordBytes /\ Word \in Nat
        <5>1. Size \in 1 .. 15 /\ host.add + Size <= Words
          BY <1>1, <2>11, Extent
        <5>2. host.byte \in Nat /\ host.byte < Size * WordBytes /\ WordBytes \in Nat \ {0}
          BY <1>1, <2>11, HostAssumption DEF TypesOK, HostType, PlaceInv
        <5>3. host.byte \div WordBytes \in Nat
          <6>1. Size \in Nat
            BY <5>1
          <6> QED BY ONLY <5>2, <6>1, Divided
        <5> QED BY <1>4, <5>1, <5>3 DEF Word
      <4>1. AnswersTrue'
        BY <1>3, <2>1 DEF AnswersTrue
      <4>2. PacketTrue'
        <5>1. ASSUME NEW i \in 1 .. Size, i # host.byte \div WordBytes + 1
              PROVE  host.verify[i] = mem'[host.add + i - 1]
          <6>1. host.verify[i] = mem[host.add + i - 1]
            BY <2>11, <3>4, <5>1 DEF ReadTrue, PacketTrue
          <6>2. /\ host.add + i - 1 \in 0 .. Words - 1
                /\ host.add + i - 1 # Word
            BY <1>4, <4>0, <5>1
          <6> QED BY <2>8, <3>2, <6>1, <6>2
        <5> QED BY <1>1, <1>3, <2>11, <5>1 DEF PacketTrue
      <4>3. PacketsDone'
        <5>1. ASSUME NEW a \in 0 .. Words - 1, a < host.add PROVE mem'[a] = Image[a]
          <6>1. a # Word
            BY <1>4, <4>0, <5>1
          <6>2. mem[a] = Image[a]
            BY <2>11, <3>4, <5>1 DEF ReadTrue, PacketsDone
          <6> QED BY <2>8, <3>2, <6>1, <6>2
        <5> QED BY <1>1, <5>1 DEF PacketsDone
      <4>4. BytesDone'
        BY <1>1, <1>3, <3>4 DEF ReadTrue, BytesDone
      <4>5. WordDone'
        BY <1>3, <2>8, <3>2 DEF WordDone
      <4>6. AllDone'
        BY <1>1, <2>11 DEF AllDone
      <4> QED BY <4>1, <4>2, <4>3, <4>4, <4>5, <4>6 DEF ReadTrue
    <3> QED BY <3>1, <3>3, <3>4 DEF TruthInv
  <2> QED BY <1>5, <2>10, <2>11 DEF Writing
<1>6. CASE Reading /\ ~Writing
  <2>1. ReadInv /\ In("JTAG_READ") /\ host.at \in {"verify", "reread"}
    BY <1>2, <1>6 DEF Reading, Reporting
  <2>2. First \in Nat /\ Count \in 1 .. 15 /\ First + Count <= Words
    BY <1>1, <1>6, Extent DEF Reading
  <2>3. bus.write = FALSE /\ bus.add = First + Answers /\ Answers < Count
    BY <2>1 DEF ReadInv, In, Requested
  <2>4. bus.add \in 0 .. Words - 1 /\ ~(bus.add >= Words)
    BY <1>4, <2>2, <2>3
  <2>5. PICK v \in Value(mem[bus.add]) :
           /\ bus' = [bus EXCEPT !.state = "done", !.data = v]
           /\ faults' = IF v = mem[bus.add] THEN faults ELSE faults + 1
    BY ONLY <1>1, <2>3, <2>4 DEF Serve, WriteMemory, ReadMemory, Peripheral
  <2>6. mem' = mem
    BY ONLY <1>1, <2>3, <2>4 DEF Serve, WriteMemory, ReadMemory, Peripheral
  <2>7. v # mem[bus.add] => faults = 0 /\ faults' = 1
    <3>1. v # mem[bus.add] => faults < MaxFaults
      BY DEF Value
    <3>2. faults < MaxFaults => faults = 0
      BY ONLY <1>1, MaxFaults <= 1
    <3> QED BY <2>5, <3>1, <3>2
  <2>8. MemTrue => MemTrue'
    <3>1. Loaded' = Loaded
      BY <1>1, <2>1 DEF Loaded
    <3> QED BY <2>6, <3>1 DEF MemTrue
  <2>9. ASSUME ReadTrue, v = mem[bus.add] PROVE ReadTrue'
    <3>1. AnswersTrue'
      <4>1. \A i \in 1 .. Answers : Incoming[i] = mem[First + i - 1]
        BY <1>6, <2>9 DEF ReadTrue, AnswersTrue
      <4>2. bus'.data = mem[First + Answers]
        BY <1>4, <2>3, <2>5, <2>9 DEF BusType
      <4>3. cc'.state = "JTAG_READ"
        BY <1>1, <2>1 DEF In
      <4> QED BY <1>1, <1>3, <2>6, <4>1, <4>2, <4>3 DEF AnswersTrue, In
    <3>2. PacketTrue' /\ BytesDone'
      BY <1>1, <1>3, <2>6, <2>9 DEF ReadTrue, PacketTrue, BytesDone
    <3>3. PacketsDone' /\ AllDone'
      BY <1>1, <2>6, <2>9 DEF ReadTrue, PacketsDone, AllDone
    <3>4. WordDone'
      BY <1>1, <1>3, <2>1, <2>6, <2>9 DEF ReadTrue, WordDone
    <3> QED BY <3>1, <3>2, <3>3, <3>4 DEF ReadTrue
  <2>10. CASE v = mem[bus.add]
    <3>1. faults' = faults
      BY <2>5, <2>10
    <3> QED BY <1>1, <2>8, <2>9, <2>10, <3>1 DEF TruthInv
  <2>11. CASE v # mem[bus.add]
    BY <2>7, <2>8, <2>11 DEF TruthInv
  <2> QED BY <2>10, <2>11
<1>7. CASE Reporting /\ ~Writing /\ ~Reading
  <2>1. /\ In("JTAG_WRITE") => bus.add = Select
        /\ In("JTAG_READ") => bus.add = Result
        /\ In("JTAG_WRITE") \/ In("JTAG_READ")
        /\ host.at = "report"
    BY <1>1, <1>2, <1>7, Served DEF ReportInv, In, Requested, Reporting
  <2>2. ~(bus.add < Words)
    BY <1>4, <2>1 DEF Select, Result
  <2>3. mem' = mem /\ faults' = faults
    BY ONLY <1>1, <2>2 DEF Serve, WriteMemory, ReadMemory, Peripheral
  <2>4. MemTrue => MemTrue'
    <3>1. Loaded' = Loaded
      BY <1>1, <2>1 DEF Loaded
    <3> QED BY <2>3, <3>1 DEF MemTrue
  <2>5. ReadTrue => ReadTrue'
    BY <1>1, <1>3, <1>7, <2>1, <2>3
       DEF ReadTrue, AnswersTrue, PacketTrue, PacketsDone, BytesDone, WordDone, AllDone
  <2> QED BY <1>1, <2>3, <2>4, <2>5 DEF TruthInv
<1> QED BY <1>2, <1>5, <1>6, <1>7

\* What no reading is about: until the packets are read back, or when nothing
\* more is to be.
LEMMA TruthBefore ==
  ASSUME TruthInv, UNCHANGED <<mem, faults>>,
         host'.at \in {"sync", "failed", "load"}
           \/ (host'.at = "verify" /\ host'.awaits = 0 /\ host'.add = 0),
         \A a \in 0 .. Words - 1 : a < Loaded' => a < Loaded
  PROVE  TruthInv'
<1>1. ReadTrue'
  <2>1. AnswersTrue' /\ PacketTrue' /\ BytesDone' /\ WordDone' /\ AllDone'
    BY DEF AnswersTrue, Reading, PacketTrue, BytesDone, WordDone, AllDone
  <2>2. PacketsDone'
    <3>1. \A a \in 0 .. Words - 1 : ~(a < 0)
      BY LinkAssumption
    <3> QED BY <3>1 DEF PacketsDone
  <2> QED BY <2>1, <2>2 DEF ReadTrue
<1>2. MemTrue => MemTrue'
  BY DEF MemTrue
<1>3. host'.at \notin {"rewrite", "reread"}
  OBVIOUS
<1> QED BY <1>1, <1>2, <1>3 DEF TruthInv

\* The host connects, synchronizes and loads.
LEMMA TruthLoads ==
  ASSUME SessionInv, TruthInv,
         \/ Connect \/ SyncSend \/ SyncCheck \/ SyncEnd \/ Load \/ LoadCheck
  PROVE  TruthInv'
<1>1. /\ host \in HostType /\ host.add \in Nat /\ Words \in Nat \ {0}
      /\ host.at \in {"connect", "sync", "load"}
  BY LinkAssumption
     DEF SessionInv, TypesOK, HostType, Connect, SyncSend, SyncCheck, SyncEnd,
         Load, LoadCheck, At, Back
<1>2. UNCHANGED <<cc, bus, mem, selected, faults>>
  BY DEF Connect, SyncSend, SyncCheck, SyncEnd, Load, LoadCheck, Step, linkVars
<1>3. CASE Connect \/ SyncSend \/ SyncCheck
  <2>1. host' \in HostType /\ host'.at = "sync" /\ host'.add = host.add
    <3>1. CASE Connect
      BY <1>1, <3>1 DEF Connect, At, Step, HostType, Places
    <3>2. CASE SyncSend
      BY <1>1, <3>2 DEF SyncSend, At, Step, HostType, Places
    <3>3. CASE SyncCheck
      <4> DEFINE c == IF Head(in) = Echo(host.sent) THEN host.correct + 1 ELSE 0
                 s == host.sent + 1
      <4>1. c \in Nat /\ s \in Nat
        BY <1>1 DEF HostType
      <4>2. host' = [host EXCEPT !.awaits = 0, !.sent = s, !.correct = c]
            /\ host.at = "sync"
        BY <3>3 DEF SyncCheck, Back, Step
      <4> HIDE DEF c, s
      <4> QED BY ONLY <1>1, <4>1, <4>2 DEF HostType
    <3> QED BY <1>3, <3>1, <3>2, <3>3
  <2>2. Loaded = host.add /\ Loaded' = host.add
    <3>1. host.at \in {"connect", "sync"}
      BY <1>3 DEF Connect, SyncSend, SyncCheck, At, Back
    <3> QED BY <2>1, <3>1 DEF Loaded
  <2> QED BY <1>2, <2>1, <2>2, TruthBefore
<1>4. CASE SyncEnd
  <2>1. host.at = "sync" /\ host.awaits = 0
    BY <1>4 DEF SyncEnd, At
  <2>2. host' = [host EXCEPT !.at = "failed"] \/ host' = [host EXCEPT !.at = "load"]
    BY <1>4 DEF SyncEnd, Step
  <2>3. /\ host'.at \in {"failed", "load"} /\ host'.add = host.add
        /\ host'.awaits = 0
    BY <1>1, <2>1, <2>2 DEF HostType
  <2>4. Loaded = host.add /\ Loaded' \in {0, host.add}
    BY <2>1, <2>3 DEF Loaded
  <2>5. \A a \in 0 .. Words - 1 : a < Loaded' => a < Loaded
    BY <1>1, <2>4
  <2> QED BY <1>2, <2>3, <2>5, TruthBefore
<1>5. ASSUME Load \/ LoadCheck
      PROVE  /\ host.at = "load" /\ host.at # "connect" /\ PlaceInv
             /\ host.add < Words /\ Size \in 1 .. 15 /\ host.add + Size <= Words
  <2>1. host.at = "load" /\ PlaceInv /\ TypesOK
    BY <1>5 DEF Load, LoadCheck, At, Back, SessionInv
  <2> QED BY <2>1, Extent DEF PlaceInv
<1>6. CASE Load
  <2> DEFINE new == [host EXCEPT !.awaits = 1]
             words == WriteCommand(host.add, Size)
  <2>1. host.awaits = 0 /\ Step(new, words)
    BY <1>6 DEF Load, At
  <2>2. /\ new.at = "load" /\ new.awaits = 1 /\ new.add = host.add
    BY <1>1, <1>5, <1>6 DEF HostType
  <2>3. words \in Seq(Nat) /\ Len(words) = Size + 3
    <3>1. PICK sp : sp = [j \in Nat |->
                           IF j <= Size THEN Image[host.add + Size - j]
                           ELSE IF j = Size + 1 THEN host.add
                           ELSE IF j = Size + 2 THEN Config(Size, TRUE, FALSE)
                           ELSE IF j = Size + 3 THEN 0 ELSE KeySync]
      OBVIOUS
    <3> HIDE DEF words
    <3>2. Size \in 1 .. 15 /\ host.add \in Nat /\ host.add + Size <= Words
      BY <1>1, <1>5, <1>6
    <3> QED BY <3>1, <3>2, WriteWords DEF words
  <2> HIDE DEF new, words
  <2>4. host' = new /\ Left \in Nat /\ Left' = Left + Len(words)
    BY <1>5, <1>6, <2>1, <2>3, Moved
  <2>5. Written' = 0
    <3>1. Count' = Size
      BY <2>2, <2>4 DEF Count, Size
    <3>2. Left' > Size
      <4>1. Size \in 1 .. 15
        BY <1>5, <1>6
      <4> QED BY ONLY <4>1, <2>3, <2>4
    <3> QED BY <3>1, <3>2 DEF Written
  <2>6. Loaded = host.add /\ Loaded' = host.add + 0
    BY <1>5, <1>6, <2>1, <2>2, <2>4, <2>5 DEF Loaded
  <2> QED BY <1>1, <1>2, <2>2, <2>4, <2>6, TruthBefore
<1>7. CASE LoadCheck
  <2>1. /\ host.at = "load" /\ Writing /\ In("IDLE") /\ Left = 0
        /\ host.awaits = 1
    <3>1. host.at = "load" /\ host.awaits # 0 /\ Len(in) = host.awaits
      BY <1>7 DEF LoadCheck, Back
    <3>2. Writing
      BY <3>1 DEF SessionInv, AskedInv, Writing
    <3> QED BY <3>1, <3>2, Returned DEF Writing
  <2>2. Loaded = host.add + Size
    <3>1. Written = Size
      BY <1>5, <1>7, <2>1 DEF Written, Pending, In, Count
    <3> QED BY <2>1, <3>1 DEF Loaded
  <2> DEFINE quiet == [host EXCEPT !.awaits = 0]
             failed == [host EXCEPT !.awaits = 0, !.at = "failed"]
  <2>3. host' \in {failed, Onward(quiet, "verify")}
    BY <1>7 DEF LoadCheck, Step
  <2>4. failed.at = "failed"
    BY <1>1 DEF HostType
  <2>5. /\ quiet \in HostType /\ quiet.awaits = 0 /\ quiet.at = "load"
        /\ quiet.add = host.add /\ "verify" \in Places
    BY <1>1, <2>1 DEF HostType, Places
  <2> HIDE DEF quiet, failed
  <2>6. \/ host'.at = "failed"
        \/ host'.at = "load" /\ host'.awaits = 0 /\ host'.add = host.add + Size
        \/ /\ host'.at = "verify" /\ host'.awaits = 0 /\ host'.add = 0
           /\ ~(host.add + Size < Words)
    <3>1. CASE host' = failed
      BY <2>4, <3>1
    <3>2. CASE host' = Onward(quiet, "verify")
      BY <1>5, <1>7, <2>5, <3>2, OnwardPlace
    <3> QED BY <2>3, <3>1, <3>2
  <2>7. \A a \in 0 .. Words - 1 : a < Loaded' => a < Loaded
    <3>1. CASE host'.at = "failed"
      <4>1. Loaded' = 0
        BY <3>1 DEF Loaded
      <4> QED BY <1>1, <4>1
    <3>2. CASE host'.at = "load" /\ host'.awaits = 0 /\ host'.add = host.add + Size
      <4>1. Loaded' = host.add + Size
        BY <3>2 DEF Loaded
      <4> QED BY <2>2, <4>1
    <3>3. CASE host'.at = "verify" /\ ~(host.add + Size < Words)
      <4>1. host.add + Size = Words
        BY <1>1, <1>5, <1>7, <3>3
      <4> QED BY <2>2, <4>1
    <3> QED BY <2>6, <3>1, <3>2, <3>3
  <2> QED BY <1>2, <2>6, <2>7, TruthBefore
<1> QED BY <1>3, <1>4, <1>6, <1>7

\* The packets are read back: what has come is what memory holds.
LEMMA TruthVerify ==
  ASSUME SessionInv, TruthInv, Verify \/ VerifyCheck
  PROVE  TruthInv'
<1>1. /\ LinkOK /\ TypesOK /\ PlaceInv /\ host \in HostType
      /\ host.at = "verify" /\ host.at # "connect"
      /\ host.add \in Nat /\ host.add < Words
      /\ Size \in 1 .. 15 /\ host.add + Size <= Words
      /\ host.awaits = 0 \/ Len(in) = host.awaits
  <2>1. /\ host.at = "verify" /\ TypesOK /\ PlaceInv /\ LinkOK
        /\ host.awaits = 0 \/ Len(in) = host.awaits
    BY DEF SessionInv, Verify, VerifyCheck, At, Back
  <2> QED BY <2>1, Extent DEF TypesOK, PlaceInv, HostType
<1>2. /\ host'.add = host.add
      /\ \/ Verify /\ host'.at = "verify"
         \/ /\ VerifyCheck /\ host'.at = "compare" /\ host'.verify = in
            /\ host'.byte = 0
  <2>1. CASE Verify
    <3>1. host' = [host EXCEPT !.awaits = Size]
      BY <2>1 DEF Verify, Step
    <3> QED BY <1>1, <2>1, <3>1 DEF HostType
  <2>2. CASE VerifyCheck
    <3>1. host' = [host EXCEPT !.at = "compare", !.awaits = 0, !.verify = in,
                               !.byte = 0, !.tries = 0]
      BY <2>2 DEF VerifyCheck, Step
    <3> QED BY <1>1, <2>2, <3>1 DEF HostType
  <2> QED BY <2>1, <2>2
<1>3. Answers' = 0 /\ UNCHANGED <<cc, bus, mem, selected, faults>>
  <2>1. CASE Verify
    <3>1. ReadCommand(host.add, Size) \in Seq(Nat)
      <4>1. PICK sp : sp = [j \in Nat |-> IF j = 1 THEN host.add
                         ELSE IF j = 2 THEN Config(Size, FALSE, FALSE) ELSE 0]
        OBVIOUS
      <4> QED BY <1>1, <4>1, ReadWords
    <3> QED BY <1>1, <2>1, <3>1, Moved DEF Verify
  <2>2. CASE VerifyCheck
    <3>1. <<>> \in Seq(Nat)
      OBVIOUS
    <3> QED BY <1>1, <2>2, <3>1, Moved DEF VerifyCheck
  <2> QED BY <2>1, <2>2
<1>4. SessionInv' /\ Size' = Size /\ host'.add = host.add
  BY <1>2, <1>3, VerifySteps DEF Size
<1>5. Loaded = Words /\ Loaded' = Words
  BY <1>1, <1>2, <1>3 DEF Loaded
<1>6. MemTrue => MemTrue'
  BY <1>3, <1>5 DEF MemTrue
<1>7. ASSUME ReadTrue PROVE ReadTrue'
  <2>1. PacketsDone'
    BY <1>1, <1>3, <1>4, <1>7 DEF ReadTrue, PacketsDone
  <2>2. WordDone' /\ AllDone'
    BY <1>2, <1>3 DEF WordDone, AllDone
  <2>3. CASE Verify /\ host'.at = "verify"
    <3>1. PacketTrue' /\ BytesDone'
      BY <1>3, <2>3 DEF PacketTrue, BytesDone
    <3>2. AnswersTrue'
      <4>1. In("IDLE")
        <5>1. host.awaits = 0
          BY <2>3 DEF Verify, At
        <5> QED BY <1>1, <5>1, Between
      <4>2. \A i \in 1 .. Answers' : FALSE
        BY <1>3
      <4> QED BY <1>3, <4>1, <4>2 DEF AnswersTrue, In
    <3> QED BY <2>1, <2>2, <3>1, <3>2 DEF ReadTrue
  <2>4. CASE VerifyCheck /\ host'.at = "compare" /\ host'.verify = in /\ host'.byte = 0
    <3>1. AnswersTrue'
      BY <1>3, <2>4 DEF AnswersTrue, Reading
    <3>2. PacketTrue'
      <4>1. /\ Reading /\ host.awaits # 0 /\ Len(in) = host.awaits
        BY <1>1, <2>4 DEF Reading, VerifyCheck, Back
      <4>2. in = Incoming /\ Answers = Size /\ First = host.add
        BY <1>1, <4>1, Returned DEF Count, First
      <4>3. \A i \in 1 .. Size : in[i] = mem[host.add + i - 1]
        BY <1>7, <4>1, <4>2 DEF ReadTrue, AnswersTrue
      <4> QED BY <1>3, <1>4, <2>4, <4>3 DEF PacketTrue
    <3>3. BytesDone'
      <4>1. ASSUME NEW i \in 1 .. Size, NEW b \in 0 .. WordBytes - 1
            PROVE  ~((i - 1) * WordBytes + b < 0)
        <5>1. WordBytes \in Nat /\ i - 1 \in Nat /\ b \in Nat
          BY HostAssumption
        <5>2. (i - 1) * WordBytes \in Nat
          BY ONLY <5>1
        <5> QED BY ONLY <5>1, <5>2
      <4> QED BY <1>3, <1>4, <2>4, <4>1 DEF BytesDone
    <3> QED BY <2>1, <2>2, <3>1, <3>2, <3>3 DEF ReadTrue
  <2> QED BY <1>2, <2>3, <2>4
<1>8. host'.at \notin {"rewrite", "reread"}
  BY <1>2, <1>3
<1> QED BY <1>3, <1>6, <1>7, <1>8 DEF TruthInv

\* The report.
LEMMA TruthReports ==
  ASSUME SessionInv, TruthInv, Report \/ ReportCheck
  PROVE  TruthInv'
<1>1. /\ UNCHANGED <<mem, faults>> /\ host.at = "report"
      /\ host'.at \in {"report", "done"}
  BY DEF Report, ReportCheck, At, Back, Step, linkVars, SessionInv, TypesOK, HostType
<1>2. Loaded' = Loaded
  BY <1>1 DEF Loaded
<1>3. MemTrue => MemTrue'
  BY <1>1, <1>2 DEF MemTrue
<1>4. ReadTrue => ReadTrue'
  BY <1>1 DEF ReadTrue, AnswersTrue, Reading, PacketTrue, PacketsDone, BytesDone,
              WordDone, AllDone
<1>5. host'.at \notin {"rewrite", "reread"}
  BY <1>1
<1> QED BY <1>1, <1>3, <1>4, <1>5 DEF TruthInv

\* The word and the byte of a place in the packet.
LEMMA Placed ==
  ASSUME NEW w \in Nat \ {0}, NEW q \in Nat, NEW b \in 0 .. w - 1, NEW n \in Nat, q < n,
         NEW k, k = q * w + b
  PROVE  k \in 0 .. n * w - 1 /\ k \div w = q /\ k % w = b
<1>1. q * w \in Nat /\ n * w \in Nat /\ k \in Nat
  OBVIOUS
<1>2. PICK r \in Nat : n = q + 1 + r
  <2>1. n - q - 1 \in Nat /\ n = q + 1 + (n - q - 1)
    OBVIOUS
  <2> QED BY <2>1
<1>3. n * w = q * w + w + r * w /\ r * w \in Nat
  BY <1>2
<1>4. k \in 0 .. n * w - 1
  BY <1>1, <1>3
<1>5. k \div w = q
  <2>1. PICK d \in Nat : d = k \div w
    BY <1>1
  <2>2. w * d <= k /\ k < w * d + w /\ w * d \in Nat
    BY <1>1, <2>1
  <2>3. ~(d < q)
    <3>1. SUFFICES ASSUME d < q PROVE FALSE
      OBVIOUS
    <3>2. PICK s \in Nat : q = d + 1 + s
      <4>1. q - d - 1 \in Nat /\ q = d + 1 + (q - d - 1)
        BY <3>1
      <4> QED BY <4>1
    <3>3. q * w = w * d + w + s * w /\ s * w \in Nat
      BY <3>2
    <3> QED BY <1>1, <2>2, <3>3
  <2>4. ~(q < d)
    <3>1. SUFFICES ASSUME q < d PROVE FALSE
      OBVIOUS
    <3>2. PICK s \in Nat : d = q + 1 + s
      <4>1. d - q - 1 \in Nat /\ d = q + 1 + (d - q - 1)
        BY <3>1
      <4> QED BY <4>1
    <3>3. w * d = q * w + w + s * w /\ s * w \in Nat
      BY <3>2
    <3> QED BY <1>1, <2>2, <3>3
  <2> QED BY <2>1, <2>3, <2>4
<1>6. k % w = b
  BY <1>1, <1>5
<1> QED BY <1>4, <1>5, <1>6

\* What the host compares.
LEMMA Comparing ==
  ASSUME SessionInv, host.at = "compare"
  PROVE  /\ LinkOK /\ TypesOK /\ PlaceInv /\ host \in HostType
         /\ host.awaits = 0 /\ host.add \in Nat /\ host.add < Words
         /\ host.byte \in Nat /\ Size \in 1 .. 15 /\ host.add + Size <= Words
         /\ WordBytes \in Nat \ {0} /\ Size * WordBytes \in Nat
         /\ Words \in Nat \ {0} /\ mem \in [0 .. Words - 1 -> WordValues]
         /\ Image \in [0 .. Words - 1 -> WordValues]
<1>1. /\ LinkOK /\ TypesOK /\ PlaceInv /\ host \in HostType
      /\ host.awaits = 0 /\ host.add \in Nat /\ host.add < Words /\ host.byte \in Nat
      /\ WordBytes \in Nat \ {0} /\ Words \in Nat \ {0}
      /\ mem \in [0 .. Words - 1 -> WordValues]
      /\ Image \in [0 .. Words - 1 -> WordValues]
  BY HostAssumption, LinkAssumption
     DEF SessionInv, AskedInv, TypesOK, PlaceInv, HostType
<1>2. Size \in 1 .. 15 /\ host.add + Size <= Words
  BY <1>1, PacketSize
<1>3. Size * WordBytes \in Nat
  BY <1>1, <1>2
<1> QED BY <1>1, <1>2, <1>3

\* The bytes before the first that differs are the program's.
LEMMA Compared ==
  ASSUME SessionInv, host.at = "compare", BytesDone,
         NEW m \in Nat, \A j \in Wrong : m <= j,
         NEW i \in 1 .. Size, NEW b \in 0 .. WordBytes - 1,
         (i - 1) * WordBytes + b < m
  PROVE  ByteOf(Image[host.add + i - 1], b) = ByteOf(host.verify[i], b)
<1>1. /\ host.add \in Nat /\ host.byte \in Nat /\ Size \in 1 .. 15
      /\ WordBytes \in Nat \ {0}
  BY Comparing
<1>2. PICK k : k = (i - 1) * WordBytes + b
  OBVIOUS
<1>3. /\ k \in 0 .. Size * WordBytes - 1
      /\ k \div WordBytes = i - 1 /\ k % WordBytes = b
  <2>1. PICK q : q = i - 1
    OBVIOUS
  <2>2. Size \in Nat /\ q \in Nat /\ q < Size
    BY <1>1, <2>1
  <2>3. k = q * WordBytes + b
    BY <1>2, <2>1
  <2>4. k \in 0 .. Size * WordBytes - 1 /\ k \div WordBytes = q /\ k % WordBytes = b
    BY ONLY <1>1, <2>2, <2>3, b \in 0 .. WordBytes - 1, Placed
  <2> QED BY <2>1, <2>4
<1>4. k \notin Wrong
  <2>1. k < m
    BY <1>2
  <2> QED BY <1>3, <2>1 DEF Wrong, Differing
<1>5. CASE k < host.byte
  BY <1>2, <1>5 DEF BytesDone
<1>6. CASE ~(k < host.byte)
  <2>1. k \in host.byte .. Size * WordBytes - 1
    <3>1. Size * WordBytes \in Nat
      BY <1>1
    <3> QED BY ONLY <1>1, <1>3, <1>6, <3>1
  <2>2. ByteOf(Image[host.add + k \div WordBytes], k % WordBytes)
          = ByteOf(host.verify[k \div WordBytes + 1], k % WordBytes)
    BY <1>4, <2>1 DEF Wrong, Differing
  <2>3. host.add + (i - 1) = host.add + i - 1 /\ (i - 1) + 1 = i
    BY <1>1
  <2> QED BY <1>3, <2>2, <2>3
<1> QED BY <1>5, <1>6

\* A packet that does not differ is the program's, if what has been read is
\* what memory holds.
LEMMA Matched ==
  ASSUME SessionInv, host.at = "compare", ReadTrue, Wrong = {}
  PROVE  \A a \in 0 .. Words - 1 : a < host.add + Size => mem[a] = Image[a]
<1>1. /\ host.add \in Nat /\ Size \in 1 .. 15 /\ host.add + Size <= Words
      /\ WordBytes \in Nat \ {0} /\ Size * WordBytes \in Nat
      /\ Words \in Nat \ {0} /\ mem \in [0 .. Words - 1 -> WordValues]
      /\ Image \in [0 .. Words - 1 -> WordValues]
  BY Comparing
<1>2. PacketTrue /\ PacketsDone /\ BytesDone
  BY DEF ReadTrue
<1>3. ASSUME NEW a \in 0 .. Words - 1, a < host.add + Size, ~(a < host.add)
      PROVE  mem[a] = Image[a]
  <2>1. PICK i : i = a - host.add + 1
    OBVIOUS
  <2>2. i \in 1 .. Size /\ host.add + i - 1 = a
    BY ONLY <1>1, <1>3, <2>1
  <2>3. host.verify[i] = mem[a]
    BY <1>2, <2>2 DEF PacketTrue
  <2>4. ASSUME NEW b \in 0 .. WordBytes - 1
        PROVE  ByteOf(mem[a], b) = ByteOf(Image[a], b)
    <3>1. (i - 1) * WordBytes + b < Size * WordBytes
      <4>1. i - 1 \in Nat /\ i - 1 < Size /\ Size \in Nat
        BY <1>1, <2>2
      <4>2. (i - 1) * WordBytes + b \in 0 .. Size * WordBytes - 1
        BY ONLY <1>1, <2>4, <4>1, Placed
      <4> QED BY ONLY <1>1, <4>2
    <3>2. \A j \in Wrong : Size * WordBytes <= j
      OBVIOUS
    <3>3. ByteOf(Image[host.add + i - 1], b) = ByteOf(host.verify[i], b)
      BY <1>1, <1>2, <2>2, <3>1, <3>2, Compared
    <3> QED BY <2>2, <2>3, <3>3
  <2>5. mem[a] \in WordValues /\ Image[a] \in WordValues
    BY <1>1
  <2> QED BY <2>4, <2>5, BytesAssumption
<1>4. ASSUME NEW a \in 0 .. Words - 1, a < host.add PROVE mem[a] = Image[a]
  BY <1>2, <1>4 DEF PacketsDone
<1> QED BY <1>3, <1>4

\* And a packet that has been read from a memory that holds the program does
\* not differ.
LEMMA NothingWrong ==
  ASSUME SessionInv, host.at = "compare", MemTrue, PacketTrue
  PROVE  Wrong = {}
<1>1. /\ host.add \in Nat /\ host.byte \in Nat /\ Size \in 1 .. 15
      /\ host.add + Size <= Words
      /\ WordBytes \in Nat \ {0} /\ Size * WordBytes \in Nat
      /\ Words \in Nat \ {0}
  BY Comparing
<1>2. Loaded = Words
  BY DEF Loaded
<1>3. ASSUME NEW k \in host.byte .. Size * WordBytes - 1
      PROVE  Image[host.add + k \div WordBytes] = host.verify[k \div WordBytes + 1]
  <2>1. k \in Nat /\ k < Size * WordBytes /\ Size \in Nat
    BY ONLY <1>1, <1>3
  <2>2. k \div WordBytes \in Nat /\ k \div WordBytes < Size
    BY ONLY <1>1, <2>1, Divided
  <2>3. PICK i : i = k \div WordBytes + 1
    OBVIOUS
  <2>4. /\ i \in 1 .. Size /\ host.add + i - 1 = host.add + k \div WordBytes
        /\ host.add + i - 1 \in 0 .. Words - 1 /\ host.add + i - 1 < Words
    BY ONLY <1>1, <2>2, <2>3
  <2>5. host.verify[i] = mem[host.add + i - 1]
    BY <2>4 DEF PacketTrue
  <2>6. mem[host.add + i - 1] = Image[host.add + i - 1]
    BY <1>2, <2>4 DEF MemTrue
  <2> QED BY <2>3, <2>4, <2>5, <2>6
<1> QED BY <1>3 DEF Wrong, Differing

\* A packet is compared: when no transfer has gone wrong nothing differs.
LEMMA TruthCompare ==
  ASSUME SessionInv, TruthInv, Compare
  PROVE  TruthInv'
<1>1. /\ host.at = "compare" /\ host.awaits = 0 /\ host.at # "connect"
      /\ UNCHANGED <<cc, bus, mem, selected, faults>> /\ host \in HostType
      /\ host.add \in Nat /\ host.byte \in Nat /\ host.add < Words
      /\ Size \in 1 .. 15 /\ host.add + Size <= Words
      /\ WordBytes \in Nat \ {0} /\ Size * WordBytes \in Nat
      /\ Words \in Nat \ {0} /\ mem \in [0 .. Words - 1 -> WordValues]
      /\ Image \in [0 .. Words - 1 -> WordValues]
  <2>1. host.at = "compare" /\ UNCHANGED <<cc, bus, mem, selected, faults>>
    BY DEF Compare, At, Step, linkVars
  <2> QED BY <2>1, Comparing
<1>2. Loaded = Words
  BY <1>1 DEF Loaded
<1>3. CASE Wrong = {}
  <2> DEFINE turn == [host EXCEPT !.at = "verify"]
  <2>1. host' = Onward(turn, "report")
    BY <1>3 DEF Compare, Step
  <2>2. /\ turn \in HostType /\ turn.at = "verify" /\ turn.awaits = 0
        /\ turn.add = host.add /\ "report" \in Places
    BY <1>1 DEF HostType, Places
  <2> HIDE DEF turn
  <2>3. \/ host'.at = "verify" /\ host'.awaits = 0 /\ host'.add = host.add + Size
        \/ host'.at = "report" /\ host'.awaits = 0 /\ ~(host.add + Size < Words)
    BY <1>1, <2>1, <2>2, OnwardPlace
  <2>4. MemTrue => MemTrue'
    <3>1. Loaded' = Words
      BY <2>3 DEF Loaded
    <3> QED BY <1>1, <1>2, <3>1 DEF MemTrue
  <2>5. ASSUME ReadTrue PROVE ReadTrue'
    <3>1. \A a \in 0 .. Words - 1 : a < host.add + Size => mem[a] = Image[a]
      BY <1>1, <1>3, <2>5, Matched
    <3>2. AnswersTrue' /\ PacketTrue' /\ BytesDone' /\ WordDone'
      BY <2>3 DEF AnswersTrue, Reading, PacketTrue, BytesDone, WordDone
    <3>3. PacketsDone'
      BY <1>1, <2>3, <3>1 DEF PacketsDone
    <3>4. AllDone'
      <4>1. CASE host'.at = "report" /\ ~(host.add + Size < Words)
        <5>1. \A a \in 0 .. Words - 1 : mem[a] = Image[a]
          BY <1>1, <3>1, <4>1
        <5>2. mem = Image
          BY <1>1, <5>1
        <5> QED BY <1>1, <5>2 DEF AllDone
      <4>2. CASE host'.at = "verify"
        BY <4>2 DEF AllDone
      <4> QED BY <2>3, <4>1, <4>2
    <3> QED BY <3>2, <3>3, <3>4 DEF ReadTrue
  <2>6. host'.at \notin {"rewrite", "reread"}
    BY <2>3
  <2> QED BY <1>1, <2>4, <2>5, <2>6 DEF TruthInv
<1>4. CASE Wrong # {}
  <2>1. faults = 1
    <3>1. faults = 0 => MemTrue /\ PacketTrue
      BY DEF TruthInv, ReadTrue
    <3> QED BY <1>1, <1>4, <3>1, NothingWrong DEF TruthInv
  <2>2. PICK k : /\ k = CHOOSE c \in Wrong : \A j \in Wrong : c <= j
                 /\ Step([host EXCEPT !.at = "rewrite", !.awaits = 1, !.byte = k,
                            !.tries = IF k = host.byte THEN host.tries + 1 ELSE 1],
                         WriteCommand(host.add + k \div WordBytes, 1))
    BY <1>4 DEF Compare
  <2>3. /\ k \in Nat /\ k < Size * WordBytes
        /\ \A j \in Wrong : k <= j
    <3>1. Wrong \in SUBSET Nat /\ \A j \in Wrong : j < Size * WordBytes
      <4>1. \A j \in host.byte .. Size * WordBytes - 1 : j \in Nat /\ j < Size * WordBytes
        BY ONLY <1>1
      <4> QED BY <4>1 DEF Wrong, Differing
    <3>2. k \in Wrong /\ \A j \in Wrong : k <= j
      BY <1>4, <2>2, <3>1, FirstWrong
    <3> QED BY <3>1, <3>2
  <2> DEFINE t == IF k = host.byte THEN host.tries + 1 ELSE 1
             new == [host EXCEPT !.at = "rewrite", !.awaits = 1, !.byte = k,
                                 !.tries = t]
             f == host.add + k \div WordBytes
             words == WriteCommand(f, 1)
  <2>4. Step(new, words)
    BY <2>2
  <2> HIDE DEF t
  <2>5. /\ new.at = "rewrite" /\ new.awaits = 1
        /\ new.add = host.add /\ new.byte = k /\ new.verify = host.verify
    BY <1>1 DEF HostType
  <2> HIDE DEF new
  <2>6. f \in Nat /\ f + 1 <= Words
    <3>1. k \div WordBytes \in Nat /\ k \div WordBytes < Size
      <4>1. Size \in Nat
        BY <1>1
      <4> QED BY ONLY <1>1, <2>3, <4>1, Divided
    <3> QED BY ONLY <1>1, <3>1
  <2> HIDE DEF f
  <2>7. words \in Seq(Nat) /\ Len(words) = 4
    <3>1. PICK sp : sp = [j \in Nat |->
                           IF j <= 1 THEN Image[f + 1 - j]
                           ELSE IF j = 1 + 1 THEN f
                           ELSE IF j = 1 + 2 THEN Config(1, TRUE, FALSE)
                           ELSE IF j = 1 + 3 THEN 0 ELSE KeySync]
      OBVIOUS
    <3>2. 1 \in 1 .. 15
      OBVIOUS
    <3>3. WriteCommand(f, 1) \in Seq(Nat) /\ Len(WriteCommand(f, 1)) = 1 + 3
      BY ONLY <2>6, <3>1, <3>2, WriteWords
    <3> QED BY <3>3
  <2> HIDE DEF words
  <2>8. host' = new /\ Left \in Nat /\ Left' = Left + Len(words)
    BY <1>1, <2>4, <2>7, Moved
  <2>9. MemTrue => MemTrue'
    <3>1. Loaded' = Words
      BY <2>5, <2>8 DEF Loaded
    <3> QED BY <1>1, <1>2, <3>1 DEF MemTrue
  <2>10. Size' = Size
    BY <2>5, <2>8 DEF Size
  <2>11. ASSUME ReadTrue PROVE ReadTrue'
    <3>1. AnswersTrue' /\ AllDone'
      BY <2>5, <2>8 DEF AnswersTrue, Reading, AllDone
    <3>2. PacketTrue' /\ PacketsDone'
      BY <1>1, <2>5, <2>8, <2>10, <2>11 DEF ReadTrue, PacketTrue, PacketsDone
    <3>3. BytesDone'
      <4>1. ASSUME NEW i \in 1 .. Size, NEW b \in 0 .. WordBytes - 1,
                   (i - 1) * WordBytes + b < k
            PROVE  ByteOf(Image[host.add + i - 1], b) = ByteOf(host.verify[i], b)
        <5>1. /\ SessionInv /\ host.at = "compare" /\ BytesDone
              /\ k \in Nat /\ \A j \in Wrong : k <= j
          BY <1>1, <2>3, <2>11 DEF ReadTrue
        <5> QED BY ONLY <4>1, <5>1, Compared
      <4> QED BY <2>5, <2>8, <2>10, <4>1 DEF BytesDone
    <3>4. WordDone'
      <4>1. Count' = 1 /\ Left' > 1
        BY <2>5, <2>7, <2>8 DEF Count
      <4>2. Written' # 1
        BY <4>1 DEF Written
      <4> QED BY <2>5, <2>8, <4>2 DEF WordDone
    <3> QED BY <3>1, <3>2, <3>3, <3>4 DEF ReadTrue
  <2> QED BY <1>1, <2>1, <2>9, <2>11 DEF TruthInv
<1> QED BY <1>3, <1>4

\* A word is written again, and read again.
LEMMA TruthRewrite ==
  ASSUME SessionInv, TruthInv, Rewritten \/ Reread
  PROVE  TruthInv'
<1>1. /\ LinkOK /\ TypesOK /\ PlaceInv /\ host \in HostType
      /\ host.at \in {"rewrite", "reread"} /\ host.at # "connect"
      /\ host.add \in Nat /\ host.add < Words /\ host.byte \in Nat
      /\ host.byte < Size * WordBytes /\ Len(host.verify) = Size
      /\ Size \in 1 .. 15 /\ host.add + Size <= Words /\ WordBytes \in Nat \ {0}
      /\ host.awaits # 0 /\ Len(in) = host.awaits
  <2>1. /\ host.at \in {"rewrite", "reread"} /\ TypesOK /\ PlaceInv /\ LinkOK
        /\ host.awaits # 0 /\ Len(in) = host.awaits
    BY DEF SessionInv, Rewritten, Reread, At, Back
  <2> QED BY <2>1, Extent, HostAssumption DEF TypesOK, PlaceInv, HostType
<1>2. host.byte \div WordBytes \in Nat /\ host.byte \div WordBytes < Size
  <2>1. Size \in Nat
    BY <1>1
  <2> QED BY ONLY <1>1, <2>1, Divided
<1>3. UNCHANGED <<cc, bus, mem, selected, faults>> /\ faults = 1
  BY <1>1 DEF Rewritten, Reread, Step, linkVars, TruthInv
<1>4. /\ Word = host.add + host.byte \div WordBytes
      /\ Word \in 0 .. Words - 1
  BY ONLY <1>1, <1>2, LinkAssumption DEF Word
<1>5. Loaded = Words
  BY <1>1 DEF Loaded
<1>6. CASE Rewritten
  <2>1. host.at = "rewrite" /\ host' = [host EXCEPT !.at = "reread", !.awaits = 1]
    BY <1>6 DEF Rewritten, Back, Step
  <2>2. /\ host'.at = "reread" /\ host'.add = host.add /\ host'.byte = host.byte
        /\ host'.verify = host.verify
    BY <1>1, <2>1 DEF HostType
  <2>3. Size' = Size /\ Word' = Word
    BY <2>2 DEF Size, Word
  <2>4. MemTrue => MemTrue'
    <3>1. Loaded' = Words
      BY <2>2 DEF Loaded
    <3> QED BY <1>3, <1>5, <3>1 DEF MemTrue
  <2>5. In("IDLE") /\ Left = 0
    <3>1. Writing
      BY <1>1, <2>1 DEF SessionInv, AskedInv, Writing
    <3> QED BY <1>1, <3>1, Returned
  <2>6. Answers' = 0
    <3>1. ReadCommand(Word, 1) \in Seq(Nat)
      <4>1. PICK sp : sp = [j \in Nat |-> IF j = 1 THEN Word
                         ELSE IF j = 2 THEN Config(1, FALSE, FALSE) ELSE 0]
        OBVIOUS
      <4>2. Word \in Nat /\ 1 \in 1 .. 15
        BY <1>4, LinkAssumption
      <4> QED BY ONLY <4>1, <4>2, ReadWords
    <3> QED BY <1>1, <1>6, <3>1, Moved DEF Rewritten
  <2>7. ASSUME ReadTrue PROVE ReadTrue'
    <3>1. AnswersTrue'
      <4>1. \A i \in 1 .. Answers' : FALSE
        BY <2>6
      <4> QED BY <1>3, <2>5, <4>1 DEF AnswersTrue, In
    <3>2. PacketTrue' /\ PacketsDone' /\ AllDone'
      BY <1>3, <2>1, <2>2, <2>3, <2>7 DEF ReadTrue, PacketTrue, PacketsDone, AllDone
    <3>3. BytesDone'
      BY <1>3, <2>1, <2>2, <2>3, <2>7 DEF ReadTrue, BytesDone
    <3>4. WordDone'
      <4>1. Written = 1
        <5>1. Count = 1
          BY <2>1 DEF Count
        <5> QED BY <2>5, <5>1 DEF Written, Pending, In
      <4> QED BY <1>3, <2>1, <2>3, <2>7, <4>1 DEF ReadTrue, WordDone
    <3> QED BY <3>1, <3>2, <3>3, <3>4 DEF ReadTrue
  <2> QED BY <1>3, <2>4, <2>7 DEF TruthInv
<1>7. CASE Reread
  <2> DEFINE place == IF host.tries = Attempts THEN "failed" ELSE "compare"
             w == host.byte \div WordBytes + 1
             v == [host.verify EXCEPT ![w] = Head(in)]
  <2>1. /\ host.at = "reread"
        /\ host' = [host EXCEPT !.at = place, !.awaits = 0, !.verify = v]
    BY <1>7 DEF Reread, Back, Step
  <2>2. place \in {"failed", "compare"}
    OBVIOUS
  <2>3. /\ w \in 1 .. Size /\ host.add + w - 1 = Word
        /\ v[w] = Head(in) /\ \A i \in 1 .. Size : i # w => v[i] = host.verify[i]
    <3>1. host.verify \in Seq(Nat) /\ DOMAIN host.verify = 1 .. Size
      BY <1>1 DEF HostType
    <3>2. w \in 1 .. Size /\ host.add + w - 1 = Word
      BY ONLY <1>1, <1>2, <1>4
    <3> QED BY <3>1, <3>2
  <2> HIDE DEF v, place
  <2>4. /\ host'.at = place /\ host'.add = host.add /\ host'.byte = host.byte
        /\ host'.verify = v /\ host'.awaits = 0
    BY <1>1, <2>1 DEF HostType
  <2>5. Size' = Size
    BY <2>4 DEF Size
  <2>6. MemTrue => MemTrue'
    <3>1. Loaded' \in {0, Words}
      BY <2>2, <2>4 DEF Loaded
    <3>2. \A a \in 0 .. Words - 1 : a < Words
      BY LinkAssumption
    <3> QED BY <1>3, <1>5, <3>1, <3>2 DEF MemTrue
  <2>7. ASSUME ReadTrue PROVE ReadTrue'
    <3>1. AnswersTrue' /\ WordDone' /\ AllDone'
      BY <2>2, <2>4 DEF AnswersTrue, Reading, WordDone, AllDone
    <3>2. PacketsDone'
      BY <1>3, <2>1, <2>2, <2>4, <2>7 DEF ReadTrue, PacketsDone
    <3>3. Head(in) = mem[Word]
      <4>1. Reading
        BY <1>1, <2>1 DEF Reading
      <4>2. in = Incoming /\ Answers = Count /\ Len(in) = Answers
        BY <1>1, <4>1, Returned
      <4>3. Count = 1 /\ First = Word
        BY <2>1 DEF Count, First
      <4>4. Incoming[1] = mem[Word + 1 - 1]
        BY <2>7, <4>1, <4>2, <4>3 DEF ReadTrue, AnswersTrue
      <4>5. Word + 1 - 1 = Word
        BY <1>4, LinkAssumption
      <4>6. Head(in) = in[1]
        BY <1>1, <4>2, <4>3 DEF LinkOK
      <4> QED BY <4>2, <4>4, <4>5, <4>6
    <3>4. PacketTrue'
      <4>1. ASSUME NEW i \in 1 .. Size PROVE v[i] = mem[host.add + i - 1]
        <5>1. CASE i = w
          BY <2>3, <3>3, <5>1
        <5>2. CASE i # w
          BY <2>1, <2>3, <2>7, <5>2 DEF ReadTrue, PacketTrue
        <5> QED BY <5>1, <5>2
      <4> QED BY <1>3, <2>4, <2>5, <4>1 DEF PacketTrue
    <3>5. BytesDone'
      <4>1. mem[Word] = Image[Word]
        BY <2>1, <2>7 DEF ReadTrue, WordDone
      <4>2. ASSUME NEW i \in 1 .. Size, NEW b \in 0 .. WordBytes - 1,
                   (i - 1) * WordBytes + b < host.byte
            PROVE  ByteOf(Image[host.add + i - 1], b) = ByteOf(v[i], b)
        <5>1. CASE i = w
          BY <2>3, <3>3, <4>1, <5>1
        <5>2. CASE i # w
          <6>1. ByteOf(Image[host.add + i - 1], b) = ByteOf(host.verify[i], b)
            BY <2>1, <2>7, <4>2 DEF ReadTrue, BytesDone
          <6> QED BY <2>3, <5>2, <6>1
        <5> QED BY <5>1, <5>2
      <4> QED BY <2>4, <2>5, <4>2 DEF BytesDone
    <3> QED BY <3>1, <3>2, <3>4, <3>5 DEF ReadTrue
  <2> QED BY <1>3, <2>6, <2>7 DEF TruthInv
<1> QED BY <1>6, <1>7

\* Before anything is sent there is nothing to be wrong.
LEMMA TruthBegins ==
  ASSUME Init
  PROVE  TruthInv
<1>1. /\ faults = 0 /\ host.at = "connect" /\ host.add = 0
  BY DEF Init, CommInit
<1>2. Loaded = 0
  BY <1>1 DEF Loaded
<1>3. MemTrue
  <2>1. \A a \in 0 .. Words - 1 : ~(a < 0)
    BY LinkAssumption
  <2> QED BY <1>2, <2>1 DEF MemTrue
<1>4. ReadTrue
  BY <1>1 DEF ReadTrue, AnswersTrue, Reading, PacketTrue, PacketsDone, BytesDone,
              WordDone, AllDone
<1> QED BY <1>1, <1>3, <1>4 DEF TruthInv

\* Every step keeps the invariant, if one transfer at most goes wrong.
LEMMA TruthKept ==
  ASSUME SessionInv, TruthInv, [Next]_vars, MaxFaults <= 1
  PROVE  TruthInv'
<1>1. CASE Fpga \/ Driver
  BY <1>1, TruthMoves
<1>2. CASE Memory
  BY <1>2, TruthServed
<1>3. CASE Host
  BY <1>3, TruthLoads, TruthVerify, TruthCompare, TruthRewrite, TruthReports DEF Host
<1>4. CASE UNCHANGED vars
  <2>1. UNCHANGED <<rx, tx, cc, bus, mem, selected, faults, host, out, in, driver>>
    BY <1>4 DEF vars, linkVars
  <2>2. Incoming' = Incoming /\ Left' = Left /\ Answers' = Answers
    BY <2>1, TakesNone, PutsNone
  <2>3. /\ First' = First /\ Count' = Count /\ Reading' = Reading /\ Size' = Size
        /\ Word' = Word
    BY <2>1, SpeltKept DEF Size, Word
  <2>4. Written' = Written
    BY <2>1, <2>2, <2>3 DEF Written, Pending, In
  <2>5. Loaded' = Loaded
    BY <2>1, <2>4 DEF Loaded
  <2>6. MemTrue => MemTrue'
    BY <2>1, <2>5 DEF MemTrue
  <2>7. AnswersTrue => AnswersTrue'
    BY <2>1, <2>2, <2>3 DEF AnswersTrue, In
  <2>8. (PacketTrue => PacketTrue') /\ (PacketsDone => PacketsDone')
    BY <2>1, <2>3 DEF PacketTrue, PacketsDone
  <2>9. (BytesDone => BytesDone') /\ (AllDone => AllDone')
    BY <2>1, <2>3 DEF BytesDone, AllDone
  <2>10. WordDone => WordDone'
    BY <2>1, <2>3, <2>4 DEF WordDone
  <2>11. ReadTrue => ReadTrue'
    BY <2>7, <2>8, <2>9, <2>10 DEF ReadTrue
  <2> QED BY <2>1, <2>6, <2>11 DEF TruthInv
<1> QED BY <1>1, <1>2, <1>3, <1>4 DEF Next

\* When at most one transfer goes wrong, on the way to memory or from it, a
\* verification that succeeds shows what it says: memory holds the program, of
\* any size and in packets of any size.  One fault spoils what has been loaded
\* or what is read back, never both, and what is compared is each byte of the
\* packet, and each byte before the first wrong one after a repair.
THEOREM VerificationShows ==
  ASSUME MaxFaults <= 1
  PROVE  Spec => []VerifiedMeansLoaded
<1>1. Init => SessionInv /\ TruthInv
  BY SessionBegins, TruthBegins
<1>2. SessionInv /\ TruthInv /\ [Next]_vars => (SessionInv /\ TruthInv)'
  BY SessionKept, TruthKept
<1>3. ASSUME SessionInv, TruthInv PROVE VerifiedMeansLoaded
  <2>1. CASE host.at \notin {"report", "done"}
    BY <2>1 DEF VerifiedMeansLoaded
  <2>2. CASE host.at \in {"report", "done"} /\ MemTrue
    <3>1. /\ Words \in Nat /\ mem \in [0 .. Words - 1 -> WordValues]
          /\ Image \in [0 .. Words - 1 -> WordValues]
      BY <1>3, HostAssumption, LinkAssumption DEF SessionInv, TypesOK
    <3>2. Loaded = Words
      BY <2>2 DEF Loaded
    <3>3. \A a \in 0 .. Words - 1 : mem[a] = Image[a]
      BY <2>2, <3>1, <3>2 DEF MemTrue
    <3>4. mem = Image
      BY <3>1, <3>3
    <3> QED BY <3>4 DEF VerifiedMeansLoaded
  <2>3. CASE host.at \in {"report", "done"} /\ ReadTrue
    BY <2>3 DEF ReadTrue, AllDone, VerifiedMeansLoaded
  <2> QED BY <1>3, <2>1, <2>2, <2>3 DEF TruthInv
<1> QED BY <1>1, <1>2, <1>3, PTL DEF Spec

=============================================================================
