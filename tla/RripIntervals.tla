--------------------------- MODULE RripIntervals ---------------------------
(***************************************************************************)
(* The line controller of the static re-reference interval prediction      *)
(* policy (srrip_line_controller.v).  Every line has a predicted interval: *)
(* Insert when its block has come in, 0 once it is referenced again.  The  *)
(* line to replace is one whose interval is Longest; while there is none,  *)
(* all intervals grow, one step per cycle, and the cache waits.  The       *)
(* environment is the cache controller's, as in RecencyStack.              *)
(***************************************************************************)
EXTENDS Naturals

CONSTANTS
  Ways,      \* N_LOCATIONS
  Longest,   \* 2^RRPV_REG_WIDTH - 1
  Insert     \* RRPV_REG_INS

ASSUME RripAssumption ==
  Ways \in Nat \ {0} /\ Longest \in Nat /\ Insert \in 1 .. Longest

VARIABLES
  rrpv,      \* rrpv_regs
  firstHit,  \* first_hit_reg: lines that have had their first hit
  generated, \* done_reg
  place,     \* addr_reg
  mode,      \* "nominal", "increment" (state_reg)
  stored,    \* lines whose tag is valid
  missed,    \* a miss has not been repeated yet
  idle,      \* history: lines whose block only the reference that brought it in used
  idleSince  \* history: idleSince[l], the lines that were idle when l was last
             \* referenced again, and still are

rripVars == <<rrpv, firstHit, generated, place, mode, stored, missed, idle,
              idleSince>>

Way == 0 .. Ways - 1

RripInit ==
  /\ rrpv = [w \in Way |-> Longest]
  /\ firstHit = {}
  /\ generated = FALSE
  /\ place = 0
  /\ mode = "nominal"
  /\ stored = {}
  /\ missed = FALSE
  /\ idle = {}
  /\ idleSince = [w \in Way |-> {}]

AtLongest == {w \in Way : rrpv[w] = Longest}
Lowest(S) == CHOOSE w \in S : \A v \in S : w <= v

\* hit_i: the first hit is the repeated reference that brought the block in.
Predict(w) == rrpv' = [rrpv EXCEPT ![w] = IF w \in firstHit THEN 0 ELSE Insert]

\* A reference to a cached block.
RripHit(w) ==
  /\ ~missed /\ w \in stored
  /\ Predict(w)
  /\ firstHit' = firstHit \cup {w}
  /\ idle' = idle \ {w}
  /\ idleSince' = [v \in Way |-> IF v = w THEN idle \ {w} ELSE idleSince[v] \ {w}]
  /\ UNCHANGED <<generated, place, mode, stored, missed>>

\* The line is taken: its next hit is a first hit.
Take(w) ==
  /\ generated' = TRUE
  /\ place' = w
  /\ firstHit' = firstHit \ {w}

\* miss_i with a line at the longest interval.
MissFinds ==
  /\ ~missed /\ missed' = TRUE
  /\ AtLongest # {}
  /\ Take(Lowest(AtLongest))
  /\ UNCHANGED <<rrpv, mode, stored, idle, idleSince>>

\* A mutation of Grow: only lines that have been hit since their first hit.
GrowSome == rrpv' = [w \in Way |-> IF rrpv[w] > 0 /\ rrpv[w] < Longest
                                   THEN rrpv[w] + 1 ELSE rrpv[w]]

Grow == rrpv' = [w \in Way |-> IF rrpv[w] < Longest THEN rrpv[w] + 1 ELSE rrpv[w]]

\* A mutation of MissGrows: done_o keeps its value from the miss before.
MissGrowsDone ==
  /\ ~missed /\ missed' = TRUE
  /\ AtLongest = {}
  /\ Grow
  /\ mode' = "increment"
  /\ UNCHANGED <<firstHit, generated, place, stored, idle, idleSince>>

\* miss_i without one: the registers are incremented from this cycle on.
MissGrows ==
  /\ ~missed /\ missed' = TRUE
  /\ AtLongest = {}
  /\ Grow
  /\ generated' = FALSE
  /\ mode' = "increment"
  /\ UNCHANGED <<firstHit, place, stored, idle, idleSince>>

GrowAgain ==
  /\ mode = "increment" /\ AtLongest = {}
  /\ Grow
  /\ UNCHANGED <<firstHit, generated, place, mode, stored, missed, idle,
                 idleSince>>

GrowEnds ==
  /\ mode = "increment" /\ AtLongest # {}
  /\ Take(Lowest(AtLongest))
  /\ mode' = "nominal"
  /\ UNCHANGED <<rrpv, stored, missed, idle, idleSince>>

\* The cache has seen done_o, has filled the line, and repeats the reference.
RripRefill ==
  /\ missed /\ generated
  /\ missed' = FALSE
  /\ stored' = stored \cup {place}
  /\ Predict(place)
  /\ firstHit' = firstHit \cup {place}
  /\ idle' = idle \cup {place}
  /\ idleSince' = [v \in Way |-> IF v = place THEN {} ELSE idleSince[v] \ {place}]
  /\ UNCHANGED <<generated, place, mode>>

Cycle == GrowAgain \/ GrowEnds

RripNext ==
  \/ \E w \in Way : RripHit(w)
  \/ MissFinds
  \/ MissGrows
  \/ Cycle
  \/ RripRefill

\* The policy is clocked in every cycle.
RripSpec == RripInit /\ [][RripNext]_rripVars /\ WF_rripVars(Cycle)

-----------------------------------------------------------------------------
\* A block that is referenced again outlives every block that lay unused at
\* that time and still does: a scan leaves the blocks in use where they are.
OutlivesIdle == missed /\ generated /\ place \in stored => idleSince[place] = {}

\* The policy always comes to an address.
AddressGenerated == missed ~> generated
=============================================================================
