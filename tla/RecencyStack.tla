---------------------------- MODULE RecencyStack ----------------------------
(***************************************************************************)
(* The line controller of the LRU and of the MRU replacement policy        *)
(* (lru_line_controller.v; mru_line_controller.v differs from it in the    *)
(* reduction that selects the victim).                                     *)
(*                                                                         *)
(* Every line of the set has a register, p_stack, that holds its ordinal   *)
(* position: 0 for the most recently used line, N-1 for the least recently *)
(* used one.  The cache controller drives two strobes, hit_i and miss_i,   *)
(* and after a miss_i it fills the line that addr_o names and repeats the  *)
(* reference, which then hits.  That protocol, the controller's ST_NORMAL  *)
(* and ST_READ_BUFFER states, is the environment of this module.           *)
(***************************************************************************)
EXTENDS Naturals

CONSTANTS
  N,            \* N_LOCATIONS, the lines of one set (a power of two in the code)
  VictimDepth   \* position that the reduction selects: N-1 for LRU, 0 for MRU

ASSUME StackAssumption == N \in Nat \ {0, 1} /\ VictimDepth \in {0, N - 1}

VARIABLES
  pStack,   \* p_stack: ordinal position of every line
  counter,  \* counter_reg: next line to allocate from cold start
  addr,     \* addr_reg: the line to replace
  valid,    \* lines whose tag is valid (the tag memory's valid bits)
  filling,  \* the controller has missed and not yet repeated the reference
  older     \* history: older[l], the lines last referenced before l was

vars == <<pStack, counter, addr, valid, filling, older>>

Line == 0 .. N - 1

\* priority_encoder over the reduction bits, 0 when none is set.  The bits are
\* one-hot (OrdinalPositions), so which of several it takes does not matter.
Encode(S) == IF S = {} THEN 0 ELSE CHOOSE l \in S : TRUE

Init ==
  /\ pStack = [l \in Line |-> 0]
  /\ counter = 0
  /\ addr = 0
  /\ valid = {}
  /\ filling = FALSE
  /\ older = [l \in Line |-> {}]

\* Mutations of PushToFront: every other line moves back (without and with
\* saturation), and the line trades places with the one at the front.
PushUnbounded(l) ==
  pStack' = [i \in Line |-> IF i = l THEN 0 ELSE pStack[i] + 1]

PushSaturating(l) ==
  pStack' = [i \in Line |-> IF i = l THEN 0
                            ELSE IF pStack[i] < N - 1 THEN pStack[i] + 1
                            ELSE pStack[i]]

SwapWithFront(l) ==
  pStack' = [i \in Line |-> IF i = l THEN 0
                            ELSE IF pStack[i] = 0 /\ i <= counter THEN pStack[l]
                            ELSE pStack[i]]

\* hit_i: every position nearer the most recent end moves back by one, and
\* the referenced line goes to the most recent end.
PushToFront(l) ==
  pStack' = [i \in Line |-> IF i = l THEN 0
                            ELSE IF pStack[i] < pStack[l] THEN pStack[i] + 1
                            ELSE pStack[i]]

Referenced(l) ==
  older' = [i \in Line |-> IF i = l THEN Line \ {l} ELSE older[i] \ {l}]

Hit(l) ==
  /\ ~filling
  /\ l \in valid
  /\ PushToFront(l)
  /\ Referenced(l)
  /\ UNCHANGED <<counter, addr, valid, filling>>

\* A mutation of ColdMiss: the next line's position is not initialised.
ColdMissUninitialised ==
  /\ ~filling
  /\ counter # N - 1
  /\ addr' = counter
  /\ counter' = counter + 1
  /\ filling' = TRUE
  /\ UNCHANGED <<pStack, valid, older>>

\* miss_i before the set has filled: the next cold line, whose successor's
\* position is initialised to its own index.
ColdMiss ==
  /\ ~filling
  /\ counter # N - 1
  /\ addr' = counter
  /\ counter' = counter + 1
  /\ pStack' = [pStack EXCEPT ![counter + 1] = counter + 1]
  /\ filling' = TRUE
  /\ UNCHANGED <<valid, older>>

\* miss_i once counter_reg is all ones: the line at the victim's position.
WarmMiss ==
  /\ ~filling
  /\ counter = N - 1
  /\ addr' = Encode({l \in Line : pStack[l] = VictimDepth})
  /\ filling' = TRUE
  /\ UNCHANGED <<pStack, counter, valid, older>>

\* The block arrives in line addr and the repeated reference hits it.
Refill ==
  /\ filling
  /\ valid' = valid \cup {addr}
  /\ PushToFront(addr)
  /\ Referenced(addr)
  /\ filling' = FALSE
  /\ UNCHANGED <<counter, addr>>

Next == \/ \E l \in Line : Hit(l)
        \/ ColdMiss
        \/ WarmMiss
        \/ Refill

Spec == Init /\ [][Next]_vars

-----------------------------------------------------------------------------
\* Every register stays in the range its width gives it.
TypeOK ==
  /\ pStack \in [Line -> Line]
  /\ counter \in Line
  /\ addr \in Line
  /\ valid \in SUBSET Line
  /\ filling \in BOOLEAN
  /\ older \in [Line -> SUBSET Line]

\* "positions are ordinal so only one register" is all ones: the lines that
\* cold start has reached hold each position exactly once, whatever the hits
\* did to the registers of the lines it has not reached.
OrdinalPositions ==
  \A q \in 0 .. counter :
    \E l \in 0 .. counter : /\ pStack[l] = q
                            /\ \A m \in 0 .. counter : pStack[m] = q => m = l

\* No valid line is given up while the set still has an empty one.
FillsBeforeEvicting == filling /\ addr \in valid => valid = Line

\* The line given up is the least recently used one: every other line was
\* referenced after it.
EvictsLeastRecent ==
  filling /\ addr \in valid => \A l \in valid \ {addr} : addr \in older[l]
=============================================================================
