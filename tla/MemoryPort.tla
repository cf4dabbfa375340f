----------------------------- MODULE MemoryPort -----------------------------
(***************************************************************************)
(* What a cache promises the hart: its port behaves like a memory that     *)
(* serves one access at a time.  Where the words are meanwhile, in a line, *)
(* on the way to the DDR3 memory or in it, does not show.                  *)
(***************************************************************************)
CONSTANTS
  Access,   \* records with fields rw, block, word and data
  NoAccess, NoWord

VARIABLES
  mem,      \* the words, mem[block][word]
  access,   \* the access in service
  result    \* the word that the last access left on the port

\* The instruction port leaves reset with an access.
Init == access \in Access \cup {NoAccess}

\* The hart asks.
Ask(a) == /\ access = NoAccess
          /\ access' = a
          /\ result' = NoWord
          /\ UNCHANGED mem

\* The access happens: a store changes its word and no other, and both kinds
\* leave the word on the port.
Serve ==
  /\ access # NoAccess
  /\ mem' = IF access.rw
            THEN [mem EXCEPT ![access.block][access.word] = access.data]
            ELSE mem
  /\ result' = mem'[access.block][access.word]
  /\ access' = NoAccess

Next == (\E a \in Access : Ask(a)) \/ Serve

vars == <<mem, access, result>>

\* Every access is served.
Spec == Init /\ [][Next]_vars /\ WF_vars(Serve)

Safe == Init /\ [][Next]_vars
=============================================================================
