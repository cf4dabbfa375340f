------------------------------- MODULE MCCache -------------------------------
\* One cache alone, with two words a block: a set of two lines that three
\* blocks compete for, and a set of one line that two blocks are loaded into.
EXTENDS CacheController, TLC

CONSTANTS t1, t2, t3, d1

MCTag == {t1, t2, t3}
MCSet == {0, 1}
MCLine == 0 .. 2
MCSetOf == 0 :> 0 @@ 1 :> 0 @@ 2 :> 1
MCData == {d1}
MCReference ==
  {[rw |-> r, block |-> b, word |-> 1, data |-> d1] :
     r \in BOOLEAN, b \in MCTag \X {0}}
  \cup {[rw |-> FALSE, block |-> b, word |-> 1, data |-> d1] :
          b \in {t1, t2} \X {1}}
=============================================================================
