------------------------------- MODULE MCLink -------------------------------
(* A program of five words of two bits each, sent two words at a time; an  *)
(* earlier session has left more words than the receive buffer holds, the  *)
(* key of the synchronization among them.                                  *)
EXTENDS HostProxy

MCImage == [i \in 0 .. Words - 1 |-> <<2, 1, 3, 0, 1>>[i + 1]]
MCValues == 0 .. 3
MCStale == <<7, 0, KeySync, 33, 0>>

=============================================================================
