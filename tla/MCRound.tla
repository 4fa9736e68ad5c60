------------------------------- MODULE MCRound -------------------------------
(* Small instances of Round: one round with everything that can happen to it, *)
(* two `runs stop` commands and a waiter.                                     *)
EXTENDS Round, TLC
CONSTANTS r1, l1, s1, s2, w1

TheLog == [r \in Round |-> l1]
TheRound == [s \in Stopper |-> r1]
ItsLog == [w \in Waiter |-> r1]

(* The two stops differ in nothing, so that one of them can be taken to be  *)
(* the first (symmetry by hand: TLC's own is not sound for liveness).       *)
FirstStopFirst == stopper[s1] = "idle" => stopper[s2] = "idle"
TwoStops == Init /\ [][Next /\ FirstStopFirst']_vars /\ Fairness
==============================================================================
