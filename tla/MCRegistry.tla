------------------------------ MODULE MCRegistry ------------------------------
(* Small instances of Registry: two rounds that may get the same process id *)
(* within a second, one prune and one dismiss command, and two hooks that     *)
(* were given the same run id.                                                *)
EXTENDS Registry, TLC
CONSTANTS r1, r2, p1, p2, prune1, dismiss1, h1, h2, a, b

Window == 1
KeepNone == [h \in Pruner |-> 0]
GivenRun == [h \in Hook |-> r1]
Revealing == [h \in Hook |-> IF h = h1 THEN a ELSE b]
Garbage == {<<Epoch, p1, 1>>}
NowAndThen == {<<Epoch, p1, 1>>}

(* The two hooks differ in nothing but the name of their path: one of them   *)
(* can be taken to be the first to read.                                     *)
FirstHookFirst == hook[h1] = "fresh" => hook[h2] = "fresh"
TwoHooks == Init /\ [][Next /\ FirstHookFirst']_vars
==============================================================================
