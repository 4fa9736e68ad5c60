--------------------------- MODULE SlotSemaphore ---------------------------
(***************************************************************************)
(* What `outsource slot` promises, before any lock file: a counting        *)
(* semaphore per pool whose size is the caller's and not the pool's.  The  *)
(* callers whose budget is at most k are never more than k at a time,      *)
(* whatever larger budgets the other callers of the pool brought.          *)
(***************************************************************************)
EXTENDS Naturals, FiniteSets

CONSTANTS
  Proc,      \* the `outsource slot` processes
  Pool,      \* the pools (--name)
  MaxFiles,  \* no budget is larger than this
  pool,      \* the pool of each process
  budget     \* N of each process: --max, OUTSOURCE_SLOTS or max(1, cores/4)

VARIABLE inside   \* the processes that have a slot

(* The holders in pool l whose own budget is at most k.                    *)
Within(S, l, k) == {p \in S : pool[p] = l /\ budget[p] <= k}

(* Nobody's budget is exceeded by the callers who share it or a smaller one. *)
BudgetsKept(S) ==
  \A l \in Pool, k \in 1..MaxFiles : Cardinality(Within(S, l, k)) <= k

Init == inside = {}

Enter(p) ==
  /\ p \notin inside
  /\ BudgetsKept(inside \cup {p})
  /\ inside' = inside \cup {p}

Leave(p) ==
  /\ p \in inside
  /\ inside' = inside \ {p}

Next == \E p \in Proc : Enter(p) \/ Leave(p)

Spec == Init /\ [][Next]_inside
=============================================================================
