------------------------------- MODULE MCSlot -------------------------------
(* Instances of Slot for TLC. *)
EXTENDS Slot, TLC

CONSTANTS p1, p2, p3, heavy, q1

(* Three rounds share one pool and disagree about N: p1 has N = 1.         *)
SharedPool   == [p \in {p1, p2, p3} |-> heavy]
SharedBudget == [p \in {p1, p2, p3} |-> IF p = p1 THEN 1 ELSE 2]
SharedParent == [p \in {p1, p2, p3} |-> NoProc]
SharedSymmetry == Permutations({p2, p3})

(* p1's script wraps a step of the same pool (p2), p3 is a rival, and      *)
(* somebody runs `slot --status` meanwhile.  All with N = 1.               *)
NestedPool   == [p \in {p1, p2, p3} |-> heavy]
NestedBudget == [p \in {p1, p2, p3} |-> 1]
NestedParent == [p \in {p1, p2, p3} |-> IF p = p2 THEN p1 ELSE NoProc]
NestedProbe  == [q \in {q1} |-> heavy]
NoProbe      == [q \in {} |-> heavy]
=============================================================================
