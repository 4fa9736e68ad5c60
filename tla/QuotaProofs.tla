---------------------------- MODULE QuotaProofs ----------------------------
(***************************************************************************)
(* Proofs about QuotaResume, for every value of the budgets, the horizon   *)
(* and the clock's bounds.                                                 *)
(***************************************************************************)
EXTENDS QuotaResume, TLAPS

(* What the loop keeps besides its counters' types.  A resume is only      *)
(* taken back off by a re-429, which comes after one; every re-429 with    *)
(* the text already met has paid for itself with a re-wait, except the one *)
(* that ends the launch; and every deadline has been paid for by a resume  *)
(* that took, by a re-wait, or is the current one.                         *)
Accounts ==
  /\ attempts = 1 + resumed + retaken
  /\ at # "over" => retaken <= rewaits
  /\ attempts <= 1 + maxResumes + maxRewaits
  /\ at \in {"running", "died"} /\ lastReset # None => resumed >= 1
  /\ at = "waiting" => resumed < maxResumes
  /\ waits <= resumed + rewaits + (IF at \in {"waiting", "over"} THEN 1 ELSE 0)
  /\ WaitsBounded

IInv == TypeOK /\ Accounts

LEMMA DeadlinesAreTimes ==
  ASSUME TypeOK, NEW d \in Deadlines, reset # Unread PROVE d \in Int
<1>. USE QuotaAssumption DEF TypeOK, Deadlines, Time
<1>1. CASE ~pastReset BY <1>1
<1>2. CASE pastReset
  <2>1. PICK w \in Window :
          d = IF Ahead(w) THEN w.until + resetGrace ELSE now + zoneFallbackWait
    BY <1>2
  <2>2. w.until \in Int BY DEF Window
  <2>. QED BY <2>1, <2>2
<1>. QED BY <1>1, <1>2

LEMMA InitHolds == Init => IInv
<1>. USE QuotaAssumption
<1>1. Init => TypeOK
  <2>1. Init => zoneSuspect \in BOOLEAN BY Zenon DEF Init
  <2>. QED BY <2>1 DEF Init, TypeOK, Time, None, Unread
<1>2. Init => Accounts BY DEF Init, Accounts, WaitsBounded, None
<1>. QED BY <1>1, <1>2 DEF IInv

(* The counters after the head of the loop has looked at a death. *)
LEMMA HeadCounts ==
  ASSUME IInv, at = "died"
  PROVE  /\ Counted \in 0..maxResumes
         /\ Rewaits \in Nat /\ Rewaits >= rewaits /\ Rewaits <= rewaits + 1
         /\ ~sameText => Counted = resumed
         /\ sameText => Counted = resumed - 1 /\ Rewaits = rewaits + 1
<1>. USE QuotaAssumption
<1>1. Counted \in 0..maxResumes
  BY DEF IInv, TypeOK, Accounts, Counted, sameText
<1>2. Rewaits \in Nat /\ Rewaits >= rewaits /\ Rewaits <= rewaits + 1
  BY DEF IInv, TypeOK, Rewaits
<1>3. /\ ~sameText => Counted = resumed
      /\ sameText => Counted = resumed - 1 /\ Rewaits = rewaits + 1
  BY DEF Counted, Rewaits
<1>. QED BY <1>1, <1>2, <1>3

LEMMA ResumeHolds ==
  ASSUME IInv, at = "waiting", Resume PROVE IInv'
<1>. USE QuotaAssumption DEF IInv, TypeOK, Accounts, WaitsBounded, Time
<1>1. CASE interrupt = "asked"
  BY <1>1 DEF Resume, Stop, loopVars, waitVars
<1>2. CASE interrupt # "asked"
  BY <1>2 DEF Resume, loopVars, waitVars
<1>. QED BY <1>1, <1>2

LEMMA StepHolds == IInv /\ [Next]_vars => IInv'
<1>. SUFFICES ASSUME IInv, [Next]_vars PROVE IInv'
  OBVIOUS
<1>. USE QuotaAssumption
<1>1. CASE AttemptEnds
  BY <1>1 DEF AttemptEnds, loopVars, waitVars, IInv, TypeOK, Accounts, WaitsBounded, Time
<1>2. CASE AttemptDies
  <2>1. now' \in Time /\ at' = "died" /\ reset' \in Int
    BY <1>2 DEF AttemptDies, IInv, TypeOK, Time, Unread
  <2>. QED BY <1>2, <2>1
       DEF AttemptDies, loopVars, waitVars, IInv, TypeOK, Accounts, WaitsBounded, Time
<1>3. CASE StopUnread
  BY <1>3 DEF StopUnread, Unreadable, Stop, loopVars, waitVars, IInv, TypeOK, Accounts,
              WaitsBounded, Time
<1>4. CASE StopRewaits
  <2>1. at = "died" BY <1>4 DEF StopRewaits
  <2>2. retaken' = IF sameText THEN retaken + 1 ELSE retaken BY <1>4 DEF StopRewaits, Retake
  <2>. QED BY <1>4, <2>1, <2>2, HeadCounts
       DEF StopRewaits, Stop, waitVars, IInv, TypeOK, Accounts, WaitsBounded, Time
<1>5. CASE StopBudget
  <2>1. at = "died" BY <1>5 DEF StopBudget
  <2>2. retaken' = IF sameText THEN retaken + 1 ELSE retaken BY <1>5 DEF StopBudget, Retake
  <2>3. zoneSuspect' \in BOOLEAN BY <1>5 DEF StopBudget, IInv, TypeOK
  <2>. QED BY <1>5, <2>1, <2>2, <2>3, HeadCounts
       DEF StopBudget, Stop, waitVars, IInv, TypeOK, Accounts, WaitsBounded, Time
<1>6. CASE StartWait
  <2>1. at = "died" /\ at' = "waiting" /\ reset # Unread
    BY <1>6 DEF StartWait, Unreadable
  <2>2. retaken' = IF sameText THEN retaken + 1 ELSE retaken BY <1>6 DEF StartWait, Retake
  <2>3. zoneSuspect' \in BOOLEAN BY <1>6 DEF StartWait, IInv, TypeOK
  <2>4. deadline' \in Int /\ deadline' - now <= maxResetHorizon + resetGrace
    BY <1>6, <2>1, DeadlinesAreTimes DEF StartWait, InHorizon, IInv
  <2>. QED BY <1>6, <2>1, <2>2, <2>3, <2>4, HeadCounts
       DEF StartWait, IInv, TypeOK, Accounts, WaitsBounded, Time
<1>7. CASE WaitHeld
  BY <1>7 DEF WaitHeld, Stop, loopVars, waitVars, IInv, TypeOK, Accounts, WaitsBounded, Time
<1>8. CASE Sleep
  <2>1. now' \in Time /\ now' >= now BY <1>8 DEF Sleep, IInv, TypeOK, Time
  <2>. QED BY <1>8, <2>1
       DEF Sleep, loopVars, waitVars, IInv, TypeOK, Accounts, WaitsBounded, Time
<1>9. CASE ReadOpen BY <1>9, ResumeHolds DEF ReadOpen, Asleep
<1>10. CASE ReadOn
  BY <1>10 DEF ReadOn, loopVars, waitVars, IInv, TypeOK, Accounts, WaitsBounded, Time
<1>11. CASE DeadlineResume BY <1>11, ResumeHolds DEF DeadlineResume, Asleep
<1>12. CASE DeadlineStop
  BY <1>12 DEF DeadlineStop, Asleep, Stop, loopVars, waitVars, IInv, TypeOK, Accounts,
               WaitsBounded, Time
<1>13. CASE Extend
  <2>1. deadline' \in Int /\ deadline' - now <= maxResetHorizon + resetGrace
    BY <1>13 DEF Extend, Window, InHorizon, IInv, TypeOK, Time
  <2>. QED BY <1>13, <2>1
       DEF Extend, Asleep, IInv, TypeOK, Accounts, WaitsBounded, Time
<1>14. CASE Ask
  BY <1>14 DEF Ask, loopVars, waitVars, IInv, TypeOK, Accounts, WaitsBounded, Time
<1>15. CASE Term
  BY <1>15 DEF Term, loopVars, waitVars, IInv, TypeOK, Accounts, WaitsBounded, Time
<1>16. CASE UNCHANGED vars
  BY <1>16 DEF vars, loopVars, waitVars, IInv, TypeOK, Accounts, WaitsBounded, Time
<1>. QED BY <1>1, <1>2, <1>3, <1>4, <1>5, <1>6, <1>7, <1>8, <1>9, <1>10, <1>11, <1>12,
            <1>13, <1>14, <1>15, <1>16 DEF Next, Launcher

LEMMA Accounting == Spec => []IInv
BY InitHolds, StepHolds, PTL DEF Spec

(* The counters stay inside their budgets whatever the budgets are: a      *)
(* resume taken back off never leaves resumed_after_reset below zero.      *)
THEOREM CountersInBudget == Spec => []TypeOK
<1>1. IInv => TypeOK BY DEF IInv
<1>. QED BY <1>1, Accounting, PTL

(* A launch starts the harness at most 1 + maxResumes + maxRewaits times,  *)
(* and each attempt is the first, a reported resume, or a re-429.          *)
THEOREM AttemptsAreAccounted == Spec => []AttemptsAccounted
<1>1. IInv => AttemptsAccounted BY DEF IInv, Accounts, AttemptsAccounted
<1>. QED BY <1>1, Accounting, PTL

(* A launch sets at most maxResumes + maxRewaits deadlines, none further   *)
(* ahead than the horizon and the grace.                                   *)
THEOREM WaitsAreBounded == Spec => []WaitsBounded
<1>1. IInv => WaitsBounded BY DEF IInv, Accounts
<1>. QED BY <1>1, Accounting, PTL
=============================================================================
