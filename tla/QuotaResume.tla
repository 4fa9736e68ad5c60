---------------------------- MODULE QuotaResume ----------------------------
(***************************************************************************)
(* --resume-on-reset as a budgeted loop over a clock                       *)
(* (internal/launch/quota_resume.go): an attempt that the plan limit cut   *)
(* is waited out and resumed.  Two budgets bound it, the resumes that took *)
(* and the re-waits, and a reset too far ahead is not waited for.  The     *)
(* races of that wait with `runs stop` are module Round; here the clock,   *)
(* the 429 text and the plan's own window decide.                          *)
(***************************************************************************)
EXTENDS Integers

CONSTANTS
  maxResumes, maxRewaits,
  maxResetHorizon, resetGrace, zoneFallbackWait, planReadEvery,
  MaxRun,      \* bound: how long an attempt lasts
  Skip,        \* bound: how far one sleep may carry the clock (a closed lid)
  MaxClock     \* bound: the end of the modelled time

ASSUME QuotaAssumption ==
  /\ maxResumes \in Nat /\ maxRewaits \in Nat
  /\ maxResetHorizon \in Nat /\ resetGrace \in Nat
  /\ zoneFallbackWait \in 0..(maxResetHorizon + resetGrace)
  /\ planReadEvery \in Nat \ {0} /\ MaxRun \in Nat /\ Skip \in Nat \ {0}
  /\ MaxClock \in Nat

VARIABLES
  at,         \* "running", "died", "waiting" or "over"
  now,        \* quotaNow()
  attempts,   \* how often the harness was started, or was to be
  resumed,    \* r.quota.resumed
  rewaits,    \* the re-waits spent
  reset,      \* the reset time the last death's text names; Unread if none
  lastReset,  \* the text of the death before; None at first
  deadline,   \* when the wait ends at the latest
  nextRead,   \* when the wait reads the plan next
  zoneSuspect,
  interrupt,  \* "asked": a stop request is on the record; "held": the
              \* wrapper caught a signal, with or without one
  retaken,    \* history: re-429s with the text already met
  waits       \* history: deadlines the launch has set

loopVars == <<resumed, rewaits, lastReset, zoneSuspect, retaken>>
waitVars == <<deadline, nextRead, waits>>
vars == <<at, now, attempts, reset, interrupt, loopVars, waitVars>>

None == -1
Unread == -2
Time == 0..MaxClock

(* One read of the plan's tightest window: it failed, or the window is     *)
(* open or spent and resets at `until`, which may be behind us.            *)
Window ==
  {[state |-> "failed", until |-> now]} \cup
  [state : {"open", "spent"}, until : now - 1..now + maxResetHorizon + 1]

(* A window that was read and has its reset still ahead. *)
Ahead(w) == w.state # "failed" /\ w.until > now
StillSpent(w) == Ahead(w) /\ w.state = "spent"

Init ==
  /\ at = "running" /\ now = 0 /\ attempts = 1
  /\ resumed = 0 /\ rewaits = 0 /\ retaken = 0 /\ waits = 0
  /\ reset = Unread /\ lastReset = None
  /\ deadline = 0 /\ nextRead = 0
  /\ zoneSuspect = FALSE /\ interrupt = "none"

-----------------------------------------------------------------------------
(* One attempt.  It ends in anything but a plan-limit death the trail      *)
(* shows, or in one (detectQuota), whose text may name a reset.            *)

AttemptEnds ==
  /\ at = "running"
  /\ at' = "over"
  /\ UNCHANGED <<now, attempts, reset, interrupt, loopVars, waitVars>>

AttemptDies ==
  /\ at = "running"
  /\ \E d \in 0..MaxRun : now + d <= MaxClock /\ now' = now + d
  /\ reset' \in {Unread} \cup {t \in Time : t \in now' - 1..now' + maxResetHorizon + 1}
                         \cup ({lastReset} \ {None})
  /\ at' = "died"
  /\ UNCHANGED <<attempts, interrupt, loopVars, waitVars>>

-----------------------------------------------------------------------------
(* The head of the loop: which deaths are waited out, and until when.      *)

sameText == lastReset # None /\ reset = lastReset
pastReset == now >= reset

(* Mutant of Counted: a reset already past takes a resume off as well. *)
CountedPast == IF sameText \/ pastReset THEN resumed - 1 ELSE resumed

(* The resume that met the same limit did not take. *)
Counted == IF sameText THEN resumed - 1 ELSE resumed

(* Mutant of Rewaits: a re-429 with the same text is free. *)
RewaitsFree == IF pastReset THEN rewaits + 1 ELSE rewaits

Rewaits == IF sameText \/ pastReset THEN rewaits + 1 ELSE rewaits

(* Where the wait ends: the text's reset, or, when that proved wrong, the  *)
(* plan's own reset, or an hour.                                           *)
Deadlines ==
  IF ~pastReset THEN {reset + resetGrace}
  ELSE {IF Ahead(w) THEN w.until + resetGrace ELSE now + zoneFallbackWait : w \in Window}

(* Mutant of InHorizon: nothing is too far. *)
AnyHorizon(d) == d >= 0

InHorizon(d) == d - now <= maxResetHorizon + resetGrace

Unreadable == at = "died" /\ (reset = Unread \/ interrupt = "held")

Stop(counted) ==
  /\ at' = "over" /\ resumed' = counted
  /\ UNCHANGED <<now, attempts, reset, interrupt, lastReset, waitVars>>

(* No reset time, or a signal while it ran. *)
StopUnread ==
  /\ Unreadable
  /\ Stop(resumed)
  /\ UNCHANGED <<rewaits, zoneSuspect, retaken>>

Retake == retaken' = IF sameText THEN retaken + 1 ELSE retaken

(* The re-waits are spent. *)
StopRewaits ==
  /\ at = "died" /\ ~Unreadable
  /\ Rewaits > maxRewaits
  /\ Stop(Counted) /\ Retake
  /\ UNCHANGED <<rewaits, zoneSuspect>>

(* The reset is past the horizon, or the resumes are spent. *)
StopBudget ==
  /\ at = "died" /\ ~Unreadable
  /\ Rewaits <= maxRewaits
  /\ \E d \in Deadlines : ~InHorizon(d) \/ Counted >= maxResumes
  /\ Stop(Counted) /\ Retake
  /\ rewaits' = Rewaits
  /\ zoneSuspect' = (zoneSuspect \/ pastReset)

StartWait ==
  /\ at = "died" /\ ~Unreadable
  /\ Rewaits <= maxRewaits /\ Counted < maxResumes
  /\ \E d \in Deadlines : InHorizon(d) /\ deadline' = d
  /\ at' = "waiting"
  /\ resumed' = Counted /\ rewaits' = Rewaits /\ Retake
  /\ zoneSuspect' = (zoneSuspect \/ pastReset)
  /\ nextRead' = now + planReadEvery
  /\ waits' = waits + 1
  /\ UNCHANGED <<now, attempts, reset, interrupt, lastReset>>

-----------------------------------------------------------------------------
(* waitForPlan.                                                            *)

Asleep == at = "waiting" /\ interrupt # "held"

WaitHeld ==
  /\ at = "waiting" /\ interrupt = "held"
  /\ Stop(resumed)
  /\ UNCHANGED <<rewaits, zoneSuspect, retaken>>

Sleep ==
  /\ Asleep /\ now < deadline /\ now < nextRead
  /\ \E d \in 1..Skip : now + d <= MaxClock /\ now' = now + d
  /\ UNCHANGED <<at, attempts, reset, interrupt, loopVars, waitVars>>

(* After the wait: a stop request, then a held signal, keep it from        *)
(* resuming; else the resume is counted and starts the harness again.      *)
Resume ==
  IF interrupt = "asked" THEN Stop(resumed) /\ UNCHANGED <<rewaits, zoneSuspect, retaken>>
  ELSE /\ at' \in {"running", "over"}    \* "over": it could not start
       /\ attempts' = attempts + 1
       /\ resumed' = resumed + 1
       /\ lastReset' = reset
       /\ UNCHANGED <<now, reset, interrupt, rewaits, zoneSuspect, retaken, waitVars>>

(* The periodic read: a window no longer spent ends the wait early. *)
ReadOpen ==
  /\ Asleep /\ now < deadline /\ now >= nextRead
  /\ Resume

ReadOn ==
  /\ Asleep /\ now < deadline /\ now >= nextRead
  /\ nextRead' = now + planReadEvery
  /\ UNCHANGED <<at, now, attempts, reset, interrupt, loopVars, deadline, waits>>

(* The read at the deadline: not readable, not spent, or a reset behind us *)
(* lets the attempt itself be the judge.                                   *)
DeadlineResume ==
  /\ Asleep /\ now >= deadline
  /\ \E w \in Window : ~StillSpent(w)
  /\ Resume

(* A window still spent extends the wait, inside horizon and budget. *)
DeadlineStop ==
  /\ Asleep /\ now >= deadline
  /\ \E w \in Window :
       StillSpent(w) /\ (~InHorizon(w.until + resetGrace) \/ rewaits >= maxRewaits)
  /\ Stop(resumed)
  /\ UNCHANGED <<rewaits, zoneSuspect, retaken>>

(* Mutant of Extend: the wait is extended as often as the window is spent. *)
ExtendFree ==
  /\ Asleep /\ now >= deadline
  /\ \E w \in Window :
       /\ StillSpent(w) /\ InHorizon(w.until + resetGrace)
       /\ deadline' = w.until + resetGrace
  /\ nextRead' = now + planReadEvery
  /\ UNCHANGED <<at, now, attempts, reset, interrupt, loopVars, waits>>

Extend ==
  /\ Asleep /\ now >= deadline /\ rewaits < maxRewaits
  /\ \E w \in Window :
       /\ StillSpent(w) /\ InHorizon(w.until + resetGrace)
       /\ deadline' = w.until + resetGrace
  /\ rewaits' = rewaits + 1
  /\ nextRead' = now + planReadEvery
  /\ waits' = waits + 1
  /\ UNCHANGED <<at, now, attempts, reset, interrupt, resumed, lastReset, zoneSuspect,
                 retaken>>

-----------------------------------------------------------------------------
(* `runs stop` records its request and then signals; others only signal.   *)

Ask ==
  /\ at # "over" /\ interrupt = "none"
  /\ interrupt' = "asked"
  /\ UNCHANGED <<at, now, attempts, reset, loopVars, waitVars>>

Term ==
  /\ at # "over" /\ interrupt # "held"
  /\ interrupt' = "held"
  /\ UNCHANGED <<at, now, attempts, reset, loopVars, waitVars>>

Launcher ==
  \/ AttemptEnds \/ AttemptDies
  \/ StopUnread \/ StopRewaits \/ StopBudget \/ StartWait
  \/ WaitHeld \/ Sleep \/ ReadOpen \/ ReadOn
  \/ DeadlineResume \/ DeadlineStop \/ Extend

Next == Launcher \/ Ask \/ Term

Spec == Init /\ [][Next]_vars

(* The harness ends some time and the clock runs on. *)
FairSpec == Spec /\ WF_vars(Launcher)

-----------------------------------------------------------------------------
(* The budgets hold as the code means them: a resume taken back off never   *)
(* takes the counter below zero, and neither counter passes its limit.      *)
TypeOK ==
  /\ at \in {"running", "died", "waiting", "over"}
  /\ now \in Time /\ attempts \in Nat
  /\ resumed \in 0..maxResumes /\ rewaits \in 0..maxRewaits
  /\ reset \in Int /\ lastReset \in Int /\ deadline \in Int /\ nextRead \in Int
  /\ zoneSuspect \in BOOLEAN /\ interrupt \in {"none", "asked", "held"}
  /\ retaken \in Nat /\ waits \in Nat

(* However the deaths come, one launch starts the harness a bounded number  *)
(* of times, and every attempt is either the first, a resume the sentinel   *)
(* reports in resumed_after_reset, or one that met the limit it had waited  *)
(* for (quota_resume.go:195-208).                                           *)
AttemptsAccounted ==
  /\ attempts = 1 + resumed + retaken
  /\ attempts <= 1 + maxResumes + maxRewaits

(* The whole launch waits a bounded time: it sets a bounded number of       *)
(* deadlines, and none is further ahead than the horizon.                   *)
WaitsBounded ==
  /\ waits <= maxResumes + maxRewaits
  /\ at = "waiting" => deadline - now <= maxResetHorizon + resetGrace

(* The launch ends, however often the limit bites and the plan stays spent. *)
LaunchEnds == <>(at = "over")
=============================================================================
