------------------------------- MODULE Round -------------------------------
(***************************************************************************)
(* One delegated round from launch to sentinel, and the processes that     *)
(* meet on it: the detached wrapper (internal/launch/outsource.go), the    *)
(* harness child it spawns and respawns, the --max-seconds watchdog, the   *)
(* --resume-on-reset wait, `runs stop` (internal/runs/stop.go) and         *)
(* `outsource wait`.  They share two files, the round's registry record    *)
(* and the sentinel <log>.rc, and they signal each other.  The quota       *)
(* arithmetic of the wait is module QuotaResume, the record file's own     *)
(* races are module Registry.                                              *)
(***************************************************************************)
EXTENDS Naturals, FiniteSets

CONSTANTS
  Round,        \* the rounds, each with a wrapper of its own
  Log,          \* --log paths
  log,          \* the --log of each round
  Stopper,      \* `runs stop` commands
  stops,        \* the round each of them names
  Waiter,       \* `outsource wait` commands
  waits,        \* the round whose log each of them was given
  Resuming,     \* the rounds launched with --resume-on-reset
  Limited,      \* the rounds launched with --max-seconds
  MaxAttempts,  \* bound: how often the harness is started (see QuotaResume)
  Signalled,    \* the rounds whose wrapper somebody outside TERMs (bound)
  Crashed,      \* the rounds whose wrapper is SIGKILLed (bound)
  Earlier,      \* a round that used a log before
  Absent, Empty, \* no sentinel; a sentinel created and not written yet
  Unremoved     \* Earlier's sentinel, once a removal of it has failed

ASSUME RoundAssumption ==
  /\ log \in [Round -> Log]
  /\ stops \in [Stopper -> Round] /\ waits \in [Waiter -> Round]
  /\ Resuming \subseteq Round /\ Limited \subseteq Round
  /\ Signalled \subseteq Round /\ Crashed \subseteq Round
  /\ MaxAttempts \in Nat \ {0}
  /\ Earlier \notin Round
  /\ Absent # Empty /\ Unremoved \notin {Absent, Empty}
  /\ {Absent, Empty, Unremoved} \cap (Round \cup {Earlier}) = {}

VARIABLES
  at,        \* where each wrapper is
  attempt,   \* how often it has started the harness
  child,     \* the latest harness child
  senders,   \* history: who of a stop and the watchdog signalled that child
  watch,     \* its watchdog
  timedOut,  \* r.timedOut, written by the watchdog's goroutine
  hold,      \* a signal the wrapper caught and held
  rec,       \* the registry record
  source,    \* signal_source= as the wrapper reported it
  sentinel,  \* <log>.rc: absent, empty, or the round that wrote it
  stopper,   \* where each `runs stop` is
  aim,       \* the attempt whose pid it verified
  waiter,    \* where each `outsource wait` is
  got        \* the sentinel it printed

childVars == <<child, senders>>
wrapVars  == <<at, attempt, watch, timedOut, hold, source>>
askVars   == <<stopper, aim, waiter, got>>
vars == <<at, attempt, child, senders, watch, timedOut, hold, rec, source,
          sentinel, stopper, aim, waiter, got>>

Gone == {"idle", "over", "bailed", "dead", "killed"}
alive(r) == at[r] \notin Gone

(* The record as Read sees it; Absent before it is published. *)
Record == [child : 0..MaxAttempts, stop : BOOLEAN, waiting : BOOLEAN, rc : BOOLEAN]

ASSUME RoundValues == Absent \notin Record

Registered(r) == rec[r] # Absent
Requested(r) == Registered(r) /\ rec[r].stop

Goto(r, from, to) == at[r] = from /\ at' = [at EXCEPT ![r] = to]

Running(r) == child[r] \in {"running", "termed"}

(* The pid of attempt k is still a process: running, or ended and not      *)
(* reaped yet by the wrapper.                                              *)
PidLives(r, k) ==
  attempt[r] = k /\ (Running(r) \/ at[r] \in {"spawned", "child"})

(* A field appended to the record; the registry may have no such round.    *)
OnRecord(r, new) ==
  rec' = IF Registered(r) THEN [rec EXCEPT ![r] = new] ELSE rec

Init ==
  /\ at = [r \in Round |-> "idle"]
  /\ attempt = [r \in Round |-> 0]
  /\ child = [r \in Round |-> "none"]
  /\ senders = [r \in Round |-> {}]
  /\ watch = [r \in Round |-> "off"]
  /\ timedOut = [r \in Round |-> FALSE]
  /\ hold = [r \in Round |-> FALSE]
  /\ rec = [r \in Round |-> Absent]
  /\ source = [r \in Round |-> "none"]
  /\ sentinel \in [Log -> {Absent, Earlier}]
  /\ stopper = [s \in Stopper |-> "idle"]
  /\ aim = [s \in Stopper |-> 0]
  /\ waiter = [w \in Waiter |-> "idle"]
  /\ got = [w \in Waiter |-> Absent]

-----------------------------------------------------------------------------
(* Launching.  The --detach parent creates the log, clears a sentinel left *)
(* on that path, starts the wrapper and returns.                           *)

(* Mutant of clearStaleSentinel: it is left alone. *)
clearNothing(r) == UNCHANGED sentinel

(* A removal that fails is only noted, and the launch goes on. *)
clearStaleSentinel(r) ==
  \/ sentinel' = [sentinel EXCEPT ![log[r]] = Absent]
  \/ sentinel[log[r]] # Absent /\ sentinel' = [sentinel EXCEPT ![log[r]] = Unremoved]

reexecDetached(r) ==
  /\ Goto(r, "idle", "detached")
  /\ clearStaleSentinel(r)
  /\ UNCHANGED <<attempt, childVars, watch, timedOut, hold, rec, source, askVars>>

(* The wrapper repeats the checks and may refuse; nobody sees why. *)
Refuse(r) ==
  /\ Goto(r, "detached", "bailed")
  /\ UNCHANGED <<attempt, childVars, watch, timedOut, hold, rec, source, sentinel,
                 askVars>>

(* run(): signals are held from here on, the sentinel is cleared again. *)
Begin(r) ==
  /\ Goto(r, "detached", "register")
  /\ clearStaleSentinel(r)
  /\ UNCHANGED <<attempt, childVars, watch, timedOut, hold, rec, source, askVars>>

(* Registering may fail, and the round goes on without a record. *)
registerRun(r) ==
  /\ Goto(r, "register", "spawn")
  /\ \/ UNCHANGED rec
     \/ rec' = [rec EXCEPT ![r] =
                  [child |-> 0, stop |-> FALSE, waiting |-> FALSE, rc |-> FALSE]]
  /\ UNCHANGED <<attempt, childVars, watch, timedOut, hold, source, sentinel, askVars>>

-----------------------------------------------------------------------------
(* runChild: start, record the child's pid, wait for its real exit.        *)

(* The harness is missing or its setup fails.  A first attempt bails; one  *)
(* that resumes still owes a sentinel.                                     *)
Bail(r) ==
  /\ IF attempt[r] = 0 THEN Goto(r, "spawn", "bail") ELSE Goto(r, "spawn", "finish")
  /\ UNCHANGED <<attempt, childVars, watch, timedOut, hold, rec, source, sentinel,
                 askVars>>

(* cmd.Start fails: an attempt without a child. *)
StartFails(r) ==
  /\ Goto(r, "spawn", "reaped")
  /\ attempt' = [attempt EXCEPT ![r] = @ + 1]
  /\ UNCHANGED <<childVars, watch, timedOut, hold, rec, source, sentinel, askVars>>

Spawn(r) ==
  /\ Goto(r, "spawn", "spawned")
  /\ attempt' = [attempt EXCEPT ![r] = @ + 1]
  /\ child' = [child EXCEPT ![r] = "running"]
  /\ senders' = [senders EXCEPT ![r] = {}]
  /\ watch' = [watch EXCEPT ![r] = "off"]
  /\ UNCHANGED <<timedOut, hold, rec, source, sentinel, askVars>>

spawned(r) ==
  /\ Goto(r, "spawned", "child")
  /\ OnRecord(r, [rec[r] EXCEPT !.child = attempt[r]])
  /\ watch' = [watch EXCEPT ![r] = IF r \in Limited THEN "armed" ELSE "off"]
  /\ UNCHANGED <<attempt, childVars, timedOut, hold, source, sentinel, askVars>>

(* cmd.Wait returns, and close(done) sends an armed watchdog home. *)
Reap(r) ==
  /\ child[r] \in {"exited", "signal"}
  /\ Goto(r, "child", "reaped")
  /\ watch' = [watch EXCEPT ![r] = IF @ = "elapsed" THEN @ ELSE "off"]
  /\ UNCHANGED <<attempt, childVars, timedOut, hold, rec, source, sentinel, askVars>>

(* The child ends with a code that names no signal, done or failed.  One   *)
(* that was TERMed may still finish its turn.                              *)
ChildEnds(r) ==
  /\ Running(r)
  /\ child' = [child EXCEPT ![r] = "exited"]
  /\ UNCHANGED <<wrapVars, senders, rec, sentinel, askVars>>

(* It dies of a signal, or exits 128+N for HUP, INT, KILL or TERM.  A stop *)
(* or the watchdog may have sent that signal, and so may somebody outside, *)
(* the kernel (a crash, no memory) or the harness itself.                  *)
ChildDies(r) ==
  /\ Running(r)
  /\ child' = [child EXCEPT ![r] = "signal"]
  /\ UNCHANGED <<wrapVars, senders, rec, sentinel, askVars>>

(* A signal of a stop or the watchdog: TERM, or KILL, which ends the child. *)
SignalChild(r, who, sig) ==
  /\ senders' = [senders EXCEPT ![r] = IF Running(r) THEN @ \cup {who} ELSE @]
  /\ child' = [child EXCEPT ![r] =
       IF ~Running(r) THEN @ ELSE IF sig = "KILL" THEN "signal" ELSE "termed"]

-----------------------------------------------------------------------------
(* The watchdog.  Its goroutine may have left its select when done is      *)
(* closed, and then it writes timedOut while the wrapper reads it.         *)

WatchdogElapses(r) ==
  /\ watch[r] = "armed" /\ at[r] = "child"
  /\ watch' = [watch EXCEPT ![r] = "elapsed"]
  /\ UNCHANGED <<at, attempt, childVars, timedOut, hold, rec, source, sentinel, askVars>>

WatchdogFires(r) ==
  /\ watch[r] = "elapsed" /\ alive(r)
  /\ timedOut' = [timedOut EXCEPT ![r] = TRUE]
  /\ watch' = [watch EXCEPT ![r] = "fired"]
  /\ UNCHANGED <<at, attempt, childVars, hold, rec, source, sentinel, askVars>>

WatchdogTerms(r) ==
  /\ watch[r] = "fired" /\ alive(r)
  /\ watch' = [watch EXCEPT ![r] = IF at[r] = "child" THEN "termed" ELSE "off"]
  /\ SignalChild(r, "watchdog", "TERM")
  /\ UNCHANGED <<at, attempt, timedOut, hold, rec, source, sentinel, askVars>>

WatchdogKills(r) ==
  /\ watch[r] = "termed" /\ at[r] = "child"
  /\ watch' = [watch EXCEPT ![r] = "off"]
  /\ SignalChild(r, "watchdog", "KILL")
  /\ UNCHANGED <<at, attempt, timedOut, hold, rec, source, sentinel, askVars>>

-----------------------------------------------------------------------------
(* runClaudeCodeResuming: after an attempt the round is finished, or waits *)
(* for the plan to reset and resumes.  Whether the trail of an attempt ends *)
(* in the plan limit is open, whatever ended the attempt; why a resume may *)
(* be refused besides what is seen here is in QuotaResume.                 *)

Finish(r) ==
  /\ Goto(r, "reaped", "finish")
  /\ UNCHANGED <<attempt, childVars, watch, timedOut, hold, rec, source, sentinel,
                 askVars>>

(* Mutant of SetWaiting: the budget of resumes is not checked. *)
SetWaitingAlways(r) ==
  /\ r \in Resuming /\ child[r] # "none" /\ ~timedOut[r] /\ ~hold[r]
  /\ Goto(r, "reaped", "waiting")
  /\ OnRecord(r, [rec[r] EXCEPT !.waiting = TRUE])
  /\ UNCHANGED <<attempt, childVars, watch, timedOut, hold, source, sentinel, askVars>>

SetWaiting(r) ==
  /\ r \in Resuming /\ child[r] # "none" /\ ~timedOut[r] /\ ~hold[r]
  /\ attempt[r] < MaxAttempts
  /\ Goto(r, "reaped", "waiting")
  /\ OnRecord(r, [rec[r] EXCEPT !.waiting = TRUE])
  /\ UNCHANGED <<attempt, childVars, watch, timedOut, hold, source, sentinel, askVars>>

(* waitForPlan: a held signal ends the wait, else the plan's reset does.   *)
waitForPlan(r) ==
  /\ at[r] = "waiting"
  /\ at' = [at EXCEPT ![r] = IF hold[r] THEN "finish" ELSE "awake"]
  /\ UNCHANGED <<attempt, childVars, watch, timedOut, hold, rec, source, sentinel,
                 askVars>>

(* A stop request on the record, then a held signal, keep it from resuming. *)
CheckStop(r) ==
  /\ at[r] = "awake"
  /\ at' = [at EXCEPT ![r] = IF Requested(r) THEN "finish" ELSE "checked"]
  /\ UNCHANGED <<attempt, childVars, watch, timedOut, hold, rec, source, sentinel,
                 askVars>>

CheckHold(r) ==
  /\ at[r] = "checked"
  /\ at' = [at EXCEPT ![r] = IF hold[r] THEN "finish" ELSE "clear"]
  /\ UNCHANGED <<attempt, childVars, watch, timedOut, hold, rec, source, sentinel,
                 askVars>>

(* Mutant of ClearWaiting: the record is left waiting when it resumes. *)
ClearNothing(r) ==
  /\ Goto(r, "clear", "spawn")
  /\ UNCHANGED <<attempt, childVars, watch, timedOut, hold, rec, source, sentinel,
                 askVars>>

ClearWaiting(r) ==
  /\ Goto(r, "clear", "spawn")
  /\ OnRecord(r, [rec[r] EXCEPT !.waiting = FALSE])
  /\ UNCHANGED <<attempt, childVars, watch, timedOut, hold, source, sentinel, askVars>>

-----------------------------------------------------------------------------
(* finish(): why the child ended, the registry's rc, then the sentinel.    *)

(* Who ended the child, as far as the wrapper can know. *)
signalSource(r) ==
  IF child[r] # "signal" THEN "none"
  ELSE IF Requested(r) THEN "lead-stop"
  ELSE IF timedOut[r] THEN "watchdog"
  ELSE IF hold[r] THEN "wrapper" ELSE "external"

noteEnding(r) ==
  /\ Goto(r, "finish", "noted")
  /\ source' = [source EXCEPT ![r] = signalSource(r)]
  /\ UNCHANGED <<attempt, childVars, watch, timedOut, hold, rec, sentinel, askVars>>

(* Mutant of finishRun: the registry is left to somebody else. *)
finishNothing(r) ==
  /\ Goto(r, "noted", "closed")
  /\ UNCHANGED <<attempt, childVars, watch, timedOut, hold, rec, source, sentinel,
                 askVars>>

finishRun(r) ==
  /\ Goto(r, "noted", "closed")
  /\ OnRecord(r, [rec[r] EXCEPT !.rc = TRUE])
  /\ UNCHANGED <<attempt, childVars, watch, timedOut, hold, source, sentinel, askVars>>

(* A round that bailed has a registry rc and no sentinel. *)
finishBailed(r) ==
  /\ Goto(r, "bail", "bailed")
  /\ OnRecord(r, [rec[r] EXCEPT !.rc = TRUE])
  /\ UNCHANGED <<attempt, childVars, watch, timedOut, hold, source, sentinel, askVars>>

(* os.WriteFile truncates or creates the file, then writes the body. *)
CreateSentinel(r) ==
  /\ Goto(r, "closed", "writing")
  /\ sentinel' = [sentinel EXCEPT ![log[r]] = Empty]
  /\ UNCHANGED <<attempt, childVars, watch, timedOut, hold, rec, source, askVars>>

WriteSentinel(r) ==
  /\ Goto(r, "writing", "over")
  /\ sentinel' = [sentinel EXCEPT ![log[r]] = r]
  /\ UNCHANGED <<attempt, childVars, watch, timedOut, hold, rec, source, askVars>>

(* Either fails, with a warning: a log in a directory that cannot be written, *)
(* a full disk.                                                            *)
SentinelUnwritten(r) ==
  /\ Goto(r, "closed", "over") \/ Goto(r, "writing", "over")
  /\ UNCHANGED <<attempt, childVars, watch, timedOut, hold, rec, source, sentinel,
                 askVars>>

-----------------------------------------------------------------------------
(* Signals to the wrapper.                                                 *)

(* Mutant of Held: the wrapper goes down with the signal. *)
Unheld(r) == at' = [at EXCEPT ![r] = "dead"] /\ UNCHANGED hold

(* TERM, INT and HUP are held once run() has begun. *)
Held(r) ==
  IF at[r] = "detached"
  THEN at' = [at EXCEPT ![r] = "dead"] /\ UNCHANGED hold
  ELSE hold' = [hold EXCEPT ![r] = TRUE] /\ UNCHANGED at

Term(r) ==
  /\ r \in Signalled /\ alive(r) /\ ~hold[r]
  /\ Held(r)
  /\ UNCHANGED <<attempt, childVars, watch, timedOut, rec, source, sentinel, askVars>>

(* SIGKILL cannot be held, and the child survives it. *)
Crash(r) ==
  /\ r \in Crashed /\ alive(r)
  /\ at' = [at EXCEPT ![r] = "killed"]
  /\ UNCHANGED <<attempt, childVars, watch, timedOut, hold, rec, source, sentinel,
                 askVars>>

-----------------------------------------------------------------------------
(* runs stop.  It reads the record and the process table, records its      *)
(* request, and only then signals.                                         *)

Step(s, from, to) == stopper[s] = from /\ stopper' = [stopper EXCEPT ![s] = to]

(* State() and verifiedChild: a waiting round is stopped by its wrapper, a *)
(* running one by the child on record if that pid is still its child.      *)
Verify(s) ==
  LET r == stops[s]
      open == Registered(r) /\ alive(r) /\ ~rec[r].rc
  IN /\ stopper[s] = "idle" /\ at[r] # "idle"
     /\ stopper' = [stopper EXCEPT ![s] =
          IF open /\ rec[r].waiting THEN "asks-wrapper"
          ELSE IF open /\ rec[r].child > 0 /\ PidLives(r, rec[r].child) THEN "asks-child"
          ELSE "refused"]
     /\ aim' = [aim EXCEPT ![s] = IF Registered(r) THEN rec[r].child ELSE 0]
     /\ UNCHANGED <<wrapVars, childVars, rec, sentinel, waiter, got>>

(* Mutant of RequestStop: the signal goes out first. *)
RequestNothing(r) == UNCHANGED rec

RequestStop(r) == rec' = [rec EXCEPT ![r].stop = TRUE]

Ask(s) ==
  /\ \/ Step(s, "asks-child", "terms-child")
     \/ Step(s, "asks-wrapper", "terms-wrapper")
  /\ RequestStop(stops[s])
  /\ UNCHANGED <<wrapVars, childVars, sentinel, aim, waiter, got>>

(* TERM to the child's pid; a pid that is no process any more fails the    *)
(* stop.                                                                   *)
TermChild(s) ==
  LET r == stops[s]
  IN /\ IF PidLives(r, aim[s])
        THEN Step(s, "terms-child", "waits-gone") /\ SignalChild(r, "stop", "TERM")
        ELSE Step(s, "terms-child", "failed") /\ UNCHANGED <<child, senders>>
     /\ UNCHANGED <<wrapVars, rec, sentinel, aim, waiter, got>>

(* waitGone: the child is gone, or --kill-after passed and KILL goes to    *)
(* its group, which may be gone by then.                                   *)
WaitGone(s) ==
  /\ IF PidLives(stops[s], aim[s]) THEN Step(s, "waits-gone", "kills")
     ELSE Step(s, "waits-gone", "awaits")
  /\ UNCHANGED <<wrapVars, childVars, rec, sentinel, aim, waiter, got>>

KillChild(s) ==
  LET r == stops[s]
  IN /\ IF PidLives(r, aim[s])
        THEN Step(s, "kills", "awaits") /\ SignalChild(r, "stop", "KILL")
        ELSE Step(s, "kills", "failed") /\ UNCHANGED <<child, senders>>
     /\ UNCHANGED <<wrapVars, rec, sentinel, aim, waiter, got>>

TermWrapper(s) ==
  LET r == stops[s]
  IN /\ IF alive(r) THEN Step(s, "terms-wrapper", "awaits") /\ Held(r)
        ELSE Step(s, "terms-wrapper", "failed") /\ UNCHANGED <<at, hold>>
     /\ UNCHANGED <<attempt, childVars, watch, timedOut, rec, source, sentinel, aim,
                    waiter, got>>

(* Mutant of Answered: any file will do. *)
AnsweredAny(r) == sentinel[log[r]] # Absent

(* awaitSentinel: the sentinel has an rc= line, its own round's or another's. *)
Answered(r) == sentinel[log[r]] \notin {Absent, Empty}

Stopped(s) ==
  /\ Answered(stops[s])
  /\ IF sentinel[log[stops[s]]] = Unremoved
     THEN Step(s, "awaits", "misled") ELSE Step(s, "awaits", "stopped")
  /\ UNCHANGED <<wrapVars, childVars, rec, sentinel, aim, waiter, got>>

(* stopSentinelWait passed. *)
StopTimesOut(s) ==
  /\ Step(s, "awaits", "failed")
  /\ UNCHANGED <<wrapVars, childVars, rec, sentinel, aim, waiter, got>>

-----------------------------------------------------------------------------
(* outsource wait, armed once the launch has returned.                     *)

Arm(w) ==
  /\ at[waits[w]] # "idle"
  /\ waiter[w] = "idle"
  /\ waiter' = [waiter EXCEPT ![w] = "polls"]
  /\ UNCHANGED <<wrapVars, childVars, rec, sentinel, stopper, aim, got>>

Poll(w) ==
  /\ waiter[w] = "polls"
  /\ sentinel[log[waits[w]]] # Absent
  /\ waiter' = [waiter EXCEPT ![w] = "printed"]
  /\ got' = [got EXCEPT ![w] = sentinel[log[waits[w]]]]
  /\ UNCHANGED <<wrapVars, childVars, rec, sentinel, stopper, aim>>

-----------------------------------------------------------------------------
(* The wrapper's own steps, which nothing outside holds up. *)
Wrapper(r) ==
  \/ Refuse(r) \/ Begin(r) \/ registerRun(r) \/ Bail(r) \/ StartFails(r)
  \/ Spawn(r) \/ spawned(r) \/ Reap(r) \/ Finish(r) \/ SetWaiting(r) \/ waitForPlan(r) \/ CheckStop(r)
  \/ CheckHold(r) \/ ClearWaiting(r) \/ noteEnding(r) \/ finishRun(r)
  \/ finishBailed(r) \/ CreateSentinel(r) \/ WriteSentinel(r) \/ SentinelUnwritten(r)

Child(r) == ChildEnds(r) \/ ChildDies(r)

Watchdog(r) ==
  WatchdogElapses(r) \/ WatchdogFires(r) \/ WatchdogTerms(r) \/ WatchdogKills(r)

Stop(s) ==
  \/ Verify(s) \/ Ask(s) \/ TermChild(s) \/ WaitGone(s) \/ KillChild(s)
  \/ TermWrapper(s) \/ Stopped(s) \/ StopTimesOut(s)

Next ==
  \/ \E r \in Round :
       \/ reexecDetached(r) \/ Wrapper(r) \/ Child(r) \/ Watchdog(r)
       \/ Term(r) \/ Crash(r)
  \/ \E s \in Stopper : Stop(s)
  \/ \E w \in Waiter : Arm(w) \/ Poll(w)

Spec == Init /\ [][Next]_vars

(* The wrapper runs on, a harness ends some time, a waiter keeps polling.  *)
Fairness ==
  /\ \A r \in Round : WF_vars(Wrapper(r)) /\ WF_vars(Child(r))
  /\ \A w \in Waiter : WF_vars(Poll(w))

FairSpec == Spec /\ Fairness

-----------------------------------------------------------------------------
Places == Gone \cup
  {"detached", "register", "spawn", "bail", "spawned", "child", "reaped",
   "waiting", "awake", "checked", "clear", "finish", "noted", "closed", "writing"}

TypeOK ==
  /\ at \in [Round -> Places]
  /\ attempt \in [Round -> 0..MaxAttempts]
  /\ child \in [Round -> {"none", "running", "termed", "exited", "signal"}]
  /\ senders \in [Round -> SUBSET {"stop", "watchdog"}]
  /\ watch \in [Round -> {"off", "armed", "elapsed", "fired", "termed"}]
  /\ timedOut \in [Round -> BOOLEAN] /\ hold \in [Round -> BOOLEAN]
  /\ rec \in [Round -> Record \cup {Absent}]
  /\ source \in [Round -> {"none", "lead-stop", "watchdog", "wrapper", "external"}]
  /\ sentinel \in [Log -> Round \cup {Earlier, Absent, Empty, Unremoved}]
  /\ stopper \in [Stopper -> {"idle", "refused", "asks-child", "asks-wrapper",
                  "terms-child", "terms-wrapper", "waits-gone", "kills", "awaits",
                  "stopped", "misled", "failed"}]
  /\ aim \in [Stopper -> 0..MaxAttempts]
  /\ waiter \in [Waiter -> {"idle", "polls", "printed"}]
  /\ got \in [Waiter -> Round \cup {Earlier, Absent, Empty, Unremoved}]

(* No sentinel predates the round it is evidence for (grok.go:596-607): as  *)
(* long as no other round has its log, a round that was launched and is not *)
(* writing finds no sentinel but its own, or one that could not be removed. *)
SentinelIsOurs ==
  \A r \in Round : at[r] # "idle" =>
    sentinel[log[r]] \in {Absent, Empty, Unremoved, r}

(* Whoever was told that a round is over is told the truth: no harness of   *)
(* it runs, and the registry says so too, because the record has its rc     *)
(* before the sentinel can be read, by `wait`, which prints it, or by `runs *)
(* stop`, which answers from it.  A sentinel that could not be removed      *)
(* misleads both.                                                           *)
OnlyWhenOver(r) == ~Running(r) /\ (Registered(r) => rec[r].rc)

ToldAfterRecorded ==
  /\ \A w \in Waiter :
       waiter[w] = "printed" /\ got[w] # Unremoved => OnlyWhenOver(waits[w])
  /\ \A s \in Stopper : stopper[s] = "stopped" =>
       OnlyWhenOver(stops[s]) /\ ~alive(stops[s])

(* Nobody outside is blamed for what the tool did: an ending is reported as *)
(* external only when neither a stop nor the watchdog had signalled that    *)
(* harness, in whatever order the request, the signal, its own death and    *)
(* the exit come.  What did end it the wrapper cannot know.                 *)
NeverBlamesOutside ==
  \A r \in Round : source[r] = "external" => senders[r] = {}

(* A round shown as waiting has no harness running (record.go:109-112), so  *)
(* the wrapper is the one process `runs stop` must signal.                  *)
WaitingHasNoHarness ==
  \A r \in Round : Registered(r) /\ alive(r) /\ rec[r].waiting => ~Running(r)

(* The wrapper finishes its paperwork: once begun, a round not SIGKILLed    *)
(* ends after its sentinel (or the warning that it could not be written),   *)
(* or with no more than its registry rc when its harness could not be       *)
(* started, through every TERM, stop, timeout and death of the harness.     *)
PaperworkDone ==
  \A r \in Round :
    at[r] = "register" ~> \/ at[r] \in {"over", "bailed"}
                            /\ (Registered(r) => rec[r].rc)
                         \/ at[r] = "killed"

(* A stop on record keeps the harness from being started again              *)
(* (quota_resume.go:232-233).                                               *)
StopKeepsDown ==
  [][\A r \in Round : Requested(r) /\ ~Running(r) => child'[r] # "running"]_vars
=============================================================================
