-------------------------------- MODULE Slot --------------------------------
(***************************************************************************)
(* `outsource slot`: a machine-wide counting semaphore built from flock on *)
(* the files <pool>/0.lock, <pool>/1.lock, ... (internal/slot/slot.go).    *)
(*                                                                         *)
(* Every process is one invocation of the tool and runs once.  It wraps a  *)
(* command, and the command may itself invoke the tool (parent).  A pass   *)
(* over the files is not atomic: each open and flock is a step of its own. *)
(* `slot --status` is a Prober: it takes each file's lock shared for a     *)
(* moment, which is enough to make an acquirer's non-blocking lock fail.   *)
(***************************************************************************)
EXTENDS Naturals, FiniteSets

CONSTANTS
  Proc,        \* the tool's processes
  Pool,        \* the pools
  Prober,      \* the `slot --status` processes
  MaxFiles,    \* the largest N any caller brings
  NoProc,      \* nobody
  pool,        \* --name of each process
  budget,      \* N of each process
  parent,      \* the process whose command invokes this one, or NoProc
  Background,  \* the processes whose command does not wait for what it starts
  Disturbed,   \* the processes somebody signals or kills (bound)
  probePool    \* the pool each prober lists

ASSUME SlotAssumption ==
  /\ MaxFiles \in Nat \ {0}
  /\ NoProc \notin Proc
  /\ IsFiniteSet(Proc)
  /\ pool \in [Proc -> Pool]
  /\ budget \in [Proc -> 1..MaxFiles]
  /\ parent \in [Proc -> Proc \cup {NoProc}]
  /\ Background \subseteq Proc /\ Disturbed \subseteq Proc
  /\ probePool \in [Prober -> Pool]

Index == 0..(MaxFiles - 1)

VARIABLES
  pc,       \* where each process is
  idx,      \* the file a process tries, and later the one it holds
  ex,       \* who has LOCK_EX on each file
  rec,      \* whose holder record each file contains
  waiter,   \* the processes with a file under <pool>/waiters/
  waited,   \* a process found every file of its budget taken at least once
  mode,     \* how it runs: on a slot, straight through, or open (no slot)
  env,      \* the pools in the OUTSOURCE_SLOT_HELD of its command
  cmd,      \* the wrapped command
  sig,      \* the process's signal: none, queued in its channel, or taken
  probeAt,  \* the next file a prober looks at
  probing   \* a prober has LOCK_SH on that file

procVars  == <<pc, idx, waited, mode, env, sig>>
probeVars == <<probeAt, probing>>
vars      == <<pc, idx, ex, rec, waiter, waited, mode, env, cmd, sig,
               probeAt, probing>>

Locations == {"idle", "try", "poll", "locked", "start", "run", "truncate",
              "close", "done", "killed"}

(* The process exists: kill(pid, 0) succeeds. *)
alive(p) == pc[p] \notin {"idle", "done", "killed"}

(* OUTSOURCE_SLOT_HELD as the process finds it. *)
heldEnv(p) == IF parent[p] = NoProc THEN {} ELSE env[parent[p]]

(* A prober has the file's shared lock. *)
shared(l, i) == \E q \in Prober : probing[q] /\ probePool[q] = l /\ probeAt[q] = i

Goto(p, from, to) == pc[p] = from /\ pc' = [pc EXCEPT ![p] = to]

Init ==
  /\ pc = [p \in Proc |-> "idle"]
  /\ idx = [p \in Proc |-> 0]
  /\ ex = [l \in Pool |-> [i \in Index |-> NoProc]]
  /\ rec = [l \in Pool |-> [i \in Index |-> NoProc]]
  /\ waiter = [l \in Pool |-> {}]
  /\ waited = [p \in Proc |-> FALSE]
  /\ mode = [p \in Proc |-> "none"]
  /\ env = [p \in Proc |-> {}]
  /\ cmd = [p \in Proc |-> "none"]
  /\ sig = [p \in Proc |-> "none"]
  /\ probeAt = [q \in Prober |-> 0]
  /\ probing = [q \in Prober |-> FALSE]

-----------------------------------------------------------------------------
(* Starting.  Main reads the held pools, and a pool an ancestor holds is   *)
(* not taken again: the command runs straight through.                     *)

CanStart(p) == parent[p] # NoProc => cmd[parent[p]] = "running"

(* holds(): the pool is in the list the ancestors passed down. *)
holds(p) == pool[p] \in heldEnv(p)

Through(p) ==
  /\ CanStart(p)
  /\ holds(p)
  /\ Goto(p, "idle", "start")
  /\ mode' = [mode EXCEPT ![p] = "through"]
  /\ env' = [env EXCEPT ![p] = heldEnv(p)]
  /\ UNCHANGED <<idx, ex, rec, waiter, waited, cmd, sig, probeVars>>

Acquire(p) ==
  /\ CanStart(p)
  /\ ~holds(p)
  /\ Goto(p, "idle", "try")
  /\ env' = [env EXCEPT ![p] = heldEnv(p)]
  /\ UNCHANGED <<idx, ex, rec, waiter, waited, mode, cmd, sig, probeVars>>

(* A bad flag, a git command, a command that is not on PATH: refused before *)
(* any slot is taken.                                                       *)
Refuse(p) ==
  /\ CanStart(p)
  /\ Goto(p, "idle", "done")
  /\ UNCHANGED <<idx, ex, rec, waiter, waited, mode, env, cmd, sig, probeVars>>

-----------------------------------------------------------------------------
(* acquire(): passes over files 0..N-1, in order, until one is free.       *)

(* The deferred unregister(): whatever acquire returns, its file goes. *)
Unregister(p) == waiter' = [waiter EXCEPT ![pool[p]] = @ \ {p}]

(* Mutant of Lockable: the holder takes the lock shared. *)
LockableShared(p) == TRUE

(* flock(LOCK_EX|LOCK_NB) succeeds: nobody has the file, shared or not. *)
Lockable(p) == ex[pool[p]][idx[p]] = NoProc /\ ~shared(pool[p], idx[p])

TakeFile(p) ==
  /\ idx[p] < budget[p]
  /\ Lockable(p)
  /\ Goto(p, "try", "locked")
  /\ ex' = [ex EXCEPT ![pool[p]][idx[p]] = p]
  /\ mode' = [mode EXCEPT ![p] = "slot"]
  /\ UNCHANGED <<idx, rec, waiter, waited, env, cmd, sig, probeVars>>

(* Mutant of SkipFile: the pass does not end at the caller's N. *)
SkipPastBudget(p) ==
  /\ pc[p] = "try"
  /\ idx' = [idx EXCEPT ![p] = @ + 1]
  /\ UNCHANGED <<pc, ex, rec, waiter, waited, mode, env, cmd, sig, probeVars>>

(* EWOULDBLOCK: on to the next file. *)
SkipFile(p) ==
  /\ pc[p] = "try"
  /\ idx[p] < budget[p]
  /\ ~Lockable(p)
  /\ idx' = [idx EXCEPT ![p] = @ + 1]
  /\ UNCHANGED <<pc, ex, rec, waiter, waited, mode, env, cmd, sig, probeVars>>

(* registerWaiter: prune the files of dead processes, then write our own;  *)
(* the write is best effort.                                               *)
registerWaiter(p) ==
  LET live == {q \in waiter[pool[p]] : alive(q)}
  IN  \E mine \in {{}, {p}} : waiter' = [waiter EXCEPT ![pool[p]] = live \cup mine]

(* The pass found every file taken: register the first time, then sleep. *)
PassFailed(p) ==
  /\ idx[p] = budget[p]
  /\ Goto(p, "try", "poll")
  /\ IF waited[p] THEN UNCHANGED waiter ELSE registerWaiter(p)
  /\ waited' = [waited EXCEPT ![p] = TRUE]
  /\ UNCHANGED <<idx, ex, rec, mode, env, cmd, sig, probeVars>>

(* Mutant of Poll: the next pass goes on where the last one ended. *)
PollNoRewind(p) ==
  /\ Goto(p, "poll", "try")
  /\ UNCHANGED <<idx, ex, rec, waiter, waited, mode, env, cmd, sig, probeVars>>

(* The next pass begins at file 0 again. *)
Poll(p) ==
  /\ Goto(p, "poll", "try")
  /\ idx' = [idx EXCEPT ![p] = 0]
  /\ UNCHANGED <<ex, rec, waiter, waited, mode, env, cmd, sig, probeVars>>

(* Mutant of GiveUp: the signal handler returns past the deferred removal. *)
GiveUpRegistered(p) ==
  /\ sig[p] = "queued"
  /\ Goto(p, "poll", "done")
  /\ sig' = [sig EXCEPT ![p] = "taken"]
  /\ UNCHANGED <<idx, ex, rec, waiter, waited, mode, env, cmd, probeVars>>

(* A signal while waiting: acquire returns 128+n. *)
GiveUp(p) ==
  /\ sig[p] = "queued"
  /\ Goto(p, "poll", "done")
  /\ sig' = [sig EXCEPT ![p] = "taken"]
  /\ Unregister(p)
  /\ UNCHANGED <<idx, ex, rec, waited, mode, env, cmd, probeVars>>

(* Mutant of FailOpen: the pool joins the list although no slot was taken. *)
FailOpenAsHeld(p) ==
  /\ idx[p] < budget[p]
  /\ Goto(p, "try", "start")
  /\ mode' = [mode EXCEPT ![p] = "open"]
  /\ env' = [env EXCEPT ![p] = @ \cup {pool[p]}]
  /\ Unregister(p)
  /\ UNCHANGED <<idx, ex, rec, waited, cmd, sig, probeVars>>

(* The pool's directory or a file cannot be used: run without a slot. *)
FailOpen(p) ==
  /\ idx[p] < budget[p]
  /\ Goto(p, "try", "start")
  /\ mode' = [mode EXCEPT ![p] = "open"]
  /\ Unregister(p)
  /\ UNCHANGED <<idx, ex, rec, waited, env, cmd, sig, probeVars>>

(* The record is written under the lock, acquire returns, and the pool     *)
(* joins the list the command will see.                                    *)
WriteRecord(p) ==
  /\ Goto(p, "locked", "start")
  /\ rec' = [rec EXCEPT ![pool[p]][idx[p]] = p]
  /\ env' = [env EXCEPT ![p] = @ \cup {pool[p]}]
  /\ Unregister(p)
  /\ UNCHANGED <<idx, ex, waited, mode, cmd, sig, probeVars>>

-----------------------------------------------------------------------------
(* runCommand() and the deferred release().                                *)

StartCommand(p) ==
  /\ Goto(p, "start", "run")
  /\ cmd' = [cmd EXCEPT ![p] = "running"]
  /\ UNCHANGED <<idx, ex, rec, waiter, waited, mode, env, sig, probeVars>>

(* Mutant of afterCommand: the file is closed without emptying the record. *)
closeAtOnce(p) == IF mode[p] = "slot" THEN "close" ELSE "done"

afterCommand(p) == IF mode[p] = "slot" THEN "truncate" ELSE "done"

(* exec.Cmd.Start fails: exit 126, the slot released on the way out. *)
CannotRun(p) ==
  /\ Goto(p, "start", afterCommand(p))
  /\ UNCHANGED <<idx, ex, rec, waiter, waited, mode, env, cmd, sig, probeVars>>

(* TERM/INT/HUP goes on to the command; the tool keeps waiting for it. *)
Forward(p) ==
  /\ pc[p] = "run"
  /\ sig[p] = "queued"
  /\ sig' = [sig EXCEPT ![p] = "taken"]
  /\ UNCHANGED <<pc, idx, ex, rec, waiter, waited, mode, env, cmd, probeVars>>

(* The command is done.  One that waits for the steps it started cannot    *)
(* be done before they are, unless a forwarded signal ends it.             *)
CommandExits(p) ==
  /\ cmd[p] = "running"
  /\ \/ p \in Background \/ sig[p] = "taken"
     \/ \A c \in Proc : parent[c] = p => ~alive(c)
  /\ cmd' = [cmd EXCEPT ![p] = "exited"]
  /\ UNCHANGED <<procVars, ex, rec, waiter, probeVars>>

(* Mutant of CommandReaped: the tool does not wait for its command. *)
CommandLeft(p) ==
  /\ Goto(p, "run", afterCommand(p))
  /\ UNCHANGED <<idx, ex, rec, waiter, waited, mode, env, cmd, sig, probeVars>>

CommandReaped(p) ==
  /\ cmd[p] = "exited"
  /\ Goto(p, "run", afterCommand(p))
  /\ UNCHANGED <<idx, ex, rec, waiter, waited, mode, env, cmd, sig, probeVars>>

(* release(): empty the record while the lock is still held ... *)
Truncate(p) ==
  /\ Goto(p, "truncate", "close")
  /\ rec' = [rec EXCEPT ![pool[p]][idx[p]] = NoProc]
  /\ UNCHANGED <<idx, ex, waiter, waited, mode, env, cmd, sig, probeVars>>

(* ... then drop the lock by closing the file. *)
Close(p) ==
  /\ Goto(p, "close", "done")
  /\ ex' = [ex EXCEPT ![pool[p]][idx[p]] = NoProc]
  /\ UNCHANGED <<idx, rec, waiter, waited, mode, env, cmd, sig, probeVars>>

-----------------------------------------------------------------------------
(* What reaches the processes from outside.                                *)

(* signal.Notify runs before the wait, so a signal is queued, not fatal.   *)
(* Bound: one signal per process.                                          *)
Signal(p) ==
  /\ p \in Disturbed
  /\ alive(p)
  /\ sig[p] = "none"
  /\ sig' = [sig EXCEPT ![p] = "queued"]
  /\ UNCHANGED <<pc, idx, ex, rec, waiter, waited, mode, env, cmd, probeVars>>

(* SIGKILL: the kernel drops the lock; the record, the waiter file and the *)
(* command stay behind.                                                    *)
Sigkill(p) ==
  /\ p \in Disturbed
  /\ alive(p)
  /\ pc' = [pc EXCEPT ![p] = "killed"]
  /\ ex' = [l \in Pool |-> [i \in Index |-> IF ex[l][i] = p THEN NoProc ELSE ex[l][i]]]
  /\ UNCHANGED <<idx, rec, waiter, waited, mode, env, cmd, sig, probeVars>>

(* status(): heldNow() on each file in turn, with LOCK_SH|LOCK_NB. *)
ProbeFree(q) ==
  /\ probeAt[q] < MaxFiles
  /\ ~probing[q]
  /\ ex[probePool[q]][probeAt[q]] = NoProc
  /\ probing' = [probing EXCEPT ![q] = TRUE]
  /\ UNCHANGED <<procVars, ex, rec, waiter, cmd, probeAt>>

ProbeHeld(q) ==
  /\ probeAt[q] < MaxFiles
  /\ ~probing[q]
  /\ ex[probePool[q]][probeAt[q]] # NoProc
  /\ probeAt' = [probeAt EXCEPT ![q] = @ + 1]
  /\ UNCHANGED <<procVars, ex, rec, waiter, cmd, probing>>

ProbeClose(q) ==
  /\ probing[q]
  /\ probing' = [probing EXCEPT ![q] = FALSE]
  /\ probeAt' = [probeAt EXCEPT ![q] = @ + 1]
  /\ UNCHANGED <<procVars, ex, rec, waiter, cmd>>

-----------------------------------------------------------------------------
(* A step the process takes by itself. *)
Step(p) ==
  \/ TakeFile(p) \/ SkipFile(p) \/ PassFailed(p) \/ Poll(p) \/ GiveUp(p)
  \/ WriteRecord(p) \/ StartCommand(p) \/ Forward(p) \/ CommandReaped(p)
  \/ Truncate(p) \/ Close(p)

Begin(p) == Through(p) \/ Acquire(p) \/ Refuse(p)

Probe(q) == ProbeFree(q) \/ ProbeHeld(q) \/ ProbeClose(q)

Next ==
  \/ \E p \in Proc :
       \/ Begin(p) \/ Step(p) \/ CommandExits(p)
       \/ FailOpen(p) \/ CannotRun(p) \/ Signal(p) \/ Sigkill(p)
  \/ \E q \in Prober : Probe(q)

(* The scheduler runs every process, commands end, and a prober moves on.  *)
(* Nothing forces a start, a signal, a kill or a failure.                  *)
Fairness ==
  /\ \A p \in Proc : WF_vars(Step(p)) /\ WF_vars(CommandExits(p))
  /\ \A q \in Prober : WF_vars(Probe(q))

Spec == Init /\ [][Next]_vars

FairSpec == Spec /\ Fairness

-----------------------------------------------------------------------------
(* The state has the shapes the code gives it: a process is at one of the  *)
(* stages of Main, and no index leaves the files of its pool.              *)
TypeOK ==
  /\ pc \in [Proc -> Locations]
  /\ idx \in [Proc -> 0..MaxFiles]
  /\ ex \in [Pool -> [Index -> Proc \cup {NoProc}]]
  /\ rec \in [Pool -> [Index -> Proc \cup {NoProc}]]
  /\ waiter \in [Pool -> SUBSET Proc]
  /\ waited \in [Proc -> BOOLEAN]
  /\ mode \in [Proc -> {"none", "slot", "through", "open"}]
  /\ env \in [Proc -> SUBSET Pool]
  /\ cmd \in [Proc -> {"none", "running", "exited"}]
  /\ sig \in [Proc -> {"none", "queued", "taken"}]
  /\ probeAt \in [Prober -> 0..MaxFiles]
  /\ probing \in [Prober -> BOOLEAN]
  /\ \A q \in Prober : probing[q] => probeAt[q] \in Index

(* The commands that run on a slot their tool still holds. *)
Throttled == {p \in Proc : cmd[p] = "running" /\ mode[p] = "slot" /\ pc[p] # "killed"}

Semaphore == INSTANCE SlotSemaphore WITH
               inside <- {p \in Proc : \E l \in Pool, i \in Index : ex[l][i] = p}

(* "callers that disagree about N share the low files and none of them     *)
(* exceeds its own budget" (the package comment): of the commands running  *)
(* on a slot of a pool, those whose tool was given at most k are at most k.*)
BudgetRespected == Semaphore!BudgetsKept(Throttled)

(* "the slot is held for exactly the command's life" (runCommand): while a *)
(* command that was given a slot runs and its tool was not SIGKILLed, the  *)
(* tool has the lock and the record in the file is its own.                *)
SlotCoversCommand ==
  \A p \in Throttled : ex[pool[p]][idx[p]] = p /\ rec[pool[p]][idx[p]] = p

(* "a released slot never shows the last holder as if it were current"     *)
(* (release): a record names the holder, or a holder that was SIGKILLed.   *)
RecordNamesHolder ==
  \A l \in Pool, i \in Index : \A p \in Proc :
    rec[l][i] = p => ex[l][i] = p \/ pc[p] = "killed"

(* A waiter file belongs to a process that is still in acquire(), or that  *)
(* was SIGKILLed there: a timeout that TERMs a waiter leaves none behind.  *)
WaitersAreWaiting ==
  \A l \in Pool : \A p \in waiter[l] :
    pool[p] = l /\ pc[p] \in {"try", "poll", "locked", "killed"}

(* The processes whose commands p runs inside of: the least set that has   *)
(* p's parent and the parents of its members.                              *)
ancestors(p) ==
  {a \in Proc : \A S \in SUBSET Proc :
     (\A q \in S \cup {p} : parent[q] = NoProc \/ parent[q] \in S) => a \in S}

(* "the ancestor's slot already pays for it" (heldEnvKey): a command that  *)
(* runs straight through does so inside the slot of an ancestor, as long   *)
(* as neither its tool nor an ancestor was SIGKILLed, and no ancestor had  *)
(* a signal to forward, which may end its command before the nested one.   *)
ThroughIsPaidFor ==
  \A p \in Proc :
    /\ mode[p] = "through"
    /\ cmd[p] = "running"
    /\ \A a \in ancestors(p) \cup {p} : pc[a] # "killed"
    /\ \A a \in ancestors(p) : sig[a] # "taken"
    => \E a \in ancestors(p) : pool[a] = pool[p] /\ ex[pool[a]][idx[a]] = a

(* A process that asks for a slot is not left waiting: it gets one, or it  *)
(* gives up on a signal.  Nested calls in particular do not wait for a     *)
(* slot their own ancestor holds.                                          *)
EveryWaiterServed ==
  \A p \in Proc : pc[p] = "try" ~> pc[p] \in {"run", "done", "killed"}

(* Every step of the tool is a step of the abstract semaphore, or none. *)
ImplementsSemaphore == Semaphore!Spec
=============================================================================
