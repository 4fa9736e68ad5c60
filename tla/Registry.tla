------------------------------ MODULE Registry ------------------------------
(***************************************************************************)
(* The registry of delegated rounds (internal/runs/cli.go, record.go): one *)
(* file <startedAt>-<pid>[-n].run per round in one directory, shared by    *)
(* every launcher, hook and person on the machine, with no lock.           *)
(*                                                                         *)
(* A round publishes its record, prunes the directory, runs, and appends   *)
(* its outcome in two writes; a hook inside the round appends where its    *)
(* trail is; `runs prune` and `runs dismiss` read a record and remove the  *)
(* file in a second step.  Every read, append, rename and remove is a step *)
(* of its own, and a launcher can be killed between any two.               *)
(***************************************************************************)
EXTENDS Integers, Sequences

CONSTANTS
  Round,        \* the rounds launched, each by a wrapper of its own
  Pid,          \* process ids the kernel hands out, and recycles
  NoPid,
  Pruner,       \* `runs prune` commands
  Dismisser,    \* `runs dismiss` commands
  Hook,         \* SessionStart hooks, each firing once
  Path,         \* trails
  KeepSeconds,  \* KeepSecondsDefault
  keepSeconds,  \* --keep-seconds of each `runs prune`
  hookRun,      \* the round whose id a hook was given
  hookPath,     \* the trail a hook reveals
  Epoch,        \* the time now
  MaxTime,      \* bound: the clock stops here
  MaxSuffix,    \* bound: the largest id suffix
  Junk,         \* the ids of unreadable files left in the directory
  Shaky,        \* the names a read of which may fail for a moment (bound)
  HurriedReuse, \* a name may be reused while somebody is about to remove it
  NoRecord, Unreadable, NoTime, NoId

Time == Epoch..MaxTime
Id == Time \X Pid \X (1..MaxSuffix)
Prunes == Pruner \cup Round
Housekeeper == Prunes \cup Dismisser

ASSUME RegistryAssumption ==
  /\ Epoch \in Nat /\ MaxTime \in Nat /\ Epoch <= MaxTime
  /\ MaxSuffix \in Nat \ {0}
  /\ KeepSeconds \in Nat /\ keepSeconds \in [Pruner -> Nat]
  /\ hookRun \in [Hook -> Round] /\ hookPath \in [Hook -> Path]
  /\ Junk \subseteq Id /\ Shaky \subseteq Id /\ NoId \notin Id
  /\ NoPid \notin Pid
  /\ HurriedReuse \in BOOLEAN
  /\ Dismisser \cap Prunes = {} /\ Pruner \cap Round = {}

(* A record as Read parses it: `trail` holds the values of the trail= lines *)
(* in file order, of which the last is the answer.                          *)
Record == [round : Round, rc : BOOLEAN, finishedAt : Time \cup {NoTime},
           trail : Seq(Path), conflict : SUBSET Path]

ASSUME RegistryValues ==
  /\ NoRecord \notin Record /\ Unreadable \notin Record
  /\ NoRecord # Unreadable /\ NoTime \notin Time

VARIABLES
  now,
  file,      \* the directory: what is under each name
  at,        \* where each round's wrapper is
  pid, startedAt, suffix,   \* of each round; together they are its id
  todo,      \* the names a prune still has to look at
  doomed,    \* the name a housekeeper has read and is about to remove
  keeper,    \* whether a `prune` or `dismiss` command has run
  hook,      \* where each hook is: fresh, about to write a key, wrote, quiet
  overlap,   \* history: the names on which two hooks had both decided on trail=
  dismissed  \* history: the rounds whose record `dismiss` removed

hookVars == <<hook, overlap>>
launchVars == <<pid, startedAt, suffix>>
vars == <<now, file, at, pid, startedAt, suffix, todo, doomed, keeper, hook,
          overlap, dismissed>>

Working == {"probe", "publish", "published", "prune", "run", "open", "rc"}

alive(r) == at[r] \in Working
id(r) == <<startedAt[r], pid[r], suffix[r]>>
readable(i) == file[i] \notin {NoRecord, Unreadable}

Goto(r, from, to) == at[r] = from /\ at' = [at EXCEPT ![r] = to]

(* State().Live(): no rc, and a process has the record's pid. *)
Live(i) == ~file[i].rc /\ \E r \in Round : alive(r) /\ pid[r] = i[2]

Init ==
  /\ now = Epoch
  /\ file = [i \in Id |-> IF i \in Junk THEN Unreadable ELSE NoRecord]
  /\ at = [r \in Round |-> "idle"]
  /\ pid = [r \in Round |-> NoPid]
  /\ startedAt = [r \in Round |-> Epoch]
  /\ suffix = [r \in Round |-> 1]
  /\ todo = [h \in Prunes |-> {}]
  /\ doomed = [h \in Housekeeper |-> NoId]
  /\ keeper = [h \in Pruner \cup Dismisser |-> "idle"]
  /\ hook = [h \in Hook |-> "fresh"]
  /\ overlap = {}
  /\ dismissed = {}

Tick ==
  /\ now < MaxTime
  /\ now' = now + 1
  /\ UNCHANGED <<file, at, launchVars, todo, doomed, keeper, hookVars, dismissed>>

-----------------------------------------------------------------------------
(* runs start *)

(* The launcher is a new process, and its second is read once. *)
Launch(r, p) ==
  /\ \A q \in Round : alive(q) => pid[q] # p
  /\ Goto(r, "idle", "probe")
  /\ pid' = [pid EXCEPT ![r] = p]
  /\ startedAt' = [startedAt EXCEPT ![r] = now]
  /\ UNCHANGED <<now, file, suffix, todo, doomed, keeper, hookVars, dismissed>>

(* Somebody's record already has this name: try the next suffix. *)
NextSuffix(r) ==
  /\ at[r] = "probe"
  /\ file[id(r)] # NoRecord
  /\ suffix[r] < MaxSuffix
  /\ suffix' = [suffix EXCEPT ![r] = @ + 1]
  /\ UNCHANGED <<now, file, at, pid, startedAt, todo, doomed, keeper, hookVars,
                 dismissed>>

(* Mutant of NameFree: the name is taken to be unique because a pid is. *)
NameAssumedFree(r) == \A h \in Housekeeper : doomed[h] # id(r)

(* Nothing has the name.  Unless HurriedReuse, nobody is between reading   *)
(* and removing that very name either.                                     *)
NameFree(r) ==
  /\ file[id(r)] = NoRecord
  /\ HurriedReuse \/ \A h \in Housekeeper : doomed[h] # id(r)

Probed(r) ==
  /\ Goto(r, "probe", "publish")
  /\ NameFree(r)
  /\ UNCHANGED <<now, file, launchVars, todo, doomed, keeper, hookVars, dismissed>>

(* Write a temporary file, rename it: the record appears whole. *)
Publish(r) ==
  /\ Goto(r, "publish", "published")
  /\ file' = [file EXCEPT ![id(r)] =
       [round |-> r, rc |-> FALSE, finishedAt |-> NoTime, trail |-> <<>>,
        conflict |-> {}]]
  /\ UNCHANGED <<now, launchVars, todo, doomed, keeper, hookVars, dismissed>>

-----------------------------------------------------------------------------
(* Housekeeping: pruneOlderThan, at the end of every start and from        *)
(* `runs prune`, and `runs dismiss`.                                       *)

NextName(S) == CHOOSE i \in S : TRUE

Names == {i \in Id : file[i] # NoRecord}

StartPrune(r) ==
  /\ Goto(r, "published", "prune")
  /\ todo' = [todo EXCEPT ![r] = Names]
  /\ UNCHANGED <<now, file, launchVars, doomed, keeper, hookVars, dismissed>>

CmdPrune(h) ==
  /\ keeper[h] = "idle"
  /\ keeper' = [keeper EXCEPT ![h] = "busy"]
  /\ todo' = [todo EXCEPT ![h] = Names]
  /\ UNCHANGED <<now, file, at, launchVars, doomed, hookVars, dismissed>>

keepOf(h) == IF h \in Round THEN KeepSeconds ELSE keepSeconds[h]

(* atoi("") is 0: a record with an rc and no finishedAt is as old as the   *)
(* epoch.                                                                  *)
finished(rec) == IF rec.finishedAt = NoTime THEN 0 ELSE rec.finishedAt

(* Mutant of Expired: an orphan expires like any other record. *)
ExpiredUnread(rec, h) == now - finished(rec) > keepOf(h)

(* Read fails: on garbage always, on a good record when opening or reading *)
(* it does, for reasons that pass.                                         *)
Unread(i) == file[i] = Unreadable \/ (readable(i) /\ i \in Shaky)

(* Only a record with an rc expires: an orphan is the one trace of its     *)
(* round.                                                                  *)
Expired(rec, h) == rec.rc /\ now - finished(rec) > keepOf(h)

(* A prune reads the next name it listed, in the directory's fixed order:  *)
(* what cannot be read goes, garbage or a record whose read fails just now; *)
(* an expired record goes; another one, or a name that has vanished, is    *)
(* passed over.                                                            *)
PruneLook(h, i) ==
  /\ todo[h] # {} /\ i = NextName(todo[h]) /\ doomed[h] = NoId
  /\ todo' = [todo EXCEPT ![h] = @ \ {i}]
  /\ \/ /\ Unread(i) \/ (readable(i) /\ Expired(file[i], h))
        /\ doomed' = [doomed EXCEPT ![h] = i]
     \/ /\ file[i] # Unreadable /\ ~(readable(i) /\ Expired(file[i], h))
        /\ UNCHANGED doomed
  /\ UNCHANGED <<now, file, at, launchVars, keeper, hookVars, dismissed>>

Remove(h) ==
  /\ doomed[h] # NoId
  /\ file' = [file EXCEPT ![doomed[h]] = NoRecord]
  /\ doomed' = [doomed EXCEPT ![h] = NoId]

PruneRemove(h) ==
  /\ Remove(h)
  /\ UNCHANGED <<now, at, launchVars, todo, keeper, hookVars, dismissed>>

StartPruned(r) ==
  /\ todo[r] = {} /\ doomed[r] = NoId
  /\ Goto(r, "prune", "run")
  /\ UNCHANGED <<now, file, launchVars, todo, doomed, keeper, hookVars, dismissed>>

CmdPruned(h) ==
  /\ keeper[h] = "busy" /\ todo[h] = {} /\ doomed[h] = NoId
  /\ keeper' = [keeper EXCEPT ![h] = "done"]
  /\ UNCHANGED <<now, file, at, launchVars, todo, doomed, hookVars, dismissed>>

(* Mutant of Dismissable: dismiss takes any record it is given. *)
DismissableAny(i) == TRUE

Dismissable(i) == Unread(i) \/ (readable(i) /\ ~Live(i))

CmdDismiss(d, i) ==
  /\ keeper[d] = "idle"
  /\ file[i] # NoRecord
  /\ \/ /\ Dismissable(i)
        /\ keeper' = [keeper EXCEPT ![d] = "busy"]
        /\ doomed' = [doomed EXCEPT ![d] = i]
     \/ /\ file[i] # Unreadable /\ Live(i)
        /\ keeper' = [keeper EXCEPT ![d] = "done"]
        /\ UNCHANGED doomed
  /\ UNCHANGED <<now, file, at, launchVars, todo, hookVars, dismissed>>

DismissRemove(d) ==
  /\ Remove(d)
  /\ keeper' = [keeper EXCEPT ![d] = "done"]
  /\ dismissed' = IF readable(doomed[d])
                  THEN dismissed \cup {file[doomed[d]].round} ELSE dismissed
  /\ UNCHANGED <<now, at, launchVars, todo, hookVars>>

-----------------------------------------------------------------------------
(* runs finish: the record is opened for append, then the outcome is two   *)
(* writes, rc= and finishedAt=.  A file removed meanwhile takes them along. *)

Mine(r) == readable(id(r)) /\ file[id(r)].round = r

FinishOpen(r) ==
  /\ at[r] = "run"
  /\ at' = [at EXCEPT ![r] = IF file[id(r)] = NoRecord THEN "over" ELSE "open"]
  /\ UNCHANGED <<now, file, launchVars, todo, doomed, keeper, hookVars, dismissed>>

WriteRc(r) ==
  file' = IF Mine(r) THEN [file EXCEPT ![id(r)].rc = TRUE] ELSE file

FinishRc(r) ==
  /\ Goto(r, "open", "rc")
  /\ WriteRc(r)
  /\ UNCHANGED <<now, launchVars, todo, doomed, keeper, hookVars, dismissed>>

(* Mutant of FinishedAt: the finish time is left at zero.                  *)
FinishedAtZero(r) ==
  /\ Goto(r, "rc", "over")
  /\ file' = IF Mine(r) THEN [file EXCEPT ![id(r)].finishedAt = 0] ELSE file
  /\ UNCHANGED <<now, launchVars, todo, doomed, keeper, hookVars, dismissed>>

FinishedAt(r) ==
  /\ Goto(r, "rc", "over")
  /\ file' = IF Mine(r) THEN [file EXCEPT ![id(r)].finishedAt = now] ELSE file
  /\ UNCHANGED <<now, launchVars, todo, doomed, keeper, hookVars, dismissed>>

(* SIGKILL, or the machine goes down.  Once the harness runs, its hooks may *)
(* outlive the wrapper.                                                    *)
Die(r) ==
  /\ alive(r)
  /\ at' = [at EXCEPT ![r] =
              IF at[r] \in {"run", "open", "rc"} THEN "orphaned" ELSE "dead"]
  /\ todo' = [todo EXCEPT ![r] = {}]
  /\ doomed' = [doomed EXCEPT ![r] = NoId]
  /\ UNCHANGED <<now, file, launchVars, keeper, hookVars, dismissed>>

-----------------------------------------------------------------------------
(* appendReveal: read the record, decide which key to write, append.       *)

Ran(seq) == {seq[k] : k \in DOMAIN seq}
target(h) == id(hookRun[h])
Revealed(h) == file[target(h)].trail

(* Mutant of Decision: a second path is appended as a trail, like the first. *)
DecideTrail(h) ==
  IF ~readable(target(h)) \/ hookPath[h] \in Ran(Revealed(h)) THEN "quiet"
  ELSE "trail"

(* A record that already answers with this very path is left alone; one    *)
(* that answers with another gets the path as a conflict.                  *)
Decision(h) ==
  IF ~readable(target(h)) \/ hookPath[h] \in Ran(Revealed(h)) THEN "quiet"
  ELSE IF Revealed(h) = <<>> THEN "trail" ELSE "conflict"

(* A read that fails decides as an empty record would. *)
Decisions(h) == {Decision(h)} \cup (IF target(h) \in Shaky THEN {"trail"} ELSE {})

(* A hook runs in a session the round's wrapper started. *)
RevealRead(h) ==
  /\ hook[h] = "fresh"
  /\ at[hookRun[h]] \in {"run", "open", "rc", "over", "orphaned"}
  /\ \E key \in Decisions(h) :
       /\ hook' = [hook EXCEPT ![h] = key]
       /\ overlap' =
            IF key = "trail"
               /\ \E g \in Hook \ {h} : hook[g] = "trail" /\ target(g) = target(h)
            THEN overlap \cup {target(h)} ELSE overlap
  /\ UNCHANGED <<now, file, at, launchVars, todo, doomed, keeper, dismissed>>

(* The line a hook appends. *)
WithReveal(rec, key, path) ==
  IF key = "trail" THEN [rec EXCEPT !.trail = Append(rec.trail, path)]
  ELSE [rec EXCEPT !.conflict = rec.conflict \cup {path}]

RevealWrite(h) ==
  /\ hook[h] \in {"trail", "conflict"}
  /\ IF readable(target(h))
     THEN /\ hook' = [hook EXCEPT ![h] = "wrote"]
          /\ file' = [file EXCEPT ![target(h)] =
                       WithReveal(file[target(h)], hook[h], hookPath[h])]
     ELSE /\ hook' = [hook EXCEPT ![h] = "quiet"]
          /\ UNCHANGED file
  /\ UNCHANGED <<now, at, launchVars, todo, doomed, keeper, overlap, dismissed>>

-----------------------------------------------------------------------------
Wrapper(r) ==
  \/ \E p \in Pid : Launch(r, p)
  \/ NextSuffix(r) \/ Probed(r) \/ Publish(r)
  \/ StartPrune(r) \/ StartPruned(r)
  \/ FinishOpen(r) \/ FinishRc(r) \/ FinishedAt(r) \/ Die(r)

Prune(h) == (\E i \in todo[h] : PruneLook(h, i)) \/ PruneRemove(h)

Next ==
  \/ Tick
  \/ \E r \in Round : Wrapper(r)
  \/ \E h \in Prunes : Prune(h)
  \/ \E h \in Pruner : CmdPrune(h) \/ CmdPruned(h)
  \/ \E d \in Dismisser : (\E i \in Id : CmdDismiss(d, i)) \/ DismissRemove(d)
  \/ \E h \in Hook : RevealRead(h) \/ RevealWrite(h)

Spec == Init /\ [][Next]_vars

-----------------------------------------------------------------------------
TypeOK ==
  /\ now \in Time
  /\ file \in [Id -> Record \cup {NoRecord, Unreadable}]
  /\ at \in [Round -> Working \cup {"idle", "over", "dead", "orphaned"}]
  /\ pid \in [Round -> Pid \cup {NoPid}]
  /\ startedAt \in [Round -> Time]
  /\ suffix \in [Round -> 1..MaxSuffix]
  /\ todo \in [Prunes -> SUBSET Id]
  /\ doomed \in [Housekeeper -> Id \cup {NoId}]
  /\ keeper \in [Pruner \cup Dismisser -> {"idle", "busy", "done"}]
  /\ hook \in [Hook -> {"fresh", "trail", "conflict", "wrote", "quiet"}]
  /\ overlap \subseteq Id /\ dismissed \subseteq Round
  /\ \A r \in Round : at[r] # "idle" => pid[r] \in Pid
  /\ \A h \in Hook : hook[h] # "fresh" => at[hookRun[h]] # "idle"

(* A wrapper that has published and not finished finds its own unfinished   *)
(* record under its id: no start took the name (cli.go:245-255), and neither *)
(* a prune nor a dismiss that read the directory earlier has removed it, if  *)
(* no read of it failed (a record whose read fails is taken for garbage).   *)
RoundOnRecord ==
  \A r \in Round : at[r] \in {"published", "prune", "run", "open"} =>
    id(r) \in Shaky \/ (Mine(r) /\ ~file[id(r)].rc)

(* Nobody's record is ever replaced by another round's, dead or alive: the  *)
(* "silent overwrite of someone else's round" the suffix is for.            *)
NeverOverwritten ==
  [][\A i \in Id : readable(i) /\ readable(i)' => file'[i].round = file[i].round]_vars

(* The trace of a round that did not finish goes only when a person asked   *)
(* for that, and never while the round is alive, unless a read of it failed. *)
EvidenceStays ==
  [][\A i \in Id \ Shaky : readable(i) /\ file'[i] = NoRecord /\ ~file[i].rc =>
       file[i].round \in dismissed' /\ ~alive(file[i].round)]_vars

(* The path is what Read returns as the record's trail: the last line wins. *)
Answers(rec, path) == rec.trail # <<>> /\ rec.trail[Len(rec.trail)] = path

(* What was appended stays, in whatever order hooks and finish append: the  *)
(* line of a hook that wrote is on its record, a round that is over never    *)
(* reads as an orphan, and, unless two hooks had both read the record before *)
(* either appended (or a read of it failed), the path a hook wrote is the    *)
(* record's answer or its conflict, so that no answer is ever shadowed       *)
(* (record.go:382-385).  What happens when they had is FirstRevealKept.      *)
AppendsSurvive ==
  /\ \A h \in Hook : hook[h] = "wrote" /\ Mine(hookRun[h]) =>
       LET rec == file[target(h)]
       IN /\ hookPath[h] \in Ran(rec.trail) \cup rec.conflict
          /\ \/ target(h) \in overlap \cup Shaky
             \/ Answers(rec, hookPath[h]) \/ hookPath[h] \in rec.conflict
  /\ \A r \in Round : at[r] = "over" /\ Mine(r) => file[id(r)].rc


(* record.go:382-385: the first value revealed is kept.                     *)
FirstRevealKept ==
  [][\A i \in Id : readable(i) /\ readable(i)' /\ file[i].trail # <<>> =>
       file'[i].trail[Len(file'[i].trail)] = file[i].trail[Len(file[i].trail)]]_vars
=============================================================================
