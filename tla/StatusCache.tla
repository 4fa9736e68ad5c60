------------------------------ MODULE StatusCache ------------------------------
(***************************************************************************)
(* The status line's quota cache of one provider.  A render reads the      *)
(* cache, and when that is older than the TTL it detaches one refresher,   *)
(* guarded by a lock directory.  Renders and refreshers are processes that *)
(* share nothing but the two names in the cache directory.                 *)
(*                                                                         *)
(* Times are kept as ages in ticks; an age stops counting at MaxAge, past  *)
(* which no rule tells ages apart.                                         *)
(***************************************************************************)
EXTENDS Integers, FiniteSets

CONSTANTS
    Jobs,        \* processes: a render, and the refresher it turns into
    TTL,         \* ttl(): a younger cache is not refreshed
    LockTTL,     \* an older lock counts as abandoned
    StaleAfter,  \* a number older than this is marked
    MaxFaults    \* bound: kills, failed starts and failed writes

ASSUME StatusAssumption ==
    /\ IsFiniteSet(Jobs)
    /\ TTL \in Nat \ {0} /\ LockTTL \in Nat /\ StaleAfter \in Nat /\ MaxFaults \in Nat
    /\ LockTTL < StaleAfter /\ TTL <= StaleAfter

VARIABLES
    cache,   \* the .kv file
    lock,    \* the age of the lock directory, Never when there is none
    job,     \* what each process is at
    faults,  \* faults so far
    steals   \* locks found abandoned so far, counted up to the number of jobs

statusVars == <<cache, lock, job, faults, steals>>

MaxAge == StaleAfter + 1
Never == -1
Ages == Never..MaxAge
Older(age) == IF age \in {Never, MaxAge} THEN age ELSE age + 1
UpTo(most, age) == IF age > most THEN most ELSE age

\* number is whether the file holds a percentage, taken the age of the answer
\* the percentage came from.
NoNumber == [measured |-> Never, number |-> FALSE, taken |-> Never]
NoCache == [fetched |-> Never, measured |-> Never, number |-> FALSE, taken |-> Never]
Idle == [at |-> "idle", now |-> Never, result |-> "none", prev |-> NoNumber]

StatusInit ==
    /\ cache = NoCache
    /\ lock = Never
    /\ job = [p \in Jobs |-> Idle]
    /\ faults = 0
    /\ steals = 0

\* What a process no longer needs is forgotten.
Goes(p, at) == job' = [job EXCEPT ![p] = [Idle EXCEPT !.at = at]]
Ends(p) == job' = [job EXCEPT ![p] = Idle]
Fault == faults < MaxFaults /\ faults' = faults + 1

Tick ==
    /\ cache' = [cache EXCEPT !.fetched = UpTo(TTL, Older(@)), !.measured = Older(@), !.taken = Older(@)]
    /\ lock' = Older(lock)
    /\ job' = [p \in Jobs |-> [job[p] EXCEPT !.now = Older(@), !.prev.measured = Older(@), !.prev.taken = Older(@)]]
    /\ UNCHANGED <<faults, steals>>

(***************************************************************************)
(* maybeRefresh                                                            *)
(***************************************************************************)
\* A render that finds the cache due goes on to the lock.
maybeRefresh(p) ==
    /\ job[p].at = "idle"
    /\ cache.fetched = Never \/ cache.fetched >= TTL
    /\ job' = [job EXCEPT ![p].at = "stat", ![p].now = 0]
    /\ UNCHANGED <<cache, lock, faults, steals>>

(* Mutant of Abandoned: a lock is never abandoned. *)
AbandonedNever(p) == FALSE

\* The lock's age at the time the render started.
Abandoned(p) == lock - job[p].now > LockTTL

Stat(p) ==
    /\ job[p].at = "stat"
    /\ IF lock = Never THEN Goes(p, "mkdir")
       ELSE IF Abandoned(p) THEN Goes(p, "remove")
       ELSE Ends(p)
    /\ steals' = IF lock # Never /\ Abandoned(p) /\ steals < Cardinality(Jobs) THEN steals + 1 ELSE steals
    /\ UNCHANGED <<cache, lock, faults>>

\* By name: whatever lock is there now.
RemoveLock(p) ==
    /\ job[p].at = "remove"
    /\ lock' = Never
    /\ Goes(p, "mkdir")
    /\ UNCHANGED <<cache, faults, steals>>

(* Mutant of Mkdir: a lock that is there already counts as taken. *)
MkdirAnyway(p) ==
    /\ job[p].at = "mkdir"
    /\ lock' = 0
    /\ Goes(p, "start")
    /\ UNCHANGED <<cache, faults, steals>>

Mkdir(p) ==
    /\ job[p].at = "mkdir"
    /\ lock' = IF lock = Never THEN 0 ELSE lock
    /\ IF lock = Never THEN Goes(p, "start") ELSE Ends(p)
    /\ UNCHANGED <<cache, faults, steals>>

StartRefresher(p) ==
    /\ job[p].at = "start"
    /\ \/ Goes(p, "begin") /\ UNCHANGED <<lock, faults>>
       \/ Fault /\ lock' = Never /\ Ends(p)
    /\ UNCHANGED <<cache, steals>>

(***************************************************************************)
(* Refresh                                                                 *)
(***************************************************************************)
\* The stamp is taken before the fetch.
Refresh(p) ==
    /\ job[p].at = "begin"
    /\ job' = [job EXCEPT ![p].at = "fetch", ![p].now = 0]
    /\ UNCHANGED <<cache, lock, faults, steals>>

\* The old numbers are read after a fetch that failed.
Fetch(p) ==
    /\ job[p].at = "fetch"
    /\ \/ \E result \in {"number", "unnumbered", "empty"} :
              job' = [job EXCEPT ![p].at = "write", ![p].result = result]
       \/ job' = [job EXCEPT ![p].at = "write", ![p].result = "failed",
                             ![p].prev = [measured |-> cache.measured, number |-> cache.number, taken |-> cache.taken]]
    /\ UNCHANGED <<cache, lock, faults, steals>>

(* Mutant of Body: a failed fetch stamps the old numbers as its own. *)
BodyRestamped(j) ==
    CASE j.result = "failed" -> [fetched |-> UpTo(TTL, j.now), measured |-> j.now, number |-> j.prev.number, taken |-> j.prev.taken]
      [] j.result = "number" -> [fetched |-> UpTo(TTL, j.now), measured |-> j.now, number |-> TRUE, taken |-> j.now]
      [] OTHER               -> [fetched |-> UpTo(TTL, j.now), measured |-> j.now, number |-> FALSE, taken |-> Never]

(* Mutant of Body: a failed fetch leaves no numbers. *)
BodyErased(j) ==
    [fetched |-> UpTo(TTL, j.now), measured |-> j.now, number |-> j.result = "number",
     taken |-> IF j.result = "number" THEN j.now ELSE Never]

\* An answer without a window says so over the last good numbers; a failed
\* fetch carries them forward untouched.
Body(j) ==
    CASE j.result = "failed" -> [fetched |-> UpTo(TTL, j.now), measured |-> j.prev.measured, number |-> j.prev.number, taken |-> j.prev.taken]
      [] j.result = "number" -> [fetched |-> UpTo(TTL, j.now), measured |-> j.now, number |-> TRUE, taken |-> j.now]
      [] OTHER               -> [fetched |-> UpTo(TTL, j.now), measured |-> j.now, number |-> FALSE, taken |-> Never]

\* The temporary name is the process's own, so the rename is the one step.
writeCache(p) ==
    /\ job[p].at = "write"
    /\ \/ cache' = Body(job[p]) /\ UNCHANGED faults
       \/ Fault /\ UNCHANGED cache
    /\ Goes(p, "unlock")
    /\ UNCHANGED <<lock, steals>>

\* The deferred removal, by name again.
Unlock(p) ==
    /\ job[p].at = "unlock"
    /\ lock' = Never
    /\ Ends(p)
    /\ UNCHANGED <<cache, faults, steals>>

Kill(p) ==
    /\ job[p].at # "idle"
    /\ Fault
    /\ Ends(p)
    /\ UNCHANGED <<cache, lock, steals>>

Steps(p) ==
    \/ maybeRefresh(p) \/ Stat(p) \/ RemoveLock(p) \/ Mkdir(p) \/ StartRefresher(p)
    \/ Refresh(p) \/ Fetch(p) \/ writeCache(p) \/ Unlock(p)

StatusNext == Tick \/ \E p \in Jobs : Steps(p) \/ Kill(p)

\* Time passes, renders come, a process that runs gets on, and again and again a
\* render looks at the lock within the tick it started in.
StatusFairness ==
    /\ WF_statusVars(Tick)
    /\ \A p \in Jobs : WF_statusVars(Steps(p)) /\ SF_statusVars(Stat(p) /\ job[p].now = 0)

StatusSpec == StatusInit /\ [][StatusNext]_statusVars /\ StatusFairness
------------------------------------------------------------------------------
(***************************************************************************)
(* Properties                                                              *)
(***************************************************************************)
StatusTypeOK ==
    /\ cache \in [fetched : Ages, measured : Ages, number : BOOLEAN, taken : Ages]
    /\ lock \in Ages
    /\ \A p \in Jobs :
           /\ job[p].at \in {"idle", "stat", "remove", "mkdir", "start", "begin", "fetch", "write", "unlock"}
           /\ job[p].now \in Ages
           /\ job[p].prev \in [measured : Ages, number : BOOLEAN, taken : Ages]
    /\ faults \in 0..MaxFaults
    /\ steals \in 0..Cardinality(Jobs)

Refreshers == {p \in Jobs : job[p].at \in {"begin", "fetch", "write", "unlock"}}

\* maybeRefresh promises at most one fetch per provider.  It is so until a lock
\* is taken for abandoned, and each of those lets one more in: the lock is
\* removed by name, and may be the one another render has just made.
OneFetchPerLock == Cardinality(Refreshers) <= 1 + steals

\* What providerPart makes of the cache.
providerPart ==
    IF cache = NoCache THEN "not measured"
    ELSE IF ~cache.number THEN "hidden"
    ELSE IF cache.measured > StaleAfter THEN "marked" ELSE "number"

\* However refreshers fail, die and overtake each other, a number on display
\* without the mark comes from an answer no older than StaleAfter.
NumberIsHonest == providerPart = "number" => cache.taken \in 0..StaleAfter

\* A failed fetch does not erase the last good numbers: while no lock was taken
\* for abandoned, they go only when a newer answer has none, and what replaces
\* them was never measured earlier.
LastGoodKept ==
    [][\A p \in Jobs : (writeCache(p) /\ cache.number /\ steals = 0) =>
           /\ cache'.number \/ job[p].result \in {"unnumbered", "empty"}
           /\ cache'.measured # Never /\ cache'.measured <= cache.measured]_statusVars

\* A lock nobody works under does not freeze the number: it is found and removed.
LockNeverFreezes ==
    (lock # Never /\ \A p \in Jobs : job[p].at \notin {"start", "begin", "fetch", "write", "unlock"})
        ~> (lock = Never \/ Refreshers # {})
==============================================================================
