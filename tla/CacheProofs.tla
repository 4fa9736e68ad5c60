------------------------------ MODULE CacheProofs ------------------------------
(***************************************************************************)
(* The caches several processes of the user share.                         *)
(*                                                                         *)
(* The status line's: for any number of renders and refreshers and any of  *)
(* the three limits.                                                       *)
(***************************************************************************)
EXTENDS StatusCache, PolicyCache, FiniteSetTheorems, TLAPS

Sites == {"idle", "stat", "remove", "mkdir", "start", "begin", "fetch", "write", "unlock"}
Numbers == [measured : Ages, number : BOOLEAN, taken : Ages]
Results == {"none", "number", "unnumbered", "empty", "failed"}
JobStates == [at : Sites, now : Ages, result : Results, prev : Numbers]
CacheTexts == [fetched : Ages, measured : Ages, number : BOOLEAN, taken : Ages]

StatusTyped ==
  /\ cache \in CacheTexts
  /\ lock \in Ages
  /\ job \in [Jobs -> JobStates]
  /\ faults \in 0..MaxFaults
  /\ steals \in 0..Cardinality(Jobs)

(* Who works under a lock, and who is about to remove one.                 *)
Working == {p \in Jobs : job[p].at \in {"start", "begin", "fetch", "write", "unlock", "remove"}}

(* Each of them stands for the lock that is there or for one that was      *)
(* found abandoned.                                                        *)
Accounts ==
  steals < Cardinality(Jobs) => Cardinality(Working) <= steals + (IF lock = Never THEN 0 ELSE 1)

(* A percentage has the age of its answer, wherever it has been copied.    *)
Dated(r) == r.number => r.taken = r.measured /\ r.taken # Never

NumbersDated ==
  /\ Dated(cache)
  /\ \A p \in Jobs :
        /\ Dated(job[p].prev)
        /\ job[p].at \in {"fetch", "write"} => job[p].now # Never
        /\ job[p].at = "write" => job[p].result # "none"

(* While no lock was stolen, the one refresher's fetch began after the     *)
(* cache was measured, and what a failed one carries is what is there.     *)
NothingOvertaken ==
  steals = 0 /\ Jobs # {} =>
     \A p \in Jobs :
        /\ job[p].at \in {"fetch", "write"} /\ cache.number => job[p].now <= cache.measured
        /\ job[p].at = "write" /\ job[p].result = "failed" =>
              job[p].prev = [measured |-> cache.measured, number |-> cache.number, taken |-> cache.taken]

StatusIInv == StatusTyped /\ Accounts /\ NumbersDated /\ NothingOvertaken

LEMMA AgesTyped ==
  /\ Never \in Ages /\ 0 \in Ages /\ MaxAge \in Ages /\ 0 # Never
  /\ \A a \in Ages : /\ Older(a) \in Ages
                     /\ UpTo(TTL, a) \in Ages
                     /\ Older(a) = Never <=> a = Never
  /\ \A a, b \in Ages : a # Never /\ b # Never /\ a <= b => Older(a) <= Older(b)
  /\ Ages \subseteq Int
BY StatusAssumption DEF Ages, Never, MaxAge, Older, UpTo

LEMMA IdleTyped ==
  /\ NoNumber \in Numbers /\ Dated(NoNumber)
  /\ Idle \in JobStates /\ Idle.at = "idle" /\ Idle.prev = NoNumber
  /\ NoCache \in CacheTexts /\ Dated(NoCache)
  /\ \A a \in Sites : /\ [Idle EXCEPT !.at = a] \in JobStates
                      /\ [Idle EXCEPT !.at = a].at = a
                      /\ [Idle EXCEPT !.at = a].prev = NoNumber
BY AgesTyped DEF NoNumber, Numbers, Idle, JobStates, NoCache, CacheTexts, Dated, Sites, Results

LEMMA CardinalityTyped ==
  /\ IsFiniteSet(Jobs) /\ Cardinality(Jobs) \in Nat
  /\ IsFiniteSet(Working) /\ Cardinality(Working) \in Nat /\ Cardinality(Working) <= Cardinality(Jobs)
BY StatusAssumption, FS_CardinalityType, FS_Subset DEF Working

(* How the accounts follow one job's move.                                 *)
LEMMA WorkingMoves ==
  ASSUME NEW p \in Jobs,
         \A q \in Jobs \ {p} : job'[q].at = job[q].at
  PROVE  /\ Cardinality(Working') \in Nat
         /\ Cardinality(Working') <= Cardinality(Working) + 1
         /\ p \in Working \/ p \notin Working' => Cardinality(Working') <= Cardinality(Working)
         /\ p \in Working /\ p \notin Working' => Cardinality(Working') = Cardinality(Working) - 1
<1>1. Working' \subseteq Jobs /\ IsFiniteSet(Working') /\ Cardinality(Working') \in Nat
  BY StatusAssumption, FS_CardinalityType, FS_Subset DEF Working
<1>2. \A q \in Jobs \ {p} : q \in Working' <=> q \in Working
  BY DEF Working
<1>. DEFINE W == Working
            V == Working'
<1>3. W \subseteq Jobs /\ V \subseteq Jobs
  BY DEF Working
<1>4. IsFiniteSet(W) /\ Cardinality(W) \in Nat /\ IsFiniteSet(V) /\ Cardinality(V) \in Nat
  BY <1>1, CardinalityTyped
<1>. HIDE DEF W, V
<1>5. CASE p \in W /\ p \notin V
  <2>1. V = W \ {p} BY <1>2, <1>3, <1>5 DEF W, V
  <2>2. Cardinality(V) = Cardinality(W) - 1
    BY <1>4, <1>5, <2>1, FS_RemoveElement
  <2>. QED BY <1>4, <1>5, <2>2 DEF W, V
<1>6. CASE p \notin W /\ p \in V
  <2>1. V = W \union {p} BY <1>2, <1>3, <1>6 DEF W, V
  <2>2. Cardinality(V) = Cardinality(W) + 1
    BY <1>4, <1>6, <2>1, FS_AddElement
  <2>. QED BY <1>4, <1>6, <2>2 DEF W, V
<1>7. CASE p \in W <=> p \in V
  <2>1. \A q \in Jobs : q \in W <=> q \in V BY <1>2, <1>7 DEF W, V
  <2>2. V = W BY <1>3, <2>1
  <2>. QED BY <1>4, <1>7, <2>2 DEF W, V
<1>. QED BY <1>5, <1>6, <1>7

LEMMA StatusInitHolds == StatusInit => StatusIInv
<1>. SUFFICES ASSUME StatusInit PROVE StatusIInv
  OBVIOUS
<1>1. StatusTyped
  BY IdleTyped, AgesTyped, CardinalityTyped, StatusAssumption DEF StatusInit, StatusTyped
<1>2. job = [p \in Jobs |-> Idle]
  BY DEF StatusInit
<1>3. Working = {}
  BY <1>2, IdleTyped DEF Working
<1>4. Accounts
  BY <1>3, FS_EmptySet DEF StatusInit, Accounts
<1>5. NumbersDated
  BY <1>2, IdleTyped DEF StatusInit, NumbersDated
<1>6. NothingOvertaken
  BY <1>2, IdleTyped DEF NothingOvertaken
<1>. QED BY <1>1, <1>4, <1>5, <1>6 DEF StatusIInv

(* A job that is not fetching yet, or through, with the cache as it was.   *)
LEMMA JobMoves ==
  ASSUME StatusIInv, NEW p \in Jobs, job' \in [Jobs -> JobStates], \A q \in Jobs \ {p} : job'[q] = job[q],
         UNCHANGED cache, lock' \in Ages, faults' \in 0..MaxFaults,
         steals' \in 0..Cardinality(Jobs), steals' >= steals, Accounts',
         Dated(job'[p].prev),
         job'[p].at \in {"fetch", "write"} =>
            /\ job'[p].now # Never
            /\ cache.number /\ steals = 0 => job'[p].now <= cache.measured,
         job'[p].at = "write" => job'[p].result # "none",
         job'[p].at = "write" /\ job'[p].result = "failed" =>
            job'[p].prev = [measured |-> cache.measured, number |-> cache.number, taken |-> cache.taken]
  PROVE  StatusIInv'
<1>1. StatusTyped'
  BY DEF StatusIInv, StatusTyped
<1>2. NumbersDated'
  BY DEF StatusIInv, NumbersDated, Dated
<1>3. steals' = 0 => steals = 0
  BY CardinalityTyped DEF StatusIInv, StatusTyped
<1>4. NothingOvertaken'
  BY <1>3 DEF StatusIInv, NothingOvertaken
<1>. QED BY <1>1, <1>2, <1>4 DEF StatusIInv

LEMMA GoesTyped ==
  ASSUME StatusIInv, NEW p \in Jobs, NEW a \in Sites, Goes(p, a)
  PROVE  /\ job' \in [Jobs -> JobStates] /\ \A q \in Jobs \ {p} : job'[q] = job[q]
         /\ job'[p].at = a /\ Dated(job'[p].prev)
BY IdleTyped DEF StatusIInv, StatusTyped, Goes

LEMMA EndsTyped ==
  ASSUME StatusIInv, NEW p \in Jobs, Ends(p)
  PROVE  /\ job' \in [Jobs -> JobStates] /\ \A q \in Jobs \ {p} : job'[q] = job[q]
         /\ job'[p].at = "idle" /\ Dated(job'[p].prev)
BY IdleTyped DEF StatusIInv, StatusTyped, Ends

LEMMA maybeRefreshKeeps == ASSUME StatusIInv, NEW p \in Jobs, maybeRefresh(p) PROVE StatusIInv'
<1>1. job[p].at = "idle" /\ job' = [job EXCEPT ![p].at = "stat", ![p].now = 0] /\ UNCHANGED <<cache, lock, faults, steals>>
  BY DEF maybeRefresh
<1>2. /\ job' \in [Jobs -> JobStates] /\ \A q \in Jobs \ {p} : job'[q] = job[q]
      /\ job'[p].at = "stat" /\ job'[p].prev = job[p].prev
  BY <1>1, AgesTyped DEF StatusIInv, StatusTyped, JobStates, Sites
<1>3. Cardinality(Working') \in Nat /\ Cardinality(Working') <= Cardinality(Working)
  <2>1. p \notin Working' BY <1>2 DEF Working
  <2>. QED BY <1>2, <2>1, WorkingMoves
<1>4. Accounts'
  BY <1>1, <1>3, CardinalityTyped DEF StatusIInv, Accounts, StatusTyped
<1>5. Dated(job'[p].prev)
  BY <1>2 DEF StatusIInv, NumbersDated
<1>. QED BY <1>1, <1>2, <1>4, <1>5, JobMoves, CardinalityTyped DEF StatusIInv, StatusTyped

LEMMA StatKeeps == ASSUME StatusIInv, NEW p \in Jobs, Stat(p) PROVE StatusIInv'
<1>. DEFINE stolen == lock # Never /\ Abandoned(p)
<1>1. /\ job[p].at = "stat" /\ UNCHANGED <<cache, lock, faults>>
      /\ steals' = IF stolen /\ steals < Cardinality(Jobs) THEN steals + 1 ELSE steals
      /\ \/ ~stolen /\ (Goes(p, "mkdir") \/ Ends(p))
         \/ stolen /\ Goes(p, "remove")
  BY DEF Stat
<1>. HIDE DEF stolen
<1>2. PICK a \in {"mkdir", "idle", "remove"} :
        /\ job' \in [Jobs -> JobStates] /\ \A q \in Jobs \ {p} : job'[q] = job[q]
        /\ job'[p].at = a /\ Dated(job'[p].prev)
        /\ a = "remove" => stolen
  BY <1>1, GoesTyped, EndsTyped DEF Sites
<1>3. steals' \in 0..Cardinality(Jobs) /\ steals' >= steals
  BY <1>1, CardinalityTyped DEF StatusIInv, StatusTyped
<1>4. Cardinality(Working') \in Nat /\ Cardinality(Working') <= Cardinality(Working) + (IF a = "remove" THEN 1 ELSE 0)
  <2>1. a # "remove" => p \notin Working' BY <1>2 DEF Working
  <2>2. a # "remove" => Cardinality(Working') <= Cardinality(Working) BY <1>2, <2>1, WorkingMoves
  <2>3. Cardinality(Working') \in Nat /\ Cardinality(Working') <= Cardinality(Working) + 1 BY <1>2, WorkingMoves
  <2>4. CASE a = "remove" BY <2>3, <2>4
  <2>5. CASE a # "remove" BY <2>2, <2>3, <2>5, CardinalityTyped
  <2>. QED BY <2>4, <2>5
<1>5. Accounts'
  BY <1>1, <1>2, <1>3, <1>4, CardinalityTyped DEF StatusIInv, Accounts, StatusTyped
<1>. QED BY <1>1, <1>2, <1>3, <1>5, JobMoves DEF StatusIInv, StatusTyped

LEMMA RemoveLockKeeps == ASSUME StatusIInv, NEW p \in Jobs, RemoveLock(p) PROVE StatusIInv'
<1>1. job[p].at = "remove" /\ lock' = Never /\ Goes(p, "mkdir") /\ UNCHANGED <<cache, faults, steals>>
  BY DEF RemoveLock
<1>2. /\ job' \in [Jobs -> JobStates] /\ \A q \in Jobs \ {p} : job'[q] = job[q]
      /\ job'[p].at = "mkdir" /\ Dated(job'[p].prev)
  BY <1>1, GoesTyped DEF Sites
<1>3. Cardinality(Working') = Cardinality(Working) - 1
  <2>1. p \in Working /\ p \notin Working' BY <1>1, <1>2 DEF Working
  <2>. QED BY <1>2, <2>1, WorkingMoves
<1>4. Accounts'
  BY <1>1, <1>3, CardinalityTyped DEF StatusIInv, Accounts, StatusTyped
<1>. QED BY <1>1, <1>2, <1>4, JobMoves, AgesTyped, CardinalityTyped DEF StatusIInv, StatusTyped

LEMMA MkdirKeeps == ASSUME StatusIInv, NEW p \in Jobs, Mkdir(p) PROVE StatusIInv'
<1>1. /\ job[p].at = "mkdir" /\ UNCHANGED <<cache, faults, steals>>
      /\ lock' = IF lock = Never THEN 0 ELSE lock
      /\ IF lock = Never THEN Goes(p, "start") ELSE Ends(p)
  BY DEF Mkdir
<1>2. PICK a \in {"start", "idle"} :
        /\ job' \in [Jobs -> JobStates] /\ \A q \in Jobs \ {p} : job'[q] = job[q]
        /\ job'[p].at = a /\ Dated(job'[p].prev)
        /\ a = "start" => lock = Never
  BY <1>1, GoesTyped, EndsTyped DEF Sites
<1>3. Cardinality(Working') \in Nat /\ Cardinality(Working') <= Cardinality(Working) + (IF a = "start" THEN 1 ELSE 0)
  <2>1. a # "start" => p \notin Working' BY <1>2 DEF Working
  <2>2. a # "start" => Cardinality(Working') <= Cardinality(Working) BY <1>2, <2>1, WorkingMoves
  <2>3. Cardinality(Working') \in Nat /\ Cardinality(Working') <= Cardinality(Working) + 1 BY <1>2, WorkingMoves
  <2>4. CASE a = "start" BY <2>3, <2>4
  <2>5. CASE a # "start" BY <2>2, <2>3, <2>5, CardinalityTyped
  <2>. QED BY <2>4, <2>5
<1>4. Accounts'
  BY <1>1, <1>2, <1>3, CardinalityTyped, AgesTyped DEF StatusIInv, Accounts, StatusTyped
<1>. QED BY <1>1, <1>2, <1>4, JobMoves, AgesTyped, CardinalityTyped DEF StatusIInv, StatusTyped

(* A job that stops working leaves no more behind than it came with.       *)
LEMMA LeavesKeep ==
  ASSUME StatusIInv, NEW p \in Jobs, Ends(p), UNCHANGED <<cache, steals>>, faults' \in 0..MaxFaults,
         lock' = lock \/ (lock' = Never /\ p \in Working)
  PROVE  StatusIInv'
<1>1. /\ job' \in [Jobs -> JobStates] /\ \A q \in Jobs \ {p} : job'[q] = job[q]
      /\ job'[p].at = "idle" /\ Dated(job'[p].prev)
  BY EndsTyped
<1>2. /\ Cardinality(Working') \in Nat /\ Cardinality(Working') <= Cardinality(Working)
      /\ p \in Working => Cardinality(Working') = Cardinality(Working) - 1
  <2>1. p \notin Working' BY <1>1 DEF Working
  <2>. QED BY <1>1, <2>1, WorkingMoves
<1>3. Accounts'
  BY <1>2, CardinalityTyped DEF StatusIInv, Accounts, StatusTyped
<1>. QED BY <1>1, <1>3, JobMoves, AgesTyped, CardinalityTyped DEF StatusIInv, StatusTyped

LEMMA FaultTyped == ASSUME StatusIInv, Fault PROVE faults' \in 0..MaxFaults
BY StatusAssumption DEF StatusIInv, StatusTyped, Fault

(* A job that goes on working.                                             *)
LEMMA WorkGoesOn ==
  ASSUME StatusIInv, NEW p \in Jobs, p \in Working, UNCHANGED <<lock, steals>>,
         \A q \in Jobs \ {p} : job'[q].at = job[q].at
  PROVE  Accounts'
<1>1. Cardinality(Working') \in Nat /\ Cardinality(Working') <= Cardinality(Working)
  BY WorkingMoves
<1>. QED BY <1>1, CardinalityTyped DEF StatusIInv, Accounts, StatusTyped

LEMMA StartRefresherKeeps == ASSUME StatusIInv, NEW p \in Jobs, StartRefresher(p) PROVE StatusIInv'
<1>1. job[p].at = "start" /\ p \in Working /\ UNCHANGED <<cache, steals>>
  BY DEF StartRefresher, Working
<1>2. CASE Goes(p, "begin") /\ UNCHANGED <<lock, faults>>
  <2>1. /\ job' \in [Jobs -> JobStates] /\ \A q \in Jobs \ {p} : job'[q] = job[q]
        /\ job'[p].at = "begin" /\ Dated(job'[p].prev)
    BY <1>2, GoesTyped DEF Sites
  <2>. QED BY <1>1, <1>2, <2>1, WorkGoesOn, JobMoves, CardinalityTyped DEF StatusIInv, StatusTyped
<1>3. CASE Fault /\ lock' = Never /\ Ends(p)
  BY <1>1, <1>3, FaultTyped, LeavesKeep
<1>. QED BY <1>2, <1>3 DEF StartRefresher

LEMMA RefreshKeeps == ASSUME StatusIInv, NEW p \in Jobs, Refresh(p) PROVE StatusIInv'
<1>1. /\ job[p].at = "begin" /\ p \in Working /\ UNCHANGED <<cache, lock, faults, steals>>
      /\ job' = [job EXCEPT ![p].at = "fetch", ![p].now = 0]
  BY DEF Refresh, Working
<1>2. /\ job' \in [Jobs -> JobStates] /\ \A q \in Jobs \ {p} : job'[q] = job[q]
      /\ job'[p].at = "fetch" /\ job'[p].now = 0 /\ job'[p].prev = job[p].prev
  BY <1>1, AgesTyped DEF StatusIInv, StatusTyped, JobStates, Sites
<1>3. Dated(job'[p].prev)
  BY <1>2 DEF StatusIInv, NumbersDated
<1>4. cache.number => 0 <= cache.measured
  BY DEF StatusIInv, StatusTyped, NumbersDated, Dated, CacheTexts, Ages, Never
<1>. QED BY <1>1, <1>2, <1>3, <1>4, WorkGoesOn, JobMoves, AgesTyped, CardinalityTyped DEF StatusIInv, StatusTyped

LEMMA FetchKeeps == ASSUME StatusIInv, NEW p \in Jobs, Fetch(p) PROVE StatusIInv'
<1>. DEFINE was == [measured |-> cache.measured, number |-> cache.number, taken |-> cache.taken]
<1>1. job[p].at = "fetch" /\ p \in Working /\ UNCHANGED <<cache, lock, faults, steals>>
  BY DEF Fetch, Working
<1>2. was \in Numbers /\ Dated(was)
  BY DEF StatusIInv, StatusTyped, CacheTexts, Numbers, NumbersDated, Dated
<1>3. CASE \E result \in {"number", "unnumbered", "empty"} :
             job' = [job EXCEPT ![p].at = "write", ![p].result = result]
  <2>1. PICK result \in {"number", "unnumbered", "empty"} :
          job' = [job EXCEPT ![p].at = "write", ![p].result = result]
    BY <1>3
  <2>2. /\ job' \in [Jobs -> JobStates] /\ \A q \in Jobs \ {p} : job'[q] = job[q]
        /\ job'[p].at = "write" /\ job'[p].result \notin {"failed", "none"}
        /\ job'[p].prev = job[p].prev /\ job'[p].now = job[p].now
    BY <2>1 DEF StatusIInv, StatusTyped, JobStates, Sites, Results
  <2>3. /\ Dated(job'[p].prev) /\ job'[p].now # Never
        /\ cache.number /\ steals = 0 => job'[p].now <= cache.measured
    BY <1>1, <2>2 DEF StatusIInv, NumbersDated, NothingOvertaken
  <2>. QED BY <1>1, <2>2, <2>3, WorkGoesOn, JobMoves, CardinalityTyped DEF StatusIInv, StatusTyped
<1>4. CASE job' = [job EXCEPT ![p].at = "write", ![p].result = "failed", ![p].prev = was]
  <2>. HIDE DEF was
  <2>1. /\ job' \in [Jobs -> JobStates] /\ \A q \in Jobs \ {p} : job'[q] = job[q]
        /\ job'[p].at = "write" /\ job'[p].result = "failed" /\ job'[p].prev = was /\ job'[p].now = job[p].now
    BY <1>2, <1>4 DEF StatusIInv, StatusTyped, JobStates, Sites, Results
  <2>2. /\ Dated(job'[p].prev) /\ job'[p].now # Never
        /\ cache.number /\ steals = 0 => job'[p].now <= cache.measured
    BY <1>1, <1>2, <2>1 DEF StatusIInv, NumbersDated, NothingOvertaken
  <2>. QED BY <1>1, <2>1, <2>2, WorkGoesOn, JobMoves, CardinalityTyped DEF StatusIInv, StatusTyped, was
<1>. QED BY <1>3, <1>4 DEF Fetch

(* While no lock was stolen, nobody works beside the one refresher.        *)
LEMMA OneWorks ==
  ASSUME StatusIInv, steals = 0, NEW p \in Working, NEW q \in Working
  PROVE  p = q
<1>1. Cardinality(Jobs) # 0
  BY StatusAssumption, FS_EmptySet DEF Working
<1>2. Cardinality(Working) <= 1
  BY <1>1, CardinalityTyped DEF StatusIInv, Accounts
<1>3. Cardinality(Working) # 0
  BY CardinalityTyped, FS_EmptySet
<1>4. Cardinality(Working) = 1
  BY <1>2, <1>3, CardinalityTyped
<1>5. PICK x : Working = {x}
  BY <1>4, CardinalityTyped, FS_Singleton
<1>. QED BY <1>5

LEMMA BodyTyped ==
  ASSUME StatusIInv, NEW p \in Jobs, job[p].at = "write"
  PROVE  Body(job[p]) \in CacheTexts /\ Dated(Body(job[p]))
<1>. DEFINE j == job[p]
<1>1. /\ j.now \in Ages /\ j.now # Never /\ UpTo(TTL, j.now) \in Ages
      /\ j.prev \in Numbers /\ Dated(j.prev)
      /\ j.result = "number" => j.result # "failed"
  BY AgesTyped DEF StatusIInv, StatusTyped, NumbersDated, JobStates
<1>. HIDE DEF j
<1>2. CASE j.result = "failed"
  <2>1. Body(j) = [fetched |-> UpTo(TTL, j.now), measured |-> j.prev.measured, number |-> j.prev.number, taken |-> j.prev.taken]
    BY <1>2 DEF Body
  <2>. QED BY <1>1, <2>1 DEF CacheTexts, Numbers, Dated, j
<1>3. CASE j.result = "number"
  <2>1. Body(j) = [fetched |-> UpTo(TTL, j.now), measured |-> j.now, number |-> TRUE, taken |-> j.now]
    BY <1>3 DEF Body
  <2>. QED BY <1>1, <2>1 DEF CacheTexts, Dated, j
<1>4. CASE j.result \notin {"failed", "number"}
  <2>1. Body(j) = [fetched |-> UpTo(TTL, j.now), measured |-> j.now, number |-> FALSE, taken |-> Never]
    BY <1>4 DEF Body
  <2>. QED BY <1>1, <2>1, AgesTyped DEF CacheTexts, Dated, j
<1>. QED BY <1>2, <1>3, <1>4

LEMMA writeCacheKeeps == ASSUME StatusIInv, NEW p \in Jobs, writeCache(p) PROVE StatusIInv'
<1>1. job[p].at = "write" /\ p \in Working /\ Goes(p, "unlock") /\ UNCHANGED <<lock, steals>>
  BY DEF writeCache, Working
<1>2. /\ job' \in [Jobs -> JobStates] /\ \A q \in Jobs \ {p} : job'[q] = job[q]
      /\ job'[p].at = "unlock" /\ Dated(job'[p].prev)
  BY <1>1, GoesTyped DEF Sites
<1>3. Accounts'
  BY <1>1, <1>2, WorkGoesOn
<1>4. CASE Fault /\ UNCHANGED cache
  BY <1>1, <1>2, <1>3, <1>4, FaultTyped, JobMoves, CardinalityTyped DEF StatusIInv, StatusTyped
<1>5. CASE cache' = Body(job[p]) /\ UNCHANGED faults
  <2>1. cache' \in CacheTexts /\ Dated(cache')
    BY <1>1, <1>5, BodyTyped
  <2>2. StatusTyped'
    BY <1>1, <1>2, <1>5, <2>1 DEF StatusIInv, StatusTyped
  <2>3. NumbersDated'
    BY <1>2, <2>1 DEF StatusIInv, NumbersDated, Dated
  <2>4. steals = 0 => \A q \in Jobs : job'[q].at \notin {"fetch", "write"}
    BY <1>1, <1>2, OneWorks DEF Working
  <2>5. NothingOvertaken'
    BY <1>1, <2>4 DEF NothingOvertaken
  <2>. QED BY <1>3, <2>2, <2>3, <2>5 DEF StatusIInv
<1>. QED BY <1>4, <1>5 DEF writeCache

LEMMA UnlockKeeps == ASSUME StatusIInv, NEW p \in Jobs, Unlock(p) PROVE StatusIInv'
<1>1. p \in Working /\ lock' = Never /\ Ends(p) /\ UNCHANGED <<cache, faults, steals>>
  BY DEF Unlock, Working
<1>. QED BY <1>1, LeavesKeep DEF StatusIInv, StatusTyped

LEMMA KillKeeps == ASSUME StatusIInv, NEW p \in Jobs, Kill(p) PROVE StatusIInv'
BY FaultTyped, LeavesKeep DEF Kill

LEMMA StatusTickKeeps == ASSUME StatusIInv, Tick PROVE StatusIInv'
<1>. DEFINE aged(r) == [r EXCEPT !.measured = Older(@), !.taken = Older(@)]
<1>1. /\ cache' \in CacheTexts /\ cache'.number = cache.number
      /\ cache'.measured = Older(cache.measured) /\ cache'.taken = Older(cache.taken)
  BY AgesTyped DEF Tick, StatusIInv, StatusTyped, CacheTexts
<1>2. lock' \in Ages /\ (lock' = Never <=> lock = Never) /\ UNCHANGED <<faults, steals>>
  BY AgesTyped DEF Tick, StatusIInv, StatusTyped
<1>3. ASSUME NEW p \in Jobs
      PROVE  /\ job'[p] \in JobStates
             /\ job'[p].at = job[p].at /\ job'[p].result = job[p].result
             /\ job'[p].now = Older(job[p].now)
             /\ job'[p].prev.measured = Older(job[p].prev.measured)
             /\ job'[p].prev.taken = Older(job[p].prev.taken)
             /\ job'[p].prev.number = job[p].prev.number
  <2>. DEFINE j == job[p]
              prev == aged(j.prev)
  <2>1. j \in JobStates
    BY DEF StatusIInv, StatusTyped
  <2>2. job'[p] = [j EXCEPT !.now = Older(@), !.prev.measured = Older(@), !.prev.taken = Older(@)]
    BY DEF Tick
  <2>. HIDE DEF j
  <2>3. /\ prev \in Numbers /\ prev.measured = Older(j.prev.measured)
        /\ prev.taken = Older(j.prev.taken) /\ prev.number = j.prev.number
    BY <2>1, AgesTyped DEF JobStates, Numbers
  <2>4. [j EXCEPT !.now = Older(@), !.prev.measured = Older(@), !.prev.taken = Older(@)] = [j EXCEPT !.now = Older(@), !.prev = prev]
    BY <2>1 DEF JobStates, Numbers
  <2>. HIDE DEF prev
  <2>5. job'[p] = [j EXCEPT !.now = Older(@), !.prev = prev]
    BY <2>2, <2>4
  <2>6. Older(j.now) \in Ages
    BY <2>1, AgesTyped DEF JobStates
  <2>7. /\ job'[p] \in JobStates /\ job'[p].at = j.at /\ job'[p].result = j.result
        /\ job'[p].now = Older(j.now) /\ job'[p].prev = prev
    BY <2>1, <2>3, <2>5, <2>6 DEF JobStates
  <2>. QED BY <2>3, <2>7 DEF j
<1>4. job' \in [Jobs -> JobStates]
  <2>1. job' = [p \in Jobs |-> job'[p]] BY DEF Tick
  <2>. QED BY <1>3, <2>1
<1>5. StatusTyped'
  BY <1>1, <1>2, <1>4 DEF StatusIInv, StatusTyped
<1>6. Accounts'
  <2>1. Working' = Working BY <1>3 DEF Working
  <2>. QED BY <1>2, <2>1 DEF StatusIInv, Accounts
<1>7. cache.measured \in Ages /\ cache.taken \in Ages
      /\ \A p \in Jobs : job[p].now \in Ages /\ job[p].prev.measured \in Ages /\ job[p].prev.taken \in Ages
  BY DEF StatusIInv, StatusTyped, CacheTexts, JobStates, Numbers
<1>8. NumbersDated'
  <2>1. Dated(cache')
    BY <1>1, <1>7, AgesTyped DEF StatusIInv, NumbersDated, Dated
  <2>2. ASSUME NEW p \in Jobs
        PROVE  /\ Dated(job'[p].prev)
               /\ job'[p].at \in {"fetch", "write"} => job'[p].now # Never
               /\ job'[p].at = "write" => job'[p].result # "none"
    <3>1. Dated(job[p].prev) /\ (job[p].at \in {"fetch", "write"} => job[p].now # Never)
          /\ (job[p].at = "write" => job[p].result # "none")
      BY DEF StatusIInv, NumbersDated
    <3>2. Dated(job'[p].prev)
      BY <1>3, <1>7, <3>1, AgesTyped DEF Dated
    <3>3. job[p].at \in {"fetch", "write"} => Older(job[p].now) # Never
      BY <1>7, <3>1, AgesTyped
    <3>. QED BY <1>3, <3>1, <3>2, <3>3
  <2>. QED BY <2>1, <2>2 DEF NumbersDated, Dated
<1>9. NothingOvertaken'
  <2>. SUFFICES ASSUME steals = 0, NEW p \in Jobs
               PROVE  /\ job'[p].at \in {"fetch", "write"} /\ cache'.number => job'[p].now <= cache'.measured
                      /\ job'[p].at = "write" /\ job'[p].result = "failed" =>
                            job'[p].prev = [measured |-> cache'.measured, number |-> cache'.number, taken |-> cache'.taken]
    BY <1>2 DEF NothingOvertaken
  <2>1. job'[p].at \in {"fetch", "write"} /\ cache'.number => job'[p].now <= cache'.measured
    <3>. SUFFICES ASSUME job[p].at \in {"fetch", "write"}, cache.number
                 PROVE  Older(job[p].now) <= Older(cache.measured)
      BY <1>1, <1>3
    <3>1. job[p].now # Never /\ cache.measured # Never
      BY DEF StatusIInv, NumbersDated, Dated
    <3>2. job[p].now <= cache.measured
      BY DEF StatusIInv, NothingOvertaken
    <3>. QED BY <1>7, <3>1, <3>2, AgesTyped
  <2>2. ASSUME job'[p].at = "write", job'[p].result = "failed"
        PROVE  job'[p].prev = [measured |-> cache'.measured, number |-> cache'.number, taken |-> cache'.taken]
    <3>1. job[p].prev = [measured |-> cache.measured, number |-> cache.number, taken |-> cache.taken]
      BY <1>3, <2>2 DEF StatusIInv, NothingOvertaken
    <3>2. /\ job'[p].prev \in Numbers /\ job'[p].prev.measured = cache'.measured
          /\ job'[p].prev.number = cache'.number /\ job'[p].prev.taken = cache'.taken
      BY <1>1, <1>3, <3>1 DEF JobStates
    <3>. QED BY <3>2 DEF Numbers
  <2>. QED BY <2>1, <2>2
<1>. QED BY <1>5, <1>6, <1>8, <1>9 DEF StatusIInv

LEMMA StatusStepKeeps == StatusIInv /\ [StatusNext]_statusVars => StatusIInv'
<1>. SUFFICES ASSUME StatusIInv, [StatusNext]_statusVars PROVE StatusIInv'
  OBVIOUS
<1>1. CASE UNCHANGED statusVars
  BY <1>1 DEF statusVars, StatusIInv, StatusTyped, Accounts, NumbersDated, NothingOvertaken, Working, Dated
<1>2. ASSUME NEW p \in Jobs, Steps(p) PROVE StatusIInv'
  BY <1>2, maybeRefreshKeeps, StatKeeps, RemoveLockKeeps, MkdirKeeps, StartRefresherKeeps,
     RefreshKeeps, FetchKeeps, writeCacheKeeps, UnlockKeeps DEF Steps
<1>. QED BY <1>1, <1>2, KillKeeps, StatusTickKeeps DEF StatusNext

LEMMA AlwaysHolds == StatusSpec => []StatusIInv
<1>1. StatusInit => StatusIInv BY StatusInitHolds
<1>2. StatusIInv /\ [StatusNext]_statusVars => StatusIInv' BY StatusStepKeeps
<1>. QED BY <1>1, <1>2, PTL DEF StatusSpec

(* For any number of renders and any limits: at most one fetch per         *)
(* provider, and one more for each lock that was found abandoned.          *)
THEOREM FetchesAreBounded == StatusSpec => []OneFetchPerLock
<1>1. ASSUME StatusIInv PROVE OneFetchPerLock
  <2>1. Refreshers \subseteq Working
    BY DEF Refreshers, Working
  <2>2. Cardinality(Refreshers) \in Nat /\ Cardinality(Refreshers) <= Cardinality(Working)
    BY <2>1, CardinalityTyped, FS_Subset, FS_CardinalityType
  <2>. QED BY <1>1, <2>2, CardinalityTyped DEF StatusIInv, StatusTyped, Accounts, OneFetchPerLock
<1>. QED BY <1>1, AlwaysHolds, PTL

(* For any number of renders and any limits: a number on display without   *)
(* the mark comes from an answer no older than StaleAfter.                 *)
THEOREM DisplayIsHonest == StatusSpec => []NumberIsHonest
<1>1. ASSUME StatusIInv PROVE NumberIsHonest
  BY <1>1, StatusAssumption DEF StatusIInv, StatusTyped, CacheTexts, NumbersDated, Dated, NumberIsHonest, providerPart, Ages, Never, MaxAge
<1>. QED BY <1>1, AlwaysHolds, PTL

(* For any number of renders and any limits: a failed fetch erases nothing *)
(* and nothing older replaces what is there, until a lock is stolen.       *)
THEOREM LastGoodIsKept == StatusSpec => LastGoodKept
<1>. DEFINE Kept ==
       \A p \in Jobs : (writeCache(p) /\ cache.number /\ steals = 0) =>
           /\ cache'.number \/ job[p].result \in {"unnumbered", "empty"}
           /\ cache'.measured # Never /\ cache'.measured <= cache.measured
<1>1. ASSUME StatusIInv, NEW p \in Jobs, writeCache(p), cache.number, steals = 0
      PROVE  /\ cache'.number \/ job[p].result \in {"unnumbered", "empty"}
             /\ cache'.measured # Never /\ cache'.measured <= cache.measured
  <2>. DEFINE j == job[p]
  <2>1. /\ j.at = "write" /\ j.now # Never /\ j.now <= cache.measured
        /\ j.result = "failed" => j.prev = [measured |-> cache.measured, number |-> cache.number, taken |-> cache.taken]
        /\ cache.measured # Never /\ cache.measured \in Int
    BY <1>1, AgesTyped DEF StatusIInv, StatusTyped, CacheTexts, NumbersDated, Dated, NothingOvertaken, writeCache
  <2>2. CASE UNCHANGED cache
    BY <1>1, <2>1, <2>2
  <2>3. CASE cache' = Body(j) /\ j.result = "failed"
    BY <1>1, <2>1, <2>3 DEF Body
  <2>4. CASE cache' = Body(j) /\ j.result = "number"
    BY <2>1, <2>4 DEF Body
  <2>5. CASE cache' = Body(j) /\ j.result \in {"unnumbered", "empty"}
    BY <2>1, <2>5 DEF Body
  <2>6. j.result # "none"
    BY <1>1, <2>1 DEF StatusIInv, NumbersDated
  <2>. QED BY <1>1, <2>2, <2>3, <2>4, <2>5, <2>6 DEF writeCache, StatusIInv, StatusTyped, JobStates, Results
<1>2. StatusIInv /\ [StatusNext]_statusVars => [Kept]_statusVars
  BY <1>1
<1>. QED BY <1>2, AlwaysHolds, PTL DEF StatusSpec, LastGoodKept

(***************************************************************************)
(* The data-policy and endpoint caches: a verdict that clears an id rests on *)
(* fresh answers about everybody who may serve it, for any callers, ids,   *)
(* hosts and answers, and any FreshFor.                                    *)
(***************************************************************************)

Strict == "no-train-no-retain"
Stamps == {n \in Int : n >= Future}
Records == [stamp : Stamps, taken : Nat, hosts : SUBSET Hosts]
Lists == PolicyLists \union {NoList}
ListFiles == [stamp : Stamps, taken : Nat, list : Lists]
Calls == [at : {"idle", "list", "endpoints", "fetching", "done"}, since : Nat, refresh : BOOLEAN,
          list : Lists, listTaken : Nat, now : Nat, old : [Offered -> Records], used : [Offered -> Records],
          fetched : SUBSET Offered, verdict : [Offered -> PolicyVerdicts]]

PolicyTypeOK ==
  /\ listFile \in ListFiles
  /\ endpointFile \in [Offered -> Records]
  /\ call \in [Callers -> Calls]

(* A stamp that is not in the future never makes an answer look younger    *)
(* than it is.                                                             *)
Honest(r) == r.stamp >= 0 => r.taken <= r.stamp

HonestFiles == Honest(listFile) /\ \A i \in Offered : Honest(endpointFile[i])

(* The same of what a call has read; a call that has a list got it less    *)
(* than FreshFor old; and a strict verdict was concluded from that list    *)
(* and from an answer as fresh.                                            *)
HonestCall(j) ==
  /\ \A i \in Offered : Honest(j.old[i]) /\ Honest(j.used[i])
  /\ j.at \in {"endpoints", "fetching"} => j.listTaken < FreshFor + j.since
  /\ \A i \in Offered : j.verdict[i] = Strict =>
        /\ j.at = "fetching"
        /\ policyOf(j.used[i].hosts, j.list) = Strict
        /\ j.used[i].taken < FreshFor + j.since

PolicyIInv == PolicyTypeOK /\ HonestFiles /\ \A c \in Callers : HonestCall(call[c])

LEMMA StrictMeans ==
  ASSUME NEW list \in Lists, NEW hosts \in SUBSET Hosts, policyOf(hosts, list) = Strict
  PROVE  /\ hosts # {}
         /\ \A h \in hosts : list[h].training = "no" /\ list[h].retains = "no" /\ list[h].openRouter # "yes"
<1>1. hosts # {} /\ \A h \in hosts : /\ list[h].training \notin {"", "yes"} /\ list[h].openRouter # "yes"
                                    /\ list[h].retains \notin {"", "yes"}
  BY DEF policyOf, Strict
<1>2. \A h \in hosts : list[h] \in Rows
  <2>1. CASE list \in PolicyLists
    BY <2>1, PolicyAssumption
  <2>2. CASE list = NoList
    BY <2>2 DEF NoList, Unlisted, Rows
  <2>. QED BY <2>1, <2>2 DEF Lists
<1>. QED BY <1>1, <1>2 DEF Rows

LEMMA PolicyOfTyped == \A hosts, list : policyOf(hosts, list) \in PolicyVerdicts
BY DEF policyOf, PolicyVerdicts

(* Ageing keeps types, the order of two ages, and adds one at most.        *)
LEMMA AgedKeeps ==
  ASSUME NEW most \in Nat
  PROVE  /\ \A n \in Nat : Aged(n, most) \in Nat /\ Aged(n, most) <= n + 1
         /\ \A r \in Records : /\ AgedRecord(r, most) \in Records
                               /\ AgedRecord(r, most).hosts = r.hosts
                               /\ AgedRecord(r, most).taken <= r.taken + 1
                               /\ Honest(r) => Honest(AgedRecord(r, most))
         /\ \A r \in ListFiles : /\ AgedRecord(r, most) \in ListFiles
                                 /\ Honest(r) => Honest(AgedRecord(r, most))
<1>1. \A n \in Nat : Aged(n, most) \in Nat /\ Aged(n, most) <= n + 1
  BY DEF Aged, Future
<1>2. \A n \in Stamps : Aged(n, most) \in Stamps
  BY DEF Aged, Future, Stamps
<1>3. \A n \in Stamps, m \in Nat : (n >= 0 => m <= n) => (Aged(n, most) >= 0 => Aged(m, most) <= Aged(n, most))
  BY DEF Aged, Future, Stamps
<1>4. ASSUME NEW r \in Records
      PROVE  /\ AgedRecord(r, most) \in Records
             /\ AgedRecord(r, most).hosts = r.hosts
             /\ AgedRecord(r, most).taken = Aged(r.taken, most)
             /\ AgedRecord(r, most).stamp = Aged(r.stamp, most)
  BY <1>1, <1>2 DEF AgedRecord, Records
<1>5. ASSUME NEW r \in ListFiles
      PROVE  /\ AgedRecord(r, most) \in ListFiles
             /\ AgedRecord(r, most).taken = Aged(r.taken, most)
             /\ AgedRecord(r, most).stamp = Aged(r.stamp, most)
  BY <1>1, <1>2 DEF AgedRecord, ListFiles
<1>. QED BY <1>1, <1>3, <1>4, <1>5 DEF Honest, Records, ListFiles

LEMMA BlankTyped ==
  /\ NoRecord \in Records /\ Honest(NoRecord)
  /\ NoList \in Lists
  /\ NoListFile \in ListFiles /\ Honest(NoListFile)
  /\ NoCall \in Calls /\ HonestCall(NoCall)
<1>1. FreshFor \in Nat /\ FreshFor \in Stamps
  BY PolicyAssumption DEF Stamps, Future
<1>2. NoRecord \in Records /\ Honest(NoRecord)
  BY <1>1 DEF NoRecord, Records, Honest
<1>3. NoList \in Lists
  BY DEF Lists
<1>4. NoListFile \in ListFiles /\ Honest(NoListFile)
  BY <1>1, <1>3 DEF NoListFile, ListFiles, Honest
<1>5. "none" \in PolicyVerdicts
  BY DEF PolicyVerdicts
<1>6. NoCall \in Calls
  BY <1>1, <1>2, <1>3, <1>5 DEF NoCall, Calls
<1>7. HonestCall(NoCall)
  BY <1>2 DEF NoCall, HonestCall, Strict
<1>. QED BY <1>2, <1>3, <1>4, <1>6, <1>7

LEMMA PolicyInitHolds == PolicyInit => PolicyIInv
<1>. SUFFICES ASSUME PolicyInit PROVE PolicyIInv
  OBVIOUS
<1>1. listFile \in ListFiles /\ Honest(listFile)
  <2>1. CASE listFile = NoListFile
    BY <2>1, BlankTyped
  <2>2. CASE listFile # NoListFile
    <3>1. listFile \in [stamp : {Future, FreshFor}, taken : {FreshFor}, list : PolicyLists]
      BY <2>2 DEF PolicyInit
    <3>. QED BY <3>1, PolicyAssumption DEF ListFiles, Lists, Stamps, Future, Honest
  <2>. QED BY <2>1, <2>2
<1>2. endpointFile = [i \in Offered |-> NoRecord] /\ call = [c \in Callers |-> NoCall]
  BY DEF PolicyInit
<1>. QED BY <1>1, <1>2, BlankTyped DEF PolicyIInv, PolicyTypeOK, HonestFiles

(* A caller's step leaves the others' calls alone.                         *)
LEMMA CallerKeeps ==
  ASSUME PolicyIInv, NEW c \in Callers, NEW j, j \in Calls, HonestCall(j), Becomes(c, j),
         listFile' \in ListFiles, Honest(listFile'),
         endpointFile' \in [Offered -> Records], \A i \in Offered : Honest(endpointFile'[i])
  PROVE  PolicyIInv'
<1>1. call' \in [Callers -> Calls] /\ \A d \in Callers : call'[d] = IF d = c THEN j ELSE call[d]
  BY DEF PolicyIInv, PolicyTypeOK, Becomes
<1>2. \A d \in Callers : HonestCall(call'[d])
  BY <1>1 DEF PolicyIInv
<1>. QED BY <1>1, <1>2 DEF PolicyIInv, PolicyTypeOK, HonestFiles

LEMMA PolicyTickKeeps == ASSUME PolicyIInv, PolicyTick PROVE PolicyIInv'
<1>1. FreshFor \in Nat /\ Ancient \in Nat
  BY PolicyAssumption DEF Ancient
<1>2. listFile' \in ListFiles /\ Honest(listFile')
  BY <1>1, AgedKeeps DEF PolicyTick, PolicyIInv, PolicyTypeOK, HonestFiles
<1>3. endpointFile' \in [Offered -> Records] /\ \A i \in Offered : Honest(endpointFile'[i])
  BY <1>1, AgedKeeps DEF PolicyTick, PolicyIInv, PolicyTypeOK, HonestFiles
<1>4. ASSUME NEW c \in Callers PROVE call'[c] \in Calls /\ HonestCall(call'[c])
  <2>. DEFINE j == call[c]
  <2>1. j \in Calls /\ HonestCall(j)
    BY DEF PolicyIInv, PolicyTypeOK
  <2>2. CASE j.at = "idle"
    BY <2>1, <2>2 DEF PolicyTick
  <2>3. CASE j.at # "idle"
    <3>. DEFINE old == [i \in Offered |-> AgedRecord(j.old[i], Ancient)]
                used == [i \in Offered |-> AgedRecord(j.used[i], Ancient)]
                lt == Aged(j.listTaken, Ancient)
    <3>1. call'[c] = [j EXCEPT !.since = @ + 1, !.now = @ + 1, !.listTaken = lt, !.old = old, !.used = used]
      BY <2>3 DEF PolicyTick
    <3>2. \A i \in Offered : j.old[i] \in Records /\ j.used[i] \in Records
      BY <2>1 DEF Calls
    <3>3. old \in [Offered -> Records] /\ used \in [Offered -> Records]
      BY <1>1, <3>2, AgedKeeps
    <3>4. lt \in Nat /\ lt <= j.listTaken + 1
      BY <1>1, <2>1, AgedKeeps DEF Calls
    <3>5. \A i \in Offered : /\ Honest(old[i]) /\ Honest(used[i])
                            /\ used[i].hosts = j.used[i].hosts
                            /\ used[i].taken <= j.used[i].taken + 1
      BY <1>1, <2>1, <3>2, AgedKeeps DEF HonestCall
    <3>. HIDE DEF j, old, used, lt
    <3>5a. j.since + 1 \in Nat /\ j.now + 1 \in Nat
      BY <2>1 DEF Calls
    <3>5b. call'[c] = [at |-> j.at, since |-> j.since + 1, refresh |-> j.refresh, list |-> j.list, listTaken |-> lt,
                       now |-> j.now + 1, old |-> old, used |-> used, fetched |-> j.fetched, verdict |-> j.verdict]
      BY <2>1, <3>1 DEF Calls
    <3>6. /\ call'[c] \in Calls
          /\ call'[c].since = j.since + 1 /\ call'[c].listTaken = lt
          /\ call'[c].old = old /\ call'[c].used = used
          /\ call'[c].at = j.at /\ call'[c].list = j.list /\ call'[c].verdict = j.verdict
      BY <2>1, <3>5a, <3>5b, <3>3, <3>4 DEF Calls
    <3>7. j.since \in Nat /\ j.listTaken \in Nat /\ \A i \in Offered : j.used[i].taken \in Nat /\ used[i].taken \in Nat
      BY <2>1, <3>2, <3>3 DEF Calls, Records
    <3>8. HonestCall(call'[c])
      BY <1>1, <2>1, <3>4, <3>5, <3>6, <3>7 DEF HonestCall
    <3>. QED BY <3>6, <3>8
  <2>. QED BY <2>2, <2>3
<1>5. call' \in [Callers -> Calls]
  <2>1. DOMAIN call' = Callers /\ call' = [c \in Callers |-> call'[c]]
    BY DEF PolicyTick
  <2>. QED BY <1>4, <2>1
<1>. QED BY <1>2, <1>3, <1>4, <1>5 DEF PolicyIInv, PolicyTypeOK, HonestFiles

LEMMA FilesUnchanged ==
  ASSUME PolicyIInv, UNCHANGED <<listFile, endpointFile>>
  PROVE  /\ listFile' \in ListFiles /\ Honest(listFile')
         /\ endpointFile' \in [Offered -> Records] /\ \A i \in Offered : Honest(endpointFile'[i])
BY DEF PolicyIInv, PolicyTypeOK, HonestFiles, Honest

LEMMA loadListKeeps == ASSUME PolicyIInv, NEW c \in Callers, loadList(c) PROVE PolicyIInv'
<1>. DEFINE k == call[c]
<1>1. PICK refresh \in BOOLEAN :
        LET usable == listFile.list # NoList /\ ~refresh /\ isFresh(listFile.stamp)
        IN  Becomes(c, [k EXCEPT
                !.at = IF usable THEN "endpoints" ELSE "list",
                !.refresh = refresh /\ ~usable,
                !.list = IF usable THEN listFile.list ELSE NoList,
                !.listTaken = IF usable THEN listFile.taken ELSE FreshFor])
  BY DEF loadList
<1>. DEFINE usable == listFile.list # NoList /\ ~refresh /\ isFresh(listFile.stamp)
            at == IF usable THEN "endpoints" ELSE "list"
            list == IF usable THEN listFile.list ELSE NoList
            taken == IF usable THEN listFile.taken ELSE FreshFor
            again == refresh /\ ~usable
            new == [at |-> at, since |-> k.since, refresh |-> again, list |-> list, listTaken |-> taken, now |-> k.now, old |-> k.old,
                    used |-> k.used, fetched |-> k.fetched, verdict |-> k.verdict]
<1>2. k \in Calls /\ HonestCall(k) /\ k.at = "idle"
  BY DEF PolicyIInv, PolicyTypeOK, loadList
<1>3. list \in Lists /\ taken \in Nat /\ again \in BOOLEAN
  BY BlankTyped, PolicyAssumption DEF PolicyIInv, PolicyTypeOK, ListFiles
<1>4. at = "endpoints" => taken < FreshFor
  BY PolicyAssumption DEF isFresh, PolicyIInv, PolicyTypeOK, HonestFiles, Honest, ListFiles, Stamps
<1>5. at \in {"endpoints", "list"}
  OBVIOUS
<1>6. Becomes(c, [k EXCEPT !.at = at, !.refresh = again, !.list = list, !.listTaken = taken])
  BY <1>1
<1>. HIDE DEF at, list, taken, again, k
<1>7p. PICK x : x = [k EXCEPT !.at = at, !.refresh = again, !.list = list, !.listTaken = taken]
  OBVIOUS
<1>7. x = new
  BY <1>7p, <1>2, <1>3, <1>5 DEF Calls
<1>8. new \in Calls
  BY <1>2, <1>3, <1>5 DEF Calls
<1>9. k.since \in Nat
  BY <1>2 DEF Calls
<1>10. HonestCall(new)
  BY <1>2, <1>3, <1>4, <1>5, <1>9, PolicyAssumption DEF HonestCall
<1>. HIDE DEF new
<1>. QED BY <1>6, <1>7p, <1>7, <1>8, <1>10, FilesUnchanged, CallerKeeps DEF loadList

LEMMA listFetchedKeeps == ASSUME PolicyIInv, NEW c \in Callers, listFetched(c) PROVE PolicyIInv'
<1>. DEFINE k == call[c]
<1>1. PICK list \in PolicyLists :
        /\ Becomes(c, [k EXCEPT !.at = "endpoints", !.list = list, !.listTaken = 0])
        /\ listFile' \in {listFile, [stamp |-> 0, taken |-> 0, list |-> list]}
  BY DEF listFetched
<1>. DEFINE new == [at |-> "endpoints", since |-> k.since, refresh |-> k.refresh, list |-> list, listTaken |-> 0, now |-> k.now, old |-> k.old,
                    used |-> k.used, fetched |-> k.fetched, verdict |-> k.verdict]
<1>2. k \in Calls /\ HonestCall(k) /\ k.at = "list"
  BY DEF PolicyIInv, PolicyTypeOK, listFetched
<1>3. list \in Lists
  BY DEF Lists
<1>4. listFile' \in ListFiles /\ Honest(listFile')
  <2>. DEFINE written == [stamp |-> 0, taken |-> 0, list |-> list]
  <2>1. written \in ListFiles /\ Honest(written)
    BY <1>3 DEF ListFiles, Stamps, Future, Honest
  <2>. QED BY <1>1, <2>1 DEF PolicyIInv, PolicyTypeOK, HonestFiles
<1>5. endpointFile' \in [Offered -> Records] /\ \A i \in Offered : Honest(endpointFile'[i])
  BY DEF listFetched, PolicyIInv, PolicyTypeOK, HonestFiles
<1>. HIDE DEF k
<1>6p. PICK x : x = [k EXCEPT !.at = "endpoints", !.list = list, !.listTaken = 0]
  OBVIOUS
<1>6. x = new
  BY <1>6p, <1>2, <1>3 DEF Calls
<1>7. new \in Calls
  BY <1>2, <1>3 DEF Calls
<1>8. k.since \in Nat
  BY <1>2 DEF Calls
<1>9. HonestCall(new)
  BY <1>2, <1>8, PolicyAssumption DEF HonestCall
<1>. HIDE DEF new
<1>. QED BY <1>1, <1>4, <1>5, <1>6p, <1>6, <1>7, <1>9, CallerKeeps

LEMMA listFailedKeeps == ASSUME PolicyIInv, NEW c \in Callers, listFailed(c) PROVE PolicyIInv'
<1>. DEFINE k == call[c]
            unknown == [i \in Offered |-> "unknown"]
            new == [at |-> "done", since |-> k.since, refresh |-> k.refresh, list |-> k.list, listTaken |-> k.listTaken, now |-> k.now, old |-> k.old,
                    used |-> k.used, fetched |-> k.fetched, verdict |-> unknown]
<1>1. Becomes(c, [k EXCEPT !.at = "done", !.verdict = unknown])
  BY DEF listFailed
<1>2. k \in Calls /\ HonestCall(k)
  BY DEF PolicyIInv, PolicyTypeOK
<1>3. unknown \in [Offered -> PolicyVerdicts] /\ \A i \in Offered : unknown[i] # Strict
  BY DEF PolicyVerdicts, Strict
<1>. HIDE DEF unknown, k
<1>4p. PICK x : x = [k EXCEPT !.at = "done", !.verdict = unknown]
  OBVIOUS
<1>4. x = new
  BY <1>4p, <1>2, <1>3 DEF Calls
<1>5. new \in Calls
  BY <1>2, <1>3 DEF Calls
<1>6. HonestCall(new)
  BY <1>2, <1>3 DEF HonestCall
<1>. HIDE DEF new
<1>. QED BY <1>1, <1>4p, <1>4, <1>5, <1>6, FilesUnchanged, CallerKeeps DEF listFailed

LEMMA readEndpointCacheKeeps == ASSUME PolicyIInv, NEW c \in Callers, readEndpointCache(c) PROVE PolicyIInv'
<1>. DEFINE k == call[c]
            known == {i \in Offered : ~k.refresh /\ isFresh(endpointFile[i].stamp)}
            used == [i \in Offered |-> IF i \in known THEN endpointFile[i] ELSE NoRecord]
            verdict == [i \in Offered |-> IF i \in known THEN policyOf(endpointFile[i].hosts, k.list) ELSE "none"]
            new == [at |-> "fetching", since |-> k.since, refresh |-> FALSE, list |-> k.list, listTaken |-> k.listTaken, now |-> 0, old |-> endpointFile,
                    used |-> used, fetched |-> k.fetched, verdict |-> verdict]
<1>1. Becomes(c, [k EXCEPT !.at = "fetching", !.now = 0, !.old = endpointFile, !.refresh = FALSE,
                           !.used = used, !.verdict = verdict])
  BY DEF readEndpointCache
<1>2. k \in Calls /\ HonestCall(k) /\ k.at = "endpoints"
  BY DEF PolicyIInv, PolicyTypeOK, readEndpointCache
<1>3. endpointFile \in [Offered -> Records] /\ \A i \in Offered : Honest(endpointFile[i])
  BY DEF PolicyIInv, PolicyTypeOK, HonestFiles
<1>. HIDE DEF k
<1>4. used \in [Offered -> Records] /\ \A i \in Offered : Honest(used[i])
  BY <1>3, BlankTyped
<1>5. verdict \in [Offered -> PolicyVerdicts]
  BY PolicyOfTyped DEF PolicyVerdicts
<1>6. ASSUME NEW i \in Offered, verdict[i] = Strict
      PROVE  policyOf(used[i].hosts, k.list) = Strict /\ used[i].taken < FreshFor
  <2>1. i \in known
    BY <1>6 DEF Strict
  <2>2. used[i] = endpointFile[i] /\ used[i] \in Records /\ Honest(used[i]) /\ isFresh(used[i].stamp)
    BY <1>3, <2>1
  <2>3. used[i].taken < FreshFor
    BY <2>2, PolicyAssumption DEF isFresh, Honest, Records, Stamps
  <2>. QED BY <1>6, <2>1, <2>2, <2>3
<1>. HIDE DEF used, verdict
<1>7p. PICK x : x = [k EXCEPT !.at = "fetching", !.now = 0, !.old = endpointFile, !.refresh = FALSE,
                !.used = used, !.verdict = verdict]
  OBVIOUS
<1>7. x = new
  BY <1>7p, <1>2, <1>3, <1>4, <1>5 DEF Calls
<1>8. new \in Calls
  BY <1>2, <1>3, <1>4, <1>5 DEF Calls
<1>9. k.since \in Nat /\ \A i \in Offered : used[i].taken \in Nat
  BY <1>2, <1>4 DEF Calls, Records
<1>10. HonestCall(new)
  BY <1>2, <1>3, <1>4, <1>6, <1>9, PolicyAssumption DEF HonestCall
<1>. HIDE DEF new
<1>. QED BY <1>1, <1>7p, <1>7, <1>8, <1>10, FilesUnchanged, CallerKeeps DEF readEndpointCache

LEMMA fetchEndpointsKeeps == ASSUME PolicyIInv, NEW c \in Callers, NEW i \in Offered, fetchEndpoints(c, i) PROVE PolicyIInv'
<1>. DEFINE k == call[c]
<1>1. k \in Calls /\ HonestCall(k) /\ k.at = "fetching"
  BY DEF PolicyIInv, PolicyTypeOK, fetchEndpoints
<1>2. CASE Becomes(c, [k EXCEPT !.verdict[i] = "unknown"])
  <2>. DEFINE verdict == [k.verdict EXCEPT ![i] = "unknown"]
              new == [at |-> k.at, since |-> k.since, refresh |-> k.refresh, list |-> k.list, listTaken |-> k.listTaken, now |-> k.now, old |-> k.old,
                      used |-> k.used, fetched |-> k.fetched, verdict |-> verdict]
  <2>1. verdict \in [Offered -> PolicyVerdicts] /\ \A n \in Offered : verdict[n] = Strict => k.verdict[n] = Strict
    BY <1>1 DEF Calls, PolicyVerdicts, Strict
  <2>. HIDE DEF k
  <2>2p. PICK x : x = [k EXCEPT !.verdict[i] = "unknown"]
    OBVIOUS
  <2>2. x = new
    BY <2>2p, <1>1 DEF Calls
  <2>. HIDE DEF verdict
  <2>3. new \in Calls
    BY <1>1, <2>1 DEF Calls
  <2>4. HonestCall(new)
    BY <1>1, <2>1 DEF HonestCall
  <2>. HIDE DEF new
  <2>. QED BY <1>2, <2>2p, <2>2, <2>3, <2>4, FilesUnchanged, CallerKeeps DEF fetchEndpoints
<1>3. CASE \E hosts \in EndpointLists :
             Becomes(c, [k EXCEPT !.fetched = @ \union {i}, !.old[i] = NoRecord,
                                  !.used[i] = [stamp |-> k.now, taken |-> 0, hosts |-> hosts],
                                  !.verdict[i] = policyOf(hosts, k.list)])
  <2>1. PICK hosts \in EndpointLists :
          Becomes(c, [k EXCEPT !.fetched = @ \union {i}, !.old[i] = NoRecord,
                               !.used[i] = [stamp |-> k.now, taken |-> 0, hosts |-> hosts],
                               !.verdict[i] = policyOf(hosts, k.list)])
    BY <1>3
  <2>. DEFINE answer == [stamp |-> k.now, taken |-> 0, hosts |-> hosts]
              fetched == k.fetched \union {i}
              old == [k.old EXCEPT ![i] = NoRecord]
              used == [k.used EXCEPT ![i] = answer]
              verdict == [k.verdict EXCEPT ![i] = policyOf(hosts, k.list)]
              new == [at |-> k.at, since |-> k.since, refresh |-> k.refresh, list |-> k.list, listTaken |-> k.listTaken, now |-> k.now, old |-> old,
                      used |-> used, fetched |-> fetched, verdict |-> verdict]
  <2>. HIDE DEF k
  <2>2. answer \in Records /\ Honest(answer) /\ answer.taken = 0 /\ answer.hosts = hosts
    BY <1>1, PolicyAssumption DEF Records, Calls, Stamps, Future, Honest
  <2>. HIDE DEF answer
  <2>4. fetched \in SUBSET Offered
    BY <1>1 DEF Calls
  <2>5. old \in [Offered -> Records] /\ \A n \in Offered : Honest(old[n])
    BY <1>1, BlankTyped DEF Calls, HonestCall
  <2>6. /\ used \in [Offered -> Records] /\ \A n \in Offered : Honest(used[n])
        /\ \A n \in Offered : used[n] = IF n = i THEN answer ELSE k.used[n]
    BY <1>1, <2>2 DEF Calls, HonestCall
  <2>7. /\ verdict \in [Offered -> PolicyVerdicts]
        /\ \A n \in Offered : verdict[n] = IF n = i THEN policyOf(hosts, k.list) ELSE k.verdict[n]
    BY <1>1, PolicyOfTyped DEF Calls
  <2>3p. PICK x : x = [k EXCEPT !.fetched = @ \union {i}, !.old[i] = NoRecord,
                                !.used[i] = answer, !.verdict[i] = policyOf(hosts, k.list)]
    OBVIOUS
  <2>7a. x = [k EXCEPT !.fetched = fetched, !.old = old, !.used = used, !.verdict = verdict]
    BY <1>1, <2>3p DEF Calls
  <2>. HIDE DEF fetched, old, used, verdict
  <2>3. x = new
    BY <2>7a, <1>1, <2>4, <2>5, <2>6, <2>7 DEF Calls
  <2>8. new \in Calls
    BY <1>1, <2>4, <2>5, <2>6, <2>7 DEF Calls
  <2>9. k.since \in Nat
    BY <1>1 DEF Calls
  <2>10. HonestCall(new)
    BY <1>1, <2>2, <2>5, <2>6, <2>7, <2>9, PolicyAssumption DEF HonestCall
  <2>. HIDE DEF new
  <2>11. Becomes(c, new)
    BY <2>1, <2>3p, <2>3 DEF answer
  <2>. QED BY <2>8, <2>10, <2>11, FilesUnchanged, CallerKeeps DEF fetchEndpoints
<1>. QED BY <1>2, <1>3 DEF fetchEndpoints

LEMMA EndsKeep ==
  ASSUME PolicyIInv, NEW c \in Callers, Becomes(c, NoCall), listFile' = listFile,
         endpointFile' \in [Offered -> Records], \A i \in Offered : Honest(endpointFile'[i])
  PROVE  PolicyIInv'
<1>1. listFile' \in ListFiles /\ Honest(listFile')
  BY DEF PolicyIInv, PolicyTypeOK, HonestFiles
<1>. QED BY <1>1, BlankTyped, CallerKeeps

LEMMA writeEndpointCacheKeeps == ASSUME PolicyIInv, NEW c \in Callers, writeEndpointCache(c) PROVE PolicyIInv'
<1>. DEFINE merged == [i \in Offered |->
                         IF i \in call[c].fetched THEN call[c].used[i]
                         ELSE IF isFresh(call[c].old[i].stamp - call[c].now) THEN call[c].old[i]
                         ELSE NoRecord]
<1>1. /\ Becomes(c, NoCall) /\ listFile' = listFile
      /\ endpointFile' = endpointFile \/ endpointFile' = merged
  BY DEF writeEndpointCache
<1>2. merged \in [Offered -> Records] /\ \A i \in Offered : Honest(merged[i])
  BY BlankTyped DEF PolicyIInv, PolicyTypeOK, Calls, HonestCall
<1>3. endpointFile' \in [Offered -> Records] /\ \A i \in Offered : Honest(endpointFile'[i])
  BY <1>1, <1>2 DEF PolicyIInv, PolicyTypeOK, HonestFiles
<1>. QED BY <1>1, <1>3, EndsKeep

LEMMA PolicyStepKeeps == PolicyIInv /\ [PolicyNext]_policyVars => PolicyIInv'
<1>. SUFFICES ASSUME PolicyIInv, [PolicyNext]_policyVars PROVE PolicyIInv'
  OBVIOUS
<1>1. CASE UNCHANGED policyVars
  BY <1>1 DEF policyVars, PolicyIInv, PolicyTypeOK, HonestFiles, HonestCall, Honest
<1>2. ASSUME NEW c \in Callers, Returns(c) PROVE PolicyIInv'
  BY <1>2, FilesUnchanged, EndsKeep DEF Returns
<1>. QED BY <1>1, <1>2, PolicyTickKeeps, loadListKeeps, listFetchedKeeps, listFailedKeeps, readEndpointCacheKeeps,
            fetchEndpointsKeeps, writeEndpointCacheKeeps DEF PolicyNext

(* For any callers, ids, hosts, answers and FreshFor: a verdict that lets  *)
(* a free model be picked rests on a "no" of everybody listed for it, in   *)
(* answers that were fresh when the call began.                            *)
THEOREM StrictVerdictsAreFresh == PolicySpec => []StrictVerdictIsFresh
<1>1. PolicyInit => PolicyIInv BY PolicyInitHolds
<1>2. PolicyIInv /\ [PolicyNext]_policyVars => PolicyIInv' BY PolicyStepKeeps
<1>3. ASSUME PolicyIInv PROVE StrictVerdictIsFresh
  <2>. SUFFICES ASSUME NEW c \in Callers, NEW i \in Offered, call[c].verdict[i] = Strict
               PROVE  LET hosts == call[c].used[i].hosts
                          rows  == {call[c].list[h] : h \in hosts}
                      IN  /\ rows # {} /\ \A r \in rows : r.training = "no" /\ r.retains = "no" /\ r.openRouter # "yes"
                          /\ call[c].listTaken < FreshFor + call[c].since
                          /\ call[c].used[i].taken < FreshFor + call[c].since
    BY DEF StrictVerdictIsFresh, Strict
  <2>1. call[c] \in Calls /\ HonestCall(call[c])
    BY <1>3 DEF PolicyIInv, PolicyTypeOK
  <2>2. call[c].list \in Lists /\ call[c].used[i].hosts \in SUBSET Hosts
    BY <2>1 DEF Calls, Records
  <2>3. /\ call[c].at = "fetching" /\ policyOf(call[c].used[i].hosts, call[c].list) = Strict
        /\ call[c].used[i].taken < FreshFor + call[c].since
        /\ call[c].listTaken < FreshFor + call[c].since
    BY <2>1 DEF HonestCall
  <2>4. /\ call[c].used[i].hosts # {}
        /\ \A h \in call[c].used[i].hosts :
              call[c].list[h].training = "no" /\ call[c].list[h].retains = "no" /\ call[c].list[h].openRouter # "yes"
    BY <2>2, <2>3, StrictMeans
  <2>. QED BY <2>3, <2>4
<1>. QED BY <1>1, <1>2, <1>3, PTL DEF PolicySpec
===============================================================================
