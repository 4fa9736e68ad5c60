----------------------------- MODULE RoundProofs -----------------------------
(***************************************************************************)
(* One round's evidence, proved for every number of rounds, stops and      *)
(* waiters, every MaxAttempts, and every round that may resume, be limited, *)
(* be signalled or be killed.  The argument follows the wrapper's place:   *)
(* where it is decides what can be on the record, whether a harness can be *)
(* running, and what the sentinel can say (Placed, and Evidence for rounds *)
(* that do not share a --log); who may have signalled the harness is tied  *)
(* to what the record and the watchdog's flag say (Blamed).                *)
(***************************************************************************)
EXTENDS Round, TLAPS

(* The places in which an ended round can be, and where it waits. *)
Ended == {"writing", "over", "killed"}
Waits == {"waiting", "awake", "checked", "clear"}

Placed(r) ==
  /\ at[r] \in {"idle", "detached", "register"} => rec[r] = Absent /\ attempt[r] = 0
  /\ at[r] \in Waits \cup {"spawn"} => attempt[r] < MaxAttempts
  /\ Running(r) => at[r] \in {"spawned", "child", "killed"}
  /\ Registered(r) /\ rec[r].waiting =>
       at[r] \in Waits \cup Ended \cup {"finish", "noted", "closed"}
  /\ at[r] \in {"closed", "writing", "over"} => (Registered(r) => rec[r].rc)

PlaceInv == TypeOK /\ \A r \in Round : Placed(r)

(* Who signalled the harness, and what was written down before. *)
Blamed(r) ==
  /\ watch[r] \in {"fired", "termed"} => timedOut[r]
  /\ "watchdog" \in senders[r] => timedOut[r]
  /\ "stop" \in senders[r] => Requested(r)
  /\ source[r] # "none" => at[r] \in Ended \cup {"noted", "closed"}
  /\ source[r] = "external" => senders[r] = {} /\ ~Running(r)

(* A stop that has got as far as signalling has left its request. *)
Recorded(s) ==
  /\ stopper[s] # "idle" => at[stops[s]] # "idle"
  /\ stopper[s] \in {"asks-child", "asks-wrapper"} => Registered(stops[s])
  /\ stopper[s] \in {"terms-child", "terms-wrapper", "waits-gone", "kills"} =>
       Requested(stops[s])

BlameInv ==
  /\ PlaceInv
  /\ \A r \in Round : Blamed(r)
  /\ \A s \in Stopper : Recorded(s)

(* No two rounds share a --log. *)
OneRoundPerLog == \A q, r \in Round : log[q] = log[r] => q = r

(* A sentinel is the round's own and comes after everything else. *)
Evidence(r) ==
  /\ at[r] \notin Ended \cup {"idle"} => sentinel[log[r]] \in {Absent, Unremoved}
  /\ at[r] \in Ended => sentinel[log[r]] \in {Absent, Empty, Unremoved, r}
  /\ at[r] = "killed" /\ sentinel[log[r]] \notin {Absent, Unremoved} => OnlyWhenOver(r)
  /\ sentinel[log[r]] = r => at[r] = "over"

Settled(r) == at[r] \in Ended /\ OnlyWhenOver(r)

EvidenceInv ==
  /\ BlameInv
  /\ \A r \in Round : Evidence(r)
  /\ \A w \in Waiter :
       /\ waiter[w] # "idle" => at[waits[w]] # "idle"
       /\ waiter[w] = "printed" /\ got[w] # Unremoved => Settled(waits[w])
  /\ \A s \in Stopper :
       stopper[s] = "stopped" => Settled(stops[s]) /\ at[stops[s]] = "over"

-----------------------------------------------------------------------------
LEMMA RecordFields ==
  ASSUME NEW x \in Record
  PROVE  /\ x # Absent
         /\ x.child \in 0..MaxAttempts
         /\ x.stop \in BOOLEAN /\ x.waiting \in BOOLEAN /\ x.rc \in BOOLEAN
         /\ \A k \in 0..MaxAttempts : [x EXCEPT !.child = k] \in Record
         /\ \A b \in BOOLEAN :
              /\ [x EXCEPT !.stop = b] \in Record
              /\ [x EXCEPT !.waiting = b] \in Record
              /\ [x EXCEPT !.rc = b] \in Record
BY RoundValues DEF Record

LEMMA RecTyped ==
  ASSUME TypeOK, NEW r \in Round
  PROVE  rec[r] \in Record \cup {Absent} /\ attempt[r] \in 0..MaxAttempts
BY DEF TypeOK

LEMMA RoundInit == Init => PlaceInv
<1> SUFFICES ASSUME Init PROVE PlaceInv
  OBVIOUS
<1> USE RoundAssumption DEF Init
<1>1. TypeOK
  BY DEF TypeOK, Places, Gone
<1>2. \A r \in Round : Placed(r)
  BY DEF Placed, Running, Registered, Waits, Ended
<1> QED BY <1>1, <1>2 DEF PlaceInv

(* TERM takes the wrapper down before run() holds signals, or is held. *)
LEMMA HeldTyped ==
  ASSUME TypeOK, NEW q \in Round, Held(q)
  PROVE  at' \in [Round -> Places] /\ hold' \in [Round -> BOOLEAN]
<1>1. "dead" \in Places
  BY DEF Places, Gone
<1>2. CASE at[q] = "detached"
  BY <1>1, <1>2 DEF Held, TypeOK
<1>3. CASE at[q] # "detached"
  BY <1>3 DEF Held, TypeOK
<1> QED BY <1>2, <1>3

(* The shapes of the state. *)
LEMMA WrapperTyped ==
  ASSUME TypeOK, NEW q \in Round, Placed(q), reexecDetached(q) \/ Wrapper(q)
  PROVE  TypeOK'
<1> USE RoundAssumption DEF TypeOK, Goto, Places, Gone, childVars, askVars
<1>1. CASE reexecDetached(q) \/ Refuse(q) \/ Begin(q)
  BY <1>1 DEF reexecDetached, Refuse, Begin, clearStaleSentinel
<1>2. CASE registerRun(q)
  <2>1. [child |-> 0, stop |-> FALSE, waiting |-> FALSE, rc |-> FALSE] \in Record
    BY DEF Record
  <2>2. rec' \in [Round -> Record \cup {Absent}]
    <3>1. rec' = rec \/ \E x \in Record : rec' = [rec EXCEPT ![q] = x]
      BY <1>2, <2>1 DEF registerRun
    <3> QED BY <3>1
  <2> QED BY <1>2, <2>2 DEF registerRun
<1>3. CASE Bail(q)
  BY <1>3 DEF Bail
<1>4. CASE StartFails(q) \/ Spawn(q)
  <2>1. attempt[q] + 1 \in 0..MaxAttempts
    BY <1>4 DEF StartFails, Spawn, Placed
  <2>2. CASE StartFails(q)
    BY <2>1, <2>2 DEF StartFails
  <2>3. CASE Spawn(q)
    BY <2>1, <2>3 DEF Spawn
  <2> QED BY <1>4, <2>2, <2>3
<1>5. CASE spawned(q) \/ SetWaiting(q) \/ ClearWaiting(q) \/ finishRun(q)
           \/ finishBailed(q)
  <2>1. /\ Registered(q) => rec[q] \in Record
        /\ attempt[q] \in 0..MaxAttempts
    BY RecTyped DEF Registered
  <2>2. CASE spawned(q)
    BY <2>1, <2>2, RecordFields DEF spawned, OnRecord
  <2>3. CASE SetWaiting(q)
    BY <2>1, <2>3, RecordFields DEF SetWaiting, OnRecord
  <2>4. CASE ClearWaiting(q)
    BY <2>1, <2>4, RecordFields DEF ClearWaiting, OnRecord
  <2>5. CASE finishRun(q)
    BY <2>1, <2>5, RecordFields DEF finishRun, OnRecord
  <2>6. CASE finishBailed(q)
    BY <2>1, <2>6, RecordFields DEF finishBailed, OnRecord
  <2> QED BY <1>5, <2>2, <2>3, <2>4, <2>5, <2>6
<1>6. CASE Reap(q) \/ Finish(q)
  <2>1. CASE Reap(q)
    BY <2>1 DEF Reap
  <2>2. CASE Finish(q)
    BY <2>2 DEF Finish
  <2> QED BY <1>6, <2>1, <2>2
<1>7. CASE waitForPlan(q) \/ CheckStop(q) \/ CheckHold(q)
  BY <1>7 DEF waitForPlan, CheckStop, CheckHold
<1>8. CASE noteEnding(q)
  BY <1>8 DEF noteEnding, signalSource
<1>9. CASE CreateSentinel(q) \/ WriteSentinel(q) \/ SentinelUnwritten(q)
  BY <1>9 DEF CreateSentinel, WriteSentinel, SentinelUnwritten
<1> QED BY <1>1, <1>2, <1>3, <1>4, <1>5, <1>6, <1>7, <1>8, <1>9 DEF Wrapper

LEMMA OthersTyped ==
  ASSUME TypeOK, NEW q \in Round,
         Child(q) \/ Watchdog(q) \/ Term(q) \/ Crash(q)
  PROVE  TypeOK'
<1> USE RoundAssumption DEF TypeOK, Places, Gone, childVars, wrapVars, askVars
<1>1. CASE ChildEnds(q) \/ ChildDies(q)
  BY <1>1 DEF ChildEnds, ChildDies
<1>2. CASE WatchdogElapses(q) \/ WatchdogFires(q)
  <2>1. CASE WatchdogElapses(q)
    BY <2>1 DEF WatchdogElapses
  <2>2. CASE WatchdogFires(q)
    BY <2>2 DEF WatchdogFires
  <2> QED BY <1>2, <2>1, <2>2
<1>3. CASE WatchdogTerms(q) \/ WatchdogKills(q)
  BY <1>3 DEF WatchdogTerms, WatchdogKills, SignalChild
<1>4. CASE Term(q)
  BY <1>4, HeldTyped DEF Term
<1>5. CASE Crash(q)
  BY <1>5 DEF Crash
<1> QED BY <1>1, <1>2, <1>3, <1>4, <1>5 DEF Child, Watchdog

LEMMA StopTyped ==
  ASSUME TypeOK, NEW s \in Stopper, Recorded(s), Stop(s)
  PROVE  TypeOK'
<1> USE RoundAssumption DEF TypeOK, Places, Gone, Step, childVars, wrapVars
<1>q. stops[s] \in Round
  OBVIOUS
<1>1. CASE Verify(s)
  <2>1. Registered(stops[s]) => rec[stops[s]].child \in 0..MaxAttempts
    BY <1>q, RecTyped, RecordFields DEF Registered
  <2> QED BY <1>1, <2>1 DEF Verify
<1>2. CASE Ask(s)
  <2>1. rec[stops[s]] \in Record
    BY <1>2, <1>q, RecTyped DEF Ask, Recorded, Registered
  <2>2. rec' \in [Round -> Record \cup {Absent}]
    BY <1>2, <1>q, <2>1, RecordFields DEF Ask, RequestStop
  <2> QED BY <1>2, <2>2 DEF Ask
<1>3. CASE TermChild(s) \/ KillChild(s)
  BY <1>3, <1>q DEF TermChild, KillChild, SignalChild
<1>4. CASE WaitGone(s)
  <2>1. stopper' \in {[stopper EXCEPT ![s] = "kills"], [stopper EXCEPT ![s] = "awaits"]}
    BY <1>4 DEF WaitGone
  <2> QED BY <1>4, <2>1 DEF WaitGone
<1>5. CASE Stopped(s) \/ StopTimesOut(s)
  BY <1>5 DEF Stopped, StopTimesOut
<1>6. CASE TermWrapper(s)
  <2>1. at' \in [Round -> Places] /\ hold' \in [Round -> BOOLEAN]
    BY <1>6, <1>q, HeldTyped DEF TermWrapper
  <2>2. stopper' \in [Stopper -> {"idle", "refused", "asks-child", "asks-wrapper",
                  "terms-child", "terms-wrapper", "waits-gone", "kills", "awaits",
                  "stopped", "misled", "failed"}]
    BY <1>6 DEF TermWrapper
  <2> QED BY <1>6, <2>1, <2>2 DEF TermWrapper
<1> QED BY <1>1, <1>2, <1>3, <1>4, <1>5, <1>6 DEF Stop

LEMMA WaitTyped ==
  ASSUME TypeOK, NEW w \in Waiter, Arm(w) \/ Poll(w)
  PROVE  TypeOK'
BY RoundAssumption DEF TypeOK, Arm, Poll, childVars, wrapVars

LEMMA NextTyped ==
  ASSUME BlameInv, [Next]_vars
  PROVE  TypeOK'
<1>1. CASE UNCHANGED vars
  BY <1>1 DEF BlameInv, PlaceInv, TypeOK, vars
<1> QED BY <1>1, WrapperTyped, OthersTyped, StopTyped, WaitTyped
        DEF Next, BlameInv, PlaceInv

-----------------------------------------------------------------------------
(* A step of one round leaves the others alone. *)
Untouched(r) ==
  /\ at'[r] = at[r] /\ attempt'[r] = attempt[r] /\ child'[r] = child[r]
  /\ senders'[r] = senders[r] /\ watch'[r] = watch[r] /\ timedOut'[r] = timedOut[r]
  /\ rec'[r] = rec[r] /\ source'[r] = source[r]

LEMMA UntouchedKeeps ==
  ASSUME NEW r \in Round, Untouched(r)
  PROVE  /\ Placed(r) => Placed(r)'
         /\ Blamed(r) => Blamed(r)'
<1>1. Placed(r) => Placed(r)'
  BY DEF Untouched, Placed, Running, Registered
<1>2. Blamed(r) => Blamed(r)'
  BY DEF Untouched, Blamed, Requested, Registered, Running
<1> QED BY <1>1, <1>2

LEMMA OtherRound ==
  ASSUME TypeOK, NEW q \in Round, NEW r \in Round, q # r,
         \/ reexecDetached(q) \/ Wrapper(q) \/ Child(q) \/ Watchdog(q)
         \/ Term(q) \/ Crash(q)
  PROVE  Untouched(r)
<1> USE DEF TypeOK, Goto, OnRecord, childVars, wrapVars, askVars, Untouched
<1>1. CASE reexecDetached(q) \/ Refuse(q) \/ Begin(q)
  BY <1>1 DEF reexecDetached, Refuse, Begin
<1>2. CASE registerRun(q)
  BY <1>2 DEF registerRun
<1>3. CASE Bail(q) \/ StartFails(q)
  BY <1>3 DEF Bail, StartFails
<1>4. CASE Spawn(q) \/ Reap(q)
  BY <1>4 DEF Spawn, Reap
<1>5. CASE spawned(q)
  BY <1>5 DEF spawned
<1>6. CASE SetWaiting(q) \/ ClearWaiting(q)
  BY <1>6 DEF SetWaiting, ClearWaiting
<1>7. CASE Finish(q) \/ waitForPlan(q) \/ CheckStop(q) \/ CheckHold(q)
  BY <1>7 DEF Finish, waitForPlan, CheckStop, CheckHold
<1>8. CASE noteEnding(q)
  BY <1>8 DEF noteEnding
<1>9. CASE finishRun(q) \/ finishBailed(q)
  BY <1>9 DEF finishRun, finishBailed
<1>10. CASE CreateSentinel(q) \/ WriteSentinel(q) \/ SentinelUnwritten(q)
  BY <1>10 DEF CreateSentinel, WriteSentinel, SentinelUnwritten
<1>11. CASE Child(q)
  BY <1>11 DEF Child, ChildEnds, ChildDies
<1>12. CASE Watchdog(q)
  BY <1>12 DEF Watchdog, WatchdogElapses, WatchdogFires, WatchdogTerms, WatchdogKills,
     SignalChild
<1>13. CASE Crash(q)
  BY <1>13 DEF Crash
<1>14. CASE Term(q)
  BY <1>14 DEF Term, Held
<1> QED BY <1>1, <1>2, <1>3, <1>4, <1>5, <1>6, <1>7, <1>8, <1>9, <1>10, <1>11,
           <1>12, <1>13, <1>14 DEF Wrapper

(* What the wrapper appends to its record changes the one field. *)
LEMMA AppendedField ==
  ASSUME TypeOK, NEW r \in Round, Registered(r), NEW k \in 0..MaxAttempts,
         NEW b \in BOOLEAN
  PROVE  /\ OnRecord(r, [rec[r] EXCEPT !.child = k]) =>
              /\ rec'[r] # Absent /\ rec'[r].stop = rec[r].stop
              /\ rec'[r].waiting = rec[r].waiting /\ rec'[r].rc = rec[r].rc
         /\ OnRecord(r, [rec[r] EXCEPT !.waiting = b]) =>
              /\ rec'[r] # Absent /\ rec'[r].stop = rec[r].stop
              /\ rec'[r].waiting = b /\ rec'[r].rc = rec[r].rc
         /\ OnRecord(r, [rec[r] EXCEPT !.rc = b]) =>
              /\ rec'[r] # Absent /\ rec'[r].stop = rec[r].stop
              /\ rec'[r].waiting = rec[r].waiting /\ rec'[r].rc = b
<1>1. rec[r] \in Record
  BY RecTyped DEF Registered
<1>2. /\ [rec[r] EXCEPT !.child = k] # Absent
      /\ [rec[r] EXCEPT !.waiting = b] # Absent
      /\ [rec[r] EXCEPT !.rc = b] # Absent
  BY <1>1, RecordFields, RoundValues
<1>3. \A x : OnRecord(r, x) => rec'[r] = x
  BY DEF OnRecord, TypeOK
<1> QED BY <1>1, <1>2, <1>3 DEF Record

(* The step of a round keeps its own part of the invariant. *)
LEMMA WrapperKeeps ==
  ASSUME TypeOK, NEW r \in Round, Placed(r), Blamed(r), reexecDetached(r) \/ Wrapper(r)
  PROVE  Placed(r)' /\ Blamed(r)'
<1> USE RoundAssumption DEF TypeOK, Goto, childVars, askVars, Placed, Blamed, Running,
        Registered, Requested, Waits, Ended
<1>1. CASE reexecDetached(r) \/ Refuse(r) \/ Begin(r)
  BY <1>1 DEF reexecDetached, Refuse, Begin
<1>2. CASE registerRun(r)
  BY <1>2 DEF registerRun
<1>3. CASE Bail(r)
  BY <1>3 DEF Bail
<1>4. CASE StartFails(r)
  BY <1>4 DEF StartFails
<1>5. CASE Spawn(r)
  BY <1>5 DEF Spawn
<1>6. CASE spawned(r)
  <2>1. CASE Registered(r)
    BY <1>6, <2>1, AppendedField DEF spawned
  <2>2. CASE ~Registered(r)
    BY <1>6, <2>2 DEF spawned, OnRecord
  <2> QED BY <2>1, <2>2
<1>7. CASE Reap(r) \/ Finish(r)
  BY <1>7 DEF Reap, Finish
<1>8. CASE SetWaiting(r)
  <2>1. CASE Registered(r)
    BY <1>8, <2>1, AppendedField DEF SetWaiting
  <2>2. CASE ~Registered(r)
    BY <1>8, <2>2 DEF SetWaiting, OnRecord
  <2> QED BY <2>1, <2>2
<1>9. CASE waitForPlan(r) \/ CheckStop(r) \/ CheckHold(r)
  BY <1>9 DEF waitForPlan, CheckStop, CheckHold
<1>10. CASE ClearWaiting(r)
  <2>1. CASE Registered(r)
    BY <1>10, <2>1, AppendedField DEF ClearWaiting
  <2>2. CASE ~Registered(r)
    BY <1>10, <2>2 DEF ClearWaiting, OnRecord
  <2> QED BY <2>1, <2>2
<1>11. CASE noteEnding(r)
  BY <1>11 DEF noteEnding, signalSource
<1>12. CASE finishRun(r)
  <2>1. CASE Registered(r)
    BY <1>12, <2>1, AppendedField DEF finishRun
  <2>2. CASE ~Registered(r)
    BY <1>12, <2>2 DEF finishRun, OnRecord
  <2> QED BY <2>1, <2>2
<1>13. CASE finishBailed(r)
  <2>1. CASE Registered(r)
    BY <1>13, <2>1, AppendedField DEF finishBailed
  <2>2. CASE ~Registered(r)
    BY <1>13, <2>2 DEF finishBailed, OnRecord
  <2> QED BY <2>1, <2>2
<1>14. CASE CreateSentinel(r) \/ WriteSentinel(r) \/ SentinelUnwritten(r)
  BY <1>14 DEF CreateSentinel, WriteSentinel, SentinelUnwritten
<1> QED BY <1>1, <1>2, <1>3, <1>4, <1>5, <1>6, <1>7, <1>8, <1>9, <1>10, <1>11,
           <1>12, <1>13, <1>14 DEF Wrapper

(* A signal to the harness starts none, and is put down to its sender. *)
LEMMA SignalKeeps ==
  ASSUME TypeOK, NEW r \in Round, Placed(r), Blamed(r),
         NEW who \in {"stop", "watchdog"}, NEW sig, SignalChild(r, who, sig),
         who = "stop" => Requested(r), who = "watchdog" => timedOut[r],
         at' = at, attempt' = attempt, rec' = rec, timedOut' = timedOut,
         source' = source, watch'[r] \in {watch[r], "off"} \/ timedOut[r]
  PROVE  Placed(r)' /\ Blamed(r)'
<1>1. Running(r)' => Running(r)
  BY DEF SignalChild, Running, TypeOK
<1>2. senders[r] \subseteq senders'[r] /\ senders'[r] \subseteq senders[r] \cup {who}
  BY DEF SignalChild, TypeOK
<1>3. ~Running(r) => senders'[r] = senders[r]
  BY DEF SignalChild, TypeOK
<1>4. ~Running(r) => child'[r] = child[r]
  BY DEF SignalChild, TypeOK
<1>5. Placed(r)'
  BY <1>1 DEF Placed, Registered
<1>6. Blamed(r)'
  BY <1>1, <1>2, <1>3 DEF Blamed, Requested, Registered
<1> QED BY <1>5, <1>6

(* What happens to the wrapper and to its harness keeps it, too. *)
LEMMA EventKeeps ==
  ASSUME TypeOK, NEW r \in Round, Placed(r), Blamed(r),
         Child(r) \/ Watchdog(r) \/ Term(r) \/ Crash(r)
  PROVE  Placed(r)' /\ Blamed(r)'
<1> USE DEF wrapVars, askVars, childVars
<1>1. CASE Child(r)
  BY <1>1 DEF Child, ChildEnds, ChildDies, TypeOK, Placed, Blamed, Running, Registered,
     Requested
<1>2. CASE WatchdogElapses(r) \/ WatchdogFires(r)
  BY <1>2 DEF WatchdogElapses, WatchdogFires, TypeOK, Placed, Blamed, Running,
     Registered, Requested
<1>3. CASE WatchdogTerms(r)
  BY <1>3, SignalKeeps DEF WatchdogTerms, TypeOK, Blamed
<1>4. CASE WatchdogKills(r)
  BY <1>4, SignalKeeps DEF WatchdogKills, TypeOK, Blamed
<1>5. CASE Term(r)
  BY <1>5 DEF Term, Held, TypeOK, Placed, Blamed, Running, Registered, Requested,
     Waits, Ended
<1>6. CASE Crash(r)
  BY <1>6 DEF Crash, alive, Gone, TypeOK, Placed, Blamed, Running, Registered,
     Requested, Waits, Ended
<1> QED BY <1>1, <1>2, <1>3, <1>4, <1>5, <1>6 DEF Watchdog

(* A stop changes the round it names, and that as any signal would. *)
LEMMA StopKeeps ==
  ASSUME TypeOK, NEW s \in Stopper, Recorded(s), Stop(s), NEW r \in Round,
         Placed(r), Blamed(r)
  PROVE  Placed(r)' /\ Blamed(r)'
<1> USE RoundAssumption DEF childVars, wrapVars, Step
<1>q. stops[s] \in Round
  OBVIOUS
<1>1. CASE r # stops[s]
  <2>1. Untouched(r)
    BY <1>1, <1>q DEF Stop, Verify, Ask, RequestStop, TermChild, WaitGone, KillChild,
       TermWrapper, Stopped, StopTimesOut, SignalChild, Held, TypeOK, Untouched
  <2> QED BY <2>1, UntouchedKeeps
<1>2. CASE r = stops[s]
  <2>1. CASE Verify(s) \/ WaitGone(s) \/ Stopped(s) \/ StopTimesOut(s)
    <3>1. Untouched(r)
      BY <2>1 DEF Verify, WaitGone, Stopped, StopTimesOut, Untouched
    <3> QED BY <3>1, UntouchedKeeps
  <2>2. CASE Ask(s)
    <3>1. rec[r] \in Record
      BY <1>2, <2>2, RecTyped DEF Ask, Recorded, Registered
    <3>2. /\ rec'[r] \in Record /\ rec'[r].stop
          /\ rec'[r].waiting = rec[r].waiting /\ rec'[r].rc = rec[r].rc
      BY <1>2, <2>2, <3>1 DEF Ask, RequestStop, TypeOK, Record
    <3>3. rec[r] # Absent /\ rec'[r] # Absent
      BY <3>1, <3>2, RoundValues
    <3> QED BY <2>2, <3>2, <3>3 DEF Ask, Placed, Blamed, Running, Registered, Requested
  <2>3. CASE TermChild(s)
    <3>1. CASE PidLives(r, aim[s])
      BY <1>2, <2>3, <3>1, SignalKeeps DEF TermChild, Recorded
    <3>2. CASE ~PidLives(r, aim[s])
      <4>1. Untouched(r)
        BY <1>2, <2>3, <3>2 DEF TermChild, Untouched
      <4> QED BY <4>1, UntouchedKeeps
    <3> QED BY <3>1, <3>2
  <2>4. CASE KillChild(s)
    <3>1. CASE PidLives(r, aim[s])
      BY <1>2, <2>4, <3>1, SignalKeeps DEF KillChild, Recorded
    <3>2. CASE ~PidLives(r, aim[s])
      <4>1. Untouched(r)
        BY <1>2, <2>4, <3>2 DEF KillChild, Untouched
      <4> QED BY <4>1, UntouchedKeeps
    <3> QED BY <3>1, <3>2
  <2>5. CASE TermWrapper(s)
    BY <1>2, <2>5 DEF TermWrapper, Held, TypeOK, Placed, Blamed, Running, Registered,
       Requested, Waits, Ended
  <2> QED BY <2>1, <2>2, <2>3, <2>4, <2>5 DEF Stop
<1> QED BY <1>1, <1>2

-----------------------------------------------------------------------------
(* What stays once it is so: a round is launched, its record and a request *)
(* on it are there, it is settled, it is over.                             *)
Lasts(r) ==
  /\ at[r] # "idle" => at'[r] # "idle"
  /\ Registered(r) => Registered(r)'
  /\ Requested(r) => Requested(r)'
  /\ Settled(r) => Settled(r)'
  /\ at[r] = "over" => at'[r] = "over"

LEMMA UntouchedLasts ==
  ASSUME NEW r \in Round, Untouched(r) PROVE Lasts(r)
BY DEF Untouched, Lasts, Settled, OnlyWhenOver, Registered, Requested, Running

LEMMA WrapperLasts ==
  ASSUME TypeOK, NEW r \in Round, Placed(r), reexecDetached(r) \/ Wrapper(r)
  PROVE  Lasts(r)
<1> USE DEF TypeOK, Goto, childVars, askVars, Placed, Running, Registered, Requested,
        Settled, OnlyWhenOver, Ended, Lasts
<1>1. CASE reexecDetached(r) \/ Refuse(r) \/ Begin(r)
  BY <1>1 DEF reexecDetached, Refuse, Begin
<1>2. CASE registerRun(r)
  BY <1>2 DEF registerRun
<1>3. CASE Bail(r) \/ StartFails(r)
  BY <1>3 DEF Bail, StartFails
<1>4. CASE Spawn(r) \/ Reap(r) \/ Finish(r)
  BY <1>4 DEF Spawn, Reap, Finish
<1>5. CASE spawned(r)
  <2>1. CASE Registered(r)
    BY <1>5, <2>1, AppendedField DEF spawned
  <2>2. CASE ~Registered(r)
    BY <1>5, <2>2 DEF spawned, OnRecord
  <2> QED BY <2>1, <2>2
<1>6. CASE SetWaiting(r)
  <2>1. CASE Registered(r)
    BY <1>6, <2>1, AppendedField DEF SetWaiting
  <2>2. CASE ~Registered(r)
    BY <1>6, <2>2 DEF SetWaiting, OnRecord
  <2> QED BY <2>1, <2>2
<1>7. CASE waitForPlan(r) \/ CheckStop(r) \/ CheckHold(r)
  BY <1>7 DEF waitForPlan, CheckStop, CheckHold
<1>8. CASE ClearWaiting(r)
  <2>1. CASE Registered(r)
    BY <1>8, <2>1, AppendedField DEF ClearWaiting
  <2>2. CASE ~Registered(r)
    BY <1>8, <2>2 DEF ClearWaiting, OnRecord
  <2> QED BY <2>1, <2>2
<1>9. CASE noteEnding(r)
  BY <1>9 DEF noteEnding
<1>10. CASE finishRun(r)
  <2>1. CASE Registered(r)
    BY <1>10, <2>1, AppendedField DEF finishRun
  <2>2. CASE ~Registered(r)
    BY <1>10, <2>2 DEF finishRun, OnRecord
  <2> QED BY <2>1, <2>2
<1>11. CASE finishBailed(r)
  <2>1. CASE Registered(r)
    BY <1>11, <2>1, AppendedField DEF finishBailed
  <2>2. CASE ~Registered(r)
    BY <1>11, <2>2 DEF finishBailed, OnRecord
  <2> QED BY <2>1, <2>2
<1>12. CASE CreateSentinel(r) \/ WriteSentinel(r) \/ SentinelUnwritten(r)
  BY <1>12 DEF CreateSentinel, WriteSentinel, SentinelUnwritten
<1> QED BY <1>1, <1>2, <1>3, <1>4, <1>5, <1>6, <1>7, <1>8, <1>9, <1>10, <1>11,
           <1>12 DEF Wrapper

LEMMA EventLasts ==
  ASSUME TypeOK, NEW r \in Round,
         Child(r) \/ Watchdog(r) \/ Term(r) \/ Crash(r)
  PROVE  Lasts(r)
<1> USE DEF TypeOK, childVars, wrapVars, askVars, Running, Registered, Requested,
        Settled, OnlyWhenOver, Ended, Lasts
<1>1. CASE Child(r)
  BY <1>1 DEF Child, ChildEnds, ChildDies
<1>2. CASE Watchdog(r)
  BY <1>2 DEF Watchdog, WatchdogElapses, WatchdogFires, WatchdogTerms, WatchdogKills,
     SignalChild
<1>3. CASE Term(r) \/ Crash(r)
  BY <1>3 DEF Term, Held, Crash, alive, Gone
<1> QED BY <1>1, <1>2, <1>3

LEMMA StopLasts ==
  ASSUME TypeOK, NEW s \in Stopper, Recorded(s), Stop(s), NEW r \in Round
  PROVE  Lasts(r)
<1> USE RoundAssumption DEF TypeOK, childVars, wrapVars, Step
<1>1. CASE Ask(s)
  <2>1. CASE r = stops[s]
    <3>1. rec[r] \in Record
      BY <1>1, <2>1, RecTyped DEF Ask, Recorded, Registered
    <3>2. /\ rec'[r] \in Record /\ rec'[r].stop /\ rec'[r].rc = rec[r].rc
      BY <1>1, <2>1, <3>1 DEF Ask, RequestStop, Record
    <3>3. rec[r] # Absent /\ rec'[r] # Absent
      BY <3>1, <3>2, RoundValues
    <3> QED BY <1>1, <3>2, <3>3 DEF Ask, Lasts, Running, Registered, Requested, Settled,
         OnlyWhenOver
  <2>2. CASE r # stops[s]
    BY <1>1, <2>2 DEF Ask, RequestStop, Lasts, Running, Registered, Requested, Settled,
         OnlyWhenOver
  <2> QED BY <2>1, <2>2
<1>2. CASE TermChild(s) \/ KillChild(s)
  BY <1>2 DEF TermChild, KillChild, SignalChild, Lasts, Running, Registered, Requested,
     Settled, OnlyWhenOver
<1>3. CASE TermWrapper(s)
  BY <1>3 DEF TermWrapper, Held, Lasts, Running, Registered, Requested, Settled,
     OnlyWhenOver, Ended
<1>4. CASE Verify(s) \/ WaitGone(s) \/ Stopped(s) \/ StopTimesOut(s)
  BY <1>4 DEF Verify, WaitGone, Stopped, StopTimesOut, Lasts, Running, Registered,
     Requested, Settled, OnlyWhenOver
<1> QED BY <1>1, <1>2, <1>3, <1>4 DEF Stop

LEMMA NextLasts ==
  ASSUME BlameInv, Next, NEW r \in Round
  PROVE  Lasts(r)
<1> USE DEF BlameInv, PlaceInv
<1>1. ASSUME NEW q \in Round,
             \/ reexecDetached(q) \/ Wrapper(q) \/ Child(q) \/ Watchdog(q)
             \/ Term(q) \/ Crash(q)
      PROVE  Lasts(r)
  BY <1>1, OtherRound, UntouchedLasts, WrapperLasts, EventLasts
<1>2. ASSUME NEW s \in Stopper, Stop(s) PROVE Lasts(r)
  BY <1>2, StopLasts
<1>3. ASSUME NEW w \in Waiter, Arm(w) \/ Poll(w) PROVE Lasts(r)
  <2>1. Untouched(r)
    BY <1>3 DEF Arm, Poll, wrapVars, childVars, Untouched
  <2> QED BY <2>1, UntouchedLasts
<1> QED BY <1>1, <1>2, <1>3 DEF Next

-----------------------------------------------------------------------------
(* The commands' own invariant. *)
LEMMA OthersLeaveCommands ==
  ASSUME NEW q \in Round,
         \/ reexecDetached(q) \/ Wrapper(q) \/ Child(q) \/ Watchdog(q)
         \/ Term(q) \/ Crash(q)
  PROVE  UNCHANGED <<stopper, waiter, got>>
BY DEF reexecDetached, Wrapper, Refuse, Begin, registerRun, Bail, StartFails, Spawn,
   spawned, Reap, Finish, SetWaiting, waitForPlan, CheckStop, CheckHold, ClearWaiting,
   noteEnding, finishRun, finishBailed, CreateSentinel, WriteSentinel,
   SentinelUnwritten, Child, ChildEnds,
   ChildDies, Watchdog, WatchdogElapses, WatchdogFires, WatchdogTerms, WatchdogKills,
   Term, Crash, askVars

LEMMA StopRecords ==
  ASSUME BlameInv, NEW s \in Stopper, Stop(s), Lasts(stops[s])
  PROVE  Recorded(s)'
<1> USE RoundAssumption DEF BlameInv, PlaceInv, TypeOK, Recorded, Step, Lasts
<1>1. CASE Verify(s)
  BY <1>1 DEF Verify
<1>2. CASE Ask(s)
  <2>1. rec[stops[s]] \in Record
    BY <1>2, RecTyped DEF Ask, Registered
  <2>2. rec'[stops[s]] \in Record /\ rec'[stops[s]].stop
    BY <1>2, <2>1 DEF Ask, RequestStop, Record
  <2>3. Requested(stops[s])'
    BY <2>2, RoundValues DEF Requested, Registered
  <2> QED BY <1>2, <2>3 DEF Ask
<1>3. CASE TermChild(s) \/ KillChild(s)
  BY <1>3 DEF TermChild, KillChild
<1>4. CASE WaitGone(s) \/ TermWrapper(s)
  BY <1>4 DEF WaitGone, TermWrapper
<1>5. CASE Stopped(s) \/ StopTimesOut(s)
  BY <1>5 DEF Stopped, StopTimesOut
<1> QED BY <1>1, <1>2, <1>3, <1>4, <1>5 DEF Stop

LEMMA StopAlone ==
  ASSUME NEW s \in Stopper, Stop(s), NEW t \in Stopper, t # s, TypeOK
  PROVE  stopper'[t] = stopper[t]
BY DEF Stop, Verify, Ask, TermChild, WaitGone, KillChild, TermWrapper, Stopped,
   StopTimesOut, Step, TypeOK

LEMMA RecordedLasts ==
  ASSUME NEW s \in Stopper, Recorded(s), stopper'[s] = stopper[s], Lasts(stops[s])
  PROVE  Recorded(s)'
BY DEF Recorded, Lasts

LEMMA NextBlame == BlameInv /\ [Next]_vars => BlameInv'
<1> SUFFICES ASSUME BlameInv, Next PROVE BlameInv'
  <2>1. CASE UNCHANGED vars
    BY <2>1 DEF vars, BlameInv, PlaceInv, TypeOK, Placed, Blamed, Recorded, Running,
       Registered, Requested
  <2> QED BY <2>1
<1> USE DEF BlameInv, PlaceInv
<1>1. TypeOK'
  BY NextTyped
<1>2. ASSUME NEW r \in Round PROVE Placed(r)' /\ Blamed(r)'
  <2>1. ASSUME NEW q \in Round,
               \/ reexecDetached(q) \/ Wrapper(q) \/ Child(q) \/ Watchdog(q)
               \/ Term(q) \/ Crash(q)
        PROVE  Placed(r)' /\ Blamed(r)'
    <3>1. CASE q = r
      BY <2>1, <3>1, WrapperKeeps, EventKeeps
    <3>2. CASE q # r
      BY <2>1, <3>2, OtherRound, UntouchedKeeps
    <3> QED BY <3>1, <3>2
  <2>2. ASSUME NEW s \in Stopper, Stop(s) PROVE Placed(r)' /\ Blamed(r)'
    BY <2>2, StopKeeps
  <2>3. ASSUME NEW w \in Waiter, Arm(w) \/ Poll(w) PROVE Placed(r)' /\ Blamed(r)'
    <3>1. Untouched(r)
      BY <2>3 DEF Arm, Poll, wrapVars, childVars, Untouched
    <3> QED BY <3>1, UntouchedKeeps
  <2> QED BY <2>1, <2>2, <2>3 DEF Next
<1>3. ASSUME NEW s \in Stopper PROVE Recorded(s)'
  <2>1. stops[s] \in Round /\ Lasts(stops[s])
    BY RoundAssumption, NextLasts
  <2>2. CASE Stop(s)
    BY <2>1, <2>2, StopRecords
  <2>3. CASE ~Stop(s)
    <3>1. stopper'[s] = stopper[s]
      BY <2>3, OthersLeaveCommands, StopAlone DEF Next, Arm, Poll
    <3> QED BY <2>1, <3>1, RecordedLasts
  <2> QED BY <2>2, <2>3
<1> QED BY <1>1, <1>2, <1>3

LEMMA InitBlame == Init => BlameInv
<1> SUFFICES ASSUME Init PROVE BlameInv
  OBVIOUS
<1>1. PlaceInv
  BY RoundInit
<1>2. \A r \in Round : Blamed(r)
  BY DEF Init, Blamed, Requested, Registered
<1>3. \A s \in Stopper : Recorded(s)
  BY DEF Init, Recorded
<1> QED BY <1>1, <1>2, <1>3 DEF BlameInv

-----------------------------------------------------------------------------
(* Every reachable state has the shapes the code gives it; in particular    *)
(* the harness is never started more than MaxAttempts times (the resume     *)
(* budgets of quota_resume.go:195-228, as SetWaiting has them).             *)
THEOREM RoundTyped == Spec => []TypeOK
<1>1. BlameInv => TypeOK
  BY DEF BlameInv, PlaceInv
<1> QED BY <1>1, InitBlame, NextBlame, PTL DEF Spec

(* A harness that `runs stop` or the watchdog had signalled is not reported *)
(* as ended from outside (noteEnding, outsource.go:1055-1083), because the  *)
(* request is on record before the signal is sent and timedOut is written   *)
(* before the watchdog's.  A harness may also end by a signal of its own at *)
(* any time.                                                                *)
THEOREM SignalledIsNotExternal == Spec => []NeverBlamesOutside
<1>1. BlameInv => NeverBlamesOutside
  BY DEF BlameInv, Blamed, NeverBlamesOutside
<1> QED BY <1>1, InitBlame, NextBlame, PTL DEF Spec

(* No harness runs while the record says the round is waiting, so the stop  *)
(* that signals the wrapper instead of a child misses nothing.              *)
THEOREM NoHarnessWhileWaiting == Spec => []WaitingHasNoHarness
<1>1. BlameInv => WaitingHasNoHarness
  BY DEF BlameInv, PlaceInv, Placed, WaitingHasNoHarness, alive, Gone, Waits, Ended
<1> QED BY <1>1, InitBlame, NextBlame, PTL DEF Spec

-----------------------------------------------------------------------------
(* From here on no two rounds share a log.                                 *)

(* The sentinel on a round's log is touched by the round alone. *)
LEMMA OtherSentinel ==
  ASSUME OneRoundPerLog, TypeOK, NEW q \in Round, NEW r \in Round, q # r,
         \/ reexecDetached(q) \/ Wrapper(q) \/ Child(q) \/ Watchdog(q)
         \/ Term(q) \/ Crash(q)
  PROVE  sentinel'[log[r]] = sentinel[log[r]]
<1>1. log[q] # log[r] /\ log[q] \in Log /\ log[r] \in Log
  BY RoundAssumption DEF OneRoundPerLog
<1>2. CASE reexecDetached(q) \/ Begin(q)
  BY <1>1, <1>2 DEF reexecDetached, Begin, clearStaleSentinel, TypeOK
<1>3. CASE CreateSentinel(q) \/ WriteSentinel(q)
  BY <1>1, <1>3 DEF CreateSentinel, WriteSentinel, TypeOK
<1>4. CASE ~(reexecDetached(q) \/ Begin(q) \/ CreateSentinel(q) \/ WriteSentinel(q))
  <2>1. sentinel' = sentinel
    BY <1>4 DEF Wrapper, Refuse, registerRun, Bail, StartFails, Spawn, spawned, Reap,
       Finish, SetWaiting, waitForPlan, CheckStop, CheckHold, ClearWaiting, noteEnding,
       finishRun, finishBailed, SentinelUnwritten, Child, ChildEnds, ChildDies, Watchdog, WatchdogElapses,
       WatchdogFires, WatchdogTerms, WatchdogKills, Term, Crash
  <2> QED BY <2>1
<1> QED BY <1>2, <1>3, <1>4

LEMMA EvidenceKept ==
  ASSUME NEW r \in Round, Evidence(r), Lasts(r), at'[r] = at[r],
         sentinel'[log[r]] = sentinel[log[r]]
  PROVE  Evidence(r)'
BY DEF Evidence, Lasts, Settled, Ended

LEMMA WrapperEvidence ==
  ASSUME TypeOK, NEW r \in Round, Placed(r), Evidence(r),
         reexecDetached(r) \/ Wrapper(r)
  PROVE  Evidence(r)'
<1> USE RoundAssumption DEF TypeOK, Goto, Evidence, Ended
<1>l. log[r] \in Log /\ r \notin {Absent, Empty, Unremoved}
  OBVIOUS
<1>1. CASE reexecDetached(r) \/ Begin(r)
  BY <1>1, <1>l DEF reexecDetached, Begin, clearStaleSentinel
<1>2. CASE Refuse(r) \/ registerRun(r) \/ Bail(r) \/ StartFails(r) \/ Spawn(r)
  BY <1>2, <1>l DEF Refuse, registerRun, Bail, StartFails, Spawn
<1>3. CASE spawned(r) \/ Reap(r) \/ Finish(r) \/ SetWaiting(r) \/ ClearWaiting(r)
  BY <1>3, <1>l DEF spawned, Reap, Finish, SetWaiting, ClearWaiting
<1>4. CASE waitForPlan(r) \/ CheckStop(r) \/ CheckHold(r)
  BY <1>4, <1>l DEF waitForPlan, CheckStop, CheckHold
<1>5. CASE noteEnding(r) \/ finishRun(r) \/ finishBailed(r)
  BY <1>5, <1>l DEF noteEnding, finishRun, finishBailed
<1>6. CASE CreateSentinel(r)
  BY <1>6, <1>l DEF CreateSentinel
<1>7. CASE WriteSentinel(r) \/ SentinelUnwritten(r)
  BY <1>7, <1>l DEF WriteSentinel, SentinelUnwritten
<1> QED BY <1>1, <1>2, <1>3, <1>4, <1>5, <1>6, <1>7 DEF Wrapper

LEMMA EventEvidence ==
  ASSUME TypeOK, NEW r \in Round, Placed(r), Evidence(r), Lasts(r),
         Child(r) \/ Watchdog(r) \/ Term(r) \/ Crash(r)
  PROVE  Evidence(r)'
<1>1. CASE Child(r) \/ Watchdog(r)
  <2>1. at' = at /\ sentinel' = sentinel
    BY <1>1 DEF Child, ChildEnds, ChildDies, Watchdog, WatchdogElapses, WatchdogFires,
       WatchdogTerms, WatchdogKills, wrapVars
  <2> QED BY <2>1, EvidenceKept
<1>2. CASE Term(r)
  BY <1>2, EvidenceKept DEF Term, Held, TypeOK, Evidence, Ended
<1>3. CASE Crash(r)
  <2>1. /\ at[r] \notin {"idle", "over", "killed"} /\ at'[r] = "killed"
        /\ UNCHANGED <<sentinel, child, rec>>
    BY <1>3 DEF Crash, alive, Gone, childVars, TypeOK
  <2>2. at[r] = "writing" => OnlyWhenOver(r)'
    BY <2>1 DEF Placed, OnlyWhenOver, Running, Registered
  <2>3. at[r] = "writing" \/ sentinel[log[r]] \in {Absent, Unremoved}
    BY <2>1 DEF Evidence, Ended
  <2>4. sentinel[log[r]] # r
    BY <2>1 DEF Evidence
  <2> QED BY <2>1, <2>2, <2>3, <2>4 DEF Evidence, Ended
<1> QED BY <1>1, <1>2, <1>3

LEMMA StopEvidence ==
  ASSUME TypeOK, NEW s \in Stopper, Stop(s), NEW r \in Round, Evidence(r), Lasts(r)
  PROVE  Evidence(r)'
<1>1. sentinel' = sentinel
  BY DEF Stop, Verify, Ask, TermChild, WaitGone, KillChild, TermWrapper, Stopped,
     StopTimesOut
<1>2. at'[r] = at[r] \/ (at[r] = "detached" /\ at'[r] = "dead")
  <2>1. CASE TermWrapper(s)
    <3>1. at' = at \/ Held(stops[s])
      BY <2>1 DEF TermWrapper
    <3> QED BY <3>1, RoundAssumption DEF Held, TypeOK
  <2>2. CASE Verify(s) \/ Ask(s)
    BY <2>2 DEF Verify, Ask, wrapVars
  <2>3. CASE TermChild(s) \/ KillChild(s)
    BY <2>3 DEF TermChild, KillChild, wrapVars
  <2>4. CASE WaitGone(s) \/ Stopped(s) \/ StopTimesOut(s)
    BY <2>4 DEF WaitGone, Stopped, StopTimesOut, wrapVars
  <2> QED BY <2>1, <2>2, <2>3, <2>4 DEF Stop
<1>3. CASE at[r] = "detached" /\ at'[r] = "dead"
  BY <1>1, <1>3 DEF Evidence, Ended
<1> QED BY <1>1, <1>2, <1>3, EvidenceKept

(* A sentinel that can be read, on the log of a round that was launched,   *)
(* says that the round is settled; one with an rc, that it is over.        *)
LEMMA ReadSentinel ==
  ASSUME NEW r \in Round, Placed(r), Evidence(r), at[r] # "idle",
         sentinel[log[r]] \notin {Absent, Unremoved}
  PROVE  /\ Settled(r)
         /\ sentinel[log[r]] # Empty => at[r] = "over"
<1>1. at[r] \in Ended
  BY DEF Evidence
<1>2. at[r] \in {"writing", "over"} => OnlyWhenOver(r)
  BY DEF Placed, OnlyWhenOver, Running
<1> QED BY <1>1, <1>2 DEF Evidence, Settled, Ended

LEMMA NextEvidence ==
  ASSUME OneRoundPerLog
  PROVE  EvidenceInv /\ [Next]_vars => EvidenceInv'
<1> SUFFICES ASSUME EvidenceInv, Next PROVE EvidenceInv'
  <2>1. ASSUME EvidenceInv, UNCHANGED vars PROVE EvidenceInv'
    <3>1. BlameInv'
      BY <2>1, NextBlame DEF EvidenceInv
    <3> QED BY <2>1, <3>1 DEF vars, EvidenceInv, Evidence, Settled, OnlyWhenOver,
         Running, Registered
  <2> QED BY <2>1
<1>1. BlameInv /\ BlameInv' /\ TypeOK /\ \A r \in Round : Placed(r) /\ Evidence(r)
  BY NextBlame DEF EvidenceInv, BlameInv, PlaceInv
<1>2. \A r \in Round : Lasts(r)
  BY <1>1, NextLasts
<1>3. ASSUME NEW r \in Round PROVE Evidence(r)'
  <2>1. ASSUME NEW q \in Round,
               \/ reexecDetached(q) \/ Wrapper(q) \/ Child(q) \/ Watchdog(q)
               \/ Term(q) \/ Crash(q)
        PROVE  Evidence(r)'
    <3>1. CASE q = r
      BY <1>1, <1>2, <2>1, <3>1, WrapperEvidence, EventEvidence
    <3>2. CASE q # r
      <4>1. Untouched(r) /\ sentinel'[log[r]] = sentinel[log[r]]
        BY <1>1, <2>1, <3>2, OtherRound, OtherSentinel
      <4> QED BY <1>1, <1>2, <4>1, EvidenceKept DEF Untouched
    <3> QED BY <3>1, <3>2
  <2>2. ASSUME NEW s \in Stopper, Stop(s) PROVE Evidence(r)'
    BY <1>1, <1>2, <2>2, StopEvidence
  <2>3. ASSUME NEW w \in Waiter, Arm(w) \/ Poll(w) PROVE Evidence(r)'
    BY <1>1, <1>2, <2>3, EvidenceKept DEF Arm, Poll, wrapVars
  <2> QED BY <2>1, <2>2, <2>3 DEF Next
<1>4. ASSUME NEW w \in Waiter
      PROVE  /\ waiter'[w] # "idle" => at'[waits[w]] # "idle"
             /\ waiter'[w] = "printed" /\ got'[w] # Unremoved => Settled(waits[w])'
  <2>1. waits[w] \in Round /\ Lasts(waits[w])
    BY RoundAssumption, <1>2
  <2>2. CASE waiter'[w] = waiter[w] /\ got'[w] = got[w]
    BY <2>1, <2>2 DEF EvidenceInv, Lasts
  <2>3. CASE Arm(w)
    BY <2>1, <2>3, <1>1 DEF Arm, Lasts, TypeOK
  <2>4. CASE Poll(w)
    <3>1. at[waits[w]] # "idle" /\ got'[w] = sentinel[log[waits[w]]]
      BY <2>1, <2>4, <1>1 DEF Poll, EvidenceInv, TypeOK
    <3>2. got'[w] # Unremoved => Settled(waits[w])
      BY <2>1, <2>4, <3>1, <1>1, ReadSentinel DEF Poll
    <3> QED BY <2>1, <3>1, <3>2 DEF Lasts
  <2>5. ASSUME NEW v \in Waiter, Arm(v) \/ Poll(v), v # w
        PROVE  waiter'[w] = waiter[w] /\ got'[w] = got[w]
    BY <2>5, <1>1 DEF Arm, Poll, TypeOK
  <2>6. ASSUME NEW s \in Stopper, Stop(s) PROVE waiter'[w] = waiter[w] /\ got'[w] = got[w]
    BY <2>6 DEF Stop, Verify, Ask, TermChild, WaitGone, KillChild, TermWrapper, Stopped,
       StopTimesOut
  <2> QED BY <2>2, <2>3, <2>4, <2>5, <2>6, OthersLeaveCommands DEF Next
<1>5. ASSUME NEW s \in Stopper, stopper'[s] = "stopped"
      PROVE  Settled(stops[s])' /\ at'[stops[s]] = "over"
  <2>1. stops[s] \in Round /\ Lasts(stops[s])
    BY RoundAssumption, <1>2
  <2>2. CASE stopper'[s] = stopper[s]
    BY <2>1, <2>2, <1>5 DEF EvidenceInv, Lasts
  <2>3. CASE Stop(s) /\ stopper'[s] # stopper[s]
    <3>1. Stopped(s)
      BY <2>3, <1>1, <1>5 DEF Stop, Verify, Ask, TermChild, WaitGone, KillChild,
         TermWrapper, StopTimesOut, Step, TypeOK
    <3>4. stopper[s] = "awaits" /\ sentinel[log[stops[s]]] # Unremoved
      BY <3>1, <1>1, <1>5 DEF Stopped, Step, TypeOK
    <3>2. at[stops[s]] # "idle" /\ sentinel[log[stops[s]]] \notin {Absent, Empty, Unremoved}
      BY <3>1, <3>4, <2>1, <1>1 DEF Stopped, Answered, EvidenceInv, BlameInv, Recorded
    <3>3. Settled(stops[s]) /\ at[stops[s]] = "over"
      BY <2>1, <3>2, <1>1, ReadSentinel
    <3> QED BY <2>1, <3>3 DEF Lasts
  <2>4. ASSUME NEW t \in Stopper, Stop(t), t # s PROVE stopper'[s] = stopper[s]
    BY <2>4, <1>1, StopAlone
  <2>5. ASSUME NEW w \in Waiter, Arm(w) \/ Poll(w) PROVE stopper'[s] = stopper[s]
    BY <2>5 DEF Arm, Poll
  <2> QED BY <2>2, <2>3, <2>4, <2>5, OthersLeaveCommands DEF Next
<1> QED BY <1>1, <1>3, <1>4, <1>5 DEF EvidenceInv

LEMMA InitEvidence == Init => EvidenceInv
<1> SUFFICES ASSUME Init PROVE EvidenceInv
  OBVIOUS
<1>1. BlameInv
  BY InitBlame
<1>2. ASSUME NEW r \in Round PROVE Evidence(r)
  <2>1. sentinel[log[r]] \in {Absent, Earlier} /\ at[r] = "idle"
    BY RoundAssumption DEF Init
  <2>2. r \notin {Absent, Earlier}
    BY RoundAssumption
  <2> QED BY <2>1, <2>2 DEF Evidence, Ended
<1> QED BY <1>1, <1>2 DEF Init, EvidenceInv

(* No sentinel predates the round it is evidence for (grok.go:596-607), if  *)
(* no other round uses its --log and the earlier one could be removed.      *)
THEOREM NoStaleSentinel ==
  ASSUME OneRoundPerLog
  PROVE  Spec => []SentinelIsOurs
<1>1. EvidenceInv => SentinelIsOurs
  BY DEF EvidenceInv, Evidence, SentinelIsOurs, Ended
<1> QED BY <1>1, InitEvidence, NextEvidence, PTL DEF Spec

(* `wait` and `runs stop` tell of a round's end only when no harness of it  *)
(* runs and the registry has its rc (finish, outsource.go:735-746), if no   *)
(* other round uses its --log.                                             *)
THEOREM ToldWhatIsRecorded ==
  ASSUME OneRoundPerLog
  PROVE  Spec => []ToldAfterRecorded
<1>1. EvidenceInv => ToldAfterRecorded
  BY DEF EvidenceInv, Settled, ToldAfterRecorded, alive, Gone
<1> QED BY <1>1, InitEvidence, NextEvidence, PTL DEF Spec
==============================================================================
