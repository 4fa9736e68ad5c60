--------------------------- MODULE RegistryProofs ---------------------------
(***************************************************************************)
(* The registry's directory, proved for every number of rounds, processes, *)
(* housekeepers and hooks.  A name is derived from a process id, so two    *)
(* living launchers never compete for one; a record under a name belongs   *)
(* to the round the name is derived from; and what a housekeeper has read  *)
(* stays true of the record until it removes it, unless the name itself is *)
(* taken again in between (HurriedReuse).                                  *)
(***************************************************************************)
EXTENDS Registry, TLAPS

(* The kernel gives a process id to one process at a time. *)
PidsDiffer ==
  \A r, q \in Round : alive(r) /\ alive(q) /\ r # q => pid[r] # pid[q]

(* A record is under its round's name. *)
NamedAfterRound ==
  \A i \in Id : readable(i) =>
    /\ i = id(file[i].round)
    /\ at[file[i].round] \notin {"idle", "probe", "publish"}

(* Between the probe and the rename nothing comes to have the name. *)
NameStaysFree ==
  \A r \in Round : at[r] = "publish" => file[id(r)] = NoRecord

NameInv == TypeOK /\ PidsDiffer /\ NamedAfterRound /\ NameStaysFree

(* Nobody is about to remove the name a launcher is about to take. *)
NameUntouched ==
  \A r \in Round, h \in Housekeeper :
    at[r] = "publish" => doomed[h] # id(r)

(* What a housekeeper saw still holds when it removes, if it saw the record. *)
VerdictHolds ==
  \A h \in Housekeeper : doomed[h] \notin Shaky \cup {NoId} /\ readable(doomed[h]) =>
    \/ file[doomed[h]].rc
    \/ h \in Dismisser /\ ~alive(file[doomed[h]].round)

RecordInv == NameInv /\ NameUntouched /\ VerdictHolds /\ RoundOnRecord

-----------------------------------------------------------------------------
LEMMA InitTyped == Init => NameInv
<1> SUFFICES ASSUME Init PROVE NameInv
  OBVIOUS
<1> USE RegistryAssumption, RegistryValues DEF Init
<1>1. Epoch \in Time
  BY DEF Time
<1>2. TypeOK
  BY <1>1 DEF TypeOK, Housekeeper, Prunes
<1>3. PidsDiffer /\ NamedAfterRound /\ NameStaysFree
  BY DEF PidsDiffer, NamedAfterRound, NameStaysFree, alive, Working, readable
<1> QED BY <1>2, <1>3 DEF NameInv

(* A record under a name is a Record. *)
LEMMA ReadableTyped ==
  ASSUME TypeOK, NEW i \in Id, readable(i)
  PROVE  file[i] \in Record
BY DEF TypeOK, readable

LEMMA IdTyped ==
  ASSUME TypeOK, NEW r \in Round, at[r] # "idle"
  PROVE  id(r) \in Id
BY DEF TypeOK, id, Id

(* The wrapper's appends change two fields of the record it finds.         *)
LEMMA WritesTyped ==
  ASSUME TypeOK, NEW r \in Round, at[r] # "idle",
         \/ WriteRc(r)
         \/ file' = IF Mine(r) THEN [file EXCEPT ![id(r)].finishedAt = now] ELSE file
  PROVE  file' \in [Id -> Record \cup {NoRecord, Unreadable}]
<1>1. CASE ~Mine(r)
  BY <1>1 DEF WriteRc, TypeOK
<1>2. CASE Mine(r)
  <2>1. id(r) \in Id /\ file[id(r)] \in Record
    BY <1>2, IdTyped, ReadableTyped DEF Mine
  <2>2. now \in Time \cup {NoTime}
    BY DEF TypeOK
  <2>3. [file[id(r)] EXCEPT !.rc = TRUE] \in Record
    BY <2>1 DEF Record
  <2>4. [file[id(r)] EXCEPT !.finishedAt = now] \in Record
    BY <2>1, <2>2 DEF Record
  <2> QED BY <1>2, <2>1, <2>3, <2>4 DEF WriteRc, TypeOK
<1> QED BY <1>1, <1>2

(* A reveal keeps the round and the outcome of the record it is added to.  *)
LEMMA RevealTyped ==
  ASSUME NEW rec \in Record, NEW h \in Hook, NEW key
  PROVE  /\ WithReveal(rec, key, hookPath[h]) \in Record
         /\ WithReveal(rec, key, hookPath[h]).round = rec.round
         /\ WithReveal(rec, key, hookPath[h]).rc = rec.rc
         /\ WithReveal(rec, key, hookPath[h]).trail =
              IF key = "trail" THEN Append(rec.trail, hookPath[h]) ELSE rec.trail
<1>1. rec.trail \in Seq(Path) /\ rec.conflict \in SUBSET Path /\ hookPath[h] \in Path
  BY RegistryAssumption DEF Record
<1>2. Append(rec.trail, hookPath[h]) \in Seq(Path)
  BY <1>1
<1>3. CASE key = "trail"
  BY <1>1, <1>2, <1>3 DEF WithReveal, Record
<1>4. CASE key # "trail"
  BY <1>1, <1>4 DEF WithReveal, Record
<1> QED BY <1>3, <1>4

(* The trails a record was given, as its answer or as conflicts. *)
Said(rec) == Ran(rec.trail) \cup rec.conflict

(* An append puts a path at the end of a trail. *)
LEMMA AppendSaid ==
  ASSUME NEW S, NEW seq \in Seq(S), NEW e \in S
  PROVE  Ran(Append(seq, e)) = Ran(seq) \cup {e}
<1>1. /\ DOMAIN Append(seq, e) = 1..(Len(seq) + 1) /\ DOMAIN seq = 1..Len(seq)
      /\ \A k \in 1..Len(seq) : Append(seq, e)[k] = seq[k]
      /\ Append(seq, e)[Len(seq) + 1] = e /\ Len(seq) \in Nat
  OBVIOUS
<1>2. 1..(Len(seq) + 1) = 1..Len(seq) \cup {Len(seq) + 1}
  BY <1>1
<1> QED BY <1>1, <1>2 DEF Ran

(* And whichever of the two keys it takes, the path is on the record. *)
LEMMA RevealSaid ==
  ASSUME NEW rec \in Record, NEW h \in Hook, NEW key
  PROVE  Said(WithReveal(rec, key, hookPath[h])) = Said(rec) \cup {hookPath[h]}
<1>1. rec.trail \in Seq(Path) /\ rec.conflict \in SUBSET Path /\ hookPath[h] \in Path
  BY RegistryAssumption DEF Record
<1>2. CASE key = "trail"
  <2>1. /\ WithReveal(rec, key, hookPath[h]).trail = Append(rec.trail, hookPath[h])
        /\ WithReveal(rec, key, hookPath[h]).conflict = rec.conflict
    BY <1>2 DEF WithReveal, Record
  <2>2. Ran(Append(rec.trail, hookPath[h])) = Ran(rec.trail) \cup {hookPath[h]}
    BY <1>1, AppendSaid
  <2> QED BY <2>1, <2>2 DEF Said
<1>3. CASE key # "trail"
  <2>1. /\ WithReveal(rec, key, hookPath[h]).trail = rec.trail
        /\ WithReveal(rec, key, hookPath[h]).conflict = rec.conflict \cup {hookPath[h]}
    BY <1>3 DEF WithReveal, Record
  <2> QED BY <2>1 DEF Said
<1> QED BY <1>2, <1>3

(* Each step keeps the shapes of the state. *)
LEMMA NextTyped == TypeOK /\ [Next]_vars => TypeOK'
<1> SUFFICES ASSUME TypeOK, [Next]_vars PROVE TypeOK'
  OBVIOUS
<1> USE RegistryAssumption, RegistryValues DEF TypeOK, launchVars, hookVars, Goto, Working
<1>1. CASE Tick
  BY <1>1 DEF Tick, Time
<1>2. ASSUME NEW r \in Round, Wrapper(r) PROVE TypeOK'
  <2>1. ASSUME NEW p \in Pid, Launch(r, p) PROVE TypeOK'
    BY <2>1 DEF Launch
  <2>2. CASE NextSuffix(r)
    BY <2>2 DEF NextSuffix
  <2>3. CASE Probed(r)
    BY <2>3 DEF Probed
  <2>4. CASE Publish(r)
    <3>1. id(r) \in Id
      BY <2>4, IdTyped DEF Publish
    <3>2. [round |-> r, rc |-> FALSE, finishedAt |-> NoTime, trail |-> <<>>,
           conflict |-> {}] \in Record
      BY DEF Record
    <3> QED BY <2>4, <3>1, <3>2 DEF Publish
  <2>5. CASE StartPrune(r)
    BY <2>5 DEF StartPrune, Names
  <2>6. CASE StartPruned(r)
    BY <2>6 DEF StartPruned
  <2>7. CASE FinishOpen(r)
    BY <2>7 DEF FinishOpen
  <2>8. CASE FinishRc(r)
    <3>1. file' \in [Id -> Record \cup {NoRecord, Unreadable}]
      BY <2>8, WritesTyped DEF FinishRc
    <3> QED BY <2>8, <3>1 DEF FinishRc
  <2>9. CASE FinishedAt(r)
    <3>1. file' \in [Id -> Record \cup {NoRecord, Unreadable}]
      BY <2>9, WritesTyped DEF FinishedAt
    <3> QED BY <2>9, <3>1 DEF FinishedAt
  <2>10. CASE Die(r)
    BY <2>10 DEF Die, alive
  <2> QED BY <1>2, <2>1, <2>2, <2>3, <2>4, <2>5, <2>6, <2>7, <2>8, <2>9, <2>10
          DEF Wrapper
<1>3. ASSUME NEW h \in Prunes, Prune(h) PROVE TypeOK'
  <2>1. ASSUME NEW i \in todo[h], PruneLook(h, i) PROVE TypeOK'
    BY <2>1 DEF PruneLook
  <2>2. CASE PruneRemove(h)
    BY <2>2 DEF PruneRemove, Remove, Housekeeper
  <2> QED BY <1>3, <2>1, <2>2 DEF Prune
<1>4. ASSUME NEW h \in Pruner, CmdPrune(h) \/ CmdPruned(h) PROVE TypeOK'
  BY <1>4 DEF CmdPrune, CmdPruned, Names
<1>5. ASSUME NEW d \in Dismisser,
             (\E i \in Id : CmdDismiss(d, i)) \/ DismissRemove(d)
      PROVE TypeOK'
  <2>1. ASSUME NEW i \in Id, CmdDismiss(d, i) PROVE TypeOK'
    BY <2>1 DEF CmdDismiss
  <2>2. CASE DismissRemove(d)
    <3>1. doomed[d] \in Id
      BY <2>2 DEF DismissRemove, Remove, Housekeeper
    <3>2. readable(doomed[d]) => file[doomed[d]].round \in Round
      BY <3>1, ReadableTyped DEF Record
    <3> QED BY <2>2, <3>1, <3>2 DEF DismissRemove, Remove
  <2> QED BY <1>5, <2>1, <2>2
<1>6. ASSUME NEW h \in Hook, RevealRead(h) \/ RevealWrite(h) PROVE TypeOK'
  <2>1. CASE RevealRead(h)
    <3>1. target(h) \in Id
      BY <2>1, IdTyped DEF RevealRead, target
    <3>2. PICK key \in Decisions(h) : hook' = [hook EXCEPT ![h] = key]
      BY <2>1 DEF RevealRead
    <3>3. key \in {"quiet", "trail", "conflict"}
      BY <3>2 DEF Decisions, Decision
    <3>4. hook' \in [Hook -> {"fresh", "trail", "conflict", "wrote", "quiet"}]
      BY <3>2, <3>3
    <3>5. overlap' \subseteq Id
      BY <2>1, <3>1 DEF RevealRead
    <3>6. \A g \in Hook : hook'[g] # "fresh" => at[hookRun[g]] # "idle"
      BY <2>1, <3>2 DEF RevealRead
    <3> QED BY <2>1, <3>4, <3>5, <3>6 DEF RevealRead
  <2>2. CASE RevealWrite(h)
    <3>1. CASE ~readable(target(h))
      BY <2>2, <3>1 DEF RevealWrite
    <3>2. CASE readable(target(h))
      <4>1. target(h) \in Id /\ file[target(h)] \in Record
        BY <2>2, <3>2, IdTyped, ReadableTyped DEF RevealWrite, target
      <4>2. WithReveal(file[target(h)], hook[h], hookPath[h]) \in Record
        BY <4>1, RevealTyped
      <4>3. file' \in [Id -> Record \cup {NoRecord, Unreadable}]
        BY <2>2, <3>2, <4>1, <4>2 DEF RevealWrite
      <4> QED BY <2>2, <3>2, <4>3 DEF RevealWrite
    <3> QED BY <3>1, <3>2
  <2> QED BY <1>6, <2>1, <2>2
<1>7. CASE UNCHANGED vars
  BY <1>7 DEF vars
<1> QED BY <1>1, <1>2, <1>3, <1>4, <1>5, <1>6, <1>7 DEF Next
-----------------------------------------------------------------------------
(* What a step does to one name: nothing, it publishes a round's record    *)
(* there, it removes it on an earlier verdict, or it appends, which leaves *)
(* the round, an rc and what was said alone.                               *)
Untouched(i) == file'[i] = file[i]

Published(i) ==
  \E r \in Round : Publish(r) /\ i = id(r) /\ readable(i)'
                   /\ file'[i].round = r /\ ~file'[i].rc /\ file'[i].trail = <<>>

Removed(i) ==
  /\ file'[i] = NoRecord
  /\ \/ \E h \in Prunes : doomed[h] = i /\ PruneRemove(h)
     \/ \E d \in Dismisser : doomed[d] = i /\ DismissRemove(d)

(* A hook that decided on trail= appends its line. *)
Retold(i, h) ==
  /\ RevealWrite(h) /\ hook[h] = "trail" /\ target(h) = i
  /\ file'[i].trail = Append(file[i].trail, hookPath[h])

Appended(i) ==
  /\ readable(i) /\ readable(i)'
  /\ file'[i].round = file[i].round
  /\ Said(file[i]) \subseteq Said(file'[i])
  /\ \/ file'[i].rc = file[i].rc
     \/ \E r \in Round : FinishRc(r) /\ r = file[i].round /\ file'[i].rc
  /\ file'[i].trail = file[i].trail \/ \E h \in Hook : Retold(i, h)

LEMMA AnyRecordReadable ==
  \A rec \in Record : rec \notin {NoRecord, Unreadable}
BY RegistryValues

LEMMA FileStep ==
  ASSUME TypeOK, TypeOK', Next, NEW i \in Id
  PROVE  Untouched(i) \/ Published(i) \/ Removed(i) \/ Appended(i)
<1> USE DEF launchVars, hookVars
<1>1. CASE Tick
  BY <1>1 DEF Tick, Untouched
<1>2. ASSUME NEW r \in Round, Wrapper(r)
      PROVE  Untouched(i) \/ Published(i) \/ Removed(i) \/ Appended(i)
  <2>1. ASSUME NEW p \in Pid, Launch(r, p) PROVE Untouched(i)
    BY <2>1 DEF Launch, Untouched
  <2>2. CASE NextSuffix(r) \/ Probed(r) \/ StartPrune(r) \/ StartPruned(r)
             \/ FinishOpen(r) \/ Die(r)
    BY <2>2 DEF NextSuffix, Probed, StartPrune, StartPruned, FinishOpen, Die,
       Untouched
  <2>3. CASE Publish(r)
    <3>1. CASE i = id(r)
      <4> DEFINE fresh == [round |-> r, rc |-> FALSE, finishedAt |-> NoTime,
                           trail |-> <<>>, conflict |-> {}]
      <4>1. file'[i] = fresh
        BY <2>3, <3>1 DEF Publish, TypeOK
      <4>2. fresh \in Record
        BY DEF Record
      <4>3. readable(i)'
        BY <4>1, <4>2, AnyRecordReadable DEF readable
      <4> QED BY <2>3, <3>1, <4>1, <4>3 DEF Published
    <3>2. CASE i # id(r)
      BY <2>3, <3>2 DEF Publish, Untouched, TypeOK
    <3> QED BY <3>1, <3>2
  <2>4. CASE FinishRc(r)
    <3>1. CASE Mine(r) /\ i = id(r)
      <4>1. file[i] \in Record
        BY <3>1, ReadableTyped DEF Mine
      <4>2. file'[i] = [file[i] EXCEPT !.rc = TRUE]
        BY <2>4, <3>1 DEF FinishRc, WriteRc, TypeOK
      <4>3. file'[i] \in Record
        BY <4>1, <4>2 DEF Record
      <4>4. readable(i)'
        BY <4>3, AnyRecordReadable DEF readable
      <4>5. file'[i].round = file[i].round /\ file'[i].rc
        BY <4>1, <4>2 DEF Record
      <4>6. Said(file'[i]) = Said(file[i]) /\ file'[i].trail = file[i].trail
        BY <4>1, <4>2 DEF Record, Said
      <4> QED BY <2>4, <3>1, <4>4, <4>5, <4>6 DEF Appended, Mine
    <3>2. CASE ~(Mine(r) /\ i = id(r))
      BY <2>4, <3>2 DEF FinishRc, WriteRc, TypeOK, Untouched
    <3> QED BY <3>1, <3>2
  <2>5. CASE FinishedAt(r)
    <3>1. CASE Mine(r) /\ i = id(r)
      <4>1. file[i] \in Record
        BY <3>1, ReadableTyped DEF Mine
      <4>2. file'[i] = [file[i] EXCEPT !.finishedAt = now]
        BY <2>5, <3>1 DEF FinishedAt, TypeOK
      <4>3. file'[i] \in Record
        BY <4>1, <4>2 DEF Record, TypeOK
      <4>4. readable(i)'
        BY <4>3, AnyRecordReadable DEF readable
      <4>5. file'[i].round = file[i].round /\ file'[i].rc = file[i].rc
        BY <4>1, <4>2 DEF Record
      <4>6. Said(file'[i]) = Said(file[i]) /\ file'[i].trail = file[i].trail
        BY <4>1, <4>2 DEF Record, Said
      <4> QED BY <3>1, <4>4, <4>5, <4>6 DEF Appended, Mine
    <3>2. CASE ~(Mine(r) /\ i = id(r))
      BY <2>5, <3>2 DEF FinishedAt, TypeOK, Untouched
    <3> QED BY <3>1, <3>2
  <2> QED BY <1>2, <2>1, <2>2, <2>3, <2>4, <2>5 DEF Wrapper
<1>3. ASSUME NEW h \in Prunes, Prune(h) PROVE Untouched(i) \/ Removed(i)
  <2>1. ASSUME NEW j \in todo[h], PruneLook(h, j) PROVE Untouched(i)
    BY <2>1 DEF PruneLook, Untouched
  <2>2. CASE PruneRemove(h)
    BY <2>2, <1>3 DEF PruneRemove, Remove, Untouched, Removed, TypeOK
  <2> QED BY <1>3, <2>1, <2>2 DEF Prune
<1>4. ASSUME NEW h \in Pruner, CmdPrune(h) \/ CmdPruned(h) PROVE Untouched(i)
  BY <1>4 DEF CmdPrune, CmdPruned, Untouched
<1>5. ASSUME NEW d \in Dismisser,
             (\E j \in Id : CmdDismiss(d, j)) \/ DismissRemove(d)
      PROVE  Untouched(i) \/ Removed(i)
  BY <1>5 DEF CmdDismiss, DismissRemove, Remove, Untouched, Removed, TypeOK
<1>6. ASSUME NEW h \in Hook, RevealRead(h) \/ RevealWrite(h)
      PROVE  Untouched(i) \/ Appended(i)
  <2>1. CASE RevealWrite(h) /\ readable(target(h)) /\ i = target(h)
    <3>1. file[i] \in Record
      BY <2>1, ReadableTyped
    <3>2. file'[i] = WithReveal(file[i], hook[h], hookPath[h])
      BY <2>1 DEF RevealWrite, TypeOK
    <3>3. /\ file'[i] \in Record
          /\ file'[i].round = file[i].round /\ file'[i].rc = file[i].rc
      <4>1. /\ WithReveal(file[i], hook[h], hookPath[h]) \in Record
            /\ WithReveal(file[i], hook[h], hookPath[h]).round = file[i].round
            /\ WithReveal(file[i], hook[h], hookPath[h]).rc = file[i].rc
        BY <3>1, RevealTyped
      <4> QED BY <3>2, <4>1
    <3>4. readable(i)'
      BY <3>3, AnyRecordReadable DEF readable
    <3>5. Said(file[i]) \subseteq Said(file'[i])
      BY <3>1, <3>2, RevealSaid
    <3>6. file'[i].trail = file[i].trail \/ Retold(i, h)
      <4>1. file'[i].trail = IF hook[h] = "trail" THEN Append(file[i].trail, hookPath[h])
                             ELSE file[i].trail
        BY <3>1, <3>2, RevealTyped
      <4> QED BY <2>1, <4>1 DEF Retold
    <3> QED BY <2>1, <3>3, <3>4, <3>5, <3>6 DEF Appended
  <2>2. CASE ~(RevealWrite(h) /\ readable(target(h)) /\ i = target(h))
    BY <1>6, <2>2 DEF RevealRead, RevealWrite, Untouched, TypeOK
  <2> QED BY <2>1, <2>2
<1> QED BY <1>1, <1>2, <1>3, <1>4, <1>5, <1>6 DEF Next

-----------------------------------------------------------------------------
(* The wrapper has published and not finished. *)
Holding == {"published", "prune", "run", "open"}

(* A round's id is settled once it leaves the probe, and no step revives a *)
(* wrapper that has ended.                                                 *)
LEMMA WrapperStep ==
  ASSUME TypeOK, Next, NEW r \in Round
  PROVE  /\ at[r] \notin {"idle", "probe"} =>
              /\ id(r)' = id(r)
              /\ at'[r] = at[r] \/ at'[r] \notin {"idle", "probe", "publish"}
         /\ at[r] # "idle" => pid'[r] = pid[r]
         /\ at'[r] = "publish" => \/ at[r] = "publish"
                                  \/ Probed(r)
         /\ at'[r] \in Holding => at[r] \in Holding \/ Publish(r)
         /\ ~alive(r) /\ at[r] # "idle" => ~alive(r)'
         /\ at[r] = "idle" /\ alive(r)' => \E p \in Pid : Launch(r, p)
<1> USE DEF launchVars, hookVars, Goto, id, alive, Working, Holding
<1>t. /\ at \in [Round -> Working \cup {"idle", "over", "dead", "orphaned"}]
      /\ pid \in [Round -> Pid \cup {NoPid}] /\ startedAt \in [Round -> Time]
      /\ suffix \in [Round -> 1..MaxSuffix]
  BY DEF TypeOK
<1>1. ASSUME NEW q \in Round, Wrapper(q)
      PROVE  \/ q = r
             \/ at'[r] = at[r] /\ id(r)' = id(r) /\ pid'[r] = pid[r]
  BY <1>1, <1>t DEF Wrapper, Launch, NextSuffix, Probed, Publish, StartPrune,
     StartPruned, FinishOpen, FinishRc, FinishedAt, Die
<1>2. CASE Wrapper(r)
  <2>1. CASE \E p \in Pid : Launch(r, p)
    BY <2>1, <1>t DEF Launch
  <2>2. CASE NextSuffix(r) \/ Probed(r)
    BY <2>2, <1>t DEF NextSuffix, Probed
  <2>3. CASE Publish(r) \/ StartPrune(r) \/ StartPruned(r)
    BY <2>3, <1>t DEF Publish, StartPrune, StartPruned
  <2>4. CASE FinishOpen(r)
    BY <2>4, <1>t DEF FinishOpen
  <2>5. CASE FinishRc(r) \/ FinishedAt(r)
    BY <2>5, <1>t DEF FinishRc, FinishedAt
  <2>6. CASE Die(r)
    BY <2>6, <1>t DEF Die
  <2> QED BY <1>2, <2>1, <2>2, <2>3, <2>4, <2>5, <2>6 DEF Wrapper
<1>3. CASE ~\E q \in Round : Wrapper(q)
  <2>1. UNCHANGED <<at, pid, startedAt, suffix>>
    BY <1>3 DEF Next, Tick, Prune, PruneLook, PruneRemove, CmdPrune, CmdPruned,
       CmdDismiss, DismissRemove, RevealRead, RevealWrite
  <2> QED BY <2>1
<1> QED BY <1>1, <1>2, <1>3

(* The names: who can come to have one, and that nobody loses his to        *)
(* another round.                                                           *)
LEMMA NextNames == NameInv /\ [Next]_vars => NameInv'
<1> SUFFICES ASSUME NameInv, Next PROVE NameInv'
  <2>1. CASE UNCHANGED vars
    BY <2>1 DEF vars, NameInv, TypeOK, PidsDiffer, NamedAfterRound, NameStaysFree,
       readable, id, alive
  <2> QED BY <2>1
<1>1. TypeOK /\ TypeOK'
  BY NextTyped DEF NameInv
<1>2. PidsDiffer'
  <2> SUFFICES ASSUME NEW r \in Round, NEW q \in Round,
                      alive(r)', alive(q)', r # q
               PROVE  pid'[r] # pid'[q]
    BY DEF PidsDiffer
  <2>1. CASE alive(r) /\ alive(q)
    BY <1>1, <2>1, WrapperStep DEF NameInv, PidsDiffer, alive, Working
  <2>2. ASSUME NEW p \in Pid, Launch(r, p) PROVE pid'[r] # pid'[q]
    BY <1>1, <2>2 DEF Launch, Goto, TypeOK, alive
  <2>3. ASSUME NEW p \in Pid, Launch(q, p) PROVE pid'[r] # pid'[q]
    BY <1>1, <2>3 DEF Launch, Goto, TypeOK, alive
  <2>4. /\ alive(r) \/ \E p \in Pid : Launch(r, p)
        /\ alive(q) \/ \E p \in Pid : Launch(q, p)
    BY <1>1, WrapperStep
  <2> QED BY <2>1, <2>2, <2>3, <2>4
<1>3. NameStaysFree'
  <2> SUFFICES ASSUME NEW r \in Round, at'[r] = "publish" PROVE file'[id(r)'] = NoRecord
    BY DEF NameStaysFree
  <2>1. CASE Probed(r)
    BY <2>1 DEF Probed, NameFree, launchVars, hookVars, id
  <2>2. CASE at[r] = "publish"
    <3>1. id(r)' = id(r) /\ id(r) \in Id /\ file[id(r)] = NoRecord
      BY <1>1, <2>2, WrapperStep, IdTyped DEF NameInv, NameStaysFree
    <3>2. CASE Published(id(r))
      <4>1. PICK q \in Round : Publish(q) /\ id(r) = id(q)
        BY <3>2 DEF Published
      <4>2. q # r
        BY <4>1, <1>1 DEF Publish, Goto, TypeOK
      <4>3. alive(q) /\ alive(r) /\ pid[q] = pid[r]
        BY <4>1, <2>2 DEF Publish, Goto, alive, Working, id
      <4> QED BY <4>2, <4>3 DEF NameInv, PidsDiffer
    <3>3. CASE ~Published(id(r))
      BY <1>1, <3>1, <3>3, FileStep DEF Untouched, Removed, Appended, readable
    <3> QED BY <3>2, <3>3
  <2> QED BY <1>1, <2>1, <2>2, WrapperStep
<1>4. NamedAfterRound'
  <2> SUFFICES ASSUME NEW i \in Id, readable(i)'
               PROVE  /\ i = id(file[i].round)'
                      /\ at'[file'[i].round] \notin {"idle", "probe", "publish"}
    BY DEF NamedAfterRound
  <2>1. CASE Untouched(i) \/ Appended(i)
    <3>1. readable(i) /\ file'[i].round = file[i].round
      BY <2>1 DEF Untouched, Appended, readable
    <3>2. file[i].round \in Round
      BY <1>1, <3>1, ReadableTyped DEF Record
    <3>3. /\ i = id(file[i].round)
          /\ at[file[i].round] \notin {"idle", "probe", "publish"}
      BY <3>1 DEF NameInv, NamedAfterRound
    <3> QED BY <1>1, <3>1, <3>2, <3>3, WrapperStep DEF id
  <2>2. CASE Published(i)
    <3>1. PICK r \in Round : Publish(r) /\ i = id(r) /\ file'[i].round = r
      BY <2>2 DEF Published
    <3> QED BY <1>1, <3>1 DEF Publish, Goto, launchVars, hookVars, id, TypeOK
  <2>3. CASE Removed(i)
    BY <2>3 DEF Removed, readable
  <2> QED BY <1>1, <2>1, <2>2, <2>3, FileStep
<1> QED BY <1>1, <1>2, <1>3, <1>4 DEF NameInv

-----------------------------------------------------------------------------
(* From here on a name is not taken again while somebody is about to       *)
(* remove it.                                                              *)

LEMMA InitRecords == Init => RecordInv
<1> SUFFICES ASSUME Init PROVE RecordInv
  OBVIOUS
<1> QED BY InitTyped DEF RecordInv, NameUntouched, VerdictHolds, RoundOnRecord,
     Init, Housekeeper

LEMMA NoIdNamesNothing == \A i \in Id : i # NoId
  BY RegistryAssumption

(* A verdict comes from having looked at the record. *)
LEMMA NewVerdict ==
  ASSUME TypeOK, Next, NEW h \in Housekeeper, NEW i \in Id,
         doomed'[h] = i, doomed'[h] # doomed[h]
  PROVE  \/ h \in Prunes /\ PruneLook(h, i)
         \/ h \in Dismisser /\ CmdDismiss(h, i)
<1>1. doomed \in [Housekeeper -> Id \cup {NoId}] /\ i # NoId
  BY NoIdNamesNothing DEF TypeOK
<1>2. ASSUME NEW r \in Round, Wrapper(r) PROVE FALSE
  BY <1>1, <1>2 DEF Wrapper, Launch, NextSuffix, Probed, Publish, StartPrune,
     StartPruned, FinishOpen, FinishRc, FinishedAt, Die
<1>3. ASSUME NEW g \in Prunes, Prune(g) PROVE h \in Prunes /\ PruneLook(h, i)
  <2>1. CASE PruneRemove(g)
    BY <1>1, <2>1 DEF PruneRemove, Remove
  <2>2. ASSUME NEW j \in todo[g], PruneLook(g, j) PROVE h = g /\ i = j
    BY <1>1, <2>2 DEF PruneLook
  <2> QED BY <1>3, <2>1, <2>2 DEF Prune
<1>4. ASSUME NEW d \in Dismisser,
             (\E j \in Id : CmdDismiss(d, j)) \/ DismissRemove(d)
      PROVE  h \in Dismisser /\ CmdDismiss(h, i)
  <2>1. CASE DismissRemove(d)
    BY <1>1, <2>1 DEF DismissRemove, Remove
  <2>2. ASSUME NEW j \in Id, CmdDismiss(d, j) PROVE h = d /\ i = j
    BY <1>1, <2>2 DEF CmdDismiss
  <2> QED BY <1>4, <2>1, <2>2
<1> QED BY <1>2, <1>3, <1>4 DEF Next, Tick, CmdPrune, CmdPruned, RevealRead,
        RevealWrite

(* What a housekeeper has read of a record still holds after a step.       *)
LEMMA VerdictStep ==
  ASSUME RecordInv, Next, HurriedReuse = FALSE
  PROVE  VerdictHolds'
<1>1. TypeOK /\ TypeOK' /\ NamedAfterRound /\ NameUntouched /\ VerdictHolds
  BY NextTyped DEF RecordInv, NameInv
<1> SUFFICES ASSUME NEW h \in Housekeeper, NEW i \in Id, doomed'[h] = i,
                    readable(i)', i \notin Shaky
             PROVE  file'[i].rc \/ (h \in Dismisser /\ ~alive(file[i].round)')
  BY <1>1 DEF VerdictHolds, TypeOK
<1>2. CASE doomed[h] = i
  <2>1. CASE Published(i)
    BY <1>1, <1>2, <2>1 DEF Published, Publish, Goto, NameUntouched
  <2>2. CASE Untouched(i) \/ Appended(i)
    <3>1. /\ readable(i) /\ file'[i].round = file[i].round
          /\ file[i].rc => file'[i].rc
      BY <2>2 DEF Untouched, Appended, readable
    <3>2. file[i].round \in Round
      BY <1>1, <3>1, ReadableTyped DEF Record
    <3>3. at[file[i].round] # "idle"
      BY <1>1, <3>1 DEF NamedAfterRound
    <3>4. file[i].rc \/ (h \in Dismisser /\ ~alive(file[i].round))
      BY <1>1, <1>2, <3>1, NoIdNamesNothing DEF VerdictHolds, readable
    <3> QED BY <1>1, <3>1, <3>2, <3>3, <3>4, WrapperStep DEF alive
  <2>3. CASE Removed(i)
    BY <2>3 DEF Removed, readable
  <2> QED BY <1>1, <2>1, <2>2, <2>3, FileStep
<1>3. ASSUME h \in Prunes, PruneLook(h, i), doomed'[h] # doomed[h]
      PROVE  file'[i].rc
  BY <1>1, <1>3 DEF PruneLook, Expired, Unread, TypeOK, readable
<1>4. ASSUME h \in Dismisser, CmdDismiss(h, i), doomed'[h] # doomed[h]
      PROVE  file'[i].rc \/ ~alive(file[i].round)'
  <2>1. UNCHANGED <<file, at, pid>> /\ readable(i)
    BY <1>4 DEF CmdDismiss, launchVars, hookVars, readable
  <2>2. i = id(file[i].round) /\ file[i].round \in Round
    BY <1>1, <2>1, ReadableTyped DEF NamedAfterRound, Record
  <2>3. pid[file[i].round] = i[2]
    BY <2>2 DEF id
  <2>4. ~Live(i)
    BY <1>1, <1>4, <2>1 DEF CmdDismiss, Dismissable, Unread, TypeOK, readable
  <2> QED BY <2>1, <2>2, <2>3, <2>4 DEF Live, alive
<1>5. CASE doomed'[h] # doomed[h]
  <2>1. \/ h \in Prunes /\ PruneLook(h, i)
        \/ h \in Dismisser /\ CmdDismiss(h, i)
    BY <1>1, <1>5, NewVerdict
  <2> QED BY <1>3, <1>4, <1>5, <2>1 DEF alive
<1> QED BY <1>2, <1>5

(* Nobody comes to be about to remove the name a launcher found free.      *)
LEMMA UntouchedStep ==
  ASSUME RecordInv, Next, HurriedReuse = FALSE
  PROVE  NameUntouched'
<1>1. TypeOK /\ NameStaysFree /\ NameUntouched
  BY DEF RecordInv, NameInv
<1> SUFFICES ASSUME NEW r \in Round, NEW h \in Housekeeper, at'[r] = "publish"
             PROVE  doomed'[h] # id(r)'
  BY DEF NameUntouched
<1>2. CASE Probed(r)
  BY <1>2 DEF Probed, NameFree, launchVars, hookVars, id
<1>3. CASE at[r] = "publish"
  <2>1. id(r)' = id(r) /\ id(r) \in Id /\ file[id(r)] = NoRecord
    BY <1>1, <1>3, WrapperStep, IdTyped DEF NameStaysFree
  <2>2. CASE doomed'[h] # doomed[h]
    BY <1>1, <2>1, <2>2, NewVerdict, RegistryValues DEF PruneLook, CmdDismiss, Unread,
       readable
  <2> QED BY <1>1, <1>3, <2>1, <2>2 DEF NameUntouched
<1> QED BY <1>1, <1>2, <1>3, WrapperStep

(* A wrapper keeps its record until it has written its outcome.            *)
LEMMA OnRecordStep ==
  ASSUME RecordInv, Next, HurriedReuse = FALSE
  PROVE  RoundOnRecord'
<1>1. /\ TypeOK /\ TypeOK' /\ NameInv /\ NameStaysFree /\ VerdictHolds
      /\ RoundOnRecord
  BY NextTyped DEF RecordInv, NameInv
<1> SUFFICES ASSUME NEW r \in Round, at'[r] \in Holding, id(r)' \notin Shaky
             PROVE  (Mine(r) /\ ~file[id(r)].rc)'
  BY DEF RoundOnRecord, Holding
<1>2. CASE Publish(r)
  <2>1. id(r) \in Id /\ id(r)' = id(r)
    BY <1>1, <1>2, IdTyped DEF Publish, Goto, launchVars, hookVars, id
  <2>2. file'[id(r)] = [round |-> r, rc |-> FALSE, finishedAt |-> NoTime,
                        trail |-> <<>>, conflict |-> {}]
    BY <1>1, <1>2, <2>1 DEF Publish, TypeOK
  <2>3. file'[id(r)] \in Record
    BY <2>2 DEF Record
  <2>4. file'[id(r)].round = r /\ ~file'[id(r)].rc
    BY <2>2
  <2>5. file'[id(r)] \notin {NoRecord, Unreadable}
    BY <2>3, AnyRecordReadable
  <2> QED BY <2>1, <2>4, <2>5 DEF Mine, readable
<1>3. CASE at[r] \in Holding
  <2>1. /\ id(r) \in Id \ Shaky /\ id(r)' = id(r) /\ alive(r)
        /\ readable(id(r)) /\ file[id(r)].round = r /\ ~file[id(r)].rc
    BY <1>1, <1>3, WrapperStep, IdTyped DEF Holding, alive, Working, RoundOnRecord,
       Mine
  <2>2. ~Published(id(r))
    BY <1>1, <2>1 DEF Published, Publish, Goto, NameStaysFree, readable
  <2>3. ~Removed(id(r))
    BY <1>1, <2>1, RegistryAssumption, NoIdNamesNothing
       DEF Removed, VerdictHolds, Housekeeper, readable
  <2>4. CASE Untouched(id(r))
    BY <2>1, <2>4 DEF Untouched, Mine, readable
  <2>5. CASE Appended(id(r))
    <3>1. ~FinishRc(r)
      BY <1>1 DEF FinishRc, Goto, Holding, TypeOK
    <3> QED BY <2>1, <2>5, <3>1 DEF Appended, Mine, readable
  <2> QED BY <1>1, <2>1, <2>2, <2>3, <2>4, <2>5, FileStep
<1> QED BY <1>1, <1>2, <1>3, WrapperStep

LEMMA NextRecords ==
  HurriedReuse = FALSE /\ RecordInv /\ [Next]_vars => RecordInv'
<1> SUFFICES ASSUME HurriedReuse = FALSE, RecordInv, [Next]_vars
             PROVE  RecordInv'
  OBVIOUS
<1>1. NameInv'
  BY NextNames DEF RecordInv
<1>2. CASE Next
  BY <1>1, <1>2, UntouchedStep, VerdictStep, OnRecordStep DEF RecordInv
<1>3. CASE UNCHANGED vars
  BY <1>1, <1>3 DEF vars, RecordInv, NameUntouched, VerdictHolds, RoundOnRecord,
     Mine, readable, alive, id
<1> QED BY <1>2, <1>3

-----------------------------------------------------------------------------
(* The registry's state stays well formed. *)
THEOREM RegistryTyped == Spec => []TypeOK
<1>1. Init => NameInv
  BY InitTyped
<1>2. NameInv /\ [Next]_vars => NameInv'
  BY NextNames
<1>3. NameInv => TypeOK
  BY DEF NameInv
<1> QED BY <1>1, <1>2, <1>3, PTL DEF Spec

(* No record is ever replaced by another round's (cli.go:245-255), however *)
(* process ids are recycled and whatever the housekeepers do.              *)
THEOREM RecordsNotOverwritten == Spec => NeverOverwritten
<1>1. Init => NameInv
  BY InitTyped
<1>2. NameInv /\ [Next]_vars => NameInv'
  BY NextNames
<1>3. NameInv /\ [Next]_vars =>
        [\A i \in Id : readable(i) /\ readable(i)'
           => file'[i].round = file[i].round]_vars
  <2> SUFFICES ASSUME NameInv, Next, NEW i \in Id, readable(i), readable(i)'
               PROVE  file'[i].round = file[i].round
    OBVIOUS
  <2>1. TypeOK /\ TypeOK' /\ NameStaysFree
    BY NextTyped DEF NameInv
  <2>2. ~Published(i)
    BY <2>1 DEF Published, Publish, Goto, NameStaysFree, readable
  <2>3. ~Removed(i)
    BY DEF Removed, readable
  <2> QED BY <2>1, <2>2, <2>3, FileStep DEF Untouched, Appended
<1> QED BY <1>1, <1>2, <1>3, PTL DEF Spec, NeverOverwritten

(* A wrapper that is not done finds its own unfinished record under its id,*)
(* unless a name is reused under somebody's hand or a read of it failed.   *)
THEOREM RoundsOnRecord ==
  ASSUME HurriedReuse = FALSE
  PROVE  Spec => []RoundOnRecord
<1>1. Init => RecordInv
  BY InitRecords
<1>2. RecordInv /\ [Next]_vars => RecordInv'
  BY NextRecords
<1>3. RecordInv => RoundOnRecord
  BY DEF RecordInv
<1> QED BY <1>1, <1>2, <1>3, PTL DEF Spec

(* An unfinished round's record goes only by `runs dismiss`, and only when *)
(* the round is dead, unless a read of the record failed.                  *)
THEOREM OrphansKept ==
  ASSUME HurriedReuse = FALSE
  PROVE  Spec => EvidenceStays
<1>1. Init => RecordInv
  BY InitRecords
<1>2. RecordInv /\ [Next]_vars => RecordInv'
  BY NextRecords
<1>3. RecordInv /\ [Next]_vars =>
        [\A i \in Id \ Shaky : readable(i) /\ file'[i] = NoRecord /\ ~file[i].rc =>
           file[i].round \in dismissed' /\ ~alive(file[i].round)]_vars
  <2> SUFFICES ASSUME RecordInv, Next, NEW i \in Id \ Shaky,
                      readable(i), file'[i] = NoRecord, ~file[i].rc
               PROVE  file[i].round \in dismissed' /\ ~alive(file[i].round)
    OBVIOUS
  <2>1. TypeOK /\ TypeOK' /\ VerdictHolds
    BY NextTyped DEF RecordInv, NameInv
  <2>2. Removed(i)
    BY <2>1, FileStep DEF Untouched, Published, Appended, readable
  <2>3. ASSUME NEW h \in Housekeeper, doomed[h] = i
        PROVE  h \in Dismisser /\ ~alive(file[i].round)
    BY <2>1, <2>3, NoIdNamesNothing DEF VerdictHolds, readable
  <2>4. PICK d \in Dismisser : doomed[d] = i /\ DismissRemove(d)
    BY <2>2, <2>3, RegistryAssumption DEF Removed, Housekeeper
  <2> QED BY <2>3, <2>4 DEF DismissRemove, Housekeeper
<1> QED BY <1>1, <1>2, <1>3, PTL DEF Spec, EvidenceStays

-----------------------------------------------------------------------------
(* What was appended stays.  A hook that wrote is on the record of its own *)
(* round or the record is gone; a wrapper that wrote rc= reads as finished.*)
HooksStarted ==
  \A h \in Hook : hook[h] # "fresh" => at[hookRun[h]] \notin {"idle", "probe", "publish"}

RevealStays ==
  \A h \in Hook : hook[h] = "wrote" /\ Mine(hookRun[h]) => hookPath[h] \in Said(file[target(h)])

OutcomeStays ==
  \A r \in Round : at[r] \in {"rc", "over"} /\ Mine(r) => file[id(r)].rc

(* On a name where no two hooks have decided on trail= together, at most    *)
(* one is about to write it, there is none yet when it does, and so there   *)
(* is never more than one.                                                  *)
Deciding(h, i) == hook[h] = "trail" /\ target(h) = i

OneDecides(i) ==
  /\ \A g, h \in Hook : Deciding(g, i) /\ Deciding(h, i) => g = h
  /\ \A h \in Hook : Deciding(h, i) /\ readable(i) => file[i].trail = <<>>
  /\ readable(i) => Len(file[i].trail) <= 1

AppendInv ==
  /\ NameInv /\ HooksStarted /\ RevealStays /\ OutcomeStays
  /\ \A i \in Id : i \in overlap \cup Shaky \/ OneDecides(i)

LEMMA AppendInit == Init => AppendInv
<1> SUFFICES ASSUME Init PROVE AppendInv
  OBVIOUS
<1>1. NameInv
  BY InitTyped
<1>2. HooksStarted /\ RevealStays
  BY DEF Init, HooksStarted, RevealStays
<1>3. OutcomeStays
  BY DEF Init, OutcomeStays
<1>4. \A i \in Id : OneDecides(i)
  BY DEF Init, OneDecides, Deciding, readable
<1> QED BY <1>1, <1>2, <1>3, <1>4 DEF AppendInv

(* A hook moves by its own two steps. *)
LEMMA HookStep ==
  ASSUME TypeOK, Next, NEW h \in Hook, hook'[h] # hook[h]
  PROVE  RevealRead(h) \/ RevealWrite(h)
<1> USE DEF hookVars
<1>1. ASSUME NEW r \in Round, Wrapper(r) PROVE hook' = hook
  BY <1>1 DEF Wrapper, Launch, NextSuffix, Probed, Publish, StartPrune,
     StartPruned, FinishOpen, FinishRc, FinishedAt, Die
<1>2. ASSUME NEW g \in Prunes, Prune(g) PROVE hook' = hook
  BY <1>2 DEF Prune, PruneLook, PruneRemove
<1>3. ASSUME NEW g \in Hook, RevealRead(g) \/ RevealWrite(g), g # h PROVE hook'[h] = hook[h]
  BY <1>3 DEF RevealRead, RevealWrite, TypeOK
<1> QED BY <1>1, <1>2, <1>3 DEF Next, Tick, CmdPrune, CmdPruned, CmdDismiss, DismissRemove

(* Whatever happens to a round's name once the round has it, what is still *)
(* its own was its own and has lost nothing.                               *)
LEMMA StillMine ==
  ASSUME TypeOK, Next, NEW r \in Round, at[r] \notin {"idle", "probe", "publish"}, Mine(r)'
  PROVE  /\ id(r)' = id(r) /\ id(r) \in Id /\ Mine(r)
         /\ Said(file[id(r)]) \subseteq Said(file'[id(r)])
         /\ file[id(r)].rc => file'[id(r)].rc
<1>1. TypeOK'
  BY NextTyped
<1>2. id(r)' = id(r) /\ id(r) \in Id
  BY WrapperStep, IdTyped
<1>3. readable(id(r))' /\ file'[id(r)].round = r
  BY <1>2 DEF Mine, readable
<1>4. ~Published(id(r))
  BY <1>3 DEF Published, Publish, Goto
<1>5. ~Removed(id(r))
  BY <1>2, <1>3 DEF Removed, readable
<1>6. CASE Untouched(id(r))
  BY <1>2, <1>3, <1>6 DEF Untouched, Mine, readable
<1>7. CASE Appended(id(r))
  BY <1>2, <1>3, <1>7 DEF Appended, Mine
<1> QED BY <1>1, <1>2, <1>4, <1>5, <1>6, <1>7, FileStep

(* A wrapper gets to the end of its record by the two steps of finish. *)
LEMMA OutcomeStep ==
  ASSUME TypeOK, Next, NEW r \in Round, at[r] \notin {"rc", "over"}, at'[r] \in {"rc", "over"}
  PROVE  FinishOpen(r) \/ FinishRc(r)
<1>t. at \in [Round -> Working \cup {"idle", "over", "dead", "orphaned"}]
  BY DEF TypeOK
<1>1. ASSUME NEW q \in Round, Wrapper(q), q # r PROVE at'[r] = at[r]
  BY <1>1, <1>t DEF Wrapper, Launch, NextSuffix, Probed, Publish, StartPrune,
     StartPruned, FinishOpen, FinishRc, FinishedAt, Die, Goto
<1>2. CASE Wrapper(r)
  BY <1>2, <1>t DEF Wrapper, Launch, NextSuffix, Probed, Publish, StartPrune,
     StartPruned, FinishedAt, Die, Goto
<1>3. CASE ~\E q \in Round : Wrapper(q)
  BY <1>3 DEF Next, Tick, Prune, PruneLook, PruneRemove, CmdPrune, CmdPruned,
     CmdDismiss, DismissRemove, RevealRead, RevealWrite
<1> QED BY <1>1, <1>2, <1>3

(* A hook that is about to write trail= was so before, or has just read;   *)
(* in both cases its name stands.                                           *)
LEMMA DecidingStep ==
  ASSUME AppendInv, Next, NEW h \in Hook, hook'[h] = "trail"
  PROVE  /\ target(h)' = target(h) /\ target(h) \in Id
         /\ hook[h] = "trail" \/ RevealRead(h)
<1>1. TypeOK /\ HooksStarted /\ hookRun[h] \in Round
  BY RegistryAssumption DEF AppendInv, NameInv
<1>2. hook[h] = "trail" \/ RevealRead(h)
  BY <1>1, HookStep DEF RevealWrite, TypeOK
<1>3. CASE hook[h] = "trail"
  BY <1>1, <1>2, <1>3, WrapperStep, IdTyped DEF HooksStarted, target
<1>4. CASE RevealRead(h)
  BY <1>1, <1>2, <1>4, IdTyped DEF RevealRead, launchVars, target, id
<1> QED BY <1>2, <1>3, <1>4

LEMMA OverlapGrows == TypeOK /\ Next => overlap \subseteq overlap'
<1> SUFFICES ASSUME TypeOK, Next PROVE overlap \subseteq overlap'
  OBVIOUS
<1> USE DEF hookVars
<1>1. ASSUME NEW r \in Round, Wrapper(r) PROVE overlap' = overlap
  BY <1>1 DEF Wrapper, Launch, NextSuffix, Probed, Publish, StartPrune,
     StartPruned, FinishOpen, FinishRc, FinishedAt, Die
<1>2. ASSUME NEW g \in Prunes, Prune(g) PROVE overlap' = overlap
  BY <1>2 DEF Prune, PruneLook, PruneRemove
<1>3. ASSUME NEW h \in Hook, RevealRead(h) PROVE overlap \subseteq overlap'
  BY <1>3 DEF RevealRead
<1> QED BY <1>1, <1>2, <1>3 DEF Next, Tick, CmdPrune, CmdPruned, CmdDismiss, DismissRemove,
        RevealWrite

LEMMA OneDecidesStep ==
  ASSUME AppendInv, Next, NEW i \in Id, i \notin overlap' \cup Shaky
  PROVE  OneDecides(i)'
<1>1. TypeOK /\ TypeOK' /\ OneDecides(i)
  BY NextTyped, OverlapGrows DEF AppendInv, NameInv
<1>2. ASSUME NEW h \in Hook, Deciding(h, i)'
      PROVE  target(h) = i /\ (Deciding(h, i) \/ RevealRead(h))
  BY <1>2, DecidingStep DEF Deciding
<1>3. ASSUME NEW g \in Hook, NEW h \in Hook, Deciding(g, i)', Deciding(h, i)', g # h
      PROVE  FALSE
  <2>1. ASSUME NEW x \in Hook, NEW y \in Hook, x # y, RevealRead(x), hook'[x] = "trail",
               hook'[y] = "trail", target(x) = i, target(y) = i
        PROVE  FALSE
    <3>1. hook[y] = "trail"
      BY <1>1, <2>1 DEF RevealRead, TypeOK
    <3>2. i \in overlap'
      BY <1>1, <2>1, <3>1 DEF RevealRead, TypeOK
    <3> QED BY <3>2
  <2>2. target(g) = i /\ target(h) = i /\ hook'[g] = "trail" /\ hook'[h] = "trail"
    BY <1>2, <1>3 DEF Deciding
  <2>3. Deciding(g, i) /\ Deciding(h, i)
    BY <1>2, <1>3, <2>1, <2>2
  <2> QED BY <1>1, <1>3, <2>3 DEF OneDecides
<1>4. ASSUME NEW h \in Hook, Retold(i, h), readable(i)
      PROVE  file[i].trail = <<>> /\ hook'[h] # "trail"
  <2>1. Deciding(h, i)
    BY <1>4 DEF Retold, Deciding
  <2> QED BY <1>1, <1>4, <2>1 DEF OneDecides, Retold, RevealWrite, TypeOK
<1>5. ASSUME NEW h \in Hook, Deciding(h, i)', readable(i)' PROVE file'[i].trail = <<>>
  <2>1. target(h) = i /\ hook'[h] = "trail"
    BY <1>2, <1>5 DEF Deciding
  <2>2. CASE RevealRead(h)
    <3>1. file' = file
      BY <2>2 DEF RevealRead
    <3>2. hook'[h] \in Decisions(h)
      BY <1>1, <2>2 DEF RevealRead, TypeOK
    <3>3. Decision(h) = "trail"
      BY <2>1, <3>2 DEF Decisions
    <3> QED BY <2>1, <3>1, <3>3 DEF Decision, Revealed
  <2>3. CASE Deciding(h, i)
    <3>1. CASE Untouched(i)
      BY <1>1, <1>5, <2>3, <3>1 DEF OneDecides, Untouched, readable
    <3>2. CASE Published(i)
      BY <3>2 DEF Published
    <3>3. CASE Removed(i)
      BY <1>5, <3>3 DEF Removed, readable
    <3>4. CASE Appended(i)
      <4>1. ASSUME NEW g \in Hook, Retold(i, g) PROVE FALSE
        <5>1. readable(i) /\ Deciding(g, i)
          BY <3>4, <4>1 DEF Appended, Retold, Deciding
        <5>2. g = h
          BY <1>1, <2>3, <5>1 DEF OneDecides
        <5> QED BY <1>4, <2>1, <4>1, <5>1, <5>2
      <4>2. file'[i].trail = file[i].trail /\ readable(i)
        BY <3>4, <4>1 DEF Appended
      <4> QED BY <1>1, <2>3, <4>2 DEF OneDecides
    <3> QED BY <1>1, <3>1, <3>2, <3>3, <3>4, FileStep
  <2> QED BY <1>2, <1>5, <2>2, <2>3
<1>6. ASSUME readable(i)' PROVE Len(file'[i].trail) <= 1
  <2>1. CASE Untouched(i)
    BY <1>1, <1>6, <2>1 DEF OneDecides, Untouched, readable
  <2>2. CASE Published(i)
    BY <2>2 DEF Published
  <2>3. CASE Removed(i)
    BY <1>6, <2>3 DEF Removed, readable
  <2>4. CASE Appended(i)
    <3>1. ASSUME NEW g \in Hook, Retold(i, g) PROVE Len(file'[i].trail) <= 1
      <4>1. file[i].trail = <<>>
        BY <1>4, <2>4, <3>1 DEF Appended
      <4>2. file'[i].trail = Append(<<>>, hookPath[g])
        BY <3>1, <4>1 DEF Retold
      <4> QED BY <4>2
    <3>2. CASE file'[i].trail = file[i].trail
      BY <1>1, <2>4, <3>2 DEF Appended, OneDecides
    <3> QED BY <2>4, <3>1, <3>2 DEF Appended
  <2> QED BY <1>1, <2>1, <2>2, <2>3, <2>4, FileStep
<1> QED BY <1>3, <1>5, <1>6 DEF OneDecides

LEMMA AppendNext == AppendInv /\ [Next]_vars => AppendInv'
<1> SUFFICES ASSUME AppendInv, Next PROVE AppendInv'
  <2>1. CASE UNCHANGED vars
    BY <2>1, NextNames DEF vars, AppendInv, HooksStarted, RevealStays, OutcomeStays, OneDecides,
       Deciding, Mine, readable, id, target, Said
  <2> QED BY <2>1
<1>1. NameInv' /\ TypeOK /\ TypeOK'
  BY NextNames DEF AppendInv, NameInv
<1>r. \A h \in Hook : hookRun[h] \in Round
  BY RegistryAssumption
<1>2. HooksStarted'
  <2> SUFFICES ASSUME NEW h \in Hook, hook'[h] # "fresh"
               PROVE  at'[hookRun[h]] \notin {"idle", "probe", "publish"}
    BY DEF HooksStarted
  <2>1. CASE hook[h] = "fresh"
    <3>1. RevealRead(h)
      BY <1>1, <2>1, HookStep DEF RevealWrite
    <3> QED BY <3>1 DEF RevealRead
  <2>2. CASE hook[h] # "fresh"
    BY <1>1, <1>r, <2>2, WrapperStep DEF AppendInv, HooksStarted
  <2> QED BY <2>1, <2>2
<1>3. RevealStays'
  <2> SUFFICES ASSUME NEW h \in Hook, hook'[h] = "wrote", Mine(hookRun[h])'
               PROVE  hookPath[h] \in Said(file'[target(h)'])
    BY DEF RevealStays, Said
  <2>1. CASE hook[h] = "wrote"
    <3>1. at[hookRun[h]] \notin {"idle", "probe", "publish"}
      BY <2>1 DEF AppendInv, HooksStarted
    <3>2. /\ id(hookRun[h])' = id(hookRun[h]) /\ Mine(hookRun[h])
          /\ Said(file[id(hookRun[h])]) \subseteq Said(file'[id(hookRun[h])])
      BY <1>1, <1>r, <3>1, StillMine
    <3> QED BY <2>1, <3>2 DEF AppendInv, RevealStays, target
  <2>2. CASE hook[h] # "wrote"
    <3>r. ~RevealRead(h)
      BY <1>1, <2>2 DEF RevealRead, Decisions, Decision, TypeOK
    <3>1. RevealWrite(h) /\ hook[h] # "fresh"
      BY <1>1, <2>2, <3>r, HookStep DEF RevealWrite
    <3>2. readable(target(h)) /\ UNCHANGED launchVars
      BY <1>1, <2>2, <3>1 DEF RevealWrite, TypeOK
    <3>3. target(h)' = target(h)
      BY <3>2 DEF launchVars, hookVars, target, id
    <3>4. target(h) \in Id /\ file[target(h)] \in Record
      BY <1>1, <1>r, <3>1, <3>2, IdTyped, ReadableTyped DEF target, TypeOK
    <3>5. file'[target(h)] = WithReveal(file[target(h)], hook[h], hookPath[h])
      BY <1>1, <3>1, <3>2, <3>4 DEF RevealWrite, TypeOK
    <3>6. Said(WithReveal(file[target(h)], hook[h], hookPath[h])) = Said(file[target(h)]) \cup {hookPath[h]}
      BY <3>4, RevealSaid
    <3> DEFINE new == WithReveal(file[target(h)], hook[h], hookPath[h])
    <3>7. hookPath[h] \in Said(new) /\ file'[target(h)'] = new
      BY <3>3, <3>5, <3>6
    <3> HIDE DEF new
    <3> QED BY <3>7
  <2> QED BY <2>1, <2>2
<1>4. OutcomeStays'
  <2> SUFFICES ASSUME NEW r \in Round, at'[r] \in {"rc", "over"}, Mine(r)'
               PROVE  file'[id(r)'].rc
    BY DEF OutcomeStays
  <2>1. CASE at[r] \in {"rc", "over"}
    BY <1>1, <2>1, StillMine DEF AppendInv, OutcomeStays
  <2>2. CASE at[r] \notin {"rc", "over"}
    <3>1. FinishOpen(r) \/ FinishRc(r)
      BY <1>1, <2>2, OutcomeStep
    <3>2. id(r)' = id(r) /\ at[r] \in {"run", "open"}
      BY <3>1 DEF FinishOpen, FinishRc, Goto, launchVars, hookVars, id
    <3>3. id(r) \in Id /\ Mine(r)
      BY <1>1, <3>2, StillMine
    <3>4. FinishRc(r)
      BY <1>1, <3>1, <3>3 DEF FinishOpen, Mine, readable, TypeOK
    <3>5. file[id(r)] \in Record
      BY <1>1, <3>3, ReadableTyped DEF Mine
    <3>6. file'[id(r)] = [file[id(r)] EXCEPT !.rc = TRUE]
      BY <1>1, <3>3, <3>4 DEF FinishRc, WriteRc, TypeOK
    <3> QED BY <3>2, <3>5, <3>6 DEF Record
  <2> QED BY <2>1, <2>2
<1>5. \A i \in Id : i \in overlap' \cup Shaky \/ OneDecides(i)'
  BY OneDecidesStep
<1> QED BY <1>1, <1>2, <1>3, <1>4, <1>5 DEF AppendInv

(* One line that names a path is the record's answer. *)
LEMMA OneLineAnswers ==
  ASSUME NEW rec \in Record, NEW path \in Path, Len(rec.trail) <= 1, path \in Ran(rec.trail)
  PROVE  Answers(rec, path)
<1>1. rec.trail \in Seq(Path)
  BY DEF Record
<1>2. PICK k \in 1..Len(rec.trail) : rec.trail[k] = path
  BY <1>1 DEF Ran
<1>3. k = Len(rec.trail) /\ rec.trail # <<>>
  BY <1>1, <1>2
<1> QED BY <1>2, <1>3 DEF Answers

(* What a hook or finish appended stays on the record, in whatever order   *)
(* they append and whatever the housekeepers do to the other names; and a  *)
(* path a hook revealed is the answer or a conflict, unless two hooks had  *)
(* both read before either appended, or a read of the record failed.       *)
THEOREM AppendsStay == Spec => []AppendsSurvive
<1>1. AppendInv => AppendsSurvive
  <2> SUFFICES ASSUME AppendInv PROVE AppendsSurvive
    OBVIOUS
  <2>1. ASSUME NEW h \in Hook, hook[h] = "wrote", Mine(hookRun[h])
        PROVE  LET rec == file[target(h)]
               IN /\ hookPath[h] \in Ran(rec.trail) \cup rec.conflict
                  /\ \/ target(h) \in overlap \cup Shaky
                     \/ Answers(rec, hookPath[h]) \/ hookPath[h] \in rec.conflict
    <3>1. TypeOK /\ hookRun[h] \in Round /\ hookPath[h] \in Path /\ readable(target(h))
      BY <2>1, RegistryAssumption DEF AppendInv, NameInv, Mine, target
    <3>2. target(h) \in Id /\ file[target(h)] \in Record
      BY <2>1, <3>1, IdTyped, ReadableTyped DEF TypeOK, target
    <3>3. hookPath[h] \in Said(file[target(h)])
      BY <2>1 DEF AppendInv, RevealStays
    <3>4. target(h) \in overlap \cup Shaky \/ Len(file[target(h)].trail) <= 1
      BY <3>1, <3>2 DEF AppendInv, OneDecides
    <3> QED BY <3>1, <3>2, <3>3, <3>4, OneLineAnswers DEF Said
  <2> QED BY <2>1 DEF AppendInv, OutcomeStays, AppendsSurvive
<1> QED BY AppendInit, AppendNext, <1>1, PTL DEF Spec
=============================================================================
