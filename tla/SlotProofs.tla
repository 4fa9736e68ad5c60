----------------------------- MODULE SlotProofs -----------------------------
(***************************************************************************)
(* The slot tool's lock protocol, proved for every number of processes,    *)
(* pools and budgets.  The argument is one injection: a process that runs  *)
(* on a slot owns the file its idx names, that index is below its budget,  *)
(* and a file has one owner, so the callers of a pool with budget at most  *)
(* k own distinct files among 0..k-1.                                      *)
(***************************************************************************)
EXTENDS Slot, FiniteSetTheorems, TLAPS

(* The stages in which a process on a slot has the lock. *)
Holding == {"locked", "start", "run", "truncate", "close"}

(* The process is on a slot. *)
On(p) == mode[p] = "slot" /\ pc[p] \in Holding

(* A process on a slot owns the file its index names ... *)
OwnsItsFile ==
  \A p \in Proc : On(p) => idx[p] \in 0..(budget[p] - 1) /\ ex[pool[p]][idx[p]] = p

(* ... and nothing else. *)
OwnsNothingElse ==
  \A l \in Pool, i \in Index : \A p \in Proc :
    ex[l][i] = p => On(p) /\ l = pool[p] /\ i = idx[p]

(* How the stages, the mode and the command of a process go together. *)
Stage(p) ==
  /\ pc[p] \in {"idle", "try", "poll"} => mode[p] = "none"
  /\ pc[p] \in {"locked", "truncate", "close"} => mode[p] = "slot"
  /\ cmd[p] = "running" => pc[p] \in {"run", "killed"}
  /\ cmd[p] # "none" => pc[p] \in {"run", "truncate", "close", "done", "killed"}

StageOK == \A p \in Proc : Stage(p)

(* The holder record: written before the command starts, emptied before    *)
(* the lock goes.                                                          *)
RecordOK ==
  /\ \A p \in Proc :
       /\ mode[p] = "slot" /\ pc[p] \in {"start", "run", "truncate"}
            => rec[pool[p]][idx[p]] = p
       /\ pc[p] = "close" => rec[pool[p]][idx[p]] = NoProc
  /\ RecordNamesHolder

LockInv == TypeOK /\ OwnsItsFile /\ OwnsNothingElse /\ StageOK

IInv == LockInv /\ RecordOK

-----------------------------------------------------------------------------
LEMMA InitTyped == Init => TypeOK
  BY SlotAssumption DEF Init, TypeOK, Locations, Index

(* Each step keeps the shapes of the state. *)
LEMMA NextTyped == TypeOK /\ [Next]_vars => TypeOK'
<1> SUFFICES ASSUME TypeOK, [Next]_vars PROVE TypeOK'
  OBVIOUS
<1> USE SlotAssumption DEF TypeOK, Locations, Index, procVars, probeVars, Goto
<1>1. ASSUME NEW p \in Proc, Begin(p) PROVE TypeOK'
  <2>1. heldEnv(p) \in SUBSET Pool
    BY DEF heldEnv
  <2>2. CASE Through(p) BY <2>1, <2>2 DEF Through
  <2>3. CASE Acquire(p) BY <2>1, <2>3 DEF Acquire
  <2>4. CASE Refuse(p)  BY <2>4 DEF Refuse
  <2> QED BY <1>1, <2>2, <2>3, <2>4 DEF Begin
<1>2. ASSUME NEW p \in Proc, Step(p) PROVE TypeOK'
  <2>1. CASE TakeFile(p)    BY <2>1 DEF TakeFile
  <2>2. CASE SkipFile(p)    BY <2>2 DEF SkipFile
  <2>3. CASE PassFailed(p)
    <3>1. CASE waited[p]
      BY <2>3, <3>1 DEF PassFailed
    <3>2. CASE ~waited[p]
      <4>1. registerWaiter(p)
        BY <2>3, <3>2 DEF PassFailed
      <4>2. waiter' \in [Pool -> SUBSET Proc]
        BY <4>1 DEF registerWaiter
      <4> QED BY <2>3, <3>2, <4>2 DEF PassFailed
    <3> QED BY <3>1, <3>2
  <2>4. CASE Poll(p)        BY <2>4 DEF Poll
  <2>5. CASE GiveUp(p)      BY <2>5 DEF GiveUp, Unregister
  <2>6. CASE WriteRecord(p)
    <3>1. rec' \in [Pool -> [Index -> Proc \cup {NoProc}]]
      BY <2>6 DEF WriteRecord
    <3>2. pc' \in [Proc -> Locations] /\ env' \in [Proc -> SUBSET Pool]
      BY <2>6 DEF WriteRecord
    <3>3. waiter' \in [Pool -> SUBSET Proc]
      BY <2>6 DEF WriteRecord, Unregister
    <3> QED BY <2>6, <3>1, <3>2, <3>3 DEF WriteRecord
  <2>7. CASE StartCommand(p) BY <2>7 DEF StartCommand
  <2>8. CASE Forward(p)     BY <2>8 DEF Forward
  <2>9. CASE CommandReaped(p) BY <2>9 DEF CommandReaped, afterCommand
  <2>10. CASE Truncate(p)   BY <2>10 DEF Truncate
  <2>11. CASE Close(p)      BY <2>11 DEF Close
  <2> QED
    BY <1>2, <2>1, <2>2, <2>3, <2>4, <2>5, <2>6, <2>7, <2>8, <2>9, <2>10, <2>11
       DEF Step
<1>3. ASSUME NEW p \in Proc, CommandExits(p) PROVE TypeOK'
  BY <1>3 DEF CommandExits
<1>4. ASSUME NEW p \in Proc, FailOpen(p) PROVE TypeOK'
  BY <1>4 DEF FailOpen, Unregister
<1>5. ASSUME NEW p \in Proc, CannotRun(p) PROVE TypeOK'
  BY <1>5 DEF CannotRun, afterCommand
<1>6. ASSUME NEW p \in Proc, Signal(p) PROVE TypeOK'
  BY <1>6 DEF Signal
<1>7. ASSUME NEW p \in Proc, Sigkill(p) PROVE TypeOK'
  BY <1>7 DEF Sigkill
<1>8. ASSUME NEW q \in Prober, Probe(q) PROVE TypeOK'
  <2>1. CASE ProbeFree(q)  BY <2>1 DEF ProbeFree
  <2>2. CASE ProbeHeld(q)  BY <2>2 DEF ProbeHeld
  <2>3. CASE ProbeClose(q) BY <2>3 DEF ProbeClose
  <2> QED BY <1>8, <2>1, <2>2, <2>3 DEF Probe
<1>9. CASE UNCHANGED vars
  BY <1>9 DEF vars
<1> QED
  BY <1>1, <1>2, <1>3, <1>4, <1>5, <1>6, <1>7, <1>8, <1>9 DEF Next

(* The tool's state is well typed in every reachable state. *)
THEOREM TypeCorrect == Spec => []TypeOK
  BY InitTyped, NextTyped, PTL DEF Spec

-----------------------------------------------------------------------------
LEMMA InitInv == Init => IInv
  BY SlotAssumption, InitTyped
     DEF Init, IInv, LockInv, OwnsItsFile, OwnsNothingElse, StageOK, RecordOK,
         RecordNamesHolder, Stage, On, Holding, Index

(* What a step of one process leaves alone in the others. *)
Others(p) ==
  \A r \in Proc \ {p} :
    pc'[r] = pc[r] /\ idx'[r] = idx[r] /\ mode'[r] = mode[r] /\ cmd'[r] = cmd[r]

LEMMA OnlyOneMoves ==
  ASSUME TypeOK, NEW p \in Proc,
         \/ Begin(p) \/ Step(p) \/ CommandExits(p)
         \/ FailOpen(p) \/ CannotRun(p) \/ Signal(p) \/ Sigkill(p)
  PROVE  Others(p)
  BY DEF TypeOK, Others, Begin, Through, Acquire, Refuse, Step, TakeFile, SkipFile,
         PassFailed, Poll, GiveUp, WriteRecord, StartCommand, Forward,
         CommandReaped, Truncate, Close, CommandExits, FailOpen, CannotRun,
         Signal, Sigkill, Goto, procVars

(* A step that moves no lock, of a process that stays on its slot or off   *)
(* it, keeps the protocol.                                                 *)
LEMMA KeepLock ==
  ASSUME LockInv, TypeOK', NEW p \in Proc, Others(p), ex' = ex,
         On(p)' <=> On(p), On(p) => idx'[p] = idx[p], Stage(p)'
  PROVE  LockInv'
<1>1. \A r \in Proc : (On(r)' <=> On(r)) /\ (On(r) => idx'[r] = idx[r])
  BY DEF Others, On
<1>2. OwnsItsFile'
  BY <1>1 DEF LockInv, OwnsItsFile
<1>3. OwnsNothingElse'
  BY <1>1 DEF LockInv, OwnsNothingElse
<1>4. StageOK'
  BY DEF LockInv, StageOK, Stage, Others
<1> QED BY <1>2, <1>3, <1>4 DEF LockInv

(* Taking a free file whose index is below the budget keeps the protocol. *)
LEMMA TakeLock ==
  ASSUME LockInv, TypeOK', NEW p \in Proc, TakeFile(p)
  PROVE  LockInv'
<1>1. Others(p)
  BY OnlyOneMoves DEF LockInv, Step
<1>2. /\ pool[p] \in Pool /\ idx[p] \in Index /\ idx[p] \in 0..(budget[p] - 1)
      /\ idx' = idx
  <2>1. pool[p] \in Pool /\ budget[p] \in 1..MaxFiles /\ idx[p] \in 0..MaxFiles
    BY SlotAssumption DEF LockInv, TypeOK
  <2>2. idx[p] < budget[p] /\ idx' = idx
    BY DEF TakeFile
  <2> QED BY <2>1, <2>2, SlotAssumption DEF Index
<1>3. ex[pool[p]][idx[p]] = NoProc /\ ~On(p) /\ On(p)'
  BY DEF LockInv, TypeOK, StageOK, Stage, TakeFile, Lockable, On, Goto, Holding
<1>4. \A l \in Pool, i \in Index :
        ex'[l][i] = IF l = pool[p] /\ i = idx[p] THEN p ELSE ex[l][i]
  BY <1>2 DEF LockInv, TypeOK, TakeFile
<1>5. \A r \in Proc \ {p} : On(r)' <=> On(r)
  BY <1>1 DEF Others, On
<1>6. OwnsItsFile'
  <2> SUFFICES ASSUME NEW r \in Proc, On(r)'
               PROVE  idx[r] \in 0..(budget[r] - 1) /\ ex'[pool[r]][idx[r]] = r
    BY <1>2 DEF OwnsItsFile
  <2>1. CASE r = p
    BY <2>1, <1>2, <1>4
  <2>2. CASE r # p
    <3>1. idx[r] \in 0..(budget[r] - 1) /\ ex[pool[r]][idx[r]] = r
      BY <2>2, <1>5 DEF LockInv, OwnsItsFile
    <3>2. pool[r] \in Pool /\ idx[r] \in Index
      BY <3>1, SlotAssumption DEF Index
    <3> QED BY <3>1, <3>2, <1>3, <1>4, SlotAssumption
  <2> QED BY <2>1, <2>2
<1>7. OwnsNothingElse'
  BY <1>2, <1>3, <1>4, <1>5 DEF LockInv, OwnsNothingElse
<1>8. StageOK'
  BY <1>1 DEF LockInv, StageOK, Stage, Others, TakeFile, Goto, TypeOK
<1> QED BY <1>6, <1>7, <1>8 DEF LockInv

(* So does leaving the slot: the process owns one file, and frees it. *)
LEMMA DropLock ==
  ASSUME LockInv, TypeOK', NEW p \in Proc, Others(p), idx' = idx, ~On(p)', Stage(p)',
         \A l \in Pool, i \in Index :
           ex'[l][i] = IF ex[l][i] = p THEN NoProc ELSE ex[l][i]
  PROVE  LockInv'
<1>1. \A r \in Proc \ {p} : On(r)' <=> On(r)
  BY DEF Others, On
<1>2. OwnsItsFile'
  <2> SUFFICES ASSUME NEW r \in Proc, On(r)'
               PROVE  idx[r] \in 0..(budget[r] - 1) /\ ex'[pool[r]][idx[r]] = r
    BY DEF OwnsItsFile
  <2>1. r # p /\ On(r)
    BY <1>1
  <2>2. idx[r] \in 0..(budget[r] - 1) /\ ex[pool[r]][idx[r]] = r
    BY <2>1 DEF LockInv, OwnsItsFile
  <2>3. pool[r] \in Pool /\ idx[r] \in Index
    BY <2>2, SlotAssumption DEF Index
  <2> QED BY <2>1, <2>2, <2>3
<1>3. OwnsNothingElse'
  BY <1>1, SlotAssumption DEF LockInv, OwnsNothingElse
<1>4. StageOK'
  BY DEF LockInv, StageOK, Stage, Others
<1> QED BY <1>2, <1>3, <1>4 DEF LockInv

(* The lock protocol is inductive, whatever the interleaving of passes,    *)
(* probes, failures and kills.                                             *)
LEMMA NextLock == LockInv /\ [Next]_vars => LockInv'
<1> SUFFICES ASSUME LockInv, [Next]_vars PROVE LockInv'
  OBVIOUS
<1>0. TypeOK /\ TypeOK'
  BY NextTyped DEF LockInv
<1>1. ASSUME NEW p \in Proc, ex' = ex, Others(p), On(p)' <=> On(p),
             On(p) => idx'[p] = idx[p], Stage(p)'
      PROVE  LockInv'
  BY <1>0, <1>1, KeepLock
<1>2. ASSUME NEW p \in Proc, Begin(p) \/ FailOpen(p) \/ Signal(p) \/ CommandExits(p)
      PROVE  LockInv'
  <2>1. Others(p)
    BY <1>0, <1>2, OnlyOneMoves
  <2>2. ex' = ex /\ (On(p)' <=> On(p)) /\ (On(p) => idx'[p] = idx[p]) /\ Stage(p)'
    BY <1>0, <1>2 DEF LockInv, StageOK, Stage, On, Holding, TypeOK, Begin, Through,
       Acquire, Refuse, FailOpen, Signal, CommandExits, Goto, procVars
  <2> QED BY <1>1, <2>1, <2>2
<1>3. ASSUME NEW p \in Proc, CannotRun(p) \/ CommandReaped(p)
      PROVE  LockInv'
  <2>1. Others(p)
    BY <1>0, <1>3, OnlyOneMoves DEF Step
  <2>2. ex' = ex /\ (On(p)' <=> On(p)) /\ (On(p) => idx'[p] = idx[p]) /\ Stage(p)'
    BY <1>0, <1>3 DEF LockInv, StageOK, Stage, On, Holding, TypeOK, CannotRun,
       CommandReaped, afterCommand, Goto
  <2> QED BY <1>1, <2>1, <2>2
<1>4. ASSUME NEW p \in Proc,
             \/ SkipFile(p) \/ PassFailed(p) \/ Poll(p) \/ GiveUp(p) \/ WriteRecord(p)
             \/ StartCommand(p) \/ Forward(p) \/ Truncate(p)
      PROVE  LockInv'
  <2>1. Others(p)
    BY <1>0, <1>4, OnlyOneMoves DEF Step
  <2>2. ex' = ex /\ (On(p)' <=> On(p)) /\ (On(p) => idx'[p] = idx[p]) /\ Stage(p)'
    BY <1>0, <1>4 DEF LockInv, StageOK, Stage, On, Holding, TypeOK, SkipFile,
       PassFailed, Poll, GiveUp, WriteRecord, StartCommand, Forward, Truncate, Goto
  <2> QED BY <1>1, <2>1, <2>2
<1>5. ASSUME NEW p \in Proc, TakeFile(p) PROVE LockInv'
  BY <1>0, <1>5, TakeLock
<1>6. ASSUME NEW p \in Proc, Close(p) PROVE LockInv'
  <2>1. Others(p)
    BY <1>0, <1>6, OnlyOneMoves DEF Step
  <2>2. idx' = idx /\ ~On(p)' /\ On(p) /\ Stage(p)'
    BY <1>0, <1>6 DEF LockInv, StageOK, Stage, On, Holding, TypeOK, Close, Goto
  <2>3. idx[p] \in 0..(budget[p] - 1) /\ ex[pool[p]][idx[p]] = p
    BY <2>2 DEF LockInv, OwnsItsFile
  <2>4. pool[p] \in Pool /\ idx[p] \in Index
    BY <2>3, SlotAssumption DEF Index
  <2>5. \A l \in Pool, i \in Index :
          ex'[l][i] = IF l = pool[p] /\ i = idx[p] THEN NoProc ELSE ex[l][i]
    BY <1>0, <1>6, <2>4 DEF Close, TypeOK
  <2>6. \A l \in Pool, i \in Index : ex[l][i] = p <=> l = pool[p] /\ i = idx[p]
    BY <2>3 DEF LockInv, OwnsNothingElse
  <2> QED BY <1>0, <2>1, <2>2, <2>5, <2>6, DropLock
<1>7. ASSUME NEW p \in Proc, Sigkill(p) PROVE LockInv'
  <2>1. Others(p)
    BY <1>0, <1>7, OnlyOneMoves
  <2>2. idx' = idx /\ ~On(p)' /\ Stage(p)'
    BY <1>0, <1>7 DEF LockInv, StageOK, Stage, On, Holding, TypeOK, Sigkill
  <2>3. \A l \in Pool, i \in Index :
          ex'[l][i] = IF ex[l][i] = p THEN NoProc ELSE ex[l][i]
    BY <1>7 DEF Sigkill
  <2> QED BY <1>0, <2>1, <2>2, <2>3, DropLock
<1>8. ASSUME UNCHANGED <<pc, idx, ex, mode, cmd>> PROVE LockInv'
  BY <1>0, <1>8 DEF LockInv, OwnsItsFile, OwnsNothingElse, StageOK, Stage, On
<1>9. ASSUME NEW q \in Prober, Probe(q) PROVE LockInv'
  BY <1>8, <1>9 DEF Probe, ProbeFree, ProbeHeld, ProbeClose, procVars
<1>10. CASE UNCHANGED vars
  BY <1>8, <1>10 DEF vars
<1> QED
  BY <1>2, <1>3, <1>4, <1>5, <1>6, <1>7, <1>9, <1>10 DEF Next, Step

(* A process on a slot has its file inside the pool. *)
LEMMA OnOwns ==
  ASSUME LockInv, NEW p \in Proc, On(p)
  PROVE  pool[p] \in Pool /\ idx[p] \in Index /\ ex[pool[p]][idx[p]] = p
<1>1. idx[p] \in 0..(budget[p] - 1) /\ ex[pool[p]][idx[p]] = p
  BY DEF LockInv, OwnsItsFile
<1> QED BY <1>1, SlotAssumption DEF Index

(* The holder record follows the lock: it is written before the command    *)
(* starts and emptied before the file is closed.                           *)
LEMMA NextRecord == IInv /\ [Next]_vars => RecordOK'
<1> SUFFICES ASSUME IInv, [Next]_vars PROVE RecordOK'
  OBVIOUS
<1>0. LockInv /\ LockInv' /\ RecordOK /\ TypeOK /\ TypeOK'
  BY NextLock DEF IInv, LockInv
<1>a. \A p \in Proc : Stage(p) /\ Stage(p)'
  BY <1>0 DEF LockInv, StageOK
<1>1. ASSUME NEW p \in Proc, Others(p), rec' = rec, ex' = ex,
             pc'[p] \in {"start", "run", "truncate"} /\ mode'[p] = "slot" =>
               pc[p] \in {"start", "run", "truncate"} /\ mode[p] = "slot" /\ idx'[p] = idx[p],
             pc'[p] # "close", pc[p] # "killed"
      PROVE  RecordOK'
  BY <1>0, <1>1 DEF RecordOK, RecordNamesHolder, Others
<1>2. ASSUME NEW p \in Proc,
             \/ Begin(p) \/ FailOpen(p) \/ Signal(p) \/ CommandExits(p)
             \/ SkipFile(p) \/ PassFailed(p) \/ Poll(p) \/ GiveUp(p)
      PROVE  RecordOK'
  <2>1. Others(p)
    BY <1>0, <1>2, OnlyOneMoves DEF Step
  <2>2. CASE UNCHANGED <<pc, idx, mode, rec, ex>>
    BY <1>0, <2>2 DEF RecordOK, RecordNamesHolder
  <2>3. CASE Begin(p) \/ FailOpen(p) \/ SkipFile(p) \/ PassFailed(p) \/ Poll(p) \/ GiveUp(p)
    <3>1. /\ rec' = rec /\ ex' = ex /\ pc'[p] # "close" /\ pc[p] # "killed"
          /\ pc'[p] \in {"start", "run", "truncate"} => mode'[p] # "slot"
      BY <1>0, <1>a, <2>3 DEF TypeOK, Stage, Begin, Through, Acquire, Refuse, FailOpen,
         SkipFile, PassFailed, Poll, GiveUp, Goto
    <3> QED BY <1>1, <2>1, <3>1
  <2> QED BY <1>2, <2>2, <2>3 DEF Signal, CommandExits, procVars
<1>3. ASSUME NEW p \in Proc,
             StartCommand(p) \/ Forward(p) \/ CannotRun(p) \/ CommandReaped(p)
      PROVE  RecordOK'
  <2>1. Others(p)
    BY <1>0, <1>3, OnlyOneMoves DEF Step
  <2>2. /\ rec' = rec /\ ex' = ex /\ pc'[p] # "close" /\ pc[p] # "killed"
        /\ idx' = idx /\ mode' = mode /\ pc[p] \in {"start", "run"}
    BY <1>0, <1>3 DEF TypeOK, StartCommand, Forward, CannotRun, CommandReaped,
       afterCommand, Goto
  <2> QED BY <1>1, <2>1, <2>2
<1>4. ASSUME NEW p \in Proc, TakeFile(p) PROVE RecordOK'
  <2>1. Others(p)
    BY <1>0, <1>4, OnlyOneMoves DEF Step
  <2>2. rec' = rec /\ pc[p] = "try" /\ pc'[p] = "locked"
    BY <1>0, <1>4 DEF TakeFile, Goto, TypeOK
  <2>3. \A l \in Pool, i \in Index : ex[l][i] \in Proc => ex'[l][i] = ex[l][i]
    BY <1>0, <1>4, SlotAssumption DEF TakeFile, Lockable, TypeOK
  <2>4. RecordNamesHolder'
    BY <1>0, <2>1, <2>2, <2>3 DEF RecordOK, RecordNamesHolder, Others
  <2> QED BY <1>0, <2>1, <2>2, <2>4 DEF RecordOK, Others
<1>5. ASSUME NEW p \in Proc, WriteRecord(p) PROVE RecordOK'
  <2>1. Others(p)
    BY <1>0, <1>5, OnlyOneMoves DEF Step
  <2>2. /\ pc[p] = "locked" /\ pc'[p] = "start" /\ ex' = ex /\ idx' = idx /\ mode' = mode
        /\ On(p)
    BY <1>0, <1>a, <1>5 DEF WriteRecord, Goto, TypeOK, On, Holding, Stage
  <2>3. \A l \in Pool, i \in Index :
          rec'[l][i] = IF l = pool[p] /\ i = idx[p] THEN p ELSE rec[l][i]
    <3>1. idx[p] \in Index
      BY <1>0, <2>2, OnOwns
    <3>2. rec' = [rec EXCEPT ![pool[p]][idx[p]] = p]
      BY <1>5 DEF WriteRecord
    <3> QED BY <1>0, <3>1, <3>2, SlotAssumption DEF TypeOK
  <2>4. pool[p] \in Pool /\ idx[p] \in Index /\ ex[pool[p]][idx[p]] = p
    BY <1>0, <2>2, OnOwns
  <2>5. \A r \in Proc \ {p} : On(r) => ~(pool[r] = pool[p] /\ idx[r] = idx[p])
    BY <1>0, <2>4, OnOwns
  <2>6. \A r \in Proc \ {p} : On(r) => rec'[pool[r]][idx[r]] = rec[pool[r]][idx[r]]
    BY <1>0, <2>3, <2>5, OnOwns
  <2>7. \A r \in Proc : mode[r] = "slot" /\ pc[r] \in Holding => On(r)
    BY DEF On
  <2>8. RecordNamesHolder'
    BY <1>0, <2>1, <2>2, <2>3, <2>4 DEF RecordOK, RecordNamesHolder, Others
  <2>9. \A r \in Proc \ {p} :
          /\ mode'[r] = "slot" /\ pc'[r] \in {"start", "run", "truncate"}
               => rec'[pool[r]][idx'[r]] = r
          /\ pc'[r] = "close" => rec'[pool[r]][idx'[r]] = NoProc
    BY <1>0, <1>a, <2>1, <2>2, <2>6, <2>7 DEF RecordOK, Others, Holding, Stage
  <2>10. rec'[pool[p]][idx'[p]] = p
    BY <2>2, <2>3, <2>4
  <2> QED BY <2>2, <2>8, <2>9, <2>10 DEF RecordOK
<1>6. ASSUME NEW p \in Proc, Truncate(p) PROVE RecordOK'
  <2>1. Others(p)
    BY <1>0, <1>6, OnlyOneMoves DEF Step
  <2>2. /\ pc[p] = "truncate" /\ pc'[p] = "close" /\ ex' = ex /\ idx' = idx /\ mode' = mode
        /\ On(p)
    BY <1>0, <1>a, <1>6 DEF Truncate, Goto, TypeOK, On, Holding, Stage
  <2>3. \A l \in Pool, i \in Index :
          rec'[l][i] = IF l = pool[p] /\ i = idx[p] THEN NoProc ELSE rec[l][i]
    <3>1. idx[p] \in Index
      BY <1>0, <2>2, OnOwns
    <3>2. rec' = [rec EXCEPT ![pool[p]][idx[p]] = NoProc]
      BY <1>6 DEF Truncate
    <3> QED BY <1>0, <3>1, <3>2, SlotAssumption DEF TypeOK
  <2>4. pool[p] \in Pool /\ idx[p] \in Index /\ ex[pool[p]][idx[p]] = p
    BY <1>0, <2>2, OnOwns
  <2>5. \A r \in Proc \ {p} : On(r) => ~(pool[r] = pool[p] /\ idx[r] = idx[p])
    BY <1>0, <2>4, OnOwns
  <2>6. \A r \in Proc \ {p} : On(r) => rec'[pool[r]][idx[r]] = rec[pool[r]][idx[r]]
    BY <1>0, <2>3, <2>5, OnOwns
  <2>7. \A r \in Proc : mode[r] = "slot" /\ pc[r] \in Holding => On(r)
    BY DEF On
  <2>8. RecordNamesHolder'
    BY <1>0, <2>1, <2>2, <2>3, SlotAssumption DEF RecordOK, RecordNamesHolder, Others
  <2>9. \A r \in Proc \ {p} :
          /\ mode'[r] = "slot" /\ pc'[r] \in {"start", "run", "truncate"}
               => rec'[pool[r]][idx'[r]] = r
          /\ pc'[r] = "close" => rec'[pool[r]][idx'[r]] = NoProc
    BY <1>0, <1>a, <2>1, <2>2, <2>6, <2>7 DEF RecordOK, Others, Holding, Stage
  <2>10. rec'[pool[p]][idx'[p]] = NoProc
    BY <2>2, <2>3, <2>4
  <2> QED BY <2>2, <2>8, <2>9, <2>10 DEF RecordOK
<1>7. ASSUME NEW p \in Proc, Close(p) PROVE RecordOK'
  <2>1. Others(p)
    BY <1>0, <1>7, OnlyOneMoves DEF Step
  <2>2. rec' = rec /\ pc[p] = "close" /\ pc'[p] = "done" /\ On(p) /\ idx' = idx
    BY <1>0, <1>a, <1>7 DEF Close, Goto, TypeOK, On, Holding, Stage
  <2>3. pool[p] \in Pool /\ idx[p] \in Index /\ rec[pool[p]][idx[p]] = NoProc
    BY <1>0, <2>2, OnOwns DEF RecordOK
  <2>4. \A l \in Pool, i \in Index :
          ex'[l][i] = IF l = pool[p] /\ i = idx[p] THEN NoProc ELSE ex[l][i]
    BY <1>0, <1>7, <2>3 DEF Close, TypeOK
  <2>5. RecordNamesHolder'
    BY <1>0, <2>1, <2>2, <2>3, <2>4, SlotAssumption DEF RecordOK, RecordNamesHolder, Others
  <2> QED BY <1>0, <2>1, <2>2, <2>5 DEF RecordOK, Others
<1>8. ASSUME NEW p \in Proc, Sigkill(p) PROVE RecordOK'
  <2>1. Others(p)
    BY <1>0, <1>8, OnlyOneMoves
  <2>2. rec' = rec /\ pc'[p] = "killed"
    BY <1>0, <1>8 DEF Sigkill, TypeOK
  <2>3. \A l \in Pool, i \in Index : ex[l][i] # p => ex'[l][i] = ex[l][i]
    BY <1>8 DEF Sigkill
  <2>4. RecordNamesHolder'
    BY <1>0, <2>1, <2>2, <2>3 DEF RecordOK, RecordNamesHolder, Others
  <2> QED BY <1>0, <2>1, <2>2, <2>4 DEF RecordOK, Others
<1>9. ASSUME UNCHANGED <<pc, idx, ex, rec, mode>> PROVE RecordOK'
  BY <1>0, <1>9 DEF RecordOK, RecordNamesHolder
<1>10. ASSUME NEW q \in Prober, Probe(q) PROVE RecordOK'
  BY <1>9, <1>10 DEF Probe, ProbeFree, ProbeHeld, ProbeClose, procVars
<1>11. CASE UNCHANGED vars
  BY <1>9, <1>11 DEF vars
<1> QED
  BY <1>2, <1>3, <1>4, <1>5, <1>6, <1>7, <1>8, <1>10, <1>11 DEF Next, Step

(* IInv is an invariant: every invariant below follows from it. *)
LEMMA Inductive == Spec => []IInv
<1>1. IInv /\ [Next]_vars => IInv'
  BY NextLock, NextRecord DEF IInv
<1> QED
  BY InitInv, <1>1, PTL DEF Spec

-----------------------------------------------------------------------------
(* Callers that have files of their own, each below its caller's budget,   *)
(* keep every budget: a caller's file is an injection of Within(S, l, k)   *)
(* into 0..k-1.                                                            *)
LEMMA Injective ==
  ASSUME NEW S \in SUBSET Proc, NEW file \in [S -> Nat],
         \A p \in S : file[p] < budget[p],
         \A p, q \in S : pool[p] = pool[q] /\ file[p] = file[q] => p = q
  PROVE  Semaphore!BudgetsKept(S)
<1> SUFFICES ASSUME NEW l \in Pool, NEW k \in 1..MaxFiles
             PROVE  Cardinality(Semaphore!Within(S, l, k)) <= k
  <2>1. \A X : Semaphore!Cardinality(X) = Cardinality(X)
    BY DEF Semaphore!Cardinality, Cardinality
  <2> QED BY <2>1 DEF Semaphore!BudgetsKept
<1> DEFINE W == Semaphore!Within(S, l, k)
           f == [p \in W |-> file[p]]
<1>1. \A p \in W : p \in S /\ p \in Proc /\ pool[p] = l /\ budget[p] <= k
  BY DEF Semaphore!Within
<1>2. \A p \in W : file[p] \in 0..(k - 1)
  <2> SUFFICES ASSUME NEW p \in W PROVE file[p] \in 0..(k - 1)
    OBVIOUS
  <2>1. file[p] \in Nat /\ file[p] < budget[p] /\ budget[p] <= k /\ budget[p] \in 1..MaxFiles
    BY <1>1, SlotAssumption
  <2> QED BY <2>1, SlotAssumption
<1>3. \A p, q \in W : file[p] = file[q] => p = q
  BY <1>1
<1>4. f \in Injection(W, 0..(k - 1))
  BY <1>2, <1>3 DEF Injection, IsInjective
<1>5. IsFiniteSet(0..(k - 1)) /\ Cardinality(0..(k - 1)) = k
  <2>1. k - 1 \in Int /\ 0 \in Int /\ ~(0 > k - 1) /\ k - 1 - 0 + 1 = k
    BY SlotAssumption
  <2> QED BY <2>1, FS_Interval
<1>6. Cardinality(W) <= Cardinality(0..(k - 1))
  BY <1>4, <1>5, FS_Injection
<1> QED BY <1>5, <1>6

(* Processes that are on slots keep every budget. *)
OnWithinBudgets == \A S \in SUBSET {r \in Proc : On(r)} : Semaphore!BudgetsKept(S)

LEMMA OnKeepsBudgets == LockInv => OnWithinBudgets
<1> SUFFICES ASSUME LockInv, NEW S \in SUBSET {r \in Proc : On(r)}
             PROVE  Semaphore!BudgetsKept(S)
  BY DEF OnWithinBudgets
<1> DEFINE file == [p \in S |-> idx[p]]
<1>1. file \in [S -> Nat] /\ \A p \in S : file[p] < budget[p]
  <2> SUFFICES ASSUME NEW p \in S PROVE idx[p] \in Nat /\ idx[p] < budget[p]
    OBVIOUS
  <2>1. idx[p] \in 0..(budget[p] - 1) /\ budget[p] \in 1..MaxFiles
    BY SlotAssumption DEF LockInv, OwnsItsFile
  <2> QED BY <2>1, SlotAssumption
<1>2. \A p, q \in S : pool[p] = pool[q] /\ file[p] = file[q] => p = q
  <2> SUFFICES ASSUME NEW p \in S, NEW q \in S, pool[p] = pool[q], idx[p] = idx[q]
               PROVE  p = q
    OBVIOUS
  <2>1. ex[pool[p]][idx[p]] = p /\ ex[pool[q]][idx[q]] = q
    BY OnOwns
  <2> QED BY <2>1
<1> HIDE DEF file
<1> QED BY <1>1, <1>2, Injective

(* "callers that disagree about N share the low files and none of them     *)
(* exceeds its own budget" (slot.go, package comment), for any number of   *)
(* callers, pools and budgets.                                             *)
THEOREM BudgetsHold == Spec => []BudgetRespected
<1>1. IInv => BudgetRespected
  <2> SUFFICES ASSUME IInv PROVE BudgetRespected
    OBVIOUS
  <2>1. \A p \in Throttled : p \in Proc /\ On(p)
    BY DEF IInv, LockInv, StageOK, Stage, Throttled, On, Holding
  <2> QED BY <2>1, OnKeepsBudgets DEF BudgetRespected, IInv, OnWithinBudgets
<1> QED BY Inductive, <1>1, PTL

(* "the slot is held for exactly the command's life" (runCommand): the     *)
(* lock and the record are the tool's while its command runs.              *)
THEOREM CommandCovered == Spec => []SlotCoversCommand
<1>1. IInv => SlotCoversCommand
  <2> SUFFICES ASSUME IInv, NEW p \in Throttled
               PROVE  ex[pool[p]][idx[p]] = p /\ rec[pool[p]][idx[p]] = p
    BY DEF SlotCoversCommand
  <2>1. p \in Proc /\ mode[p] = "slot" /\ pc[p] = "run"
    BY DEF Throttled, IInv, LockInv, StageOK, Stage
  <2>2. On(p)
    BY <2>1 DEF On, Holding
  <2> QED BY <2>1, <2>2, OnOwns DEF IInv, RecordOK
<1> QED BY Inductive, <1>1, PTL

(* "a released slot never shows the last holder as if it were current"     *)
(* (release).                                                              *)
THEOREM RecordsTrue == Spec => []RecordNamesHolder
<1>1. IInv => RecordNamesHolder
  BY DEF IInv, RecordOK
<1> QED BY Inductive, <1>1, PTL

-----------------------------------------------------------------------------
(* The refinement.  A process is inside while it owns a file.              *)
Inside == {p \in Proc : \E l \in Pool, i \in Index : ex[l][i] = p}

LEMMA InsideOn == LockInv => Inside = {p \in Proc : On(p)}
  BY OnOwns DEF LockInv, OwnsNothingElse, Inside

(* One step of one process takes or drops at most its own slot.            *)
LEMMA StepRefines ==
  LockInv /\ LockInv' /\ [Next]_vars => [Semaphore!Next]_Inside
<1> SUFFICES ASSUME LockInv, LockInv', [Next]_vars, Inside' # Inside
             PROVE  Semaphore!Next
  BY DEF Inside
<1>0. TypeOK /\ Inside = {p \in Proc : On(p)} /\ Inside' = {p \in Proc : On(p)'}
  <2>1. (LockInv => Inside = {p \in Proc : On(p)})'
    BY InsideOn, PTL
  <2> QED BY <2>1, InsideOn DEF LockInv
<1>1. PICK p \in Proc : Others(p)
  <2>1. CASE \E p \in Proc :
               \/ Begin(p) \/ Step(p) \/ CommandExits(p)
               \/ FailOpen(p) \/ CannotRun(p) \/ Signal(p) \/ Sigkill(p)
    BY <1>0, <2>1, OnlyOneMoves
  <2>2. CASE (\E q \in Prober : Probe(q)) \/ UNCHANGED vars
    BY <1>0, <2>2 DEF Probe, ProbeFree, ProbeHeld, ProbeClose, procVars, vars, On
  <2> QED BY <2>1, <2>2 DEF Next
<1>2. \A r \in Proc \ {p} : On(r)' <=> On(r)
  BY <1>1 DEF Others, On
<1>3. CASE On(p)'
  <2>1. p \notin Inside /\ Inside' = Inside \cup {p}
    BY <1>0, <1>2, <1>3
  <2>2. Semaphore!BudgetsKept(Inside \cup {p})
    <3>1. (LockInv => OnWithinBudgets)'
      BY OnKeepsBudgets, PTL
    <3>2. \A S \in SUBSET {r \in Proc : On(r)'} : Semaphore!BudgetsKept(S)
      BY <3>1 DEF OnWithinBudgets, Semaphore!BudgetsKept, Semaphore!Within
    <3> QED BY <1>0, <2>1, <3>2
  <2> QED BY <2>1, <2>2 DEF Semaphore!Next, Semaphore!Enter, Inside
<1>4. CASE ~On(p)'
  <2>1. p \in Inside /\ Inside' = Inside \ {p}
    BY <1>0, <1>2, <1>4
  <2> QED BY <2>1 DEF Semaphore!Next, Semaphore!Leave, Inside
<1> QED BY <1>3, <1>4

(* The lock files implement the counting semaphore of SlotSemaphore. *)
THEOREM SlotImplementsSemaphore == Spec => ImplementsSemaphore
<1>1. Init => Semaphore!Init
  BY SlotAssumption DEF Init, Semaphore!Init
<1>2. IInv /\ IInv' /\ [Next]_vars => [Semaphore!Next]_Inside
  BY StepRefines DEF IInv
<1> QED BY Inductive, <1>1, <1>2, PTL DEF Spec, ImplementsSemaphore, Semaphore!Spec, Inside

-----------------------------------------------------------------------------
(* The waiters' directory.  Registering prunes it of the dead, and         *)
(* whatever acquire returns, the deferred unregister has run.              *)
LEMMA WaitersStep == TypeOK /\ WaitersAreWaiting /\ [Next]_vars => WaitersAreWaiting'
<1> SUFFICES ASSUME TypeOK, WaitersAreWaiting, [Next]_vars PROVE WaitersAreWaiting'
  OBVIOUS
<1> DEFINE Waits(p) == pc[p] \in {"try", "poll", "locked", "killed"}
<1>1. ASSUME NEW p \in Proc, Others(p), Waits(p)', waiter' = waiter
      PROVE  WaitersAreWaiting'
  BY <1>1 DEF WaitersAreWaiting, Others, TypeOK
<1>2. ASSUME NEW p \in Proc, Others(p), Unregister(p)
      PROVE  WaitersAreWaiting'
  BY <1>2 DEF WaitersAreWaiting, Others, TypeOK, Unregister
<1>3. ASSUME NEW p \in Proc, Others(p), waiter' = waiter, ~Waits(p)
      PROVE  WaitersAreWaiting'
  BY <1>3 DEF WaitersAreWaiting, Others, TypeOK
<1>4. ASSUME NEW p \in Proc, PassFailed(p)
      PROVE  WaitersAreWaiting'
  <2>1. Others(p) /\ Waits(p)'
    BY <1>4, OnlyOneMoves DEF Step, PassFailed, Goto, TypeOK
  <2>2. CASE waited[p]
    BY <1>1, <1>4, <2>1, <2>2 DEF PassFailed
  <2>3. CASE ~waited[p]
    <3>1. pool[p] \in Pool
      BY SlotAssumption
    <3>2. PICK mine \in {{}, {p}} :
            waiter' = [waiter EXCEPT ![pool[p]] = {q \in waiter[pool[p]] : alive(q)} \cup mine]
      BY <1>4, <2>3 DEF PassFailed, registerWaiter
    <3>3. \A l \in Pool : \A q \in waiter'[l] : q \in waiter[l] \/ (q = p /\ l = pool[p])
      BY <3>1, <3>2 DEF TypeOK
    <3> QED BY <2>1, <3>3 DEF WaitersAreWaiting, Others, TypeOK
  <2> QED BY <2>2, <2>3
<1>5. ASSUME NEW p \in Proc, TakeFile(p) \/ SkipFile(p) \/ Poll(p) \/ Sigkill(p)
      PROVE  WaitersAreWaiting'
  <2>1. Others(p)
    BY <1>5, OnlyOneMoves DEF Step
  <2>2. Waits(p)' /\ waiter' = waiter
    BY <1>5 DEF TakeFile, SkipFile, Poll, Sigkill, Goto, TypeOK
  <2> QED BY <1>1, <2>1, <2>2
<1>6. ASSUME NEW p \in Proc, GiveUp(p) \/ FailOpen(p) \/ WriteRecord(p)
      PROVE  WaitersAreWaiting'
  <2>1. Others(p)
    BY <1>6, OnlyOneMoves DEF Step
  <2> QED BY <1>2, <1>6, <2>1 DEF GiveUp, FailOpen, WriteRecord
<1>7. ASSUME NEW p \in Proc,
             \/ Begin(p) \/ StartCommand(p) \/ Forward(p) \/ CannotRun(p)
             \/ CommandReaped(p) \/ Truncate(p) \/ Close(p)
      PROVE  WaitersAreWaiting'
  <2>1. Others(p)
    BY <1>7, OnlyOneMoves DEF Step
  <2>2. ~Waits(p) /\ waiter' = waiter
    BY <1>7 DEF Begin, Through, Acquire, Refuse, StartCommand, Forward, CannotRun,
       CommandReaped, Truncate, Close, Goto, afterCommand
  <2> QED BY <1>3, <2>1, <2>2
<1>8. ASSUME waiter' = waiter, pc' = pc PROVE WaitersAreWaiting'
  BY <1>8 DEF WaitersAreWaiting
<1>9. ASSUME NEW p \in Proc, Signal(p) \/ CommandExits(p) PROVE WaitersAreWaiting'
  BY <1>8, <1>9 DEF Signal, CommandExits, procVars
<1>10. ASSUME NEW q \in Prober, Probe(q) PROVE WaitersAreWaiting'
  BY <1>8, <1>10 DEF Probe, ProbeFree, ProbeHeld, ProbeClose, procVars
<1>11. CASE UNCHANGED vars
  BY <1>8, <1>11 DEF vars
<1> QED
  BY <1>4, <1>5, <1>6, <1>7, <1>9, <1>10, <1>11 DEF Next, Step

(* A waiter file belongs to a process in acquire(), or to one that was     *)
(* SIGKILLed there: no return of acquire leaves one behind (unregister).   *)
THEOREM WaitersWait == Spec => []WaitersAreWaiting
<1>1. Init => WaitersAreWaiting
  BY DEF Init, WaitersAreWaiting
<1> QED BY <1>1, WaitersStep, TypeCorrect, PTL DEF Spec

-----------------------------------------------------------------------------
(* Nesting, when a command waits for what it starts (Background is empty). *)
(* The list of held pools is only ever right if three things go together:  *)
(* a process starts inside its parent's command, which outlasts it unless  *)
(* a signal ends it, so the parent's own list cannot change under it; the  *)
(* list grows by the pool of a slot and by nothing else; and whoever runs  *)
(* straight through found the pool in its parent's list.                   *)
StartsInside ==
  \A p \in Proc : pc[p] # "idle" /\ parent[p] # NoProc => pc[parent[p]] # "idle"

RunsInside ==
  \A p \in Proc : alive(p) /\ parent[p] # NoProc =>
    /\ cmd[parent[p]] # "none"
    /\ cmd[parent[p]] = "running" \/ sig[parent[p]] = "taken"

CarriesHeld ==
  \A p \in Proc : alive(p) =>
    /\ \A l \in env[p] : l \in heldEnv(p) \/ (mode[p] = "slot" /\ pool[p] = l)
    /\ mode[p] = "through" => holds(p)

(* The processes that have started have an outermost one among any of      *)
(* them: the parents need not be assumed to be a forest.                   *)
NoLoop ==
  \A T \in SUBSET Proc :
    T # {} /\ (\A a \in T : pc[a] # "idle") => \E a \in T : parent[a] \notin T

NestInv == StartsInside /\ RunsInside /\ CarriesHeld /\ NoLoop

LEMMA NestInit == Init => NestInv
  BY DEF Init, NestInv, StartsInside, RunsInside, CarriesHeld, NoLoop, alive

(* What any step does to the places, the commands and the lists. *)
LEMMA NestStep ==
  ASSUME TypeOK, StageOK, [Next]_vars, NEW r \in Proc
  PROVE  /\ pc[r] # "idle" => pc'[r] # "idle"
         /\ pc[r] = "idle" /\ pc'[r] # "idle" => Begin(r)
         /\ alive(r)' => alive(r) \/ Begin(r)
         /\ pc[r] \in {"run", "truncate", "close", "done", "killed"} => env'[r] = env[r]
         /\ cmd[r] # "none" => cmd'[r] # "none"
         /\ sig[r] = "taken" => sig'[r] = "taken"
         /\ cmd[r] = "running" => cmd'[r] = "running" \/ CommandExits(r)
         /\ Begin(r) => cmd' = cmd /\ \A q \in Proc \ {r} : env'[q] = env[q]
         /\ alive(r) => \/ env'[r] = env[r] /\ (mode'[r] = mode[r] \/ (mode[r] = "none" /\ mode'[r] # "through"))
                        \/ WriteRecord(r)
<1> USE DEF Goto, alive, procVars
<1>t. /\ pc \in [Proc -> Locations] /\ env \in [Proc -> SUBSET Pool]
      /\ cmd \in [Proc -> {"none", "running", "exited"}]
      /\ mode \in [Proc -> {"none", "slot", "through", "open"}]
      /\ sig \in [Proc -> {"none", "queued", "taken"}]
  BY DEF TypeOK
<1>s. \A q \in Proc : /\ pc[q] \in {"idle", "try", "poll"} => mode[q] = "none"
                      /\ cmd[q] = "running" => pc[q] \in {"run", "killed"}
                      /\ cmd[q] # "none" => pc[q] \in {"run", "truncate", "close", "done", "killed"}
  BY DEF StageOK, Stage
<1>b. Begin(r) => /\ pc[r] = "idle" /\ cmd' = cmd /\ \A q \in Proc \ {r} : env'[q] = env[q]
                  /\ ~(pc[r] \in {"run", "truncate", "close", "done", "killed"})
                  /\ ~alive(r) /\ cmd[r] = "none" /\ sig' = sig
  BY <1>t, <1>s DEF Begin, Through, Acquire, Refuse
<1>1. CASE Begin(r)
  BY <1>1, <1>b
<1> DEFINE Quiet == /\ pc[r] # "idle" => pc'[r] # "idle"
                    /\ pc[r] = "idle" => pc'[r] = "idle"
                    /\ alive(r)' => alive(r)
                    /\ pc[r] \in {"run", "truncate", "close", "done", "killed"} => env'[r] = env[r]
                    /\ cmd[r] # "none" => cmd'[r] # "none"
                    /\ sig[r] = "taken" => sig'[r] = "taken"
                    /\ cmd[r] = "running" => cmd'[r] = "running" \/ CommandExits(r)
                    /\ alive(r) => \/ env'[r] = env[r] /\ (mode'[r] = mode[r] \/ (mode[r] = "none" /\ mode'[r] # "through"))
                                   \/ WriteRecord(r)
<1>2. ASSUME TakeFile(r) \/ SkipFile(r) \/ PassFailed(r) \/ Poll(r) \/ GiveUp(r) PROVE Quiet
  BY <1>2, <1>t, <1>s DEF TakeFile, SkipFile, PassFailed, Poll, GiveUp
<1>3. ASSUME WriteRecord(r) PROVE Quiet
  <2>1. pc[r] = "locked" /\ pc'[r] = "start" /\ cmd' = cmd /\ sig' = sig
    BY <1>3, <1>t DEF WriteRecord
  <2> QED BY <1>3, <2>1
<1>4. ASSUME StartCommand(r) \/ Forward(r) \/ Truncate(r) \/ Close(r) PROVE Quiet
  BY <1>4, <1>t DEF StartCommand, Forward, Truncate, Close
<1>5. ASSUME CommandReaped(r) \/ CannotRun(r) PROVE Quiet
  <2>1. pc[r] \in {"start", "run"} /\ pc'[r] \in {"truncate", "done"} /\ UNCHANGED <<cmd, env, mode, sig>>
    BY <1>5, <1>t DEF CommandReaped, CannotRun, afterCommand
  <2> QED BY <2>1
<1>7. ASSUME pc'[r] = pc[r], env'[r] = env[r], mode'[r] = mode[r], cmd'[r] = cmd[r] \/ CommandExits(r),
             sig[r] = "taken" => sig'[r] = "taken"
      PROVE  Quiet
  BY <1>7, <1>t DEF CommandExits
<1>6. ASSUME FailOpen(r) PROVE Quiet
  BY <1>6, <1>t, <1>s DEF FailOpen
<1>8. ASSUME Sigkill(r) PROVE Quiet
  BY <1>8, <1>t DEF Sigkill
<1>9. ASSUME CommandExits(r) \/ Signal(r) PROVE Quiet
  BY <1>7, <1>9, <1>t DEF CommandExits, Signal
<1>10. ASSUME NEW p \in Proc \ {r},
             \/ Begin(p) \/ Step(p) \/ CommandExits(p)
             \/ FailOpen(p) \/ CannotRun(p) \/ Signal(p) \/ Sigkill(p)
       PROVE  Quiet
  <2>1. Others(p)
    BY <1>10, OnlyOneMoves
  <2>2. env'[r] = env[r] /\ sig'[r] = sig[r]
    BY <1>10, <1>t DEF Begin, Through, Acquire, Refuse, Step, TakeFile, SkipFile,
         PassFailed, Poll, GiveUp, WriteRecord, StartCommand, Forward,
         CommandReaped, Truncate, Close, CommandExits, FailOpen, CannotRun,
         Signal, Sigkill
  <2> QED BY <1>7, <2>1, <2>2 DEF Others
<1>11. ASSUME NEW q \in Prober, Probe(q) PROVE Quiet
  BY <1>7, <1>11 DEF Probe, ProbeFree, ProbeHeld, ProbeClose
<1>12. ASSUME UNCHANGED vars PROVE Quiet
  BY <1>7, <1>12 DEF vars
<1>13. CASE ~Begin(r) /\ Quiet
  BY <1>13
<1>14. CASE ~Begin(r)
  <2> SUFFICES Quiet
    BY <1>13, <1>14
  <2>1. CASE \E p \in Proc \ {r} :
             \/ Begin(p) \/ Step(p) \/ CommandExits(p)
             \/ FailOpen(p) \/ CannotRun(p) \/ Signal(p) \/ Sigkill(p)
    BY <1>10, <2>1
  <2>2. CASE Step(r) \/ CommandExits(r) \/ FailOpen(r) \/ CannotRun(r) \/ Signal(r) \/ Sigkill(r)
    <3> HIDE DEF Quiet
    <3> QED BY <2>2, <1>2, <1>3, <1>4, <1>5, <1>6, <1>8, <1>9 DEF Step
  <2> HIDE DEF Quiet
  <2> QED BY <1>14, <1>11, <1>12, <2>1, <2>2 DEF Next
<1> QED BY <1>1, <1>14

(* A step keeps the nesting. *)
LEMMA NestKept ==
  ASSUME Background = {}, LockInv, NestInv, [Next]_vars
  PROVE  NestInv'
<1>0. TypeOK /\ StageOK /\ TypeOK'
  BY NextTyped DEF LockInv
<1>p. \A r \in Proc : parent[r] # NoProc => parent[r] \in Proc
  BY SlotAssumption
<1>b. ASSUME NEW r \in Proc, Begin(r)
      PROVE  pc[r] = "idle" /\ (parent[r] # NoProc => cmd[parent[r]] = "running" /\ pc[parent[r]] # "idle")
  <2>1. pc[r] = "idle" /\ CanStart(r)
    BY <1>b DEF Begin, Through, Acquire, Refuse, Goto
  <2>2. \A q \in Proc : cmd[q] = "running" => pc[q] # "idle"
    BY <1>0 DEF StageOK, Stage
  <2> QED BY <2>1, <2>2, <1>p DEF CanStart
<1>1. StartsInside'
  <2> SUFFICES ASSUME NEW r \in Proc, pc'[r] # "idle", parent[r] # NoProc
               PROVE  pc'[parent[r]] # "idle"
    BY DEF StartsInside
  <2>1. pc[parent[r]] # "idle"
    BY <1>0, <1>b, NestStep DEF NestInv, StartsInside
  <2> QED BY <1>0, <1>p, <2>1, NestStep
<1>2. RunsInside'
  <2> SUFFICES ASSUME NEW r \in Proc, alive(r)', parent[r] # NoProc
               PROVE  /\ cmd'[parent[r]] # "none"
                      /\ cmd'[parent[r]] = "running" \/ sig'[parent[r]] = "taken"
    BY DEF RunsInside
  <2>1. CASE Begin(r)
    BY <1>0, <1>b, <2>1, NestStep
  <2>2. CASE alive(r)
    <3>1. /\ cmd[parent[r]] # "none"
          /\ cmd[parent[r]] = "running" \/ sig[parent[r]] = "taken"
      BY <2>2 DEF NestInv, RunsInside
    <3>2. CommandExits(parent[r]) => sig[parent[r]] = "taken"
      BY <2>2 DEF CommandExits
    <3> QED BY <1>0, <1>p, <3>1, <3>2, NestStep
  <2> QED BY <1>0, <2>1, <2>2, NestStep
<1>3. CarriesHeld'
  <2> SUFFICES ASSUME NEW r \in Proc, alive(r)'
               PROVE  /\ \A l \in env'[r] : l \in heldEnv(r)' \/ (mode'[r] = "slot" /\ pool[r] = l)
                      /\ mode'[r] = "through" => pool[r] \in heldEnv(r)'
    BY DEF CarriesHeld, holds
  <2>1. ASSUME alive(r) \/ Begin(r) PROVE heldEnv(r)' = heldEnv(r)
    <3>1. CASE parent[r] = NoProc
      BY <3>1 DEF heldEnv
    <3>2. CASE parent[r] # NoProc
      <4>1. cmd[parent[r]] # "none"
        BY <1>b, <2>1, <3>2 DEF NestInv, RunsInside
      <4>2. pc[parent[r]] \in {"run", "truncate", "close", "done", "killed"}
        BY <1>0, <1>p, <3>2, <4>1 DEF StageOK, Stage
      <4>3. env'[parent[r]] = env[parent[r]]
        BY <1>0, <1>p, <3>2, <4>2, NestStep
      <4> QED BY <3>2, <4>3 DEF heldEnv
    <3> QED BY <3>1, <3>2
  <2>2. CASE Begin(r)
    <3>1. heldEnv(r)' = heldEnv(r)
      BY <2>1, <2>2
    <3>2. CASE Through(r)
      BY <1>0, <3>1, <3>2 DEF Through, holds, TypeOK
    <3>3. CASE Acquire(r)
      <4>1. mode'[r] = "none"
        BY <1>0, <3>3 DEF Acquire, Goto, StageOK, Stage
      <4> QED BY <1>0, <3>1, <3>3, <4>1 DEF Acquire, TypeOK
    <3>4. CASE Refuse(r)
      BY <1>0, <3>4 DEF Refuse, Goto, TypeOK, alive
    <3> QED BY <2>2, <3>2, <3>3, <3>4 DEF Begin
  <2>3. CASE alive(r) /\ WriteRecord(r)
    <3>1. env'[r] = env[r] \cup {pool[r]} /\ mode' = mode /\ pc[r] = "locked"
      BY <1>0, <2>3 DEF WriteRecord, Goto, TypeOK
    <3>2. mode[r] = "slot"
      BY <1>0, <3>1 DEF StageOK, Stage
    <3> QED BY <2>1, <2>3, <3>1, <3>2 DEF NestInv, CarriesHeld
  <2>4. CASE alive(r) /\ ~WriteRecord(r)
    <3>1. env'[r] = env[r] /\ (mode'[r] = mode[r] \/ (mode[r] = "none" /\ mode'[r] # "through"))
      BY <1>0, <2>4, NestStep
    <3> QED BY <2>1, <2>4, <3>1 DEF NestInv, CarriesHeld, holds
  <2> QED BY <1>0, <2>2, <2>3, <2>4, NestStep
<1>4. NoLoop'
  <2> SUFFICES ASSUME NEW T \in SUBSET Proc, T # {}, \A a \in T : pc'[a] # "idle",
                      \A a \in T : parent[a] \in T
               PROVE  FALSE
    BY DEF NoLoop
  <2> DEFINE S == {a \in T : pc[a] # "idle"}
  <2>1. \A a \in T : parent[a] # NoProc
    BY SlotAssumption
  <2>2. \A a \in T : parent[a] \in S
    BY <1>0, <1>b, <2>1, NestStep DEF NestInv, StartsInside
  <2>3. S # {} /\ S \in SUBSET Proc /\ \A a \in S : pc[a] # "idle" /\ parent[a] \in S
    BY <2>2
  <2> HIDE DEF S
  <2> QED BY <2>3 DEF NestInv, NoLoop
<1> QED BY <1>1, <1>2, <1>3, <1>4 DEF NestInv

(* Whoever has a pool in its list is on a slot of it or inside a process   *)
(* that is: else the list would have come down from an endless line of     *)
(* ancestors.                                                              *)
LEMMA HeldIsPaid ==
  ASSUME LockInv, NestInv, NEW p \in Proc, alive(p), NEW l \in heldEnv(p),
         \A a \in ancestors(p) : pc[a] # "killed" /\ sig[a] # "taken"
  PROVE  \E a \in ancestors(p) : On(a) /\ pool[a] = l
<1> SUFFICES ASSUME \A a \in ancestors(p) : ~(On(a) /\ pool[a] = l)
             PROVE  FALSE
  OBVIOUS
<1>0. StageOK
  BY DEF LockInv
<1>1. \A q \in Proc : parent[q] # NoProc => parent[q] \in Proc
  BY SlotAssumption
<1>2. \A q \in ancestors(p) \cup {p} : parent[q] # NoProc => parent[q] \in ancestors(p)
  BY <1>1 DEF ancestors
<1> DEFINE T == {a \in ancestors(p) : alive(a) /\ l \in env[a]}
<1>3. ASSUME NEW q \in ancestors(p) \cup {p}, alive(q), l \in heldEnv(q)
      PROVE  parent[q] \in T
  <2>1. parent[q] # NoProc /\ l \in env[parent[q]]
    BY <1>3 DEF heldEnv
  <2>2. parent[q] \in ancestors(p) /\ q \in Proc /\ parent[q] \in Proc
    BY <1>1, <1>2, <2>1 DEF ancestors
  <2>3. cmd[parent[q]] = "running"
    BY <1>3, <2>1, <2>2 DEF NestInv, RunsInside
  <2>4. pc[parent[q]] = "run"
    BY <1>0, <2>2, <2>3 DEF StageOK, Stage
  <2> QED BY <2>1, <2>2, <2>4 DEF alive
<1>4. \A a \in T : a \in Proc /\ l \in heldEnv(a)
  <2> SUFFICES ASSUME NEW a \in T PROVE a \in Proc /\ l \in heldEnv(a)
    OBVIOUS
  <2>1. a \in Proc
    BY DEF ancestors
  <2>2. l \in heldEnv(a) \/ (mode[a] = "slot" /\ pool[a] = l)
    BY <2>1 DEF NestInv, CarriesHeld
  <2>3. mode[a] = "slot" => On(a)
    BY <1>0, <2>1 DEF StageOK, Stage, On, alive, Holding, LockInv, TypeOK, Locations
  <2> QED BY <2>1, <2>2, <2>3
<1>5. parent[p] \in T /\ \A a \in T : parent[a] \in T
  BY <1>3, <1>4
<1>6. T # {} /\ T \in SUBSET Proc /\ \A a \in T : pc[a] # "idle"
  BY <1>4, <1>5 DEF alive
<1> HIDE DEF T
<1> QED BY <1>5, <1>6 DEF NestInv, NoLoop

(* "the ancestor's slot already pays for it" (heldEnvKey), for any depth   *)
(* of nesting and any mixture of pools, as long as every command waits for *)
(* what it starts and nobody kills or signals an ancestor.                 *)
THEOREM NestedIsPaidFor ==
  ASSUME Background = {}
  PROVE  Spec => []ThroughIsPaidFor
<1>1. IInv /\ NestInv /\ [Next]_vars => NestInv'
  BY NestKept DEF IInv
<1>2. ASSUME IInv, NestInv
      PROVE  ThroughIsPaidFor
  <2> SUFFICES ASSUME NEW p \in Proc, mode[p] = "through", cmd[p] = "running",
                      \A a \in ancestors(p) \cup {p} : pc[a] # "killed",
                      \A a \in ancestors(p) : sig[a] # "taken"
               PROVE  \E a \in ancestors(p) : pool[a] = pool[p] /\ ex[pool[a]][idx[a]] = a
    BY DEF ThroughIsPaidFor
  <2>0. LockInv /\ StageOK
    BY <1>2 DEF IInv, LockInv
  <2>1. alive(p)
    BY <2>0 DEF StageOK, Stage, alive
  <2>2. pool[p] \in heldEnv(p)
    BY <1>2, <2>1 DEF NestInv, CarriesHeld, holds
  <2>3. PICK a \in ancestors(p) : On(a) /\ pool[a] = pool[p]
    BY <1>2, <2>0, <2>1, <2>2, HeldIsPaid
  <2>4. a \in Proc
    BY DEF ancestors
  <2> QED BY <2>0, <2>3, <2>4, OnOwns
<1> QED BY Inductive, NestInit, <1>1, <1>2, PTL DEF Spec
=============================================================================
