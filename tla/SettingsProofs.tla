---------------------------- MODULE SettingsProofs ----------------------------
(***************************************************************************)
(* The two settings files the launcher shares with other writers.          *)
(*                                                                         *)
(* Antigravity's, which gets the git guard of agy rounds: for any number of *)
(* launches on the machine, any deny rules and any number of edits and     *)
(* kills.                                                                  *)
(***************************************************************************)
EXTENDS AgySettings, ConfigFile, Functions, FiniteSetTheorems, TLAPS

AgyPlaces == {"idle", "refused", "panicked", "start", "open", "write", "rename", "running", "killed"}

AgyTypeOK ==
  /\ text \in [Inodes -> Texts]
  /\ name \in [settings : Inodes \union {NoFile}, tmp : Inodes \union {NoFile}]
  /\ launch \in [Rounds -> [at : AgyPlaces, plan : Texts, fd : Inodes \union {NoFile}, guarded : BOOLEAN]]
  /\ edits \in 0..MaxEdits
  /\ kills \in 0..MaxKills
  /\ raced \subseteq Rounds

Merged(t) == [t EXCEPT !.deny = @ \union DenyRules]

(* The two names never share an inode: what is truncated or written under  *)
(* the temporary name is not the text agy reads.                           *)
NamesApart == name.tmp # NoFile => name.tmp # name.settings

(* While a crossed launch may still write, all that work then are crossed.  *)
CrossedTogether ==
  /\ \A p \in raced : launch[p].at # "idle"
  /\ (\E p \in raced : Pending(p)) => AllWorking \subseteq raced

(* A launch that was not crossed and writes is the one writer: it holds the *)
(* inode the temporary name refers to, which has its whole text by the     *)
(* rename;                                                                 *)
OneWriter ==
  \A p \in Rounds \ raced : Writing(p) =>
     /\ name.tmp # NoFile /\ launch[p].fd = name.tmp
     /\ \A q \in Rounds : Writing(q) => q = p
     /\ text[name.tmp] = IF launch[p].at = "write" THEN Unparseable ELSE launch[p].plan

(* what it is still to write is a merge into the settings of now;          *)
PlansFit ==
  \A p \in Rounds \ raced : Pending(p) => Settings.form = "object" /\ launch[p].plan = Merged(Settings)

(* and the settings it goes on with have every rule.                       *)
Guarded ==
  \A p \in Rounds \ raced :
     /\ launch[p].at = "start" => name.settings # NoFile /\ DenyRules \subseteq Settings.deny
     /\ launch[p].at = "running" => launch[p].guarded

AgyIInv == AgyTypeOK /\ NamesApart /\ CrossedTogether /\ OneWriter /\ PlansFit /\ Guarded

LEMMA TextsTyped ==
  /\ NoFile \notin Inodes
  /\ Unparseable \in Texts /\ NullText \in Texts
  /\ \A t \in Texts : /\ Merged(t) \in Texts
                      /\ DenyRules \subseteq Merged(t).deny
                      /\ t.deny \subseteq Merged(t).deny
                      /\ Merged(t).form = t.form /\ Merged(t).keys = t.keys
                      /\ Merged(Merged(t)) = Merged(t)
  /\ \A d \in SUBSET DenyRules, k \in 0..MaxEdits : Object(d, k) \in Texts /\ Object(d, k).form = "object" /\ Object(d, k).deny = d
  /\ Unparseable.form # "object" /\ NullText.form # "object"
<1>1. NoFile \notin Inodes
  BY AgyAssumption, FS_CardinalityType DEF NoFile, Inodes
<1>2. Unparseable \in Texts /\ NullText \in Texts
  BY AgyAssumption DEF Unparseable, NullText, Texts
<1>3. ASSUME NEW t \in Texts
      PROVE  /\ Merged(t) \in Texts
             /\ DenyRules \subseteq Merged(t).deny
             /\ t.deny \subseteq Merged(t).deny
             /\ Merged(t).form = t.form /\ Merged(t).keys = t.keys
             /\ Merged(Merged(t)) = Merged(t)
  <2>1. /\ Merged(t) \in Texts
        /\ Merged(t).deny = t.deny \union DenyRules
        /\ Merged(t).form = t.form /\ Merged(t).keys = t.keys
    BY DEF Texts, Merged
  <2>2. /\ Merged(Merged(t)) \in Texts
        /\ Merged(Merged(t)).deny = Merged(t).deny \union DenyRules
        /\ Merged(Merged(t)).form = Merged(t).form /\ Merged(Merged(t)).keys = Merged(t).keys
    BY <2>1 DEF Texts, Merged
  <2>3. Merged(Merged(t)) = Merged(t)
    BY <2>1, <2>2 DEF Texts
  <2>. QED BY <2>1, <2>3
<1>4. ASSUME NEW d \in SUBSET DenyRules, NEW k \in 0..MaxEdits
      PROVE  Object(d, k) \in Texts /\ Object(d, k).form = "object" /\ Object(d, k).deny = d
  BY DEF Texts, Object
<1>5. Unparseable.form # "object" /\ NullText.form # "object"
  BY DEF Unparseable, NullText
<1>. QED BY <1>1, <1>2, <1>3, <1>4, <1>5

(* There is always an inode nobody refers to.                              *)
LEMMA NewFileIsNew ==
  ASSUME AgyTypeOK
  PROVE  NewFile \in Inodes /\ NewFile \notin InUse
<1>. DEFINE fds == {launch[p].fd : p \in Rounds}
            fd == [p \in Rounds |-> launch[p].fd]
            n == Cardinality(Rounds)
<1>1. IsFiniteSet(Rounds) /\ n \in Nat
  BY AgyAssumption, FS_CardinalityType
<1>2. fd \in Surjection(Rounds, fds)
  BY DEF Surjection
<1>3. IsFiniteSet(fds) /\ Cardinality(fds) <= n
  BY <1>1, <1>2, FS_Surjection
<1>. DEFINE most == fds \union {name.settings}
<1>4. IsFiniteSet(most) /\ Cardinality(most) \in Nat /\ Cardinality(most) <= n + 1
  <2>1. Cardinality(fds) \in Nat BY <1>3, FS_CardinalityType
  <2>2. IsFiniteSet(most) /\ Cardinality(most) = IF name.settings \in fds THEN Cardinality(fds) ELSE Cardinality(fds) + 1
    BY <1>3, FS_AddElement
  <2>. QED BY <1>1, <1>3, <2>1, <2>2
<1>5. IsFiniteSet(most \union {name.tmp}) /\ Cardinality(most \union {name.tmp}) <= n + 2
  <2>1. /\ IsFiniteSet(most \union {name.tmp})
        /\ Cardinality(most \union {name.tmp}) = IF name.tmp \in most THEN Cardinality(most) ELSE Cardinality(most) + 1
    BY <1>4, FS_AddElement
  <2>. QED BY <1>1, <1>4, <2>1
<1>6. InUse = most \union {name.tmp}
  BY DEF InUse
<1>7. IsFiniteSet(Inodes) /\ Cardinality(Inodes) = n + 3
  BY <1>1, FS_Interval DEF Inodes
<1>8. ~(Inodes \subseteq InUse)
  <2>1. SUFFICES ASSUME Inodes \subseteq InUse PROVE FALSE
    OBVIOUS
  <2>2. Cardinality(Inodes) <= Cardinality(InUse)
    BY <1>5, <1>6, <2>1, FS_Subset
  <2>3. Cardinality(InUse) \in Nat
    BY <1>5, <1>6, FS_CardinalityType
  <2>. QED BY <1>1, <1>5, <1>6, <1>7, <2>2, <2>3
<1>9. \E i \in Inodes : i \notin InUse
  BY <1>8
<1>. HIDE DEF InUse
<1>. QED BY <1>9 DEF NewFile

LEMMA SettingsTyped == AgyTypeOK => Settings \in Texts
BY TextsTyped, AgyAssumption DEF AgyTypeOK, Settings

LEMMA AgyInitHolds == AgyInit => AgyIInv
<1>. SUFFICES ASSUME AgyInit PROVE AgyIInv
  OBVIOUS
<1>1. Waiting \in [at : AgyPlaces, plan : Texts, fd : Inodes \union {NoFile}, guarded : BOOLEAN]
  BY TextsTyped DEF Waiting, AgyPlaces
<1>2. AgyTypeOK
  <2>1. Object({}, 0) \in Texts
    BY TextsTyped, AgyAssumption
  <2>2. text \in [Inodes -> Texts]
    BY <2>1 DEF AgyInit
  <2>3. name \in [settings : Inodes \union {NoFile}, tmp : Inodes \union {NoFile}]
    BY DEF AgyInit
  <2>4. launch \in [Rounds -> [at : AgyPlaces, plan : Texts, fd : Inodes \union {NoFile}, guarded : BOOLEAN]]
    BY <1>1 DEF AgyInit
  <2>5. edits \in 0..MaxEdits /\ kills \in 0..MaxKills
    BY AgyAssumption DEF AgyInit
  <2>6. raced \subseteq Rounds
    BY DEF AgyInit
  <2>. QED BY <2>2, <2>3, <2>4, <2>5, <2>6 DEF AgyTypeOK
<1>3. \A p \in Rounds : launch[p].at = "idle"
  BY DEF AgyInit, Waiting
<1>4. NamesApart
  BY DEF AgyInit, NamesApart
<1>5. CrossedTogether
  BY DEF AgyInit, CrossedTogether
<1>. QED BY <1>2, <1>3, <1>4, <1>5 DEF AgyIInv, OneWriter, PlansFit, Guarded, Writing, Pending

(* What holds of the launches that were not crossed, when none of them     *)
(* works: nothing that happens to the files touches it.                    *)
LEMMA NobodyLeft ==
  ASSUME \A q \in Rounds \ raced' : launch'[q] = launch[q] /\ ~Working(q),
         raced \subseteq raced', Guarded
  PROVE  OneWriter' /\ PlansFit' /\ Guarded'
<1>1. \A q \in Rounds \ raced' : ~Working(q)'
  BY DEF Working, Pending, Writing
<1>2. \A q \in Rounds \ raced' : ~Pending(q)' /\ ~Writing(q)' /\ launch'[q].at # "start"
  BY <1>1 DEF Working, Pending
<1>3. OneWriter' /\ PlansFit'
  BY <1>2 DEF OneWriter, PlansFit
<1>4. Guarded'
  BY <1>2 DEF Guarded
<1>. QED BY <1>3, <1>4

(* A launch that is no writer may leave, wherever it was.                  *)
LEMMA LeavingKeeps ==
  ASSUME AgyIInv, NEW p \in Rounds, NEW a \in {"refused", "panicked", "killed"}, To(p, a),
         UNCHANGED <<text, name, edits>>, kills' \in 0..MaxKills, raced' = raced \/ raced' = raced \union {p}
  PROVE  AgyIInv'
<1>1. /\ launch' \in [Rounds -> [at : AgyPlaces, plan : Texts, fd : Inodes \union {NoFile}, guarded : BOOLEAN]]
      /\ launch'[p].at = a
      /\ \A q \in Rounds \ {p} : launch'[q] = launch[q]
  BY DEF AgyIInv, AgyTypeOK, To, AgyPlaces
<1>2. AgyTypeOK'
  BY <1>1 DEF AgyIInv, AgyTypeOK
<1>3. NamesApart'
  BY DEF AgyIInv, NamesApart
<1>4. Settings' = Settings
  BY DEF Settings
<1>5. ~Working(p)' /\ \A q \in Rounds \ {p} : /\ Working(q)' <=> Working(q)
                                              /\ Pending(q)' <=> Pending(q)
                                              /\ Writing(q)' <=> Writing(q)
  BY <1>1 DEF Working, Pending, Writing
<1>6. CrossedTogether'
  <2>1. \A q \in raced' : launch'[q].at # "idle"
    BY <1>1 DEF AgyIInv, AgyTypeOK, CrossedTogether
  <2>2. ASSUME \E q \in raced' : Pending(q)' PROVE AllWorking' \subseteq raced'
    <3>1. \E q \in raced : Pending(q)
      BY <1>5, <2>2 DEF AgyIInv, AgyTypeOK, Working
    <3>2. AllWorking \subseteq raced
      BY <3>1 DEF AgyIInv, CrossedTogether
    <3>. QED BY <1>5, <3>2 DEF AllWorking
  <2>. QED BY <2>1, <2>2 DEF CrossedTogether
<1>7. OneWriter'
  BY <1>1, <1>5 DEF AgyIInv, OneWriter, Working, Pending
<1>8. PlansFit'
  BY <1>1, <1>4, <1>5 DEF AgyIInv, PlansFit, Working
<1>9. Guarded'
  BY <1>1, <1>4 DEF AgyIInv, Guarded
<1>. QED BY <1>2, <1>3, <1>6, <1>7, <1>8, <1>9 DEF AgyIInv

LEMMA UserEditsKeeps == ASSUME AgyIInv, UserEdits PROVE AgyIInv'
<1>1. NewFile \in Inodes /\ NewFile \notin InUse
  BY NewFileIsNew DEF AgyIInv
<1>2. PICK t \in Texts : text' = [text EXCEPT ![NewFile] = t]
  <2>1. PICK t \in {Object(d, edits + 1) : d \in {{}, DenyRules}} \union {NullText, Unparseable} :
          text' = [text EXCEPT ![NewFile] = t]
    BY DEF UserEdits
  <2>2. edits + 1 \in 0..MaxEdits
    BY AgyAssumption DEF UserEdits, AgyIInv, AgyTypeOK
  <2>3. t \in Texts
    BY <2>1, <2>2, TextsTyped
  <2>. QED BY <2>1, <2>3
<1>3. name' \in [settings : Inodes \union {NoFile}, tmp : Inodes \union {NoFile}] /\ name'.settings = NewFile /\ name'.tmp = name.tmp
  BY <1>1 DEF UserEdits, AgyIInv, AgyTypeOK
<1>4. raced' = raced \union AllWorking /\ UNCHANGED launch
  BY DEF UserEdits
<1>5. AgyTypeOK'
  BY <1>1, <1>2, <1>3, <1>4, AgyAssumption DEF UserEdits, AgyIInv, AgyTypeOK, AllWorking
<1>6. NamesApart'
  BY <1>1, <1>3 DEF NamesApart, InUse
<1>7. CrossedTogether'
  BY <1>4 DEF AgyIInv, CrossedTogether, AllWorking, Working, Pending, Writing
<1>8. OneWriter' /\ PlansFit' /\ Guarded'
  <2>1. \A q \in Rounds \ raced' : launch'[q] = launch[q] /\ ~Working(q)
    BY <1>4 DEF AllWorking
  <2>. QED BY <1>4, <2>1, NobodyLeft DEF AgyIInv
<1>. QED BY <1>5, <1>6, <1>7, <1>8 DEF AgyIInv

LEMMA ReadSettingsKeeps == ASSUME AgyIInv, NEW p \in Rounds, ReadSettings(p) PROVE AgyIInv'
<1>. DEFINE old == IF name.settings = NoFile THEN Object({}, 0) ELSE text[name.settings]
<1>1. old = Settings /\ old \in Texts
  BY SettingsTyped DEF Settings, AgyIInv
<1>2. /\ UNCHANGED <<text, name, edits, kills>>
      /\ raced' = raced \union CrossedByRead(p)
      /\ launch[p].at = "idle"
  BY DEF ReadSettings, At
<1>3. CASE \E a \in {"refused", "panicked"} : To(p, a)
  <2>1. UNCHANGED <<text, name, edits>> /\ kills' \in 0..MaxKills
    BY <1>2 DEF AgyIInv, AgyTypeOK
  <2>2. raced' = raced \/ raced' = raced \union {p}
    BY <1>2 DEF CrossedByRead
  <2>. QED BY <1>3, <2>1, <2>2, LeavingKeeps
<1>4. CASE ~\E a \in {"refused", "panicked"} : To(p, a)
  <2>. DEFINE a == IF DenyRules \subseteq old.deny THEN "start" ELSE "open"
  <2>1. old.form = "object" /\ launch' = [launch EXCEPT ![p].at = a, ![p].plan = Merged(old)]
    BY <1>4 DEF ReadSettings, Merged
  <2>2. Merged(old) \in Texts
    BY <1>1, TextsTyped
  <2>. HIDE DEF old
  <2>4. /\ launch' \in [Rounds -> [at : AgyPlaces, plan : Texts, fd : Inodes \union {NoFile}, guarded : BOOLEAN]]
        /\ launch'[p].at = a /\ launch'[p].plan = Merged(old)
        /\ \A q \in Rounds \ {p} : launch'[q] = launch[q]
    BY <2>1, <2>2 DEF AgyIInv, AgyTypeOK, AgyPlaces
  <2>5. \A q \in Rounds \ {p} : /\ Working(q)' <=> Working(q)
                                /\ Pending(q)' <=> Pending(q)
                                /\ Writing(q)' <=> Writing(q)
    BY <2>4 DEF Working, Pending, Writing
  <2>6. raced' \subseteq Rounds
    BY <1>2 DEF CrossedByRead, AgyIInv, AgyTypeOK
  <2>7. AgyTypeOK'
    BY <1>2, <2>4, <2>6 DEF AgyIInv, AgyTypeOK
  <2>8. NamesApart' /\ Settings' = Settings
    BY <1>2 DEF AgyIInv, NamesApart, Settings
  <2>9. CrossedTogether'
    <3>1. p \notin raced /\ raced \subseteq Rounds
      BY <1>2 DEF AgyIInv, AgyTypeOK, CrossedTogether
    <3>2. CASE \E q \in raced : Pending(q)
      <4>1. AllWorking \subseteq raced /\ raced' = raced \union {p}
        BY <1>2, <3>2 DEF AgyIInv, CrossedTogether, CrossedByRead
      <4>2. AllWorking' \subseteq raced'
        BY <2>5, <4>1 DEF AllWorking
      <4>3. \A q \in raced' : launch'[q].at # "idle"
        BY <2>4, <3>1, <4>1 DEF AgyIInv, CrossedTogether
      <4>. QED BY <4>2, <4>3 DEF CrossedTogether
    <3>3. CASE ~\E q \in raced : Pending(q)
      <4>1. raced' = raced
        BY <1>2, <3>3 DEF CrossedByRead
      <4>2. \A q \in raced' : launch'[q] = launch[q] /\ ~Pending(q)'
        BY <2>4, <2>5, <3>1, <3>3, <4>1
      <4>. QED BY <4>1, <4>2 DEF AgyIInv, CrossedTogether
    <3>. QED BY <3>2, <3>3
  <2>10. raced \subseteq raced'
    BY <1>2
  <2>11. OneWriter'
    <3>1. ~Writing(p)'
      BY <2>4 DEF Writing
    <3>. QED BY <1>2, <2>4, <2>5, <2>10, <3>1 DEF AgyIInv, OneWriter
  <2>12. PlansFit'
    BY <1>1, <2>1, <2>4, <2>5, <2>8, <2>10 DEF AgyIInv, PlansFit
  <2>13. a = "start" => name.settings # NoFile /\ DenyRules \subseteq Settings.deny
    <3>1. Object({}, 0).deny = {} BY TextsTyped, AgyAssumption
    <3>. QED BY <1>1, <3>1, AgyAssumption DEF old
  <2>14. Guarded'
    BY <1>2, <2>4, <2>8, <2>10, <2>13 DEF AgyIInv, Guarded
  <2>. QED BY <2>7, <2>8, <2>9, <2>11, <2>12, <2>14 DEF AgyIInv
<1>. QED BY <1>3, <1>4

LEMMA OpenTmpKeeps == ASSUME AgyIInv, NEW p \in Rounds, OpenTmp(p) PROVE AgyIInv'
<1>. DEFINE i == IF name.tmp = NoFile THEN NewFile ELSE name.tmp
<1>1. i \in Inodes /\ i # name.settings /\ i # NoFile
  BY NewFileIsNew, TextsTyped DEF AgyIInv, AgyTypeOK, NamesApart, InUse
<1>2. /\ text' = [text EXCEPT ![i] = Unparseable]
      /\ name' = [name EXCEPT !.tmp = i]
      /\ launch' = [launch EXCEPT ![p].at = "write", ![p].fd = i]
      /\ UNCHANGED <<edits, kills>>
      /\ raced' = raced \union CrossedByOpen(p)
      /\ launch[p].at = "open"
  BY DEF OpenTmp, At
<1>. HIDE DEF i
<1>3. /\ text' \in [Inodes -> Texts]
      /\ text'[i] = Unparseable
      /\ \A f \in Inodes \ {i} : text'[f] = text[f]
  BY <1>1, <1>2, TextsTyped DEF AgyIInv, AgyTypeOK
<1>4. /\ name' \in [settings : Inodes \union {NoFile}, tmp : Inodes \union {NoFile}]
      /\ name'.settings = name.settings /\ name'.tmp = i
  BY <1>1, <1>2 DEF AgyIInv, AgyTypeOK
<1>5. /\ launch' \in [Rounds -> [at : AgyPlaces, plan : Texts, fd : Inodes \union {NoFile}, guarded : BOOLEAN]]
      /\ launch'[p].at = "write" /\ launch'[p].fd = i /\ launch'[p].plan = launch[p].plan
      /\ \A q \in Rounds \ {p} : launch'[q] = launch[q]
  BY <1>1, <1>2 DEF AgyIInv, AgyTypeOK, AgyPlaces
<1>6. raced' \subseteq Rounds
  BY <1>2 DEF AgyIInv, AgyTypeOK, CrossedByOpen, AllWorking
<1>7. AgyTypeOK' /\ NamesApart'
  BY <1>1, <1>2, <1>3, <1>4, <1>5, <1>6 DEF AgyIInv, AgyTypeOK, NamesApart
<1>8. Settings' = Settings
  BY <1>1, <1>3, <1>4 DEF Settings, AgyIInv, AgyTypeOK
<1>9. AllWorking' = AllWorking /\ p \in AllWorking /\ Pending(p)
  BY <1>2, <1>5 DEF AllWorking, Working, Pending, Writing
<1>10. CASE \E q \in Rounds \ {p} : Writing(q)
  <2>1. raced' = raced \union AllWorking
    BY <1>2, <1>10 DEF CrossedByOpen
  <2>2. \A q \in Rounds \ raced' : launch'[q] = launch[q] /\ ~Working(q)
    BY <1>5, <1>9, <2>1 DEF AllWorking
  <2>3. OneWriter' /\ PlansFit' /\ Guarded'
    BY <2>1, <2>2, NobodyLeft DEF AgyIInv
  <2>4. \A q \in raced' : launch'[q].at # "idle"
    BY <1>5, <1>6, <2>1 DEF AgyIInv, CrossedTogether, AllWorking, Working, Pending, Writing
  <2>5. CrossedTogether'
    BY <1>9, <2>1, <2>4 DEF CrossedTogether
  <2>. QED BY <1>7, <2>3, <2>5 DEF AgyIInv
<1>11. CASE ~\E q \in Rounds \ {p} : Writing(q)
  <2>1. raced' = raced /\ raced \subseteq Rounds
    BY <1>2, <1>11 DEF CrossedByOpen, AgyIInv, AgyTypeOK
  <2>2. \A q \in Rounds : Pending(q)' <=> Pending(q)
    BY <1>2, <1>5 DEF Pending, Writing
  <2>3. CrossedTogether'
    BY <1>5, <1>9, <2>1, <2>2 DEF AgyIInv, CrossedTogether
  <2>4. CASE p \in raced
    <3>1. AllWorking \subseteq raced
      BY <1>9, <2>4 DEF AgyIInv, CrossedTogether
    <3>2. \A q \in Rounds \ raced' : launch'[q] = launch[q] /\ ~Working(q)
      BY <1>5, <2>1, <2>4, <3>1 DEF AllWorking
    <3>3. OneWriter' /\ PlansFit' /\ Guarded'
      BY <2>1, <3>2, NobodyLeft DEF AgyIInv
    <3>. QED BY <1>7, <2>3, <3>3 DEF AgyIInv
  <2>5. CASE p \notin raced
    <3>1. \A q \in Rounds : Writing(q)' => q = p
      BY <1>5, <1>11 DEF Writing
    <3>2. OneWriter'
      BY <1>1, <1>3, <1>4, <1>5, <3>1 DEF OneWriter
    <3>3. PlansFit'
      BY <1>2, <1>5, <1>8, <2>1, <2>2 DEF AgyIInv, PlansFit
    <3>4. Guarded'
      BY <1>4, <1>5, <1>8, <2>1 DEF AgyIInv, Guarded
    <3>. QED BY <1>7, <2>3, <3>2, <3>3, <3>4 DEF AgyIInv
  <2>. QED BY <2>4, <2>5
<1>. QED BY <1>10, <1>11

LEMMA WriteTmpKeeps == ASSUME AgyIInv, NEW p \in Rounds, WriteTmp(p) PROVE AgyIInv'
<1>. DEFINE f == launch[p].fd
<1>1. PICK t \in Texts : /\ text' = [text EXCEPT ![f] = t]
                         /\ t = launch[p].plan \/ text[f] # Unparseable
  BY TextsTyped DEF WriteTmp, AgyIInv, AgyTypeOK
<1>2. /\ launch[p].at = "write"
      /\ launch' = [launch EXCEPT ![p].at = "rename"]
      /\ UNCHANGED <<name, edits, kills, raced>>
  BY DEF WriteTmp, At, To
<1>3. /\ launch' \in [Rounds -> [at : AgyPlaces, plan : Texts, fd : Inodes \union {NoFile}, guarded : BOOLEAN]]
      /\ launch'[p].at = "rename" /\ launch'[p].fd = f /\ launch'[p].plan = launch[p].plan
      /\ \A q \in Rounds \ {p} : launch'[q] = launch[q]
  BY <1>2 DEF AgyIInv, AgyTypeOK, AgyPlaces
<1>4. /\ text' \in [Inodes -> Texts]
      /\ \A g \in Inodes \ {f} : text'[g] = text[g]
  BY <1>1 DEF AgyIInv, AgyTypeOK
<1>5. AgyTypeOK' /\ NamesApart'
  BY <1>2, <1>3, <1>4 DEF AgyIInv, AgyTypeOK, NamesApart
<1>6. /\ \A q \in Rounds : Pending(q)' <=> Pending(q)
      /\ AllWorking' = AllWorking /\ Pending(p) /\ raced \subseteq Rounds
  BY <1>2, <1>3 DEF AgyIInv, AgyTypeOK, AllWorking, Working, Pending, Writing
<1>7. CrossedTogether'
  BY <1>2, <1>3, <1>6 DEF AgyIInv, CrossedTogether
<1>8. CASE p \in raced
  <2>1. \A q \in Rounds \ raced' : launch'[q] = launch[q] /\ ~Working(q)
    BY <1>2, <1>3, <1>6, <1>8 DEF AgyIInv, CrossedTogether, AllWorking
  <2>2. OneWriter' /\ PlansFit' /\ Guarded'
    BY <1>2, <2>1, NobodyLeft DEF AgyIInv
  <2>. QED BY <1>5, <1>7, <2>2 DEF AgyIInv
<1>9. CASE p \notin raced
  <2>1. /\ name.tmp # NoFile /\ f = name.tmp
        /\ \A q \in Rounds : Writing(q) => q = p
        /\ text[f] = Unparseable
    BY <1>2, <1>9 DEF AgyIInv, OneWriter, Writing
  <2>2. f \in Inodes /\ f # name.settings /\ text'[f] = launch[p].plan
    BY <1>1, <2>1 DEF AgyIInv, AgyTypeOK, NamesApart
  <2>3. Settings' = Settings
    BY <1>2, <1>4, <2>2 DEF Settings, AgyIInv, AgyTypeOK
  <2>4. \A q \in Rounds : Writing(q)' => q = p
    BY <1>3, <2>1 DEF Writing
  <2>5. OneWriter'
    BY <1>2, <1>3, <2>1, <2>2, <2>4 DEF OneWriter
  <2>6. PlansFit'
    BY <1>2, <1>3, <1>6, <2>3 DEF AgyIInv, PlansFit
  <2>7. Guarded'
    BY <1>2, <1>3, <2>3 DEF AgyIInv, Guarded
  <2>. QED BY <1>5, <1>7, <2>5, <2>6, <2>7 DEF AgyIInv
<1>. QED BY <1>8, <1>9

LEMMA RenameKeeps == ASSUME AgyIInv, NEW p \in Rounds, Rename(p) PROVE AgyIInv'
<1>1. CASE name.tmp = NoFile
  <2>1. To(p, "refused") /\ UNCHANGED <<text, name, edits, raced>> /\ kills' \in 0..MaxKills
    BY <1>1 DEF Rename, AgyIInv, AgyTypeOK
  <2>. QED BY <2>1, LeavingKeeps
<1>2. CASE name.tmp # NoFile
  <2>1. /\ launch[p].at = "rename"
        /\ launch' = [launch EXCEPT ![p].at = "start"]
        /\ name' = [settings |-> name.tmp, tmp |-> NoFile]
        /\ UNCHANGED <<text, edits, kills, raced>>
    BY <1>2 DEF Rename, At, To
  <2>2. /\ launch' \in [Rounds -> [at : AgyPlaces, plan : Texts, fd : Inodes \union {NoFile}, guarded : BOOLEAN]]
        /\ launch'[p].at = "start"
        /\ \A q \in Rounds \ {p} : launch'[q] = launch[q]
    BY <2>1 DEF AgyIInv, AgyTypeOK, AgyPlaces
  <2>3. AgyTypeOK' /\ NamesApart'
    BY <2>1, <2>2 DEF AgyIInv, AgyTypeOK, NamesApart
  <2>4. /\ \A q \in Rounds : Pending(q)' => Pending(q)
        /\ AllWorking' = AllWorking /\ Pending(p) /\ raced \subseteq Rounds
    BY <2>1, <2>2 DEF AgyIInv, AgyTypeOK, AllWorking, Working, Pending, Writing
  <2>5. CrossedTogether'
    BY <2>1, <2>2, <2>4 DEF AgyIInv, CrossedTogether
  <2>6. CASE p \in raced
    <3>1. \A q \in Rounds \ raced' : launch'[q] = launch[q] /\ ~Working(q)
      BY <2>1, <2>2, <2>4, <2>6 DEF AgyIInv, CrossedTogether, AllWorking
    <3>2. OneWriter' /\ PlansFit' /\ Guarded'
      BY <2>1, <3>1, NobodyLeft DEF AgyIInv
    <3>. QED BY <2>3, <2>5, <3>2 DEF AgyIInv
  <2>7. CASE p \notin raced
    <3>2. /\ \A q \in Rounds : Writing(q) => q = p
          /\ text[name.tmp] = launch[p].plan
      BY <2>1, <2>7 DEF AgyIInv, OneWriter, Writing
    <3>3. Settings' = Merged(Settings) /\ Settings.form = "object"
      BY <1>2, <2>1, <2>4, <2>7, <3>2 DEF AgyIInv, PlansFit, Settings
    <3>4. /\ Settings'.form = "object" /\ DenyRules \subseteq Settings'.deny
          /\ Settings.deny \subseteq Settings'.deny /\ Merged(Settings') = Merged(Settings)
      BY <3>3, SettingsTyped, TextsTyped DEF AgyIInv
    <3>5. OneWriter'
      BY <2>2, <3>2 DEF OneWriter, Writing
    <3>6. PlansFit'
      <4>1. ~Pending(p)'
        BY <2>2 DEF Pending, Writing
      <4>. QED BY <2>1, <2>2, <2>4, <3>4, <4>1 DEF AgyIInv, PlansFit
    <3>7. Guarded'
      BY <1>2, <2>1, <2>2, <3>4 DEF AgyIInv, Guarded
    <3>. QED BY <2>3, <2>5, <3>5, <3>6, <3>7 DEF AgyIInv
  <2>. QED BY <2>6, <2>7
<1>. QED BY <1>1, <1>2

LEMMA runAgyKeeps == ASSUME AgyIInv, NEW p \in Rounds, runAgy(p) PROVE AgyIInv'
<1>. DEFINE g == name.settings # NoFile /\ DenyRules \subseteq text[name.settings].deny
<1>1. /\ launch[p].at = "start"
      /\ launch' = [launch EXCEPT ![p].at = "running", ![p].fd = NoFile, ![p].guarded = g]
      /\ UNCHANGED <<text, name, edits, kills, raced>>
  BY DEF runAgy, At
<1>2. g \in BOOLEAN /\ (p \notin raced => g)
  BY <1>1 DEF AgyIInv, Guarded, Settings
<1>. HIDE DEF g
<1>3. /\ launch' \in [Rounds -> [at : AgyPlaces, plan : Texts, fd : Inodes \union {NoFile}, guarded : BOOLEAN]]
      /\ launch'[p].at = "running" /\ launch'[p].guarded = g
      /\ \A q \in Rounds \ {p} : launch'[q] = launch[q]
  <2>. DEFINE k == launch[p]
              n == [at |-> "running", plan |-> k.plan, fd |-> NoFile, guarded |-> g]
  <2>1. k \in [at : AgyPlaces, plan : Texts, fd : Inodes \union {NoFile}, guarded : BOOLEAN]
    BY DEF AgyIInv, AgyTypeOK
  <2>2. launch' = [launch EXCEPT ![p] = [k EXCEPT !.at = "running", !.fd = NoFile, !.guarded = g]]
    BY <1>1
  <2>. HIDE DEF k
  <2>3. n \in [at : AgyPlaces, plan : Texts, fd : Inodes \union {NoFile}, guarded : BOOLEAN]
    BY <1>2, <2>1 DEF AgyPlaces
  <2>4. [k EXCEPT !.at = "running", !.fd = NoFile, !.guarded = g] = n
    <3>. DEFINE m == [k EXCEPT !.at = "running", !.fd = NoFile, !.guarded = g]
    <3>1. m \in [at : AgyPlaces, plan : Texts, fd : Inodes \union {NoFile}, guarded : BOOLEAN]
      BY <1>2, <2>1 DEF AgyPlaces
    <3>2. m.at = "running" /\ m.plan = k.plan /\ m.fd = NoFile /\ m.guarded = g
      BY <2>1
    <3>. HIDE DEF m
    <3>3. m = n
      BY <3>1, <3>2
    <3>. QED BY <3>3 DEF m
  <2>5. n.at = "running" /\ n.guarded = g
    OBVIOUS
  <2>. HIDE DEF n
  <2>6. launch' = [launch EXCEPT ![p] = n]
    BY <2>2, <2>4
  <2>. QED BY <2>3, <2>5, <2>6 DEF AgyIInv, AgyTypeOK
<1>4. AgyTypeOK' /\ NamesApart' /\ Settings' = Settings
  BY <1>1, <1>3 DEF AgyIInv, AgyTypeOK, NamesApart, Settings
<1>5. \A q \in Rounds : (Pending(q)' => Pending(q)) /\ (Writing(q)' => Writing(q)) /\ (Working(q)' => Working(q))
  BY <1>3 DEF Working, Pending, Writing
<1>6. CrossedTogether'
  BY <1>1, <1>3, <1>5 DEF AgyIInv, AgyTypeOK, CrossedTogether, AllWorking
<1>7. OneWriter'
  <2>1. ~Writing(p)'
    BY <1>3 DEF Writing
  <2>. QED BY <1>1, <1>3, <1>5, <2>1 DEF AgyIInv, OneWriter
<1>8. PlansFit'
  <2>1. ~Pending(p)'
    BY <1>3 DEF Pending, Writing
  <2>. QED BY <1>1, <1>3, <1>4, <1>5, <2>1 DEF AgyIInv, PlansFit
<1>9. Guarded'
  BY <1>1, <1>2, <1>3, <1>4 DEF AgyIInv, Guarded
<1>. QED BY <1>4, <1>6, <1>7, <1>8, <1>9 DEF AgyIInv

LEMMA AgyStepKeeps == AgyIInv /\ [AgyNext]_agyVars => AgyIInv'
<1>. SUFFICES ASSUME AgyIInv, [AgyNext]_agyVars PROVE AgyIInv'
  OBVIOUS
<1>1. CASE UNCHANGED agyVars
  BY <1>1 DEF agyVars, AgyIInv, AgyTypeOK, NamesApart, CrossedTogether, AllWorking, OneWriter, PlansFit, Guarded,
       Working, Writing, Pending, Settings
<1>2. ASSUME NEW p \in Rounds, WriteFails(p) \/ KillLaunch(p) PROVE AgyIInv'
  <2>1. \E a \in {"refused", "killed"} : To(p, a)
    BY <1>2 DEF WriteFails, KillLaunch
  <2>2. UNCHANGED <<text, name, edits, raced>>
    BY <1>2 DEF WriteFails, KillLaunch
  <2>3. kills' \in 0..MaxKills
    BY <1>2, AgyAssumption DEF WriteFails, KillLaunch, AgyIInv, AgyTypeOK
  <2>. QED BY <2>1, <2>2, <2>3, LeavingKeeps
<1>. QED BY <1>1, <1>2, UserEditsKeeps, ReadSettingsKeeps, OpenTmpKeeps, WriteTmpKeeps, RenameKeeps, runAgyKeeps
     DEF AgyNext

(* For any number of launches, edits and kills: an agy round that starts   *)
(* has every deny rule in the settings agy reads, unless two launches wrote *)
(* at once while it worked or the user edited under it.                    *)
THEOREM RoundsStartGuarded == AgySpec => []AgyStartsGuarded
<1>1. AgyInit => AgyIInv BY AgyInitHolds
<1>2. AgyIInv /\ [AgyNext]_agyVars => AgyIInv' BY AgyStepKeeps
<1>3. AgyIInv => AgyStartsGuarded
  BY DEF AgyIInv, Guarded, AgyStartsGuarded, At
<1>. QED BY <1>1, <1>2, <1>3, PTL DEF AgySpec

(* What a step does to the settings the user has.                          *)
LEMMA SettingsGrow ==
  ASSUME AgyIInv, [AgyNext]_agyVars, ~UserEdits, \A p \in raced : launch'[p] = launch[p]
  PROVE  /\ Settings'.form = Settings.form
         /\ Settings'.keys = Settings.keys
         /\ Settings.deny \subseteq Settings'.deny
<1>1. SUFFICES Settings' = Settings \/ Settings' = Merged(Settings)
  BY SettingsTyped, TextsTyped DEF AgyIInv
<1>2. CASE UNCHANGED <<text, name>>
  BY <1>2 DEF Settings
<1>3. ASSUME NEW p \in Rounds, OpenTmp(p) PROVE Settings' = Settings
  <2>. DEFINE i == IF name.tmp = NoFile THEN NewFile ELSE name.tmp
  <2>1. i \in Inodes /\ i # name.settings
    BY NewFileIsNew, TextsTyped DEF AgyIInv, AgyTypeOK, NamesApart, InUse
  <2>2. text' = [text EXCEPT ![i] = Unparseable] /\ name' = [name EXCEPT !.tmp = i]
    BY <1>3 DEF OpenTmp
  <2>. HIDE DEF i
  <2>. QED BY <2>1, <2>2 DEF Settings, AgyIInv, AgyTypeOK
<1>4. ASSUME NEW p \in Rounds, WriteTmp(p) PROVE Settings' = Settings
  <2>1. p \notin raced /\ UNCHANGED name /\ launch[p].at = "write"
    BY <1>4 DEF WriteTmp, At, To, AgyIInv, AgyTypeOK
  <2>2. launch[p].fd = name.tmp /\ name.tmp # NoFile
    BY <2>1 DEF AgyIInv, OneWriter, Writing
  <2>3. launch[p].fd # name.settings
    BY <2>2 DEF AgyIInv, NamesApart
  <2>4. \E t : text' = [text EXCEPT ![launch[p].fd] = t]
    BY <1>4 DEF WriteTmp
  <2>. QED BY <2>1, <2>3, <2>4 DEF Settings, AgyIInv, AgyTypeOK
<1>5. ASSUME NEW p \in Rounds, Rename(p), name.tmp # NoFile PROVE Settings' = Merged(Settings)
  <2>1. /\ launch[p].at = "rename" /\ p \notin raced
        /\ name' = [settings |-> name.tmp, tmp |-> NoFile] /\ UNCHANGED text
    BY <1>5 DEF Rename, At, To, AgyIInv, AgyTypeOK
  <2>2. text[name.tmp] = launch[p].plan /\ launch[p].plan = Merged(Settings)
    BY <2>1 DEF AgyIInv, OneWriter, PlansFit, Writing, Pending
  <2>. QED BY <1>5, <2>1, <2>2 DEF Settings
<1>6. ASSUME NEW p \in Rounds, Rename(p), name.tmp = NoFile PROVE UNCHANGED <<text, name>>
  BY <1>6 DEF Rename
<1>7. ASSUME NEW p \in Rounds, ReadSettings(p) \/ WriteFails(p) \/ runAgy(p) \/ KillLaunch(p)
      PROVE  UNCHANGED <<text, name>>
  BY <1>7 DEF ReadSettings, WriteFails, runAgy, KillLaunch
<1>. QED BY <1>2, <1>3, <1>4, <1>5, <1>6, <1>7 DEF AgyNext, agyVars

(* For any number of launches, edits and kills: the guard adds its rules   *)
(* and changes nothing else, but for the user's steps and those of a       *)
(* launch that was crossed.                                                *)
THEOREM GuardKeepsTheRest == AgySpec => GuardOnlyAdds
<1>. DEFINE Grown == \/ UserEdits
                     \/ \E p \in raced : launch'[p] # launch[p]
                     \/ /\ Settings'.form = Settings.form
                        /\ Settings'.keys = Settings.keys
                        /\ Settings.deny \subseteq Settings'.deny
<1>1. AgyInit => AgyIInv BY AgyInitHolds
<1>2. AgyIInv /\ [AgyNext]_agyVars => AgyIInv' BY AgyStepKeeps
<1>3. AgyIInv /\ [AgyNext]_agyVars => [Grown]_agyVars
  BY SettingsGrow
<1>. QED BY <1>1, <1>2, <1>3, PTL DEF AgySpec, GuardOnlyAdds

(***************************************************************************)
(* outsource's own configuration: what a command does to the keys it was not *)
(* asked about, for any commands, any shells and any file the user starts  *)
(* from.                                                                   *)
(***************************************************************************)

WellFormed(t) == t \in {NoConfig, Blank, Broken} \/ t = Holds(t.values)

ConfigTyped ==
  /\ shell = [s \in Shells |-> shell[s]]
  /\ WellFormed(config)

(* A value about to be stored has passed the rule load will apply to it,   *)
SetIsJudged ==
  \A s \in Shells :
     shell[s].at # "idle" /\ shell[s].command.verb = "set" =>
        checkField(shell[s].command.key[Len(shell[s].command.key)], shell[s].command.value)

(* and the file it goes into was one that loads.                           *)
SawIsLoadable ==
  \A s \in Shells :
     shell[s].at = "write" => WellFormed(shell[s].saw) /\ loadFile(shell[s].saw).ok

(* A command under way is one of the commands, and one that will write is a *)
(* set or an unset.                                                        *)
CommandsKnown ==
  \A s \in Shells :
     /\ shell[s].at # "idle" => shell[s].command \in Commands /\ shell[s].command.verb \in {"list", "get", "set", "unset"}
     /\ shell[s].at = "write" => shell[s].command.verb \in {"set", "unset"}

(* The key a command is about, and the values it read.                     *)
Key(s) == shell[s].command.key
Seen(s) == loadFile(shell[s].saw).values

(* However many commands wrote since: while one is about to write, the     *)
(* file loads and differs from what that one read in keys of commands only. *)
StillFits ==
  \A s \in Shells :
     shell[s].at = "write" => loadFile(config).ok /\ SameBut(Named, Seen(s), config.values)

ConfigIInv == ConfigTyped /\ SetIsJudged /\ SawIsLoadable /\ CommandsKnown /\ StillFits

(* Holding the same is an equivalence.                                     *)
LEMMA SameButIs ==
  ASSUME NEW K, NEW f, NEW g, NEW h
  PROVE  /\ SameBut(K, f, f)
         /\ SameBut(K, f, g) => SameBut(K, g, f)
         /\ SameBut(K, f, g) /\ SameBut(K, g, h) => SameBut(K, f, h)
         /\ \A L : L \subseteq K /\ SameBut(L, f, g) => SameBut(K, f, g)
<1>1. SameBut(K, f, f)
  BY DEF SameBut
<1>2. SameBut(K, f, g) => SameBut(K, g, f)
  BY DEF SameBut
<1>3. ASSUME SameBut(K, f, g), SameBut(K, g, h) PROVE SameBut(K, f, h)
  BY <1>3 DEF SameBut
<1>4. ASSUME NEW L, L \subseteq K, SameBut(L, f, g) PROVE SameBut(K, f, g)
  BY <1>4 DEF SameBut
<1>. QED BY <1>1, <1>2, <1>3, <1>4

(* What loads holds its values as they stand.                              *)
LEMMA LoadsAsItStands ==
  ASSUME NEW t, WellFormed(t), loadFile(t).ok
  PROVE  loadFile(t).values = t.values /\ t.form # "broken"
BY DEF loadFile, WellFormed, Holds, NoConfig, Blank, Broken

LEMMA ReadyIsIdle == Ready.at = "idle"
BY DEF Ready, Stage

LEMMA ConfigInitHolds == ConfigInit => ConfigIInv
<1>. SUFFICES ASSUME ConfigInit PROVE ConfigIInv
  OBVIOUS
<1>1. shell = [s \in Shells |-> Ready]
  BY DEF ConfigInit
<1>2. \A s \in Shells : shell[s].at = "idle"
  BY <1>1, ReadyIsIdle
<1>3. WellFormed(config)
  BY FirstFilesAssumption DEF ConfigInit, WellFormed
<1>. QED BY <1>1, <1>2, <1>3 DEF ConfigIInv, ConfigTyped, SetIsJudged, SawIsLoadable, CommandsKnown, StillFits

(* What a write leaves on disk.                                            *)
LEMMA WriteOutcome ==
  ASSUME ConfigIInv, NEW s \in Shells, write(s)
  PROVE  /\ config' = Holds(config'.values)
         /\ loadFile(config').ok
         /\ (Key(s) \in DOMAIN config'.values) <=> shell[s].command.verb = "set"
         /\ DOMAIN config'.values \subseteq DOMAIN Seen(s) \union {Key(s)}
         /\ DOMAIN Seen(s) \ {Key(s)} \subseteq DOMAIN config'.values
         /\ \A n \in DOMAIN Seen(s) \ {Key(s)} : config'.values[n] = Seen(s)[n]
<1>. DEFINE k == Key(s)
            old == Seen(s)
            c == shell[s].command
            saw == shell[s].saw
<1>1. shell[s].at = "write" /\ WellFormed(saw) /\ loadFile(saw).ok
  BY DEF ConfigIInv, SawIsLoadable, write
<1>2. config' = Holds(IF c.verb = "set" THEN set(old, k, c.value) ELSE unset(old, k))
  BY DEF write, Key, Seen
<1>3. config'.values = IF c.verb = "set" THEN set(old, k, c.value) ELSE unset(old, k)
  BY <1>2 DEF Holds
<1>3a. config' = Holds(config'.values)
  BY <1>2, <1>3
<1>4. \A n \in DOMAIN old : Len(n) > 1 => checkField(n[Len(n)], old[n])
  <2>1. CASE saw \in {NoConfig, Blank}
    BY <2>1 DEF loadFile, NoConfig, Blank, Seen
  <2>2. CASE saw \notin {NoConfig, Blank}
    BY <1>1, <2>2 DEF loadFile, WellFormed, Holds, Broken, NoConfig, Blank, Seen
  <2>. QED BY <2>1, <2>2
<1>5. c.verb = "set" => checkField(k[Len(k)], c.value)
  BY <1>1 DEF ConfigIInv, SetIsJudged, Key
<1>. HIDE DEF k, old
<1>6. CASE c.verb = "set"
  <2>1. /\ DOMAIN config'.values = DOMAIN old \union {k}
        /\ config'.values[k] = c.value
        /\ \A n \in DOMAIN old \ {k} : config'.values[n] = old[n]
    BY <1>3, <1>6 DEF set
  <2>2. checkField(k[Len(k)], c.value)
    BY <1>5, <1>6
  <2>3. \A n \in DOMAIN config'.values : Len(n) > 1 => checkField(n[Len(n)], config'.values[n])
    BY <1>4, <2>1, <2>2
  <2>4. loadFile(config').ok
    BY <1>2, <2>3 DEF loadFile, Holds
  <2>. QED BY <1>3a, <1>6, <2>1, <2>4 DEF k, old
<1>7. CASE c.verb # "set"
  <2>1. /\ DOMAIN config'.values = DOMAIN old \ {k}
        /\ \A n \in DOMAIN old \ {k} : config'.values[n] = old[n]
    BY <1>3, <1>7 DEF unset, Restrict
  <2>2. \A n \in DOMAIN config'.values : Len(n) > 1 => checkField(n[Len(n)], config'.values[n])
    BY <1>4, <2>1
  <2>3. loadFile(config').ok
    BY <1>2, <2>2 DEF loadFile, Holds
  <2>. QED BY <1>3a, <1>7, <2>1, <2>3 DEF k, old
<1>. QED BY <1>6, <1>7 DEF k, old

(* The file a write leaves, beside the one that command had read, and      *)
(* beside the one it replaces.                                             *)
LEMMA WriteIsNear ==
  ASSUME ConfigIInv, NEW s \in Shells, write(s)
  PROVE  /\ SameBut({Key(s)}, Seen(s), config'.values)
         /\ SameBut(Named, config.values, config'.values)
<1>1. shell[s].at = "write"
  BY DEF write
<1>2. SameBut({Key(s)}, Seen(s), config'.values)
  BY WriteOutcome DEF SameBut
<1>3. Key(s) \in Named
  BY <1>1 DEF ConfigIInv, CommandsKnown, Named, Key
<1>4. SameBut(Named, Seen(s), config'.values)
  BY <1>2, <1>3, SameButIs
<1>5. SameBut(Named, config.values, Seen(s))
  BY <1>1, SameButIs DEF ConfigIInv, StillFits
<1>. QED BY <1>2, <1>4, <1>5, SameButIs

LEMMA ConfigStepKeeps == ConfigIInv /\ [ConfigNext]_configVars => ConfigIInv'
<1>. SUFFICES ASSUME ConfigIInv, [ConfigNext]_configVars PROVE ConfigIInv'
  OBVIOUS
<1>. USE DEF ConfigIInv
<1>1. CASE UNCHANGED configVars
  BY <1>1 DEF configVars, ConfigTyped, SetIsJudged, SawIsLoadable, CommandsKnown, StillFits, Seen
<1>2. ASSUME NEW s \in Shells, ConfigMain(s) PROVE ConfigIInv'
  <2>1. PICK c \in Commands :
          /\ c.verb \in {"list", "get", "set", "unset"}
          /\ c.verb = "set" => parseValue(c.key, c.value)
          /\ shell' = [shell EXCEPT ![s] = Stage("load", c, NoConfig)]
    BY <1>2 DEF ConfigMain, Proceeds
  <2>2. /\ shell'[s].at = "load" /\ shell'[s].command = c
        /\ \A t \in Shells \ {s} : shell'[t] = shell[t]
    BY <2>1 DEF ConfigTyped, Stage
  <2>3. c.verb = "set" => checkField(c.key[Len(c.key)], c.value)
    BY <2>1 DEF parseValue
  <2>4. UNCHANGED config
    BY <1>2 DEF ConfigMain
  <2>5. ConfigTyped'
    BY <2>1, <2>4 DEF ConfigTyped, WellFormed
  <2>6. SetIsJudged'
    BY <2>2, <2>3 DEF SetIsJudged
  <2>7. SawIsLoadable'
    BY <2>2 DEF SawIsLoadable
  <2>8. CommandsKnown'
    BY <2>1, <2>2 DEF CommandsKnown
  <2>9. StillFits'
    BY <2>2, <2>4 DEF StillFits, Seen
  <2>. QED BY <2>5, <2>6, <2>7, <2>8, <2>9
<1>3. ASSUME NEW s \in Shells, Exits(s), WellFormed(config)',
             \A t \in Shells \ {s} : shell[t].at = "write" =>
                 loadFile(config').ok /\ SameBut(Named, Seen(t), config'.values)
      PROVE  ConfigIInv'
  <2>1. /\ shell'[s].at = "idle"
        /\ \A t \in Shells \ {s} : shell'[t] = shell[t]
    BY <1>3, ReadyIsIdle DEF Exits, ConfigTyped
  <2>2. ConfigTyped'
    BY <1>3 DEF Exits, ConfigTyped
  <2>3. SetIsJudged'
    BY <2>1 DEF SetIsJudged
  <2>4. SawIsLoadable'
    BY <2>1 DEF SawIsLoadable
  <2>5. CommandsKnown'
    BY <2>1 DEF CommandsKnown
  <2>6. StillFits'
    BY <1>3, <2>1 DEF StillFits, Seen
  <2>. QED BY <2>2, <2>3, <2>4, <2>5, <2>6
<1>4. ASSUME NEW s \in Shells, load(s) PROVE ConfigIInv'
  <2>1. UNCHANGED config
    BY <1>4 DEF load
  <2>2. WellFormed(config) /\ WellFormed(config)'
    BY <2>1 DEF ConfigTyped
  <2>3. CASE Exits(s)
    BY <1>3, <2>1, <2>2, <2>3 DEF StillFits
  <2>4. CASE ~Exits(s)
    <3>1. /\ loadFile(config).ok /\ shell[s].at = "load"
          /\ shell[s].command.verb \notin {"get", "list"}
          /\ shell' = [shell EXCEPT ![s] = Stage("write", shell[s].command, config)]
      BY <1>4, <2>4 DEF load, Proceeds
    <3>2. /\ shell'[s].at = "write" /\ shell'[s].saw = config /\ shell'[s].command = shell[s].command
          /\ \A t \in Shells \ {s} : shell'[t] = shell[t]
      BY <3>1 DEF ConfigTyped, Stage
    <3>3. ConfigTyped'
      BY <2>2, <3>1 DEF ConfigTyped
    <3>4. SetIsJudged'
      BY <3>1, <3>2 DEF SetIsJudged
    <3>5. SawIsLoadable'
      BY <2>2, <3>1, <3>2 DEF SawIsLoadable
    <3>6. CommandsKnown'
      BY <3>1, <3>2 DEF CommandsKnown
    <3>7. Seen(s)' = config.values
      BY <2>2, <3>1, <3>2, LoadsAsItStands DEF Seen
    <3>8. SameBut(Named, Seen(s)', config.values)
      BY <3>7, SameButIs
    <3>9. StillFits'
      <4>1. \A t \in Shells \ {s} : Seen(t)' = Seen(t)
        BY <3>2 DEF Seen
      <4>. QED BY <2>1, <3>1, <3>2, <3>8, <4>1 DEF StillFits
    <3>. QED BY <3>3, <3>4, <3>5, <3>6, <3>9
  <2>. QED BY <2>3, <2>4
<1>5. ASSUME NEW s \in Shells, write(s) PROVE ConfigIInv'
  <2>1. config' = Holds(config'.values) /\ loadFile(config').ok
    BY <1>5, WriteOutcome
  <2>2. WellFormed(config)'
    BY <2>1 DEF WellFormed
  <2>3. SameBut(Named, config.values, config'.values)
    BY <1>5, WriteIsNear
  <2>4. ASSUME NEW t \in Shells, shell[t].at = "write" PROVE SameBut(Named, Seen(t), config'.values)
    <3>1. SameBut(Named, Seen(t), config.values)
      BY <2>4 DEF StillFits
    <3>. QED BY <2>3, <3>1, SameButIs
  <2>. QED BY <1>3, <1>5, <2>1, <2>2, <2>4 DEF write
<1>6. ASSUME NEW s \in Shells, WriteFailed(s) PROVE ConfigIInv'
  <2>1. UNCHANGED config /\ Exits(s)
    BY <1>6 DEF WriteFailed
  <2>2. WellFormed(config)'
    BY <2>1 DEF ConfigTyped, WellFormed
  <2>. QED BY <1>3, <2>1, <2>2 DEF StillFits
<1>. QED BY <1>1, <1>2, <1>4, <1>5, <1>6 DEF ConfigNext

(* What OnlyItsKey says of one step.                                       *)
LEMMA WriteKeepsTheRest ==
  ASSUME ConfigIInv, NEW s \in Shells, write(s)
  PROVE  /\ config.form # "broken" /\ loadFile(config').ok
         /\ (Key(s) \in DOMAIN config'.values) <=> shell[s].command.verb = "set"
         /\ SameBut(IF config = shell[s].saw THEN {Key(s)} ELSE Named, config.values, config'.values)
         /\ link' = link \/ link = "dangling"
<1>1. shell[s].at = "write" /\ WellFormed(config) /\ loadFile(config).ok
  BY DEF ConfigIInv, ConfigTyped, StillFits, write
<1>2. config.form # "broken" /\ loadFile(config).values = config.values
  BY <1>1, LoadsAsItStands
<1>3. link' = link \/ link = "dangling"
  BY DEF write
<1>4. config = shell[s].saw => SameBut({Key(s)}, config.values, config'.values)
  BY <1>2, WriteIsNear DEF Seen
<1>5. SameBut(Named, config.values, config'.values)
  BY WriteIsNear
<1>. QED BY <1>2, <1>3, <1>4, <1>5, WriteOutcome

(* For any commands and shells, however they overlap: a write leaves a file *)
(* that loads, does what its command says, and keeps every value no command *)
(* is about; and when nobody overtook it, every value but its own.         *)
THEOREM CommandsKeepTheRest == ConfigSpec => OnlyItsKey
<1>. DEFINE Kept ==
       \A s \in Shells : write(s) =>
           LET k == shell[s].command.key
           IN  /\ config.form # "broken" /\ loadFile(config').ok
               /\ (k \in DOMAIN config'.values) <=> shell[s].command.verb = "set"
               /\ SameBut(IF config = shell[s].saw THEN {k} ELSE Named, config.values, config'.values)
               /\ link' = link \/ link = "dangling"
<1>1. ConfigInit => ConfigIInv BY ConfigInitHolds
<1>2. ConfigIInv /\ [ConfigNext]_configVars => ConfigIInv' BY ConfigStepKeeps
<1>3. ConfigIInv => Kept
  BY WriteKeepsTheRest DEF Key
<1>4. ConfigIInv /\ [ConfigNext]_configVars => [Kept]_configVars
  BY <1>3
<1>. QED BY <1>1, <1>2, <1>4, PTL DEF ConfigSpec, OnlyItsKey
===============================================================================
