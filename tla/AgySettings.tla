----------------------------- MODULE AgySettings -----------------------------
(***************************************************************************)
(* The git guard of an agy round: deny rules that agyEnsureGitGuard merges *)
(* into the one settings file agy reads, for every launch on the machine   *)
(* and the user's own sessions too.  It reads, merges, writes a temporary  *)
(* file whose name all launches share, and renames it.                     *)
(*                                                                         *)
(* A file is an inode with a text; a name refers to an inode or to none.   *)
(* A descriptor keeps its inode whatever the name means meanwhile.         *)
(***************************************************************************)
EXTENDS Naturals, FiniteSets

CONSTANTS
    Rounds,      \* launches of the agy harness
    DenyRules,   \* agyGitDenyRules
    MaxEdits,    \* bound: edits by the user
    MaxKills     \* bound: launches killed, and writes that fail

ASSUME AgyAssumption ==
    /\ IsFiniteSet(Rounds)
    /\ DenyRules # {}
    /\ MaxEdits \in Nat /\ MaxKills \in Nat

VARIABLES
    text,        \* the text of each inode
    name,        \* the inode settings.json and its temporary name refer to
    launch,      \* what each launch is at
    edits,       \* edits so far
    kills,       \* kills and failed writes so far
    raced        \* history: the launches that another writer may have crossed

agyVars == <<text, name, launch, edits, kills, raced>>

\* A text is an object with a deny list and the user's other keys, of which only
\* the version matters; or JSON null; or something that does not parse.
Object(deny, keys) == [form |-> "object", deny |-> deny, keys |-> keys]
NullText == [form |-> "null", deny |-> {}, keys |-> 0]
Unparseable == [form |-> "unparseable", deny |-> {}, keys |-> 0]
Texts == [form : {"object", "null", "unparseable"}, deny : SUBSET DenyRules, keys : 0..MaxEdits]

NoFile == 0
Inodes == 1..(Cardinality(Rounds) + 3)
InUse == {name.settings, name.tmp} \union {launch[p].fd : p \in Rounds}
NewFile == CHOOSE i \in Inodes : i \notin InUse

Waiting == [at |-> "idle", plan |-> Unparseable, fd |-> NoFile, guarded |-> TRUE]

AgyInit ==
    /\ text = [i \in Inodes |-> Object({}, 0)]
    /\ name = [settings |-> NoFile, tmp |-> NoFile]
    /\ launch = [p \in Rounds |-> Waiting]
    /\ edits = 0
    /\ kills = 0
    /\ raced = {}

At(p, at) == launch[p].at = at
To(p, at) == launch' = [launch EXCEPT ![p].at = at]
Writing(p) == launch[p].at \in {"write", "rename"}
Pending(p) == Writing(p) \/ launch[p].at = "open"
Working(p) == Pending(p) \/ launch[p].at = "start"

\* A launch is crossed when the user edits between its read and its agy's
\* start; when two launches are between open and rename at once, both and all
\* that work then; and when a crossed launch is still to rename as it reads.
AllWorking == {q \in Rounds : Working(q)}
CrossedByOpen(p) == IF \E q \in Rounds \ {p} : Writing(q) THEN AllWorking ELSE {}
CrossedByRead(p) == IF \E q \in raced : Pending(q) THEN {p} ELSE {}

\* The user, or agy itself, replaces the settings.
UserEdits ==
    /\ edits < MaxEdits
    /\ \E t \in {Object(d, edits + 1) : d \in {{}, DenyRules}} \union {NullText, Unparseable} :
           text' = [text EXCEPT ![NewFile] = t]
    /\ name' = [name EXCEPT !.settings = NewFile]
    /\ edits' = edits + 1
    /\ raced' = raced \union AllWorking
    /\ UNCHANGED <<launch, kills>>

(* Mutant of ReadSettings: a guard that cannot be written is only a warning. *)
ReadSettingsRunsOn(p) ==
    /\ At(p, "idle")
    /\ LET old == IF name.settings = NoFile THEN Object({}, 0) ELSE text[name.settings]
       IN  IF old.form # "object" THEN To(p, "start")
           ELSE launch' = [launch EXCEPT
                    ![p].at = IF DenyRules \subseteq old.deny THEN "start" ELSE "open",
                    ![p].plan = [old EXCEPT !.deny = @ \union DenyRules]]
    /\ raced' = raced \union CrossedByRead(p)
    /\ UNCHANGED <<text, name, edits, kills>>

\* What is read has every rule already or gets the missing ones; a null document
\* is a nil map, and the merge panics on it.  A file that does not parse, and any
\* that is there and cannot be read just now, is refused.
ReadSettings(p) ==
    /\ At(p, "idle")
    /\ LET old == IF name.settings = NoFile THEN Object({}, 0) ELSE text[name.settings]
       IN  \/ name.settings # NoFile /\ To(p, "refused")
           \/ old.form = "null" /\ To(p, "panicked")
           \/ /\ old.form = "object"
              /\ launch' = [launch EXCEPT
                     ![p].at = IF DenyRules \subseteq old.deny THEN "start" ELSE "open",
                     ![p].plan = [old EXCEPT !.deny = @ \union DenyRules]]
    /\ raced' = raced \union CrossedByRead(p)
    /\ UNCHANGED <<text, name, edits, kills>>

(* Mutant of OpenTmp: the settings file itself is opened for writing. *)
OpenInPlace(p) ==
    /\ At(p, "open")
    /\ LET i == IF name.settings = NoFile THEN NewFile ELSE name.settings
       IN  /\ text' = [text EXCEPT ![i] = Unparseable]
           /\ name' = [name EXCEPT !.settings = i, !.tmp = i]
           /\ launch' = [launch EXCEPT ![p].at = "write", ![p].fd = i]
    /\ raced' = raced \union CrossedByOpen(p)
    /\ UNCHANGED <<edits, kills>>

\* os.WriteFile opens with O_CREATE and O_TRUNC: an inode that has the temporary
\* name already is emptied, whoever holds it.
OpenTmp(p) ==
    /\ At(p, "open")
    /\ LET i == IF name.tmp = NoFile THEN NewFile ELSE name.tmp
       IN  /\ text' = [text EXCEPT ![i] = Unparseable]
           /\ name' = [name EXCEPT !.tmp = i]
           /\ launch' = [launch EXCEPT ![p].at = "write", ![p].fd = i]
    /\ raced' = raced \union CrossedByOpen(p)
    /\ UNCHANGED <<edits, kills>>

\* Two different texts written through two descriptors leave a mixture.
WriteTmp(p) ==
    /\ At(p, "write")
    /\ \/ text' = [text EXCEPT ![launch[p].fd] = launch[p].plan]
       \/ /\ text[launch[p].fd] \notin {Unparseable, launch[p].plan}
          /\ text' = [text EXCEPT ![launch[p].fd] = Unparseable]
    /\ To(p, "rename")
    /\ UNCHANGED <<name, edits, kills, raced>>

\* By name: whatever file has the temporary name now.
Rename(p) ==
    /\ At(p, "rename")
    /\ IF name.tmp = NoFile THEN To(p, "refused") /\ UNCHANGED name
       ELSE To(p, "start") /\ name' = [settings |-> name.tmp, tmp |-> NoFile]
    /\ UNCHANGED <<text, edits, kills, raced>>

\* The directory cannot be made, the disk is full: the launch refuses.
WriteFails(p) ==
    /\ kills < MaxKills /\ kills' = kills + 1
    /\ launch[p].at \in {"open", "write"}
    /\ To(p, "refused")
    /\ UNCHANGED <<text, name, edits, raced>>

\* agy starts, and reads its settings then.
runAgy(p) ==
    /\ At(p, "start")
    /\ launch' = [launch EXCEPT
           ![p].at = "running", ![p].fd = NoFile,
           ![p].guarded = name.settings # NoFile /\ DenyRules \subseteq text[name.settings].deny]
    /\ UNCHANGED <<text, name, edits, kills, raced>>

KillLaunch(p) ==
    /\ Working(p)
    /\ kills < MaxKills /\ kills' = kills + 1
    /\ To(p, "killed")
    /\ UNCHANGED <<text, name, edits, raced>>

AgyNext ==
    \/ UserEdits
    \/ \E p \in Rounds : \/ ReadSettings(p) \/ OpenTmp(p) \/ WriteTmp(p) \/ Rename(p)
                         \/ WriteFails(p) \/ runAgy(p) \/ KillLaunch(p)

AgySpec == AgyInit /\ [][AgyNext]_agyVars
------------------------------------------------------------------------------
(***************************************************************************)
(* Properties                                                              *)
(***************************************************************************)
Settings == IF name.settings = NoFile THEN Object({}, 0) ELSE text[name.settings]

\* An agy round starts with every deny rule in the settings agy reads, whatever
\* the file was before and wherever an earlier launch was killed, unless this
\* launch was crossed: two launches wrote at once while it worked, or the user
\* edited under it.  A crossing that is over excuses nobody who starts after it.
AgyStartsGuarded == \A p \in Rounds \ raced : At(p, "running") => launch[p].guarded

\* The guard only adds rules: whatever is written, killed or refused on the way,
\* the settings file a user has stays whole and keeps the user's rules and other
\* keys, through every step but the user's own and those of a crossed launch.
GuardOnlyAdds ==
    [][\/ UserEdits
       \/ \E p \in raced : launch'[p] # launch[p]
       \/ /\ Settings'.form = Settings.form
          /\ Settings'.keys = Settings.keys
          /\ Settings.deny \subseteq Settings'.deny]_agyVars
==============================================================================
