-------------------------------- MODULE SpecLint --------------------------------
(***************************************************************************)
(* spec-lint: the paths a task spec names, held against the tree the round *)
(* will start in.  A missing path is a finding, unless the spec declares   *)
(* that the round creates it or that it may be absent; the declarations    *)
(* are read off the spec's lines by small automata.  Other rounds go on    *)
(* adding files to the tree while the lint looks at it.                    *)
(*                                                                         *)
(* A line is a record of what the patterns tell apart: the marker word it  *)
(* starts with and whether a path follows it, the fence phrasing, a colon  *)
(* at its end, list item, heading, blank, indent, and its tokens.  A token *)
(* is the claims it expands to, with their number.                         *)
(***************************************************************************)
EXTENDS Integers, Sequences, FiniteSetsExt

CONSTANTS
    Docs,          \* the specs a lint may be given
    Root, Top,     \* --root and its git toplevel, NoPlace when it has none
    Dir,           \* the spec's own directory
    Inside,        \* whether Dir is under Root or Top
    Paths,         \* the names files may have
    FileLines,     \* the lines of a file
    MaxExpansions, \* maxBraceExpansions
    MaxLandings    \* bound: files that appear

NoPlace == "none"

Anchors == {Root, Top, Dir} \ {NoPlace}
Places == Anchors \union {"/", "~"}

\* Where a file may be: a name in a place, or below one of the bases the whole
\* spelling of a path into one of them (/repo/repo/x).
Sites == (Places \X Paths) \union (Anchors \X Anchors \X Paths)

\* What a path claims, and the line it cites there (-1 for none).
Refs == [base : {"relative"} \union Places, name : Paths, cited : Int]
Tokens == [says : STRING, size : Nat, claims : SUBSET Refs]
\* A marker is inline or opening; a list item has text.
Lines == {l \in [word : {"none", "create", "absent-ok"}, form : {"none", "inline", "open"},
                 fence : BOOLEAN, colon : BOOLEAN, item : BOOLEAN, heading : BOOLEAN,
                 blank : BOOLEAN, indent : Nat, tokens : SUBSET Tokens] :
             /\ l.word = "none" <=> l.form = "none"
             /\ l.blank => ~l.item}

ASSUME LintConstants ==
    /\ NoPlace \notin {Root, Dir}
    /\ Docs \subseteq Seq(Lines)

VARIABLES
    doc,      \* the spec under lint
    tree,     \* what is at each place: "absent", "file" or "dir"
    began,    \* the tree as it was when the lint began
    pass,     \* what the lint is at
    checked,  \* the lines checked so far
    created, excused,   \* the places of the two pre-passes
    findings, verdict

lintVars == <<doc, tree, began, pass, checked, created, excused, findings, verdict>>

Empty == [p \in Sites |-> "absent"]
Landings(t) == Cardinality({p \in DOMAIN t : t[p] # "absent"})

LintInit ==
    /\ doc = <<>> /\ tree = Empty /\ began = Empty /\ pass = "idle" /\ checked = 0
    /\ created = {} /\ excused = {} /\ findings = {} /\ verdict = "none"

(***************************************************************************)
(* The automata.  Each is a function from a line number to what holds      *)
(* after that line.                                                        *)
(***************************************************************************)
Continuation(l) == l.indent >= 2 /\ ~l.blank
Listed(l) == l.item \/ Continuation(l)

(* Mutant of markStep: a blank line closes the list. *)
markStepBlankCloses(word, l, n, was) ==
    CASE l.word = word /\ l.form = "inline" -> [open |-> FALSE, marked |-> was.marked \union {n}]
      [] l.word = word /\ l.form = "open"   -> [was EXCEPT !.open = TRUE]
      [] l.word # word /\ was.open /\ Listed(l) -> [was EXCEPT !.marked = @ \union {n}]
      [] OTHER                              -> [was EXCEPT !.open = FALSE]

markStep(word, l, n, was) ==
    CASE l.word = word /\ l.form = "inline" -> [open |-> FALSE, marked |-> was.marked \union {n}]
      [] l.word = word /\ l.form = "open"   -> [was EXCEPT !.open = TRUE]
      [] l.word # word /\ was.open /\ l.blank   -> was
      [] l.word # word /\ was.open /\ Listed(l) -> [was EXCEPT !.marked = @ \union {n}]
      [] OTHER                              -> [was EXCEPT !.open = FALSE]

markScan(word, lines) ==
    LET after[n \in 0..Len(lines)] ==
          IF n = 0 THEN [open |-> FALSE, marked |-> {}] ELSE markStep(word, lines[n], n, after[n - 1])
    IN  after

markedLines(word, lines) == markScan(word, lines)[Len(lines)].marked

\* depth is what a line under the fence must be indented by at least.
fenceStep(l, n, was) ==
    CASE l.fence -> [open |-> l.colon, marked |-> was.marked \union {n},
                     depth |-> IF l.item THEN l.indent + 1 ELSE l.indent]
      [] ~l.fence /\ was.open /\ Listed(l) /\ ~l.blank /\ ~l.heading /\ l.indent >= was.depth
            -> [was EXCEPT !.marked = @ \union {n}]
      [] OTHER -> [was EXCEPT !.open = FALSE]

fenceScan(lines) ==
    LET after[n \in 0..Len(lines)] ==
          IF n = 0 THEN [open |-> FALSE, depth |-> 0, marked |-> {}] ELSE fenceStep(lines[n], n, after[n - 1])
    IN  after

fenceLines(lines) == fenceScan(lines)[Len(lines)].marked

creationLines(lines) == markedLines("create", lines)
absentLines(lines) == markedLines("absent-ok", lines) \union fenceLines(lines)

(***************************************************************************)
(* The references                                                          *)
(***************************************************************************)
\* What a token may be besides a path: a placeholder, glob or URL, a forge slug,
\* the argument of --repo, text inside a template span or comment, or a word.
NotClaims == {"template", "slug", "repo argument", "in a span", "word"}

\* A set too large to expand is one reference that claims no path.
Unchecked == [base |-> NoPlace, name |-> NoPlace, cited |-> -1]
refsOf(token) ==
    IF token.size > MaxExpansions /\ token.claims # {} THEN {Unchecked} ELSE token.claims

collectRefs(line) == UNION {refsOf(token) : token \in {k \in line.tokens : k.says \notin NotClaims}}

\* --root, its toplevel and the spec's directory, each once.
bases == <<Root>> \o (IF Top \in {NoPlace, Root} THEN <<>> ELSE <<Top>>)
                  \o (IF Dir \in {Root, Top} THEN <<>> ELSE <<Dir>>)

\* Where a path may be: a relative one under any base, an absolute one also
\* with its whole spelling read as relative to the bases.
Candidates(r) ==
    LET joined == [i \in 1..Len(bases) |-> <<bases[i], r.name>>]
        again  == [i \in 1..Len(bases) |-> <<bases[i], r.base, r.name>>]
    IN  CASE r.base = "relative" -> joined
          [] r.base = "/"        -> <<<<"/", r.name>>>> \o joined
          [] r.base = "~"        -> <<<<"~", r.name>>>>
          [] OTHER               -> <<<<r.base, r.name>>>> \o again

\* The first candidate that is there, else the first of all.
resolve(r, t) ==
    LET c == Candidates(r)
        there == {i \in DOMAIN c : t[c[i]] # "absent"}
    IN  IF there = {} THEN c[1] ELSE c[Min(there)]

scratchOutput(r, p) == r.base # "relative" /\ r.base # "~" /\ ~Inside /\ p[1] = Dir

RefsOn(lines) == (UNION {collectRefs(doc[n]) : n \in lines}) \ {Unchecked}

(***************************************************************************)
(* The lint of one spec                                                    *)
(***************************************************************************)
\* Another round writes a file.
Land(p, kind) ==
    /\ Landings(tree) < MaxLandings
    /\ tree[p] = "absent"
    /\ tree' = [tree EXCEPT ![p] = kind]
    /\ UNCHANGED <<doc, began, pass, checked, created, excused, findings, verdict>>

\* Flags, root and spec files are checked before anything is linted.
UsageError ==
    /\ pass = "idle"
    /\ pass' = "done" /\ verdict' = "usage"
    /\ UNCHANGED <<doc, tree, began, checked, created, excused, findings>>

StartLint ==
    /\ pass = "idle"
    /\ doc' \in Docs
    /\ began' = tree
    /\ pass' = "create"
    /\ UNCHANGED <<tree, checked, created, excused, findings, verdict>>

DeclareCreated ==
    /\ pass = "create"
    /\ created' = {resolve(r, tree) : r \in RefsOn(creationLines(doc))}
    /\ pass' = "absent"
    /\ UNCHANGED <<doc, tree, began, checked, excused, findings, verdict>>

DeclareAbsent ==
    /\ pass = "absent"
    /\ excused' = {resolve(r, tree) : r \in RefsOn(absentLines(doc))}
    /\ pass' = "check"
    /\ UNCHANGED <<doc, tree, began, checked, created, findings, verdict>>

\* What is there has the line that is cited; a directory has none to check.
AsExisting(r, p) ==
    IF r.cited # -1 /\ tree[p] = "file" /\ r.cited \notin 1..FileLines THEN {"line-out-of-range"} ELSE {}

(* Mutant of finding: a creation is exempt at its declaration only. *)
findingByPosition(n, r) ==
    LET p == resolve(r, tree)
        exists == tree[p] # "absent"
    IN  IF r = Unchecked THEN {"unchecked"}
        ELSE IF p \in created /\ n \in creationLines(doc) THEN IF exists THEN {"already-exists"} ELSE {}
        ELSE IF exists THEN AsExisting(r, p)
        ELSE IF p \in excused \/ scratchOutput(r, p) THEN {} ELSE {"missing"}

(* Mutant of finding: absent-ok exempts from every check. *)
findingExcused(n, r) ==
    LET p == resolve(r, tree)
        exists == tree[p] # "absent"
    IN  IF r = Unchecked THEN {"unchecked"}
        ELSE IF p \in created THEN IF exists /\ n \in creationLines(doc) THEN {"already-exists"} ELSE {}
        ELSE IF p \in excused THEN {}
        ELSE IF exists THEN AsExisting(r, p)
        ELSE IF scratchOutput(r, p) THEN {} ELSE {"missing"}

finding(n, r) ==
    LET p == resolve(r, tree)
        exists == tree[p] # "absent"
    IN  IF r = Unchecked THEN {"unchecked"}
        ELSE IF p \in created THEN IF exists /\ n \in creationLines(doc) THEN {"already-exists"} ELSE {}
        ELSE IF exists THEN AsExisting(r, p)
        ELSE IF p \in excused \/ scratchOutput(r, p) THEN {} ELSE {"missing"}

CheckLine ==
    /\ pass = "check" /\ checked < Len(doc)
    /\ checked' = checked + 1
    /\ findings' = findings \union
          UNION {{[line |-> checked', ref |-> r, kind |-> k] : k \in finding(checked', r)} : r \in collectRefs(doc[checked'])}
    /\ UNCHANGED <<doc, tree, began, pass, created, excused, verdict>>

Report ==
    /\ pass = "check" /\ checked = Len(doc)
    /\ pass' = "done"
    /\ verdict' = IF findings = {} THEN "clean" ELSE "findings"
    /\ UNCHANGED <<doc, tree, began, checked, created, excused, findings>>

LintNext ==
    \/ UsageError \/ StartLint \/ DeclareCreated \/ DeclareAbsent \/ CheckLine \/ Report
    \/ \E p \in DOMAIN tree, kind \in {"file", "dir"} : Land(p, kind)

LintSpec == LintInit /\ [][LintNext]_lintVars

(***************************************************************************)
(* Properties                                                              *)
(***************************************************************************)
\* A line is under an opening line when everything between them is of the
\* list: the rule the automata are meant to compute, read off the spec.
UnderMarker(word, n) ==
    \E o \in 1..(n - 1) :
        /\ doc[o].word = word /\ doc[o].form = "open"
        /\ \A k \in (o + 1)..n : doc[k].word # word /\ (doc[k].blank \/ Listed(doc[k]))

UnderFence(n) ==
    \E o \in 1..(n - 1) :
        /\ doc[o].fence /\ doc[o].colon
        /\ \A k \in (o + 1)..n : /\ Listed(doc[k]) /\ ~doc[k].fence /\ ~doc[k].heading
                                 /\ doc[k].indent >= doc[o].indent
                                 /\ doc[o].item => doc[k].indent > doc[o].indent

\* The lines whose paths a spec declares as created, or as possibly absent,
\* are the marker's own line and the list under an opening one; a fence ends
\* with the paragraph (creationLines, absentLines and their comments).
MarksAsDeclared ==
    \A n \in DOMAIN doc :
        /\ n \in creationLines(doc) <=>
             \/ doc[n].word = "create" /\ doc[n].form = "inline"
             \/ ~doc[n].blank /\ UnderMarker("create", n)
        /\ n \in absentLines(doc) <=>
             \/ doc[n].word = "absent-ok" /\ doc[n].form = "inline"
             \/ ~doc[n].blank /\ UnderMarker("absent-ok", n)
             \/ doc[n].fence \/ UnderFence(n)

\* "Declaring it once is the claim, and every later mention is the same
\* claim": a path the spec declares anywhere, as created or as possibly
\* absent, is reported missing nowhere, whatever lands meanwhile.
DeclaredOnceIsEnough ==
    \A f \in findings : f.kind = "missing" =>
        \A r \in RefsOn(creationLines(doc) \union absentLines(doc)) : <<r.base, r.name>> # <<f.ref.base, f.ref.name>>

\* An exit of 0 vouches for the whole spec: every claim that nothing excuses
\* is there, and one that was there before the lint began, at the place it is
\* still found at, is no creation and has the line it is cited for.
CleanMeansHeld ==
    verdict = "clean" => \A n \in DOMAIN doc : \A r \in collectRefs(doc[n]) :
        /\ r # Unchecked
        /\ LET p == resolve(r, tree)
           IN  /\ tree[p] # "absent" \/ p \in created \union excused \/ scratchOutput(r, p)
               /\ (began[p] # "absent" /\ p = resolve(r, began)) =>
                    /\ n \notin creationLines(doc)
                    /\ (p \notin created /\ began[p] = "file" /\ r.cited # -1) => r.cited \in 1..FileLines

================================================================================
