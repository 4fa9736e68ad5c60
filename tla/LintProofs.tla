------------------------------ MODULE LintProofs -------------------------------
(***************************************************************************)
(* spec-lint, for any specs, any bases, any tree and any files that land   *)
(* in it while the lint looks.                                             *)
(*                                                                         *)
(* Two arguments.  The tree only grows, so the first place a path is found *)
(* at only moves towards the front of its candidates: a path whose answer  *)
(* is now what it was at the start had that answer in between, at every    *)
(* look (UnmovedBack).  And an automaton's mark on a line is settled when  *)
(* the line is read and says what the lines back to the last opening one   *)
(* say, which is shown line by line, through the first line it could fail  *)
(* at.                                                                     *)
(***************************************************************************)
EXTENDS SpecLint, WellFoundedInduction, FiniteSetTheorems, SequenceTheorems, TLAPS

(* A set of naturals has a least member, and a finite family of sets one   *)
(* with no other member of the family under it.                            *)
LEMMA SmallestSet ==
  ASSUME NEW T, T # {}, \A s \in T : IsFiniteSet(s)
  PROVE  \E s \in T : \A u \in T : ~(u \subseteq s /\ u # s)
<1> DEFINE U == UNION T
           R == StrictSubsetOrdering(U)
<1>1. IsWellFoundedOn(R, FiniteSubsetsOf(U))
  BY FS_StrictSubsetOrderingWellFounded
<1>2. T \subseteq FiniteSubsetsOf(U)
  BY DEF FiniteSubsetsOf
<1>3. PICK s \in T : \A u \in T : <<u, s>> \notin R
  <2> HIDE DEF R, U
  <2> QED BY <1>1, <1>2, WFMin
<1>4. \A u \in T : ~(u \subseteq s /\ u # s)
  BY <1>3 DEF StrictSubsetOrdering
<1> QED BY <1>4

LEMMA LeastExists ==
  ASSUME NEW S, S \subseteq Nat, S # {}
  PROVE  \E i \in S : \A j \in S : i <= j
<1> DEFINE T == {0..i : i \in S}
<1>1. T # {} /\ \A s \in T : IsFiniteSet(s)
  <2>1. \A i \in S : IsFiniteSet(0..i)
    BY FS_Interval
  <2> QED BY <2>1
<1>2. PICK s \in T : \A u \in T : ~(u \subseteq s /\ u # s)
  <2> HIDE DEF T
  <2> QED BY <1>1, SmallestSet
<1>3. PICK i \in S : s = 0..i
  OBVIOUS
<1>4. ASSUME NEW j \in S, j < i
      PROVE  FALSE
  <2>1. 0..j \subseteq 0..i
    BY <1>4
  <2>2. i \in 0..i /\ i \notin 0..j
    BY <1>4
  <2> QED BY <2>1, <2>2, <1>2, <1>3
<1> QED BY <1>4

-----------------------------------------------------------------------------
(* Where a path is looked for: at one place at least. *)
LEMMA BasesTyped == bases \in Seq(Anchors) /\ Len(bases) \in Nat \ {0}
<1> DEFINE mid == IF Top \in {NoPlace, Root} THEN <<>> ELSE <<Top>>
           end == IF Dir \in {Root, Top} THEN <<>> ELSE <<Dir>>
<1>1. <<Root>> \in Seq(Anchors) /\ Len(<<Root>>) = 1
  <2>1. Root \in Anchors
    BY LintConstants DEF Anchors
  <2> QED BY <2>1
<1>2. mid \in Seq(Anchors)
  <2>1. CASE Top \in {NoPlace, Root}
    BY <2>1
  <2>2. CASE Top \notin {NoPlace, Root}
    <3>1. Top \in Anchors
      BY <2>2 DEF Anchors
    <3> QED BY <2>2, <3>1
  <2> QED BY <2>1, <2>2
<1>3. end \in Seq(Anchors)
  <2>1. Dir \in Anchors
    BY LintConstants DEF Anchors
  <2> QED BY <2>1
<1>4. bases = (<<Root>> \o mid) \o end
  BY DEF bases
<1> HIDE DEF mid, end
<1>5. <<Root>> \o mid \in Seq(Anchors) /\ Len(<<Root>> \o mid) = 1 + Len(mid) /\ Len(mid) \in Nat /\ Len(end) \in Nat
  BY <1>1, <1>2, <1>3, ConcatProperties, LenProperties
<1>6. (<<Root>> \o mid) \o end \in Seq(Anchors) /\ Len((<<Root>> \o mid) \o end) = 1 + Len(mid) + Len(end)
  <2> DEFINE first == <<Root>> \o mid
  <2>1. first \in Seq(Anchors) /\ Len(first) = 1 + Len(mid)
    BY <1>5
  <2> HIDE DEF first
  <2>2. first \o end \in Seq(Anchors) /\ Len(first \o end) = Len(first) + Len(end)
    BY <1>3, <2>1, ConcatProperties
  <2> QED BY <2>1, <2>2 DEF first
<1> QED BY <1>4, <1>5, <1>6

LEMMA CandidatesTyped ==
  ASSUME NEW r \in Refs
  PROVE  /\ Candidates(r) \in Seq(Sites)
         /\ Len(Candidates(r)) \in Nat \ {0} /\ DOMAIN Candidates(r) = 1..Len(Candidates(r))
         /\ \A i \in DOMAIN Candidates(r) : Candidates(r)[i] \in Sites
<1> DEFINE joined == [i \in 1..Len(bases) |-> <<bases[i], r.name>>]
           again  == [i \in 1..Len(bases) |-> <<bases[i], r.base, r.name>>]
<1>1. r.name \in Paths /\ r.base \in {"relative"} \union Places
  BY DEF Refs
<1>2. joined \in Seq(Sites) /\ Len(joined) = Len(bases)
  <2>1. \A i \in 1..Len(bases) : bases[i] \in Anchors
    BY BasesTyped
  <2>2. \A i \in 1..Len(bases) : <<bases[i], r.name>> \in Sites
    BY <1>1, <2>1 DEF Sites, Places
  <2> QED BY <2>2, BasesTyped
<1>3. ASSUME r.base \in Anchors PROVE again \in Seq(Sites) /\ Len(again) = Len(bases)
  <2>1. \A i \in 1..Len(bases) : bases[i] \in Anchors
    BY BasesTyped
  <2>2. \A i \in 1..Len(bases) : <<bases[i], r.base, r.name>> \in Sites
    BY <1>1, <1>3, <2>1 DEF Sites
  <2> QED BY <2>2, BasesTyped
<1> HIDE DEF joined, again
<1>4. ASSUME NEW s \in Sites, NEW rest \in Seq(Sites), Len(rest) = Len(bases)
      PROVE  <<s>> \o rest \in Seq(Sites) /\ Len(<<s>> \o rest) \in Nat \ {0}
  <2> DEFINE one == <<s>>
  <2>1. one \in Seq(Sites) /\ Len(one) = 1
    OBVIOUS
  <2> HIDE DEF one
  <2>2. one \o rest \in Seq(Sites) /\ Len(one \o rest) = Len(one) + Len(rest)
    BY <1>4, <2>1, ConcatProperties
  <2>3. Len(one \o rest) \in Nat \ {0}
    BY <1>4, <2>1, <2>2, BasesTyped
  <2> QED BY <2>2, <2>3 DEF one
<1>5. Candidates(r) \in Seq(Sites) /\ Len(Candidates(r)) \in Nat \ {0}
  <2>1. CASE r.base = "relative"
    BY <1>2, <2>1, BasesTyped DEF Candidates, joined
  <2>2. CASE r.base = "/"
    <3>1. Candidates(r) = <<<<"/", r.name>>>> \o joined
      BY <2>2 DEF Candidates, joined
    <3>2. <<"/", r.name>> \in Sites
      BY <1>1 DEF Sites, Places
    <3> QED BY <1>2, <1>4, <3>1, <3>2
  <2>3. CASE r.base = "~"
    <3>1. Candidates(r) = <<<<"~", r.name>>>>
      BY <2>3 DEF Candidates
    <3>2. <<"~", r.name>> \in Sites
      BY <1>1 DEF Sites, Places
    <3> QED BY <3>1, <3>2
  <2>4. CASE r.base \notin {"relative", "/", "~"}
    <3>1. Candidates(r) = <<<<r.base, r.name>>>> \o again
      BY <2>4 DEF Candidates, again
    <3>2. r.base \in Anchors
      BY <1>1, <2>4 DEF Places
    <3>3. <<r.base, r.name>> \in Sites
      BY <1>1, <3>2 DEF Sites, Places
    <3> QED BY <1>3, <1>4, <3>1, <3>2, <3>3
  <2> QED BY <2>1, <2>2, <2>3, <2>4
<1> DEFINE c == Candidates(r)
<1>6. c \in Seq(Sites) /\ Len(c) \in Nat \ {0}
  BY <1>5
<1> HIDE DEF c
<1>7. DOMAIN c = 1..Len(c) /\ \A i \in DOMAIN c : c[i] \in Sites
  BY <1>6
<1> QED BY <1>6, <1>7 DEF c

(* A tree, and one that has come out of it by files that landed. *)
Trees == [Sites -> {"absent", "file", "dir"}]
Grows(t, u) == \A p \in Sites : t[p] # "absent" => u[p] = t[p]

Nowhere(r, t) == \A i \in DOMAIN Candidates(r) : t[Candidates(r)[i]] = "absent"
FoundAt(r, t, i) ==
  /\ i \in DOMAIN Candidates(r) /\ resolve(r, t) = Candidates(r)[i] /\ t[Candidates(r)[i]] # "absent"
  /\ \A j \in DOMAIN Candidates(r) : j < i => t[Candidates(r)[j]] = "absent"

(* resolve takes the first candidate that is there, else the first. *)
LEMMA ResolveIs ==
  ASSUME NEW r \in Refs, NEW t
  PROVE  \/ Nowhere(r, t) /\ resolve(r, t) = Candidates(r)[1] /\ t[resolve(r, t)] = "absent"
         \/ \E i \in DOMAIN Candidates(r) : FoundAt(r, t, i)
<1> DEFINE c == Candidates(r)
           there == {i \in DOMAIN c : t[c[i]] # "absent"}
<1>0. DOMAIN c = 1..Len(c) /\ Len(c) \in Nat \ {0}
  BY CandidatesTyped
<1>1. resolve(r, t) = IF there = {} THEN c[1] ELSE c[Min(there)]
  BY DEF resolve
<1>2. CASE there = {}
  <2>1. \A i \in DOMAIN c : t[c[i]] = "absent"
    BY <1>2
  <2>2. 1 \in DOMAIN c
    BY <1>0
  <2> QED BY <1>1, <1>2, <2>1, <2>2 DEF Nowhere
<1>3. CASE there # {}
  <2>1. there \subseteq Nat
    BY <1>0
  <2>2. \E i \in there : \A j \in there : i <= j
    <3> HIDE DEF there
    <3> QED BY <1>3, <2>1, LeastExists
  <2> DEFINE m == Min(there)
  <2>3. m \in there /\ \A j \in there : m <= j
    <3> HIDE DEF there
    <3> QED BY <2>2 DEF Min
  <2>4. resolve(r, t) = c[m]
    BY <1>1, <1>3
  <2> HIDE DEF m
  <2>5. \A j \in DOMAIN c : j < m => t[c[j]] = "absent"
    <3> SUFFICES ASSUME NEW j \in DOMAIN c, j < m, t[c[j]] # "absent" PROVE FALSE
      OBVIOUS
    <3>1. m <= j /\ m \in Nat /\ j \in Nat
      BY <1>0, <2>1, <2>3
    <3> QED BY <3>1
  <2>6. FoundAt(r, t, m)
    BY <2>3, <2>4, <2>5 DEF FoundAt
  <2> QED BY <2>3, <2>6
<1> QED BY <1>2, <1>3

(* The place a path is found at is a place. *)
LEMMA ResolveTyped ==
  ASSUME NEW r \in Refs, NEW t
  PROVE  resolve(r, t) \in Sites
<1>1. 1 \in DOMAIN Candidates(r)
  BY CandidatesTyped
<1> QED BY <1>1, ResolveIs, CandidatesTyped DEF FoundAt

(* Two claims of one path are looked for at the same places. *)
LEMMA SamePath ==
  ASSUME NEW r, NEW q, r.base = q.base, r.name = q.name, NEW t
  PROVE  resolve(r, t) = resolve(q, t)
<1>1. Candidates(r) = Candidates(q)
  BY DEF Candidates
<1> QED BY <1>1 DEF resolve

(* Its place has not moved since the lint began, and has what it had. *)
Unmoved(r, u) ==
  u[resolve(r, u)] = "absent" \/ (began[resolve(r, u)] # "absent" /\ resolve(r, u) = resolve(r, began))

(* Then it had not moved at any look in between. *)
LEMMA UnmovedBack ==
  ASSUME NEW r \in Refs, NEW t, NEW u, Grows(began, t), Grows(t, u), Unmoved(r, u)
  PROVE  resolve(r, t) = resolve(r, u) /\ t[resolve(r, u)] = u[resolve(r, u)] /\ Unmoved(r, t)
<1> DEFINE c == Candidates(r)
           p == resolve(r, u)
<1>0. DOMAIN c = 1..Len(c) /\ Len(c) \in Nat \ {0} /\ \A i \in DOMAIN c : c[i] \in Sites
  BY CandidatesTyped
<1>1. CASE u[p] = "absent"
  <2>1. \A i \in DOMAIN c : u[c[i]] = "absent"
    BY <1>1, ResolveIs DEF FoundAt, Nowhere
  <2>2. \A i \in DOMAIN c : t[c[i]] = "absent"
    BY <1>0, <2>1 DEF Grows
  <2>3. resolve(r, t) = c[1] /\ p = c[1]
    BY <2>1, <2>2, ResolveIs DEF FoundAt
  <2>4. 1 \in DOMAIN c
    BY <1>0
  <2> QED BY <1>1, <2>2, <2>3, <2>4 DEF Unmoved
<1>2. CASE u[p] # "absent"
  <2>1. began[p] # "absent" /\ p = resolve(r, began)
    BY <1>2 DEF Unmoved
  <2>2. PICK i \in DOMAIN c : FoundAt(r, u, i)
    BY <1>2, ResolveIs
  <2>3. PICK k \in DOMAIN c : FoundAt(r, began, k)
    BY <2>1, ResolveIs
  <2>4. p = c[i] /\ p = c[k]
    BY <2>1, <2>2, <2>3 DEF FoundAt
  <2>5. p \in Sites
    BY <1>0, <2>4
  <2>6. t[p] = began[p] /\ u[p] = t[p]
    BY <2>1, <2>5 DEF Grows
  <2>7. PICK j \in DOMAIN c : FoundAt(r, t, j)
    <3>1. ~Nowhere(r, t)
      BY <2>1, <2>4, <2>6 DEF Nowhere
    <3> QED BY <3>1, ResolveIs
  <2>8. i \in Nat /\ j \in Nat /\ k \in Nat
    BY <1>0
  <2>9. ~(j < i)
    <3>1. t[c[j]] # "absent"
      BY <2>7 DEF FoundAt
    <3>2. u[c[j]] # "absent"
      BY <1>0, <3>1 DEF Grows
    <3> QED BY <2>2, <3>2 DEF FoundAt
  <2>10. ~(i < j)
    <3>1. t[c[i]] # "absent"
      BY <2>1, <2>4, <2>6
    <3> QED BY <2>7, <3>1 DEF FoundAt
  <2>11. j = i
    BY <2>8, <2>9, <2>10
  <2>12. resolve(r, t) = p
    BY <2>4, <2>7, <2>11 DEF FoundAt
  <2> QED BY <2>1, <2>6, <2>12 DEF Unmoved
<1> QED BY <1>1, <1>2

-----------------------------------------------------------------------------
(* The automata.  What the reader of a marker or a fence knows after a line. *)
Marks == [open : BOOLEAN, marked : SUBSET Nat]
Fences == [open : BOOLEAN, depth : Nat, marked : SUBSET Nat]

Inline(word, l) == l.word = word /\ l.form = "inline"
Opening(word, l) == l.word = word /\ l.form = "open"
Runs(word, l) == l.word # word /\ (l.blank \/ Listed(l))
DepthUnder(l) == IF l.item THEN l.indent + 1 ELSE l.indent
InFence(l, d) == Listed(l) /\ ~l.fence /\ ~l.heading /\ l.indent >= d

LEMMA LineTyped ==
  ASSUME NEW l \in Lines
  PROVE  /\ l.fence \in BOOLEAN /\ l.colon \in BOOLEAN /\ l.item \in BOOLEAN /\ l.heading \in BOOLEAN
         /\ l.blank \in BOOLEAN /\ l.indent \in Nat
         /\ (Listed(l) => ~l.blank)
         /\ \A word \in {"create", "absent-ok"} : l.word = word => l.form \in {"inline", "open"}
BY DEF Lines, Listed, Continuation

(* One line of a marker: whether its list is open after it, and whether the *)
(* line is marked.                                                          *)
LEMMA MarkStepIs ==
  ASSUME NEW word \in {"create", "absent-ok"}, NEW l \in Lines, NEW n \in Nat, NEW was \in Marks,
         NEW now, now = markStep(word, l, n, was)
  PROVE  /\ now \in Marks
         /\ now.open <=> Opening(word, l) \/ (was.open /\ Runs(word, l))
         /\ now.marked = IF Inline(word, l) \/ (was.open /\ l.word # word /\ Listed(l))
                         THEN was.marked \union {n} ELSE was.marked
<1> DEFINE inline == Inline(word, l)
           opening == Opening(word, l)
           other == l.word # word
           blank == l.blank
           listed == Listed(l)
           up == was.open
<1>1. /\ inline \in BOOLEAN /\ opening \in BOOLEAN /\ other \in BOOLEAN /\ blank \in BOOLEAN /\ listed \in BOOLEAN
      /\ up \in BOOLEAN
  BY LineTyped DEF Marks, Inline, Opening, Listed, Continuation
<1>2. (inline => ~opening /\ ~other) /\ (opening => ~other) /\ (inline \/ opening \/ other) /\ (listed => ~blank)
  BY LineTyped DEF Inline, Opening
<1>3. now = CASE inline -> [open |-> FALSE, marked |-> was.marked \union {n}]
              [] opening -> [was EXCEPT !.open = TRUE]
              [] other /\ up /\ blank -> was
              [] other /\ up /\ listed -> [was EXCEPT !.marked = @ \union {n}]
              [] OTHER -> [was EXCEPT !.open = FALSE]
  BY DEF markStep, Inline, Opening
<1>4. was = [open |-> up, marked |-> was.marked] /\ was.marked \in SUBSET Nat
  BY DEF Marks
<1>5. (Opening(word, l) \/ (was.open /\ Runs(word, l))) <=> opening \/ (up /\ other /\ (blank \/ listed))
  BY DEF Runs
<1> HIDE DEF inline, opening, other, blank, listed, up
<1>6. CASE inline
  <2>1. now = [open |-> FALSE, marked |-> was.marked \union {n}]
    BY <1>1, <1>2, <1>3, <1>6
  <2>2. now.marked = was.marked \union {n} /\ now.open = FALSE /\ now \in Marks
    BY <1>4, <2>1 DEF Marks
  <2>3. ~(opening \/ (up /\ other /\ (blank \/ listed)))
    BY <1>1, <1>2, <1>6
  <2> QED BY <1>5, <1>6, <2>2, <2>3 DEF inline
<1>7. CASE opening
  <2>1. now = [was EXCEPT !.open = TRUE]
    BY <1>1, <1>2, <1>3, <1>7
  <2>2. now.marked = was.marked /\ now.open = TRUE /\ now \in Marks
    BY <1>4, <2>1 DEF Marks
  <2>3. ~inline /\ ~other
    BY <1>1, <1>2, <1>7
  <2> QED BY <1>5, <1>7, <2>2, <2>3 DEF inline, other
<1>8. CASE other /\ up /\ blank
  <2>1. ~inline /\ ~opening /\ ~listed
    BY <1>1, <1>2, <1>8
  <2>2. now = was
    BY <1>3, <1>8, <2>1
  <2>3. now.marked = was.marked /\ now.open = TRUE /\ now \in Marks
    BY <1>1, <1>8, <2>2 DEF up
  <2> QED BY <1>5, <1>8, <2>1, <2>3 DEF inline, listed
<1>9. CASE other /\ up /\ listed
  <2>1. ~inline /\ ~opening /\ ~blank
    BY <1>1, <1>2, <1>9
  <2>2. now = [was EXCEPT !.marked = @ \union {n}]
    BY <1>3, <1>9, <2>1
  <2>3. now.marked = was.marked \union {n} /\ now.open = up /\ now \in Marks
    BY <1>1, <1>4, <2>2 DEF Marks
  <2> QED BY <1>5, <1>9, <2>1, <2>3 DEF listed, other, up
<1>10. CASE ~inline /\ ~opening /\ ~(up /\ (blank \/ listed))
  <2>1. now = [was EXCEPT !.open = FALSE]
    BY <1>1, <1>3, <1>10
  <2>2. now.marked = was.marked /\ now.open = FALSE /\ now \in Marks
    BY <1>4, <2>1 DEF Marks
  <2> QED BY <1>5, <1>10, <2>2 DEF inline, listed, up
<1> QED BY <1>1, <1>2, <1>6, <1>7, <1>8, <1>9, <1>10

(* One line of a fence. *)
FenceStepped(l, n, was, now) ==
  /\ now \in Fences
  /\ now.open <=> (l.fence /\ l.colon) \/ (was.open /\ InFence(l, was.depth))
  /\ now.depth = IF l.fence THEN DepthUnder(l) ELSE was.depth
  /\ now.marked = IF l.fence \/ (was.open /\ InFence(l, was.depth))
                  THEN was.marked \union {n} ELSE was.marked

LEMMA FenceStepIs ==
  ASSUME NEW l \in Lines, NEW n \in Nat, NEW was \in Fences, NEW now, now = fenceStep(l, n, was)
  PROVE  FenceStepped(l, n, was, now)
<1> SUFFICES
      /\ now \in Fences
      /\ now.open <=> (l.fence /\ l.colon) \/ (was.open /\ InFence(l, was.depth))
      /\ now.depth = IF l.fence THEN DepthUnder(l) ELSE was.depth
      /\ now.marked = IF l.fence \/ (was.open /\ InFence(l, was.depth))
                      THEN was.marked \union {n} ELSE was.marked
  BY DEF FenceStepped
<1> DEFINE fence == l.fence
           in == InFence(l, was.depth)
           up == was.open
<1>1. fence \in BOOLEAN /\ l.colon \in BOOLEAN /\ in \in BOOLEAN /\ up \in BOOLEAN /\ DepthUnder(l) \in Nat
  BY LineTyped DEF Fences, InFence, DepthUnder
<1>2. in => ~fence
  BY DEF InFence
<1>3. in <=> ~fence /\ Listed(l) /\ ~l.blank /\ ~l.heading /\ l.indent >= was.depth
  BY LineTyped DEF InFence
<1>4. was = [open |-> up, depth |-> was.depth, marked |-> was.marked] /\ was.marked \in SUBSET Nat /\ was.depth \in Nat
  BY DEF Fences
<1>5. CASE fence
  <2>1. now = [open |-> l.colon, marked |-> was.marked \union {n}, depth |-> DepthUnder(l)]
    BY <1>5 DEF fenceStep, DepthUnder
  <2>2. now.marked = was.marked \union {n} /\ now.open = l.colon /\ now.depth = DepthUnder(l) /\ now \in Fences
    <3> HIDE DEF fence, in, up
    <3> QED BY <1>1, <1>4, <2>1 DEF Fences
  <2>3. ~in
    BY <1>2, <1>5
  <2> QED BY <1>1, <1>5, <2>2, <2>3
<1>6. CASE ~fence /\ up /\ in
  <2>1. now = [was EXCEPT !.marked = @ \union {n}]
    BY <1>3, <1>6 DEF fenceStep
  <2>2. now.marked = was.marked \union {n} /\ now.open = up /\ now.depth = was.depth /\ now \in Fences
    BY <1>1, <1>4, <2>1 DEF Fences
  <2> QED BY <1>6, <2>2
<1>7. CASE ~fence /\ ~(up /\ in)
  <2>1. now = [was EXCEPT !.open = FALSE]
    BY <1>3, <1>7 DEF fenceStep
  <2>2. now.marked = was.marked /\ now.open = FALSE /\ now.depth = was.depth /\ now \in Fences
    BY <1>4, <2>1 DEF Fences
  <2> QED BY <1>7, <2>2
<1> QED BY <1>1, <1>5, <1>6, <1>7

(* The scan of a spec exists: were there a first line it could not be      *)
(* carried to, the scan up to the line before would carry it there.        *)
LEMMA MarkScanIs ==
  ASSUME NEW word, NEW lines, Len(lines) \in Nat
  PROVE  /\ markScan(word, lines)[0] = [open |-> FALSE, marked |-> {}]
         /\ \A n \in 1..Len(lines) : markScan(word, lines)[n] = markStep(word, lines[n], n, markScan(word, lines)[n - 1])
<1> DEFINE zero == [open |-> FALSE, marked |-> {}]
           Good(m, f) == f = [n \in 0..m |-> IF n = 0 THEN zero ELSE markStep(word, lines[n], n, f[n - 1])]
           Bad == {m \in 0..Len(lines) : \A f : ~Good(m, f)}
<1>1. Bad = {}
  <2> SUFFICES ASSUME Bad # {} PROVE FALSE
    OBVIOUS
  <2>1. PICK m \in Bad : \A k \in Bad : m <= k
    <3>1. Bad \subseteq Nat
      OBVIOUS
    <3> HIDE DEF Bad
    <3> QED BY <3>1, LeastExists
  <2>2. m # 0
    <3>1. Good(0, [n \in 0..0 |-> zero])
      OBVIOUS
    <3> QED BY <2>1, <3>1
  <2>3. m \in 1..Len(lines) /\ m - 1 \in 0..Len(lines) /\ m - 1 \notin Bad
    <3>1. m \in 1..Len(lines) /\ m - 1 \in 0..Len(lines) /\ ~(m <= m - 1)
      <4>1. m \in 0..Len(lines)
        BY <2>1
      <4> HIDE DEF Bad
      <4> QED BY <2>2, <4>1
    <3> HIDE DEF Bad
    <3> QED BY <2>1, <3>1
  <2>4. PICK f : Good(m - 1, f)
    <3> HIDE DEF Good
    <3> QED BY <2>3
  <2> DEFINE g == [n \in 0..m |-> IF n = m THEN markStep(word, lines[m], m, f[m - 1]) ELSE f[n]]
  <2>5. \A n \in 0..m : g[n] = IF n = 0 THEN zero ELSE markStep(word, lines[n], n, g[n - 1])
    <3> SUFFICES ASSUME NEW n \in 0..m
                 PROVE  g[n] = IF n = 0 THEN zero ELSE markStep(word, lines[n], n, g[n - 1])
      OBVIOUS
    <3>1. CASE n = m
      <4>1. g[m] = markStep(word, lines[m], m, f[m - 1]) /\ g[m - 1] = f[m - 1]
        BY <2>3
      <4> QED BY <2>3, <3>1, <4>1
    <3>2. CASE n # m
      <4>1. n \in 0..(m - 1) /\ g[n] = f[n] /\ (n # 0 => n - 1 \in 0..m /\ n - 1 # m)
        BY <2>3, <3>2
      <4>2. n # 0 => g[n - 1] = f[n - 1]
        BY <4>1
      <4>3. f[n] = IF n = 0 THEN zero ELSE markStep(word, lines[n], n, f[n - 1])
        BY <2>4, <4>1
      <4> QED BY <4>1, <4>2, <4>3
    <3> QED BY <3>1, <3>2
  <2>6. Good(m, g)
    BY <2>5
  <2> QED BY <2>1, <2>6
<1>2. \E f : Good(Len(lines), f)
  <2>1. Len(lines) \in 0..Len(lines)
    OBVIOUS
  <2> HIDE DEF Good
  <2> QED BY <1>1, <2>1
<1>3. markScan(word, lines) = CHOOSE f : Good(Len(lines), f)
  BY DEF markScan
<1>4. Good(Len(lines), markScan(word, lines))
  <2> HIDE DEF Good
  <2> QED BY <1>2, <1>3
<1> DEFINE a == markScan(word, lines)
<1>5. \A n \in 0..Len(lines) : a[n] = IF n = 0 THEN zero ELSE markStep(word, lines[n], n, a[n - 1])
  <2>1. a = [n \in 0..Len(lines) |-> IF n = 0 THEN zero ELSE markStep(word, lines[n], n, a[n - 1])]
    BY <1>4
  <2> HIDE DEF a
  <2> QED BY <2>1
<1> HIDE DEF a
<1>6. a[0] = zero /\ \A n \in 1..Len(lines) : a[n] = markStep(word, lines[n], n, a[n - 1])
  BY <1>5
<1> QED BY <1>6 DEF a

LEMMA FenceScanIs ==
  ASSUME NEW lines, Len(lines) \in Nat
  PROVE  /\ fenceScan(lines)[0] = [open |-> FALSE, depth |-> 0, marked |-> {}]
         /\ \A n \in 1..Len(lines) : fenceScan(lines)[n] = fenceStep(lines[n], n, fenceScan(lines)[n - 1])
<1> DEFINE zero == [open |-> FALSE, depth |-> 0, marked |-> {}]
           Good(m, f) == f = [n \in 0..m |-> IF n = 0 THEN zero ELSE fenceStep(lines[n], n, f[n - 1])]
           Bad == {m \in 0..Len(lines) : \A f : ~Good(m, f)}
<1>1. Bad = {}
  <2> SUFFICES ASSUME Bad # {} PROVE FALSE
    OBVIOUS
  <2>1. PICK m \in Bad : \A k \in Bad : m <= k
    <3>1. Bad \subseteq Nat
      OBVIOUS
    <3> HIDE DEF Bad
    <3> QED BY <3>1, LeastExists
  <2>2. m # 0
    <3>1. Good(0, [n \in 0..0 |-> zero])
      OBVIOUS
    <3> QED BY <2>1, <3>1
  <2>3. m \in 1..Len(lines) /\ m - 1 \in 0..Len(lines) /\ m - 1 \notin Bad
    <3>1. m \in 1..Len(lines) /\ m - 1 \in 0..Len(lines) /\ ~(m <= m - 1)
      <4>1. m \in 0..Len(lines)
        BY <2>1
      <4> HIDE DEF Bad
      <4> QED BY <2>2, <4>1
    <3> HIDE DEF Bad
    <3> QED BY <2>1, <3>1
  <2>4. PICK f : Good(m - 1, f)
    <3> HIDE DEF Good
    <3> QED BY <2>3
  <2> DEFINE g == [n \in 0..m |-> IF n = m THEN fenceStep(lines[m], m, f[m - 1]) ELSE f[n]]
  <2>5. \A n \in 0..m : g[n] = IF n = 0 THEN zero ELSE fenceStep(lines[n], n, g[n - 1])
    <3> SUFFICES ASSUME NEW n \in 0..m
                 PROVE  g[n] = IF n = 0 THEN zero ELSE fenceStep(lines[n], n, g[n - 1])
      OBVIOUS
    <3>1. CASE n = m
      <4>1. g[m] = fenceStep(lines[m], m, f[m - 1]) /\ g[m - 1] = f[m - 1]
        BY <2>3
      <4> QED BY <2>3, <3>1, <4>1
    <3>2. CASE n # m
      <4>1. n \in 0..(m - 1) /\ g[n] = f[n] /\ (n # 0 => n - 1 \in 0..m /\ n - 1 # m)
        BY <2>3, <3>2
      <4>2. n # 0 => g[n - 1] = f[n - 1]
        BY <4>1
      <4>3. f[n] = IF n = 0 THEN zero ELSE fenceStep(lines[n], n, f[n - 1])
        BY <2>4, <4>1
      <4> QED BY <4>1, <4>2, <4>3
    <3> QED BY <3>1, <3>2
  <2>6. Good(m, g)
    BY <2>5
  <2> QED BY <2>1, <2>6
<1>2. \E f : Good(Len(lines), f)
  <2>1. Len(lines) \in 0..Len(lines)
    OBVIOUS
  <2> HIDE DEF Good
  <2> QED BY <1>1, <2>1
<1>3. fenceScan(lines) = CHOOSE f : Good(Len(lines), f)
  BY DEF fenceScan
<1>4. Good(Len(lines), fenceScan(lines))
  <2> HIDE DEF Good
  <2> QED BY <1>2, <1>3
<1> DEFINE a == fenceScan(lines)
<1>5. \A n \in 0..Len(lines) : a[n] = IF n = 0 THEN zero ELSE fenceStep(lines[n], n, a[n - 1])
  <2>1. a = [n \in 0..Len(lines) |-> IF n = 0 THEN zero ELSE fenceStep(lines[n], n, a[n - 1])]
    BY <1>4
  <2> HIDE DEF a
  <2> QED BY <2>1
<1> HIDE DEF a
<1>6. a[0] = zero /\ \A n \in 1..Len(lines) : a[n] = fenceStep(lines[n], n, a[n - 1])
  BY <1>5
<1> QED BY <1>6 DEF a

-----------------------------------------------------------------------------
(* What the scans compute: a list is open after line n when some line      *)
(* opened it and everything since is of it, and a line is marked for its   *)
(* own marker or as an item of the list that was open before it.           *)
Under(word, o, n) == Opening(word, doc[o]) /\ \A k \in (o + 1)..n : Runs(word, doc[k])
UnderOne(word, n) == \E o \in 1..n : Under(word, o, n)
Marked(word, n) == Inline(word, doc[n]) \/ (UnderOne(word, n - 1) /\ doc[n].word # word /\ Listed(doc[n]))
MarkedSoFar(word, n, was) ==
  /\ was \in Marks
  /\ was.open <=> UnderOne(word, n)
  /\ \A k \in Nat : k \in was.marked <=> (k \in 1..n /\ Marked(word, k))

LEMMA UnderOneStep ==
  ASSUME NEW word, NEW n \in Nat \ {0}
  PROVE  UnderOne(word, n) <=> Opening(word, doc[n]) \/ (UnderOne(word, n - 1) /\ Runs(word, doc[n]))
<1>1. ASSUME NEW o \in 1..n, Under(word, o, n)
      PROVE  Opening(word, doc[n]) \/ (UnderOne(word, n - 1) /\ Runs(word, doc[n]))
  <2>1. CASE o = n
    BY <1>1, <2>1 DEF Under
  <2>2. CASE o # n
    <3>1. o \in 1..(n - 1) /\ n \in (o + 1)..n /\ (o + 1)..(n - 1) \subseteq (o + 1)..n
      BY <2>2
    <3>2. Under(word, o, n - 1) /\ Runs(word, doc[n])
      BY <1>1, <3>1 DEF Under
    <3> QED BY <3>1, <3>2 DEF UnderOne
  <2> QED BY <2>1, <2>2
<1>2. ASSUME Opening(word, doc[n])
      PROVE  UnderOne(word, n)
  <2>1. n \in 1..n /\ (n + 1)..n = {}
    OBVIOUS
  <2>2. Under(word, n, n)
    BY <1>2, <2>1 DEF Under
  <2> QED BY <2>1, <2>2 DEF UnderOne
<1>3. ASSUME UnderOne(word, n - 1), Runs(word, doc[n])
      PROVE  UnderOne(word, n)
  <2>1. PICK o \in 1..(n - 1) : Under(word, o, n - 1)
    BY <1>3 DEF UnderOne
  <2>2. o \in 1..n /\ \A k \in (o + 1)..n : k \in (o + 1)..(n - 1) \/ k = n
    OBVIOUS
  <2>3. Under(word, o, n)
    BY <1>3, <2>1, <2>2 DEF Under
  <2> QED BY <2>2, <2>3 DEF UnderOne
<1> QED BY <1>1, <1>2, <1>3 DEF UnderOne

LEMMA MarkedStep ==
  ASSUME NEW word \in {"create", "absent-ok"}, NEW n \in Nat \ {0}, doc[n] \in Lines,
         NEW was, MarkedSoFar(word, n - 1, was), NEW now, now = markStep(word, doc[n], n, was)
  PROVE  MarkedSoFar(word, n, now)
<1> DEFINE l == doc[n]
<1>0. was \in Marks /\ (was.open <=> UnderOne(word, n - 1)) /\ l \in Lines /\ now = markStep(word, l, n, was) /\ n \in Nat
  BY DEF MarkedSoFar
<1>1. /\ now \in Marks
      /\ now.open <=> Opening(word, l) \/ (was.open /\ Runs(word, l))
      /\ now.marked = IF Inline(word, l) \/ (was.open /\ l.word # word /\ Listed(l))
                      THEN was.marked \union {n} ELSE was.marked
  <2>1. \A x, y : x \in Lines /\ y = markStep(word, x, n, was) =>
               /\ y \in Marks
               /\ y.open <=> Opening(word, x) \/ (was.open /\ Runs(word, x))
               /\ y.marked = IF Inline(word, x) \/ (was.open /\ x.word # word /\ Listed(x))
                             THEN was.marked \union {n} ELSE was.marked
    BY <1>0, MarkStepIs
  <2> QED BY <1>0, <2>1
<1>2. now.open <=> UnderOne(word, n)
  BY <1>0, <1>1, UnderOneStep
<1>3. now.marked = IF Marked(word, n) THEN was.marked \union {n} ELSE was.marked
  BY <1>0, <1>1 DEF Marked
<1>4. \A k \in Nat : k \in was.marked <=> (k \in 1..(n - 1) /\ Marked(word, k))
  BY DEF MarkedSoFar
<1>5. \A k \in Nat : k \in now.marked <=> (k \in 1..n /\ Marked(word, k))
  <2> SUFFICES ASSUME NEW k \in Nat PROVE k \in now.marked <=> (k \in 1..n /\ Marked(word, k))
    OBVIOUS
  <2>1. CASE k = n
    <3>1. k \notin 1..(n - 1) /\ k \in 1..n
      BY <2>1
    <3>2. k \notin was.marked
      BY <1>4, <3>1
    <3> QED BY <1>3, <2>1, <3>1, <3>2
  <2>2. CASE k # n
    <3>1. k \in 1..n <=> k \in 1..(n - 1)
      BY <2>2
    <3>2. k \in now.marked <=> k \in was.marked
      BY <1>3, <2>2
    <3> QED BY <1>4, <3>1, <3>2
  <2> QED BY <2>1, <2>2
<1> QED BY <1>1, <1>2, <1>5 DEF MarkedSoFar

LEMMA MarkedLinesAre ==
  ASSUME NEW word \in {"create", "absent-ok"}, doc \in Seq(Lines)
  PROVE  /\ markedLines(word, doc) \subseteq Nat
         /\ \A k \in Nat : k \in markedLines(word, doc) <=> (k \in 1..Len(doc) /\ Marked(word, k))
<1> DEFINE a == markScan(word, doc)
           L == Len(doc)
           Bad == {n \in 0..L : ~MarkedSoFar(word, n, a[n])}
<1>1. L \in Nat /\ \A n \in 1..L : doc[n] \in Lines
  OBVIOUS
<1>2. a[0] = [open |-> FALSE, marked |-> {}] /\ \A n \in 1..L : a[n] = markStep(word, doc[n], n, a[n - 1])
  BY <1>1, MarkScanIs
<1> HIDE DEF a, L
<1>3. MarkedSoFar(word, 0, a[0])
  <2>1. 1..0 = {}
    OBVIOUS
  <2>2. a[0] \in Marks /\ a[0].open = FALSE /\ a[0].marked = {}
    BY <1>2 DEF Marks
  <2> QED BY <2>1, <2>2 DEF MarkedSoFar, UnderOne
<1>4. Bad = {}
  <2> SUFFICES ASSUME Bad # {} PROVE FALSE
    OBVIOUS
  <2>1. PICK m \in Bad : \A k \in Bad : m <= k
    <3>1. Bad \subseteq Nat
      OBVIOUS
    <3> HIDE DEF Bad
    <3> QED BY <3>1, LeastExists
  <2>2. m \in 1..L /\ m - 1 \in 0..L /\ ~(m <= m - 1) /\ m \in Nat \ {0}
    <3>1. m \in 0..L /\ m # 0
      BY <1>3, <2>1
    <3> QED BY <1>1, <3>1
  <2>3. MarkedSoFar(word, m - 1, a[m - 1])
    <3>1. m - 1 \notin Bad
      <4> HIDE DEF Bad
      <4> QED BY <2>1, <2>2
    <3> QED BY <2>2, <3>1
  <2>4. MarkedSoFar(word, m, a[m])
    BY <1>1, <1>2, <2>2, <2>3, MarkedStep
  <2> QED BY <2>1, <2>4
<1>5. MarkedSoFar(word, L, a[L])
  BY <1>1, <1>4
<1>6. markedLines(word, doc) = a[L].marked
  BY DEF markedLines, a, L
<1>7. a[L].marked \subseteq Nat /\ \A k \in Nat : k \in a[L].marked <=> (k \in 1..L /\ Marked(word, k))
  BY <1>5 DEF MarkedSoFar, Marks
<1> QED BY <1>6, <1>7 DEF L

(* A fence, the same way; the last line that opened it says how deep it is. *)
FencedBy(o, n) ==
  doc[o].fence /\ doc[o].colon /\ \A k \in (o + 1)..n : InFence(doc[k], DepthUnder(doc[o]))
Listing(n) == \E o \in 1..(n - 1) : FencedBy(o, n)
Fenced(n) == doc[n].fence \/ Listing(n)
FencedSoFar(n, was) ==
  /\ was \in Fences
  /\ was.open <=> \E o \in 1..n : FencedBy(o, n)
  /\ \A o \in 1..n : FencedBy(o, n) => was.depth = DepthUnder(doc[o])
  /\ \A k \in Nat : k \in was.marked <=> (k \in 1..n /\ Fenced(k))

LEMMA FencedByStep ==
  ASSUME NEW n \in Nat \ {0}, NEW o \in 1..n
  PROVE  /\ o = n => (FencedBy(o, n) <=> doc[n].fence /\ doc[n].colon)
         /\ o # n => (FencedBy(o, n) <=> FencedBy(o, n - 1) /\ InFence(doc[n], DepthUnder(doc[o])))
<1>1. CASE o = n
  <2>1. (o + 1)..n = {}
    BY <1>1
  <2> QED BY <1>1, <2>1 DEF FencedBy
<1>2. CASE o # n
  <2>1. \A k : k \in (o + 1)..n <=> k \in (o + 1)..(n - 1) \/ k = n
    BY <1>2
  <2> QED BY <1>2, <2>1 DEF FencedBy
<1> QED BY <1>1, <1>2

LEMMA FencedStep ==
  ASSUME NEW n \in Nat \ {0}, doc[n] \in Lines,
         NEW was, FencedSoFar(n - 1, was), NEW now, now = fenceStep(doc[n], n, was)
  PROVE  FencedSoFar(n, now)
<1> DEFINE l == doc[n]
<1>0. was \in Fences /\ l \in Lines /\ now = fenceStep(l, n, was) /\ n \in Nat
  BY DEF FencedSoFar
<1>1. /\ now \in Fences
      /\ now.open <=> (l.fence /\ l.colon) \/ (was.open /\ InFence(l, was.depth))
      /\ now.depth = IF l.fence THEN DepthUnder(l) ELSE was.depth
      /\ now.marked = IF l.fence \/ (was.open /\ InFence(l, was.depth))
                      THEN was.marked \union {n} ELSE was.marked
  <2> HIDE DEF l
  <2>1. FenceStepped(l, n, was, now)
    BY <1>0, FenceStepIs
  <2> QED BY <2>1 DEF FenceStepped
<1>2. (was.open /\ InFence(l, was.depth)) <=> Listing(n)
  <2>1. ASSUME was.open, InFence(l, was.depth)
        PROVE  Listing(n)
    <3>1. PICK o \in 1..(n - 1) : FencedBy(o, n - 1)
      BY <2>1 DEF FencedSoFar
    <3>2. was.depth = DepthUnder(doc[o]) /\ o \in 1..n /\ o # n
      BY <3>1 DEF FencedSoFar
    <3>3. FencedBy(o, n)
      BY <2>1, <3>1, <3>2, FencedByStep
    <3> QED BY <3>3 DEF Listing
  <2>2. ASSUME Listing(n)
        PROVE  was.open /\ InFence(l, was.depth)
    <3>1. PICK o \in 1..(n - 1) : FencedBy(o, n)
      BY <2>2 DEF Listing
    <3>2. FencedBy(o, n - 1) /\ InFence(l, DepthUnder(doc[o]))
      <4>1. o \in 1..n /\ o # n
        OBVIOUS
      <4> QED BY <3>1, <4>1, FencedByStep
    <3>3. was.open /\ was.depth = DepthUnder(doc[o])
      BY <3>2 DEF FencedSoFar
    <3> QED BY <3>2, <3>3
  <2> QED BY <2>1, <2>2
<1>3. now.open <=> \E o \in 1..n : FencedBy(o, n)
  <2>1. (\E o \in 1..n : FencedBy(o, n)) <=> FencedBy(n, n) \/ Listing(n)
    <3>1. \A o : o \in 1..n <=> o \in 1..(n - 1) \/ o = n
      OBVIOUS
    <3> QED BY <3>1 DEF Listing
  <2>2. FencedBy(n, n) <=> l.fence /\ l.colon
    BY FencedByStep
  <2> QED BY <1>1, <1>2, <2>1, <2>2
<1>4. ASSUME NEW o \in 1..n, FencedBy(o, n)
      PROVE  now.depth = DepthUnder(doc[o])
  <2>1. CASE o = n
    BY <1>1, <1>4, <2>1, FencedByStep
  <2>2. CASE o # n
    <3>1. o \in 1..(n - 1) /\ FencedBy(o, n - 1) /\ InFence(l, DepthUnder(doc[o]))
      BY <1>4, <2>2, FencedByStep
    <3>2. was.depth = DepthUnder(doc[o])
      BY <3>1 DEF FencedSoFar
    <3>3. ~l.fence
      BY <3>1 DEF InFence
    <3> QED BY <1>1, <3>2, <3>3
  <2> QED BY <2>1, <2>2
<1>5. now.marked = IF Fenced(n) THEN was.marked \union {n} ELSE was.marked
  BY <1>1, <1>2 DEF Fenced
<1>6. \A k \in Nat : k \in was.marked <=> (k \in 1..(n - 1) /\ Fenced(k))
  BY DEF FencedSoFar
<1>7. \A k \in Nat : k \in now.marked <=> (k \in 1..n /\ Fenced(k))
  <2> SUFFICES ASSUME NEW k \in Nat PROVE k \in now.marked <=> (k \in 1..n /\ Fenced(k))
    OBVIOUS
  <2>1. CASE k = n
    <3>1. k \notin 1..(n - 1) /\ k \in 1..n
      BY <2>1
    <3>2. k \notin was.marked
      BY <1>6, <3>1
    <3> QED BY <1>5, <2>1, <3>1, <3>2
  <2>2. CASE k # n
    <3>1. k \in 1..n <=> k \in 1..(n - 1)
      BY <2>2
    <3>2. k \in now.marked <=> k \in was.marked
      BY <1>5, <2>2
    <3> QED BY <1>6, <3>1, <3>2
  <2> QED BY <2>1, <2>2
<1> QED BY <1>1, <1>3, <1>4, <1>7 DEF FencedSoFar

LEMMA FenceLinesAre ==
  ASSUME doc \in Seq(Lines)
  PROVE  /\ fenceLines(doc) \subseteq Nat
         /\ \A k \in Nat : k \in fenceLines(doc) <=> (k \in 1..Len(doc) /\ Fenced(k))
<1> DEFINE a == fenceScan(doc)
           L == Len(doc)
           Bad == {n \in 0..L : ~FencedSoFar(n, a[n])}
<1>1. L \in Nat /\ \A n \in 1..L : doc[n] \in Lines
  OBVIOUS
<1>2. a[0] = [open |-> FALSE, depth |-> 0, marked |-> {}] /\ \A n \in 1..L : a[n] = fenceStep(doc[n], n, a[n - 1])
  BY <1>1, FenceScanIs
<1> HIDE DEF a, L
<1>3. FencedSoFar(0, a[0])
  <2>1. 1..0 = {}
    OBVIOUS
  <2>2. a[0] \in Fences /\ a[0].open = FALSE /\ a[0].marked = {}
    BY <1>2 DEF Fences
  <2> QED BY <2>1, <2>2 DEF FencedSoFar
<1>4. Bad = {}
  <2> SUFFICES ASSUME Bad # {} PROVE FALSE
    OBVIOUS
  <2>1. PICK m \in Bad : \A k \in Bad : m <= k
    <3>1. Bad \subseteq Nat
      OBVIOUS
    <3> HIDE DEF Bad
    <3> QED BY <3>1, LeastExists
  <2>2. m \in 1..L /\ m - 1 \in 0..L /\ ~(m <= m - 1) /\ m \in Nat \ {0}
    <3>1. m \in 0..L /\ m # 0
      BY <1>3, <2>1
    <3> QED BY <1>1, <3>1
  <2>3. FencedSoFar(m - 1, a[m - 1])
    <3>1. m - 1 \notin Bad
      <4> HIDE DEF Bad
      <4> QED BY <2>1, <2>2
    <3> QED BY <2>2, <3>1
  <2>4. FencedSoFar(m, a[m])
    BY <1>1, <1>2, <2>2, <2>3, FencedStep
  <2> QED BY <2>1, <2>4
<1>5. FencedSoFar(L, a[L])
  BY <1>1, <1>4
<1>6. fenceLines(doc) = a[L].marked
  BY DEF fenceLines, a, L
<1>7. a[L].marked \subseteq Nat /\ \A k \in Nat : k \in a[L].marked <=> (k \in 1..L /\ Fenced(k))
  BY <1>5 DEF FencedSoFar, Fences
<1> QED BY <1>6, <1>7 DEF L

(* The declarations of a spec are on its lines. *)
LEMMA DeclaringLines ==
  ASSUME doc \in Seq(Lines)
  PROVE  creationLines(doc) \subseteq Nat \cap DOMAIN doc /\ absentLines(doc) \subseteq Nat \cap DOMAIN doc
<1>1. DOMAIN doc = 1..Len(doc) /\ Len(doc) \in Nat
  OBVIOUS
<1>2. creationLines(doc) \subseteq Nat \cap DOMAIN doc
  <2>1. creationLines(doc) \subseteq Nat
    BY MarkedLinesAre DEF creationLines
  <2> QED BY <1>1, <2>1, MarkedLinesAre DEF creationLines
<1>3. absentLines(doc) \subseteq Nat \cap DOMAIN doc
  <2>1. absentLines(doc) \subseteq Nat
    BY MarkedLinesAre, FenceLinesAre DEF absentLines
  <2> QED BY <1>1, <2>1, MarkedLinesAre, FenceLinesAre DEF absentLines
<1> QED BY <1>2, <1>3

(* The lines whose paths a spec declares as created, or as possibly absent, *)
(* are what the rules for its markers and fences say.                       *)
LEMMA MarksAre ==
  ASSUME doc \in Seq(Lines)
  PROVE  MarksAsDeclared
<1>1. DOMAIN doc = 1..Len(doc) /\ Len(doc) \in Nat /\ \A n \in DOMAIN doc : doc[n] \in Lines
  OBVIOUS
<1>2. ASSUME NEW n \in DOMAIN doc, NEW word \in {"create", "absent-ok"}
      PROVE  n \in markedLines(word, doc) <=>
               \/ doc[n].word = word /\ doc[n].form = "inline"
               \/ ~doc[n].blank /\ UnderMarker(word, n)
  <2>1. n \in Nat \ {0} /\ n \in 1..Len(doc)
    BY <1>1
  <2>2. n \in markedLines(word, doc) <=> Marked(word, n)
    BY <2>1, MarkedLinesAre
  <2>3. UnderMarker(word, n) <=> UnderOne(word, n - 1) /\ Runs(word, doc[n])
    <3>1. ASSUME NEW o \in 1..(n - 1)
          PROVE  (/\ doc[o].word = word /\ doc[o].form = "open"
                  /\ \A k \in (o + 1)..n : doc[k].word # word /\ (doc[k].blank \/ Listed(doc[k])))
                 <=> Under(word, o, n - 1) /\ Runs(word, doc[n])
      <4>1. \A k : k \in (o + 1)..n <=> k \in (o + 1)..(n - 1) \/ k = n
        BY <2>1
      <4> QED BY <4>1 DEF Under, Opening, Runs
    <3> QED BY <3>1 DEF UnderMarker, UnderOne
  <2>4. Listed(doc[n]) => ~doc[n].blank
    BY <1>1, LineTyped
  <2> QED BY <2>2, <2>3, <2>4 DEF Marked, Inline, Runs
<1>3. ASSUME NEW n \in DOMAIN doc
      PROVE  n \in fenceLines(doc) <=> doc[n].fence \/ UnderFence(n)
  <2>1. n \in Nat \ {0} /\ n \in 1..Len(doc)
    BY <1>1
  <2>2. n \in fenceLines(doc) <=> Fenced(n)
    BY <2>1, FenceLinesAre
  <2>3. ASSUME NEW o \in 1..(n - 1), NEW k \in (o + 1)..n
        PROVE  InFence(doc[k], DepthUnder(doc[o])) <=>
                 /\ Listed(doc[k]) /\ ~doc[k].fence /\ ~doc[k].heading
                 /\ doc[k].indent >= doc[o].indent
                 /\ doc[o].item => doc[k].indent > doc[o].indent
    <3>1. doc[o].indent \in Nat /\ doc[k].indent \in Nat /\ doc[o].item \in BOOLEAN
      <4>1. o \in DOMAIN doc /\ k \in DOMAIN doc
        BY <1>1, <2>1
      <4> QED BY <1>1, <4>1, LineTyped
    <3> QED BY <3>1 DEF InFence, DepthUnder
  <2>4. UnderFence(n) <=> Listing(n)
    BY <2>3 DEF UnderFence, Listing, FencedBy
  <2> QED BY <2>2, <2>4 DEF Fenced
<1> QED BY <1>2, <1>3 DEF MarksAsDeclared, creationLines, absentLines

-----------------------------------------------------------------------------
(* What a clean verdict rests on: while its place has not moved, a declared *)
(* path is in the set of its pass, and a line that was checked without a    *)
(* finding still gives none.                                                *)
Passes == {"idle", "create", "absent", "check", "done"}
Declares(on, places) == \A r \in RefsOn(on) : Unmoved(r, tree) => resolve(r, tree) \in places
LintTyped ==
  /\ tree \in Trees /\ began \in Trees /\ Grows(began, tree)
  /\ doc \in Seq(Lines) /\ checked \in 0..Len(doc) /\ pass \in Passes
LintOrder ==
  /\ pass \in {"idle", "create", "absent"} => checked = 0 /\ findings = {}
  /\ pass # "done" => verdict = "none"
  /\ verdict = "clean" => checked = Len(doc) /\ findings = {}
CreatedKnown == (pass \in {"absent", "check"} \/ verdict = "clean") => Declares(creationLines(doc), created)
ExcusedKnown == (pass = "check" \/ verdict = "clean") => Declares(absentLines(doc), excused)
Sound(n, r) == r # Unchecked /\ (Unmoved(r, tree) => finding(n, r) = {})
LinesSound == findings = {} => \A n \in 1..checked : \A r \in collectRefs(doc[n]) : Sound(n, r)
LintIInv ==
  /\ LintTyped /\ LintOrder /\ CreatedKnown /\ ExcusedKnown /\ LinesSound /\ DeclaredOnceIsEnough

LEMMA RefsTyped ==
  ASSUME NEW l \in Lines
  PROVE  collectRefs(l) \subseteq Refs \union {Unchecked}
<1>1. \A token \in l.tokens : token.claims \subseteq Refs
  BY DEF Lines, Tokens
<1> QED BY <1>1 DEF collectRefs, refsOf

LEMMA RefsOnTyped ==
  ASSUME doc \in Seq(Lines), NEW on, on \subseteq DOMAIN doc
  PROVE  RefsOn(on) \subseteq Refs
<1>1. \A n \in on : doc[n] \in Lines
  OBVIOUS
<1> SUFFICES ASSUME NEW r \in RefsOn(on) PROVE r \in Refs
  OBVIOUS
<1>2. r # Unchecked /\ \E n \in on : r \in collectRefs(doc[n])
  BY DEF RefsOn
<1>3. PICK n \in on : r \in collectRefs(doc[n])
  BY <1>2
<1>4. collectRefs(doc[n]) \subseteq Refs \union {Unchecked}
  BY <1>1, RefsTyped
<1> QED BY <1>2, <1>3, <1>4

(* What a line's reference gives depends on its place and what is there. *)
LEMMA FindingStays ==
  ASSUME NEW n, NEW r, doc' = doc, created' = created, excused' = excused,
         resolve(r, tree') = resolve(r, tree), tree'[resolve(r, tree)] = tree[resolve(r, tree)]
  PROVE  finding(n, r)' = finding(n, r)
BY DEF finding, AsExisting

(* A file that lands moves no path back to a place it was not at. *)
LEMMA LandKept ==
  ASSUME LintIInv, NEW p \in DOMAIN tree, NEW kind \in {"file", "dir"}, Land(p, kind)
  PROVE  LintIInv'
<1>1. /\ UNCHANGED <<doc, began, pass, checked, created, excused, findings, verdict>>
      /\ tree' = [tree EXCEPT ![p] = kind] /\ tree[p] = "absent"
  BY DEF Land
<1>2. tree \in Trees /\ began \in Trees /\ Grows(began, tree) /\ doc \in Seq(Lines) /\ checked \in 0..Len(doc)
  BY DEF LintIInv, LintTyped
<1>3. tree' \in Trees /\ Grows(tree, tree') /\ Grows(began, tree')
  <2>1. tree' \in Trees
    BY <1>1, <1>2 DEF Trees
  <2>2. \A q \in Sites : q # p => tree'[q] = tree[q]
    BY <1>1, <1>2 DEF Trees
  <2> QED BY <1>1, <1>2, <2>1, <2>2 DEF Grows
<1>4. ASSUME NEW r \in Refs, Unmoved(r, tree)'
      PROVE  resolve(r, tree') = resolve(r, tree) /\ tree'[resolve(r, tree)] = tree[resolve(r, tree)] /\ Unmoved(r, tree)
  <2>1. Unmoved(r, tree')
    BY <1>1, <1>4 DEF Unmoved
  <2> QED BY <1>2, <1>3, <2>1, UnmovedBack
<1>5. creationLines(doc) \subseteq DOMAIN doc /\ absentLines(doc) \subseteq DOMAIN doc
  BY <1>2, DeclaringLines
<1>6. ASSUME NEW on, on \subseteq DOMAIN doc, NEW places, Declares(on, places)
      PROVE  \A r \in RefsOn(on) : Unmoved(r, tree)' => resolve(r, tree') \in places
  <2>1. RefsOn(on) \subseteq Refs
    BY <1>2, <1>6, RefsOnTyped
  <2> QED BY <1>4, <1>6, <2>1 DEF Declares
<1>7. RefsOn(creationLines(doc))' = RefsOn(creationLines(doc)) /\ RefsOn(absentLines(doc))' = RefsOn(absentLines(doc))
  BY <1>1 DEF RefsOn
<1>8. CreatedKnown'
  <2> SUFFICES ASSUME pass \in {"absent", "check"} \/ verdict = "clean"
               PROVE  \A r \in RefsOn(creationLines(doc)) : Unmoved(r, tree)' => resolve(r, tree') \in created
    BY <1>1, <1>7 DEF CreatedKnown, Declares
  <2>1. Declares(creationLines(doc), created)
    BY DEF LintIInv, CreatedKnown
  <2> QED BY <1>5, <1>6, <2>1
<1>9. ExcusedKnown'
  <2> SUFFICES ASSUME pass = "check" \/ verdict = "clean"
               PROVE  \A r \in RefsOn(absentLines(doc)) : Unmoved(r, tree)' => resolve(r, tree') \in excused
    BY <1>1, <1>7 DEF ExcusedKnown, Declares
  <2>1. Declares(absentLines(doc), excused)
    BY DEF LintIInv, ExcusedKnown
  <2> QED BY <1>5, <1>6, <2>1
<1>10. LinesSound'
  <2> SUFFICES ASSUME findings = {}, NEW n \in 1..checked, NEW r \in collectRefs(doc[n])
               PROVE  Sound(n, r)'
    BY <1>1 DEF LinesSound
  <2>1. Sound(n, r)
    BY DEF LintIInv, LinesSound
  <2>2. r \in Refs
    <3>1. doc[n] \in Lines
      BY <1>2
    <3> QED BY <2>1, <3>1, RefsTyped DEF Sound
  <2>3. ASSUME Unmoved(r, tree)'
        PROVE  finding(n, r)' = {}
    <3>1. resolve(r, tree') = resolve(r, tree) /\ tree'[resolve(r, tree)] = tree[resolve(r, tree)] /\ Unmoved(r, tree)
      BY <1>4, <2>2, <2>3
    <3>2. finding(n, r)' = finding(n, r)
      BY <1>1, <3>1, FindingStays
    <3> QED BY <2>1, <3>1, <3>2 DEF Sound
  <2> QED BY <2>1, <2>3 DEF Sound
<1>11. LintTyped'
  BY <1>1, <1>2, <1>3 DEF LintIInv, LintTyped
<1>12. LintOrder'
  BY <1>1 DEF LintIInv, LintOrder
<1>13. DeclaredOnceIsEnough'
  <2>1. RefsOn(creationLines(doc) \union absentLines(doc))' = RefsOn(creationLines(doc) \union absentLines(doc))
    BY <1>1 DEF RefsOn
  <2> QED BY <1>1, <2>1 DEF LintIInv, DeclaredOnceIsEnough
<1> QED BY <1>8, <1>9, <1>10, <1>11, <1>12, <1>13 DEF LintIInv

(* The next line is checked. *)
LEMMA CheckLineKept ==
  ASSUME LintIInv, CheckLine
  PROVE  LintIInv'
<1> DEFINE m == checked + 1
           new == UNION {{[line |-> m, ref |-> r, kind |-> k] : k \in finding(m, r)} : r \in collectRefs(doc[m])}
<1>1. /\ pass = "check" /\ checked < Len(doc) /\ checked' = m /\ findings' = findings \union new
      /\ UNCHANGED <<doc, tree, began, pass, created, excused, verdict>>
  BY DEF CheckLine
<1>2. tree \in Trees /\ began \in Trees /\ Grows(began, tree) /\ doc \in Seq(Lines) /\ checked \in 0..Len(doc) /\ Len(doc) \in Nat
  BY DEF LintIInv, LintTyped
<1>3. m \in 1..Len(doc) /\ doc[m] \in Lines /\ \A n : n \in 1..m <=> n \in 1..checked \/ n = m
  BY <1>1, <1>2
<1>4. \A r, k : r \in collectRefs(doc[m]) /\ k \in finding(m, r) => [line |-> m, ref |-> r, kind |-> k] \in new
  OBVIOUS
<1>5. \A f \in new : \E r \in collectRefs(doc[m]) : \E k \in finding(m, r) : f = [line |-> m, ref |-> r, kind |-> k]
  OBVIOUS
<1> HIDE DEF m, new
<1>6. \A n, r : finding(n, r)' = finding(n, r)
  BY <1>1, FindingStays
<1>7. creationLines(doc) \subseteq DOMAIN doc /\ absentLines(doc) \subseteq DOMAIN doc
  BY <1>2, DeclaringLines
<1>8. /\ RefsOn(creationLines(doc))' = RefsOn(creationLines(doc)) /\ RefsOn(absentLines(doc))' = RefsOn(absentLines(doc))
      /\ RefsOn(creationLines(doc) \union absentLines(doc))' = RefsOn(creationLines(doc) \union absentLines(doc))
  BY <1>1 DEF RefsOn
<1>9. \A r : Unmoved(r, tree)' <=> Unmoved(r, tree)
  BY <1>1 DEF Unmoved
<1>10. CreatedKnown' /\ ExcusedKnown'
  BY <1>1, <1>8, <1>9 DEF LintIInv, CreatedKnown, ExcusedKnown, Declares
<1>11. LinesSound'
  <2> SUFFICES ASSUME findings = {}, new = {}, NEW n \in 1..m, NEW r \in collectRefs(doc[n])
               PROVE  r # Unchecked /\ (Unmoved(r, tree) => finding(n, r) = {})
    BY <1>1, <1>6, <1>9 DEF LinesSound, Sound
  <2>1. CASE n \in 1..checked
    BY <2>1 DEF LintIInv, LinesSound, Sound
  <2>2. CASE n = m
    <3>1. finding(m, r) = {}
      BY <1>4, <2>2
    <3>2. r = Unchecked => finding(m, r) = {"unchecked"}
      BY DEF finding
    <3> QED BY <2>2, <3>1, <3>2
  <2> QED BY <1>3, <2>1, <2>2
<1>12. DeclaredOnceIsEnough'
  <2> SUFFICES ASSUME NEW f \in findings \union new, f.kind = "missing",
                      NEW q \in RefsOn(creationLines(doc) \union absentLines(doc)), <<q.base, q.name>> = <<f.ref.base, f.ref.name>>
               PROVE  FALSE
    BY <1>1, <1>8 DEF DeclaredOnceIsEnough
  <2>1. CASE f \in findings
    BY <2>1 DEF LintIInv, DeclaredOnceIsEnough
  <2>2. CASE f \in new
    <3>1. PICK r \in collectRefs(doc[m]) : \E k \in finding(m, r) : f = [line |-> m, ref |-> r, kind |-> k]
      BY <1>5, <2>2
    <3>2. f.ref = r /\ "missing" \in finding(m, r)
      BY <3>1
    <3>3. tree[resolve(r, tree)] = "absent" /\ resolve(r, tree) \notin created /\ resolve(r, tree) \notin excused
      BY <3>2 DEF finding, AsExisting
    <3>4. resolve(q, tree) = resolve(r, tree)
      BY <3>2, SamePath
    <3>5. Unmoved(q, tree)
      BY <3>3, <3>4 DEF Unmoved
    <3>6. q \in RefsOn(creationLines(doc)) \/ q \in RefsOn(absentLines(doc))
      BY DEF RefsOn
    <3>7. Declares(creationLines(doc), created) /\ Declares(absentLines(doc), excused)
      BY <1>1 DEF LintIInv, CreatedKnown, ExcusedKnown
    <3> QED BY <3>3, <3>4, <3>5, <3>6, <3>7 DEF Declares
  <2> QED BY <2>1, <2>2
<1>13. LintTyped'
  BY <1>1, <1>2, <1>3 DEF LintIInv, LintTyped
<1>14. LintOrder'
  BY <1>1 DEF LintIInv, LintOrder
<1> QED BY <1>10, <1>11, <1>12, <1>13, <1>14 DEF LintIInv

(* The two pre-passes look at the tree once each. *)
LEMMA DeclareCreatedKept ==
  ASSUME LintIInv, DeclareCreated
  PROVE  LintIInv'
<1>1. /\ pass = "create" /\ pass' = "absent" /\ created' = {resolve(r, tree) : r \in RefsOn(creationLines(doc))}
      /\ UNCHANGED <<doc, tree, began, checked, excused, findings, verdict>>
  BY DEF DeclareCreated
<1>2. checked = 0 /\ findings = {} /\ verdict = "none"
  BY <1>1 DEF LintIInv, LintOrder
<1>3. RefsOn(creationLines(doc))' = RefsOn(creationLines(doc))
  BY <1>1 DEF RefsOn
<1>4. CreatedKnown'
  BY <1>1, <1>3 DEF CreatedKnown, Declares
<1>5. ExcusedKnown' /\ DeclaredOnceIsEnough'
  BY <1>1, <1>2 DEF ExcusedKnown, DeclaredOnceIsEnough
<1>6. LinesSound'
  BY <1>1, <1>2 DEF LinesSound
<1>7. LintTyped' /\ LintOrder'
  BY <1>1, <1>2 DEF LintIInv, LintTyped, LintOrder, Passes
<1> QED BY <1>4, <1>5, <1>6, <1>7 DEF LintIInv

LEMMA DeclareAbsentKept ==
  ASSUME LintIInv, DeclareAbsent
  PROVE  LintIInv'
<1>1. /\ pass = "absent" /\ pass' = "check" /\ excused' = {resolve(r, tree) : r \in RefsOn(absentLines(doc))}
      /\ UNCHANGED <<doc, tree, began, checked, created, findings, verdict>>
  BY DEF DeclareAbsent
<1>2. checked = 0 /\ findings = {} /\ verdict = "none"
  BY <1>1 DEF LintIInv, LintOrder
<1>3. RefsOn(creationLines(doc))' = RefsOn(creationLines(doc)) /\ RefsOn(absentLines(doc))' = RefsOn(absentLines(doc))
  BY <1>1 DEF RefsOn
<1>4. ExcusedKnown'
  BY <1>1, <1>3 DEF ExcusedKnown, Declares
<1>5. CreatedKnown'
  <2>1. Declares(creationLines(doc), created)
    BY <1>1 DEF LintIInv, CreatedKnown
  <2>2. \A r : Unmoved(r, tree)' <=> Unmoved(r, tree)
    BY <1>1 DEF Unmoved
  <2> QED BY <1>1, <1>3, <2>1, <2>2 DEF CreatedKnown, Declares
<1>6. LinesSound' /\ DeclaredOnceIsEnough'
  BY <1>1, <1>2 DEF LinesSound, DeclaredOnceIsEnough
<1>7. LintTyped' /\ LintOrder'
  BY <1>1, <1>2 DEF LintIInv, LintTyped, LintOrder, Passes
<1> QED BY <1>4, <1>5, <1>6, <1>7 DEF LintIInv

LEMMA StartLintKept ==
  ASSUME LintIInv, StartLint
  PROVE  LintIInv'
<1>1. /\ pass = "idle" /\ pass' = "create" /\ began' = tree /\ doc' \in Seq(Lines)
      /\ UNCHANGED <<tree, checked, created, excused, findings, verdict>>
  BY LintConstants DEF StartLint
<1>2. checked = 0 /\ findings = {} /\ verdict = "none"
  BY <1>1 DEF LintIInv, LintOrder
<1>3. LintTyped'
  BY <1>1, <1>2 DEF LintIInv, LintTyped, Passes, Grows
<1>4. LintOrder' /\ CreatedKnown' /\ ExcusedKnown' /\ LinesSound' /\ DeclaredOnceIsEnough'
  BY <1>1, <1>2 DEF LintOrder, CreatedKnown, ExcusedKnown, LinesSound, DeclaredOnceIsEnough
<1> QED BY <1>3, <1>4 DEF LintIInv

LEMMA UsageKept ==
  ASSUME LintIInv, UsageError
  PROVE  LintIInv'
<1>1. /\ pass = "idle" /\ pass' = "done" /\ verdict' = "usage"
      /\ UNCHANGED <<doc, tree, began, checked, created, excused, findings>>
  BY DEF UsageError
<1>2. checked = 0 /\ findings = {}
  BY <1>1 DEF LintIInv, LintOrder
<1> QED BY <1>1, <1>2 DEF LintIInv, LintTyped, LintOrder, Passes, CreatedKnown, ExcusedKnown, LinesSound, DeclaredOnceIsEnough

LEMMA ReportKept ==
  ASSUME LintIInv, Report
  PROVE  LintIInv'
<1>1. /\ pass = "check" /\ pass' = "done" /\ checked = Len(doc)
      /\ verdict' = IF findings = {} THEN "clean" ELSE "findings"
      /\ UNCHANGED <<doc, tree, began, checked, created, excused, findings>>
  BY DEF Report
<1>2. \A r : (Unmoved(r, tree)' <=> Unmoved(r, tree)) /\ \A n : finding(n, r)' = finding(n, r)
  BY <1>1, FindingStays DEF Unmoved
<1>3. \A on : RefsOn(on)' = RefsOn(on)
  BY <1>1 DEF RefsOn
<1>4. Declares(creationLines(doc), created) /\ Declares(absentLines(doc), excused)
  BY <1>1 DEF LintIInv, CreatedKnown, ExcusedKnown
<1>5. Declares(creationLines(doc), created)' /\ Declares(absentLines(doc), excused)'
  <2>1. RefsOn(creationLines(doc))' = RefsOn(creationLines(doc)) /\ RefsOn(absentLines(doc))' = RefsOn(absentLines(doc))
    BY <1>1 DEF RefsOn
  <2> QED BY <1>1, <1>2, <1>4, <2>1 DEF Declares
<1>6. CreatedKnown' /\ ExcusedKnown'
  BY <1>5 DEF CreatedKnown, ExcusedKnown
<1>7. LinesSound'
  BY <1>1, <1>2 DEF LintIInv, LinesSound, Sound
<1>8. DeclaredOnceIsEnough'
  <2>1. RefsOn(creationLines(doc) \union absentLines(doc))' = RefsOn(creationLines(doc) \union absentLines(doc))
    BY <1>1 DEF RefsOn
  <2> QED BY <1>1, <2>1 DEF LintIInv, DeclaredOnceIsEnough
<1>9. LintTyped' /\ LintOrder'
  BY <1>1 DEF LintIInv, LintTyped, LintOrder, Passes
<1> QED BY <1>6, <1>7, <1>8, <1>9 DEF LintIInv

LEMMA StutterLint ==
  ASSUME LintIInv, UNCHANGED lintVars
  PROVE  LintIInv'
<1>1. UNCHANGED <<doc, tree, began, pass, checked, created, excused, findings, verdict>>
  BY DEF lintVars
<1>2. \A r : (Unmoved(r, tree)' <=> Unmoved(r, tree)) /\ \A n : finding(n, r)' = finding(n, r)
  BY <1>1, FindingStays DEF Unmoved
<1>3. /\ RefsOn(creationLines(doc))' = RefsOn(creationLines(doc)) /\ RefsOn(absentLines(doc))' = RefsOn(absentLines(doc))
      /\ RefsOn(creationLines(doc) \union absentLines(doc))' = RefsOn(creationLines(doc) \union absentLines(doc))
  BY <1>1 DEF RefsOn
<1>4. CreatedKnown' /\ ExcusedKnown'
  BY <1>1, <1>2, <1>3 DEF LintIInv, CreatedKnown, ExcusedKnown, Declares
<1>5. LinesSound'
  BY <1>1, <1>2 DEF LintIInv, LinesSound, Sound
<1>6. DeclaredOnceIsEnough'
  BY <1>1, <1>3 DEF LintIInv, DeclaredOnceIsEnough
<1>7. LintTyped' /\ LintOrder'
  BY <1>1 DEF LintIInv, LintTyped, LintOrder
<1> QED BY <1>4, <1>5, <1>6, <1>7 DEF LintIInv

LEMMA LintStarts == LintInit => LintIInv
<1> SUFFICES ASSUME LintInit PROVE LintIInv
  OBVIOUS
<1>1. /\ doc = <<>> /\ tree = Empty /\ began = Empty /\ pass = "idle" /\ checked = 0
      /\ findings = {} /\ verdict = "none"
  BY DEF LintInit
<1>2. Empty \in Trees /\ <<>> \in Seq(Lines) /\ Len(<<>>) = 0
  BY DEF Empty, Trees
<1>3. LintTyped
  BY <1>1, <1>2 DEF LintTyped, Passes, Grows
<1> QED BY <1>1, <1>3 DEF LintIInv, LintOrder, CreatedKnown, ExcusedKnown, LinesSound, DeclaredOnceIsEnough

LEMMA LintKept == LintIInv /\ [LintNext]_lintVars => LintIInv'
<1> SUFFICES ASSUME LintIInv, [LintNext]_lintVars PROVE LintIInv'
  OBVIOUS
<1>1. CASE LintNext
  <2>1. \/ UsageError \/ StartLint \/ DeclareCreated \/ DeclareAbsent \/ CheckLine \/ Report
        \/ \E p \in DOMAIN tree, kind \in {"file", "dir"} : Land(p, kind)
    BY <1>1 DEF LintNext
  <2> QED BY <2>1, UsageKept, StartLintKept, DeclareCreatedKept, DeclareAbsentKept, CheckLineKept, ReportKept, LandKept
<1>2. CASE UNCHANGED lintVars
  BY <1>2, StutterLint
<1> QED BY <1>1, <1>2

LEMMA LintHolds == LintSpec => []LintIInv
<1> QED BY LintStarts, LintKept, PTL DEF LintSpec

(* What the invariant says of an exit of 0. *)
LEMMA CleanFollows == LintIInv => CleanMeansHeld
<1> SUFFICES ASSUME LintIInv, verdict = "clean", NEW n \in DOMAIN doc, NEW r \in collectRefs(doc[n])
             PROVE  /\ r # Unchecked
                    /\ LET p == resolve(r, tree)
                       IN  /\ tree[p] # "absent" \/ p \in created \union excused \/ scratchOutput(r, p)
                           /\ (began[p] # "absent" /\ p = resolve(r, began)) =>
                                /\ n \notin creationLines(doc)
                                /\ (p \notin created /\ began[p] = "file" /\ r.cited # -1) => r.cited \in 1..FileLines
  BY DEF CleanMeansHeld
<1> DEFINE p == resolve(r, tree)
<1>1. n \in 1..checked /\ findings = {} /\ doc[n] \in Lines
  BY DEF LintIInv, LintOrder, LintTyped
<1>2. Sound(n, r)
  BY <1>1 DEF LintIInv, LinesSound
<1>3. r # Unchecked /\ r \in Refs
  BY <1>1, <1>2, RefsTyped DEF Sound
<1>4. p \in Sites
  BY <1>3, ResolveTyped
<1>5. Declares(creationLines(doc), created)
  BY DEF LintIInv, CreatedKnown
<1>6. ASSUME tree[p] = "absent"
      PROVE  p \in created \union excused \/ scratchOutput(r, p)
  <2>1. finding(n, r) = {}
    BY <1>2, <1>6 DEF Unmoved, Sound
  <2> QED BY <1>3, <1>6, <2>1 DEF finding
<1>7. ASSUME began[p] # "absent", p = resolve(r, began)
      PROVE  /\ n \notin creationLines(doc)
             /\ (p \notin created /\ began[p] = "file" /\ r.cited # -1) => r.cited \in 1..FileLines
  <2>1. Unmoved(r, tree) /\ tree[p] = began[p]
    BY <1>4, <1>7 DEF LintIInv, LintTyped, Grows, Unmoved
  <2>2. finding(n, r) = {}
    BY <1>2, <2>1 DEF Sound
  <2>3. p \in created => n \notin creationLines(doc)
    BY <1>3, <1>7, <2>1, <2>2 DEF finding
  <2>4. n \in creationLines(doc) => p \in created
    <3>1. n \in creationLines(doc) => r \in RefsOn(creationLines(doc))
      BY <1>3 DEF RefsOn
    <3> QED BY <1>5, <2>1, <3>1 DEF Declares
  <2>5. p \notin created => AsExisting(r, p) = {}
    BY <1>3, <1>7, <2>1, <2>2 DEF finding
  <2>6. (p \notin created /\ began[p] = "file" /\ r.cited # -1) => r.cited \in 1..FileLines
    BY <2>1, <2>5 DEF AsExisting
  <2> QED BY <2>3, <2>4, <2>6
<1> QED BY <1>3, <1>6, <1>7

(* A spec's Create: and Absent-ok: markers and its fences declare the lines *)
(* their rules say, on every spec (markedLines, fenceLines).                *)
THEOREM LintMarks == LintSpec => []MarksAsDeclared
<1>1. LintIInv => MarksAsDeclared
  BY MarksAre DEF LintIInv, LintTyped
<1> QED BY <1>1, LintHolds, PTL

(* A path the spec declares anywhere is reported missing nowhere, whatever  *)
(* lands in the tree while the lint looks (Lint's two pre-passes).          *)
THEOREM DeclaredOnce == LintSpec => []DeclaredOnceIsEnough
<1>1. LintIInv => DeclaredOnceIsEnough
  BY DEF LintIInv
<1> QED BY <1>1, LintHolds, PTL

(* An exit of 0 vouches for every line, whatever lands.                     *)
THEOREM CleanIsHeld == LintSpec => []CleanMeansHeld
<1> QED BY CleanFollows, LintHolds, PTL
================================================================================
