---------------------------- MODULE LaunchProofs -----------------------------
(***************************************************************************)
(* One launch, from its command line to its exit code: for any command     *)
(* lines, any configurations, any catalogues however they change between   *)
(* the two processes of a detached round, any free.prefer list, and any    *)
(* evidence a harness can leave.                                           *)
(*                                                                         *)
(* The state machine is short and its steps are long: a step is one whole  *)
(* OutsourceMain or one whole finish. The proofs follow that. First what   *)
(* the operators return (a list of checks and its first failure, a model   *)
(* and the forms of its id, the entry a catalogue answers with); then that *)
(* OutsourceMain run again on what detachArgs wrote decides the same       *)
(* (ChildKeepsRound); then the invariant LaunchInv, which keeps the two    *)
(* decisions as results of OutsourceMain; then the properties, each of     *)
(* which reads one decision or one verdict apart.                          *)
(***************************************************************************)
EXTENDS Launch, WellFoundedInduction, FiniteSetTheorems, SequenceTheorems, TLAPS

(* A set of naturals has a least member, and a finite family of sets one   *)
(* with no other member of the family under it.                            *)
LEMMA SmallestSet ==
  ASSUME NEW T, T # {}, \A s \in T : IsFiniteSet(s)
  PROVE  \E s \in T : \A u \in T : ~(u \subseteq s /\ u # s)
<1> DEFINE U == UNION T
           R == StrictSubsetOrdering(U)
<1>1. IsWellFoundedOn(R, FiniteSubsetsOf(U))
  BY FS_StrictSubsetOrderingWellFounded
<1>2. T \subseteq FiniteSubsetsOf(U)
  BY DEF FiniteSubsetsOf
<1>3. PICK s \in T : \A u \in T : <<u, s>> \notin R
  <2> HIDE DEF R, U
  <2> QED BY <1>1, <1>2, WFMin
<1>4. \A u \in T : ~(u \subseteq s /\ u # s)
  BY <1>3 DEF StrictSubsetOrdering
<1> QED BY <1>4

LEMMA LeastExists ==
  ASSUME NEW S, S \subseteq Nat, S # {}
  PROVE  \E i \in S : \A j \in S : i <= j
<1> DEFINE T == {0..i : i \in S}
<1>1. T # {} /\ \A s \in T : IsFiniteSet(s)
  <2>1. \A i \in S : IsFiniteSet(0..i)
    BY FS_Interval
  <2> QED BY <2>1
<1>2. PICK s \in T : \A u \in T : ~(u \subseteq s /\ u # s)
  <2> HIDE DEF T
  <2> QED BY <1>1, SmallestSet
<1>3. PICK i \in S : s = 0..i
  OBVIOUS
<1>4. ASSUME NEW j \in S, j < i
      PROVE  FALSE
  <2>1. 0..j \subseteq 0..i
    BY <1>4
  <2>2. i \in 0..i /\ i \notin 0..j
    BY <1>4
  <2> QED BY <2>1, <2>2, <1>2, <1>3
<1> QED BY <1>4

(* The tag of the first check that fails is one of the tags, or pass.      *)
LEMMA FirstFailingIs ==
  ASSUME NEW checks, NEW pass, DOMAIN checks \subseteq Nat
  PROVE  \/ FirstFailing(checks, pass) = pass /\ \A i \in DOMAIN checks : ~checks[i][1]
         \/ \E i \in DOMAIN checks : checks[i][1] /\ FirstFailing(checks, pass) = checks[i][2]
<1> DEFINE failing == {i \in DOMAIN checks : checks[i][1]}
           first   == CHOOSE i \in failing : \A j \in failing : i <= j
<1>1. CASE failing = {}
  BY <1>1 DEF FirstFailing
<1>2. CASE failing # {}
  <2>1. failing \subseteq Nat
    OBVIOUS
  <2>2. \E i \in failing : \A j \in failing : i <= j
    <3> HIDE DEF failing
    <3> QED BY <1>2, <2>1, LeastExists
  <2>3. first \in failing
    BY <2>2
  <2>4. FirstFailing(checks, pass) = checks[first][2]
    BY <1>2 DEF FirstFailing
  <2> QED BY <2>3, <2>4
<1> QED BY <1>1, <1>2

(* The checks and their codes, none of them 0.                             *)
EarlyPasses(r, w, detached, c) ==
  /\ ~w.nested
  /\ ~(r.handoff.given /\ ~detached)
  /\ w.tree
  /\ c.provider \in Providers
  /\ w.cfg.parses
  /\ c.provider \notin w.cfg.disabled
  /\ configured(c.provider, w.cfg) => DefaultModelOK(c.provider, c.default)
  /\ ~Mapped(c.provider, OrDefault(seedModel(c.provider, r.model, w), c.default), w.allowMapped)
  /\ c.harness \in Harnesses
  /\ c.provider \in Drives(c.harness)
  /\ EffortOK(c.harness, r.effort)
  /\ ResumeOK(c.harness, c.provider, r.resume)

LatePasses(r, w, detached, c, pick, model, chk) ==
  /\ ~(c.named = Selector /\ ~pick.found)
  /\ OrDefault(model, c.default) # None
  /\ w.configDir
  /\ r.marker # "not in the spec"
  /\ r.foreground \/ r.detach \/ detached
  /\ ~(~r.noVisionCheck /\ r.image /\ ~ModelVision(c.provider, model, c.default))
  /\ r.quota \in {"none", "ok"} \/ detached
  /\ r.maxSeconds # "bad"
  /\ ~opencodeCredsMissing(c.provider, c.harness, w)
  /\ ModelFormOK(c.provider, c.harness, model)
  /\ ~chk.refused
  /\ ~(r.detach /\ ~w.onPath)
  /\ ~(r.detach /\ ~(r.log /\ w.logOK))
  /\ ~(r.detach /\ ~w.starts)

Codes == {1} \union 64..70

LEMMA EarlyFails ==
  ASSUME NEW r, NEW w, NEW d, NEW c, NEW pass
  PROVE  \/ EarlyPasses(r, w, d, c) /\ FirstFailing(EarlyChecks(r, w, d, c), pass) = pass
         \/ ~EarlyPasses(r, w, d, c) /\ FirstFailing(EarlyChecks(r, w, d, c), pass) \in Codes
<1> DEFINE checks == EarlyChecks(r, w, d, c)
<1>1. DOMAIN checks = 1..12 /\ \A i \in 1..12 : checks[i][2] \in Codes
  BY DEF EarlyChecks, Codes, ExitUsage, ExitModelIdentity
<1>2. EarlyPasses(r, w, d, c) <=> \A i \in 1..12 : ~checks[i][1]
  <2>1. /\ checks[1][1] = (w.nested)
        /\ checks[2][1] = (r.handoff.given /\ ~d)
        /\ checks[3][1] = (~w.tree)
        /\ checks[4][1] = (c.provider \notin Providers)
        /\ checks[5][1] = (~w.cfg.parses)
        /\ checks[6][1] = (c.provider \in w.cfg.disabled)
        /\ checks[7][1] = (configured(c.provider, w.cfg) /\ ~DefaultModelOK(c.provider, c.default))
        /\ checks[8][1] = (Mapped(c.provider, OrDefault(seedModel(c.provider, r.model, w), c.default), w.allowMapped))
        /\ checks[9][1] = (c.harness \notin Harnesses)
        /\ checks[10][1] = (c.provider \notin Drives(c.harness))
        /\ checks[11][1] = (~EffortOK(c.harness, r.effort))
        /\ checks[12][1] = (~ResumeOK(c.harness, c.provider, r.resume))
    BY DEF EarlyChecks
  <2>2. (\A i \in 1..12 : ~checks[i][1]) <=>
          ~checks[1][1] /\ ~checks[2][1] /\ ~checks[3][1] /\ ~checks[4][1] /\ ~checks[5][1] /\ ~checks[6][1] /\ ~checks[7][1] /\ ~checks[8][1] /\ ~checks[9][1] /\ ~checks[10][1] /\ ~checks[11][1] /\ ~checks[12][1]
    <3> HIDE DEF checks
    <3>1. \A i \in 1..12 : i = 1 \/ i = 2 \/ i = 3 \/ i = 4 \/ i = 5 \/ i = 6 \/ i = 7 \/ i = 8 \/ i = 9 \/ i = 10 \/ i = 11 \/ i = 12
      OBVIOUS
    <3>2. 1 \in 1..12 /\ 2 \in 1..12 /\ 3 \in 1..12 /\ 4 \in 1..12 /\ 5 \in 1..12 /\ 6 \in 1..12 /\ 7 \in 1..12 /\ 8 \in 1..12 /\ 9 \in 1..12 /\ 10 \in 1..12 /\ 11 \in 1..12 /\ 12 \in 1..12
      OBVIOUS
    <3> QED BY <3>1, <3>2, Zenon
  <2> HIDE DEF checks
  <2> QED BY <2>1, <2>2 DEF EarlyPasses
<1> HIDE DEF checks
<1>3. \/ FirstFailing(checks, pass) = pass /\ \A i \in 1..12 : ~checks[i][1]
      \/ \E i \in 1..12 : checks[i][1] /\ FirstFailing(checks, pass) = checks[i][2]
  BY <1>1, FirstFailingIs
<1>4. QED BY <1>1, <1>2, <1>3 DEF checks

LEMMA LateFails ==
  ASSUME NEW r, NEW w, NEW d, NEW c, NEW pick, NEW model, NEW chk
  PROVE  LET checks == LateChecks(r, w, d, c, pick, model, chk)
             passes == LatePasses(r, w, d, c, pick, model, chk)
         IN  \/ passes /\ FirstFailing(checks, 0) = 0
             \/ ~passes /\ FirstFailing(checks, 0) \in Codes
<1> DEFINE checks == LateChecks(r, w, d, c, pick, model, chk)
<1>1. DOMAIN checks = 1..13 /\ \A i \in 1..13 : checks[i][2] \in Codes
  BY DEF LateChecks, Codes, ExitUsage, ExitVisionRefused, ExitQuotaFloor, ExitCredential, ExitHarnessMissing, ExitNoStart
<1>2. LatePasses(r, w, d, c, pick, model, chk) <=> \A i \in 1..13 : ~checks[i][1]
  <2>1. /\ checks[1][1] = (c.named = Selector /\ ~pick.found)
        /\ checks[2][1] = (OrDefault(model, c.default) = None \/ ~w.configDir)
        /\ checks[3][1] = (r.marker = "not in the spec")
        /\ checks[4][1] = (~(r.foreground \/ r.detach \/ d))
        /\ checks[5][1] = (~r.noVisionCheck /\ r.image /\ ~ModelVision(c.provider, model, c.default))
        /\ checks[6][1] = (r.quota \notin {"none", "ok"} /\ ~d)
        /\ checks[7][1] = (r.maxSeconds = "bad")
        /\ checks[8][1] = (opencodeCredsMissing(c.provider, c.harness, w))
        /\ checks[9][1] = (~ModelFormOK(c.provider, c.harness, model))
        /\ checks[10][1] = (chk.refused)
        /\ checks[11][1] = (r.detach /\ ~w.onPath)
        /\ checks[12][1] = (r.detach /\ ~(r.log /\ w.logOK))
        /\ checks[13][1] = (r.detach /\ ~w.starts)
    BY DEF LateChecks
  <2>2. (\A i \in 1..13 : ~checks[i][1]) <=>
          ~checks[1][1] /\ ~checks[2][1] /\ ~checks[3][1] /\ ~checks[4][1] /\ ~checks[5][1] /\ ~checks[6][1] /\ ~checks[7][1] /\ ~checks[8][1] /\ ~checks[9][1] /\ ~checks[10][1] /\ ~checks[11][1] /\ ~checks[12][1] /\ ~checks[13][1]
    <3> HIDE DEF checks
    <3>1. \A i \in 1..13 : i = 1 \/ i = 2 \/ i = 3 \/ i = 4 \/ i = 5 \/ i = 6 \/ i = 7 \/ i = 8 \/ i = 9 \/ i = 10 \/ i = 11 \/ i = 12 \/ i = 13
      OBVIOUS
    <3>2. 1 \in 1..13 /\ 2 \in 1..13 /\ 3 \in 1..13 /\ 4 \in 1..13 /\ 5 \in 1..13 /\ 6 \in 1..13 /\ 7 \in 1..13 /\ 8 \in 1..13 /\ 9 \in 1..13 /\ 10 \in 1..13 /\ 11 \in 1..13 /\ 12 \in 1..13 /\ 13 \in 1..13
      OBVIOUS
    <3> QED BY <3>1, <3>2, Zenon
  <2> HIDE DEF checks
  <2> QED BY <2>1, <2>2 DEF LatePasses
<1> HIDE DEF checks
<1>3. \/ FirstFailing(checks, 0) = 0 /\ \A i \in 1..13 : ~checks[i][1]
      \/ \E i \in 1..13 : checks[i][1] /\ FirstFailing(checks, 0) = checks[i][2]
  BY <1>1, FirstFailingIs
<1>4. QED BY <1>1, <1>2, <1>3 DEF checks

(***************************************************************************)
(* The verdict on a round, for any evidence.                               *)
(***************************************************************************)
LEMMA JudgeCases ==
  ASSUME NEW log \in BOOLEAN, NEW ev \in Evidences, NEW rc \in Nat, NEW says, NEW actual
  PROVE  /\ ev.bail # 0 => Judge(log, ev, rc, says, actual) = Ends(ev.bail, "skipped", {})
         /\ ev.bail = 0 /\ ev.timedOut => Judge(log, ev, rc, says, actual) = Ends(ExitTimedOut, "skipped", {})
         /\ ev.bail = 0 /\ ~ev.timedOut /\ (rc # 0 \/ ~log) =>
                Judge(log, ev, rc, says, actual) = Ends(rc, "skipped", actual)
         /\ ev.bail = 0 /\ ~ev.timedOut /\ rc = 0 /\ log /\ says.verdict = "ok" =>
                Judge(log, ev, rc, says, actual) = Ends(0, says.verdict, says.actual)
         /\ ev.bail = 0 /\ ~ev.timedOut /\ rc = 0 /\ log /\ says.verdict # "ok" =>
                Judge(log, ev, rc, says, actual) = Ends(ExitModelIdentity, says.verdict, says.actual)
  BY DEF Judge

(* A round that gets a 0 from its arm ended well, and its log, when it has *)
(* one, was asserted.                                                      *)
LEMMA JudgedClean ==
  ASSUME NEW log \in BOOLEAN, NEW ev \in Evidences, NEW rc \in Nat, NEW says, NEW actual,
         Judge(log, ev, rc, says, actual).rc = 0
  PROVE  ev.bail = 0 /\ ~ev.timedOut /\ rc = 0 /\ (log => says.verdict = "ok")
<1> DEFINE said == Judge(log, ev, rc, says, actual)
<1>0. said.rc = 0
  OBVIOUS
<1>1. ev.bail # 0 => said = Ends(ev.bail, "skipped", {})
  BY JudgeCases
<1>2. ev.bail = 0 /\ ev.timedOut => said = Ends(ExitTimedOut, "skipped", {})
  BY JudgeCases
<1>3. ev.bail = 0 /\ ~ev.timedOut /\ (rc # 0 \/ ~log) => said = Ends(rc, "skipped", actual)
  BY JudgeCases
<1>4. ev.bail = 0 /\ ~ev.timedOut /\ rc = 0 /\ log /\ says.verdict # "ok" =>
        said = Ends(ExitModelIdentity, says.verdict, says.actual)
  BY DEF Judge
<1> HIDE DEF said
<1>5. ev.bail = 0
  BY <1>0, <1>1 DEF Ends
<1>6. ~ev.timedOut
  BY <1>0, <1>2, <1>5 DEF Ends, ExitTimedOut
<1>7. rc = 0
  BY <1>0, <1>3, <1>5, <1>6 DEF Ends
<1>8. log => says.verdict = "ok"
  BY <1>0, <1>4, <1>5, <1>6, <1>7 DEF Ends, ExitModelIdentity
<1> QED BY <1>5, <1>6, <1>7, <1>8

LEMMA JudgedLogged ==
  ASSUME NEW ev \in Evidences, NEW rc \in Nat, NEW says, NEW actual,
         Judge(TRUE, ev, rc, says, actual).rc = 0
  PROVE  ev.bail = 0 /\ ~ev.timedOut /\ rc = 0 /\ says.verdict = "ok"
  BY JudgedClean

LEMMA JudgedOfClean ==
  ASSUME NEW log \in BOOLEAN, NEW ev \in Evidences, NEW rc \in {0, 1}, NEW says, NEW actual,
         ev.bail = 0, ~ev.timedOut, NEW said, said = Judge(log, ev, rc, says, actual)
  PROVE  /\ said.rc \in {0, 1, ExitModelIdentity}
         /\ said.rc = 0 => said.verdict \in {"skipped", "ok"}
         /\ said.rc = ExitModelIdentity => log /\ says.verdict # "ok"
<1>1. rc # 0 \/ ~log => said = Ends(rc, "skipped", actual)
  BY JudgeCases
<1>2. rc = 0 /\ log => \/ says.verdict = "ok" /\ said = Ends(0, says.verdict, says.actual)
                       \/ says.verdict # "ok" /\ said = Ends(ExitModelIdentity, says.verdict, says.actual)
  BY DEF Judge
<1>3. CASE rc # 0 \/ ~log
  BY <1>1, <1>3 DEF Ends, ExitModelIdentity
<1>4. CASE rc = 0 /\ log
  <2>1. CASE says.verdict = "ok" /\ said = Ends(0, says.verdict, says.actual)
    BY <2>1 DEF Ends, ExitModelIdentity
  <2>2. CASE says.verdict # "ok" /\ said = Ends(ExitModelIdentity, says.verdict, says.actual)
    <3>1. said.rc = 70
      BY <2>2 DEF Ends, ExitModelIdentity
    <3>2. said.rc \in {0, 1, ExitModelIdentity} /\ said.rc # 0
      BY <3>1 DEF ExitModelIdentity
    <3> QED BY <1>4, <2>2, <3>2, Zenon
  <2> QED BY <1>2, <1>4, <2>1, <2>2
<1> QED BY <1>3, <1>4

LEMMA FinishedClean ==
  ASSUME NEW h, NEW ev \in Evidences, NEW marker \in BOOLEAN, NEW allowed \in BOOLEAN,
         finish(h, TRUE, marker, allowed, ev).rc = 0
  PROVE  /\ arm(h, TRUE, ev).rc = 0
         /\ ev.bail = 0 => /\ marker => markerVerdict(h, ev)
                           /\ toolCalls(h, ev, allowed) # "zero"
<1> DEFINE said   == arm(h, TRUE, ev)
           looked == ev.bail = 0 /\ marker
           rc1    == IF looked /\ said.rc = 0 /\ ~markerVerdict(h, ev) THEN ExitNoMarker ELSE said.rc
           calls  == IF ev.bail = 0 THEN toolCalls(h, ev, allowed) ELSE "uncounted"
<1>1. (IF rc1 = 0 /\ calls = "zero" THEN ExitNoToolCalls ELSE rc1) = 0
  BY DEF finish, seen
<1>2. rc1 = 0 /\ calls # "zero"
  <2> HIDE DEF calls, rc1
  <2> QED BY <1>1 DEF ExitNoToolCalls
<1>3. said.rc = 0 /\ ~(looked /\ ~markerVerdict(h, ev))
  <2> HIDE DEF said, looked
  <2> QED BY <1>2 DEF ExitNoMarker
<1> QED BY <1>2, <1>3

LEMMA ArmIsClean ==
  ASSUME NEW h \in Harnesses, NEW ev \in Evidences, arm(h, TRUE, ev).rc = 0
  PROVE  /\ ev.bail = 0 /\ ev.child = 0 /\ ~ev.timedOut
         /\ h = "claude-code" => analyzeRun(ev).verdict = "ok"
         /\ h = "opencode" => ev.session /\ parseOpencodeExport(ev).verdict = "ok"
         /\ h = "agy" => ev.session /\ assertAgyIdentity(ev).verdict = "ok" /\ ev.status \in {"none", "SUCCESS"}
         /\ h = "muse" => assertMuseIdentity(ev).verdict = "ok"
<1>0. ev.child \in Nat
  BY DEF Evidences
<1>1. CASE h = "claude-code"
  BY <1>0, <1>1, JudgedClean DEF arm, runClaudeCode
<1>2. CASE h = "crush"
  BY <1>0, <1>2, JudgedClean DEF arm, runCrush
<1>3. CASE h = "opencode"
  <2> DEFINE says == IF ev.session THEN Ok(parseOpencodeExport(ev)) ELSE Says("absent", {})
  <2>1. Judge(TRUE, ev, ev.child, says, {}).rc = 0
    BY <1>3 DEF arm, runOpencode
  <2>2. ev.bail = 0 /\ ~ev.timedOut /\ ev.child = 0 /\ says.verdict = "ok"
    <3> HIDE DEF says
    <3> QED BY <1>0, <2>1, JudgedLogged
  <2>3. ev.session /\ parseOpencodeExport(ev).verdict = "ok"
    BY <2>2 DEF Ok, Says
  <2> QED BY <1>3, <2>2, <2>3
<1>4. CASE h = "agy"
  <2> DEFINE says == IF ev.session THEN Ok(assertAgyIdentity(ev)) ELSE Says("absent", {})
             rc   == IF ev.child = 0 /\ ev.status \notin {"none", "SUCCESS"} THEN 1 ELSE ev.child
  <2>0. rc \in Nat
    BY <1>0
  <2>1. Judge(TRUE, ev, rc, says, {}).rc = 0
    BY <1>4 DEF arm, runAgy
  <2>2. ev.bail = 0 /\ ~ev.timedOut /\ rc = 0 /\ says.verdict = "ok"
    <3> HIDE DEF says, rc
    <3> QED BY <1>0, <2>0, <2>1, JudgedLogged
  <2>3. ev.session /\ assertAgyIdentity(ev).verdict = "ok"
    BY <2>2 DEF Ok, Says
  <2>4. ev.child = 0 /\ ev.status \in {"none", "SUCCESS"}
    <3>1. ev.child = 0 /\ ev.status \notin {"none", "SUCCESS"} => rc = 1
      OBVIOUS
    <3>2. ~(ev.child = 0 /\ ev.status \notin {"none", "SUCCESS"}) => rc = ev.child
      OBVIOUS
    <3>3. rc = 0
      BY <2>2
    <3> HIDE DEF says, rc
    <3>4. rc # 1
      BY <3>3
    <3> QED BY <3>1, <3>2, <3>3, <3>4, Zenon
  <2> QED BY <1>4, <2>2, <2>3, <2>4
<1>5. CASE h = "muse"
  <2>1. Judge(TRUE, ev, ev.child, Ok(assertMuseIdentity(ev)), {}).rc = 0
    BY <1>5 DEF arm, runMuse
  <2>2. ev.bail = 0 /\ ~ev.timedOut /\ ev.child = 0 /\ Ok(assertMuseIdentity(ev)).verdict = "ok"
    BY <1>0, <2>1, JudgedLogged
  <2>3. assertMuseIdentity(ev).verdict = "ok"
    BY <2>2 DEF Ok, Says
  <2> QED BY <1>5, <2>2, <2>3
<1> QED BY <1>1, <1>2, <1>3, <1>4, <1>5 DEF Harnesses

LEMMA CleanlyAnswered ==
  ASSUME NEW h \in Harnesses, NEW ev \in Evidences, arm(h, TRUE, ev).rc = 0
  PROVE  /\ h \in {"claude-code", "opencode", "muse"} =>
                Responded(h, ev) # {} /\ Responded(h, ev) \intersect {"foreign", "shorter", "forged"} = {}
         /\ h = "agy" => /\ ("foreign" \in Responded(h, ev) => "exact" \in Responded(h, ev))
                         /\ "exact" \in Responded(h, ev) \union ev.echo
<1>1. CASE h = "claude-code"
  <2>1. analyzeRun(ev).verdict = "ok"
    BY <1>1, ArmIsClean
  <2>2. spoken(ev) # {} /\ \A a \in spoken(ev) : Begins(a)
    BY <2>1 DEF analyzeRun, Says
  <2> QED BY <1>1, <2>2 DEF Responded, Begins
<1>2. CASE h = "opencode"
  <2>1. ev.session /\ parseOpencodeExport(ev).verdict = "ok"
    BY <1>2, ArmIsClean
  <2>2. ev.source = "read" /\ ev.answers = {"exact"}
    BY <2>1 DEF parseOpencodeExport, Says, Evidences
  <2> QED BY <1>2, <2>1, <2>2 DEF Responded
<1>3. CASE h = "agy"
  <2> DEFINE found   == IF ev.source = "read" THEN ev.answers ELSE {}
             foreign == found \ {"exact", "annotated", "longer", "shorter"}
  <2>1. assertAgyIdentity(ev).verdict = "ok"
    BY <1>3, ArmIsClean
  <2>2. "exact" \in found \/ (foreign = {} /\ ev.echo = {"exact"})
    BY <2>1 DEF assertAgyIdentity, Says
  <2> QED BY <1>3, <2>2 DEF Responded
<1>4. CASE h = "muse"
  <2>1. assertMuseIdentity(ev).verdict = "ok"
    BY <1>4, ArmIsClean
  <2>2. ev.session /\ ev.source = "read" /\ ev.answers = {"exact"}
    BY <2>1 DEF assertMuseIdentity, Says
  <2> QED BY <1>4, <2>2 DEF Responded
<1> QED BY <1>1, <1>2, <1>3, <1>4

(* A clean round whose transcript was counted whole has a tool call or the *)
(* caller's leave to have none.                                            *)
LEMMA CountedCalls ==
  ASSUME NEW ev \in Evidences, NEW allowed \in BOOLEAN, ev.tools = "zero",
         toolCalls("claude-code", ev, allowed) # "zero"
  PROVE  allowed \/ ~trailKnown(ev)
  BY DEF toolCalls

(* What the arm of a harness that ended well makes of its evidence.        *)
LEMMA CodesOfArms ==
  ASSUME NEW h \in Harnesses, NEW log \in BOOLEAN, NEW seenEv \in Evidences, NEW ev \in Evidences,
         seenEv.bail = 0, ~seenEv.timedOut, seenEv.child = 0, log => seenEv = ev
  PROVE  LET said == arm(h, log, seenEv)
         IN  /\ said.rc \in {0, 1, ExitModelIdentity}
             /\ said.rc = 0 => said.verdict \in {"skipped", "ok"}
             /\ said.rc = ExitModelIdentity => /\ log /\ h # "crush"
                                               /\ Responded(h, ev) # {"exact"} \/ ~ev.session
<1> DEFINE said == arm(h, log, seenEv)
           Earned == /\ said.rc \in {0, 1, ExitModelIdentity}
                     /\ said.rc = 0 => said.verdict \in {"skipped", "ok"}
                     /\ said.rc = ExitModelIdentity => /\ log /\ h # "crush"
                                                       /\ Responded(h, ev) # {"exact"} \/ ~ev.session
<1>1. CASE h = "claude-code"
  <2>1. said = Judge(log, seenEv, 0, analyzeRun(seenEv), analyzeRun(seenEv).actual)
    BY <1>1 DEF arm, runClaudeCode
  <2>2. Earned
    <3> HIDE DEF said
    <3>1. /\ said.rc \in {0, 1, ExitModelIdentity}
          /\ said.rc = 0 => said.verdict \in {"skipped", "ok"}
          /\ said.rc = ExitModelIdentity => log /\ analyzeRun(ev).verdict # "ok"
      BY <2>1, JudgedOfClean
    <3>2. Responded(h, ev) = {"exact"} /\ analyzeRun(ev).verdict # "ok" => ~ev.session
      BY <1>1 DEF Responded, analyzeRun, Says, Begins, spoken, transcript
    <3> QED BY <1>1, <3>1, <3>2
  <2> QED BY <2>2
<1>2. CASE h = "crush"
  <2>1. said = Ends(0, "skipped", {})
    BY <1>2 DEF arm, runCrush, Judge
  <2>2. said.rc = 0 /\ said.verdict = "skipped"
    <3> HIDE DEF said
    <3> QED BY <2>1 DEF Ends
  <2> QED BY <2>2 DEF ExitModelIdentity
<1>3. CASE h = "opencode"
  <2> DEFINE says == IF seenEv.session THEN Ok(parseOpencodeExport(seenEv)) ELSE Says("absent", {})
  <2>1. said = Judge(log, seenEv, 0, says, {})
    BY <1>3 DEF arm, runOpencode
  <2>2. /\ said.rc \in {0, 1, ExitModelIdentity}
        /\ said.rc = 0 => said.verdict \in {"skipped", "ok"}
        /\ said.rc = ExitModelIdentity => log /\ says.verdict # "ok"
    <3> HIDE DEF said, says
    <3> QED BY <2>1, JudgedOfClean
  <2>3. log /\ says.verdict # "ok" /\ Responded(h, ev) = {"exact"} => ~ev.session
    BY <1>3 DEF Responded, parseOpencodeExport, Ok, Says
  <2> HIDE DEF says
  <2> QED BY <1>3, <2>2, <2>3
<1>4. CASE h = "agy"
  <2> DEFINE says == IF seenEv.session THEN Ok(assertAgyIdentity(seenEv)) ELSE Says("absent", {})
             rc   == IF seenEv.child = 0 /\ seenEv.status \notin {"none", "SUCCESS"} THEN 1 ELSE seenEv.child
  <2>1. said = Judge(log, seenEv, rc, says, {}) /\ rc \in {0, 1}
    BY <1>4 DEF arm, runAgy
  <2>2. /\ said.rc \in {0, 1, ExitModelIdentity}
        /\ said.rc = 0 => said.verdict \in {"skipped", "ok"}
        /\ said.rc = ExitModelIdentity => log /\ says.verdict # "ok"
    <3> HIDE DEF said, says, rc
    <3> QED BY <2>1, JudgedOfClean
  <2>3. log /\ says.verdict # "ok" /\ Responded(h, ev) = {"exact"} => ~ev.session
    BY <1>4 DEF Responded, assertAgyIdentity, Ok, Says
  <2> HIDE DEF says, rc
  <2> QED BY <1>4, <2>2, <2>3
<1>5. CASE h = "muse"
  <2> DEFINE says == Ok(assertMuseIdentity(seenEv))
  <2>1. said = Judge(log, seenEv, 0, says, {})
    BY <1>5 DEF arm, runMuse
  <2>2. /\ said.rc \in {0, 1, ExitModelIdentity}
        /\ said.rc = 0 => said.verdict \in {"skipped", "ok"}
        /\ said.rc = ExitModelIdentity => log /\ says.verdict # "ok"
    <3> HIDE DEF said, says
    <3> QED BY <2>1, JudgedOfClean
  <2>3. log /\ says.verdict # "ok" /\ Responded(h, ev) = {"exact"} => ~ev.session
    BY <1>5 DEF Responded, assertMuseIdentity, Ok, Says
  <2> HIDE DEF says
  <2> QED BY <1>5, <2>2, <2>3
<1> HIDE DEF Earned
<1> QED BY <1>1, <1>2, <1>3, <1>4, <1>5 DEF Harnesses, Earned

(* What an added code says of the evidence.                                *)
LEMMA AddedCodes ==
  ASSUME NEW h \in Harnesses, NEW log \in BOOLEAN, NEW marker \in BOOLEAN, NEW allowed \in BOOLEAN,
         NEW ev \in Evidences, ev.bail = 0, ~ev.timedOut, ev.child = 0
  PROVE  LET ends == finish(h, log, marker, allowed, ev)
         IN  /\ ends.rc = ExitNoToolCalls => /\ ev.tools = "zero" /\ ~allowed
                                               /\ ends.marker # "absent"
                                               /\ ends.identity \in {"skipped", "ok"}
             /\ ends.rc = ExitNoMarker => /\ log /\ marker
                                            /\ ev.report # "marker"
                                            /\ ends.identity \in {"skipped", "ok"}
             /\ ends.rc = ExitModelIdentity =>
                    /\ log /\ h # "crush"
                    /\ Responded(h, ev) # {"exact"} \/ ~ev.session
<1> DEFINE seenEv == seen(log, ev)
           said   == arm(h, log, seenEv)
           looked == log /\ marker
           rc1    == IF looked /\ said.rc = 0 /\ ~markerVerdict(h, seenEv) THEN ExitNoMarker ELSE said.rc
           calls  == toolCalls(h, seenEv, allowed)
           rc2    == IF rc1 = 0 /\ calls = "zero" THEN ExitNoToolCalls ELSE rc1
           ends == finish(h, log, marker, allowed, ev)
<1>1. /\ seenEv \in Evidences
      /\ seenEv.bail = 0 /\ ~seenEv.timedOut /\ seenEv.child = 0
      /\ seenEv.tools = ev.tools /\ seenEv.report = ev.report
      /\ log => seenEv = ev
  <2>1. CASE log
    BY <2>1 DEF seen
  <2>2. CASE ~log
    <3>1. seenEv = [ev EXCEPT !.doc = FALSE, !.session = FALSE, !.status = "none", !.echo = {}]
      BY <2>2 DEF seen
    <3> HIDE DEF seenEv
    <3> QED BY <2>2, <3>1 DEF Evidences
  <2> QED BY <2>1, <2>2
<1>2. /\ ends.rc = rc2 /\ ends.identity = said.verdict
      /\ ends.marker = IF ~looked THEN "unasked" ELSE IF markerVerdict(h, seenEv) THEN "found" ELSE "absent"
  BY <1>1 DEF finish
<1>3. /\ said.rc \in {0, 1, ExitModelIdentity}
      /\ said.rc = 0 => said.verdict \in {"skipped", "ok"}
      /\ said.rc = ExitModelIdentity => /\ log /\ h # "crush"
                                        /\ Responded(h, ev) # {"exact"} \/ ~ev.session
  BY <1>1, CodesOfArms
<1>31. said.rc \in {0, 1, 70}
  BY <1>3 DEF ExitModelIdentity
<1>4. rc2 = ExitNoToolCalls => /\ calls = "zero" /\ said.rc = 0 /\ ~(looked /\ ~markerVerdict(h, seenEv))
  <2> HIDE DEF said, looked, calls
  <2> QED BY <1>31 DEF ExitNoToolCalls, ExitNoMarker, ExitModelIdentity
<1>5. rc2 = ExitNoMarker => looked /\ said.rc = 0 /\ ~markerVerdict(h, seenEv)
  <2> HIDE DEF said, looked, calls
  <2> QED BY <1>31 DEF ExitNoToolCalls, ExitNoMarker, ExitModelIdentity
<1>6. rc2 = ExitModelIdentity => said.rc = ExitModelIdentity
  <2> HIDE DEF said, looked, calls
  <2> QED BY <1>31 DEF ExitNoToolCalls, ExitNoMarker, ExitModelIdentity
<1>7. calls = "zero" => ev.tools = "zero" /\ ~allowed
  <2> HIDE DEF seenEv
  <2> QED BY <1>1 DEF toolCalls, Evidences
<1>8. ~markerVerdict(h, seenEv) => ev.report # "marker"
  BY <1>1 DEF markerVerdict
<1> HIDE DEF seenEv, said, rc1, rc2, calls, ends
<1> QED BY <1>1, <1>2, <1>3, <1>4, <1>5, <1>6, <1>7, <1>8 DEF ends

(***************************************************************************)
(* What --model free takes from a catalogue.                               *)
(***************************************************************************)
LEMMA RowsAre ==
  /\ Len(ModelRows) = 7 /\ DOMAIN ModelRows = 1..7
  /\ \A i \in 1..7 : ModelRows[i].provider \in Catalogued => ModelRows[i].answeredBy = None
<1>1. Len(ModelRows) = 7 /\ DOMAIN ModelRows = 1..7
  BY DEF ModelRows
<1>2. ASSUME NEW i \in 1..7, ModelRows[i].provider \in Catalogued
      PROVE  ModelRows[i].answeredBy = None
  <2>1. i = 1 \/ i = 2 \/ i = 3 \/ i = 4 \/ i = 5 \/ i = 6 \/ i = 7
    OBVIOUS
  <2> QED BY <1>2, <2>1 DEF ModelRows, Catalogued
<1> QED BY <1>1, <1>2

(* No id of a provider with a catalogue is answered by another model.      *)
LEMMA CataloguedUnmapped ==
  ASSUME NEW p \in Catalogued, NEW id, NEW allow
  PROVE  AnsweredBy(p, id, allow) = None /\ ~Mapped(p, id, allow)
<1>1. ASSUME NEW bare
      PROVE  AnsweredBy(p, bare, allow) = None
  <2> DEFINE i == CHOOSE n \in RowsOf(p, bare) : TRUE
  <2>1. CASE RowsOf(p, bare) = {}
    BY <2>1 DEF AnsweredBy
  <2>2. CASE RowsOf(p, bare) # {}
    <3>1. i \in RowsOf(p, bare)
      BY <2>2
    <3>2. i \in 1..7 /\ ModelRows[i].provider = p
      <4> HIDE DEF i
      <4> QED BY <3>1, RowsAre DEF RowsOf
    <3>3. ModelRows[i].answeredBy = None
      <4> HIDE DEF i
      <4> QED BY <3>2, RowsAre
    <3> QED BY <3>3 DEF AnsweredBy
  <2> QED BY <2>1, <2>2
<1> QED BY <1>1 DEF Mapped

LEMMA TableRankTyped ==
  ASSUME NEW p, NEW id
  PROVE  tableRank(p, id) \in Nat
<1>1. CASE RowsOf(p, id) = {}
  BY <1>1, RowsAre DEF tableRank
<1>2. CASE RowsOf(p, id) # {}
  <2>1. RowsOf(p, id) \subseteq Nat
    BY RowsAre DEF RowsOf
  <2>2. \E i \in RowsOf(p, id) : \A j \in RowsOf(p, id) : i <= j
    BY <1>2, <2>1, LeastExists
  <2>3. tableRank(p, id) \in RowsOf(p, id)
    BY <1>2, <2>2 DEF tableRank
  <2> QED BY <2>1, <2>3
<1> QED BY <1>1, <1>2

LEMMA LexTransitive ==
  ASSUME NEW dx \in BOOLEAN, NEW dy \in BOOLEAN, NEW dz \in BOOLEAN,
         NEW rx \in Nat, NEW ry \in Nat, NEW rz \in Nat, NEW cx \in Nat, NEW cy \in Nat, NEW cz \in Nat,
         NEW ix \in Nat, NEW iy \in Nat, NEW iz \in Nat,
         IF dx # dy THEN dx ELSE IF rx # ry THEN rx < ry ELSE IF cx # cy THEN cx > cy ELSE ix < iy,
         IF dy # dz THEN dy ELSE IF ry # rz THEN ry < rz ELSE IF cy # cz THEN cy > cz ELSE iy < iz
  PROVE  IF dx # dz THEN dx ELSE IF rx # rz THEN rx < rz ELSE IF cx # cz THEN cx > cz ELSE ix < iz
  OBVIOUS

(* The ranking is a strict order,                                          *)
LEMMA RankIsOrder ==
  ASSUME NEW p, NEW def, NEW x \in Entries, NEW y \in Entries, NEW z \in Entries
  PROVE  /\ ~RankedBefore(p, def, x, x)
         /\ RankedBefore(p, def, x, y) /\ RankedBefore(p, def, y, z) => RankedBefore(p, def, x, z)
<1>1. \A e \in Entries : tableRank(p, e.id) \in Nat /\ e.ctx \in Nat /\ IdRank[e.id] \in Nat
  BY TableRankTyped, FreeModelsConstants DEF Entries
<1> DEFINE row(e) == tableRank(p, e.id)
           place(e) == IdRank[e.id]
           d(e) == e.id = def
           before(e, o) == IF d(e) # d(o) THEN d(e)
                           ELSE IF row(e) # row(o) THEN row(e) < row(o)
                           ELSE IF e.ctx # o.ctx THEN e.ctx > o.ctx
                           ELSE place(e) < place(o)
<1>2. \A e, o : RankedBefore(p, def, e, o) <=> before(e, o)
  BY DEF RankedBefore
<1>3. \A e \in {x, y, z} : row(e) \in Nat /\ e.ctx \in Nat /\ place(e) \in Nat
  BY <1>1
<1>4. ~before(x, x)
  BY <1>3
<1>5. before(x, y) /\ before(y, z) => before(x, z)
  <2>1. d(x) \in BOOLEAN /\ d(y) \in BOOLEAN /\ d(z) \in BOOLEAN
    OBVIOUS
  <2>2. /\ row(x) \in Nat /\ row(y) \in Nat /\ row(z) \in Nat
        /\ x.ctx \in Nat /\ y.ctx \in Nat /\ z.ctx \in Nat
        /\ place(x) \in Nat /\ place(y) \in Nat /\ place(z) \in Nat
    BY <1>3
  <2> HIDE DEF row, place, d
  <2> QED BY <2>1, <2>2, LexTransitive
<1> HIDE DEF before
<1> QED BY <1>2, <1>4, <1>5

(* so a finite listing that is not empty has a best entry.                 *)
LEMMA RankFreeTakesOne ==
  ASSUME NEW p, NEW def, NEW cands \in SUBSET Entries, IsFiniteSet(cands), cands # {}
  PROVE  rankFree(p, cands, def) \in cands
<1> DEFINE Above(e) == {o \in cands : RankedBefore(p, def, o, e)}
           T == {Above(e) : e \in cands}
<1>1. T # {} /\ \A s \in T : IsFiniteSet(s)
  <2>1. \A e \in cands : IsFiniteSet(Above(e))
    BY FS_Subset
  <2>2. T # {}
    OBVIOUS
  <2>3. \A s \in T : \E e \in cands : s = Above(e)
    OBVIOUS
  <2> HIDE DEF Above, T
  <2> QED BY <2>1, <2>2, <2>3
<1>2. PICK e \in cands : \A o \in cands : ~(Above(o) \subseteq Above(e) /\ Above(o) # Above(e))
  <2>1. PICK s \in T : \A u \in T : ~(u \subseteq s /\ u # s)
    <3> HIDE DEF T
    <3> QED BY <1>1, SmallestSet
  <2>2. PICK e \in cands : s = Above(e)
    BY <2>1
  <2>3. \A o \in cands : Above(o) \in T
    OBVIOUS
  <2> HIDE DEF Above, T
  <2> QED BY <2>1, <2>2, <2>3
<1>3. ASSUME NEW o \in cands, RankedBefore(p, def, o, e)
      PROVE  FALSE
  <2>1. Above(o) \subseteq Above(e)
    BY <1>3, RankIsOrder
  <2>2. o \in Above(e) /\ o \notin Above(o)
    BY <1>3, RankIsOrder
  <2> QED BY <1>2, <2>1, <2>2
<1>4. \E b \in cands : \A o \in cands : ~RankedBefore(p, def, o, b)
  BY <1>3
<1> QED BY <1>4 DEF rankFree

(* What a pick is made among.                                              *)
Offered(p, cfg, c, allowTraining, allowMapped) ==
  Candidates(p, loadCached(c, FALSE).entries, allowTraining \/ cfg.allowTraining, allowMapped)

LEMMA LoadedIsListing ==
  ASSUME NEW c \in CatalogueStates, NEW refresh \in BOOLEAN
  PROVE  /\ loadCached(c, refresh).entries \in SUBSET Entries
         /\ IsFiniteSet(loadCached(c, refresh).entries)
         /\ Loaded(loadCached(c, refresh)) => loadCached(c, refresh).entries \subseteq c.net \union c.cached
<1>1. c.net \in SUBSET Entries /\ c.cached \in SUBSET Entries /\ IsFiniteSet(c.net) /\ IsFiniteSet(c.cached)
  BY DEF CatalogueStates, Listings
<1>2. loadCached(c, refresh).entries \in {{}, c.net, c.cached}
  BY DEF loadCached, Unloaded, CatalogueStates
<1>3. IsFiniteSet({})
  BY FS_EmptySet
<1> QED BY <1>1, <1>2, <1>3

LEMMA OfferedTyped ==
  ASSUME NEW p, NEW cfg, NEW c \in CatalogueStates, NEW allowTraining, NEW allowMapped
  PROVE  /\ Offered(p, cfg, c, allowTraining, allowMapped) \in SUBSET Entries
         /\ IsFiniteSet(Offered(p, cfg, c, allowTraining, allowMapped))
         /\ \A e \in Offered(p, cfg, c, allowTraining, allowMapped) : e.provider = p
<1>1. Offered(p, cfg, c, allowTraining, allowMapped) \subseteq loadCached(c, FALSE).entries
  BY DEF Offered, Candidates
<1>2. \A e \in Offered(p, cfg, c, allowTraining, allowMapped) : e.provider = p
  BY DEF Offered, Candidates
<1> QED BY <1>1, <1>2, LoadedIsListing, FS_Subset

LEMMA PreferHitIs ==
  ASSUME NEW p, NEW cands, NEW prefer, DOMAIN prefer \subseteq Nat \ {0}
  PROVE  LET hits == {n \in DOMAIN prefer : prefer[n].provider = p /\ \E e \in cands : e.id = prefer[n].id}
             n    == PreferHit(p, cands, prefer)
         IN  \/ hits = {} /\ n = 0
             \/ hits # {} /\ n \in hits /\ n > 0 /\ \A m \in hits : n <= m
<1> DEFINE hits == {n \in DOMAIN prefer : prefer[n].provider = p /\ \E e \in cands : e.id = prefer[n].id}
           n    == PreferHit(p, cands, prefer)
<1>1. CASE hits = {}
  BY <1>1 DEF PreferHit
<1>2. CASE hits # {}
  <2>1. \E i \in hits : \A j \in hits : i <= j
    <3>1. hits \subseteq Nat
      OBVIOUS
    <3> HIDE DEF hits
    <3> QED BY <1>2, <3>1, LeastExists
  <2>2. n \in hits /\ \A m \in hits : n <= m
    BY <1>2, <2>1 DEF PreferHit
  <2> QED BY <1>2, <2>2
<1> QED BY <1>1, <1>2

(* --model free finds nothing, or takes an entry that is on offer, the one *)
(* the first hit of free.prefer names if there is a hit.                   *)
NothingToPick(p, cfg, cands) == p \notin Catalogued \/ cfg.denied \/ cands = {}

PickOf(k, p, h, cfg, cands) ==
  /\ k.found /\ k.provider = p
  /\ \E e \in cands : k.id = e.id /\ k.ctx = e.ctx /\ k.model = HarnessFormID(p, h, e.id)
  /\ k.preferN = PreferHit(p, cands, cfg.prefer)
  /\ k.preferN > 0 => k.id = cfg.prefer[k.preferN].id

LEMMA PreferIsSeq ==
  ASSUME NEW cfg \in Configs
  PROVE  DOMAIN cfg.prefer \subseteq Nat \ {0}
<1>1. cfg.prefer \in Seq([provider : STRING, id : Ids])
  BY DEF Configs
<1> DEFINE q == cfg.prefer
<1>2. DOMAIN q = 1..Len(q) /\ Len(q) \in Nat
  <2>1. q \in Seq([provider : STRING, id : Ids])
    BY <1>1
  <2> HIDE DEF q
  <2> QED BY <2>1
<1> QED BY <1>2

LEMMA PickIsOffered ==
  ASSUME NEW p, NEW h, NEW cfg \in Configs, NEW c \in CatalogueStates, NEW allowTraining, NEW allowMapped
  PROVE  LET cands == Offered(p, cfg, c, allowTraining, allowMapped)
             k     == resolveFree(p, h, cfg, c, allowTraining, allowMapped)
         IN  \/ NothingToPick(p, cfg, cands) /\ k = NoPick
             \/ ~NothingToPick(p, cfg, cands) /\ PickOf(k, p, h, cfg, cands)
<1> DEFINE src   == loadCached(c, FALSE)
           cands == Offered(p, cfg, c, allowTraining, allowMapped)
           n     == PreferHit(p, cands, cfg.prefer)
           best  == IF n > 0 THEN CHOOSE e \in cands : e.id = cfg.prefer[n].id
                    ELSE rankFree(p, cands, cfg.default[p])
           taken == [found |-> TRUE, provider |-> p, id |-> best.id, ctx |-> best.ctx, preferN |-> n,
                     model |-> HarnessFormID(p, h, best.id)]
           k     == resolveFree(p, h, cfg, c, allowTraining, allowMapped)
<1>1. k = IF p \notin Catalogued \/ cfg.denied \/ ~Loaded(src) \/ cands = {} THEN NoPick ELSE taken
  BY DEF resolveFree, Offered
<1>2. ~Loaded(src) => cands = {}
  BY DEF Offered, Candidates, Loaded, loadCached, Unloaded
<1>3. CASE NothingToPick(p, cfg, cands)
  BY <1>1, <1>3 DEF NothingToPick
<1>4. CASE ~NothingToPick(p, cfg, cands)
  <2>1. k = taken
    <3> HIDE DEF taken, cands, src, k
    <3> QED BY <1>1, <1>2, <1>4 DEF NothingToPick
  <2>2. cands \in SUBSET Entries /\ IsFiniteSet(cands) /\ cands # {}
    BY <1>4, OfferedTyped DEF NothingToPick
  <2>3. \/ n = 0
        \/ n > 0 /\ \E e \in cands : e.id = cfg.prefer[n].id
    <3>1. DOMAIN cfg.prefer \subseteq Nat \ {0}
      BY PreferIsSeq
    <3> DEFINE prefer == cfg.prefer
    <3> HIDE DEF cands, prefer
    <3>2. n = PreferHit(p, cands, prefer) /\ DOMAIN prefer \subseteq Nat \ {0}
      BY <3>1 DEF prefer
    <3>3. \/ n = 0
          \/ n > 0 /\ \E e \in cands : e.id = prefer[n].id
      <4> HIDE DEF n
      <4> QED BY <3>2, PreferHitIs
    <3> QED BY <3>3 DEF prefer
  <2>4. best \in cands /\ (n > 0 => best.id = cfg.prefer[n].id)
    <3>1. CASE n > 0
      <4>1. best = CHOOSE e \in cands : e.id = cfg.prefer[n].id
        BY <3>1
      <4>2. \E e \in cands : e.id = cfg.prefer[n].id
        BY <2>3, <3>1
      <4> HIDE DEF cands, n, best
      <4> QED BY <4>1, <4>2
    <3>2. CASE ~(n > 0)
      <4>1. best = rankFree(p, cands, cfg.default[p])
        BY <3>2
      <4>2. rankFree(p, cands, cfg.default[p]) \in cands
        <5> HIDE DEF cands
        <5> QED BY <2>2, RankFreeTakesOne
      <4> HIDE DEF cands, n, best
      <4> QED BY <3>2, <4>1, <4>2
    <3> QED BY <3>1, <3>2
  <2>5. PickOf(taken, p, h, cfg, cands)
    <3> HIDE DEF best, cands, n
    <3>1. taken.found /\ taken.provider = p /\ taken.id = best.id /\ taken.ctx = best.ctx
          /\ taken.preferN = n /\ taken.model = HarnessFormID(p, h, best.id)
      OBVIOUS
    <3> HIDE DEF taken
    <3> QED BY <2>4, <3>1 DEF PickOf, n
  <2> QED BY <1>4, <2>1, <2>5
<1> QED BY <1>3, <1>4

(* With no provider named the pick is the first hit of free.prefer among   *)
(* all the providers that fit.                                             *)
Fits(q, h, cfg) == q \in Catalogued /\ q \notin cfg.disabled /\ (h # "unnamed" => q \in Drives(h))

AutoHits(h, cfg, cat, allowTraining, allowMapped) ==
  {n \in DOMAIN cfg.prefer :
     LET q == cfg.prefer[n].provider
     IN  Fits(q, h, cfg) /\ \E e \in Offered(q, cfg, cat[q], allowTraining, allowMapped) : e.id = cfg.prefer[n].id}

LEMMA AutoIsOffered ==
  ASSUME NEW h, NEW cfg \in Configs, NEW cat \in [Catalogued -> CatalogueStates], NEW allowTraining, NEW allowMapped
  PROVE  LET Cands(q) == Offered(q, cfg, cat[q], allowTraining, allowMapped)
             Hits     == AutoHits(h, cfg, cat, allowTraining, allowMapped)
             k        == resolveFreeAuto(h, cfg, cat, allowTraining, allowMapped)
         IN  \/ k = NoPick /\ (cfg.denied \/ Hits = {})
             \/ /\ ~cfg.denied
                /\ \E q : Fits(q, h, cfg) /\ PickOf(k, q, DefaultHarness(q, h), cfg, Cands(q))
                /\ k.preferN \in Hits /\ cfg.prefer[k.preferN].provider = k.provider
                /\ \A m \in Hits : k.preferN <= m
<1> DEFINE prefer  == cfg.prefer
           Cands(q) == Offered(q, cfg, cat[q], allowTraining, allowMapped)
           Hits    == AutoHits(h, cfg, cat, allowTraining, allowMapped)
           Pick(q) == resolveFree(q, DefaultHarness(q, h), cfg, cat[q], allowTraining, allowMapped)
           fit     == {q \in Catalogued : /\ \E n \in DOMAIN prefer : prefer[n].provider = q
                                          /\ q \notin cfg.disabled
                                          /\ h # "unnamed" => q \in Drives(h)}
           picks   == {Pick(q) : q \in fit}
           hits    == {k \in picks : k.found /\ k.preferN > 0}
           first   == CHOOSE k \in hits : \A o \in hits : k.preferN <= o.preferN
           auto    == resolveFreeAuto(h, cfg, cat, allowTraining, allowMapped)
<1>1. auto = IF hits = {} THEN NoPick ELSE first
  BY DEF resolveFreeAuto
<1>2. DOMAIN prefer \subseteq Nat \ {0}
  BY PreferIsSeq
\* Each pick of a provider that fits, by the hits of that provider.
<1>3. ASSUME NEW q \in fit
      PROVE  \/ NothingToPick(q, cfg, Cands(q)) /\ Pick(q) = NoPick
             \/ ~NothingToPick(q, cfg, Cands(q)) /\ PickOf(Pick(q), q, DefaultHarness(q, h), cfg, Cands(q))
  <2>1. cat[q] \in CatalogueStates
    OBVIOUS
  <2> QED BY <2>1, PickIsOffered
<1>4. ASSUME NEW q \in fit
      PROVE  LET mine == {n \in DOMAIN prefer : prefer[n].provider = q /\ \E e \in Cands(q) : e.id = prefer[n].id}
                 n    == PreferHit(q, Cands(q), prefer)
             IN  \/ mine = {} /\ n = 0
                 \/ mine # {} /\ n \in mine /\ n > 0 /\ \A m \in mine : n <= m
  <2> HIDE DEF Cands, prefer
  <2> QED BY <1>2, PreferHitIs
\* A hit of the whole list is one of its provider's, so that provider's pick
\* stands no later.
<1>5. ASSUME NEW m \in Hits, ~cfg.denied
      PROVE  \E k \in hits : k.preferN <= m
  <2> DEFINE q == prefer[m].provider
             mine == {n \in DOMAIN prefer : prefer[n].provider = q /\ \E e \in Cands(q) : e.id = prefer[n].id}
  <2>1. q \in fit /\ m \in mine
    BY DEF AutoHits, Fits
  <2>2. ~NothingToPick(q, cfg, Cands(q))
    BY <1>5, <2>1 DEF NothingToPick
  <2>3. PickOf(Pick(q), q, DefaultHarness(q, h), cfg, Cands(q))
    <3> HIDE DEF Pick, Cands, fit, q
    <3> QED BY <1>3, <2>1, <2>2
  <2>4. PreferHit(q, Cands(q), prefer) > 0 /\ PreferHit(q, Cands(q), prefer) <= m
    <3>1. mine # {}
      BY <2>1
    <3> HIDE DEF mine
    <3>2. \A x \in mine : PreferHit(q, Cands(q), prefer) <= x
      BY <1>4, <2>1, <3>1 DEF mine
    <3>3. PreferHit(q, Cands(q), prefer) > 0
      BY <1>4, <2>1, <3>1 DEF mine
    <3> QED BY <2>1, <3>2, <3>3
  <2>5. Pick(q).found /\ Pick(q).preferN = PreferHit(q, Cands(q), prefer)
    BY <2>3 DEF PickOf
  <2>6. Pick(q) \in picks
    BY <2>1
  <2> HIDE DEF Pick, picks, Cands, q
  <2> QED BY <2>4, <2>5, <2>6
\* And a pick that hit is a hit of the list.
<1>6. ASSUME NEW k \in hits
      PROVE  \E q \in fit : /\ ~cfg.denied /\ PickOf(k, q, DefaultHarness(q, h), cfg, Cands(q))
                            /\ k.preferN \in Hits /\ prefer[k.preferN].provider = q /\ k.provider = q
  <2>1. PICK q \in fit : k = Pick(q)
    OBVIOUS
  <2>2. k.found /\ k.preferN > 0
    OBVIOUS
  <2>3. k # NoPick
    BY <2>2 DEF NoPick
  <2>4. ~NothingToPick(q, cfg, Cands(q)) /\ PickOf(k, q, DefaultHarness(q, h), cfg, Cands(q))
    <3> HIDE DEF Pick, Cands, fit
    <3> QED BY <1>3, <2>1, <2>3
  <2>5. k.preferN = PreferHit(q, Cands(q), prefer) /\ k.provider = q
    BY <2>4 DEF PickOf
  <2> DEFINE mine == {n \in DOMAIN prefer : prefer[n].provider = q /\ \E e \in Cands(q) : e.id = prefer[n].id}
  <2>6. k.preferN \in mine
    <3> HIDE DEF Cands, mine, fit
    <3> QED BY <1>4, <2>1, <2>2, <2>5 DEF mine
  <2>7. k.preferN \in Hits /\ prefer[k.preferN].provider = q
    BY <2>6 DEF AutoHits, Fits
  <2> QED BY <2>4, <2>5, <2>7 DEF NothingToPick
<1>7. CASE hits = {}
  BY <1>1, <1>5, <1>7
<1>8. CASE hits # {}
  <2> DEFINE places == {k.preferN : k \in hits}
  <2>1. places \subseteq Nat /\ places # {}
    <3>1. \A k \in hits : k.preferN \in Nat
      <4> HIDE DEF hits, prefer, Hits, fit, Cands
      <4>1. \A k \in hits : k.preferN \in Hits
        BY <1>6
      <4>2. Hits \subseteq Nat
        BY <1>2 DEF AutoHits, Hits, prefer
      <4> QED BY <4>1, <4>2
    <3> HIDE DEF hits
    <3> QED BY <1>8, <3>1
  <2>2. \E x \in places : \A y \in places : x <= y
    <3> HIDE DEF places
    <3> QED BY <2>1, LeastExists
  <2>3. first \in hits /\ \A o \in hits : first.preferN <= o.preferN
    <3> HIDE DEF hits
    <3>1. \E k \in hits : \A o \in hits : k.preferN <= o.preferN
      BY <2>2
    <3> QED BY <3>1
  <2>4. auto = first
    BY <1>1, <1>8
  <2>5. PICK q \in fit : /\ ~cfg.denied /\ PickOf(first, q, DefaultHarness(q, h), cfg, Cands(q))
                         /\ first.preferN \in Hits /\ prefer[first.preferN].provider = q /\ first.provider = q
    <3> HIDE DEF hits, first, fit, Cands, Hits, prefer
    <3> QED BY <1>6, <2>3
  <2>6. Fits(q, h, cfg)
    BY DEF Fits
  <2>7. \A m \in Hits : first.preferN <= m
    <3> SUFFICES ASSUME NEW m \in Hits
                 PROVE  first.preferN <= m
      OBVIOUS
    <3>1. PICK k \in hits : k.preferN <= m
      <4> HIDE DEF hits, Hits
      <4> QED BY <1>5, <2>5
    <3>2. first.preferN <= k.preferN
      <4> HIDE DEF hits, first
      <4> QED BY <2>3
    <3>3. m \in Nat /\ first.preferN \in Nat /\ k.preferN \in Nat
      <4>1. Hits \subseteq Nat
        BY <1>2 DEF AutoHits
      <4>2. k.preferN \in places
        OBVIOUS
      <4> HIDE DEF hits, first, places, Hits
      <4> QED BY <2>1, <2>5, <4>1, <4>2
    <3> HIDE DEF first, hits, Hits
    <3> QED BY <3>1, <3>2, <3>3
  <2> HIDE DEF first, hits, fit
  <2> QED BY <2>4, <2>5, <2>6, <2>7
<1> QED BY <1>7, <1>8

(***************************************************************************)
(* One process's decision.                                                 *)
(***************************************************************************)
AskedOf(r, w, d) == Asked(r, w, autoPick(r, w, d))
PickFor(r, w, d) == pickOf(r, w, d, AskedOf(r, w, d))
ModelFor(r, w, d) == IF PickFor(r, w, d).found THEN PickFor(r, w, d).model ELSE AskedOf(r, w, d).named
SelectorFor(r, w, d) == PickFor(r, w, d).found \/ r.handoff.selector
CheckFor(r, w, d) ==
  named(r, w, d, AskedOf(r, w, d), SelectorFor(r, w, d), OrDefault(ModelFor(r, w, d), AskedOf(r, w, d).default))

LEMMA MainIs ==
  ASSUME NEW r, NEW w, NEW d
  PROVE  OutsourceMain(r, w, d) =
           Decision(r, w, d, AskedOf(r, w, d), PickFor(r, w, d), SelectorFor(r, w, d), ModelFor(r, w, d), CheckFor(r, w, d))
  BY DEF OutsourceMain, Decided, AskedOf, PickFor, SelectorFor, ModelFor, CheckFor

RunsOf(p, h, model, def) == IF h \in Qualifying THEN HarnessModel(p, h, model, def) ELSE OrDefault(model, def)

Decides(r, w, d, o) ==
  /\ o.provider = AskedOf(r, w, d).provider
  /\ o.providerPicked = AskedOf(r, w, d).auto.found
  /\ o.harness = AskedOf(r, w, d).harness
  /\ o.model = ModelFor(r, w, d)
  /\ o.runs = RunsOf(AskedOf(r, w, d).provider, AskedOf(r, w, d).harness, ModelFor(r, w, d), AskedOf(r, w, d).default)
  /\ o.selector = SelectorFor(r, w, d)
  /\ o.ctx = IF PickFor(r, w, d).found THEN PickFor(r, w, d).ctx
             ELSE IF CheckFor(r, w, d).found THEN CheckFor(r, w, d).ctx ELSE r.handoff.ctx
  /\ o.cfg = w.cfg /\ o.cat = w.cat

LEMMA DecisionIs ==
  ASSUME NEW r, NEW w, NEW d, NEW o, o = OutsourceMain(r, w, d)
  PROVE  Decides(r, w, d, o)
  BY MainIs DEF Decision, RunsOf, Decides

LEMMA DecisionCode ==
  ASSUME NEW r, NEW w, NEW d
  PROVE  LET o      == OutsourceMain(r, w, d)
             passes == /\ EarlyPasses(r, w, d, AskedOf(r, w, d))
                       /\ LatePasses(r, w, d, AskedOf(r, w, d), PickFor(r, w, d), ModelFor(r, w, d), CheckFor(r, w, d))
         IN  \/ passes /\ o.code = 0
             \/ ~passes /\ o.code \in Codes
<1> DEFINE c    == AskedOf(r, w, d)
           late == LateChecks(r, w, d, c, PickFor(r, w, d), ModelFor(r, w, d), CheckFor(r, w, d))
           LP   == LatePasses(r, w, d, c, PickFor(r, w, d), ModelFor(r, w, d), CheckFor(r, w, d))
           EP   == EarlyPasses(r, w, d, c)
           o    == OutsourceMain(r, w, d)
<1>1. o.code = FirstFailing(EarlyChecks(r, w, d, c), FirstFailing(late, 0))
  BY MainIs DEF Decision
<1>2. \/ LP /\ FirstFailing(late, 0) = 0
      \/ ~LP /\ FirstFailing(late, 0) \in Codes
  BY LateFails
<1>3. \/ EP /\ o.code = FirstFailing(late, 0)
      \/ ~EP /\ o.code \in Codes
  BY <1>1, EarlyFails
<1> HIDE DEF c, late, LP, EP, o
<1> QED BY <1>2, <1>3 DEF LP, EP, o, c

(* The forms an id of a provider with a catalogue takes.                   *)
LEMMA QualifiedLength ==
  ASSUME NEW q, NEW T, NEW id \in Seq(T)
  PROVE  Len(<<q>> \o id) = 1 + Len(id)
<1> DEFINE S == T \union {q}
<1>1. id \in Seq(S)
  <2>1. Len(id) \in Nat /\ id \in [1..Len(id) -> T]
    BY LenProperties
  <2>2. \A i \in 1..Len(id) : id[i] \in S
    BY <2>1
  <2>3. id \in [1..Len(id) -> S]
    <3> HIDE DEF S
    <3> QED BY <2>1, <2>2
  <2> HIDE DEF S
  <2> QED BY <2>1, <2>3, IsASeq
<1>2. <<q>> \in Seq(S)
  OBVIOUS
<1> HIDE DEF S
<1>3. Len(<<q>> \o id) = Len(<<q>>) + Len(id)
  BY <1>1, <1>2
<1> QED BY <1>3

LEMMA NormalIs ==
  ASSUME NEW p, NEW h, NEW m,
         p # "zen" \/ Len(m) # 1, p # "openrouter" \/ h # "claude-code" \/ ~(Len(m) > 2)
  PROVE  NormalizeModel(p, h, m) = m
<1> DEFINE one == p = "zen" /\ h = "opencode" /\ Len(m) = 1 /\ m # Selector
           two == p = "openrouter" /\ h = "claude-code" /\ Qualified(p, m) /\ Len(m) > 2
<1>1. ~one /\ ~two
  OBVIOUS
<1>2. NormalizeModel(p, h, m) = CASE one -> <<Qualifier(p)>> \o m [] two -> Tail(m) [] OTHER -> m
  BY DEF NormalizeModel
<1> HIDE DEF one, two
<1> QED BY <1>1, <1>2

LEMMA FormsOfIds ==
  ASSUME NEW p \in Catalogued, NEW h \in Harnesses, p \in Drives(h), NEW e \in Entries, e.provider = p,
         NEW m, m = HarnessFormID(p, h, e.id)
  PROVE  /\ m # None /\ m # Selector
         /\ NormalizeModel(p, h, m) = m
         /\ p # "zai"
<1>1. e.id \in Seq(STRING) /\ (p = "openrouter" => Len(e.id) = 2) /\ (p = "zen" => Len(e.id) = 1)
  BY FreeModelsConstants DEF Entries, Ids
<1>2. \/ p = "zen" /\ h = "opencode"
      \/ p = "openrouter" /\ h = "opencode"
      \/ p = "openrouter" /\ h = "claude-code"
  BY DEF Catalogued, Harnesses, Drives
<1>3. Len(None) = 0 /\ Len(Selector) = 1
  BY DEF None, Selector
<1>4. p \in {"zen", "openrouter"} /\ (h \in Qualifying <=> h = "opencode")
  BY <1>2 DEF Qualifying
<1>5. Len(m) \in {2, 3} /\ (p = "openrouter" /\ h = "claude-code" => Len(m) = 2)
  <2>1. CASE h = "opencode"
    <3>1. m = <<Qualifier(p)>> \o e.id
      BY <1>4, <2>1 DEF HarnessFormID
    <3>2. Len(m) = 1 + Len(e.id)
      BY <1>1, <3>1, QualifiedLength
    <3>3. Len(e.id) \in {1, 2} /\ h # "claude-code"
      BY <1>1, <1>4, <2>1
    <3> DEFINE n == Len(e.id)
               k == Len(m)
    <3>4. k = 1 + n /\ n \in {1, 2}
      BY <3>2, <3>3
    <3>5. k \in {2, 3}
      <4> HIDE DEF n, k
      <4> QED BY <3>4
    <3> QED BY <3>3, <3>5
  <2>2. CASE h = "claude-code"
    <3>1. m = e.id
      BY <2>2 DEF HarnessFormID, Qualifying
    <3> QED BY <1>1, <1>2, <2>2, <3>1
  <2> QED BY <1>2, <2>1, <2>2
<1>6. m # None /\ m # Selector
  BY <1>3, <1>5
<1>7. NormalizeModel(p, h, m) = m
  <2>1. p # "zen" \/ Len(m) # 1
    BY <1>5
  <2>2. p # "openrouter" \/ h # "claude-code" \/ ~(Len(m) > 2)
    BY <1>5
  <2> QED BY <2>1, <2>2, NormalIs
<1> QED BY <1>4, <1>6, <1>7

LEMMA NormalSelector ==
  ASSUME NEW p, NEW h, NEW m \in Ids, NormalizeModel(p, h, m) = Selector
  PROVE  m = Selector
<1> DEFINE one == p = "zen" /\ h = "opencode" /\ Len(m) = 1 /\ m # Selector
           two == p = "openrouter" /\ h = "claude-code" /\ Qualified(p, m) /\ Len(m) > 2
           q   == <<Qualifier(p)>> \o m
<1>1. NormalizeModel(p, h, m) = CASE one -> q [] two -> Tail(m) [] OTHER -> m
  BY DEF NormalizeModel
<1>2. Len(Selector) = 1 /\ m \in Seq(STRING)
  BY DEF Selector, Ids
<1>3. ~one \/ ~two
  OBVIOUS
<1>4. ASSUME one
      PROVE  FALSE
  <2>1. Len(q) = 1 + Len(m)
    BY <1>2, QualifiedLength
  <2>2. Len(q) = 2
    BY <1>4, <2>1
  <2>3. q = Selector
    <3> HIDE DEF one, two, q
    <3> QED BY <1>1, <1>3, <1>4
  <2> HIDE DEF q
  <2> QED BY <1>2, <2>2, <2>3
<1>5. ASSUME two
      PROVE  FALSE
  <2>1. Len(m) \in Nat /\ Len(m) > 2
    BY <1>2, <1>5
  <2>2. Len(Tail(m)) = Len(m) - 1
    BY <1>2, <2>1
  <2>3. Tail(m) = Selector
    <3> HIDE DEF one, two, q
    <3> QED BY <1>1, <1>3, <1>5
  <2> QED BY <1>2, <2>1, <2>2, <2>3
<1> HIDE DEF one, two, q
<1> QED BY <1>1, <1>4, <1>5

LEMMA SelectorIsKept ==
  ASSUME NEW p, NEW h
  PROVE  NormalizeModel(p, h, Selector) = Selector
<1>1. Len(Selector) = 1
  BY DEF Selector
<1> DEFINE one == p = "zen" /\ h = "opencode" /\ Len(Selector) = 1 /\ Selector # Selector
           two == p = "openrouter" /\ h = "claude-code" /\ Qualified(p, Selector) /\ Len(Selector) > 2
<1>2. ~one /\ ~two
  BY <1>1
<1>3. NormalizeModel(p, h, Selector) =
        CASE one -> <<Qualifier(p)>> \o Selector [] two -> Tail(Selector) [] OTHER -> Selector
  BY DEF NormalizeModel
<1> HIDE DEF one, two
<1> QED BY <1>2, <1>3

(* A launching process picks nothing, or what one provider offers: the one *)
(* asked for, or the one free.prefer chose.                                *)
Choices(r, w, p) == Offered(p, w.cfg, w.cat[p], r.allowTraining, w.allowMapped)

HitsOf(r, w) == AutoHits(r.harness, w.cfg, w.cat, r.allowTraining, w.allowMapped)

LEMMA AutoPickIs ==
  ASSUME NEW r \in Requests, NEW w \in Worlds, NEW auto, auto = autoPick(r, w, FALSE)
  PROVE  \/ auto = NoPick /\ (r.model = Selector /\ ~r.given /\ ~r.session => w.cfg.denied \/ HitsOf(r, w) = {})
         \/ /\ r.model = Selector /\ ~r.given /\ ~r.session /\ ~w.cfg.denied
            /\ \E q : /\ Fits(q, r.harness, w.cfg)
                      /\ PickOf(auto, q, DefaultHarness(q, r.harness), w.cfg, Choices(r, w, q))
            /\ auto.preferN \in HitsOf(r, w) /\ w.cfg.prefer[auto.preferN].provider = auto.provider
            /\ \A m \in HitsOf(r, w) : auto.preferN <= m
<1>1. w.cfg \in Configs /\ w.cat \in [Catalogued -> CatalogueStates]
  BY DEF Worlds
<1> DEFINE k == resolveFreeAuto(r.harness, w.cfg, w.cat, r.allowTraining, w.allowMapped)
<1>2. \/ k = NoPick /\ (w.cfg.denied \/ HitsOf(r, w) = {})
      \/ /\ ~w.cfg.denied
         /\ \E q : /\ Fits(q, r.harness, w.cfg)
                   /\ PickOf(k, q, DefaultHarness(q, r.harness), w.cfg, Choices(r, w, q))
         /\ k.preferN \in HitsOf(r, w) /\ w.cfg.prefer[k.preferN].provider = k.provider
         /\ \A m \in HitsOf(r, w) : k.preferN <= m
  <2> DEFINE cfg == w.cfg
             cat == w.cat
  <2>1. cfg \in Configs /\ cat \in [Catalogued -> CatalogueStates]
    BY <1>1
  <2>2. k = resolveFreeAuto(r.harness, cfg, cat, r.allowTraining, w.allowMapped)
    OBVIOUS
  <2>3. HitsOf(r, w) = AutoHits(r.harness, cfg, cat, r.allowTraining, w.allowMapped)
    BY DEF HitsOf
  <2>4. \A q : Choices(r, w, q) = Offered(q, cfg, cat[q], r.allowTraining, w.allowMapped)
    BY DEF Choices
  <2> HIDE DEF cfg, cat, k
  <2>5. \/ k = NoPick /\ (cfg.denied \/ HitsOf(r, w) = {})
        \/ /\ ~cfg.denied
           /\ \E q : /\ Fits(q, r.harness, cfg)
                     /\ PickOf(k, q, DefaultHarness(q, r.harness), cfg, Choices(r, w, q))
           /\ k.preferN \in HitsOf(r, w) /\ cfg.prefer[k.preferN].provider = k.provider
           /\ \A m \in HitsOf(r, w) : k.preferN <= m
    BY <2>1, <2>2, <2>3, <2>4, AutoIsOffered
  <2> QED BY <2>5 DEF cfg
<1> DEFINE try == r.model = Selector /\ ~r.given /\ ~r.session
<1>3. auto = IF try THEN k ELSE NoPick
  BY DEF autoPick
<1> HIDE DEF k
<1> QED BY <1>2, <1>3

FirstPreferred(r, w, k) ==
  /\ k.preferN \in HitsOf(r, w) /\ w.cfg.prefer[k.preferN].provider = k.provider
  /\ \A m \in HitsOf(r, w) : k.preferN <= m

LEMMA PickIs ==
  ASSUME NEW r \in Requests, NEW w \in Worlds, NEW c, c = AskedOf(r, w, FALSE), NEW k, k = PickFor(r, w, FALSE)
  PROVE  \/ k = NoPick /\ c.auto = NoPick
         \/ /\ c.named = Selector /\ c.provider \in Catalogued /\ ~w.cfg.denied
            /\ PickOf(k, c.provider, c.harness, w.cfg, Choices(r, w, c.provider))
            /\ \/ c.auto = NoPick /\ (~r.given => HitsOf(r, w) = {})
               \/ k = c.auto /\ ~r.given /\ Fits(c.provider, r.harness, w.cfg) /\ FirstPreferred(r, w, k)
<1> DEFINE auto == autoPick(r, w, FALSE)
           try  == r.model = Selector /\ ~r.given /\ ~r.session
<1>1. \/ auto = NoPick /\ (try => w.cfg.denied \/ HitsOf(r, w) = {})
      \/ /\ try /\ ~w.cfg.denied
         /\ \E q : /\ Fits(q, r.harness, w.cfg)
                   /\ PickOf(auto, q, DefaultHarness(q, r.harness), w.cfg, Choices(r, w, q))
         /\ FirstPreferred(r, w, auto)
  <2> HIDE DEF auto
  <2>1. \/ auto = NoPick /\ (r.model = Selector /\ ~r.given /\ ~r.session => w.cfg.denied \/ HitsOf(r, w) = {})
        \/ /\ r.model = Selector /\ ~r.given /\ ~r.session /\ ~w.cfg.denied
           /\ \E q : /\ Fits(q, r.harness, w.cfg)
                     /\ PickOf(auto, q, DefaultHarness(q, r.harness), w.cfg, Choices(r, w, q))
           /\ auto.preferN \in HitsOf(r, w) /\ w.cfg.prefer[auto.preferN].provider = auto.provider
           /\ \A m \in HitsOf(r, w) : auto.preferN <= m
    BY AutoPickIs DEF auto
  <2> QED BY <2>1 DEF FirstPreferred
<1>2. /\ auto.found => c.provider = auto.provider
      /\ ~auto.found => c.provider = r.provider
      /\ c.harness = DefaultHarness(c.provider, r.harness)
      /\ c.auto = auto
      /\ c.named = NormalizeModel(c.provider, c.harness, seedModel(c.provider, r.model, w))
  <2>1. auto = autoPick(r, w, FALSE)
    OBVIOUS
  <2> HIDE DEF auto
  <2> QED BY <2>1 DEF AskedOf, Asked
<1> DEFINE free == resolveFree(c.provider, c.harness, w.cfg, w.cat[c.provider], r.allowTraining, w.allowMapped)
<1>3. k = IF c.named # Selector \/ r.session THEN NoPick
          ELSE IF auto.found THEN auto
          ELSE IF c.provider \in Catalogued THEN free ELSE NoPick
  BY <1>2 DEF PickFor, pickOf
<1>4. CASE auto = NoPick
  <2>1. ~auto.found
    <3> HIDE DEF auto
    <3> QED BY <1>4 DEF NoPick
  <2>2. CASE c.named # Selector \/ r.session \/ c.provider \notin Catalogued
    <3> HIDE DEF auto, free
    <3> QED BY <1>2, <1>3, <1>4, <2>1, <2>2
  <2>3. CASE ~(c.named # Selector \/ r.session \/ c.provider \notin Catalogued)
    <3>1. k = free
      BY <1>3, <2>1, <2>3
    <3>2. w.cat[c.provider] \in CatalogueStates /\ w.cfg \in Configs
      BY <2>3 DEF Worlds
    <3>3. \/ free = NoPick
          \/ /\ ~NothingToPick(c.provider, w.cfg, Choices(r, w, c.provider))
             /\ PickOf(free, c.provider, c.harness, w.cfg, Choices(r, w, c.provider))
      BY <3>2, PickIsOffered DEF Choices
    <3>4. r.model = Selector
      <4>1. c.provider # "zai" /\ r.model \in Ids
        BY <2>3 DEF Catalogued, Requests
      <4>2. seedModel(c.provider, r.model, w) = r.model
        BY <4>1 DEF seedModel
      <4> QED BY <1>2, <2>3, <4>1, <4>2, NormalSelector
    <3> HIDE DEF auto, free
    <3>5. r.given \/ w.cfg.denied \/ HitsOf(r, w) = {}
      <4>1. CASE \E q : PickOf(auto, q, DefaultHarness(q, r.harness), w.cfg, Choices(r, w, q))
        BY <2>1, <4>1 DEF PickOf
      <4>2. CASE try => w.cfg.denied \/ HitsOf(r, w) = {}
        BY <2>3, <3>4, <4>2
      <4> QED BY <1>1, <4>1, <4>2
    <3> QED BY <1>2, <1>4, <2>3, <3>1, <3>3, <3>5 DEF NothingToPick
  <2> QED BY <2>2, <2>3
<1>5. CASE auto # NoPick
  <2>1. PICK q : /\ Fits(q, r.harness, w.cfg)
                 /\ PickOf(auto, q, DefaultHarness(q, r.harness), w.cfg, Choices(r, w, q))
    BY <1>1, <1>5
  <2>2. auto.found /\ auto.provider = q
    BY <2>1 DEF PickOf
  <2>3. c.provider = q /\ c.harness = DefaultHarness(q, r.harness) /\ c.auto = auto
    BY <1>2, <2>2
  <2>4. try /\ ~w.cfg.denied /\ FirstPreferred(r, w, auto)
    BY <1>1, <1>5
  <2>5. c.named = Selector
    <3>1. seedModel(c.provider, r.model, w) = Selector
      BY <2>4 DEF seedModel, None, Selector
    <3> QED BY <1>2, <3>1, SelectorIsKept
  <2>6. k = auto
    BY <1>3, <2>2, <2>4, <2>5
  <2>7. q \in Catalogued
    BY <2>1 DEF Fits
  <2> HIDE DEF auto
  <2> QED BY <2>1, <2>3, <2>4, <2>5, <2>6, <2>7
<1> QED BY <1>4, <1>5

(* A model the caller named, in a tree free models are kept out of, is let *)
(* through for an entry with a price and for nothing else.                 *)
LEMMA EntryChecked ==
  ASSUME NEW e, NEW cfg, ~checkEntry(e, cfg).refused
  PROVE  ~(e.free /\ cfg.denied)
<1> DEFINE checks == << <<e.router, "router">>, <<~e.tools, "no tools">>,
                        <<e.expires = "past", "expired">>, <<e.free /\ cfg.denied, "denied">> >>
           k      == FirstFailing(checks, "accepted")
<1>1. k = "accepted"
  BY DEF checkEntry, Checked
<1>0. DOMAIN checks = 1..4
  OBVIOUS
<1>2. /\ checks[4][1] = (e.free /\ cfg.denied)
      /\ checks[1][2] = "router" /\ checks[2][2] = "no tools" /\ checks[3][2] = "expired" /\ checks[4][2] = "denied"
  OBVIOUS
<1> HIDE DEF checks
<1>3. \/ \A i \in 1..4 : ~checks[i][1]
      \/ \E i \in 1..4 : k = checks[i][2]
  <2> DEFINE pass == "accepted"
  <2> HIDE DEF pass
  <2>1. DOMAIN checks \subseteq Nat
    BY <1>0
  <2>2. \/ FirstFailing(checks, pass) = pass /\ \A i \in DOMAIN checks : ~checks[i][1]
        \/ \E i \in DOMAIN checks : checks[i][1] /\ FirstFailing(checks, pass) = checks[i][2]
    BY <2>1, FirstFailingIs
  <2> QED BY <1>0, <2>2 DEF pass
<1>4. \A i \in 1..4 : i = 1 \/ i = 2 \/ i = 3 \/ i = 4
  OBVIOUS
<1>5. \A i \in 1..4 : checks[i][2] # "accepted"
  BY <1>2, <1>4
<1> HIDE DEF k
<1>6. ~checks[4][1]
  <2>1. 4 \in 1..4
    OBVIOUS
  <2> QED BY <1>1, <1>3, <1>5, <2>1
<1> QED BY <1>2, <1>6

LEMMA SkippedIs ==
  ASSUME NEW cfg, NEW k, k = skipped(cfg)
  PROVE  k.ctx = 0 /\ (cfg.denied => k.refused = TRUE)
<1> DEFINE why == IF cfg.denied THEN "cannot tell" ELSE "accepted"
<1>0. cfg.denied => why = "cannot tell"
  OBVIOUS
<1>1. k = Checked(why, FALSE, 0)
  BY DEF skipped
<1> HIDE DEF why
<1>2. k.ctx = 0
  BY <1>1 DEF Checked
<1>3. k.refused = (why # "accepted")
  BY <1>1 DEF Checked
<1> QED BY <1>0, <1>2, <1>3

LEMMA UnlistedIs ==
  ASSUME NEW k, k = Checked("not in the catalogue", FALSE, 0)
  PROVE  k.ctx = 0 /\ k.refused = TRUE
  BY DEF Checked

LEMMA PreflightIs ==
  ASSUME NEW p, NEW h, NEW model, NEW cfg \in Configs, NEW c \in CatalogueStates,
         NEW k, k = preflightNamed(p, h, model, cfg, c)
  PROVE  /\ k.ctx \in Nat
         /\ ~k.refused /\ cfg.denied =>
                \E e \in c.net \union c.cached :
                    e \in Entries /\ e.provider = p /\ e.id = BareID(p, h, model) /\ ~e.free
<1> DEFINE bare   == BareID(p, h, model)
           first  == loadCached(c, FALSE)
           again  == Listing(first, p, bare) = {} /\ first.from = "cache" /\ ~first.err
           second == loadCached(c, TRUE)
           asked  == again /\ Loaded(second)
           src    == IF asked THEN second ELSE first
           rows   == Listing(src, p, bare)
           row    == CHOOSE e \in rows : TRUE
<1>1. k = IF ~Loaded(first) THEN skipped(cfg)
          ELSE IF rows # {} THEN checkEntry(row, cfg)
          ELSE IF src.err /\ ~asked THEN skipped(cfg)
          ELSE Checked("not in the catalogue", FALSE, 0)
  BY DEF preflightNamed
<1>2. CASE k = skipped(cfg)
  <2>1. k.ctx = 0
    BY <1>2, SkippedIs
  <2>2. cfg.denied => k.refused = TRUE
    BY <1>2, SkippedIs
  <2> QED BY <2>1, <2>2
<1>3. CASE k = Checked("not in the catalogue", FALSE, 0)
  <2>1. k.ctx = 0 /\ k.refused = TRUE
    BY <1>3, UnlistedIs
  <2> QED BY <2>1
<1>4. CASE Loaded(first) /\ rows # {} /\ k = checkEntry(row, cfg)
  <2>1. row \in rows
    BY <1>4
  <2>2. row \in src.entries /\ row.provider = p /\ row.id = bare
    <3> HIDE DEF row, src
    <3> QED BY <2>1 DEF Listing
  <2>3. src.entries \in SUBSET Entries /\ src.entries \subseteq c.net \union c.cached
    <3>1. CASE asked
      <4>1. src = second /\ Loaded(second)
        BY <3>1
      <4>2. /\ second.entries \in SUBSET Entries
            /\ Loaded(second) => second.entries \subseteq c.net \union c.cached
        BY LoadedIsListing
      <4> HIDE DEF src, second
      <4> QED BY <4>1, <4>2
    <3>2. CASE ~asked
      <4>1. src = first
        BY <3>2
      <4>2. /\ first.entries \in SUBSET Entries
            /\ Loaded(first) => first.entries \subseteq c.net \union c.cached
        BY LoadedIsListing
      <4> HIDE DEF src, first
      <4> QED BY <1>4, <4>1, <4>2
    <3> QED BY <3>1, <3>2
  <2> DEFINE e == row
  <2>4. e \in Entries /\ e \in c.net \union c.cached /\ e.provider = p /\ e.id = bare
    <3> HIDE DEF row, src
    <3> QED BY <2>2, <2>3
  <2>5. k = checkEntry(e, cfg)
    BY <1>4
  <2> HIDE DEF e
  <2>6. k.ctx = e.ctx
    <3> DEFINE why == FirstFailing(<< <<e.router, "router">>, <<~e.tools, "no tools">>,
                                      <<e.expires = "past", "expired">>, <<e.free /\ cfg.denied, "denied">> >>,
                                   "accepted")
    <3>1. k = Checked(why, TRUE, e.ctx)
      BY <2>5 DEF checkEntry
    <3> HIDE DEF why
    <3> QED BY <3>1 DEF Checked
  <2>7. e.ctx \in Nat
    BY <2>4 DEF Entries
  <2>8. ~k.refused => ~(e.free /\ cfg.denied)
    BY <2>5, EntryChecked
  <2> QED BY <2>4, <2>6, <2>7, <2>8
<1> HIDE DEF rows, row, src, first, asked
<1> QED BY <1>1, <1>2, <1>3, <1>4

(* A launch that is accepted runs what was asked for, or what was picked.  *)
NamedRound(r, w, o) ==
  /\ ~o.selector /\ ~o.providerPicked /\ o.provider = r.provider
  /\ o.model = NormalizeModel(o.provider, o.harness, seedModel(o.provider, r.model, w)) /\ o.model # Selector

PickedRound(r, w, o) ==
  /\ o.selector /\ o.provider \in Catalogued /\ ~w.cfg.denied
  /\ ~o.providerPicked => o.provider = r.provider
  /\ \E k : /\ PickOf(k, o.provider, o.harness, w.cfg, Choices(r, w, o.provider))
            /\ o.model = k.model /\ o.ctx = k.ctx
            /\ \/ ~r.given => HitsOf(r, w) = {}
               \/ ~r.given /\ Fits(o.provider, r.harness, w.cfg) /\ FirstPreferred(r, w, k)

LEMMA AcceptedIs ==
  ASSUME NEW r \in Requests, NEW w \in Worlds, NEW o, o = OutsourceMain(r, w, FALSE), o.code = 0
  PROVE  /\ r.handoff = NoHandoff
         /\ NamedRound(r, w, o) \/ PickedRound(r, w, o)
         /\ o.ctx \in Nat
<1> DEFINE c == AskedOf(r, w, FALSE)
           k == PickFor(r, w, FALSE)
           chk == CheckFor(r, w, FALSE)
<1>1. /\ EarlyPasses(r, w, FALSE, c)
      /\ LatePasses(r, w, FALSE, c, k, ModelFor(r, w, FALSE), chk)
  <2>1. 0 \notin Codes
    BY DEF Codes
  <2> QED BY <2>1, DecisionCode
<1>2. r.handoff = NoHandoff
  <2>1. ~r.handoff.given
    BY <1>1 DEF EarlyPasses
  <2>2. r.handoff \in Handoffs
    BY DEF Requests
  <2> QED BY <2>1, <2>2 DEF Handoffs
<1>3. ~r.handoff.selector /\ r.handoff.ctx = 0
  BY <1>2 DEF NoHandoff
<1>4. /\ o.provider = c.provider /\ o.harness = c.harness /\ o.providerPicked = c.auto.found
      /\ o.model = IF k.found THEN k.model ELSE c.named
      /\ o.selector = (k.found \/ r.handoff.selector)
      /\ o.ctx = IF k.found THEN k.ctx ELSE IF chk.found THEN chk.ctx ELSE r.handoff.ctx
  <2>0. Decides(r, w, FALSE, o)
    BY DecisionIs
  <2>1. /\ o.provider = c.provider /\ o.harness = c.harness /\ o.providerPicked = c.auto.found
        /\ o.model = ModelFor(r, w, FALSE)
        /\ o.selector = SelectorFor(r, w, FALSE)
    BY <2>0 DEF Decides
  <2>2. o.ctx = IF k.found THEN k.ctx ELSE IF chk.found THEN chk.ctx ELSE r.handoff.ctx
    BY <2>0 DEF Decides
  <2>3. /\ ModelFor(r, w, FALSE) = IF k.found THEN k.model ELSE c.named
        /\ SelectorFor(r, w, FALSE) = (k.found \/ r.handoff.selector)
    BY DEF ModelFor, SelectorFor
  <2> HIDE DEF c, k, chk
  <2> QED BY <2>1, <2>2, <2>3
<1> DEFINE auto == autoPick(r, w, FALSE)
<1>5. /\ auto.found => c.provider = auto.provider
      /\ ~auto.found => c.provider = r.provider
      /\ c.auto = auto
      /\ c.named = NormalizeModel(c.provider, c.harness, seedModel(c.provider, r.model, w))
  <2>1. auto = autoPick(r, w, FALSE)
    OBVIOUS
  <2> HIDE DEF auto
  <2> QED BY <2>1 DEF AskedOf, Asked
<1>6. \/ k = NoPick /\ c.auto = NoPick
      \/ /\ c.named = Selector /\ c.provider \in Catalogued /\ ~w.cfg.denied
         /\ PickOf(k, c.provider, c.harness, w.cfg, Choices(r, w, c.provider))
         /\ \/ c.auto = NoPick /\ (~r.given => HitsOf(r, w) = {})
            \/ k = c.auto /\ ~r.given /\ Fits(c.provider, r.harness, w.cfg) /\ FirstPreferred(r, w, k)
  BY PickIs
<1>7. CASE k = NoPick /\ c.auto = NoPick
  <2>1. ~k.found /\ ~auto.found
    <3> HIDE DEF k, c, auto
    <3> QED BY <1>5, <1>7 DEF NoPick
  <2>2. c.named # Selector
    BY <1>1, <2>1 DEF LatePasses
  <2>3. NamedRound(r, w, o)
    <3> HIDE DEF k, c, auto, chk
    <3>1. ~o.selector /\ ~o.providerPicked
      BY <1>3, <1>4, <1>5, <2>1
    <3>2. o.provider = r.provider /\ o.model = c.named
      BY <1>4, <1>5, <2>1
    <3> QED BY <1>4, <1>5, <2>2, <3>1, <3>2 DEF NamedRound
  <2>4. chk.ctx \in Nat
    <3> DEFINE model == OrDefault(ModelFor(r, w, FALSE), c.default)
               pre   == preflightNamed(c.provider, c.harness, model, w.cfg, w.cat[c.provider])
               plain == Checked("accepted", FALSE, 0)
    <3>1. plain.ctx = 0
      BY DEF Checked
    <3>2. c.provider \in Catalogued => pre.ctx \in Nat
      <4>1. w.cfg \in Configs /\ (c.provider \in Catalogued => w.cat[c.provider] \in CatalogueStates)
        BY DEF Worlds
      <4> QED BY <4>1, PreflightIs
    <3>3. chk = plain \/ (chk = pre /\ c.provider \in Catalogued)
      BY DEF CheckFor, named
    <3> HIDE DEF chk, pre, plain
    <3>4. CASE chk = plain
      BY <3>1, <3>4
    <3>5. CASE chk = pre /\ c.provider \in Catalogued
      BY <3>2, <3>5
    <3> QED BY <3>3, <3>4, <3>5
  <2>5. o.ctx \in Nat
    <3> HIDE DEF k, c, auto, chk
    <3>1. o.ctx = IF chk.found THEN chk.ctx ELSE r.handoff.ctx
      BY <1>4, <2>1
    <3>2. r.handoff.ctx \in Nat
      BY <1>3
    <3> QED BY <2>4, <3>1, <3>2
  <2> QED BY <1>2, <2>3, <2>5
<1>8. CASE ~(k = NoPick /\ c.auto = NoPick)
  <2> HIDE DEF k, c, chk, auto
  <2>0. /\ c.named = Selector /\ c.provider \in Catalogued /\ ~w.cfg.denied
        /\ PickOf(k, c.provider, c.harness, w.cfg, Choices(r, w, c.provider))
        /\ \/ c.auto = NoPick /\ (~r.given => HitsOf(r, w) = {})
           \/ k = c.auto /\ ~r.given /\ Fits(c.provider, r.harness, w.cfg) /\ FirstPreferred(r, w, k)
    BY <1>6, <1>8
  <2>1. k.found
    BY <2>0 DEF PickOf
  <2>2. o.selector /\ o.model = k.model /\ o.ctx = k.ctx
    BY <1>4, <2>1
  <2>3. ~o.providerPicked => o.provider = r.provider
    BY <1>4, <1>5
  <2>4. PickedRound(r, w, o)
    BY <1>4, <2>0, <2>2, <2>3 DEF PickedRound
  <2>5. o.ctx \in Nat
    <3>1. PICK e \in Choices(r, w, c.provider) : k.ctx = e.ctx
      BY <2>0 DEF PickOf
    <3>2. Choices(r, w, c.provider) \subseteq Entries
      <4>1. w.cat[c.provider] \in CatalogueStates
        BY <2>0 DEF Worlds
      <4> QED BY <4>1, OfferedTyped DEF Choices
    <3>3. e.ctx \in Nat
      BY <3>2 DEF Entries
    <3> QED BY <2>2, <3>1, <3>3
  <2> QED BY <1>2, <2>4, <2>5
<1> QED BY <1>7, <1>8

(***************************************************************************)
(* The --detach child.                                                     *)
(***************************************************************************)
ArgvOf(r, o, q) ==
  /\ q.detach = FALSE
  /\ q.model = IF o.selector THEN o.model ELSE r.model
  /\ q.provider = IF o.providerPicked THEN o.provider ELSE r.provider
  /\ q.handoff = IF o.selector \/ o.ctx > 0
                 THEN [given |-> TRUE, selector |-> o.selector, ctx |-> o.ctx] ELSE NoHandoff
  /\ q.harness = r.harness /\ q.effort = r.effort /\ q.session = r.session /\ q.resume = r.resume
  /\ q.log = r.log /\ q.marker = r.marker /\ q.image = r.image /\ q.noVisionCheck = r.noVisionCheck
  /\ q.maxSeconds = r.maxSeconds /\ q.allowNoTools = r.allowNoTools

LEMMA ArgsAre ==
  ASSUME NEW r \in Requests, NEW o, NEW q, q = detachArgs(r, o)
  PROVE  ArgvOf(r, o, q)
  BY DEF detachArgs, Requests, ArgvOf

LEMMA TableDefaultLength ==
  ASSUME NEW p \in Providers, NEW q
  PROVE  TableDefault(p) # None => Len(<<q>> \o TableDefault(p)) = 2
<1>1. ASSUME NEW x
      PROVE  Len(<<q>> \o <<x>>) = 2
  BY QualifiedLength
<1>2. TableDefault(p) # None => \E x : TableDefault(p) = <<x>>
  BY DEF TableDefault, Providers, None
<1> QED BY <1>1, <1>2

(* What is started is started with a model.                                *)
LEMMA RunsSomething ==
  ASSUME NEW p \in Providers, NEW h, NEW model, NEW cfg \in Configs, model # Selector,
         OrDefault(model, defaultModel(p, cfg)) # None
  PROVE  LET runs == RunsOf(p, h, model, defaultModel(p, cfg))
         IN  runs # None /\ (runs = Selector => model = None)
<1> DEFINE def == defaultModel(p, cfg)
<1>1. CASE model # None
  BY <1>1 DEF RunsOf, HarnessModel, OrDefault
<1>2. CASE model = None /\ h \notin Qualifying
  BY <1>2 DEF RunsOf, OrDefault
<1>3. CASE model = None /\ h \in Qualifying
  <2>1. def # None
    BY <1>3 DEF OrDefault
  <2>2. Len(<<Qualifier(p)>> \o def) > 0
    <3>1. CASE configured(p, cfg)
      <4>1. def = cfg.default[p]
        BY <3>1 DEF defaultModel
      <4>2. cfg.default[p] \in Seq(STRING)
        BY DEF Configs, Ids
      <4>3. Len(<<Qualifier(p)>> \o def) = 1 + Len(def) /\ Len(def) \in Nat
        BY <4>1, <4>2, QualifiedLength
      <4> HIDE DEF def
      <4> QED BY <4>3
    <3>2. CASE ~configured(p, cfg)
      <4>1. def = TableDefault(p)
        BY <3>2 DEF defaultModel
      <4> HIDE DEF def
      <4> QED BY <2>1, <4>1, TableDefaultLength
    <3> QED BY <3>1, <3>2
  <2>3. RunsOf(p, h, model, def) = <<Qualifier(p)>> \o def
    BY <1>3 DEF RunsOf, HarnessModel, HarnessFormID
  <2>4. Len(None) = 0
    BY DEF None
  <2> HIDE DEF def
  <2>5. RunsOf(p, h, model, def) # None
    BY <2>2, <2>3, <2>4
  <2> QED BY <1>3, <2>5 DEF def
<1> QED BY <1>1, <1>2, <1>3

(* The machine a child finds: its configuration and its catalogues may     *)
(* have changed.                                                           *)
SameMachine(w, v) ==
  /\ w.nested = v.nested /\ w.tree = v.tree /\ w.seed = v.seed /\ w.allowMapped = v.allowMapped
  /\ w.keyMissing = v.keyMissing /\ w.configDir = v.configDir /\ w.onPath = v.onPath /\ w.logOK = v.logOK /\ w.starts = v.starts

(* It asks for the model its parent found and picks none of its own.       *)
AsksFor(r, w, v, o, q, c) ==
  /\ c.provider = o.provider /\ c.harness = o.harness /\ c.named = o.model /\ o.model # Selector
  /\ c.default = defaultModel(o.provider, v.cfg)
  /\ ~c.auto.found /\ PickFor(q, v, TRUE) = NoPick
  /\ ~o.selector => o.model = NormalizeModel(o.provider, o.harness, seedModel(o.provider, r.model, w))
  /\ o.selector => o.provider \in Catalogued

LEMMA ChildAsks ==
  ASSUME NEW r \in Requests, NEW w \in Worlds, NEW v \in Worlds, SameMachine(w, v),
         NEW o, o = OutsourceMain(r, w, FALSE), o.code = 0, NEW q, q = detachArgs(r, o),
         NEW c, c = AskedOf(q, v, TRUE)
  PROVE  AsksFor(r, w, v, o, q, c)
<1> DEFINE args == AskedOf(r, w, FALSE)
<1>1. /\ EarlyPasses(r, w, FALSE, args) /\ Decides(r, w, FALSE, o)
      /\ o.provider = args.provider /\ o.harness = args.harness
  <2>1. 0 \notin Codes
    BY DEF Codes
  <2>2. EarlyPasses(r, w, FALSE, args)
    BY <2>1, DecisionCode
  <2>3. Decides(r, w, FALSE, o)
    BY DecisionIs
  <2> QED BY <2>2, <2>3 DEF Decides
<1>2. o.harness \in Harnesses /\ o.provider \in Drives(o.harness)
  BY <1>1 DEF EarlyPasses
<1>3. o.harness = DefaultHarness(o.provider, r.harness)
  <2>1. args.harness = DefaultHarness(args.provider, r.harness)
    BY DEF AskedOf, Asked
  <2> QED BY <1>1, <2>1
<1>4. NamedRound(r, w, o) \/ PickedRound(r, w, o)
  BY AcceptedIs
<1>5. /\ q.model = IF o.selector THEN o.model ELSE r.model
      /\ q.provider = IF o.providerPicked THEN o.provider ELSE r.provider
      /\ q.harness = r.harness
  <2>1. ArgvOf(r, o, q)
    BY ArgsAre
  <2> QED BY <2>1 DEF ArgvOf
<1>6. q.provider = o.provider
  BY <1>4, <1>5 DEF NamedRound, PickedRound
<1>7. autoPick(q, v, TRUE) = NoPick /\ ~NoPick.found
  BY DEF autoPick, NoPick
<1>8. /\ c.provider = o.provider /\ c.harness = o.harness
      /\ c.default = defaultModel(o.provider, v.cfg) /\ ~c.auto.found
      /\ c.named = NormalizeModel(o.provider, o.harness, seedModel(o.provider, q.model, v))
  <2> DEFINE auto == autoPick(q, v, TRUE)
  <2>0. ~auto.found
    BY <1>7
  <2>1. /\ c.provider = q.provider /\ c.auto = auto
        /\ c.harness = DefaultHarness(c.provider, q.harness)
        /\ c.default = defaultModel(c.provider, v.cfg)
        /\ c.named = NormalizeModel(c.provider, c.harness, seedModel(c.provider, q.model, v))
    <3> DEFINE a == Asked(q, v, auto)
    <3>1. c = a
      BY DEF AskedOf
    <3>2. /\ a.provider = IF auto.found THEN auto.provider ELSE q.provider
          /\ a.auto = auto
          /\ a.harness = DefaultHarness(a.provider, q.harness)
          /\ a.default = defaultModel(a.provider, v.cfg)
          /\ a.named = NormalizeModel(a.provider, a.harness, seedModel(a.provider, q.model, v))
      <4> HIDE DEF auto
      <4> QED BY DEF Asked
    <3> HIDE DEF auto, a
    <3> QED BY <2>0, <3>1, <3>2
  <2> HIDE DEF auto
  <2> QED BY <1>3, <1>5, <1>6, <2>0, <2>1
<1>9. PickFor(q, v, TRUE) = NoPick
  BY DEF PickFor, pickOf
<1>10. CASE NamedRound(r, w, o)
  <2>1. /\ q.model = r.model /\ ~o.selector /\ o.model # Selector
        /\ o.model = NormalizeModel(o.provider, o.harness, seedModel(o.provider, r.model, w))
    BY <1>5, <1>10 DEF NamedRound
  <2>2. seedModel(o.provider, r.model, v) = seedModel(o.provider, r.model, w)
    BY DEF seedModel, SameMachine
  <2> QED BY <1>8, <1>9, <2>1, <2>2 DEF AsksFor
<1>11. CASE PickedRound(r, w, o)
  <2>1. /\ q.model = o.model /\ o.selector /\ o.provider \in Catalogued
    BY <1>5, <1>11 DEF PickedRound
  <2>2. PICK e \in Choices(r, w, o.provider) : o.model = HarnessFormID(o.provider, o.harness, e.id)
    BY <1>11 DEF PickedRound, PickOf
  <2>3. e \in Entries /\ e.provider = o.provider
    <3>1. w.cat[o.provider] \in CatalogueStates
      BY <2>1 DEF Worlds
    <3>2. Choices(r, w, o.provider) \in SUBSET Entries
      BY <3>1, OfferedTyped DEF Choices
    <3>3. \A x \in Choices(r, w, o.provider) : x.provider = o.provider
      BY DEF Choices, Offered, Candidates
    <3> QED BY <3>2, <3>3
  <2>4. o.model # None /\ o.model # Selector /\ o.provider # "zai"
        /\ NormalizeModel(o.provider, o.harness, o.model) = o.model
    <3> DEFINE p == o.provider
               h == o.harness
               m == o.model
    <3>1. /\ p \in Catalogued /\ h \in Harnesses /\ p \in Drives(h) /\ e \in Entries /\ e.provider = p
          /\ m = HarnessFormID(p, h, e.id)
      BY <1>2, <2>1, <2>2, <2>3
    <3> HIDE DEF p, h, m
    <3>2. m # None /\ m # Selector /\ NormalizeModel(p, h, m) = m /\ p # "zai"
      BY <3>1, FormsOfIds
    <3> QED BY <3>2 DEF p, h, m
  <2>5. seedModel(o.provider, q.model, v) = o.model
    BY <2>1, <2>4 DEF seedModel
  <2> QED BY <1>8, <1>9, <2>1, <2>4, <2>5 DEF AsksFor
<1> QED BY <1>4, <1>10, <1>11

LEMMA HandedOver ==
  ASSUME NEW sel \in BOOLEAN, NEW ctx \in Nat, NEW given,
         given = IF sel \/ ctx > 0 THEN [given |-> TRUE, selector |-> sel, ctx |-> ctx] ELSE NoHandoff
  PROVE  given.selector = sel /\ given.ctx = ctx
<1>1. CASE sel \/ ctx > 0
  BY <1>1
<1>2. CASE ~sel /\ ctx = 0
  BY <1>2 DEF NoHandoff
<1> QED BY <1>1, <1>2

(* So it runs its parent's round, and accepts it when the configuration is *)
(* still what it was.                                                      *)
Repeats(w, v, o, k) ==
  /\ k.provider = o.provider /\ k.harness = o.harness /\ k.model = o.model
  /\ k.selector = o.selector /\ k.ctx = o.ctx
  /\ v.cfg.default = w.cfg.default => k.runs = o.runs
  /\ v.cfg = w.cfg => k.code = 0

LEMMA ChildKeepsRound ==
  ASSUME NEW r \in Requests, NEW w \in Worlds, NEW v \in Worlds, SameMachine(w, v),
         NEW o, o = OutsourceMain(r, w, FALSE), o.code = 0, NEW q, q = detachArgs(r, o),
         NEW k, k = OutsourceMain(q, v, TRUE)
  PROVE  Repeats(w, v, o, k)
<1> DEFINE args == AskedOf(r, w, FALSE)
           c    == AskedOf(q, v, TRUE)
           pick == PickFor(q, v, TRUE)
           chk  == CheckFor(q, v, TRUE)
           def(cfg) == defaultModel(o.provider, cfg)
<1>1. /\ EarlyPasses(r, w, FALSE, args)
      /\ LatePasses(r, w, FALSE, args, PickFor(r, w, FALSE), ModelFor(r, w, FALSE), CheckFor(r, w, FALSE))
  <2>1. 0 \notin Codes
    BY DEF Codes
  <2> QED BY <2>1, DecisionCode
<1>2. Decides(r, w, FALSE, o)
  BY DecisionIs
<1>3. Decides(q, v, TRUE, k)
  BY DecisionIs
<1>4. ArgvOf(r, o, q)
  BY ArgsAre
<1>5. /\ c.provider = o.provider /\ c.harness = o.harness /\ c.named = o.model /\ o.model # Selector
      /\ c.default = def(v.cfg) /\ ~c.auto.found /\ pick = NoPick
      /\ o.selector => o.provider \in Catalogued
  <2>1. AsksFor(r, w, v, o, q, c)
    BY ChildAsks
  <2> QED BY <2>1 DEF AsksFor
<1>6. r.handoff = NoHandoff /\ (NamedRound(r, w, o) \/ PickedRound(r, w, o)) /\ o.ctx \in Nat
  BY AcceptedIs
<1>7. ~pick.found
  <2> HIDE DEF pick
  <2> QED BY <1>5 DEF NoPick
<1>8. /\ q.handoff.selector = o.selector /\ q.handoff.ctx = o.ctx
  <2>1. o.selector \in BOOLEAN
    BY <1>2 DEF Decides, SelectorFor
  <2>2. q.handoff = IF o.selector \/ o.ctx > 0
                    THEN [given |-> TRUE, selector |-> o.selector, ctx |-> o.ctx] ELSE NoHandoff
    BY <1>4 DEF ArgvOf
  <2> DEFINE sel == o.selector
             ctx == o.ctx
  <2>3. /\ sel \in BOOLEAN /\ ctx \in Nat
        /\ q.handoff = IF sel \/ ctx > 0 THEN [given |-> TRUE, selector |-> sel, ctx |-> ctx] ELSE NoHandoff
    BY <1>6, <2>1, <2>2
  <2> HIDE DEF sel, ctx
  <2>4. q.handoff.selector = sel /\ q.handoff.ctx = ctx
    BY <2>3, HandedOver
  <2> QED BY <2>4 DEF sel, ctx
<1>9. ModelFor(q, v, TRUE) = o.model
  BY <1>5, <1>7 DEF ModelFor
<1>10. SelectorFor(q, v, TRUE) = o.selector
  <2>1. SelectorFor(q, v, TRUE) = (pick.found \/ q.handoff.selector)
    BY DEF SelectorFor
  <2>2. o.selector \in BOOLEAN
    BY <1>2 DEF Decides, SelectorFor
  <2> HIDE DEF pick
  <2> QED BY <1>7, <1>8, <2>1, <2>2
<1>11. ~chk.found /\ ~chk.refused
  <2> DEFINE plain == Checked("accepted", FALSE, 0)
  <2>1. ~plain.found /\ ~plain.refused
    BY DEF Checked
  <2>2. chk = plain
    BY DEF CheckFor, named
  <2> HIDE DEF plain, chk
  <2> QED BY <2>1, <2>2
<1>12. k.provider = o.provider /\ k.harness = o.harness /\ k.model = o.model /\ k.selector = o.selector
  BY <1>3, <1>5, <1>9, <1>10 DEF Decides
<1>13. k.ctx = o.ctx
  <2>1. k.ctx = IF pick.found THEN pick.ctx ELSE IF chk.found THEN chk.ctx ELSE q.handoff.ctx
    BY <1>3 DEF Decides
  <2> HIDE DEF pick, chk
  <2> QED BY <1>7, <1>8, <1>11, <2>1
<1>14. args.provider = o.provider /\ args.harness = o.harness /\ ModelFor(r, w, FALSE) = o.model
  BY <1>2 DEF Decides
<1>15. args.default = def(w.cfg)
  <2>1. args.default = defaultModel(args.provider, w.cfg)
    BY DEF AskedOf, Asked
  <2> QED BY <1>14, <2>1
<1>16. /\ k.runs = RunsOf(o.provider, o.harness, o.model, def(v.cfg))
       /\ o.runs = RunsOf(o.provider, o.harness, o.model, def(w.cfg))
  <2>1. k.runs = RunsOf(c.provider, c.harness, ModelFor(q, v, TRUE), c.default)
    BY <1>3 DEF Decides
  <2>2. o.runs = RunsOf(args.provider, args.harness, ModelFor(r, w, FALSE), args.default)
    BY <1>2 DEF Decides
  <2> HIDE DEF args, c, def
  <2> QED BY <1>5, <1>9, <1>14, <1>15, <2>1, <2>2
<1>17. v.cfg.default = w.cfg.default => k.runs = o.runs
  <2>1. v.cfg.default = w.cfg.default => def(v.cfg) = def(w.cfg)
    BY DEF defaultModel, configured
  <2> HIDE DEF def
  <2> QED BY <1>16, <2>1
<1>18. ASSUME v.cfg = w.cfg
       PROVE  k.code = 0
  <2>0. c.default = args.default
    BY <1>5, <1>15, <1>18
  <2>1. ~Mapped(c.provider, OrDefault(seedModel(c.provider, q.model, v), c.default), v.allowMapped)
    <3>1. CASE o.selector
      <4>1. c.provider \in Catalogued
        BY <1>5, <3>1
      <4> QED BY <4>1, CataloguedUnmapped
    <3>2. CASE ~o.selector
      <4>1. q.model = r.model
        BY <1>4, <3>2 DEF ArgvOf
      <4>2. seedModel(c.provider, q.model, v) = seedModel(args.provider, r.model, w) /\ v.allowMapped = w.allowMapped
        BY <1>5, <1>14, <4>1 DEF seedModel, SameMachine
      <4>3. ~Mapped(args.provider, OrDefault(seedModel(args.provider, r.model, w), args.default), w.allowMapped)
        BY <1>1 DEF EarlyPasses
      <4>4. c.provider = args.provider
        BY <1>5, <1>14
      <4> HIDE DEF c, args
      <4> QED BY <2>0, <4>2, <4>3, <4>4
    <3> QED BY <3>1, <3>2
  <2>2. /\ q.effort = r.effort /\ q.resume = r.resume /\ q.marker = r.marker /\ q.image = r.image
        /\ q.noVisionCheck = r.noVisionCheck /\ q.maxSeconds = r.maxSeconds /\ q.detach = FALSE
    BY <1>4 DEF ArgvOf
  <2>3. c.provider = args.provider /\ c.harness = args.harness
    BY <1>5, <1>14
  <2>4. EarlyPasses(q, v, TRUE, c)
    <3> HIDE DEF c, args
    <3>1. ~v.nested /\ v.tree
      BY <1>1 DEF EarlyPasses, SameMachine
    <3> QED BY <1>1, <1>18, <2>0, <2>1, <2>2, <2>3, <3>1 DEF EarlyPasses
  <2>5. LatePasses(q, v, TRUE, c, pick, ModelFor(q, v, TRUE), chk)
    <3> HIDE DEF c, args, pick, chk
    <3>1. opencodeCredsMissing(c.provider, c.harness, v) <=> opencodeCredsMissing(args.provider, args.harness, w)
      BY <2>3 DEF opencodeCredsMissing, SameMachine
    <3>2. ModelFor(q, v, TRUE) = ModelFor(r, w, FALSE)
      BY <1>9, <1>14
    <3>3. v.configDir
      BY <1>1 DEF LatePasses, SameMachine
    <3> QED BY <1>1, <1>5, <1>11, <2>0, <2>2, <2>3, <3>1, <3>2, <3>3 DEF LatePasses
  <2>6. \/ /\ EarlyPasses(q, v, TRUE, c) /\ LatePasses(q, v, TRUE, c, pick, ModelFor(q, v, TRUE), chk)
           /\ OutsourceMain(q, v, TRUE).code = 0
        \/ ~(EarlyPasses(q, v, TRUE, c) /\ LatePasses(q, v, TRUE, c, pick, ModelFor(q, v, TRUE), chk))
    BY DecisionCode
  <2> HIDE DEF c, pick, chk
  <2> QED BY <2>4, <2>5, <2>6
<1> QED BY <1>12, <1>13, <1>17, <1>18 DEF Repeats

(***************************************************************************)
(* The inductive invariant: what the parent decided it decided on the      *)
(* machine as it was, and what the child decided, on the machine as it is. *)
(***************************************************************************)
Asking ==
  /\ req \in Requests /\ world \in Worlds /\ \E l \in Launches : req = l[1]
  /\ pc \in {"parent", "refused", "detached", "lost", "round", "done"}

LaunchedOn(w) == w \in Worlds /\ SameMachine(w, world) /\ parent = OutsourceMain(req, w, FALSE)

Deciding ==
  /\ pc # "parent" => \E w : LaunchedOn(w)
  /\ pc \in {"detached", "lost", "round", "done"} => parent.code = 0
  /\ pc \in {"detached", "lost"} => req.detach

Starting ==
  /\ req.detach /\ pc \in {"lost", "round", "done"} => child = OutsourceMain(detachArgs(req, parent), world, TRUE)
  /\ ~req.detach /\ pc \in {"round", "done"} => child = parent
  /\ pc \in {"round", "done"} => child.code = 0

Ending ==
  pc = "done" =>
    \E ev \in Evidences :
      ending = [ev |-> ev, result |-> finish(child.harness, req.log, req.marker # "none", req.allowNoTools, ev)]

LaunchInv == Asking /\ Deciding /\ Starting /\ Ending

LEMMA LaunchInitHolds == LaunchInit => LaunchInv
<1> SUFFICES ASSUME LaunchInit PROVE LaunchInv
  OBVIOUS
<1>1. PICK l \in Launches : req = l[1] /\ world = l[2]
  BY DEF LaunchInit
<1>2. pc = "parent"
  BY DEF LaunchInit
<1>3. req \in Requests /\ world \in Worlds
  BY <1>1, LaunchesTyped
<1> QED BY <1>1, <1>2, <1>3 DEF LaunchInv, Asking, Deciding, Starting, Ending

(* The round is run on the harness the launch decided on.                  *)
LEMMA AcceptedPlaces ==
  ASSUME NEW r, NEW w, NEW o, o = OutsourceMain(r, w, FALSE), o.code = 0
  PROVE  /\ o.provider \in Providers /\ o.provider \notin w.cfg.disabled
         /\ o.harness \in Harnesses /\ o.provider \in Drives(o.harness)
         /\ o.cfg = w.cfg /\ o.cat = w.cat
<1> DEFINE c == AskedOf(r, w, FALSE)
<1>1. EarlyPasses(r, w, FALSE, c)
  <2>1. 0 \notin Codes
    BY DEF Codes
  <2> QED BY <2>1, DecisionCode
<1>2. o.provider = c.provider /\ o.harness = c.harness /\ o.cfg = w.cfg /\ o.cat = w.cat
  <2>1. Decides(r, w, FALSE, o)
    BY DecisionIs
  <2> QED BY <2>1 DEF Decides
<1> HIDE DEF c
<1> QED BY <1>1, <1>2 DEF EarlyPasses

LEMMA RoundPlaces ==
  ASSUME LaunchInv, pc \in {"round", "done"}
  PROVE  child.harness = parent.harness /\ child.provider = parent.provider
         /\ parent.harness \in Harnesses /\ parent.provider \in Providers /\ parent.provider \in Drives(parent.harness)
         /\ parent.provider \notin parent.cfg.disabled
<1>1. PICK w : LaunchedOn(w)
  BY DEF LaunchInv, Deciding
<1>2. parent.code = 0 /\ req \in Requests /\ world \in Worlds
  BY DEF LaunchInv, Deciding, Asking
<1>3. /\ parent.provider \in Providers /\ parent.provider \notin parent.cfg.disabled
      /\ parent.harness \in Harnesses /\ parent.provider \in Drives(parent.harness)
  BY <1>1, <1>2, AcceptedPlaces DEF LaunchedOn
<1>4. child.harness = parent.harness /\ child.provider = parent.provider
  <2>1. CASE ~req.detach
    BY <2>1 DEF LaunchInv, Starting
  <2>2. CASE req.detach
    <3>1. child = OutsourceMain(detachArgs(req, parent), world, TRUE)
      BY <2>2 DEF LaunchInv, Starting
    <3>2. Repeats(w, world, parent, child)
      BY <1>1, <1>2, <3>1, ChildKeepsRound DEF LaunchedOn
    <3> QED BY <3>2 DEF Repeats
  <2> QED BY <2>1, <2>2
<1> QED BY <1>3, <1>4

LEMMA LaunchStepKeeps == LaunchInv /\ [LaunchNext]_launchVars => LaunchInv'
<1> SUFFICES ASSUME LaunchInv, [LaunchNext]_launchVars PROVE LaunchInv'
  OBVIOUS
<1>0. /\ req \in Requests /\ world \in Worlds /\ \E l \in Launches : req = l[1]
      /\ pc \in {"parent", "refused", "detached", "lost", "round", "done"}
  BY DEF LaunchInv, Asking
<1>1. CASE outsourceRun
  <2> USE <1>1 DEF outsourceRun
  <2>1. /\ pc = "parent" /\ req' = req /\ world' = world
        /\ parent' = OutsourceMain(req, world, FALSE)
        /\ pc' = IF parent'.code # 0 THEN "refused" ELSE IF req.detach THEN "detached" ELSE "round"
        /\ child' = IF pc' = "round" THEN parent' ELSE child
    OBVIOUS
  <2>2. Asking'
    BY <1>0, <2>1 DEF Asking
  <2>3. LaunchedOn(world)'
    BY <1>0, <2>1 DEF LaunchedOn, SameMachine
  <2>4. Deciding'
    BY <2>1, <2>3 DEF Deciding
  <2>5. Starting' /\ Ending'
    BY <2>1 DEF Starting, Ending
  <2> QED BY <2>2, <2>4, <2>5 DEF LaunchInv
<1>2. CASE CatalogueMoves \/ ConfigEdited
  <2>1. pc = "detached" /\ UNCHANGED <<req, pc, parent, child, ending>>
    BY <1>2 DEF CatalogueMoves, ConfigEdited
  <2>2. world' \in Worlds /\ SameMachine(world, world')
    <3>1. CASE CatalogueMoves
      <4>1. PICK c \in Catalogues : world' = [world EXCEPT !.cat = c]
        BY <3>1 DEF CatalogueMoves
      <4>2. c \in [Catalogued -> CatalogueStates]
        BY CataloguesTyped
      <4> QED BY <1>0, <4>1, <4>2 DEF Worlds, SameMachine
    <3>2. CASE ConfigEdited
      <4>1. \E cfg \in Configs : world' = [world EXCEPT !.cfg = cfg]
        <5>1. world.cfg \in Configs
          BY <1>0 DEF Worlds
        <5>2. ASSUME NEW p \in Providers, world' = [world EXCEPT !.cfg.disabled = @ \union {p}]
              PROVE  \E cfg \in Configs : world' = [world EXCEPT !.cfg = cfg]
          <6>1. [world.cfg EXCEPT !.disabled = @ \union {p}] \in Configs
            BY <5>1 DEF Configs
          <6> QED BY <1>0, <5>2, <6>1 DEF Worlds
        <5>3. ASSUME world' = [world EXCEPT !.cfg.default = [p \in Providers |-> None]]
              PROVE  \E cfg \in Configs : world' = [world EXCEPT !.cfg = cfg]
          <6>1. [world.cfg EXCEPT !.default = [p \in Providers |-> None]] \in Configs
            <7>1. None \in Ids
              BY DEF None, Ids
            <7>2. [p \in Providers |-> None] \in [Providers -> Ids]
              BY <7>1
            <7> QED BY <5>1, <7>2 DEF Configs
          <6> QED BY <1>0, <5>3, <6>1 DEF Worlds
        <5>4. ASSUME world' = [world EXCEPT !.cfg.denied = TRUE]
              PROVE  \E cfg \in Configs : world' = [world EXCEPT !.cfg = cfg]
          <6>1. [world.cfg EXCEPT !.denied = TRUE] \in Configs
            BY <5>1 DEF Configs
          <6> QED BY <1>0, <5>4, <6>1 DEF Worlds
        <5> QED BY <3>2, <5>2, <5>3, <5>4 DEF ConfigEdited
      <4>2. PICK cfg \in Configs : world' = [world EXCEPT !.cfg = cfg]
        BY <4>1
      <4> QED BY <1>0, <4>2 DEF Worlds, SameMachine
    <3> QED BY <1>2, <3>1, <3>2
  <2>3. Asking'
    BY <1>0, <2>1, <2>2 DEF Asking
  <2>4. Deciding'
    <3>1. PICK w : LaunchedOn(w)
      BY <2>1 DEF LaunchInv, Deciding
    <3>2. LaunchedOn(w)'
      BY <2>1, <2>2, <3>1 DEF LaunchedOn, SameMachine
    <3> QED BY <2>1, <3>2 DEF LaunchInv, Deciding
  <2>5. Starting' /\ Ending'
    BY <2>1 DEF Starting, Ending
  <2> QED BY <2>3, <2>4, <2>5 DEF LaunchInv
<1>3. CASE detachedChild
  <2>1. /\ pc = "detached" /\ req' = req /\ world' = world /\ parent' = parent
        /\ child' = OutsourceMain(detachArgs(req, parent), world, TRUE)
        /\ pc' = IF child'.code # 0 THEN "lost" ELSE "round"
    BY <1>3 DEF detachedChild
  <2>2. Asking'
    BY <1>0, <2>1 DEF Asking
  <2>3. Deciding'
    BY <2>1 DEF LaunchInv, Deciding, LaunchedOn
  <2>4. req.detach
    BY <2>1 DEF LaunchInv, Deciding
  <2>5. Starting' /\ Ending'
    BY <2>1, <2>4 DEF Starting, Ending
  <2> QED BY <2>2, <2>3, <2>5 DEF LaunchInv
<1>4. CASE roundRun
  <2>1. /\ pc = "round" /\ pc' = "done" /\ UNCHANGED <<req, world, parent, child>>
    BY <1>4 DEF roundRun
  <2>2. PICK ev \in EvidenceFor([request |-> req, harness |-> child.harness]) :
           ending' = [ev     |-> ev,
                      result |-> finish(child.harness, req.log, req.marker # "none", req.allowNoTools, ev)]
    BY <1>4 DEF roundRun
  <2>3. ev \in Evidences
    <3>1. child.harness \in Harnesses
      BY <2>1, RoundPlaces
    <3>2. PICK l \in Launches : req = l[1]
      BY <1>0
    <3> QED BY <2>2, <3>1, <3>2, EvidenceTyped
  <2>4. Ending'
    BY <2>1, <2>2, <2>3 DEF Ending
  <2>5. Asking'
    BY <1>0, <2>1 DEF Asking
  <2>6. Deciding'
    BY <2>1 DEF LaunchInv, Deciding, LaunchedOn
  <2>7. Starting'
    BY <2>1 DEF LaunchInv, Starting
  <2> QED BY <2>4, <2>5, <2>6, <2>7 DEF LaunchInv
<1>5. CASE UNCHANGED launchVars
  BY <1>5 DEF launchVars, LaunchInv, Asking, Deciding, LaunchedOn, Starting, Ending
<1> QED BY <1>1, <1>2, <1>3, <1>4, <1>5 DEF LaunchNext

(***************************************************************************)
(* The theorems.                                                           *)
(***************************************************************************)
LEMMA LaunchInvariant == LaunchSpec => []LaunchInv
<1>1. LaunchInit => LaunchInv
  BY LaunchInitHolds
<1>2. LaunchInv /\ [LaunchNext]_launchVars => LaunchInv'
  BY LaunchStepKeeps
<1> QED BY <1>1, <1>2, PTL DEF LaunchSpec

LEMMA JudgedCodes ==
  ASSUME NEW log \in BOOLEAN, NEW ev \in Evidences, NEW rc \in Nat, NEW says, NEW actual,
         NEW said, said = Judge(log, ev, rc, says, actual)
  PROVE  said.rc = ev.bail \/ said.rc = rc \/ said.rc = ExitModelIdentity \/ said.rc = ExitTimedOut
<1>1. ev.bail # 0 => said = Ends(ev.bail, "skipped", {})
  BY JudgeCases
<1>2. ev.bail = 0 /\ ev.timedOut => said = Ends(ExitTimedOut, "skipped", {})
  BY JudgeCases
<1>3. ev.bail = 0 /\ ~ev.timedOut /\ (rc # 0 \/ ~log) => said = Ends(rc, "skipped", actual)
  BY JudgeCases
<1>4. ev.bail = 0 /\ ~ev.timedOut /\ rc = 0 /\ log =>
        said = Ends(rc, says.verdict, says.actual) \/ said = Ends(ExitModelIdentity, says.verdict, says.actual)
  BY DEF Judge
<1>5. \A a, b, c : Ends(a, b, c).rc = a
  BY DEF Ends
<1> QED BY <1>1, <1>2, <1>3, <1>4, <1>5

LEMMA ArmCodes ==
  ASSUME NEW h \in Harnesses, NEW log \in BOOLEAN, NEW ev \in Evidences
  PROVE  arm(h, log, ev).rc \in {ev.bail, ev.child, 1, ExitModelIdentity, ExitTimedOut}
<1>0. ev.child \in Nat
  BY DEF Evidences
<1>1. ASSUME NEW g \in BOOLEAN, NEW rc \in {1, ev.child}, NEW says, NEW actual,
             arm(h, log, ev) = Judge(g, ev, rc, says, actual)
      PROVE  arm(h, log, ev).rc \in {ev.bail, ev.child, 1, ExitModelIdentity, ExitTimedOut}
  <2>1. rc \in Nat
    BY <1>0
  <2> DEFINE said == arm(h, log, ev)
  <2>2. said = Judge(g, ev, rc, says, actual)
    BY <1>1
  <2> HIDE DEF said
  <2>3. said.rc = ev.bail \/ said.rc = rc \/ said.rc = ExitModelIdentity \/ said.rc = ExitTimedOut
    BY <2>1, <2>2, JudgedCodes
  <2>4. said.rc \in {ev.bail, ev.child, 1, ExitModelIdentity, ExitTimedOut}
    BY <2>3
  <2> QED BY <2>4 DEF said
<1>2. CASE h = "claude-code"
  BY <1>1, <1>2 DEF arm, runClaudeCode
<1>3. CASE h = "crush"
  BY <1>1, <1>3 DEF arm, runCrush
<1>4. CASE h = "opencode"
  BY <1>1, <1>4 DEF arm, runOpencode
<1>5. CASE h = "agy"
  <2> DEFINE rc == IF ev.child = 0 /\ ev.status \notin {"none", "SUCCESS"} THEN 1 ELSE ev.child
  <2>1. rc \in {1, ev.child}
    OBVIOUS
  <2>2. arm(h, log, ev) = Judge(log, ev, rc, IF ev.session THEN Ok(assertAgyIdentity(ev)) ELSE Says("absent", {}), {})
    BY <1>5 DEF arm, runAgy
  <2> HIDE DEF rc
  <2> QED BY <1>1, <2>1, <2>2
<1>6. CASE h = "muse"
  BY <1>1, <1>6 DEF arm, runMuse
<1> QED BY <1>2, <1>3, <1>4, <1>5, <1>6 DEF Harnesses

LEMMA SeenIs ==
  ASSUME NEW log \in BOOLEAN, NEW ev \in Evidences, NEW s, s = seen(log, ev)
  PROVE  s \in Evidences /\ s.bail = ev.bail /\ s.child = ev.child /\ (log => s = ev)
<1>1. CASE log
  BY <1>1 DEF seen
<1>2. CASE ~log
  <2>1. s = [ev EXCEPT !.doc = FALSE, !.session = FALSE, !.status = "none", !.echo = {}]
    BY <1>2 DEF seen
  <2> QED BY <1>2, <2>1 DEF Evidences
<1> QED BY <1>1, <1>2

LEMMA FinishCodes ==
  ASSUME NEW h \in Harnesses, NEW log \in BOOLEAN, NEW marker, NEW allowed, NEW ev \in Evidences
  PROVE  finish(h, log, marker, allowed, ev).rc
           \in {ev.bail, ev.child, 1, ExitModelIdentity, ExitNoMarker, ExitNoToolCalls, ExitTimedOut}
<1> DEFINE seenEv == seen(log, ev)
           said   == arm(h, log, seenEv)
           looked == seenEv.bail = 0 /\ log /\ marker
           rc1    == IF looked /\ said.rc = 0 /\ ~markerVerdict(h, seenEv) THEN ExitNoMarker ELSE said.rc
           calls  == IF seenEv.bail = 0 THEN toolCalls(h, seenEv, allowed) ELSE "uncounted"
           rc2    == IF rc1 = 0 /\ calls = "zero" THEN ExitNoToolCalls ELSE rc1
<1>1. finish(h, log, marker, allowed, ev).rc = rc2
  BY DEF finish
<1>2. seenEv \in Evidences /\ seenEv.bail = ev.bail /\ seenEv.child = ev.child
  BY SeenIs
<1>3. said.rc \in {ev.bail, ev.child, 1, ExitModelIdentity, ExitTimedOut}
  <2> HIDE DEF seenEv
  <2>1. said.rc \in {seenEv.bail, seenEv.child, 1, ExitModelIdentity, ExitTimedOut}
    BY <1>2, ArmCodes
  <2> QED BY <1>2, <2>1
<1>4. rc1 \in {said.rc, ExitNoMarker} /\ rc2 \in {rc1, ExitNoToolCalls}
  <2> HIDE DEF seenEv, said, looked, calls
  <2> QED OBVIOUS
<1> HIDE DEF seenEv, said, rc1, rc2
<1> QED BY <1>1, <1>3, <1>4

LEMMA StartedRuns ==
  ASSUME NEW r, NEW w \in Worlds, NEW d, NEW o, o = OutsourceMain(r, w, d), o.code = 0, o.model # Selector
  PROVE  o.runs # None /\ (o.runs = Selector => o.model = None)
<1> DEFINE c == AskedOf(r, w, d)
<1>1. Decides(r, w, d, o)
  BY DecisionIs
<1>2. /\ EarlyPasses(r, w, d, c)
      /\ LatePasses(r, w, d, c, PickFor(r, w, d), ModelFor(r, w, d), CheckFor(r, w, d))
  <2>1. 0 \notin Codes
    BY DEF Codes
  <2> QED BY <2>1, DecisionCode
<1>3. /\ o.provider = c.provider /\ o.harness = c.harness /\ o.model = ModelFor(r, w, d)
      /\ o.runs = RunsOf(c.provider, c.harness, ModelFor(r, w, d), c.default)
  BY <1>1 DEF Decides
<1>4. c.default = defaultModel(c.provider, w.cfg)
  BY DEF AskedOf, Asked
<1>5. c.provider \in Providers /\ OrDefault(o.model, c.default) # None
  <2> HIDE DEF c
  <2> QED BY <1>2, <1>3 DEF EarlyPasses, LatePasses
<1>6. w.cfg \in Configs
  BY DEF Worlds
<1> DEFINE p == c.provider
           h == c.harness
           m == o.model
           cfg == w.cfg
<1>7. o.runs = RunsOf(p, h, m, defaultModel(p, cfg)) /\ p \in Providers /\ cfg \in Configs
      /\ m # Selector /\ OrDefault(m, defaultModel(p, cfg)) # None
  <2> HIDE DEF c
  <2> QED BY <1>3, <1>4, <1>5, <1>6
<1> HIDE DEF p, h, m, cfg
<1>8. o.runs # None /\ (o.runs = Selector => m = None)
  BY <1>7, RunsSomething
<1> QED BY <1>8 DEF m

LEMMA NeverTheSelector ==
  ASSUME NEW r \in Requests, NEW w \in Worlds, NEW o, o = OutsourceMain(r, w, FALSE), o.code = 0
  PROVE  o.model # Selector
<1>1. CASE NamedRound(r, w, o)
  BY <1>1 DEF NamedRound
<1>2. CASE PickedRound(r, w, o)
  <2> DEFINE q == detachArgs(r, o)
             c == AskedOf(q, w, TRUE)
  <2>1. AsksFor(r, w, w, o, q, c)
    <3>1. SameMachine(w, w) /\ q = detachArgs(r, o) /\ c = AskedOf(q, w, TRUE)
      BY DEF SameMachine
    <3> HIDE DEF q, c
    <3> QED BY <3>1, ChildAsks
  <2> HIDE DEF q, c
  <2> QED BY <2>1 DEF AsksFor
<1> QED BY <1>1, <1>2, AcceptedIs

(* What the child decided, when there is one.                              *)
LEMMA ChildRepeats ==
  ASSUME LaunchInv, pc \in {"lost", "round", "done"}, NEW w, LaunchedOn(w)
  PROVE  /\ req.detach => Repeats(w, world, parent, child)
         /\ pc # "lost" => /\ child.provider = parent.provider /\ child.harness = parent.harness
                           /\ child.model = parent.model /\ child.selector = parent.selector
                           /\ child.ctx = parent.ctx
<1>1. parent.code = 0 /\ req \in Requests /\ world \in Worlds
  BY DEF LaunchInv, Deciding, Asking
<1>2. ASSUME req.detach
      PROVE  Repeats(w, world, parent, child)
  <2>1. child = OutsourceMain(detachArgs(req, parent), world, TRUE)
    BY <1>2 DEF LaunchInv, Starting
  <2> QED BY <1>1, <2>1, ChildKeepsRound DEF LaunchedOn
<1>3. CASE req.detach
  BY <1>2, <1>3 DEF Repeats
<1>4. CASE ~req.detach
  <2>1. pc # "lost" => child = parent
    BY <1>4 DEF LaunchInv, Starting
  <2> QED BY <1>4, <2>1
<1> QED BY <1>3, <1>4

LEMMA ChildRuns ==
  ASSUME LaunchInv, pc \in {"round", "done"}
  PROVE  child.code = 0 /\ child.runs # None /\ (child.runs = Selector => child.model = None)
<1>1. PICK w : LaunchedOn(w)
  BY DEF LaunchInv, Deciding
<1>2. parent.code = 0 /\ req \in Requests /\ world \in Worlds /\ child.code = 0
  BY DEF LaunchInv, Deciding, Asking, Starting
<1>3. parent.model # Selector
  BY <1>1, <1>2, NeverTheSelector DEF LaunchedOn
<1>4. child.model = parent.model
  BY <1>1, ChildRepeats
<1>5. CASE req.detach
  <2>1. child = OutsourceMain(detachArgs(req, parent), world, TRUE)
    BY <1>5 DEF LaunchInv, Starting
  <2> QED BY <1>2, <1>3, <1>4, <2>1, StartedRuns
<1>6. CASE ~req.detach
  <2>1. child = parent
    BY <1>6 DEF LaunchInv, Starting
  <2> QED BY <1>1, <1>2, <1>3, <2>1, StartedRuns DEF LaunchedOn
<1> QED BY <1>5, <1>6

(* Every launch is refused with a code of the table or accepted for a      *)
(* harness and a provider that exist and a model that is there; a round    *)
(* ends with a code its harness, its bail or the verdict gave it.          *)
THEOREM LaunchIsTyped == LaunchSpec => []LaunchTypeOK
<1>1. ASSUME LaunchInv
      PROVE  LaunchTypeOK
  <2>1. pc \in {"parent", "refused", "detached", "lost", "round", "done"}
    BY <1>1 DEF LaunchInv, Asking
  <2>2. ASSUME pc # "parent"
        PROVE  parent.code \in {0, 1} \union 64..70
    <3>1. PICK w : LaunchedOn(w)
      BY <1>1, <2>2 DEF LaunchInv, Deciding
    <3>2. parent.code = 0 \/ parent.code \in Codes
      BY <3>1, DecisionCode DEF LaunchedOn
    <3> QED BY <3>2 DEF Codes
  <2>3. ASSUME pc \notin {"parent", "refused"}
        PROVE  parent.harness \in Harnesses /\ parent.provider \in Providers
    <3>1. PICK w : LaunchedOn(w)
      BY <1>1, <2>3 DEF LaunchInv, Deciding
    <3>2. parent.code = 0
      BY <1>1, <2>1, <2>3 DEF LaunchInv, Deciding
    <3> QED BY <3>1, <3>2, AcceptedPlaces DEF LaunchedOn
  <2>4. Ran => child.code = 0 /\ child.runs # None /\ (child.runs = Selector => child.model = None)
    BY <1>1, ChildRuns DEF Ran
  <2>5. ASSUME Ended
        PROVE  result.rc \in {ending.ev.bail, ending.ev.child, 1, ExitModelIdentity,
                              ExitNoMarker, ExitNoToolCalls, ExitTimedOut}
    <3>1. PICK ev \in Evidences :
            ending = [ev |-> ev, result |-> finish(child.harness, req.log, req.marker # "none", req.allowNoTools, ev)]
      BY <1>1, <2>5 DEF Ended, LaunchInv, Ending
    <3> DEFINE f == finish(child.harness, req.log, req.marker # "none", req.allowNoTools, ev)
    <3>2. ending.ev = ev /\ result = f
      BY <3>1 DEF result
    <3>3. child.harness \in Harnesses /\ req.log \in BOOLEAN
      BY <1>1, <2>5, RoundPlaces DEF Ended, LaunchInv, Asking, Requests
    <3>4. f.rc \in {ev.bail, ev.child, 1, ExitModelIdentity, ExitNoMarker, ExitNoToolCalls, ExitTimedOut}
      BY <3>3, FinishCodes
    <3> HIDE DEF f
    <3> QED BY <3>2, <3>4
  <2> QED BY <2>1, <2>2, <2>3, <2>4, <2>5 DEF LaunchTypeOK
<1> QED BY <1>1, LaunchInvariant, PTL

(* Whatever the catalogues do while it starts, the child accepts what its  *)
(* parent accepted and runs the parent's round.                            *)
THEOREM ChildrenKeepTheRound == LaunchSpec => []ChildRunsParentsRound
<1>1. ASSUME LaunchInv
      PROVE  ChildRunsParentsRound
  <2> SUFFICES ASSUME req.detach, pc \in {"lost", "round", "done"}, world.cfg = parent.cfg
               PROVE  /\ child.code = 0
                      /\ \A f \in {"provider", "harness", "runs", "selector", "ctx"} : child[f] = parent[f]
    BY DEF ChildRunsParentsRound
  <2>1. PICK w : LaunchedOn(w)
    BY <1>1 DEF LaunchInv, Deciding
  <2>2. Repeats(w, world, parent, child)
    BY <1>1, <2>1, ChildRepeats
  <2>3. parent.cfg = w.cfg
    <3>1. parent.code = 0
      BY <1>1 DEF LaunchInv, Deciding
    <3> QED BY <2>1, <3>1, AcceptedPlaces DEF LaunchedOn
  <2>4. /\ child.code = 0
        /\ child.provider = parent.provider /\ child.harness = parent.harness /\ child.runs = parent.runs
        /\ child.selector = parent.selector /\ child.ctx = parent.ctx
    BY <2>2, <2>3 DEF Repeats
  <2> QED BY <2>4
<1> QED BY <1>1, LaunchInvariant, PTL

LEMMA EndingIs ==
  ASSUME LaunchInv, Ended
  PROVE  /\ child.harness \in Harnesses
         /\ req.log \in BOOLEAN /\ req.allowNoTools \in BOOLEAN
         /\ \E ev \in Evidences :
               /\ ending.ev = ev
               /\ result = finish(child.harness, req.log, req.marker # "none", req.allowNoTools, ev)
<1>1. child.harness \in Harnesses
  BY RoundPlaces DEF Ended
<1>2. req.log \in BOOLEAN /\ req.allowNoTools \in BOOLEAN
  BY DEF LaunchInv, Asking, Requests
<1>3. PICK ev \in Evidences :
        ending = [ev |-> ev, result |-> finish(child.harness, req.log, req.marker # "none", req.allowNoTools, ev)]
  BY DEF Ended, LaunchInv, Ending
<1>4. ending.ev = ev /\ result = finish(child.harness, req.log, req.marker # "none", req.allowNoTools, ev)
  BY <1>3 DEF result
<1> QED BY <1>1, <1>2, <1>4

(* Exit 0 with a log is proven by what the harness left behind.            *)
THEOREM CleanIsProven == LaunchSpec => []CleanMeansProven
<1>1. ASSUME LaunchInv
      PROVE  CleanMeansProven
  <2> SUFFICES ASSUME Ended, req.log, result.rc = 0
               PROVE  LET ev == ending.ev
                          h  == child.harness
                      IN  /\ ev.bail = 0 /\ ev.child = 0 /\ ~ev.timedOut
                          /\ h \in {"claude-code", "opencode", "muse"} =>
                                 Responded(h, ev) # {} /\ Responded(h, ev) \intersect {"foreign", "shorter", "forged"} = {}
                          /\ h = "agy" => /\ ("foreign" \in Responded(h, ev) => "exact" \in Responded(h, ev))
                                          /\ "exact" \in Responded(h, ev) \union ev.echo
                                          /\ ev.status \in {"none", "SUCCESS"}
                          /\ req.marker # "none" => ev.report = "marker" \/ (h = "crush" /\ ev.quoted)
                          /\ (h = "claude-code" /\ ev.tools = "zero") => req.allowNoTools \/ ~trailKnown(ev)
    BY DEF CleanMeansProven
  <2> DEFINE h == child.harness
             marker == req.marker # "none"
             allowed == req.allowNoTools
  <2>1. PICK ev \in Evidences :
           ending.ev = ev /\ result = finish(h, req.log, marker, allowed, ev)
    BY <1>1, EndingIs
  <2>2. h \in Harnesses /\ req.log = TRUE /\ marker \in BOOLEAN /\ allowed \in BOOLEAN
    BY <1>1, EndingIs
  <2>3. finish(h, TRUE, marker, allowed, ev).rc = 0
    BY <2>1, <2>2
  <2> HIDE DEF h, marker, allowed
  <2>4. /\ arm(h, TRUE, ev).rc = 0
        /\ ev.bail = 0 => /\ marker => markerVerdict(h, ev)
                          /\ toolCalls(h, ev, allowed) # "zero"
    BY <2>2, <2>3, FinishedClean
  <2>5. /\ ev.bail = 0 /\ ev.child = 0 /\ ~ev.timedOut
        /\ h = "agy" => ev.status \in {"none", "SUCCESS"}
    BY <2>2, <2>4, ArmIsClean
  <2>6. /\ h \in {"claude-code", "opencode", "muse"} =>
               Responded(h, ev) # {} /\ Responded(h, ev) \intersect {"foreign", "shorter", "forged"} = {}
        /\ h = "agy" => /\ ("foreign" \in Responded(h, ev) => "exact" \in Responded(h, ev))
                        /\ "exact" \in Responded(h, ev) \union ev.echo
    BY <2>2, <2>4, CleanlyAnswered
  <2>7. marker => ev.report = "marker" \/ (h = "crush" /\ ev.quoted)
    BY <2>4, <2>5 DEF markerVerdict
  <2>8. h = "claude-code" /\ ev.tools = "zero" => allowed \/ ~trailKnown(ev)
    BY <2>2, <2>4, <2>5, CountedCalls
  <2> QED BY <2>1, <2>5, <2>6, <2>7, <2>8 DEF h, marker, allowed
<1> QED BY <1>1, LaunchInvariant, PTL

(* A code the launcher adds to a harness that exited 0 names one fault and *)
(* is earned.                                                              *)
THEOREM AddedCodesAreTrue == LaunchSpec => []AddedCodesAreEarned
<1>1. ASSUME LaunchInv
      PROVE  AddedCodesAreEarned
  <2> SUFFICES ASSUME Ended, ending.ev.bail = 0, ~ending.ev.timedOut, ending.ev.child = 0
               PROVE  LET ev == ending.ev
                          h  == child.harness
                      IN  /\ result.rc = ExitNoToolCalls => /\ ev.tools = "zero" /\ ~req.allowNoTools
                                                            /\ result.marker # "absent"
                                                            /\ result.identity \in {"skipped", "ok"}
                          /\ result.rc = ExitNoMarker => /\ req.log /\ req.marker # "none"
                                                         /\ ev.report # "marker"
                                                         /\ result.identity \in {"skipped", "ok"}
                          /\ result.rc = ExitModelIdentity =>
                                 /\ req.log /\ h # "crush"
                                 /\ Responded(h, ev) # {"exact"} \/ ~ev.session
    BY DEF AddedCodesAreEarned
  <2> DEFINE h == child.harness
             marker == req.marker # "none"
             allowed == req.allowNoTools
             log == req.log
             said == result
  <2>1. PICK ev \in Evidences : ending.ev = ev /\ said = finish(h, log, marker, allowed, ev)
    BY <1>1, EndingIs
  <2>2. h \in Harnesses /\ log \in BOOLEAN /\ marker \in BOOLEAN /\ allowed \in BOOLEAN
    BY <1>1, EndingIs
  <2>3. ev.bail = 0 /\ ~ev.timedOut /\ ev.child = 0
    BY <2>1
  <2> HIDE DEF h, marker, allowed, log, said
  <2>4. /\ said.rc = ExitNoToolCalls => /\ ev.tools = "zero" /\ ~allowed
                                        /\ said.marker # "absent"
                                        /\ said.identity \in {"skipped", "ok"}
        /\ said.rc = ExitNoMarker => /\ log /\ marker
                                     /\ ev.report # "marker"
                                     /\ said.identity \in {"skipped", "ok"}
        /\ said.rc = ExitModelIdentity =>
               /\ log /\ h # "crush"
               /\ Responded(h, ev) # {"exact"} \/ ~ev.session
    <3> DEFINE f == finish(h, log, marker, allowed, ev)
    <3>1. /\ f.rc = ExitNoToolCalls => /\ ev.tools = "zero" /\ ~allowed
                                       /\ f.marker # "absent"
                                       /\ f.identity \in {"skipped", "ok"}
          /\ f.rc = ExitNoMarker => /\ log /\ marker
                                    /\ ev.report # "marker"
                                    /\ f.identity \in {"skipped", "ok"}
          /\ f.rc = ExitModelIdentity =>
                 /\ log /\ h # "crush"
                 /\ Responded(h, ev) # {"exact"} \/ ~ev.session
      BY <2>2, <2>3, AddedCodes
    <3> HIDE DEF f
    <3>2. said = f
      BY <2>1 DEF f
    <3> QED BY <3>1, <3>2
  <2> QED BY <2>1, <2>4 DEF h, marker, allowed, log, said
<1> QED BY <1>1, LaunchInvariant, PTL

(* An entry is on offer exactly when it passes every filter.               *)
LEMMA KeptEntries ==
  ASSUME NEW p \in Catalogued, NEW e \in Entries, NEW allowMapped
  PROVE  freeDrop(p, e, allowMapped) = "keep" <=>
           /\ e.free /\ ~e.router /\ e.tools /\ e.active
           /\ e.expires \in {"none", "future"} /\ e.ctx >= MinFreeContext
<1> DEFINE checks == << <<~e.free, "not free">>,
                        <<e.router, "a router">>,
                        <<~e.tools, "no tools">>,
                        <<e.expires \in {"past", "garbled"}, "listing expired">>,
                        <<~e.active, "withdrawn">>,
                        <<e.ctx < MinFreeContext, "small context">>,
                        <<AnsweredBy(p, e.id, allowMapped) # None, "answered by another model">> >>
           pass   == "keep"
           drop   == FirstFailing(checks, pass)
<1>1. drop = freeDrop(p, e, allowMapped)
  BY DEF freeDrop
<1>2. DOMAIN checks = 1..7
  OBVIOUS
<1>3. /\ checks[1][2] = "not free" /\ checks[2][2] = "a router" /\ checks[3][2] = "no tools"
      /\ checks[4][2] = "listing expired" /\ checks[5][2] = "withdrawn" /\ checks[6][2] = "small context"
      /\ checks[7][2] = "answered by another model"
  OBVIOUS
<1>4. /\ checks[1][1] = (~e.free) /\ checks[2][1] = (e.router) /\ checks[3][1] = (~e.tools)
      /\ checks[4][1] = (e.expires \in {"past", "garbled"}) /\ checks[5][1] = (~e.active)
      /\ checks[6][1] = (e.ctx < MinFreeContext)
      /\ checks[7][1] = (AnsweredBy(p, e.id, allowMapped) # None)
  OBVIOUS
<1>5. AnsweredBy(p, e.id, allowMapped) = None
  BY CataloguedUnmapped
<1>6. /\ e.expires \in {"none", "future", "past", "garbled"} /\ e.ctx \in Nat /\ MinFreeContext \in Nat
  BY FreeModelsConstants DEF Entries
<1> HIDE DEF checks, drop
<1>7. \/ drop = pass /\ \A i \in 1..7 : ~checks[i][1]
      \/ \E i \in 1..7 : checks[i][1] /\ drop = checks[i][2]
  <2> HIDE DEF pass
  <2>1. DOMAIN checks \subseteq Nat
    BY <1>2
  <2>2. \/ FirstFailing(checks, pass) = pass /\ \A i \in DOMAIN checks : ~checks[i][1]
        \/ \E i \in DOMAIN checks : checks[i][1] /\ FirstFailing(checks, pass) = checks[i][2]
    BY <2>1, FirstFailingIs
  <2> QED BY <1>2, <2>2 DEF drop
<1>8. \A i \in 1..7 : i = 1 \/ i = 2 \/ i = 3 \/ i = 4 \/ i = 5 \/ i = 6 \/ i = 7
  OBVIOUS
<1>9. 1 \in 1..7 /\ 2 \in 1..7 /\ 3 \in 1..7 /\ 4 \in 1..7 /\ 5 \in 1..7 /\ 6 \in 1..7 /\ 7 \in 1..7
  OBVIOUS
<1>10. \A i \in 1..7 : checks[i][2] # pass
  BY <1>3, <1>8
<1> DEFINE fails == \/ checks[1][1] \/ checks[2][1] \/ checks[3][1] \/ checks[4][1]
                    \/ checks[5][1] \/ checks[6][1] \/ checks[7][1]
<1>11. drop = pass <=> ~fails
  <2> HIDE DEF pass
  <2>1. ASSUME drop = pass
        PROVE  \A i \in 1..7 : ~checks[i][1]
    BY <1>7, <1>10, <2>1
  <2>2. fails <=> \E i \in 1..7 : checks[i][1]
    BY <1>8, <1>9, Zenon
  <2> QED BY <1>7, <2>1, <2>2
<1>12. fails <=> ~(/\ e.free /\ ~e.router /\ e.tools /\ e.active
                   /\ e.expires \in {"none", "future"} /\ e.ctx >= MinFreeContext)
  <2>1. (e.expires \in {"past", "garbled"}) <=> ~(e.expires \in {"none", "future"})
    BY <1>6
  <2>2. (e.ctx < MinFreeContext) <=> ~(e.ctx >= MinFreeContext)
    BY <1>6
  <2>3. ~checks[7][1]
    BY <1>4, <1>5
  <2> QED BY <1>4, <2>1, <2>2, <2>3, Zenon
<1> HIDE DEF fails
<1> QED BY <1>1, <1>11, <1>12

LEMMA OpenIsOffered ==
  ASSUME NEW w, LaunchedOn(w), parent.code = 0, NEW q \in Catalogued
  PROVE  {e \in loadCached(parent.cat[q], FALSE).entries : e.provider = q /\ Vetted(q, e, parent.cfg)}
           = Choices(req, w, q)
<1> DEFINE entries == loadCached(w.cat[q], FALSE).entries
<1>1. parent.cat = w.cat /\ parent.cfg = w.cfg /\ world.allowMapped = w.allowMapped
  <2>1. parent.cat = w.cat /\ parent.cfg = w.cfg
    BY AcceptedPlaces DEF LaunchedOn
  <2>2. world.allowMapped = w.allowMapped
    BY DEF LaunchedOn, SameMachine
  <2> QED BY <2>1, <2>2
<1>2. entries \in SUBSET Entries
  <2>1. w.cat[q] \in CatalogueStates
    BY DEF LaunchedOn, Worlds
  <2> QED BY <2>1, LoadedIsListing
<1>3. Choices(req, w, q) = {e \in entries : /\ e.provider = q /\ freeDrop(q, e, w.allowMapped) = "keep"
                                            /\ Allowed(e, req.allowTraining \/ w.cfg.allowTraining)}
  BY DEF Choices, Offered, Candidates
<1>4. ASSUME NEW e \in Entries
      PROVE  freeDrop(q, e, w.allowMapped) = "keep" /\ Allowed(e, req.allowTraining \/ w.cfg.allowTraining)
                <=> Vetted(q, e, w.cfg)
  <2>1. ~Mapped(q, e.id, world.allowMapped)
    BY CataloguedUnmapped
  <2>2. Vetted(q, e, w.cfg) <=>
          /\ e.free /\ ~e.router /\ e.tools /\ e.active
          /\ e.expires \in {"none", "future"} /\ e.ctx >= MinFreeContext
          /\ req.allowTraining \/ w.cfg.allowTraining \/ e.policy = "no-train-no-retain"
    BY <2>1 DEF Vetted
  <2>3. Allowed(e, req.allowTraining \/ w.cfg.allowTraining) <=>
          req.allowTraining \/ w.cfg.allowTraining \/ e.policy = "no-train-no-retain"
    BY DEF Allowed
  <2> QED BY <2>2, <2>3, KeptEntries
<1> HIDE DEF entries
<1>5. Choices(req, w, q) = {e \in entries : e.provider = q /\ Vetted(q, e, w.cfg)}
  BY <1>2, <1>3, <1>4
<1> QED BY <1>1, <1>5 DEF entries

(* A picked model is run as it is.                                         *)
LEMMA PickedRuns ==
  ASSUME LaunchInv, pc \in {"round", "done"}, NEW w, LaunchedOn(w), child.selector
  PROVE  /\ PickedRound(req, w, parent)
         /\ child.runs = parent.model
<1>1. parent.code = 0 /\ req \in Requests /\ world \in Worlds /\ w \in Worlds
  BY DEF LaunchInv, Deciding, Asking, LaunchedOn
<1>2. child.model = parent.model /\ parent.selector
  BY ChildRepeats
<1>3. PickedRound(req, w, parent)
  <2>1. NamedRound(req, w, parent) \/ PickedRound(req, w, parent)
    BY <1>1, AcceptedIs DEF LaunchedOn
  <2> QED BY <1>2, <2>1 DEF NamedRound
<1>4. parent.model # None
  <2>1. parent.provider \in Catalogued /\ parent.harness \in Harnesses /\ parent.provider \in Drives(parent.harness)
    <3>1. parent.harness \in Harnesses /\ parent.provider \in Drives(parent.harness)
      BY RoundPlaces
    <3> QED BY <1>3, <3>1 DEF PickedRound
  <2>2. PICK e \in Choices(req, w, parent.provider) : parent.model = HarnessFormID(parent.provider, parent.harness, e.id)
    BY <1>3 DEF PickedRound, PickOf
  <2>3. e \in Entries /\ e.provider = parent.provider
    <3>1. w.cat[parent.provider] \in CatalogueStates
      BY <1>1, <2>1 DEF Worlds
    <3>2. Choices(req, w, parent.provider) \in SUBSET Entries
      BY <3>1, OfferedTyped DEF Choices
    <3>3. \A x \in Choices(req, w, parent.provider) : x.provider = parent.provider
      BY DEF Choices, Offered, Candidates
    <3> QED BY <3>2, <3>3
  <2> DEFINE p == parent.provider
             h == parent.harness
             m == parent.model
  <2>4. p \in Catalogued /\ h \in Harnesses /\ p \in Drives(h) /\ e.provider = p /\ m = HarnessFormID(p, h, e.id)
    BY <2>1, <2>2, <2>3
  <2> HIDE DEF p, h, m
  <2>5. m # None
    BY <2>3, <2>4, FormsOfIds
  <2> QED BY <2>5 DEF m
<1>5. ASSUME NEW r, NEW v, NEW d, child = OutsourceMain(r, v, d)
      PROVE  child.runs = child.model
  <2>1. Decides(r, v, d, child)
    BY <1>5, DecisionIs
  <2>2. \E p, h, def : child.runs = RunsOf(p, h, child.model, def)
    BY <2>1 DEF Decides
  <2> QED BY <1>2, <1>4, <2>2 DEF RunsOf, HarnessModel, OrDefault
<1>6. child.runs = child.model
  <2>1. CASE req.detach
    <3>1. child = OutsourceMain(detachArgs(req, parent), world, TRUE)
      BY <2>1 DEF LaunchInv, Starting
    <3> QED BY <1>5, <3>1
  <2>2. CASE ~req.detach
    <3>1. child = OutsourceMain(req, w, FALSE)
      BY <2>2 DEF LaunchInv, Starting, LaunchedOn
    <3> QED BY <1>5, <3>1
  <2> QED BY <2>1, <2>2
<1> QED BY <1>2, <1>3, <1>6

(* Whatever the catalogues hold, the configuration allows and free.prefer  *)
(* lists, --model free runs an entry that passes every filter, and the     *)
(* first preference that is available.                                     *)
THEOREM PicksAreVetted == LaunchSpec => []PickIsVetted
<1>1. ASSUME LaunchInv
      PROVE  PickIsVetted
  <2> DEFINE cfg      == parent.cfg
             Open(q)  == {e \in loadCached(parent.cat[q], FALSE).entries : e.provider = q /\ Vetted(q, e, cfg)}
             Free(q)  == {e.id : e \in Open(q)}
             asked    == IF req.given THEN {child.provider}
                         ELSE {q \in Catalogued : q \notin cfg.disabled /\ (req.harness # "unnamed" => q \in Drives(req.harness))}
             prefers  == {n \in DOMAIN cfg.prefer : cfg.prefer[n].provider \in asked
                                                    /\ cfg.prefer[n].id \in Free(cfg.prefer[n].provider)}
             runsAt(q, id) == child.provider = q /\ child.runs = HarnessFormID(q, child.harness, id)
  <2> SUFFICES ASSUME Ran, child.selector
               PROVE  /\ ~cfg.denied
                      /\ child.provider \notin cfg.disabled
                      /\ \E e \in Open(child.provider) : runsAt(child.provider, e.id) /\ child.ctx = e.ctx
                      /\ prefers # {} => \E n \in prefers : /\ \A m \in prefers : n <= m
                                                            /\ runsAt(cfg.prefer[n].provider, cfg.prefer[n].id)
    BY DEF PickIsVetted
  <2>1. PICK w : LaunchedOn(w)
    BY <1>1 DEF LaunchInv, Deciding, Ran
  <2>2. parent.code = 0
    BY <1>1 DEF LaunchInv, Deciding, Ran
  <2>3. cfg = w.cfg /\ cfg \in Configs
    <3>1. cfg = w.cfg
      BY <2>1, <2>2, AcceptedPlaces DEF LaunchedOn
    <3>2. w.cfg \in Configs
      BY <2>1 DEF LaunchedOn, Worlds
    <3> QED BY <3>1, <3>2
  <2>4. PickedRound(req, w, parent) /\ child.runs = parent.model
    BY <1>1, <2>1, PickedRuns DEF Ran
  <2>5. /\ child.provider = parent.provider /\ child.harness = parent.harness /\ child.ctx = parent.ctx
        /\ parent.provider \notin cfg.disabled
    <3>1. child.ctx = parent.ctx
      BY <1>1, <2>1, ChildRepeats DEF Ran
    <3> QED BY <1>1, <3>1, RoundPlaces DEF Ran
  <2> DEFINE p == parent.provider
             h == parent.harness
             Offers(q) == Choices(req, w, q)
  <2>6. \A q \in Catalogued : Open(q) = Offers(q)
    BY <2>1, <2>2, OpenIsOffered
  <2>7. p \in Catalogued /\ ~cfg.denied
    BY <2>3, <2>4 DEF PickedRound
  <2>8. PICK k : /\ PickOf(k, p, h, w.cfg, Offers(p))
                 /\ parent.model = k.model /\ parent.ctx = k.ctx
                 /\ \/ ~req.given => HitsOf(req, w) = {}
                    \/ ~req.given /\ Fits(p, req.harness, w.cfg) /\ FirstPreferred(req, w, k)
    BY <2>4 DEF PickedRound
  <2>9. \E e \in Offers(p) : k.id = e.id /\ k.ctx = e.ctx /\ k.model = HarnessFormID(p, h, e.id)
    BY <2>8 DEF PickOf
  <2>10. \E e \in Open(child.provider) : runsAt(child.provider, e.id) /\ child.ctx = e.ctx
    <3> HIDE DEF Open, Offers, p, h
    <3>1. child.provider = p /\ child.harness = h /\ child.ctx = k.ctx /\ child.runs = k.model
      BY <2>4, <2>5, <2>8 DEF p, h
    <3> QED BY <2>6, <2>7, <2>9, <3>1
  <2> DEFINE prefer == cfg.prefer
             n      == k.preferN
  <2>11. n > 0 => prefer[n].id = k.id
    <3>1. k.preferN > 0 => k.id = w.cfg.prefer[k.preferN].id
      BY <2>8 DEF PickOf
    <3> QED BY <2>3, <3>1
  <2>12. child.runs = HarnessFormID(p, child.harness, k.id) /\ child.provider = p
    <3> HIDE DEF Offers
    <3> QED BY <2>4, <2>5, <2>8, <2>9
  <2>13. DOMAIN prefer \subseteq Nat \ {0}
    BY <2>3, PreferIsSeq
  <2>14. ASSUME prefers # {}
         PROVE  n \in prefers /\ prefer[n].provider = p /\ \A m \in prefers : n <= m
    <3>1. CASE req.given
      <4> DEFINE hits == {i \in DOMAIN prefer : prefer[i].provider = p /\ \E e \in Offers(p) : e.id = prefer[i].id}
      <4>1. prefers = hits
        <5>1. asked = {p}
          BY <2>5, <3>1
        <5>2. Open(p) = Offers(p)
          BY <2>6, <2>7
        <5>3. prefers = {i \in DOMAIN prefer : prefer[i].provider = p /\ prefer[i].id \in Free(p)}
          <6> HIDE DEF asked, Free, prefer, p
          <6> QED BY <5>1 DEF prefer
        <5>4. \A i : prefer[i].id \in Free(p) <=> \E e \in Offers(p) : e.id = prefer[i].id
          <6> HIDE DEF Open, Offers, prefer, p
          <6> QED BY <5>2
        <5> HIDE DEF Open, Offers, prefers, prefer, p, Free
        <5> QED BY <5>3, <5>4 DEF hits
      <4>2. n = PreferHit(p, Offers(p), prefer)
        <5>1. k.preferN = PreferHit(p, Offers(p), w.cfg.prefer)
          BY <2>8 DEF PickOf
        <5> QED BY <2>3, <5>1
      <4>3. \/ hits = {} /\ n = 0
            \/ hits # {} /\ n \in hits /\ n > 0 /\ \A m \in hits : n <= m
        <5> HIDE DEF Offers, prefer, p, n
        <5> QED BY <2>13, <4>2, PreferHitIs DEF hits
      <4>4. n \in hits /\ \A m \in hits : n <= m
        <5> HIDE DEF hits, prefers, n
        <5> QED BY <2>14, <4>1, <4>3
      <4>5. prefer[n].provider = p
        BY <4>4
      <4> HIDE DEF hits, prefers, n, prefer, p
      <4> QED BY <4>1, <4>4, <4>5
    <3>2. CASE ~req.given
      <4>1. prefers = HitsOf(req, w)
        <5>1. asked = {q \in Catalogued : q \notin cfg.disabled /\ (req.harness # "unnamed" => q \in Drives(req.harness))}
          BY <3>2
        <5>2. \A q : q \in asked <=> Fits(q, req.harness, cfg)
          <6> HIDE DEF cfg, asked
          <6> QED BY <5>1 DEF Fits
        <5>3. ASSUME NEW i
              PROVE  prefer[i].provider \in asked =>
                       (prefer[i].id \in Free(prefer[i].provider)
                          <=> \E e \in Offers(prefer[i].provider) : e.id = prefer[i].id)
          <6> DEFINE q == prefer[i].provider
                     id == prefer[i].id
          <6>1. q \in asked => Open(q) = Offers(q)
            <7>1. q \in asked => q \in Catalogued
              BY <5>2 DEF Fits
            <7> HIDE DEF q, asked, Open, Offers
            <7> QED BY <2>6, <7>1
          <6> HIDE DEF q, id, asked, Open, Offers
          <6>2. q \in asked => (id \in Free(q) <=> \E e \in Offers(q) : e.id = id)
            BY <6>1
          <6> QED BY <6>2 DEF q, id
        <5>4. HitsOf(req, w) = {i \in DOMAIN prefer : /\ Fits(prefer[i].provider, req.harness, cfg)
                                                      /\ \E e \in Offers(prefer[i].provider) : e.id = prefer[i].id}
          <6>1. HitsOf(req, w) = {i \in DOMAIN w.cfg.prefer :
                    /\ Fits(w.cfg.prefer[i].provider, req.harness, w.cfg)
                    /\ \E e \in Offers(w.cfg.prefer[i].provider) : e.id = w.cfg.prefer[i].id}
            BY DEF HitsOf, AutoHits, Choices
          <6> HIDE DEF Offers
          <6> QED BY <2>3, <6>1
        <5>5. prefers = {i \in DOMAIN prefer : prefer[i].provider \in asked
                                               /\ prefer[i].id \in Free(prefer[i].provider)}
          <6> HIDE DEF asked, Free
          <6> QED OBVIOUS
        <5> HIDE DEF asked, Free, Offers, prefer, prefers, cfg
        <5> QED BY <5>2, <5>3, <5>4, <5>5
      <4>2. FirstPreferred(req, w, k)
        <5> HIDE DEF prefers
        <5> QED BY <2>8, <2>14, <3>2, <4>1
      <4>3. /\ n \in HitsOf(req, w) /\ w.cfg.prefer[n].provider = k.provider
            /\ \A m \in HitsOf(req, w) : n <= m
        BY <4>2 DEF FirstPreferred
      <4>4. k.provider = p
        BY <2>8 DEF PickOf
      <4>5. prefer[n].provider = p
        BY <2>3, <4>3, <4>4
      <4> HIDE DEF prefers, n, prefer, p
      <4> QED BY <4>1, <4>3, <4>5
    <3> QED BY <3>1, <3>2
  <2>15. ASSUME prefers # {}
         PROVE  \E i \in prefers : /\ \A m \in prefers : i <= m
                                   /\ runsAt(prefer[i].provider, prefer[i].id)
    <3>1. n \in prefers /\ prefer[n].provider = p /\ \A m \in prefers : n <= m
      BY <2>14, <2>15
    <3>2. n > 0
      <4>1. n \in DOMAIN prefer
        BY <3>1
      <4> HIDE DEF n, prefer
      <4> QED BY <2>13, <4>1
    <3>3. runsAt(prefer[n].provider, prefer[n].id)
      <4> HIDE DEF n, prefer, p
      <4> QED BY <2>11, <2>12, <3>1, <3>2
    <3> HIDE DEF n, prefer, prefers, runsAt
    <3> QED BY <3>1, <3>3
  <2>16. child.provider \notin cfg.disabled
    BY <2>5
  <2> HIDE DEF Open, prefers, runsAt, p, h, n
  <2> QED BY <2>7, <2>10, <2>15, <2>16
<1> QED BY <1>1, LaunchInvariant, PTL

(* The id that was looked up is the id that is run.                        *)
LEMMA QualifiedAgain ==
  ASSUME NEW T, NEW m \in Seq(T), Len(m) > 1
  PROVE  <<Head(m)>> \o Tail(m) = m
<1>1. Len(m) \in Nat /\ 1 \in 1..Len(m) /\ Len(m) \in 1..Len(m)
  BY LenProperties
<1>2. SubSeq(m, 1, Len(m)) = <<m[1]>> \o SubSeq(m, 2, Len(m))
  BY <1>1, SubSeqRecursiveFirst
<1>3. SubSeq(m, 1, Len(m)) = m
  BY SubSeqFull
<1>4. Tail(m) = SubSeq(m, 2, Len(m)) /\ Head(m) = m[1]
  <2>1. m # << >>
    BY <1>1
  <2> QED BY <2>1, TailIsSubSeq
<1> QED BY <1>2, <1>3, <1>4

LEMMA NormalIsSeq ==
  ASSUME NEW p, NEW h, NEW m \in Ids
  PROVE  \E T : NormalizeModel(p, h, m) \in Seq(T)
<1> DEFINE one == p = "zen" /\ h = "opencode" /\ Len(m) = 1 /\ m # Selector
           two == p = "openrouter" /\ h = "claude-code" /\ Qualified(p, m) /\ Len(m) > 2
           q   == <<Qualifier(p)>> \o m
           S   == STRING \union {Qualifier(p)}
           k   == NormalizeModel(p, h, m)
<1>1. k = CASE one -> q [] two -> Tail(m) [] OTHER -> m
  BY DEF NormalizeModel
<1>2. m \in Seq(STRING)
  BY DEF Ids
<1>3. q \in Seq(S)
  <2>1. m \in Seq(S)
    <3>1. Len(m) \in Nat /\ m \in [1..Len(m) -> STRING]
      BY <1>2, LenProperties
    <3>2. \A i \in 1..Len(m) : m[i] \in S
      BY <3>1
    <3>3. m \in [1..Len(m) -> S]
      <4> HIDE DEF S
      <4> QED BY <3>1, <3>2
    <3> HIDE DEF S
    <3> QED BY <3>1, <3>3, IsASeq
  <2>2. <<Qualifier(p)>> \in Seq(S)
    OBVIOUS
  <2> HIDE DEF S
  <2> QED BY <2>1, <2>2
<1>4. two => Tail(m) \in Seq(STRING)
  <2>1. two => m # << >>
    BY <1>2
  <2> HIDE DEF two
  <2> QED BY <1>2, <2>1, HeadTailProperties
<1>5. ~one \/ ~two
  OBVIOUS
<1> HIDE DEF one, two, q, k, S
<1>6. (one => k = q) /\ (two => k = Tail(m)) /\ (~one /\ ~two => k = m)
  BY <1>1, <1>5
<1> QED BY <1>2, <1>3, <1>4, <1>6 DEF k

LEMMA LookedUpIsRun ==
  ASSUME NEW p \in Catalogued, NEW h \in Harnesses, p \in Drives(h), NEW T, NEW model \in Seq(T), NEW U, NEW def \in Seq(U),
         NEW e \in Entries, e.provider = p, e.id = BareID(p, h, OrDefault(model, def)),
         OrDefault(model, def) # None, ModelFormOK(p, h, model), DefaultModelOK(p, def) \/ ~Qualified(p, def)
  PROVE  RunsOf(p, h, model, def) = HarnessFormID(p, h, e.id)
<1> DEFINE m == OrDefault(model, def)
<1>1. CASE h \notin Qualifying
  BY <1>1 DEF RunsOf, BareID, HarnessFormID
<1>2. CASE h \in Qualifying /\ model # None
  <2>1. m = model /\ Qualified(p, model)
    BY <1>2 DEF OrDefault, ModelFormOK
  <2>2. e.id = Tail(model)
    BY <1>2, <2>1 DEF BareID, StripQualifier
  <2>3. Len(model) > 1 /\ Head(model) = Qualifier(p)
    BY <2>1 DEF Qualified
  <2>4. <<Head(model)>> \o Tail(model) = model
    BY <2>3, QualifiedAgain
  <2>5. HarnessFormID(p, h, e.id) = <<Qualifier(p)>> \o e.id
    BY <1>2 DEF HarnessFormID
  <2>6. RunsOf(p, h, model, def) = model
    BY <1>2 DEF RunsOf, HarnessModel
  <2> QED BY <2>2, <2>3, <2>4, <2>5, <2>6
<1>3. CASE h \in Qualifying /\ model = None
  <2>1. m = def
    BY <1>3 DEF OrDefault
  <2>2. ~Qualified(p, def)
    <3>1. ASSUME Qualified(p, def), p = "openrouter", Len(def) = 2
          PROVE  FALSE
      <4>1. e.id = Tail(def)
        BY <1>3, <2>1, <3>1 DEF BareID, StripQualifier
      <4>2. Len(e.id) = 2
        BY <3>1 DEF Entries
      <4>3. Len(Tail(def)) = 1
        <5>1. def # << >>
          BY <3>1
        <5>2. Len(Tail(def)) = Len(def) - 1
          BY <5>1, HeadTailProperties
        <5> QED BY <3>1, <5>2
      <4>4. Len(Tail(def)) = 2
        BY <4>1, <4>2, Zenon
      <4>5. 2 = 1
        BY <4>3, <4>4, Zenon
      <4> QED BY <4>5
    <3> QED BY <3>1 DEF DefaultModelOK
  <2>3. e.id = def
    BY <1>3, <2>1, <2>2 DEF BareID, StripQualifier
  <2> QED BY <1>3, <2>3 DEF RunsOf, HarnessModel
<1> QED BY <1>1, <1>2, <1>3

(* A default model never carries its provider's qualifier where free       *)
(* models are kept out.                                                    *)
LEMMA DefaultIsBare ==
  ASSUME NEW p \in Catalogued, NEW cfg \in Configs, configured(p, cfg) => DefaultModelOK(p, defaultModel(p, cfg))
  PROVE  LET def == defaultModel(p, cfg)
         IN  (\E U : def \in Seq(U)) /\ (DefaultModelOK(p, def) \/ ~Qualified(p, def))
<1>1. CASE configured(p, cfg)
  <2>1. defaultModel(p, cfg) = cfg.default[p] /\ p \in Providers
    BY <1>1 DEF defaultModel, configured
  <2>2. cfg.default[p] \in Seq(STRING)
    BY <2>1 DEF Configs, Ids
  <2> QED BY <1>1, <2>1, <2>2
<1>2. CASE ~configured(p, cfg)
  <2>1. defaultModel(p, cfg) = TableDefault(p)
    BY <1>2 DEF defaultModel
  <2>2. TableDefault(p) = << >> \/ \E x : TableDefault(p) = <<x>>
    BY DEF TableDefault, Catalogued, None
  <2>3. \E U : TableDefault(p) \in Seq(U)
    <3>1. << >> \in Seq(STRING)
      OBVIOUS
    <3>2. \A x : <<x>> \in Seq({x})
      OBVIOUS
    <3> QED BY <2>2, <3>1, <3>2
  <2>4. ~Qualified(p, TableDefault(p))
    <3> DEFINE def == TableDefault(p)
    <3>1. Len(<< >>) = 0 /\ \A x : Len(<<x>>) = 1
      OBVIOUS
    <3>2. Len(def) = 0 \/ Len(def) = 1
      <4>1. CASE TableDefault(p) = << >>
        BY <3>1, <4>1
      <4>2. CASE \E x : TableDefault(p) = <<x>>
        BY <3>1, <4>2
      <4> QED BY <2>2, <4>1, <4>2
    <3> HIDE DEF def
    <3>3. ~Qualified(p, def)
      BY <3>2 DEF Qualified
    <3> QED BY <3>3 DEF def
  <2> QED BY <2>1, <2>3, <2>4
<1> QED BY <1>1, <1>2

(* A tree free models are kept out of never gets one, however the model    *)
(* was chosen, named, defaulted or spelt (checkModel, modelAllowed, free). *)
THEOREM FreeIsKeptOut == LaunchSpec => []FreeStaysOut
<1>1. ASSUME LaunchInv
      PROVE  FreeStaysOut
  <2> SUFFICES ASSUME Ran, parent.cfg.denied, child.provider \in Catalogued, child.cfg.default = parent.cfg.default
               PROVE  LET c == parent.cat[child.provider]
                      IN  \E e \in c.net \union c.cached :
                              /\ child.runs = HarnessFormID(child.provider, child.harness, e.id)
                              /\ ~e.free
    BY DEF FreeStaysOut
  <2>1. PICK w : LaunchedOn(w)
    BY <1>1 DEF LaunchInv, Deciding, Ran
  <2>2. parent.code = 0 /\ req \in Requests /\ w \in Worlds /\ world \in Worlds
    BY <1>1, <2>1 DEF LaunchInv, Deciding, Asking, Ran, LaunchedOn
  <2> DEFINE o == parent
             a == AskedOf(req, w, FALSE)
             p == o.provider
             h == o.harness
             model == o.model
             def == defaultModel(p, w.cfg)
             m == OrDefault(model, def)
             chk == CheckFor(req, w, FALSE)
             c == w.cat[p]
  <2>3. o.cfg = w.cfg /\ o.cat = w.cat /\ h \in Harnesses /\ p \in Drives(h)
    BY <2>1, <2>2, AcceptedPlaces DEF LaunchedOn
  <2>4. child.provider = p /\ child.harness = h /\ p \in Catalogued
    BY <1>1, RoundPlaces DEF Ran
  <2>5. w.cfg \in Configs /\ c \in CatalogueStates
    BY <2>2, <2>4 DEF Worlds
  <2>6. o = OutsourceMain(req, w, FALSE)
    BY <2>1 DEF LaunchedOn
  <2>7. NamedRound(req, w, o)
    <3>1. NamedRound(req, w, o) \/ PickedRound(req, w, o)
      BY <2>2, <2>6, AcceptedIs
    <3>2. ~PickedRound(req, w, o)
      BY <2>3 DEF PickedRound
    <3> QED BY <3>1, <3>2
  <2>8. Decides(req, w, FALSE, o)
    BY <2>6, DecisionIs
  <2>9. /\ EarlyPasses(req, w, FALSE, a)
        /\ LatePasses(req, w, FALSE, a, PickFor(req, w, FALSE), ModelFor(req, w, FALSE), chk)
    <3>1. 0 \notin Codes
      BY DEF Codes
    <3> QED BY <2>2, <2>6, <3>1, DecisionCode
  <2>10. a.provider = p /\ a.harness = h /\ ModelFor(req, w, FALSE) = model /\ SelectorFor(req, w, FALSE) = o.selector
    BY <2>8 DEF Decides
  <2>11. a.default = def
    <3>1. a.default = defaultModel(a.provider, w.cfg)
      BY DEF AskedOf, Asked
    <3> QED BY <2>10, <3>1
  <2>12. /\ configured(p, w.cfg) => DefaultModelOK(p, def)
         /\ m # None /\ ModelFormOK(p, h, model) /\ ~chk.refused
    <3> HIDE DEF a, p, h, model, def, chk
    <3> QED BY <2>9, <2>10, <2>11 DEF EarlyPasses, LatePasses
  <2>13. chk = preflightNamed(p, h, m, w.cfg, c)
    <3>1. chk = named(req, w, FALSE, a, o.selector, m)
      <4>1. chk = named(req, w, FALSE, a, SelectorFor(req, w, FALSE), OrDefault(ModelFor(req, w, FALSE), a.default))
        BY DEF CheckFor
      <4> HIDE DEF a, model, def, chk, o
      <4> QED BY <2>10, <2>11, <4>1
    <3>2. ~o.selector /\ m # None
      BY <2>7, <2>12 DEF NamedRound
    <3> HIDE DEF a, p, h, m, chk
    <3> QED BY <2>4, <2>10, <3>1, <3>2 DEF named
  <2>14. PICK e \in c.net \union c.cached :
            e \in Entries /\ e.provider = p /\ e.id = BareID(p, h, m) /\ ~e.free
    <3>1. w.cfg.denied
      BY <2>3
    <3> HIDE DEF p, h, m, chk, c
    <3> QED BY <2>5, <2>12, <2>13, <3>1, PreflightIs
  <2>15. RunsOf(p, h, model, def) = HarnessFormID(p, h, e.id)
    <3>1. PICK T : model \in Seq(T)
      <4>1. model = NormalizeModel(p, h, seedModel(p, req.model, w))
        BY <2>7 DEF NamedRound
      <4>2. seedModel(p, req.model, w) \in Ids
        BY <2>2 DEF seedModel, Requests, Worlds
      <4> QED BY <4>1, <4>2, NormalIsSeq
    <3> DEFINE cfg == w.cfg
    <3>2. (\E U : def \in Seq(U)) /\ (DefaultModelOK(p, def) \/ ~Qualified(p, def))
      <4>1. def = defaultModel(p, cfg) /\ cfg \in Configs /\ p \in Catalogued
            /\ (configured(p, cfg) => DefaultModelOK(p, defaultModel(p, cfg)))
        BY <2>4, <2>5, <2>12
      <4> HIDE DEF p, def, cfg
      <4> QED BY <4>1, DefaultIsBare
    <3>3. PICK U : def \in Seq(U)
      BY <3>2
    <3>4. /\ e.provider = p /\ e.id = BareID(p, h, OrDefault(model, def))
          /\ OrDefault(model, def) # None
      BY <2>12, <2>14
    <3> HIDE DEF p, h, model, def
    <3> QED BY <2>3, <2>4, <2>12, <2>14, <3>1, <3>2, <3>3, <3>4, LookedUpIsRun
  <2>16. child.runs = RunsOf(p, h, model, def)
    <3>1. o.runs = RunsOf(p, h, model, def)
      <4>1. o.runs = RunsOf(a.provider, a.harness, ModelFor(req, w, FALSE), a.default)
        BY <2>8 DEF Decides
      <4> HIDE DEF a, p, h, model, def
      <4> QED BY <2>10, <2>11, <4>1
    <3>2. CASE ~req.detach
      <4>1. child = o
        BY <1>1, <3>2 DEF LaunchInv, Starting, Ran
      <4> QED BY <3>1, <4>1
    <3>3. CASE req.detach
      <4>1. Repeats(w, world, o, child)
        BY <1>1, <2>1, <3>3, ChildRepeats DEF Ran
      <4>2. child.cfg = world.cfg
        <5>1. child = OutsourceMain(detachArgs(req, parent), world, TRUE)
          BY <1>1, <3>3 DEF LaunchInv, Starting, Ran
        <5>2. Decides(detachArgs(req, parent), world, TRUE, child)
          BY <5>1, DecisionIs
        <5> QED BY <5>2 DEF Decides
      <4>3. child.runs = o.runs
        BY <2>3, <4>1, <4>2 DEF Repeats
      <4> QED BY <3>1, <4>3
    <3> QED BY <3>2, <3>3
  <2>17. parent.cat[child.provider] = c
    BY <2>3, <2>4
  <2> HIDE DEF p, h, model, def, c
  <2> QED BY <2>4, <2>14, <2>15, <2>16, <2>17
<1> QED BY <1>1, LaunchInvariant, PTL

=============================================================================
