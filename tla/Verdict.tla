------------------------------- MODULE Verdict -------------------------------
(***************************************************************************)
(* The exit code of a round whose harness has run: what each arm makes of  *)
(* the evidence its harness left, and what finish adds to it.              *)
(*                                                                         *)
(* Evidence is one record per round.  An answering model is described by   *)
(* its relation to the requested id, which is all the checks look at:      *)
(*   exact      the requested id                                           *)
(*   annotated  the requested id with an annotation (claude-opus-5[1m])    *)
(*   longer     another model whose id begins with the requested one       *)
(*   shorter    an id the requested one begins with                        *)
(*   foreign    any other id                                               *)
(*   synthetic  Claude Code's own lines, flagged as an API error           *)
(*   forged     the synthetic name without the flag                        *)
(***************************************************************************)
EXTENDS Wiring

ExitCredential == 1
ExitUsage == 64
ExitHarnessMissing == 69
ExitModelIdentity == 70
ExitNoMarker == 72
ExitNoToolCalls == 73
ExitTimedOut == 124

Answers == {"exact", "annotated", "longer", "shorter", "foreign", "synthetic", "forged"}
Begins(a) == a \in {"exact", "annotated", "longer"}

Evidences ==
    [bail : Nat, child : Nat, timedOut : BOOLEAN, doc : BOOLEAN, session : BOOLEAN,
     source : {"read", "failed", "garbled", "elsewhere"}, answers : SUBSET Answers, echo : SUBSET Answers,
     status : {"none", "SUCCESS", "CANCELED"}, hook : BOOLEAN, tools : {"some", "zero", "damaged", "unreadable"},
     report : {"none", "marker", "other"}, plain : BOOLEAN, quoted : BOOLEAN]

\* Evidence of a round in which nothing went wrong; the other evidence a run
\* looks at is this with some fields replaced.
Clean ==
    [bail |-> 0, child |-> 0, timedOut |-> FALSE,
     doc |-> TRUE, session |-> TRUE, source |-> "read",
     answers |-> {"exact"}, echo |-> {"exact"}, status |-> "SUCCESS",
     hook |-> FALSE, tools |-> "some",
     report |-> "marker", plain |-> FALSE, quoted |-> TRUE]

(***************************************************************************)
(* The identity assertion of each arm.  actual is what model_actual= gets. *)
(***************************************************************************)
Says(verdict, actual) == [verdict |-> verdict, actual |-> actual]

\* claude-code: the transcript's assistant lines; with none, the log's
\* modelUsage keys, which only echo the request and so can refuse a round but
\* never clear one.
transcript(ev) == ev.doc /\ ev.session /\ ev.source = "read"
spoken(ev) == IF transcript(ev) THEN ev.answers \ {"synthetic"} ELSE {}

(* Mutant of analyzeRun: the echo of the request clears the round. *)
analyzeRunTrustsEcho(ev) ==
    LET answered == IF spoken(ev) # {} THEN spoken(ev) ELSE ev.echo
    IN  IF ~ev.doc \/ answered = {} THEN Says("absent", {})
        ELSE Says(IF \A a \in answered : Begins(a) THEN "ok" ELSE "mismatch", answered)

analyzeRun(ev) ==
    LET said     == spoken(ev)
        answered == IF said # {} THEN said ELSE ev.echo
    IN  CASE ~ev.doc                                        -> Says("unreadable", {})
          [] ev.doc /\ answered = {}                        -> Says("absent", {})
          [] ev.doc /\ answered # {} /\ (\E a \in answered : ~Begins(a))
                                                            -> Says("mismatch", answered)
          [] OTHER -> Says(IF said = {} THEN "unverifiable" ELSE "ok", answered)

\* opencode: every assistant message of the exported session, after the
\* session's own directory.
parseOpencodeExport(ev) ==
    CASE ev.source \in {"failed", "garbled"}                -> Says("absent", {})
      [] ev.source = "elsewhere"                            -> Says("wrongdir", {})
      [] ev.source = "read" /\ ev.answers = {}              -> Says("absent", {})
      [] ev.source = "read" /\ ev.answers = {"exact"}       -> Says("ok", {"exact"})
      [] OTHER -> Says("mismatch", ev.answers \ {"exact"})

\* agy: the requested slug anywhere in the trajectory clears the round; else a
\* slug of another family refuses it; else the stream's echo of the request.
assertAgyIdentity(ev) ==
    LET found   == IF ev.source = "read" THEN ev.answers ELSE {}
        foreign == found \ {"exact", "annotated", "longer", "shorter"}
    IN  CASE "exact" \in found                              -> Says("ok", {"exact"})
          [] "exact" \notin found /\ foreign # {}           -> Says("mismatch", foreign)
          [] "exact" \notin found /\ foreign = {} /\ ev.echo = {"exact"}
                                                            -> Says("ok", {"exact"})
          [] "exact" \notin found /\ foreign = {} /\ ev.echo \notin {{}, {"exact"}}
                                                            -> Says("mismatch", ev.echo)
          [] OTHER -> Says("absent", {})

\* muse: every model_completed event of the exported session.
assertMuseIdentity(ev) ==
    CASE ~ev.session \/ ev.source # "read" \/ ev.answers = {} -> Says("absent", {})
      [] ev.session /\ ev.source = "read" /\ ev.answers # {} ->
             Says(IF ev.answers = {"exact"} THEN "ok" ELSE "mismatch", ev.answers)

(***************************************************************************)
(* The arms: the exit code, the assertion's verdict ("skipped" when none   *)
(* was made) and what model_actual= gets.                                  *)
(***************************************************************************)
\* Without --log the harness writes to the null device and nothing is read back.
seen(log, ev) ==
    IF log THEN ev
    ELSE [ev EXCEPT !.doc = FALSE, !.session = FALSE, !.status = "none", !.echo = {}]

Ends(rc, verdict, actual) == [rc |-> rc, verdict |-> verdict, actual |-> actual]

\* The shape all arms share: a bail, the timeout, the harness's own failure, and
\* then, for a round that ended well and has a log, the assertion.
Judge(log, ev, rc, says, actual) ==
    CASE ev.bail # 0                            -> Ends(ev.bail, "skipped", {})
      [] ev.bail = 0 /\ ev.timedOut             -> Ends(ExitTimedOut, "skipped", {})
      [] ev.bail = 0 /\ ~ev.timedOut /\ (rc # 0 \/ ~log) -> Ends(rc, "skipped", actual)
      [] OTHER -> Ends(IF says.verdict = "ok" THEN 0 ELSE ExitModelIdentity, says.verdict, says.actual)

Ok(says) == Says(says.verdict, IF says.verdict \in {"ok", "mismatch"} THEN says.actual ELSE {})

\* Only this arm tells what answered a failed round, and an echo when that is all
\* there is.
runClaudeCode(log, ev) == Judge(log, ev, ev.child, analyzeRun(ev), analyzeRun(ev).actual)

runOpencode(log, ev) ==
    Judge(log, ev, ev.child, IF ev.session THEN Ok(parseOpencodeExport(ev)) ELSE Says("absent", {}), {})

\* agy exits 0 for rounds its own result event calls failed.
runAgy(log, ev) ==
    LET rc == IF ev.child = 0 /\ ev.status \notin {"none", "SUCCESS"} THEN 1 ELSE ev.child
    IN  Judge(log, ev, rc, IF ev.session THEN Ok(assertAgyIdentity(ev)) ELSE Says("absent", {}), {})

runMuse(log, ev) == Judge(log, ev, ev.child, Ok(assertMuseIdentity(ev)), {})

\* crush leaves nothing to assert an identity with.
runCrush(log, ev) == Judge(FALSE, ev, ev.child, Says("skipped", {}), {})

arm(h, log, ev) ==
    CASE h = "claude-code" -> runClaudeCode(log, ev)
      [] h = "crush"       -> runCrush(log, ev)
      [] h = "opencode"    -> runOpencode(log, ev)
      [] h = "agy"         -> runAgy(log, ev)
      [] h = "muse"        -> runMuse(log, ev)

(***************************************************************************)
(* finish                                                                  *)
(***************************************************************************)
\* The last line of the final report is the marker.  Only a plain crush log has
\* no report to look at, and then the marker anywhere in the log counts.
markerVerdict(h, ev) ==
    \/ ev.report = "marker"
    \/ /\ h = "crush"
       /\ ev.report = "none" \/ ev.plain
       /\ ev.quoted

\* The trail tools are counted in: the transcript the identity check located,
\* unless it fell back to modelUsage, else the one the SessionStart hook put on
\* record.
trailKnown(ev) ==
    \/ ev.hook
    \/ ~ev.timedOut /\ transcript(ev) /\ (spoken(ev) # {} \/ ev.echo = {})

(* Mutant of toolCalls: a damaged transcript's count is taken for whole. *)
toolCallsOfWhatIsLeft(h, ev, allowed) ==
    IF h # "claude-code" THEN "uncounted"
    ELSE IF ~trailKnown(ev) \/ ev.tools = "unreadable" THEN "unknown"
    ELSE IF ev.tools = "some" THEN "some"
    ELSE IF allowed THEN "allowed" ELSE "zero"

toolCalls(h, ev, allowed) ==
    CASE h # "claude-code"                                    -> "uncounted"
      [] h = "claude-code" /\ (~trailKnown(ev) \/ ev.tools = "unreadable") -> "unknown"
      [] h = "claude-code" /\ trailKnown(ev) /\ ev.tools = "damaged"       -> "partial"
      [] h = "claude-code" /\ trailKnown(ev) /\ ev.tools = "some"          -> "some"
      [] OTHER -> IF allowed THEN "allowed" ELSE "zero"

\* The codes do not stack: each later check looks at a round still at 0.
finish(h, log, marker, allowed, evidence) ==
    LET ev     == seen(log, evidence)
        said   == arm(h, log, ev)
        looked == ev.bail = 0 /\ log /\ marker
        rc1    == IF looked /\ said.rc = 0 /\ ~markerVerdict(h, ev) THEN ExitNoMarker ELSE said.rc
        calls  == IF ev.bail = 0 THEN toolCalls(h, ev, allowed) ELSE "uncounted"
        rc2    == IF rc1 = 0 /\ calls = "zero" THEN ExitNoToolCalls ELSE rc1
    IN  [rc       |-> rc2,
         sentinel |-> ev.bail = 0 /\ log,
         marker   |-> IF ~looked THEN "unasked" ELSE IF markerVerdict(h, ev) THEN "found" ELSE "absent",
         tools    |-> calls,
         identity |-> said.verdict,
         actual   |-> said.actual]
==============================================================================
