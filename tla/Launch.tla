------------------------------- MODULE Launch -------------------------------
(***************************************************************************)
(* One launch, from the caller's command line to the round's exit code:    *)
(* the pre-flight checks in their order, the --detach child that repeats   *)
(* them in a process of its own, and the verdict on what the harness did.  *)
(*                                                                         *)
(* Between the parent and its child the catalogue may move and the user    *)
(* may edit the configuration: the child reads the file again, and takes   *)
(* the parent's catalogue answer from one internal flag.                   *)
(***************************************************************************)
EXTENDS Integers, FreeModels, Verdict

CONSTANTS
    Launches,        \* pairs <<request, world>> the runs start from
    Catalogues,      \* what the catalogues may have moved to
    EvidenceFor(_)   \* the evidence a request's round may leave

(***************************************************************************)
(* What a command line, the machine it is typed on and its catalogues can  *)
(* say.  An id of OpenRouter's is <vendor>/<id> and one of Zen's has no    *)
(* slash of its own, which is what normalizeModel tells their forms by.    *)
(***************************************************************************)
Handoffs == {NoHandoff} \union [given : {TRUE}, selector : BOOLEAN, ctx : Nat]

Requests ==
    [provider : STRING, given : BOOLEAN, harness : STRING, model : Ids, effort : STRING, session : BOOLEAN,
     resume : BOOLEAN, detach : BOOLEAN, foreground : BOOLEAN, log : BOOLEAN, marker : STRING,
     image : BOOLEAN, noVisionCheck : BOOLEAN, quota : STRING, maxSeconds : STRING,
     allowTraining : BOOLEAN, allowNoTools : BOOLEAN, handoff : Handoffs]

Configs ==
    [parses : BOOLEAN, disabled : SUBSET Providers, default : [Providers -> Ids],
     prefer : Seq([provider : STRING, id : Ids]), allowTraining : BOOLEAN, denied : BOOLEAN]

CatalogueStates ==
    [off : BOOLEAN, up : BOOLEAN, cache : {"none", "stale", "fresh"}, net : Listings, cached : Listings]

Worlds ==
    [nested : BOOLEAN, tree : BOOLEAN, cfg : Configs, cat : [Catalogued -> CatalogueStates], seed : Ids,
     allowMapped : BOOLEAN, keyMissing : BOOLEAN, configDir : BOOLEAN, onPath : BOOLEAN,
     logOK : BOOLEAN, starts : BOOLEAN]

ASSUME LaunchesTyped == Launches \subseteq Requests \X Worlds
ASSUME CataloguesTyped == Catalogues \subseteq [Catalogued -> CatalogueStates]
ASSUME EvidenceTyped ==
    \A l \in Launches, h \in Harnesses : EvidenceFor([request |-> l[1], harness |-> h]) \subseteq Evidences

VARIABLES req, world, pc, parent, child, ending

launchVars == <<req, world, pc, parent, child, ending>>

ExitVisionRefused == 65
ExitQuotaFloor == 66
ExitNoStart == 69

(***************************************************************************)
(* OutsourceMain: the decision of one process on one command line.         *)
(***************************************************************************)
seedModel(p, model, w) == IF model # None \/ p # "zai" THEN model ELSE w.seed

configured(p, cfg) == p \in Providers /\ cfg.default[p] # None
defaultModel(p, cfg) == IF configured(p, cfg) THEN cfg.default[p] ELSE TableDefault(p)

autoPick(r, w, detached) ==
    IF r.model = Selector /\ ~r.given /\ ~r.session /\ ~detached
    THEN resolveFreeAuto(r.harness, w.cfg, w.cat, r.allowTraining, w.allowMapped)
    ELSE NoPick

\* What a launch is about before a model is found for it.
Asked(r, w, auto) ==
    LET p == IF auto.found THEN auto.provider ELSE r.provider
        h == DefaultHarness(p, r.harness)
    IN  [provider |-> p, harness |-> h, default |-> defaultModel(p, w.cfg), auto |-> auto,
         named |-> NormalizeModel(p, h, seedModel(p, r.model, w))]

pickOf(r, w, detached, c) ==
    IF c.named # Selector \/ r.session \/ detached THEN NoPick
    ELSE IF c.auto.found THEN c.auto
    ELSE IF c.provider \in Catalogued
         THEN resolveFree(c.provider, c.harness, w.cfg, w.cat[c.provider], r.allowTraining, w.allowMapped)
    ELSE NoPick

opencodeCredsMissing(p, h, w) == p = "openrouter" /\ h = "opencode" /\ w.keyMissing

\* The checks of OutsourceMain from first to last, each with its exit code: up
\* to the flags of the chosen harness,
EarlyChecks(r, w, detached, c) ==
    << <<w.nested, ExitUsage>>,
       <<r.handoff.given /\ ~detached, ExitUsage>>,
       <<~w.tree, ExitUsage>>,
       <<c.provider \notin Providers, ExitUsage>>,
       <<~w.cfg.parses, ExitUsage>>,
       <<c.provider \in w.cfg.disabled, ExitUsage>>,
       <<configured(c.provider, w.cfg) /\ ~DefaultModelOK(c.provider, c.default), ExitUsage>>,
       <<Mapped(c.provider, OrDefault(seedModel(c.provider, r.model, w), c.default), w.allowMapped), ExitModelIdentity>>,
       <<c.harness \notin Harnesses, ExitUsage>>,
       <<c.provider \notin Drives(c.harness), ExitUsage>>,
       <<~EffortOK(c.harness, r.effort), ExitUsage>>,
       <<~ResumeOK(c.harness, c.provider, r.resume), ExitUsage>> >>

\* and from the model on, up to the child's start.
LateChecks(r, w, detached, c, pick, model, chk) ==
    << <<c.named = Selector /\ ~pick.found, ExitUsage>>,
       <<OrDefault(model, c.default) = None \/ ~w.configDir, ExitUsage>>,
       <<r.marker = "not in the spec", ExitUsage>>,
       <<~(r.foreground \/ r.detach \/ detached), ExitUsage>>,
       <<~r.noVisionCheck /\ r.image /\ ~ModelVision(c.provider, model, c.default), ExitVisionRefused>>,
       <<r.quota \notin {"none", "ok"} /\ ~detached, ExitQuotaFloor>>,
       <<r.maxSeconds = "bad", ExitUsage>>,
       <<opencodeCredsMissing(c.provider, c.harness, w), ExitCredential>>,
       <<~ModelFormOK(c.provider, c.harness, model), ExitUsage>>,
       <<chk.refused, ExitUsage>>,
       <<r.detach /\ ~w.onPath, ExitHarnessMissing>>,
       <<r.detach /\ ~(r.log /\ w.logOK), ExitUsage>>,
       <<r.detach /\ ~w.starts, ExitNoStart>> >>

\* A model the caller named is looked up; a picked one was found there.
named(r, w, detached, c, selector, model) ==
    IF ~detached /\ ~selector /\ c.provider \in Catalogued /\ model # None
    THEN preflightNamed(c.provider, c.harness, model, w.cfg, w.cat[c.provider])
    ELSE Checked("accepted", FALSE, 0)

Decision(r, w, detached, c, pick, selector, model, chk) ==
    [code           |-> FirstFailing(EarlyChecks(r, w, detached, c),
                                     FirstFailing(LateChecks(r, w, detached, c, pick, model, chk), 0)),
     provider       |-> c.provider,
     providerPicked |-> c.auto.found,
     harness        |-> c.harness,
     model          |-> model,
     runs           |-> IF c.harness \in Qualifying THEN HarnessModel(c.provider, c.harness, model, c.default)
                        ELSE OrDefault(model, c.default),
     selector       |-> selector,
     ctx            |-> IF pick.found THEN pick.ctx
                        ELSE IF chk.found THEN chk.ctx ELSE r.handoff.ctx,
     cfg            |-> w.cfg,
     cat            |-> w.cat]

Decided(r, w, detached, c, pick) ==
    LET model    == IF pick.found THEN pick.model ELSE c.named
        selector == pick.found \/ r.handoff.selector
    IN  Decision(r, w, detached, c, pick, selector, model,
                 named(r, w, detached, c, selector, OrDefault(model, c.default)))

OutsourceMain(r, w, detached) ==
    LET Choose(c) == Decided(r, w, detached, c, pickOf(r, w, detached, c))
    IN  Choose(Asked(r, w, autoPick(r, w, detached)))

NoDecision == [code |-> -1]

LaunchInit ==
    /\ \E l \in Launches : req = l[1] /\ world = l[2]
    /\ pc = "parent"
    /\ parent = NoDecision
    /\ child = NoDecision
    /\ ending = NoDecision

(***************************************************************************)
(* The launching process: it refuses, runs the round itself, or starts the *)
(* child and returns 0.                                                    *)
(***************************************************************************)
outsourceRun ==
    /\ pc = "parent"
    /\ parent' = OutsourceMain(req, world, FALSE)
    /\ pc' = IF parent'.code # 0 THEN "refused" ELSE IF req.detach THEN "detached" ELSE "round"
    /\ child' = IF pc' = "round" THEN parent' ELSE child
    /\ UNCHANGED <<req, world, ending>>

\* The catalogue's offer and caches move on while the child is starting.
CatalogueMoves ==
    /\ pc = "detached"
    /\ \E c \in Catalogues : world' = [world EXCEPT !.cat = c]
    /\ UNCHANGED <<req, pc, parent, child, ending>>

\* The user edits the configuration while the child is starting.
ConfigEdited ==
    /\ pc = "detached"
    /\ world.cfg = parent.cfg
    /\ \/ \E p \in Providers : world' = [world EXCEPT !.cfg.disabled = @ \union {p}]
       \/ world' = [world EXCEPT !.cfg.default = [p \in Providers |-> None]]
       \/ world' = [world EXCEPT !.cfg.denied = TRUE]
    /\ UNCHANGED <<req, pc, parent, child, ending>>

(* Mutant of detachedChild: what the child's checks say is not looked at. *)
detachedChildUnchecked ==
    /\ pc = "detached"
    /\ child' = OutsourceMain(detachArgs(req, parent), world, TRUE)
    /\ pc' = "round"
    /\ UNCHANGED <<req, world, parent, ending>>

\* The child runs the same function over the argv it was handed.
detachedChild ==
    /\ pc = "detached"
    /\ child' = OutsourceMain(detachArgs(req, parent), world, TRUE)
    /\ pc' = IF child'.code # 0 THEN "lost" ELSE "round"
    /\ UNCHANGED <<req, world, parent, ending>>

\* The arm runs its harness and finish writes down what came of it.
roundRun ==
    /\ pc = "round"
    /\ \E ev \in EvidenceFor([request |-> req, harness |-> child.harness]) :
           ending' = [ev     |-> ev,
                      result |-> finish(child.harness, req.log, req.marker # "none", req.allowNoTools, ev)]
    /\ pc' = "done"
    /\ UNCHANGED <<req, world, parent, child>>

LaunchNext == outsourceRun \/ CatalogueMoves \/ ConfigEdited \/ detachedChild \/ roundRun

LaunchSpec == LaunchInit /\ [][LaunchNext]_launchVars
------------------------------------------------------------------------------
(***************************************************************************)
(* Properties                                                              *)
(***************************************************************************)
Ran == pc \in {"round", "done"}
Ended == pc = "done"
result == ending.result

LaunchTypeOK ==
    /\ pc \in {"parent", "refused", "detached", "lost", "round", "done"}
    /\ pc # "parent" => parent.code \in {0, 1} \union 64..70
    /\ pc \notin {"parent", "refused"} => parent.harness \in Harnesses /\ parent.provider \in Providers
    /\ Ran => child.code = 0 /\ child.runs # None /\ (child.runs = Selector => child.model = None)
    /\ Ended => result.rc \in {ending.ev.bail, ending.ev.child, 1, ExitModelIdentity,
                               ExitNoMarker, ExitNoToolCalls, ExitTimedOut}

\* While the configuration stands still, the --detach child accepts what its
\* parent accepted and runs the parent's round: the same model in the harness's
\* form, on the same provider, with the window the parent read, wherever the
\* catalogue has gone meanwhile.  A refusal in the child would reach nobody.
ChildRunsParentsRound ==
    (req.detach /\ pc \in {"lost", "round", "done"} /\ world.cfg = parent.cfg) =>
        /\ child.code = 0
        /\ \A f \in {"provider", "harness", "runs", "selector", "ctx"} : child[f] = parent[f]

\* What a listing entry must be for an automatic pick to take it.
Vetted(p, e, cfg) ==
    /\ e.free /\ ~e.router /\ e.tools /\ e.active
    /\ e.expires \in {"none", "future"}
    /\ e.ctx >= MinFreeContext
    /\ req.allowTraining \/ cfg.allowTraining \/ e.policy = "no-train-no-retain"
    /\ ~Mapped(p, e.id, world.allowMapped)

\* Every round --model free starts runs an id the parent's catalogue offered,
\* that passes every filter and the data policy, outside the denied trees, on a
\* provider the user has not disabled; and no entry of free.prefer that was
\* available stands before it.
PickIsVetted ==
    (Ran /\ child.selector) =>
        LET cfg      == parent.cfg
            Open(q)  == {e \in loadCached(parent.cat[q], FALSE).entries : e.provider = q /\ Vetted(q, e, cfg)}
            Free(q)  == {e.id : e \in Open(q)}
            asked    == IF req.given THEN {child.provider}
                        ELSE {q \in Catalogued : q \notin cfg.disabled /\ (req.harness # "unnamed" => q \in Drives(req.harness))}
            prefers  == {n \in DOMAIN cfg.prefer : cfg.prefer[n].provider \in asked
                                                   /\ cfg.prefer[n].id \in Free(cfg.prefer[n].provider)}
            runsAt(q, id) == child.provider = q /\ child.runs = HarnessFormID(q, child.harness, id)
        IN  /\ ~cfg.denied
            /\ child.provider \notin cfg.disabled
            /\ \E e \in Open(child.provider) : runsAt(child.provider, e.id) /\ child.ctx = e.ctx
            /\ prefers # {} => \E n \in prefers : /\ \A m \in prefers : n <= m
                                                  /\ runsAt(cfg.prefer[n].provider, cfg.prefer[n].id)

\* A tree the user keeps free models out of never gets one, however the model
\* was chosen, named, defaulted or spelt: on a provider with a catalogue the id
\* that runs there was listed with a price, by the network or in the cache: which
\* of the two the launch looked at is not asked.
FreeStaysOut ==
    (Ran /\ parent.cfg.denied /\ child.provider \in Catalogued /\ child.cfg.default = parent.cfg.default) =>
        LET c == parent.cat[child.provider]
        IN  \E e \in c.net \union c.cached :
                /\ child.runs = HarnessFormID(child.provider, child.harness, e.id)
                /\ ~e.free

\* What the harness's own record says answered, the echo of the request aside.
Responded(h, ev) ==
    CASE h = "claude-code"         -> spoken(ev)
      [] h \in {"opencode", "muse"} -> IF ev.session /\ ev.source = "read" THEN ev.answers ELSE {}
      [] h = "agy"                 -> IF ev.source = "read" THEN ev.answers ELSE {}
      [] OTHER                     -> {}

\* Exit 0 with a log claims what it can prove: the harness ended well and in
\* time, no other family of models is on record without the requested one, the
\* report ends with the marker the spec asked for, and a transcript that could
\* be counted whole holds a tool call or the caller excused it.
CleanMeansProven ==
    (Ended /\ req.log /\ result.rc = 0) =>
        LET ev == ending.ev
            h  == child.harness
        IN  /\ ev.bail = 0 /\ ev.child = 0 /\ ~ev.timedOut
            /\ h \in {"claude-code", "opencode", "muse"} =>
                   Responded(h, ev) # {} /\ Responded(h, ev) \intersect {"foreign", "shorter", "forged"} = {}
            /\ h = "agy" => /\ ("foreign" \in Responded(h, ev) => "exact" \in Responded(h, ev))
                            /\ "exact" \in Responded(h, ev) \union ev.echo
                            /\ ev.status \in {"none", "SUCCESS"}
            /\ req.marker # "none" => ev.report = "marker" \/ (h = "crush" /\ ev.quoted)
            /\ (h = "claude-code" /\ ev.tools = "zero") => req.allowNoTools \/ ~trailKnown(ev)

\* A code the launcher adds to a harness that exited 0 names one fault and is
\* earned: no tool count is refused for a file that could not be read whole, no
\* marker and no identity is refused without a log, and the codes do not stack.
AddedCodesAreEarned ==
    (Ended /\ ending.ev.bail = 0 /\ ~ending.ev.timedOut /\ ending.ev.child = 0) =>
        LET ev == ending.ev
            h  == child.harness
        IN  /\ result.rc = ExitNoToolCalls => /\ ev.tools = "zero" /\ ~req.allowNoTools
                                              /\ result.marker # "absent"
                                              /\ result.identity \in {"skipped", "ok"}
            /\ result.rc = ExitNoMarker => /\ req.log /\ req.marker # "none"
                                           /\ ev.report # "marker"
                                           /\ result.identity \in {"skipped", "ok"}
            /\ result.rc = ExitModelIdentity =>
                   /\ req.log /\ h # "crush"
                   /\ Responded(h, ev) # {"exact"} \/ ~ev.session

\* The claude-code arm's own rule: every answering model is the requested id or
\* an annotated variant of it.
AnswererIsRequested ==
    (Ended /\ req.log /\ child.harness = "claude-code" /\ result.rc = 0) =>
        spoken(ending.ev) \subseteq {"exact", "annotated"}
==============================================================================
