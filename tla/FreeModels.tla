----------------------------- MODULE FreeModels -----------------------------
(***************************************************************************)
(* What the launcher takes from a catalogue: the pick of --model free, the *)
(* check of a model named by the caller, and the answer the launching      *)
(* process hands to its --detach child.                                    *)
(*                                                                         *)
(* A catalogue entry is a record                                           *)
(*   [provider, id, free, router, tools, expires, active, ctx, policy]     *)
(* with expires one of "none", "future", "past", "garbled".  What the      *)
(* catalogue of one provider holds is a record of what the network offers, *)
(* what is cached and how old that is; cfg is the user's configuration.    *)
(***************************************************************************)
EXTENDS Wiring

CONSTANTS
    MinFreeContext,  \* minFreeContext, in the units of an entry's ctx
    IdRank           \* a model id's place in alphabetical order

Policies == {"trains", "retains", "unknown", "no-train-no-retain"}

\* What a listing can hold.
Ids == Seq(STRING)
Entries ==
    {e \in [provider : STRING, id : DOMAIN IdRank, free : BOOLEAN, router : BOOLEAN, tools : BOOLEAN,
            expires : {"none", "future", "past", "garbled"}, active : BOOLEAN, ctx : Nat, policy : Policies] :
        /\ e.provider = "openrouter" => Len(e.id) = 2
        /\ e.provider = "zen" => Len(e.id) = 1}
Listings == {s \in SUBSET Entries : IsFiniteSet(s)}

ASSUME FreeModelsConstants ==
    /\ MinFreeContext \in Nat \ {0}
    /\ DOMAIN IdRank \subseteq Ids /\ IdRank \in [DOMAIN IdRank -> Nat]

\* The tag of the first check that fails, pass when none does.
FirstFailing(checks, pass) ==
    LET failing == {i \in DOMAIN checks : checks[i][1]}
    IN  IF failing = {} THEN pass
        ELSE checks[CHOOSE i \in failing : \A j \in failing : i <= j][2]

(***************************************************************************)
(* A catalogue read.                                                       *)
(***************************************************************************)
Unloaded == [from |-> "nowhere", err |-> TRUE, entries |-> {}]

\* A fresh cache that parses is used without a request unless refresh; else the
\* network; else any cache that parses, with the failure beside it.
loadCached(c, refresh) ==
    CASE c.off                                            -> Unloaded
      [] ~c.off /\ ~refresh /\ c.cache = "fresh"          -> [from |-> "cache", err |-> FALSE, entries |-> c.cached]
      [] ~c.off /\ (refresh \/ c.cache # "fresh") /\ c.up -> [from |-> "network", err |-> FALSE, entries |-> c.net]
      [] OTHER -> IF c.cache = "none" THEN Unloaded
                  ELSE [from |-> "cache", err |-> TRUE, entries |-> c.cached]

Loaded(src) == src.from # "nowhere"

(***************************************************************************)
(* --model free                                                            *)
(***************************************************************************)
(* Mutant of freeDrop: a date nobody can read counts as no date. *)
freeDropKeepsGarbled(p, e, allowMapped) ==
    FirstFailing(<< <<~e.free, "not free">>,
                    <<e.router, "a router">>,
                    <<~e.tools, "no tools">>,
                    <<e.expires = "past", "listing expired">>,
                    <<~e.active, "withdrawn">>,
                    <<e.ctx < MinFreeContext, "small context">>,
                    <<AnsweredBy(p, e.id, allowMapped) # None, "answered by another model">> >>,
                 "keep")

freeDrop(p, e, allowMapped) ==
    FirstFailing(<< <<~e.free, "not free">>,
                    <<e.router, "a router">>,
                    <<~e.tools, "no tools">>,
                    <<e.expires \in {"past", "garbled"}, "listing expired">>,
                    <<~e.active, "withdrawn">>,
                    <<e.ctx < MinFreeContext, "small context">>,
                    <<AnsweredBy(p, e.id, allowMapped) # None, "answered by another model">> >>,
                 "keep")

Allowed(e, allow) == allow \/ e.policy = "no-train-no-retain"

Candidates(p, entries, allow, allowMapped) ==
    {e \in entries : e.provider = p /\ freeDrop(p, e, allowMapped) = "keep" /\ Allowed(e, allow)}

\* Best first: the configured default, then the table's order, then the larger
\* window, then the id.
tableRank(p, id) ==
    IF RowsOf(p, id) = {} THEN Len(ModelRows) + 1
    ELSE CHOOSE i \in RowsOf(p, id) : \A j \in RowsOf(p, id) : i <= j

RankedBefore(p, cfgDefault, a, b) ==
    LET isDefault(e) == e.id = cfgDefault
    IN  IF isDefault(a) # isDefault(b) THEN isDefault(a)
        ELSE IF tableRank(p, a.id) # tableRank(p, b.id) THEN tableRank(p, a.id) < tableRank(p, b.id)
        ELSE IF a.ctx # b.ctx THEN a.ctx > b.ctx
        ELSE IdRank[a.id] < IdRank[b.id]

rankFree(p, cands, cfgDefault) ==
    CHOOSE e \in cands : \A o \in cands : ~RankedBefore(p, cfgDefault, o, e)

\* The first entry of free.prefer that is a candidate; 0 when none is.
PreferHit(p, cands, prefer) ==
    LET hits == {n \in DOMAIN prefer : prefer[n].provider = p /\ \E e \in cands : e.id = prefer[n].id}
    IN  IF hits = {} THEN 0 ELSE CHOOSE n \in hits : \A m \in hits : n <= m

NoPick == [found |-> FALSE, provider |-> "nobody", model |-> None, ctx |-> 0, preferN |-> 0, id |-> None]

resolveFree(p, h, cfg, c, allowTraining, allowMapped) ==
    LET src   == loadCached(c, FALSE)
        cands == Candidates(p, src.entries, allowTraining \/ cfg.allowTraining, allowMapped)
        n     == PreferHit(p, cands, cfg.prefer)
        best  == IF n > 0 THEN CHOOSE e \in cands : e.id = cfg.prefer[n].id
                 ELSE rankFree(p, cands, cfg.default[p])
    IN  IF p \notin Catalogued \/ cfg.denied \/ ~Loaded(src) \/ cands = {} THEN NoPick
        ELSE [found |-> TRUE, provider |-> p, id |-> best.id, ctx |-> best.ctx, preferN |-> n,
              model |-> HarnessFormID(p, h, best.id)]

\* With no provider named, free.prefer chooses that too: of the providers it
\* names, the one whose own pick stands earliest in the list.
resolveFreeAuto(h, cfg, cat, allowTraining, allowMapped) ==
    LET fit   == {p \in Catalogued : /\ \E n \in DOMAIN cfg.prefer : cfg.prefer[n].provider = p
                                     /\ p \notin cfg.disabled
                                     /\ h # "unnamed" => p \in Drives(h)}
        picks == {resolveFree(p, DefaultHarness(p, h), cfg, cat[p], allowTraining, allowMapped) : p \in fit}
        hits  == {k \in picks : k.found /\ k.preferN > 0}
    IN  IF hits = {} THEN NoPick
        ELSE CHOOSE k \in hits : \A o \in hits : k.preferN <= o.preferN

(***************************************************************************)
(* A model the caller named                                                *)
(***************************************************************************)
Checked(refusal, found, ctx) == [refused |-> refusal # "accepted", why |-> refusal, found |-> found, ctx |-> ctx]

(* Mutant of skipped: the network's silence opens a denied tree. *)
skippedOpens(cfg) == Checked("accepted", FALSE, 0)

\* The catalogue cannot answer: the round goes on with a note, except in a tree
\* free models are kept out of, where nobody can tell whether the id is free.
skipped(cfg) == Checked(IF cfg.denied THEN "cannot tell" ELSE "accepted", FALSE, 0)

Listing(src, p, bare) == {e \in src.entries : e.provider = p /\ e.id = bare}

checkEntry(e, cfg) ==
    Checked(FirstFailing(<< <<e.router, "router">>,
                            <<~e.tools, "no tools">>,
                            <<e.expires = "past", "expired">>,
                            <<e.free /\ cfg.denied, "denied">> >>, "accepted"),
            TRUE, e.ctx)

preflightNamed(p, h, model, cfg, c) ==
    LET bare   == BareID(p, h, model)
        first  == loadCached(c, FALSE)
        \* A cache from within the hour can predate a new id: ask once more.
        again  == Listing(first, p, bare) = {} /\ first.from = "cache" /\ ~first.err
        second == loadCached(c, TRUE)
        asked  == again /\ Loaded(second)
        src    == IF asked THEN second ELSE first
        rows   == Listing(src, p, bare)
    IN  IF ~Loaded(first) THEN skipped(cfg)
        ELSE IF rows # {} THEN checkEntry(CHOOSE e \in rows : TRUE, cfg)
        \* A stale cache's silence about an id proves nothing.
        ELSE IF src.err /\ ~asked THEN skipped(cfg)
        ELSE Checked("not in the catalogue", FALSE, 0)

(***************************************************************************)
(* The handoff to the --detach child                                       *)
(***************************************************************************)
NoHandoff == [given |-> FALSE, selector |-> FALSE, ctx |-> 0]

(* Mutant of detachArgs: the provider the pick chose stays behind. *)
detachArgsWithoutProvider(req, o) ==
    [req EXCEPT !.detach = FALSE,
                !.model = IF o.selector THEN o.model ELSE @,
                !.handoff = IF o.selector \/ o.ctx > 0
                            THEN [given |-> TRUE, selector |-> o.selector, ctx |-> o.ctx]
                            ELSE NoHandoff]

\* The child's argv: the caller's, with the pick in the place of free and the
\* provider the pick chose, plus the handoff when there is anything in it.
detachArgs(req, o) ==
    [req EXCEPT !.detach = FALSE,
                !.model = IF o.selector THEN o.model ELSE @,
                !.provider = IF o.providerPicked THEN o.provider ELSE @,
                !.given = IF o.providerPicked THEN TRUE ELSE @,
                !.handoff = IF o.selector \/ o.ctx > 0
                            THEN [given |-> TRUE, selector |-> o.selector, ctx |-> o.ctx]
                            ELSE NoHandoff]
==============================================================================
