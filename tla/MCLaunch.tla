------------------------------ MODULE MCLaunch ------------------------------
(***************************************************************************)
(* The launches TLC looks at.  The request has too many fields for all of  *)
(* their products, so the launches are a union of slices, each varying the *)
(* fields that decide together.                                            *)
(***************************************************************************)
EXTENDS Launch

\* Ids of the two catalogues; step-5-preview-free has a row in the model table.
a == <<"vendor", "a">>
b == <<"vendor", "b">>
r == <<"openrouter", "free">>
x == <<"vendor", "x">>
s == <<"step-5-preview-free">>
z == <<"zen-z">>

MCIdRank == [id \in {a, b, r, x, s, z} |->
    CASE id = r -> 1 [] id = s -> 2 [] id = a -> 3 [] id = b -> 4 [] id = x -> 5 [] OTHER -> 6]

Listed(p, id, ctx, policy) ==
    [provider |-> p, id |-> id, free |-> TRUE, router |-> FALSE, tools |-> TRUE, expires |-> "none",
     active |-> TRUE, ctx |-> ctx, policy |-> policy]

OfferNow ==
    [openrouter |-> {Listed("openrouter", a, 2, "no-train-no-retain"),
                     Listed("openrouter", b, 4, "trains"),
                     [Listed("openrouter", r, 4, "unknown") EXCEPT !.router = TRUE],
                     [Listed("openrouter", x, 3, "no-train-no-retain") EXCEPT !.free = FALSE]},
     zen        |-> {Listed("zen", s, 2, "no-train-no-retain"),
                     Listed("zen", z, 3, "no-train-no-retain")}]

\* Each entry that is kept out of a pick fails one filter only.
OfferThen ==
    [openrouter |-> {[Listed("openrouter", a, 3, "no-train-no-retain") EXCEPT !.expires = "past"],
                     Listed("openrouter", x, 2, "no-train-no-retain"),
                     [Listed("openrouter", b, 4, "no-train-no-retain") EXCEPT !.tools = FALSE]},
     zen        |-> {[Listed("zen", s, 3, "no-train-no-retain") EXCEPT !.active = FALSE],
                     [Listed("zen", z, 3, "no-train-no-retain") EXCEPT !.expires = "garbled"]}]

Catalogue(up, cache, net, cached) ==
    [p \in Catalogued |-> [off |-> FALSE, up |-> up, cache |-> cache, net |-> net[p], cached |-> cached[p]]]

CatNow == Catalogue(TRUE, "stale", OfferNow, OfferThen)
CatOff == [p \in Catalogued |-> [CatNow[p] EXCEPT !.off = TRUE]]
MCCatalogues == {Catalogue(TRUE, "none", OfferThen, OfferThen)}

Cats == {CatOff} \union
        {Catalogue(up, cache, net, cached) : up \in BOOLEAN, cache \in {"none", "stale", "fresh"},
                                             net \in {OfferNow, OfferThen}, cached \in {OfferNow, OfferThen}}

Cfg == [parses |-> TRUE, disabled |-> {}, default |-> [p \in Providers |-> None],
        prefer |-> <<>>, allowTraining |-> FALSE, denied |-> FALSE]
Prefers(p, id) == [provider |-> p, id |-> id]
Defaults(p, id) == [Cfg EXCEPT !.default = [@ EXCEPT ![p] = id]]

World == [nested |-> FALSE, tree |-> TRUE, cfg |-> Cfg, cat |-> CatNow, seed |-> None, allowMapped |-> FALSE,
          keyMissing |-> FALSE, configDir |-> TRUE, onPath |-> TRUE, logOK |-> TRUE, starts |-> TRUE]

Request(p, h, m) ==
    [provider |-> p, given |-> TRUE, harness |-> h, model |-> m, effort |-> "none", session |-> FALSE,
     resume |-> FALSE, detach |-> TRUE, foreground |-> FALSE, log |-> TRUE, marker |-> "in the spec",
     image |-> FALSE, noVisionCheck |-> FALSE, quota |-> "none", maxSeconds |-> "none",
     allowTraining |-> FALSE, allowNoTools |-> FALSE, handoff |-> NoHandoff]

\* 1. Every pairing with every form of an id.
Forms == {None, a, b, r, s, z, Selector, <<"opencode", "zen-z">>, <<"openrouter", "vendor", "x">>,
          <<"zai", "glm-5.2">>, <<"glm-5.2">>, <<"glm-5.3-flash">>, <<"xai", "grok-4.6">>}
Pairings == {<<Request(p, h, m), World>> : p \in Providers \union {"bogus"},
                                           h \in Harnesses \union {"unnamed", "bogus"}, m \in Forms}

\* 2. One thing at a time that a check looks at.
Flags(q) ==
    {[q EXCEPT !.effort = e] : e \in {"high", "bogus"}} \union {[q EXCEPT !.marker = m] : m \in {"none", "not in the spec"}}
    \union {[q EXCEPT !.quota = v] : v \in {"ok", "below", "no plan", "broken"}}
    \union {[q EXCEPT !.maxSeconds = v] : v \in {"ok", "bad"}}
    \union {[q EXCEPT !.image = TRUE, !.noVisionCheck = v] : v \in BOOLEAN}
    \union {[q EXCEPT !.session = TRUE], [q EXCEPT !.resume = TRUE], [q EXCEPT !.log = FALSE],
            [q EXCEPT !.detach = FALSE], [q EXCEPT !.detach = FALSE, !.foreground = TRUE],
            [q EXCEPT !.handoff = [given |-> TRUE, selector |-> TRUE, ctx |-> 3]]}
MCWorlds ==
    {[World EXCEPT !.nested = TRUE], [World EXCEPT !.tree = FALSE], [World EXCEPT !.cfg.parses = FALSE],
     [World EXCEPT !.keyMissing = TRUE], [World EXCEPT !.configDir = FALSE], [World EXCEPT !.onPath = FALSE],
     [World EXCEPT !.logOK = FALSE], [World EXCEPT !.starts = FALSE], [World EXCEPT !.allowMapped = TRUE], [World EXCEPT !.seed = <<"glm-5.2">>],
     [World EXCEPT !.seed = <<"glm-5.3-flash">>]}
    \union {[World EXCEPT !.cfg.disabled = {p}] : p \in Providers}
    \union {[World EXCEPT !.cfg = Defaults(p, m)] : p \in Providers,
               m \in {<<"glm-5.2">>, <<"glm-5.3-flash">>, Selector, a, r, z, <<"opencode", "zen-z">>, <<"openrouter", "vendor", "x">>}}
Defaulted == {Request(p, h, m) : p \in Providers, h \in {"unnamed", "crush", "opencode"}, m \in {None, <<"glm-5.3-flash">>}}
Singly == {<<q, World>> : q \in UNION {Flags(d) : d \in Defaulted}} \union (Defaulted \X MCWorlds)

\* 3. What the catalogue answers against what the user allows.
Rules ==
    {Cfg, [Cfg EXCEPT !.denied = TRUE], [Cfg EXCEPT !.allowTraining = TRUE],
     [Cfg EXCEPT !.prefer = <<Prefers("openrouter", b), Prefers("zen", z), Prefers("openrouter", a), Prefers("zen", s)>>],
     [Cfg EXCEPT !.prefer = <<Prefers("zen", s), Prefers("openrouter", x)>>, !.disabled = {"zen"}],
     Defaults("openrouter", x), Defaults("zen", z), [Defaults("zen", s) EXCEPT !.denied = TRUE],
     [Defaults("openrouter", a) EXCEPT !.denied = TRUE]}
Named == {None, Selector, a, x, r, s, <<"opencode", "zen-z">>, <<"openrouter", "vendor", "x">>}
Catalogue3 == {<<Request(p, "unnamed", m), [World EXCEPT !.cfg = c, !.cat = k]>> :
                   p \in Catalogued, m \in Named, c \in Rules, k \in Cats}
Allowing == {<<[q[1] EXCEPT !.allowTraining = TRUE], q[2]>> : q \in {l \in Catalogue3 : l[1].model = Selector}}

\* 4. --model free with no provider named.
Unnamed == {<<[Request("zai", h, Selector) EXCEPT !.given = FALSE], [World EXCEPT !.cfg = c, !.cat = k]>> :
                h \in {"unnamed", "opencode", "claude-code"}, c \in Rules, k \in Cats}

\* 5. What a harness leaves behind, on every arm.
Judged == {[Request(p, h, None) EXCEPT !.log = l, !.marker = m, !.allowNoTools = t, !.detach = FALSE, !.foreground = TRUE] :
               <<p, h>> \in {<<"zai", "claude-code">>, <<"zai", "crush">>, <<"zen", "opencode">>,
                             <<"agy", "agy">>, <<"muse", "muse">>},
               l \in BOOLEAN, m \in {"none", "in the spec"}, t \in BOOLEAN}

MCLaunches == Pairings \union Singly \union Catalogue3 \union Allowing \union Unnamed \union (Judged \X {World})

Said(h) == IF h = "claude-code" THEN {{}, {"exact"}, {"synthetic"}, {"exact", "synthetic"}, {"exact", "annotated"},
                                      {"exact", "longer"}, {"exact", "foreign"}, {"forged"}, {"shorter"}}
           ELSE IF h = "agy" THEN {{}, {"exact"}, {"exact", "foreign"}, {"longer"}, {"shorter"}, {"foreign"}}
           ELSE {{}, {"exact"}, {"exact", "foreign"}, {"longer"}}
Bails(h) == IF h = "claude-code" THEN {ExitHarnessMissing, ExitCredential, ExitUsage} ELSE {ExitHarnessMissing, ExitUsage}
Reports == {[report |-> r1, plain |-> r2, quoted |-> r3] : r1 \in {"none", "marker", "other"}, r2 \in BOOLEAN, r3 \in BOOLEAN}

Evidence(h) ==
    {[Clean EXCEPT !.bail = c] : c \in Bails(h)}
    \union {[Clean EXCEPT !.child = c, !.timedOut = t, !.doc = d, !.status = st] :
                c \in {0, 1, ExitHarnessMissing}, t \in BOOLEAN, d \in BOOLEAN, st \in {"none", "SUCCESS", "CANCELED"}}
    \union {[Clean EXCEPT !.session = n, !.source = o, !.answers = w, !.echo = e, !.hook = k, !.tools = t] :
                n \in BOOLEAN, o \in {"read", "failed", "garbled", "elsewhere"}, w \in Said(h),
                e \in {{}, {"exact"}, {"foreign"}}, k \in BOOLEAN, t \in {"some", "zero", "damaged", "unreadable"}}
    \union {[Clean EXCEPT !.report = q.report, !.plain = q.plain, !.quoted = q.quoted, !.tools = t, !.child = c, !.answers = w] :
                q \in Reports, t \in {"some", "zero"}, c \in {0, 1}, w \in {{"exact"}, {"foreign"}}}

MCEvidenceFor(round) ==
    IF round.request \in Judged THEN Evidence(round.harness)
    ELSE {Clean, [Clean EXCEPT !.bail = ExitUsage]}
==============================================================================
