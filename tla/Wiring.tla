------------------------------- MODULE Wiring -------------------------------
(***************************************************************************)
(* What can run where: the provider, harness and model tables of the       *)
(* launcher, and the functions every later decision derives from them.     *)
(*                                                                         *)
(* A model id is the sequence of its slash-separated segments, so that     *)
(* <<"openrouter", "vendor", "id">> is openrouter/vendor/id, <<"free">> is *)
(* the selector and <<>> is "not given".                                   *)
(***************************************************************************)
EXTENDS Naturals, Sequences, FiniteSets

Providers == {"zai", "xai", "openrouter", "zen", "muse", "agy"}
Harnesses == {"claude-code", "crush", "opencode", "agy", "muse"}

\* A launch that names nothing it could be found by.
None == <<>>
Selector == <<"free">>

(***************************************************************************)
(* providerTable                                                           *)
(***************************************************************************)
Qualifier(p) == IF p = "zen" THEN "opencode" ELSE p

TableDefault(p) ==
    CASE p = "zai"        -> <<"glm-5.3">>
      [] p = "xai"        -> <<"grok-4.6">>
      [] p = "zen"        -> <<"step-5-preview-free">>
      [] p = "muse"       -> <<"muse-spark-1.3-contributor">>
      [] p = "agy"        -> <<"gemini-3.8-flash-high">>
      [] OTHER            -> None

TableHarness(p) ==
    CASE p \in {"zai", "xai", "openrouter"} -> "claude-code"
      [] p = "zen"                          -> "opencode"
      [] OTHER                              -> p

UnlistedVision(p) == p # "zai"

\* The input ceiling of the provider's ids on the claude-code harness, 0 where
\* none was measured.
TableContext(p) == IF p = "zai" THEN 4 ELSE 0

\* The providers with a listing that --model free and named ids are checked with.
Catalogued == {"openrouter", "zen"}

(***************************************************************************)
(* harnessTable                                                            *)
(***************************************************************************)
Drives(h) ==
    CASE h = "claude-code" -> {"zai", "xai", "openrouter"}
      [] h = "crush"       -> {"zai", "xai"}
      [] h = "opencode"    -> {"openrouter", "zen"}
      [] h = "agy"         -> {"agy"}
      [] h = "muse"        -> {"muse"}
      [] OTHER             -> {}

\* The harnesses whose --model carries the provider's qualifier.
Qualifying == {"crush", "opencode"}
EffortHarnesses == {"claude-code", "muse"}
ResumingHarnesses == {"claude-code"}

\* Where a 429's reset time can be read (planlimit.HasResetForm).
ResetForm == {"zai"}

(***************************************************************************)
(* modelTable: what was measured about one bare id.                        *)
(***************************************************************************)
ModelRows == <<
    [provider |-> "zai",  id |-> <<"glm-5.3">>, vision |-> "blind", answeredBy |-> None],
    [provider |-> "zai",  id |-> <<"glm-5.3-flash">>, vision |-> "colour", answeredBy |-> None],
    [provider |-> "zai",  id |-> <<"glm-5.2">>, vision |-> "unmeasured", answeredBy |-> <<"glm-5.3">>],
    [provider |-> "xai",  id |-> <<"grok-4.6">>, vision |-> "unmeasured", answeredBy |-> None],
    [provider |-> "zen",  id |-> <<"step-5-preview-free">>, vision |-> "colour", answeredBy |-> None],
    [provider |-> "muse", id |-> <<"muse-spark-1.3-contributor">>, vision |-> "colour", answeredBy |-> None],
    [provider |-> "agy",  id |-> <<"gemini-3.8-flash-high">>, vision |-> "unmeasured", answeredBy |-> None] >>

RowsOf(p, bare) == {i \in DOMAIN ModelRows : ModelRows[i].provider = p /\ ModelRows[i].id = bare}

(***************************************************************************)
(* The forms an id takes.                                                  *)
(***************************************************************************)
Qualified(p, m) == Len(m) > 1 /\ Head(m) = Qualifier(p)
StripQualifier(p, m) == IF Qualified(p, m) THEN Tail(m) ELSE m

BareID(p, h, m) == IF h \in Qualifying THEN StripQualifier(p, m) ELSE m

HarnessFormID(p, h, bare) ==
    IF h \in Qualifying THEN <<Qualifier(p)>> \o bare ELSE bare

OrDefault(m, def) == IF m = None THEN def ELSE m

\* An id in another harness's form is rewritten before anything reads it: a
\* bare Zen id is qualified, OpenRouter's qualified form loses its qualifier
\* on claude-code, where only a third segment tells it from a vendor's name.
NormalizeModel(p, h, m) ==
    CASE p = "zen" /\ h = "opencode" /\ Len(m) = 1 /\ m # Selector
           -> <<Qualifier(p)>> \o m
      [] p = "openrouter" /\ h = "claude-code" /\ Qualified(p, m) /\ Len(m) > 2
           -> Tail(m)
      [] OTHER -> m

\* The harness's own rule about the form of --model.
ModelFormOK(p, h, m) ==
    (h \in Qualifying /\ m # None) => Qualified(p, m)

\* What a qualifying harness runs when --model was not given.
HarnessModel(p, h, m, def) ==
    IF m # None THEN m ELSE HarnessFormID(p, h, def)

\* The rule for a stored default: bare, not empty, not one of OpenRouter's routers.
DefaultModelOK(p, m) ==
    /\ m # None
    /\ ~(p = "openrouter" /\ m \in {<<"openrouter", "auto">>, <<"openrouter", "free">>})
    /\ Qualified(p, m) => p = "openrouter" /\ Len(m) = 2

(***************************************************************************)
(* What the tables say of a pairing and of an id.                          *)
(***************************************************************************)
EffortOK(h, effort) == effort # "none" => effort # "bogus" /\ h \in EffortHarnesses
ResumeOK(h, p, on) == on => h \in ResumingHarnesses /\ p \in ResetForm

DefaultHarness(p, h) == IF h # "unnamed" THEN h ELSE TableHarness(p)

AnsweredBy(p, bare, allowMapped) ==
    IF allowMapped \/ RowsOf(p, bare) = {} THEN None
    ELSE ModelRows[CHOOSE i \in RowsOf(p, bare) : TRUE].answeredBy

Mapped(p, m, allowMapped) ==
    m # None /\ AnsweredBy(p, StripQualifier(p, m), allowMapped) # None

ModelVision(p, m, def) ==
    LET measured == {i \in RowsOf(p, OrDefault(StripQualifier(p, m), def)) :
                         ModelRows[i].vision # "unmeasured"}
    IN  IF measured = {} THEN UnlistedVision(p)
        ELSE \A i \in measured : ModelRows[i].vision # "blind"

\* No id of the table has a window of its own, so the catalogue's listing comes
\* before the provider's.
RoundContextWindow(p, catalogueContext) ==
    IF catalogueContext > 0 THEN catalogueContext ELSE TableContext(p)

\* What a claude-code child is told: the window, and a compaction cap below it.
ContextEnv(p, catalogueContext, cap) ==
    LET window == RoundContextWindow(p, catalogueContext)
    IN  [max |-> window, compact |-> IF cap < window THEN cap ELSE 0]

\* A row of the table is good only if its own default can be launched on its
\* default harness.
TablesAgree ==
    \A p \in Providers :
        /\ p \in Drives(TableHarness(p))
        /\ TableDefault(p) # None => DefaultModelOK(p, TableDefault(p)) /\ ~Mapped(p, TableDefault(p), FALSE)

ASSUME WiringTables == TablesAgree
=============================================================================
