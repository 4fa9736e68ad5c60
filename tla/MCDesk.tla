--------------------------------- MODULE MCDesk ---------------------------------
(***************************************************************************)
(* The programs that work beside the rounds: the status line's cache, the  *)
(* policy cache, agy's settings, the configuration file and spec-lint.     *)
(* They share no state, so that their product shows nothing that their sum *)
(* does not: a behaviour is a behaviour of one of them, chosen at the      *)
(* start.                                                                  *)
(***************************************************************************)
EXTENDS StatusCache, PolicyCache, AgySettings, ConfigFile, SpecLint, TLC

VARIABLE part

deskVars == <<part, statusVars, policyVars, agyVars, configVars, lintVars>>

------------------------------------------------------------------------------
\* What OpenRouter may answer.
Row(training, openRouter, retains) == [training |-> training, openRouter |-> openRouter, retains |-> retains]
MCPolicyLists ==
    {[h \in Hosts |-> IF h = "h1" THEN Row("no", "", "no") ELSE Row("no", "yes", "no")],
     [h \in Hosts |-> Row("no", "no", "no")]}
MCEndpointLists == {{}, Hosts}

------------------------------------------------------------------------------
\* Configuration files and command lines.
On(provider) == <<"providers", provider, "enabled">>
Model(provider) == <<"providers", provider, "defaultModel">>
Prefer == <<"free", "prefer">>
Window == <<"context", "autoCompactWindow">>
Theme == <<"theme">>
Command(verb, key, value) == [verb |-> verb, key |-> key, value |-> value]
MCCommands ==
    {Command("set", On("zen"), "false"), Command("unset", On("zen"), ""),
     Command("set", Model("zen"), "bare id"), Command("set", Model("zen"), "qualified id"),
     Command("unset", Prefer, ""), Command("set", Prefer, "preferences"), Command("set", On("acme"), "true"),
     Command("set", Window, "null"), Command("list", <<>>, "")}
MCFirstFiles ==
    {NoConfig, Blank, Broken, Holds(<<>>),
     Holds(Theme :> "null" @@ On("zen") :> "true" @@ <<"providers", "zen", "note">> :> "true"),
     Holds(On("acme") :> "true" @@ Prefer :> "empty list"), Holds(On("zen") :> "null")}

------------------------------------------------------------------------------
\* Specs: up to three lines, an opener, any line, and a claim.
Ref(base, cited) == [base |-> base, name |-> "x", cited |-> cited]
Token(says, size, ref) == [says |-> says, size |-> size, claims |-> {ref}]
Line(tokens) ==
    [word |-> "none", form |-> "none", fence |-> FALSE, colon |-> FALSE, item |-> FALSE,
     heading |-> FALSE, blank |-> FALSE, indent |-> 0, tokens |-> tokens]
X == {Token("path", 1, Ref("relative", -1))}
X2 == {Token("path", 1, Ref("relative", 2))}
InScratch == {Token("path", 1, Ref("scratch", -1))}
Rooted == {Token("path", 1, Ref("/", -1)), Token("template", 1, Ref("relative", -1))}
TooMany == {Token("path", MaxExpansions + 1, Ref("relative", -1))}
Openers ==
    {[Line(X) EXCEPT !.word = "create", !.form = "inline"],
     [Line({}) EXCEPT !.word = "create", !.form = "open", !.colon = TRUE],
     [Line(X) EXCEPT !.word = "absent-ok", !.form = "inline"],
     [Line({}) EXCEPT !.word = "absent-ok", !.form = "open", !.colon = TRUE, !.item = TRUE],
     [Line(X) EXCEPT !.fence = TRUE],
     [Line({}) EXCEPT !.fence = TRUE, !.colon = TRUE],
     [Line({}) EXCEPT !.fence = TRUE, !.colon = TRUE, !.item = TRUE, !.indent = 1]}
Listing == {[Line(X) EXCEPT !.item = TRUE], [Line(X2) EXCEPT !.indent = 2]}
Claimers == Listing \union {Line(X2), Line(InScratch), Line(Rooted), Line(TooMany)}
Separators == {[Line({}) EXCEPT !.blank = TRUE], [Line({}) EXCEPT !.heading = TRUE, !.indent = 2]}
MCDocs ==
    {<<claim>> : claim \in Claimers} \union
    {<<first, second, claim>> : first \in Openers, second \in Openers \union Listing \union Separators, claim \in Claimers}

------------------------------------------------------------------------------
DeskInit ==
    /\ part \in {"status", "policy", "agy", "config", "lint"}
    /\ StatusInit
    /\ PolicyInit /\ (part # "policy" => listFile = NoListFile)
    /\ AgyInit
    /\ ConfigInit /\ (part # "config" => config = NoConfig /\ link = "none")
    /\ LintInit

\* Launches of agy are alike: they are numbered in the order they begin in.
InTurn == \A p, q \in Rounds : p < q /\ At(p, "idle") => At(q, "idle")

DeskNext ==
    /\ UNCHANGED part
    /\ \/ part = "status" /\ StatusNext /\ UNCHANGED <<policyVars, agyVars, configVars, lintVars>>
       \/ part = "policy" /\ PolicyNext /\ UNCHANGED <<statusVars, agyVars, configVars, lintVars>>
       \/ part = "agy"    /\ AgyNext /\ InTurn' /\ UNCHANGED <<statusVars, policyVars, configVars, lintVars>>
       \/ part = "config" /\ ConfigNext /\ UNCHANGED <<statusVars, policyVars, agyVars, lintVars>>
       \/ part = "lint"   /\ LintNext   /\ UNCHANGED <<statusVars, policyVars, agyVars, configVars>>

DeskSpec == DeskInit /\ [][DeskNext]_deskVars /\ StatusFairness
================================================================================
