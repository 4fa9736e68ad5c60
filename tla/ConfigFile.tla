------------------------------ MODULE ConfigFile ------------------------------
(***************************************************************************)
(* `outsource config`: commands that read the user's one configuration     *)
(* file, change a key and write the whole file again, with no lock.        *)
(*                                                                         *)
(* A file holds raw values under names.  A name is a sequence of parts; a  *)
(* raw value is one of a few tokens that the type rules tell apart.        *)
(***************************************************************************)
EXTENDS Integers, Sequences, Functions

CONSTANTS
    Commands,     \* command lines: [verb, key, value]
    Shells,       \* processes that run them
    FirstFiles    \* what the user may have at the start

VARIABLES
    config,   \* the text at the configuration's path
    link,     \* whether that path is a symlink: "none", "through", "dangling"
    shell     \* what each process is at

configVars == <<config, link, shell>>

\* Besides an object: no file, only blanks, and what is not an object of this format.
Holds(values) == [form |-> "object", values |-> values]
NoConfig == [form |-> "missing", values |-> <<>>]
Blank == [form |-> "blank", values |-> <<>>]
Broken == [form |-> "broken", values |-> <<>>]

ASSUME FirstFilesAssumption == \A f \in FirstFiles : f \in {NoConfig, Blank, Broken} \/ f = Holds(f.values)

Routed == {"zai", "xai", "openrouter", "zen", "muse", "agy"}
providerFields == {"defaultModel", "enabled"}
freeFields == {"allowTraining", "denyPaths", "prefer"}
contextFields == {"autoCompactWindow"}

parseKey(k) ==
    \/ Len(k) = 3 /\ k[1] = "providers" /\ k[3] \in providerFields
    \/ Len(k) = 2 /\ k[1] = "free" /\ k[2] \in freeFields
    \/ Len(k) = 2 /\ k[1] = "context" /\ k[2] \in contextFields
resolveKey(k) == parseKey(k) /\ (k[1] = "providers" => k[2] \in Routed)

\* The type rule of a field; null is nobody's value, and a list of preferences
\* must name routed providers.
checkField(field, raw) ==
    CASE field \in {"enabled", "allowTraining"} -> raw \in {"true", "false"}
      [] field = "defaultModel"                 -> raw \in {"bare id", "qualified id", "router id", "empty string"}
      [] field = "denyPaths"                    -> raw \in {"globs", "empty list"}
      [] field = "prefer"                       -> raw \in {"preferences", "empty list"}
      [] field = "autoCompactWindow"            -> raw = "tokens"
      [] OTHER                                  -> TRUE

\* What set stores must pass the rule that load applies, and a default model the
\* launcher's rule too.
parseValue(k, raw) ==
    /\ checkField(k[Len(k)], raw)
    /\ k[Len(k)] = "defaultModel" => raw = "bare id"

\* Unknown names are kept and not judged.
loadFile(text) ==
    IF text.form \in {"missing", "blank"} THEN [ok |-> TRUE, values |-> <<>>]
    ELSE [ok |-> /\ text.form = "object"
                 /\ \A k \in DOMAIN text.values :
                        Len(k) > 1 => checkField(k[Len(k)], text.values[k]),
          values |-> text.values]

Stage(at, command, saw) == [at |-> at, command |-> command, saw |-> saw]
Ready == Stage("idle", [verb |-> ""], NoConfig)
ConfigInit ==
    /\ config \in FirstFiles
    /\ link \in (IF config = NoConfig THEN {"none", "dangling"} ELSE {"none", "through"})
    /\ shell = [s \in Shells |-> Ready]

Proceeds(s, at, command, saw) == shell' = [shell EXCEPT ![s] = Stage(at, command, saw)]
Exits(s) == shell' = [shell EXCEPT ![s] = Ready]

\* The command line is judged before the file is looked at; a bad one is over.
ConfigMain(s) ==
    /\ shell[s].at = "idle"
    /\ \E c \in Commands :
           /\ c.verb \in {"list", "get", "set", "unset"}
           /\ c.verb \in {"get", "set", "unset"} => resolveKey(c.key)
           /\ c.verb = "set" => parseValue(c.key, c.value)
           /\ Proceeds(s, "load", c, NoConfig)
    /\ UNCHANGED <<config, link>>

set(values, k, raw) == [n \in DOMAIN values \union {k} |-> IF n = k THEN raw ELSE values[n]]

(* Mutant of unset: the provider goes with its field. *)
unsetProvider(values, k) ==
    Restrict(values, {n \in DOMAIN values : Len(n) # Len(k) \/ n[1] # k[1] \/ (Len(k) = 3 /\ n[2] # k[2])})

unset(values, k) == Restrict(values, DOMAIN values \ {k})

\* A file that does not parse is not written over; a read is over now, and so is
\* an unset of what is not there.
load(s) ==
    /\ shell[s].at = "load"
    /\ LET c == shell[s].command
           l == loadFile(config)
       IN  IF ~l.ok \/ c.verb \in {"get", "list"} \/ (c.verb = "unset" /\ c.key \notin DOMAIN l.values)
           THEN Exits(s)
           ELSE Proceeds(s, "write", c, config)
    /\ UNCHANGED <<config, link>>

\* A temporary file of the command's own, then one rename: over the file a link
\* points at, or over a link that points nowhere.
write(s) ==
    /\ shell[s].at = "write"
    /\ LET c      == shell[s].command
           values == loadFile(shell[s].saw).values
       IN  config' = Holds(IF c.verb = "set" THEN set(values, c.key, c.value) ELSE unset(values, c.key))
    /\ link' = IF link = "dangling" THEN "none" ELSE link
    /\ Exits(s)

WriteFailed(s) ==
    /\ shell[s].at = "write"
    /\ Exits(s)
    /\ UNCHANGED <<config, link>>

ConfigNext == \E s \in Shells : ConfigMain(s) \/ load(s) \/ write(s) \/ WriteFailed(s)

ConfigSpec == ConfigInit /\ [][ConfigNext]_configVars
------------------------------------------------------------------------------
\* Two texts hold the same under every name outside K.
SameBut(K, old, new) ==
    \A n \in (DOMAIN old \union DOMAIN new) \ K :
        n \in DOMAIN old /\ n \in DOMAIN new /\ new[n] = old[n]

\* The keys that some command sets or unsets.
Named == {c.key : c \in {d \in Commands : d.verb \in {"set", "unset"}}}

\* A command that writes leaves a file that can be loaded, never writes over one
\* that cannot, sets or unsets its own key, and keeps the values, known to it or
\* not, under every name that no command is about, however commands overlap.
\* One that nobody overtook keeps them under every name but its own: what an
\* overlap can lose is the result of another command.  A link stays unless it
\* pointed nowhere.
OnlyItsKey ==
    [][\A s \in Shells : write(s) =>
           LET k == shell[s].command.key
           IN  /\ config.form # "broken" /\ loadFile(config').ok
               /\ (k \in DOMAIN config'.values) <=> shell[s].command.verb = "set"
               /\ SameBut(IF config = shell[s].saw THEN {k} ELSE Named, config.values, config'.values)
               /\ link' = link \/ link = "dangling"]_configVars
==============================================================================
