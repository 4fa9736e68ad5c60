----------------------------- MODULE PolicyCache -----------------------------
(***************************************************************************)
(* Data-policy verdicts on catalogue ids: what resolvePolicies concludes   *)
(* from OpenRouter's provider list and an id's endpoint list, each behind  *)
(* a cache file that every caller on the machine reads and rewrites        *)
(* without a lock.                                                         *)
(*                                                                         *)
(* Times are ages in ticks.  A cached answer has the age of its stamp and, *)
(* for the properties, the age of the answer itself: the two differ in a   *)
(* file whose stamp lies in the future.                                    *)
(***************************************************************************)
EXTENDS Integers

CONSTANTS
    Callers,      \* processes that load a catalogue
    Offered,      \* OpenRouter ids whose policy is asked for
    Hosts,        \* providers behind OpenRouter's endpoints
    PolicyLists,  \* what the provider list may say: functions from hosts to rows
    EndpointLists, \* who an endpoint list may name: sets of hosts
    FreshFor,
    MaxCall       \* bound: ticks a call may take, its requests time out

Rows == [training : {"", "yes", "no"}, openRouter : {"", "yes", "no"}, retains : {"", "yes", "no"}]

ASSUME PolicyAssumption ==
    /\ FreshFor \in Nat \ {0} /\ MaxCall \in Nat
    /\ \A list \in PolicyLists : DOMAIN list = Hosts /\ \A h \in Hosts : list[h] \in Rows
    /\ EndpointLists \subseteq SUBSET Hosts

VARIABLES
    listFile,      \* the cached provider list
    endpointFile,  \* the cached endpoint list of each id
    call           \* what each caller is at

policyVars == <<listFile, endpointFile, call>>

\* A row says yes, no or nothing to each question; a host without a row is unlisted.
Unlisted == [training |-> "", openRouter |-> "", retains |-> ""]
NoList == [h \in Hosts |-> Unlisted]

PolicyVerdicts == {"none", "trains", "unknown", "retains", "no-train-no-retain"}

\* The conjunction over everybody who may serve the id.
policyOf(hosts, list) ==
    IF hosts = {} THEN "unknown"
    ELSE IF \E h \in hosts : list[h].training = "yes" \/ list[h].openRouter = "yes" THEN "trains"
    ELSE IF \E h \in hosts : list[h].training = "" \/ list[h].retains = "" THEN "unknown"
    ELSE IF \E h \in hosts : list[h].retains = "yes" THEN "retains"
    ELSE "no-train-no-retain"

\* Past most, no rule tells ages apart.
Ancient == FreshFor + MaxCall
Future == -1
Aged(age, most) == IF age = Future \/ age >= most THEN age ELSE age + 1
AgedRecord(r, most) == [r EXCEPT !.stamp = Aged(@, most), !.taken = Aged(@, most)]

NoListFile == [stamp |-> FreshFor, taken |-> FreshFor, list |-> NoList]
NoRecord == [stamp |-> FreshFor, taken |-> FreshFor, hosts |-> {}]
NoCall == [at |-> "idle", since |-> 0, refresh |-> FALSE, list |-> NoList, listTaken |-> FreshFor,
           now |-> 0, old |-> [i \in Offered |-> NoRecord], used |-> [i \in Offered |-> NoRecord],
           fetched |-> {}, verdict |-> [i \in Offered |-> "none"]]

\* The files may be there from before, from another machine's clock too.
PolicyInit ==
    /\ listFile \in {NoListFile} \union [stamp : {Future, FreshFor}, taken : {FreshFor}, list : PolicyLists]
    /\ endpointFile = [i \in Offered |-> NoRecord]
    /\ call = [c \in Callers |-> NoCall]

PolicyTick ==
    /\ \A c \in Callers : call[c].since < MaxCall
    /\ listFile' = AgedRecord(listFile, FreshFor)
    /\ endpointFile' = [i \in Offered |-> AgedRecord(endpointFile[i], FreshFor)]
    /\ call' = [c \in Callers |->
           IF call[c].at = "idle" THEN call[c]
           ELSE [call[c] EXCEPT !.since = @ + 1, !.now = @ + 1, !.listTaken = Aged(@, Ancient),
                                !.old = [i \in Offered |-> AgedRecord(@[i], Ancient)],
                                !.used = [i \in Offered |-> AgedRecord(@[i], Ancient)]]]

Becomes(c, j) == call' = [call EXCEPT ![c] = j]

\* A stamp in the future is not fresh.
isFresh(stamp) == 0 <= stamp /\ stamp < FreshFor

\* A call starts: a fresh list is used as it is.
loadList(c) ==
    /\ call[c].at = "idle"
    /\ \E refresh \in BOOLEAN :
           LET usable == listFile.list # NoList /\ ~refresh /\ isFresh(listFile.stamp)
           IN  Becomes(c, [call[c] EXCEPT
                   !.at = IF usable THEN "endpoints" ELSE "list",
                   !.refresh = refresh /\ ~usable,
                   !.list = IF usable THEN listFile.list ELSE NoList,
                   !.listTaken = IF usable THEN listFile.taken ELSE FreshFor])
    /\ UNCHANGED <<listFile, endpointFile>>

\* The answer parses, and is written to the cache when that can be written.
listFetched(c) ==
    /\ call[c].at = "list"
    /\ \E list \in PolicyLists :
           /\ Becomes(c, [call[c] EXCEPT !.at = "endpoints", !.list = list, !.listTaken = 0])
           /\ listFile' \in {listFile, [stamp |-> 0, taken |-> 0, list |-> list]}
    /\ UNCHANGED endpointFile

(* Mutant of listFailed: the stale list stands in. *)
listFailedIntoStale(c) ==
    /\ call[c].at = "list"
    /\ IF listFile.list = NoList
       THEN Becomes(c, [call[c] EXCEPT !.at = "done", !.verdict = [i \in Offered |-> "unknown"]])
       ELSE Becomes(c, [call[c] EXCEPT !.at = "endpoints", !.list = listFile.list, !.listTaken = listFile.taken])
    /\ UNCHANGED <<listFile, endpointFile>>

\* A list that could not be fetched is no list, a stale copy or not.
listFailed(c) ==
    /\ call[c].at = "list"
    /\ Becomes(c, [call[c] EXCEPT !.at = "done", !.verdict = [i \in Offered |-> "unknown"]])
    /\ UNCHANGED <<listFile, endpointFile>>

\* Fresh records of the endpoint cache answer at once.
readEndpointCache(c) ==
    /\ call[c].at = "endpoints"
    /\ LET known == {i \in Offered : ~call[c].refresh /\ isFresh(endpointFile[i].stamp)}
       IN  Becomes(c, [call[c] EXCEPT
               !.at = "fetching", !.now = 0, !.old = endpointFile, !.refresh = FALSE,
               !.used = [i \in Offered |-> IF i \in known THEN endpointFile[i] ELSE NoRecord],
               !.verdict = [i \in Offered |-> IF i \in known THEN policyOf(endpointFile[i].hosts, call[c].list) ELSE "none"]])
    /\ UNCHANGED <<listFile, endpointFile>>

\* One worker's request, stamped with the time the call read the cache.
fetchEndpoints(c, i) ==
    /\ call[c].at = "fetching" /\ call[c].verdict[i] = "none"
    /\ \/ \E hosts \in EndpointLists :
              Becomes(c, [call[c] EXCEPT !.fetched = @ \union {i}, !.old[i] = NoRecord,
                                   !.used[i] = [stamp |-> call[c].now, taken |-> 0, hosts |-> hosts],
                                   !.verdict[i] = policyOf(hosts, call[c].list)])
       \/ Becomes(c, [call[c] EXCEPT !.verdict[i] = "unknown"])
    /\ UNCHANGED <<listFile, endpointFile>>

\* What was read at the start and is still fresh is merged under what was
\* fetched; records another caller wrote meanwhile are lost.
writeEndpointCache(c) ==
    /\ call[c].at = "fetching"
    /\ \A i \in Offered : call[c].verdict[i] # "none"
    /\ Becomes(c, NoCall)
    /\ endpointFile' \in
           {endpointFile,
            IF call[c].fetched = {} THEN endpointFile
            ELSE [i \in Offered |->
                     IF i \in call[c].fetched THEN call[c].used[i]
                     ELSE IF isFresh(call[c].old[i].stamp - call[c].now) THEN call[c].old[i]
                     ELSE NoRecord]}
    /\ UNCHANGED listFile

Returns(c) ==
    /\ call[c].at = "done"
    /\ Becomes(c, NoCall)
    /\ UNCHANGED <<listFile, endpointFile>>

PolicyNext ==
    \/ PolicyTick
    \/ \E c \in Callers :
           \/ loadList(c) \/ listFetched(c) \/ listFailed(c) \/ readEndpointCache(c)
           \/ (\E i \in Offered : fetchEndpoints(c, i)) \/ writeEndpointCache(c) \/ Returns(c)

PolicySpec == PolicyInit /\ [][PolicyNext]_policyVars
------------------------------------------------------------------------------
\* A verdict that lets a free model be picked without asking rests on somebody
\* being listed for the id, on every one of them being said neither to train nor
\* to retain, and on answers less than FreshFor old when the call began, whatever
\* failed to load and whoever else rewrote the files.
StrictVerdictIsFresh ==
    \A c \in Callers, i \in Offered :
        call[c].verdict[i] = "no-train-no-retain" =>
            LET hosts == call[c].used[i].hosts
                rows  == {call[c].list[h] : h \in hosts}
            IN  /\ rows # {} /\ \A r \in rows : r.training = "no" /\ r.retains = "no" /\ r.openRouter # "yes"
                /\ call[c].listTaken < FreshFor + call[c].since
                /\ call[c].used[i].taken < FreshFor + call[c].since
==============================================================================
