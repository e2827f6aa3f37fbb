---------------------------- MODULE ConfigManager ----------------------------
(***************************************************************************)
(* ConfigManager (config.rs) and the reload handler (lib.rs): the file     *)
(* piqo.toml, the snapshot every reader takes, the mutex that orders the   *)
(* writers, and the cache of discovered model catalogs, which no mutex     *)
(* ties to the snapshot.                                                   *)
(*                                                                         *)
(* A provider is its endpoint and whether it has a manual model list; all  *)
(* other sections of the file follow the same path and are left out, but   *)
(* for the agents in Markdown files, which only `load` reads.  The closure *)
(* a request hands to spawn_blocking runs to its end although the request  *)
(* is dropped.  Between two awaits a task may be overtaken by a task of    *)
(* another thread ("preempt").                                             *)
(***************************************************************************)
EXTENDS Naturals, FiniteSets

CONSTANTS
    Tasks,      \* API requests that may be in flight at once
    Providers,
    Urls,       \* values of base_url
    Scenarios   \* what may happen, as sets of AllDisturbances

AllDisturbances ==
    { "overlap",        \* a request is sent while others are in flight
      "preempt",        \* a task is overtaken between two statements
      "disconnect",     \* a client goes away and its request is dropped
      "edit",           \* the file is edited or removed by hand
      "write_error",    \* a step of write_atomic fails
      "crash" }         \* the machine stops

ASSUME ConfigAssumption ==
    /\ Scenarios \subseteq SUBSET AllDisturbances
    /\ "free" \notin Tasks /\ "boot" \notin Tasks
    /\ "none" \notin Urls

VARIABLES
    disturbances,   \* those of this behaviour
    server,     \* "up", "stopping" after a fatal reload, or "down"
    file,       \* piqo.toml: providers, Missing or Broken
    disk,       \* what of it survives a power failure
    snapshot,   \* ConfigSnapshot: providers, and whether Markdown agents are in it
    mutation,   \* the task that holds the mutation mutex, or Free
    cache,      \* discovery: provider -> DiscoveryCache
    task,       \* task -> the request it is in the middle of
    disc,       \* task -> provider -> its discover_provider
    want,       \* auxiliary: the file that accepted changes should have made
    diverged    \* auxiliary: what a failed write or an edit left behind the file

store == <<file, disk, want, diverged>>
vars == <<disturbances, server, store, snapshot, mutation, cache, task, disc>>

Free == "free"
Boot == "boot"          \* the discovery task of prepare_server
NoUrl == "none"

ProviderConfigs == [url : Urls, manual : BOOLEAN]
Absent == [url |-> NoUrl, manual |-> FALSE]
Contents == [Providers -> ProviderConfigs \cup {Absent}]
NoProviders == [p \in Providers |-> Absent]

\* The file: a configuration, or not there, or not a valid configuration.
Text(content) == [is |-> "config", providers |-> content]
Missing == [is |-> "missing", providers |-> NoProviders]
Broken == [is |-> "broken", providers |-> NoProviders]

NoCache == [status |-> "none", of |-> Absent]
NoTask == [at |-> "idle"]
NoDiscovery == [at |-> "idle", awaited |-> FALSE, original |-> Absent, ok |-> FALSE]

\* PiqoConfig::load and read_document: a file that is not there is empty.
Load(f) == f.providers

Automatic(content) == {p \in Providers : content[p] # Absent /\ ~content[p].manual}

\* discover_all: one discovery for every provider without a manual list.
DiscoverAll(t, content) ==
    [disc EXCEPT ![t] = [p \in Providers |->
        IF p \in Automatic(content) THEN [NoDiscovery EXCEPT !.at = "read"] ELSE NoDiscovery]]

\* The first start, without a configuration.
Init ==
    /\ disturbances \in Scenarios
    /\ server = "up"
    /\ file = Missing
    /\ disk = file /\ want = file /\ diverged = {}
    /\ snapshot = [providers |-> Load(file), agents |-> TRUE]
    /\ mutation = Free
    /\ cache = [p \in Providers |-> NoCache]
    /\ task = [t \in Tasks |-> NoTask]
    /\ disc = [t \in Tasks \cup {Boot} |-> [p \in Providers |-> NoDiscovery]]

-----------------------------------------------------------------------------
(* The requests.                                                            *)

Discovering(t) == \E p \in Providers : disc[t][p].at # "idle"
Idle(t) == task[t].at = "idle" /\ ~Discovering(t)
Quiet == \A t \in Tasks : Idle(t)
Answered(t) == task[t].at = "idle" /\ \A p \in Providers : ~disc[t][p].awaited

MayBegin(t) ==
    /\ server = "up" /\ Idle(t)
    /\ "overlap" \in disturbances \/ \A u \in Tasks : Answered(u)

\* discover_provider, which its request waits for.
DiscoverOne(t, p) == [disc EXCEPT ![t][p].at = "read", ![t][p].awaited = TRUE]

Goto(t, at) == task' = [task EXCEPT ![t].at = at]
Finish(t) == task' = [task EXCEPT ![t] = NoTask]

\* Mutant: the table of a provider that is not there is created on the way.
OpAcceptsMissing(op, old) == op.kind = "create" => old = Absent

\* Whether the table of provider p takes the operation ...
OpAccepts(op, old) ==
    IF op.kind = "create" THEN old = Absent ELSE old # Absent

\* ... and what it becomes.
OpEffect(op, old) ==
    IF op.kind = "delete" THEN Absent
    ELSE [url |-> IF op.kind \in {"create", "update"} THEN op.url ELSE old.url,
          manual |-> op.kind = "replace" \/ (op.kind = "update" /\ old.manual)]

Operations ==
    [kind : {"create", "update"}, url : Urls]
    \cup [kind : {"replace", "clear", "delete"}, url : {NoUrl}]

\* create_provider, update_provider, replace_models, clear_models and
\* delete_provider, up to the closure of mutate.
Request(t, p, op) ==
    /\ MayBegin(t)
    /\ task' = [task EXCEPT ![t] =
                  [at |-> "lock", kind |-> "mutate", p |-> p, op |-> op, live |-> TRUE, doc |-> NoProviders]]
    /\ UNCHANGED <<disturbances, server, store, snapshot, mutation, cache, disc>>

\* Mutant: the document is read without the mutex.
ApplyUnlocked(t) ==
    /\ task[t].at = "lock" /\ task[t].kind = "mutate"
    /\ file # Broken
    /\ OpAccepts(task[t].op, Load(file)[task[t].p])
    /\ task' = [task EXCEPT ![t].at = "write",
                            ![t].doc = [Load(file) EXCEPT ![task[t].p] = OpEffect(task[t].op, @)]]
    /\ UNCHANGED <<disturbances, server, store, snapshot, mutation, cache, disc>>

\* mutate: with the mutex held, the document is read and edited.
Apply(t) ==
    /\ task[t].at = "lock" /\ task[t].kind = "mutate"
    /\ mutation = Free
    /\ file # Broken
    /\ OpAccepts(task[t].op, Load(file)[task[t].p])
    /\ mutation' = t
    /\ task' = [task EXCEPT ![t].at = "write",
                            ![t].doc = [Load(file) EXCEPT ![task[t].p] = OpEffect(task[t].op, @)]]
    /\ UNCHANGED <<disturbances, server, store, snapshot, cache, disc>>

\* The operation is refused, or the result does not parse or validate.
Reject(t) ==
    /\ task[t].at = "lock" /\ task[t].kind = "mutate"
    /\ mutation = Free
    /\ Finish(t)
    /\ UNCHANGED <<disturbances, server, store, snapshot, mutation, cache, disc>>

\* write_atomic: the rename of the temporary file, which is complete.
Rename(t) ==
    LET p == task[t].p IN
    /\ task[t].at = "write"
    /\ file' = Text(task[t].doc)
    /\ want' = Text([Load(want) EXCEPT ![p] = OpEffect(task[t].op, @)])
    /\ Goto(t, "renamed")
    /\ UNCHANGED <<disturbances, server, disk, diverged, snapshot, mutation, cache, disc>>

\* write_atomic fails before the rename, or when it syncs the directory.
FailWrite(t) ==
    /\ "write_error" \in disturbances
    /\ task[t].at \in {"write", "renamed"}
    /\ diverged' = IF task[t].at = "renamed" THEN {"snapshot", "disk"} ELSE diverged
    /\ mutation' = Free
    /\ Finish(t)
    /\ UNCHANGED <<disturbances, server, file, disk, want, snapshot, cache, disc>>

\* Mutant: the snapshot is replaced although the directory is not synced.
PublishUnsynced(t) ==
    /\ task[t].at = "renamed"
    /\ snapshot' = [providers |-> task[t].doc, agents |-> FALSE]
    /\ diverged' = {}
    /\ mutation' = Free
    /\ IF task[t].live THEN Goto(t, "forget") ELSE Finish(t)
    /\ UNCHANGED <<disturbances, server, file, disk, want, cache, disc>>

\* mutate: the directory is synced and the snapshot replaced.  The text was
\* parsed without load_markdown_agents.
Publish(t) ==
    /\ task[t].at = "renamed"
    /\ disk' = file
    /\ snapshot' = [providers |-> task[t].doc, agents |-> FALSE]
    /\ diverged' = {}
    /\ mutation' = Free
    /\ IF task[t].live THEN Goto(t, "forget") ELSE Finish(t)
    /\ UNCHANGED <<disturbances, server, file, want, cache, disc>>

\* clear_discovery, and what follows it.
Forget(t) ==
    LET p == task[t].p
        kind == task[t].op.kind
        manual == snapshot.providers[p] # Absent /\ snapshot.providers[p].manual
        again == kind \in {"create", "clear"} \/ (kind = "update" /\ ~manual)
    IN  /\ task[t].at = "forget"
        /\ cache' = [cache EXCEPT ![p] = NoCache]
        /\ disc' = IF again THEN DiscoverOne(t, p) ELSE disc
        /\ Finish(t)
        /\ UNCHANGED <<disturbances, server, store, snapshot, mutation>>

\* refresh_models: refused for a manual list.
RefreshModels(t, p) ==
    /\ MayBegin(t)
    /\ p \in Automatic(snapshot.providers)
    /\ disc' = DiscoverOne(t, p)
    /\ UNCHANGED <<disturbances, server, store, snapshot, mutation, cache, task>>

-----------------------------------------------------------------------------
(* discover_provider.                                                       *)

\* Two statements of one task that nothing separates but another thread.
Together == "preempt" \notin disturbances

PendingCache(original) == [status |-> "pending", of |-> original]

\* It reads its provider, and marks it pending.
DiscoverRead(t, p) ==
    LET original == snapshot.providers[p] IN
    /\ disc[t][p].at = "read"
    /\ IF p \notin Automatic(snapshot.providers)
       THEN disc' = [disc EXCEPT ![t][p] = NoDiscovery] /\ UNCHANGED cache
       ELSE /\ disc' = [disc EXCEPT ![t][p].at = IF Together THEN "request" ELSE "mark",
                                    ![t][p].original = original]
            /\ cache' = IF Together THEN [cache EXCEPT ![p] = PendingCache(original)] ELSE cache
    /\ UNCHANGED <<disturbances, server, store, snapshot, mutation, task>>

DiscoverMark(t, p) ==
    /\ disc[t][p].at = "mark"
    /\ cache' = [cache EXCEPT ![p] = PendingCache(disc[t][p].original)]
    /\ disc' = [disc EXCEPT ![t][p].at = "request"]
    /\ UNCHANGED <<disturbances, server, store, snapshot, mutation, task>>

Outcome(d, ok) == [status |-> IF ok THEN "succeeded" ELSE "failed", of |-> d.original]

\* Mutant: the answer is kept although the provider has changed.
AnswerUnchecked(t, p, ok) ==
    /\ disc[t][p].at = "request"
    /\ IF Together
       THEN /\ cache' = [cache EXCEPT ![p] = Outcome(disc[t][p], ok)]
            /\ disc' = [disc EXCEPT ![t][p] = NoDiscovery]
       ELSE /\ disc' = [disc EXCEPT ![t][p].at = "store", ![t][p].ok = ok]
            /\ UNCHANGED cache
    /\ UNCHANGED <<disturbances, server, store, snapshot, mutation, task>>

\* Mutant: a failed request is not recorded.
AnswerOnlySuccess(t, p, ok) ==
    /\ disc[t][p].at = "request"
    /\ IF snapshot.providers[p] # disc[t][p].original \/ ~ok
       THEN disc' = [disc EXCEPT ![t][p] = NoDiscovery] /\ UNCHANGED cache
       ELSE /\ cache' = [cache EXCEPT ![p] = Outcome(disc[t][p], ok)]
            /\ disc' = [disc EXCEPT ![t][p] = NoDiscovery]
    /\ UNCHANGED <<disturbances, server, store, snapshot, mutation, task>>

\* The provider has answered, or not in time.  What it said is dropped when
\* the provider has been deleted or changed since.
Answer(t, p, ok) ==
    /\ disc[t][p].at = "request"
    /\ IF snapshot.providers[p] # disc[t][p].original
       THEN disc' = [disc EXCEPT ![t][p] = NoDiscovery] /\ UNCHANGED cache
       ELSE IF Together
       THEN /\ cache' = [cache EXCEPT ![p] = Outcome(disc[t][p], ok)]
            /\ disc' = [disc EXCEPT ![t][p] = NoDiscovery]
       ELSE /\ disc' = [disc EXCEPT ![t][p].at = "store", ![t][p].ok = ok]
            /\ UNCHANGED cache
    /\ UNCHANGED <<disturbances, server, store, snapshot, mutation, task>>

DiscoverStore(t, p) ==
    /\ disc[t][p].at = "store"
    /\ cache' = [cache EXCEPT ![p] = Outcome(disc[t][p], disc[t][p].ok)]
    /\ disc' = [disc EXCEPT ![t][p] = NoDiscovery]
    /\ UNCHANGED <<disturbances, server, store, snapshot, mutation, task>>

-----------------------------------------------------------------------------
(* reload, and the reload handler.                                          *)

Reload(t) ==
    /\ MayBegin(t)
    /\ task' = [task EXCEPT ![t] = [at |-> "lock", kind |-> "reload", live |-> TRUE]]
    /\ UNCHANGED <<disturbances, server, store, snapshot, mutation, cache, disc>>

\* With the mutex held the file is loaded and becomes the snapshot.
ReloadSwap(t) ==
    /\ task[t].at = "lock" /\ task[t].kind = "reload"
    /\ mutation = Free /\ file # Broken
    /\ mutation' = t
    /\ snapshot' = [providers |-> Load(file), agents |-> TRUE]
    /\ diverged' = diverged \ {"snapshot"}
    /\ Goto(t, "clear")
    /\ UNCHANGED <<disturbances, server, file, disk, want, cache, disc>>

\* A file that is no configuration: the first error is kept for the exit
\* code and the server is told to stop.
FatalReload(t) ==
    /\ task[t].at = "lock" /\ task[t].kind = "reload"
    /\ mutation = Free /\ file = Broken
    /\ server' = IF task[t].live /\ server = "up" THEN "stopping" ELSE server
    /\ Finish(t)
    /\ UNCHANGED <<disturbances, store, snapshot, mutation, cache, disc>>

\* discovery.clear(), still under the mutex.
ReloadClear(t) ==
    /\ task[t].at = "clear"
    /\ cache' = [p \in Providers |-> NoCache]
    /\ mutation' = Free
    /\ IF task[t].live THEN Goto(t, "spawn") ELSE Finish(t)
    /\ UNCHANGED <<disturbances, server, store, snapshot, disc>>

\* The MCP servers are reconciled (see McpManager) and discover_all is
\* spawned; the answer does not wait for it.
ReloadSpawn(t) ==
    /\ task[t].at = "spawn"
    /\ disc' = DiscoverAll(t, snapshot.providers)
    /\ Finish(t)
    /\ UNCHANGED <<disturbances, server, store, snapshot, mutation, cache>>

-----------------------------------------------------------------------------
(* The environment.                                                         *)

\* The request is dropped at an await.  Its blocking closure goes on alone;
\* a discovery it waits for ends, one spawned by a reload does not.
Drop(t) ==
    /\ "disconnect" \in disturbances
    /\ \/ /\ task[t].at \in {"lock", "write", "renamed", "clear"}
          /\ task' = [task EXCEPT ![t].live = FALSE]
          /\ UNCHANGED disc
       \/ /\ task[t].at \in {"forget", "spawn"}
          /\ Finish(t)
          /\ UNCHANGED disc
       \/ \E p \in Providers :
          /\ disc[t][p].at = "request" /\ disc[t][p].awaited
          /\ disc' = [disc EXCEPT ![t][p] = NoDiscovery]
          /\ UNCHANGED task
    /\ UNCHANGED <<disturbances, server, store, snapshot, mutation, cache>>

\* Somebody edits the file by hand, removes it or breaks it; nobody does so
\* in the moments in which a request rewrites it.
EditFile ==
    /\ "edit" \in disturbances
    /\ mutation = Free
    /\ file' \in {Text(content) : content \in Contents} \cup {Missing, Broken}
    /\ disk' = file' /\ want' = file' /\ diverged' = {"snapshot"}
    /\ UNCHANGED <<disturbances, server, snapshot, mutation, cache, task, disc>>

Memoryless ==
    /\ mutation' = Free
    /\ cache' = [p \in Providers |-> NoCache]
    /\ task' = [t \in Tasks |-> NoTask]

\* The last request has been answered; the discovery task was aborted.
Exit ==
    /\ server = "stopping"
    /\ \A t \in Tasks : task[t].at = "idle"
    /\ server' = "down"
    /\ disc' = [t \in Tasks \cup {Boot} |-> [p \in Providers |-> NoDiscovery]]
    /\ Memoryless
    /\ UNCHANGED <<disturbances, store, snapshot>>

\* A rename that was not synced may be undone.
Crash ==
    /\ "crash" \in disturbances /\ server # "down"
    /\ server' = "down"
    /\ file' \in {file, disk}
    /\ disk' = file'
    /\ want' = IF mutation = Free /\ "disk" \notin diverged THEN want ELSE file'
    /\ diverged' = {"snapshot"}
    /\ disc' = [t \in Tasks \cup {Boot} |-> [p \in Providers |-> NoDiscovery]]
    /\ Memoryless
    /\ UNCHANGED <<disturbances, snapshot>>

\* prepare_server: a broken file keeps the server from starting.
Restart ==
    /\ server = "down" /\ file # Broken
    /\ server' = "up"
    /\ snapshot' = [providers |-> Load(file), agents |-> TRUE]
    /\ diverged' = diverged \ {"snapshot"}
    /\ disc' = DiscoverAll(Boot, Load(file))
    /\ UNCHANGED <<disturbances, file, disk, want, mutation, cache, task>>

-----------------------------------------------------------------------------
TaskStep(t) ==
    \/ Apply(t) \/ Reject(t) \/ Rename(t) \/ FailWrite(t) \/ Publish(t) \/ Forget(t)
    \/ ReloadSwap(t) \/ FatalReload(t) \/ ReloadClear(t) \/ ReloadSpawn(t)

DiscoveryStep(t, p) ==
    \/ DiscoverRead(t, p) \/ DiscoverMark(t, p) \/ DiscoverStore(t, p)
    \/ \E ok \in BOOLEAN : Answer(t, p, ok)

NewRequest(t) ==
    \/ Reload(t)
    \/ \E p \in Providers : RefreshModels(t, p) \/ \E op \in Operations : Request(t, p, op)

Next ==
    \/ \E t \in Tasks : NewRequest(t) \/ TaskStep(t) \/ Drop(t)
    \/ \E t \in Tasks \cup {Boot}, p \in Providers : DiscoveryStep(t, p)
    \/ EditFile \/ Exit \/ Crash \/ Restart

Spec == Init /\ [][Next]_vars

-----------------------------------------------------------------------------
\* view_for: what the API shows of a provider.  A manual list needs no
\* discovery, and one that has no result yet is pending.
View(p) ==
    CASE snapshot.providers[p].manual -> [status |-> "not_applicable", of |-> snapshot.providers[p]]
      [] ~snapshot.providers[p].manual /\ cache[p] = NoCache -> PendingCache(Absent)
      [] OTHER -> cache[p]

Listed == {p \in Providers : snapshot.providers[p] # Absent}

\* Type correctness: a file of providers that are complete or not there, a
\* snapshot of the same form, caches and tasks in one of their states.
TypeOK ==
    /\ server \in {"up", "stopping", "down"}
    /\ file \in {Text(content) : content \in Contents} \cup {Missing, Broken}
    /\ snapshot \in [providers : Contents, agents : BOOLEAN]
    /\ mutation \in Tasks \cup {Free}
    /\ \A p \in Providers :
          /\ cache[p].status \in {"none", "pending", "succeeded", "failed"}
          /\ cache[p].of \in ProviderConfigs \cup {Absent}
    /\ \A t \in Tasks : task[t].at \in {"idle", "lock", "write", "renamed", "forget", "clear", "spawn"}

\* README.md "Mutations are written atomically": every accepted change of a
\* provider is in the file, on top of the ones before it, whatever requests
\* are in flight, dropped or failing, and after a power failure.
NoLostUpdate == mutation = Free => file = want

\* mutate answers only when its change would survive a power failure, and
\* readers then have it: snapshot, file and disk part only by a hand edit or
\* by a write that was reported as failed.
Published ==
    mutation = Free =>
        /\ "snapshot" \in diverged \/ snapshot.providers = Load(file)
        /\ "disk" \in diverged \/ disk = file

\* The clients of this behaviour stay, the file is changed by requests only
\* and no write fails, and no task is overtaken between two statements.  (The
\* file that a failed sync leaves behind has a change that the snapshot gets
\* with the next change of another provider, and then nothing clears or
\* discovers the catalog of the first one.)
Tidy == disturbances \cap {"preempt", "disconnect", "edit", "write_error"} = {}

\* A catalog that is shown as discovered is the one of the provider as it is
\* configured now, once its requests are answered: a discovery that was
\* overtaken by an update, a deletion or a reload leaves nothing behind.
CatalogFresh ==
    Tidy /\ Quiet => \A p \in Listed :
        View(p).status # "pending" => View(p).of = snapshot.providers[p]

\* docs/CLIENT_PROTOCOL.md: "piqo attempts `/v1/models` after provider
\* creation and modification and during server startup": every provider
\* without a manual list has a result when nothing is in flight.  A request
\* that overtakes the discovery of a start or of a reload leaves no provider
\* pending for ever.  (Two requests that overlap may: the clear_discovery of
\* the slower one erases what the other has just stored.)
CatalogSettled ==
    Tidy /\ "overlap" \notin disturbances /\ server = "up" /\ Quiet /\ ~Discovering(Boot) =>
        \A p \in Listed : View(p).status # "pending"
=============================================================================
