----------------------------- MODULE McpManager -----------------------------
(***************************************************************************)
(* McpManager (piqo-tools/src/lib.rs): the child processes of configured   *)
(* MCP servers, their locks and their tool catalogs, under the requests    *)
(* that use them: the start of the server, the catalog every run asks for, *)
(* tool calls, diagnostics, reconcile on a reload, and shutdown.           *)
(*                                                                         *)
(* An entry is a server in one generation of the configuration.  Its two   *)
(* mutexes are modelled with their holders; of its read-write locks only   *)
(* the guards that outlive a statement, which are those of `diagnostics`.  *)
(***************************************************************************)
EXTENDS Integers, Sequences, FiniteSets

CONSTANTS
    Tasks,          \* requests that may be in flight at once
    Servers,        \* ids of the configured servers: 1 .. Servers, in order
    MaxAttempts,    \* max_restart_attempts
    MaxGeneration,  \* bound: configurations until the next restart
    Scenarios       \* what may happen, as sets of AllDisturbances

AllDisturbances ==
    { "several",    \* more than one server is configured and enabled
      "overlap",    \* requests are in flight at once, but for diagnostics
      "diagnose",   \* diagnostics are read while others are in flight
      "dropped",    \* a request is dropped at an await
      "reload",     \* the configuration is loaded again
      "changes",    \* a child changes its list of tools
      "exit" }      \* a child exits, or answers with an error

ASSUME McpAssumption ==
    /\ "nobody" \notin Tasks
    /\ Servers \in Nat \ {0} /\ MaxAttempts \in Nat /\ MaxGeneration \in Nat \ {0}
    /\ Scenarios \subseteq SUBSET AllDisturbances

VARIABLES
    disturbances,   \* those of this behaviour
    stopping,       \* mcp.shutdown has been called
    generation,     \* the configuration that `entries` holds
    enabled,        \* entry -> config.enabled
    state,          \* entry -> McpServerState
    attempts,       \* entry -> restart_attempts
    starter,        \* entry -> the task that holds the restart_attempts mutex
    connection,     \* entry -> the child of its McpConnection, or NoChild
    user,           \* entry -> the task that holds the connection mutex
    tools,          \* entry -> it has a catalog, which nothing ever clears
    dirty,          \* entry -> catalog_dirty
    alive,          \* the child processes that run
    task,           \* task -> the request it is in the middle of
    failures,       \* auxiliary: entry -> starts that failed in a row
    changed         \* auxiliary: entry -> its list of tools has changed since it was read

locks == <<starter, user>>
entry == <<state, attempts, connection, tools, dirty, failures, changed>>
vars == <<disturbances, stopping, generation, enabled, locks, entry, alive, task>>

Nobody == "nobody"
NoChild == 0
Children == 1..Servers * (Cardinality(Tasks) + 1)
Entry == (1..MaxGeneration) \X (1..Servers)
Entries(g) == [i \in 1..Servers |-> <<g, i>>]
States == {"stopped", "starting", "healthy", "failed"}
Kinds == {"boot", "catalog", "call", "diagnose", "reconcile", "shutdown"}
Width == IF "several" \in disturbances THEN Servers ELSE 1
Configs == SUBSET (1..Width)
EnabledUpTo(g, on) ==
    LET upto[i \in 0..Servers] ==
          IF i = 0 THEN <<>>
          ELSE IF on[<<g, i>>] THEN Append(upto[i - 1], <<g, i>>) ELSE upto[i - 1]
    IN  upto
EnabledEntries(g, on) == EnabledUpTo(g, on)[Servers]
NoTask == [kind |-> "none", at |-> "idle", todo |-> <<>>, child |-> NoChild]

\* The start_enabled of prepare_server.
BootTask(on) ==
    IF EnabledEntries(1, on) = <<>> THEN NoTask
    ELSE [kind |-> "boot", at |-> "ensure", todo |-> EnabledEntries(1, on), child |-> NoChild]

\* McpManager::new, once a configuration is chosen.
Fresh(g, on) ==
    /\ generation' = g
    /\ enabled' = [e \in Entry |-> IF e[1] = g THEN e[2] \in on ELSE e[1] < g /\ enabled[e]]

Init ==
    /\ disturbances \in Scenarios
    /\ stopping = FALSE
    /\ generation = 1
    /\ enabled \in {[e \in Entry |-> e[1] = 1 /\ e[2] \in on] : on \in Configs}
    /\ state = [e \in Entry |-> "stopped"]
    /\ attempts = [e \in Entry |-> 0]
    /\ starter = [e \in Entry |-> Nobody] /\ user = starter
    /\ connection = [e \in Entry |-> NoChild]
    /\ tools = [e \in Entry |-> FALSE] /\ dirty = tools
    /\ alive = {}
    /\ \E b \in Tasks : task = [t \in Tasks |-> IF t = b THEN BootTask(enabled) ELSE NoTask]
    /\ failures = attempts /\ changed = dirty

-----------------------------------------------------------------------------
(* Tasks.                                                                   *)

Quiet == \A t \in Tasks : task[t].at = "idle"
At(t, at) == task[t].at = at
Of(t) == Head(task[t].todo)
Goto(t, at) == task' = [task EXCEPT ![t].at = at]
Finish(t) == task' = [task EXCEPT ![t] = NoTask]

\* The loop over the entries of a map, which has been cloned: the next one
\* is visited, or the request is answered.  reconcile goes on with
\* start_enabled, on the map as it is by then.
Visit(t, kind, at, todo) ==
    LET more == IF kind = "reconcile" /\ at = "stop" /\ todo = <<>>
                THEN EnabledEntries(generation, enabled) ELSE todo
        next == IF todo = <<>> THEN "ensure" ELSE at
    IN  task' = [task EXCEPT ![t] =
            IF more = <<>> THEN NoTask
            ELSE [kind |-> kind, at |-> next, todo |-> more, child |-> NoChild]]

Advance(t, at) == Visit(t, task[t].kind, at, Tail(task[t].todo))

\* The guards that `diagnostics` keeps while it waits for restart_attempts
\* keep every writer of that entry's state, tools and last_error out.
ReadLocked(e) == \E t \in Tasks : At(t, "count") /\ Of(t) = e

InUse == ({connection[e] : e \in Entry} \cup {task[t].child : t \in Tasks}) \ {NoChild}

\* Bound: a request that may start servers begins when no more children are
\* left over than the servers that are configured.
RoomBeside(children) == Cardinality(children) <= Width

MayBegin(t, kind) ==
    /\ ~stopping /\ At(t, "idle")
    /\ kind \in {"diagnose", "shutdown"} \/ RoomBeside(alive \cup InUse)
    /\ \/ Quiet
       \/ "diagnose" \in disturbances
       \/ "overlap" \in disturbances /\ "diagnose" \notin {kind} \cup {task[u].kind : u \in Tasks}

\* catalog and the boot task are in start_enabled, which skips disabled
\* entries; a call visits the entry that has the tool, if one has.
Begin(t, kind) ==
    /\ kind \in {"catalog", "diagnose", "shutdown"}
    /\ MayBegin(t, kind)
    /\ stopping' = (kind = "shutdown")
    /\ LET at == [catalog |-> "ensure", diagnose |-> "read", shutdown |-> "stop"][kind]
           todo == IF kind = "catalog" THEN EnabledEntries(generation, enabled) ELSE Entries(generation)
       IN  Visit(t, kind, at, todo)
    /\ UNCHANGED <<disturbances, generation, enabled, locks, entry, alive>>

BeginCall(t, e) ==
    /\ MayBegin(t, "call")
    /\ e[1] = generation /\ tools[e]
    /\ Visit(t, "call", "ensure", <<e>>)
    /\ UNCHANGED <<disturbances, stopping, generation, enabled, locks, entry, alive>>

\* reconcile: the map is replaced, if the configuration is valid; then the
\* old entries are stopped.
Reconcile(t, on) ==
    /\ "reload" \in disturbances
    /\ MayBegin(t, "reconcile")
    /\ generation < MaxGeneration
    /\ Fresh(generation + 1, on)
    /\ Visit(t, "reconcile", "stop", Entries(generation))
    /\ UNCHANGED <<disturbances, stopping, locks, entry, alive>>

-----------------------------------------------------------------------------
(* ensure_entry.                                                            *)

\* It returns to its caller with a connection, or with an error (NoChild).
\* start_enabled ignores both, a call goes on with the connection.
Return(t, child) ==
    IF task[t].kind # "call" THEN Advance(t, "ensure")
    ELSE IF child = NoChild THEN Finish(t)
    ELSE task' = [task EXCEPT ![t].at = "invoke", ![t].child = child]

\* The entry has a connection.  If the child said that its tools have
\* changed, the list is read again with the connection mutex held.
FindConnection(t) ==
    LET e == Of(t) IN
    /\ At(t, "ensure")
    /\ user[e] = Nobody /\ connection[e] # NoChild
    /\ IF dirty[e]
       THEN /\ dirty' = [dirty EXCEPT ![e] = FALSE]
            /\ user' = [user EXCEPT ![e] = t]
            /\ task' = [task EXCEPT ![t].at = "relist", ![t].child = connection[e]]
       ELSE Return(t, connection[e]) /\ UNCHANGED <<dirty, user>>
    /\ UNCHANGED <<disturbances, stopping, generation, enabled, starter, state, attempts,
                   connection, tools, failures, changed, alive>>

\* It has none: the start is queued behind the restart_attempts mutex.
NoConnection(t) ==
    LET e == Of(t) IN
    /\ At(t, "ensure")
    /\ user[e] = Nobody /\ connection[e] = NoChild
    /\ Goto(t, "attempts")
    /\ UNCHANGED <<disturbances, stopping, generation, enabled, locks, entry, alive>>

\* list_all_tools: the child answers, or fails if it may.
Answers(child, ok) == IF ok THEN child \in alive ELSE "exit" \in disturbances \/ child \notin alive

\* Mutant: the flag is cleared when the list has come.
RelistThenClear(t, ok) ==
    LET e == Of(t) IN
    /\ At(t, "relist")
    /\ Answers(task[t].child, ok)
    /\ ok => ~ReadLocked(e)
    /\ tools' = IF ok THEN [tools EXCEPT ![e] = TRUE] ELSE tools
    /\ changed' = IF ok THEN [changed EXCEPT ![e] = dirty[e]] ELSE changed
    /\ dirty' = [dirty EXCEPT ![e] = FALSE]
    /\ user' = [user EXCEPT ![e] = Nobody]
    /\ Return(t, IF ok THEN task[t].child ELSE NoChild)
    /\ UNCHANGED <<disturbances, stopping, generation, enabled, starter, state, attempts,
                   connection, failures, alive>>

\* refresh_catalog of a connection, and the end of the mutex.  A change the
\* child reports while it is asked may not be in its answer.
Relist(t, ok) ==
    LET e == Of(t) IN
    /\ At(t, "relist")
    /\ Answers(task[t].child, ok)
    /\ ok => ~ReadLocked(e)
    /\ tools' = IF ok THEN [tools EXCEPT ![e] = TRUE] ELSE tools
    /\ changed' = IF ok THEN [changed EXCEPT ![e] = dirty[e]] ELSE changed
    /\ user' = [user EXCEPT ![e] = Nobody]
    /\ Return(t, IF ok THEN task[t].child ELSE NoChild)
    /\ UNCHANGED <<disturbances, stopping, generation, enabled, starter, state, attempts,
                   connection, dirty, failures, alive>>

\* The mutex is locked for the whole start.  The connection is not looked
\* at again.
LockAttempts(t) ==
    LET e == Of(t) IN
    /\ At(t, "attempts") /\ starter[e] = Nobody
    /\ IF attempts[e] >= MaxAttempts /\ attempts[e] # 0
       THEN Return(t, NoChild) /\ UNCHANGED starter
       ELSE Goto(t, "spawn") /\ starter' = [starter EXCEPT ![e] = t]
    /\ UNCHANGED <<disturbances, stopping, generation, enabled, user, entry, alive>>

\* The child is spawned, or the command cannot be run.  Bound: a process id
\* is left for it.
Spawn(t, ok) ==
    LET e == Of(t)
        unused == Children \ (alive \cup InUse)
        child == CHOOSE c \in unused : TRUE
    IN  /\ At(t, "spawn") /\ ~ReadLocked(e)
        /\ IF ok THEN unused # {} ELSE "exit" \in disturbances
        /\ state' = [state EXCEPT ![e] = "starting"]
        /\ IF ok
           THEN /\ alive' = alive \cup {child}
                /\ task' = [task EXCEPT ![t].at = "handshake", ![t].child = child]
           ELSE Goto(t, "fail") /\ UNCHANGED alive
        /\ UNCHANGED <<disturbances, stopping, generation, enabled, locks, attempts,
                       connection, tools, dirty, failures, changed>>

\* Mutant: the child is not killed when its handshake fails.
HandshakeForgets(t, ok) ==
    /\ At(t, "handshake")
    /\ Answers(task[t].child, ok)
    /\ task' = [task EXCEPT ![t].at = IF ok THEN "list" ELSE "fail",
                            ![t].child = IF ok THEN @ ELSE NoChild]
    /\ UNCHANGED <<disturbances, stopping, generation, enabled, locks, entry, alive>>

\* The handshake, under a timeout.
Handshake(t, ok) ==
    /\ At(t, "handshake")
    /\ Answers(task[t].child, ok)
    /\ alive' = IF ok THEN alive ELSE alive \ {task[t].child}
    /\ Goto(t, IF ok THEN "list" ELSE "fail")
    /\ UNCHANGED <<disturbances, stopping, generation, enabled, locks, entry>>

\* refresh_catalog of the new connection; stop_connection when it fails.
FirstList(t, ok) ==
    LET e == Of(t) IN
    /\ At(t, "list")
    /\ Answers(task[t].child, ok)
    /\ ok => ~ReadLocked(e)
    /\ tools' = IF ok THEN [tools EXCEPT ![e] = TRUE] ELSE tools
    /\ changed' = IF ok THEN [changed EXCEPT ![e] = dirty[e]] ELSE changed
    /\ alive' = IF ok THEN alive ELSE alive \ {task[t].child}
    /\ Goto(t, IF ok THEN "healthy" ELSE "fail")
    /\ UNCHANGED <<disturbances, stopping, generation, enabled, locks, state, attempts,
                   connection, dirty, failures>>

\* last_error and state are written ...
Healthy(t) ==
    LET e == Of(t) IN
    /\ At(t, "healthy") /\ ~ReadLocked(e)
    /\ state' = [state EXCEPT ![e] = "healthy"]
    /\ Goto(t, "publish")
    /\ UNCHANGED <<disturbances, stopping, generation, enabled, locks, attempts,
                   connection, tools, dirty, failures, changed, alive>>

\* ... and then the connection, over one that another start may have made.
PublishConnection(t) ==
    LET e == Of(t) IN
    /\ At(t, "publish") /\ user[e] = Nobody
    /\ connection' = [connection EXCEPT ![e] = task[t].child]
    /\ attempts' = [attempts EXCEPT ![e] = 0]
    /\ failures' = [failures EXCEPT ![e] = 0]
    /\ starter' = [starter EXCEPT ![e] = Nobody]
    /\ Return(t, task[t].child)
    /\ UNCHANGED <<disturbances, stopping, generation, enabled, user, state, tools, dirty,
                   changed, alive>>

\* Mutant: a start that fails is not counted.
FailUncounted(t) ==
    LET e == Of(t) IN
    /\ At(t, "fail") /\ ~ReadLocked(e)
    /\ failures' = [failures EXCEPT ![e] = @ + 1]
    /\ state' = [state EXCEPT ![e] = "failed"]
    /\ starter' = [starter EXCEPT ![e] = Nobody]
    /\ Return(t, NoChild)
    /\ UNCHANGED <<disturbances, stopping, generation, enabled, user, attempts, connection,
                   tools, dirty, changed, alive>>

\* Mutant: the attempts that are left are counted, from 0.
FailCountsDown(t) ==
    LET e == Of(t) IN
    /\ At(t, "fail") /\ ~ReadLocked(e)
    /\ attempts' = [attempts EXCEPT ![e] = @ - 1]
    /\ failures' = [failures EXCEPT ![e] = @ + 1]
    /\ state' = [state EXCEPT ![e] = "failed"]
    /\ starter' = [starter EXCEPT ![e] = Nobody]
    /\ Return(t, NoChild)
    /\ UNCHANGED <<disturbances, stopping, generation, enabled, user, connection, tools,
                   dirty, changed, alive>>

\* fail
Fail(t) ==
    LET e == Of(t) IN
    /\ At(t, "fail") /\ ~ReadLocked(e)
    /\ attempts' = [attempts EXCEPT ![e] = @ + 1]
    /\ failures' = [failures EXCEPT ![e] = @ + 1]
    /\ state' = [state EXCEPT ![e] = "failed"]
    /\ starter' = [starter EXCEPT ![e] = Nobody]
    /\ Return(t, NoChild)
    /\ UNCHANGED <<disturbances, stopping, generation, enabled, user, connection, tools,
                   dirty, changed, alive>>

-----------------------------------------------------------------------------
(* call, stop_entry and diagnostics.                                        *)

\* The arguments do not fit the schema, or the answer comes, in time, and
\* with a size that is accepted or not.
Answered(t) ==
    /\ At(t, "invoke")
    /\ Finish(t)
    /\ UNCHANGED <<disturbances, stopping, generation, enabled, locks, entry, alive>>

\* The call times out, breaks or is cancelled: its outcome is uncertain and
\* the server is stopped.
Uncertain(t) ==
    /\ At(t, "invoke")
    /\ task' = [task EXCEPT ![t].at = "stop", ![t].child = NoChild]
    /\ UNCHANGED <<disturbances, stopping, generation, enabled, locks, entry, alive>>

\* stop_entry takes whatever connection the entry has by now and kills its
\* child, with the connection mutex held.
TakeConnection(t) ==
    LET e == Of(t) IN
    /\ At(t, "stop")
    /\ user[e] = Nobody
    /\ IF connection[e] = NoChild THEN Goto(t, "stopped") /\ UNCHANGED <<user, connection, alive>>
       ELSE /\ user' = [user EXCEPT ![e] = t]
            /\ connection' = [connection EXCEPT ![e] = NoChild]
            /\ alive' = alive \ {connection[e]}
            /\ Goto(t, "waiting")
    /\ UNCHANGED <<disturbances, stopping, generation, enabled, starter, state, attempts,
                   tools, dirty, failures, changed>>

\* Mutant: the restart_attempts are locked too, to be reset, with the
\* connection mutex held.
WaitedForStarter(t) ==
    /\ At(t, "waiting") /\ starter[Of(t)] = Nobody
    /\ user' = [user EXCEPT ![Of(t)] = Nobody]
    /\ Goto(t, "stopped")
    /\ UNCHANGED <<disturbances, stopping, generation, enabled, starter, entry, alive>>

\* stop_connection waits for the child, at most its grace period.
Waited(t) ==
    /\ At(t, "waiting")
    /\ user' = [user EXCEPT ![Of(t)] = Nobody]
    /\ Goto(t, "stopped")
    /\ UNCHANGED <<disturbances, stopping, generation, enabled, starter, entry, alive>>

Stopped(t) ==
    LET e == Of(t) IN
    /\ At(t, "stopped") /\ ~ReadLocked(e)
    /\ state' = [state EXCEPT ![e] = "stopped"]
    /\ IF task[t].kind = "call" THEN Finish(t) ELSE Advance(t, "stop")
    /\ UNCHANGED <<disturbances, stopping, generation, enabled, locks, attempts, connection,
                   tools, dirty, failures, changed, alive>>

\* diagnostics: state, tools and last_error are read, and their guards live
\* until the end of the statement ...
ReadEntry(t) ==
    /\ At(t, "read")
    /\ Goto(t, "count")
    /\ UNCHANGED <<disturbances, stopping, generation, enabled, locks, entry, alive>>

\* ... that also waits for restart_attempts.
CountAttempts(t) ==
    /\ At(t, "count") /\ starter[Of(t)] = Nobody
    /\ Advance(t, "read")
    /\ UNCHANGED <<disturbances, stopping, generation, enabled, locks, entry, alive>>

-----------------------------------------------------------------------------
(* The environment.                                                         *)

\* on_tool_list_changed
ListChanged(e) ==
    /\ "changes" \in disturbances
    /\ connection[e] \in alive \/ \E t \in Tasks : starter[e] = t /\ task[t].child \in alive
    /\ dirty' = [dirty EXCEPT ![e] = TRUE]
    /\ changed' = [changed EXCEPT ![e] = TRUE]
    /\ UNCHANGED <<disturbances, stopping, generation, enabled, locks, state, attempts,
                   connection, tools, failures, alive, task>>

\* A child exits.  One whose connection or server is gone reads the end of
\* its input.
ChildExits(c) ==
    /\ c \in alive
    /\ "exit" \in disturbances \/ c \notin InUse \/ (stopping /\ Quiet)
    /\ alive' = alive \ {c}
    /\ UNCHANGED <<disturbances, stopping, generation, enabled, locks, entry, task>>

\* A request is dropped at an await, and with it the guards it holds.  A
\* child that it was starting is not killed.  The boot task is aborted by a
\* shutdown.
Dropped(t) ==
    /\ ~At(t, "idle")
    /\ \/ "dropped" \in disturbances /\ task[t].kind # "shutdown"
       \/ stopping /\ task[t].kind = "boot"
    /\ Finish(t)
    /\ starter' = [e \in Entry |-> IF starter[e] = t THEN Nobody ELSE starter[e]]
    /\ user' = [e \in Entry |-> IF user[e] = t THEN Nobody ELSE user[e]]
    /\ UNCHANGED <<disturbances, stopping, generation, enabled, entry, alive>>

\* The process ends and is started again.
Restart ==
    /\ stopping /\ Quiet /\ RoomBeside(alive)
    /\ stopping' = FALSE
    /\ \E on \in Configs : Fresh(1, on)
    /\ state' = [e \in Entry |-> "stopped"]
    /\ attempts' = [e \in Entry |-> 0] /\ failures' = attempts'
    /\ connection' = [e \in Entry |-> NoChild]
    /\ tools' = [e \in Entry |-> FALSE] /\ dirty' = tools' /\ changed' = tools'
    /\ \E b \in Tasks : task' = [task EXCEPT ![b] = BootTask(enabled')]
    /\ UNCHANGED <<disturbances, locks, alive>>

-----------------------------------------------------------------------------
TaskStep(t) ==
    \/ FindConnection(t) \/ NoConnection(t) \/ LockAttempts(t)
    \/ \E ok \in BOOLEAN : Relist(t, ok) \/ Spawn(t, ok) \/ Handshake(t, ok) \/ FirstList(t, ok)
    \/ Healthy(t) \/ PublishConnection(t) \/ Fail(t)
    \/ Answered(t) \/ Uncertain(t)
    \/ TakeConnection(t) \/ Waited(t) \/ Stopped(t)
    \/ ReadEntry(t) \/ CountAttempts(t)

NewRequest(t) ==
    \/ \E kind \in Kinds : Begin(t, kind)
    \/ \E e \in Entry : BeginCall(t, e)
    \/ \E on \in Configs : Reconcile(t, on)

Next ==
    \/ \E t \in Tasks : NewRequest(t) \/ TaskStep(t) \/ Dropped(t)
    \/ \E e \in Entry : ListChanged(e)
    \/ \E c \in Children : ChildExits(c)
    \/ Restart

\* Every task is run, its mutexes are handed over in the order in which they
\* were asked for, and a child that runs answers or is given up on; the list
\* of tools alone is waited for without a timeout.
Fairness == \A t \in Tasks : SF_vars(TaskStep(t))

Spec == Init /\ [][Next]_vars /\ Fairness

-----------------------------------------------------------------------------
\* Type correctness: entries, mutexes and children of the generations so far;
\* the restart counter is an unsigned number.
TypeOK ==
    /\ generation \in 1..MaxGeneration
    /\ state \in [Entry -> States]
    /\ attempts \in [Entry -> Nat]
    /\ connection \in [Entry -> Children \cup {NoChild}]
    /\ starter \in [Entry -> Tasks \cup {Nobody}] /\ user \in [Entry -> Tasks \cup {Nobody}]
    /\ tools \in [Entry -> BOOLEAN] /\ dirty \in [Entry -> BOOLEAN]
    /\ alive \subseteq Children
    /\ \A t \in Tasks : task[t].kind \in Kinds \cup {"none"} /\ task[t].todo \in Seq(Entry)

\* docs/milestones/M4 "bounded restart": whatever requests ask for a server
\* at once, are dropped or come later, a command that cannot be started is
\* tried at most max_restart_attempts times in a row (once if that is 0).
RestartsBounded ==
    \A e \in Entry : failures[e] <= IF MaxAttempts = 0 THEN 1 ELSE MaxAttempts

\* Requests come one after another and are not dropped.
Tidy == disturbances \subseteq {"several", "exit", "changes", "reload"}

\* M4 "Prevent orphan processes on server shutdown or failed startup": when
\* nothing is in flight every child that runs is the connection of an entry
\* that is configured, none after a shutdown, and the state that diagnostics
\* report is healthy for exactly the entries with a connection.
NoOrphan ==
    Tidy /\ Quiet =>
        /\ alive \subseteq {connection[e] : e \in {f \in Entry : f[1] = generation}}
        /\ stopping => alive = {}
        /\ \A e \in Entry : state[e] = "healthy" <=> connection[e] # NoChild

\* M4 "`tools/list_changed` refresh": a change that a child reports, also
\* while its tools are being listed, is in the catalog or still flagged for
\* the next one, unless a listing fails or is dropped.
ChangeNoticed ==
    stopping \/ disturbances \cap {"exit", "dropped"} # {} \/
        \A e \in Entry : changed[e] =>
            dirty[e] \/ \E t \in Tasks : At(t, "relist") /\ Of(t) = e

\* Every request comes to an end, also while others start, list, call or
\* stop the same server: the mutexes are taken in one order.
RequestEnds ==
    \A t \in Tasks :
        task[t].at # "idle" /\ "diagnose" \notin disturbances ~> task[t].at = "idle"

\* README.md "Inspect non-secret server state and the published catalog with
\* `GET /api/v1/mcp/servers`": the request is answered, also while a server
\* is being started.
DiagnosticsAnswered ==
    \A t \in Tasks : task[t].kind = "diagnose" ~> task[t].kind # "diagnose"
=============================================================================
