-------------------------- MODULE SessionProjection --------------------------
(***************************************************************************)
(* The session projection of piqo-core (session.rs): the state every       *)
(* component derives from a session's event log by applying the events in  *)
(* order.  `Accepts(p, e)` is the condition under which                    *)
(* SessionProjection::apply returns Ok, `Effect(p, e)` the projection it   *)
(* leaves, and `Apply` the two together: an event that is refused leaves   *)
(* the Corrupt projection, because every caller drops the half-updated     *)
(* value and reports the error.                                            *)
(*                                                                         *)
(* Maps keyed by identifiers are functions over the identifier sets, with  *)
(* status "absent" (or an unset flag) for a missing key.  Payloads (text,  *)
(* arguments, errors, usage) are left out; tool results, execution ids and *)
(* agent results are opaque members of Values.                             *)
(***************************************************************************)
EXTENDS Naturals, Sequences, FiniteSets

CONSTANTS
    Runs,       \* run identifiers; UUIDv7, hence ordered by creation
    Calls,      \* provider tool-call identifiers
    Messages,   \* message identifiers; UUIDv7, ordered by creation
    Requests,   \* permission-request identifiers
    Agents,     \* delegated agent instances
    Values      \* opaque payloads compared for equality only

ASSUME IdsAreOrdered == Runs \subseteq Nat /\ Messages \subseteq Nat

Nil == "nil"

Phases == {"created", "running", "interrupted", "finished", "failed"}
Terminal == {"completed", "failed", "cancelled", "interrupted"}
Unfinished == {"queued", "running", "requires_action"}
RunStatuses == Unfinished \cup Terminal

NoCall == [emitted |-> FALSE, native |-> FALSE, execution |-> Nil, result |-> Nil]
NoRun == [status |-> "absent", retry |-> FALSE, attempts |-> 0,
          calls |-> [c \in Calls |-> NoCall]]
NoMessage == [status |-> "absent", role |-> "user"]
NoRequest == [run |-> 0, call |-> Nil, decision |-> "absent"]
NoAgent == [spawned |-> FALSE, result |-> Nil]

\* SessionProjection::new
Empty ==
    [ phase |-> "created", revision |-> 0, last |-> 0, paused |-> FALSE,
      runs |-> [r \in Runs |-> NoRun],
      messages |-> [m \in Messages |-> NoMessage],
      requests |-> [q \in Requests |-> NoRequest],
      agents |-> [a \in Agents |-> NoAgent] ]

\* What a replay that met an error is left with.
Corrupt == [Empty EXCEPT !.phase = "corrupt"]

\* Which phases SessionState::transition may leave for `to`.
AllowedSources(to) ==
    CASE to = "running" -> {"created", "finished", "interrupted", "failed"}
      [] to \in {"interrupted", "finished"} -> {"running"}
      [] to = "failed" -> {"created", "running", "interrupted"}
      [] OTHER -> {}

-----------------------------------------------------------------------------
(* Events.  One constructor per SemanticEvent the server appends; several   *)
(* that differ only in payload share the `type` of what they do.            *)

SessionCreated == [type |-> "session_created"]
SessionInterrupted == [type |-> "session_interrupted"]
SessionForked == [type |-> "session_forked"]
PhaseChanged(from, to) == [type |-> "phase_changed", from |-> from, to |-> to]
QueuePaused == [type |-> "queue_paused"]
QueueResumed == [type |-> "queue_resumed"]
RunQueued(r, retry) == [type |-> "run_queued", run |-> r, retry |-> retry]
RunStarted(r, n) == [type |-> "run_started", run |-> r, attempt |-> n]
RunAttemptStarted(r, n) == [type |-> "attempt_started", run |-> r, attempt |-> n]
RunRequiresAction(r) == [type |-> "requires_action", run |-> r]
RunEnded(r, status) == [type |-> "run_ended", run |-> r, status |-> status]
MessageStarted(m, role) == [type |-> "message_started", message |-> m, role |-> role]
MessageAppended(m) == [type |-> "message_appended", message |-> m]
MessageClosed(m, status) == [type |-> "message_closed", message |-> m, status |-> status]
ToolCallEmitted(r, c, native) ==
    [type |-> "call_emitted", run |-> r, call |-> c, native |-> native]
ToolExecutionStarted(r, c, x) ==
    [type |-> "execution_started", run |-> r, call |-> c, value |-> x]
ToolResult(r, c, v) == [type |-> "tool_result", run |-> r, call |-> c, value |-> v]
PermissionRequested(q, r, c) ==
    [type |-> "permission_requested", request |-> q, run |-> r, call |-> c]
PermissionResolved(q, d) ==
    [type |-> "permission_resolved", request |-> q, decision |-> d]
AgentSpawned(a) == [type |-> "agent_spawned", agent |-> a]
AgentFinished(a, v) == [type |-> "agent_finished", agent |-> a, value |-> v]
AgentResultDelivered(a, v) == [type |-> "agent_delivered", agent |-> a, value |-> v]

-----------------------------------------------------------------------------
(* SessionState::apply: the phase, the revision and the last event id.      *)

StateAccepts(p, e) ==
    CASE e.type = "session_created" -> p.revision = 0 /\ p.last = 0
      [] e.type = "phase_changed" -> p.phase = e.from /\ p.phase \in AllowedSources(e.to)
      [] e.type = "session_interrupted" -> p.phase = "running"
      [] OTHER -> TRUE

StateEffect(p, id, e) ==
    LET to == CASE e.type = "phase_changed" -> e.to
                [] e.type \in {"session_interrupted", "session_forked"} -> "interrupted"
                [] OTHER -> p.phase
        moves == e.type \in {"phase_changed", "session_interrupted", "session_forked"}
    IN  [p EXCEPT !.phase = to, !.last = id,
                  !.revision = IF moves THEN @ + 1 ELSE @]

\* A value that may be written once, or again with the same value.
WriteOnce(old, new) == old = Nil \/ old = new

\* Mutant: a run that has ended may end again.
MayEndTwice(status) == status # "absent"

\* set_run_terminal: which runs may end.
MayEnd(status) == status \in Unfinished

\* The arms of SessionProjection::apply that can refuse an event.
Accepts(p, e) ==
    /\ StateAccepts(p, e)
    /\ CASE e.type = "run_queued" -> p.runs[e.run].status = "absent"
         [] e.type = "run_started" -> p.runs[e.run].status \in {"queued", "requires_action"}
         [] e.type \in {"attempt_started", "requires_action"} ->
                p.runs[e.run].status = "running"
         [] e.type = "run_ended" -> MayEnd(p.runs[e.run].status)
         [] e.type = "message_started" -> p.messages[e.message].status = "absent"
         [] e.type \in {"message_appended", "message_closed"} ->
                p.messages[e.message].status = "open"
         [] e.type = "call_emitted" ->
                /\ p.runs[e.run].status # "absent"
                /\ ~p.runs[e.run].calls[e.call].emitted
         [] e.type = "execution_started" ->
                /\ p.runs[e.run].calls[e.call].emitted
                /\ p.runs[e.run].calls[e.call].native
                /\ WriteOnce(p.runs[e.run].calls[e.call].execution, e.value)
         [] e.type = "tool_result" ->
                /\ p.runs[e.run].calls[e.call].emitted
                /\ WriteOnce(p.runs[e.run].calls[e.call].result, e.value)
         [] e.type = "permission_requested" -> p.requests[e.request].decision = "absent"
         [] e.type = "permission_resolved" ->
                p.requests[e.request].decision \in {"pending", e.decision}
         [] e.type = "agent_spawned" -> ~p.agents[e.agent].spawned
         [] e.type \in {"agent_finished", "agent_delivered"} ->
                /\ p.agents[e.agent].spawned
                /\ e.value = Nil \/ WriteOnce(p.agents[e.agent].result, e.value)
         [] OTHER -> TRUE

RunEffect(run, e) ==
    CASE e.type = "run_queued" -> [NoRun EXCEPT !.status = "queued", !.retry = e.retry]
      [] e.type = "run_started" -> [run EXCEPT !.status = "running", !.attempts = e.attempt]
      [] e.type = "attempt_started" -> [run EXCEPT !.attempts = e.attempt]
      [] e.type = "requires_action" -> [run EXCEPT !.status = "requires_action"]
      [] e.type = "run_ended" -> [run EXCEPT !.status = e.status]
      [] e.type = "call_emitted" ->
            [run EXCEPT !.calls[e.call] = [NoCall EXCEPT !.emitted = TRUE, !.native = e.native]]
      [] e.type = "execution_started" -> [run EXCEPT !.calls[e.call].execution = e.value]
      [] e.type = "tool_result" -> [run EXCEPT !.calls[e.call].result = e.value]
      [] OTHER -> run

\* queue_paused after an event: what pauses the queue and what resumes it.
PausedEffect(p, e) ==
    CASE e.type \in {"run_started", "queue_resumed"} -> FALSE
      [] e.type \in {"requires_action", "queue_paused", "session_forked"} -> TRUE
      [] e.type = "run_ended" /\ e.status # "completed" -> TRUE
      [] OTHER -> p.paused

\* An event may name a run together with other keys, so the maps are
\* updated side by side.
Effect(p, id, e) ==
    LET q == [StateEffect(p, id, e) EXCEPT !.paused = PausedEffect(p, e)] IN
    CASE e.type = "message_started" ->
            [q EXCEPT !.messages[e.message] = [status |-> "open", role |-> e.role]]
      [] e.type = "message_closed" -> [q EXCEPT !.messages[e.message].status = e.status]
      [] e.type = "permission_requested" ->
            [q EXCEPT !.requests[e.request] =
                [run |-> e.run, call |-> e.call, decision |-> "pending"]]
      [] e.type = "permission_resolved" -> [q EXCEPT !.requests[e.request].decision = e.decision]
      [] e.type = "agent_spawned" -> [q EXCEPT !.agents[e.agent].spawned = TRUE]
      [] e.type \in {"agent_finished", "agent_delivered"} ->
            [q EXCEPT !.agents[e.agent].result = IF e.value = Nil THEN @ ELSE e.value]
      [] OTHER -> IF "run" \in DOMAIN e THEN [q EXCEPT !.runs[e.run] = RunEffect(@, e)] ELSE q

Apply(p, id, e) ==
    IF p.phase # "corrupt" /\ Accepts(p, e) THEN Effect(p, id, e) ELSE Corrupt

-----------------------------------------------------------------------------
(* Folds.  A recorded event is [id, event]; a batch is a sequence of events *)
(* that are given the ids after `last`.                                     *)

\* A sequence, whatever its elements are.
IsSeq(x) == Len(x) \in Nat /\ x = [i \in 1..Len(x) |-> x[i]]

Record(last, batch) == [i \in 1..Len(batch) |-> [id |-> last + i, event |-> batch[i]]]

\* The projections after 0, 1, ..., Len(records) events.
Steps(p, records) ==
    LET f[i \in 0..Len(records)] ==
            IF i = 0 THEN p ELSE Apply(f[i - 1], records[i].id, records[i].event)
    IN  f

ApplyAll(p, records) == Steps(p, records)[Len(records)]

\* storage.rs project(): a replay also refuses a gap in the ids and an empty
\* log.
Project(log) ==
    IF log = <<>> \/ \E i \in DOMAIN log : log[i].id # i
    THEN Corrupt
    ELSE ApplyAll(Empty, log)

Replayable(log) == Project(log).phase # "corrupt"

-----------------------------------------------------------------------------
(* Queries on a projection.                                                 *)

RunsIn(p, statuses) == {r \in Runs : p.runs[r].status \in statuses}

ActiveRuns(p) == RunsIn(p, {"running"})

\* queued_runs().next(): retries first, then the oldest run.
NextQueued(p) ==
    LET queued == RunsIn(p, {"queued"})
        first == IF \E r \in queued : p.runs[r].retry
                 THEN {r \in queued : p.runs[r].retry} ELSE queued
    IN  CHOOSE r \in first : \A o \in first : r <= o

\* ready_action_run(): every emitted call of a paused run has its result.
CallsAnswered(run) ==
    /\ \E c \in Calls : run.calls[c].emitted
    /\ \A c \in Calls : run.calls[c].emitted => run.calls[c].result # Nil

ReadyActionRuns(p) ==
    {r \in RunsIn(p, {"requires_action"}) : CallsAnswered(p.runs[r])}

\* The assistant message that was started last, among those in `statuses`.
LastAssistant(p, statuses) ==
    LET found == {m \in Messages : /\ p.messages[m].role = "assistant"
                                   /\ p.messages[m].status \in statuses}
    IN  {m \in found : \A o \in found : o <= m}

\* fork_session: the events a branch starts with after its copied prefix.
BranchEvents(p) ==
    <<SessionForked>>
    \o (IF ActiveRuns(p) = {} THEN <<>>
        ELSE <<RunEnded(CHOOSE r \in ActiveRuns(p) : \A o \in ActiveRuns(p) : r <= o,
                        "interrupted")>>)
    \o <<QueuePaused>>
=============================================================================
