----------------------------- MODULE Supervisor ------------------------------
(***************************************************************************)
(* SessionSupervisor (supervisor.rs) with the start and the stop of the    *)
(* process (runtime.rs): HTTP handlers that queue, cancel, retry and       *)
(* resume, one worker at a time per session that carries a run from its    *)
(* queue to a terminal event, admission slots, active-run permits, the     *)
(* graceful shutdown, the crash and the recovery at the next start.        *)
(*                                                                         *)
(* Each append is one step on the session's projection, as SerialLog       *)
(* promises, and each await between two appends is a place where another   *)
(* task may run.  The per-session mutex is the one SessionLocks shows to   *)
(* exclude.  Tool calls are recorded while the model streams.  Permission  *)
(* requests are made only by the branch of finish_run for the result       *)
(* Completed, which execute_run turns into CompletedWithUsage, so no call  *)
(* is ever permitted or answered: submit_tool_result and                   *)
(* resolve_permission always refuse, a run at requires_action can only be  *)
(* cancelled or interrupted, and the ready-action branch of                *)
(* process_session is never taken.  They and the child agents that a       *)
(* permitted call starts are modelled in ToolGate.                         *)
(***************************************************************************)
EXTENDS SessionProjection

CONSTANTS
    Sessions,
    ProjectSessions,        \* the sessions of the project that may be deleted
    Handlers,       \* HTTP requests that may be in flight at once
    MaxPending,     \* max_pending_runs
    MaxPerSession,  \* max_pending_runs_per_session
    MaxActive,      \* max_active_runs
    MaxAttempts,    \* provider attempts of a run: the first and its retries
    Scenarios       \* what the environment may do, as sets of AllDisturbances

AllDisturbances ==
    { "stop",           \* the host asks for a shutdown
      "busy",           \* ... also while requests are in flight
      "abort",          \* ... and the workers outlast the grace period
      "crash",          \* the process dies while it serves or stops
      "recovery_crash", \* ... or while it recovers
      "disconnect",     \* a client goes away and its handler is dropped
      "delete",         \* the project is deleted while no other request is in flight
      "calls",          \* the model asks for tool calls
      "retry",          \* the provider fails before it has sent anything
      "storage" }       \* an append fails although its events are legal

ASSUME SupervisorAssumption ==
    /\ Messages = Runs
    /\ ProjectSessions \subseteq Sessions
    /\ MaxActive \in Nat /\ MaxAttempts \in Nat
    /\ Scenarios \subseteq SUBSET AllDisturbances

VARIABLES
    disturbances,   \* those of this behaviour
    server,     \* "up", a stage of Stopping, "down" or "recovering"
    todo,       \* sessions that shutdown or recovery still has to visit
    visit,      \* the one it is visiting, and the events it will append
    proj,       \* session -> its projection: the durable state
    gone,       \* sessions whose rows are deleted; proj keeps what they were
    deletion,   \* delete_project: what it is in the middle of
    worker,     \* session -> the worker that holds its lock
    waiting,    \* session -> workers that wait for the lock
    token,      \* cancellations: run -> "none", "live" or "cancelled"
    req,        \* handler -> what it is in the middle of
    pending, load, owner    \* AdmissionController

slots == <<pending, load, owner>>
removal == <<gone, deletion>>
process == <<disturbances, removal, server, todo, visit>>
vars == <<process, proj, worker, waiting, token, req, slots>>

Slots == INSTANCE Admission

ASSUME SlotsAssumption == Slots!AdmissionAssumption

\* The stages of shutdown; the last three say how it ended.
Stopping == {"draining", "interrupting", "overdue", "stopped", "expired", "failed"}

NoDeletion == [at |-> "none", todo |-> {}, session |-> Nil, events |-> <<>>]
NoVisit == [session |-> Nil, events |-> <<>>]
\* `out` is the phase a run was picked in and later the outcome of execute_run.
NoWorker == [at |-> "idle", run |-> 0, out |-> Nil]
NoReq == [at |-> "idle"]

\* SessionSupervisor.shutdown, the cancellation token.
ShuttingDown == server \in Stopping
Running == server = "up" \/ ShuttingDown
Interrupting == server \in {"interrupting", "overdue"}

\* What a process that has just started has in memory.
FreshMemory ==
    /\ deletion' = NoDeletion
    /\ worker' = [s \in Sessions |-> NoWorker]
    /\ waiting' = [s \in Sessions |-> 0]
    /\ token' = [r \in Runs |-> "none"]
    /\ req' = [h \in Handlers |-> NoReq]
    /\ pending' = 0
    /\ load' = [s \in Sessions |-> 0]
    /\ owner' = [r \in Runs |-> Slots!NoSession]

Init ==
    /\ disturbances \in Scenarios
    /\ server = "up" /\ todo = {} /\ visit = NoVisit
    /\ gone = {} /\ deletion = NoDeletion
    /\ proj = [s \in Sessions |-> Empty]
    /\ worker = [s \in Sessions |-> NoWorker]
    /\ waiting = [s \in Sessions |-> 0]
    /\ token = [r \in Runs |-> "none"]
    /\ req = [h \in Handlers |-> NoReq]
    /\ Slots!Init

-----------------------------------------------------------------------------
(* Appending.  Nothing here reads an event id or the revision, so they are  *)
(* left out of the state.                                                   *)

Appended(s, events) ==
    [ApplyAll(proj[s], Record(0, events)) EXCEPT !.last = 0, !.revision = 0]

Accepted(s, events) == s \notin gone /\ Appended(s, events).phase # "corrupt"

\* Mutant: the events are applied whether or not they are legal.
AppendUnchecked(s, events) ==
    proj' = [proj EXCEPT ![s] = Appended(s, events)]

AppendMany(s, events) ==
    /\ Accepted(s, events)
    /\ proj' = [proj EXCEPT ![s] = Appended(s, events)]

\* The projection or the database refuses.
Refused(s, events) ==
    /\ ~Accepted(s, events) \/ "storage" \in disturbances
    /\ UNCHANGED proj

\* The worker appends and goes on, or is refused and goes elsewhere.
WorkerAppends(s, events, next, otherwise) ==
    \/ AppendMany(s, events) /\ worker' = [worker EXCEPT ![s] = next]
    \/ Refused(s, events) /\ worker' = [worker EXCEPT ![s] = otherwise]

\* The runs of a set in the order of the map.
InOrder(runs) ==
    CHOOSE q \in [1..Cardinality(runs) -> runs] : \A i, j \in DOMAIN q : i < j => q[i] < q[j]

\* Mutant: no worker is spawned while one is at work on the session.
SpawnIfIdle(s) ==
    waiting' = IF ShuttingDown \/ worker[s].at # "idle" THEN waiting
               ELSE [waiting EXCEPT ![s] = @ + 1]

\* spawn_worker
SpawnWorker(s) ==
    waiting' = IF ShuttingDown THEN waiting ELSE [waiting EXCEPT ![s] = @ + 1]

-----------------------------------------------------------------------------
(* Request handlers.                                                        *)

\* Uuid::now_v7: later than every id handed out before.
Allocated ==
    {r \in Runs : \/ \E s \in Sessions : proj[s].runs[r].status # "absent"
                  \/ \E h \in Handlers : "run" \in DOMAIN req[h] /\ req[h].run = r
                  \/ owner[r] # Slots!NoSession}

FreshRun(r) == \A o \in Runs : o < r <=> o \in Allocated

\* The start of every handler: refused once shutdown has begun, for a session
\* that is not there, and while its project is being deleted
\* (ensure_session_mutable).
Accepting(h, s) ==
    /\ server = "up" /\ req[h].at = "idle"
    /\ s \notin gone
    /\ deletion = NoDeletion \/ s \notin ProjectSessions

\* queue_run, up to the append: the queue is not paused and a slot is free.
QueueRun(h, s) ==
    /\ Accepting(h, s)
    /\ ~proj[s].paused
    /\ \E r \in Runs :
          /\ FreshRun(r)
          /\ Slots!Reserve(s, r)
          /\ req' = [req EXCEPT ![h] = [at |-> "append", session |-> s, run |-> r,
                                        events |-> <<RunQueued(r, FALSE)>>]]
    /\ UNCHANGED <<process, proj, worker, waiting, token>>

\* retry, up to the append: it also resumes a queue it saw paused.
Retry(h, s, old) ==
    /\ Accepting(h, s)
    /\ proj[s].runs[old].status \in {"failed", "interrupted", "cancelled"}
    /\ \E r \in Runs :
          /\ FreshRun(r)
          /\ Slots!Reserve(s, r)
          /\ req' = [req EXCEPT ![h] = [at |-> "append", session |-> s, run |-> r,
                events |-> <<RunQueued(r, TRUE)>> \o
                           (IF proj[s].paused THEN <<QueueResumed>> ELSE <<>>)]]
    /\ UNCHANGED <<process, proj, worker, waiting, token>>

\* resume, up to the append.
Resume(h, s) ==
    /\ Accepting(h, s)
    /\ proj[s].paused
    /\ req' = [req EXCEPT ![h] = [at |-> "append", session |-> s, events |-> <<QueueResumed>>]]
    /\ UNCHANGED <<process, proj, worker, waiting, token, slots>>

\* The append of queue_run, retry and resume: their worker comes next.
AppendRequest(h) ==
    /\ Running /\ req[h].at = "append"
    /\ AppendMany(req[h].session, req[h].events)
    /\ req' = [req EXCEPT ![h] = [at |-> "spawn", session |-> req[h].session]]
    /\ UNCHANGED <<process, worker, waiting, token, slots>>

\* The append fails: queue_run and retry give their slot back.
FailRequest(h) ==
    /\ Running /\ req[h].at = "append"
    /\ Refused(req[h].session, req[h].events)
    /\ IF "run" \in DOMAIN req[h] THEN Slots!Release(req[h].run) ELSE UNCHANGED slots
    /\ req' = [req EXCEPT ![h] = NoReq]
    /\ UNCHANGED <<process, worker, waiting, token>>

SpawnForRequest(h) ==
    /\ Running /\ req[h].at = "spawn"
    /\ SpawnWorker(req[h].session)
    /\ req' = [req EXCEPT ![h] = NoReq]
    /\ UNCHANGED <<process, proj, worker, token, slots>>

\* cancel of a run that looked queued, or paused for an action.
CancelInactive(h, s, r) ==
    /\ Accepting(h, s)
    /\ proj[s].runs[r].status \in {"queued", "requires_action"}
    /\ req' = [req EXCEPT ![h] = [at |-> "cancel", session |-> s, run |-> r]]
    /\ UNCHANGED <<process, proj, worker, waiting, token, slots>>

\* Its append; the run may have moved on since it was looked at.
AppendCancel(h) ==
    LET events == <<RunEnded(req[h].run, "cancelled")>> IN
    /\ Running /\ req[h].at = "cancel"
    /\ \/ /\ AppendMany(req[h].session, events)
          /\ req' = [req EXCEPT ![h] = [at |-> "release", run |-> req[h].run]]
       \/ /\ Refused(req[h].session, events)
          /\ req' = [req EXCEPT ![h] = NoReq]
    /\ UNCHANGED <<process, worker, waiting, token, slots>>

\* release_terminal_admission after the append.
ReleaseCancelled(h) ==
    /\ Running /\ req[h].at = "release"
    /\ Slots!Release(req[h].run)
    /\ req' = [req EXCEPT ![h] = NoReq]
    /\ UNCHANGED <<process, proj, worker, waiting, token>>

\* cancel of an active run: its token is cancelled.  A run without a token
\* is reported as stopping and nothing changes.
CancelActive(h, s, r) ==
    /\ Accepting(h, s)
    /\ proj[s].runs[r].status = "running"
    /\ token[r] = "live"
    /\ token' = [token EXCEPT ![r] = "cancelled"]
    /\ UNCHANGED <<process, proj, worker, waiting, req, slots>>

\* The client goes away and the handler's future is dropped at an await.
DropRequest(h) ==
    /\ "disconnect" \in disturbances
    /\ Running /\ req[h].at # "idle"
    /\ req' = [req EXCEPT ![h] = NoReq]
    /\ UNCHANGED <<process, proj, worker, waiting, token, slots>>

-----------------------------------------------------------------------------
(* process_session: one loop iteration per run.                             *)

At(s, at) == worker[s].at = at
Step(s, at) == [worker[s] EXCEPT !.at = at]
Begin == [NoWorker EXCEPT !.at = "loop"]

\* lock.lock().await
EnterSession(s) ==
    /\ Running /\ At(s, "idle") /\ waiting[s] > 0
    /\ waiting' = [waiting EXCEPT ![s] = @ - 1]
    /\ worker' = [worker EXCEPT ![s] = Begin]
    /\ UNCHANGED <<process, proj, token, req, slots>>

\* The early returns of the loop.
LeaveSession(s) ==
    /\ At(s, "loop")
    /\ ShuttingDown \/ s \in gone \/ ActiveRuns(proj[s]) # {} \/ proj[s].paused
    /\ worker' = [worker EXCEPT ![s] = NoWorker]
    /\ UNCHANGED <<process, proj, waiting, token, req, slots>>

\* Mutant: a run is picked although another one is running.
MayPickAny(s) == At(s, "loop") /\ ~ShuttingDown /\ ~proj[s].paused

MayPick(s) ==
    /\ At(s, "loop") /\ ~ShuttingDown /\ s \notin gone
    /\ ActiveRuns(proj[s]) = {} /\ ~proj[s].paused

\* The queue looks empty: the phase will be changed, if it is running.
SeeEmptyQueue(s) ==
    /\ MayPick(s) /\ RunsIn(proj[s], {"queued"}) = {}
    /\ worker' = [worker EXCEPT ![s] =
                    IF proj[s].phase = "running" THEN Step(s, "empty") ELSE NoWorker]
    /\ UNCHANGED <<process, proj, waiting, token, req, slots>>

FinishSession(s) ==
    /\ At(s, "empty")
    /\ WorkerAppends(s, <<PhaseChanged("running", "finished")>>, NoWorker, NoWorker)
    /\ UNCHANGED <<process, waiting, token, req, slots>>

\* The run is chosen from a projection that others may change at once.
PickRun(s) ==
    /\ MayPick(s) /\ RunsIn(proj[s], {"queued"}) # {}
    /\ worker' = [worker EXCEPT ![s] =
            [at |-> IF proj[s].phase = "running" THEN "start" ELSE "phase",
             run |-> NextQueued(proj[s]), out |-> proj[s].phase]]
    /\ UNCHANGED <<process, proj, waiting, token, req, slots>>

EnterRunning(s) ==
    /\ At(s, "phase")
    /\ WorkerAppends(s, <<PhaseChanged(worker[s].out, "running")>>, Step(s, "start"), NoWorker)
    /\ UNCHANGED <<process, waiting, token, req, slots>>

\* The token is there before the run is seen running, and is removed again
\* when the run cannot be started.
StartRun(s) ==
    LET r == worker[s].run
        started == <<RunStarted(r, proj[s].runs[r].attempts + 1)>>
    IN  /\ At(s, "start")
        /\ \/ /\ AppendMany(s, started)
              /\ token' = [token EXCEPT ![r] = "live"]
              /\ worker' = [worker EXCEPT ![s] = [Step(s, "permit") EXCEPT !.out = Nil]]
           \/ /\ Refused(s, started)
              /\ worker' = [worker EXCEPT ![s] = NoWorker]
              /\ UNCHANGED token
        /\ UNCHANGED <<process, waiting, req, slots>>

\* acquire_active: the permit is held until finish_run returns.
HoldsPermit == {"open", "stream", "message", "end", "release", "turn"}

AcquirePermit(s) ==
    /\ At(s, "permit")
    /\ Cardinality({o \in Sessions : worker[o].at \in HoldsPermit}) < MaxActive
    /\ worker' = [worker EXCEPT ![s] = Step(s, "open")]
    /\ UNCHANGED <<process, proj, waiting, token, req, slots>>

\* execute_run is over: the token leaves the map.
Outcome(s, out) == [worker[s] EXCEPT !.at = "message", !.out = out]
DropToken(s) == token' = [token EXCEPT ![worker[s].run] = "none"]

\* execute_run before the request is sent: the user message, the body, the
\* assistant message.  Configuration, size or compaction errors fail the run.
OpenMessage(s) ==
    /\ At(s, "open")
    /\ \E m \in Messages :
          /\ \A o \in Messages : o < m <=> proj[s].messages[o].status # "absent"
          /\ AppendMany(s, <<MessageStarted(m, "assistant")>>)
    /\ worker' = [worker EXCEPT ![s] = Step(s, "stream")]
    /\ UNCHANGED <<process, waiting, token, req, slots>>

\* Mutant: the error leaves process_session instead of going to finish_run.
FailEarly(s) ==
    /\ At(s, "open")
    /\ worker' = [worker EXCEPT ![s] = NoWorker]
    /\ UNCHANGED <<process, proj, waiting, token, req, slots>>

FailToOpen(s) ==
    /\ At(s, "open")
    /\ worker' = [worker EXCEPT ![s] = Outcome(s, "failed")]
    /\ DropToken(s)
    /\ UNCHANGED <<process, proj, waiting, req, slots>>

\* The provider request or its stream breaks before any output: a new attempt.
RetryAttempt(s) ==
    LET r == worker[s].run
        n == proj[s].runs[r].attempts + 1
        attempt == <<RunAttemptStarted(r, n)>>
    IN  /\ At(s, "stream") /\ n <= MaxAttempts /\ "retry" \in disturbances
        /\ \A c \in Calls : ~proj[s].runs[r].calls[c].emitted
        /\ \/ AppendMany(s, attempt) /\ UNCHANGED <<worker, token>>
           \/ /\ Refused(s, attempt)
              /\ worker' = [worker EXCEPT ![s] = Outcome(s, "failed")]
              /\ DropToken(s)
        /\ UNCHANGED <<process, waiting, req, slots>>

\* persist_delta of a tool call; the provider chooses its id.  The answer of
\* is_native_call is recorded with it and not kept here: nothing reads it.
EmitCall(s) ==
    /\ At(s, "stream") /\ "calls" \in disturbances
    /\ \E c \in Calls :
          LET emitted == <<ToolCallEmitted(worker[s].run, c, FALSE)>> IN
          \/ AppendMany(s, emitted) /\ UNCHANGED <<worker, token>>
          \/ /\ Refused(s, emitted)
             /\ worker' = [worker EXCEPT ![s] = Outcome(s, "failed")]
             /\ DropToken(s)
    /\ UNCHANGED <<process, waiting, req, slots>>

\* The select! of execute_run: the response, the token or the shutdown.
EndStream(s, out) ==
    /\ At(s, "stream")
    /\ out = "cancelled" => token[worker[s].run] = "cancelled"
    /\ out = "interrupted" => ShuttingDown
    /\ worker' = [worker EXCEPT ![s] = Outcome(s, out)]
    /\ DropToken(s)
    /\ UNCHANGED <<process, proj, waiting, req, slots>>

\* persist_delta of a provider turn that asks for tool results.
RequireAction(s) ==
    LET event == <<RunRequiresAction(worker[s].run)>> IN
    /\ At(s, "stream")
    /\ WorkerAppends(s, event, Outcome(s, "requires_action"), Outcome(s, "failed"))
    /\ DropToken(s)
    /\ UNCHANGED <<process, waiting, req, slots>>

\* finish_run, first append: the last assistant message is completed, or
\* interrupted.  A completed run looks for one that is not completed, the
\* other outcomes for one that is still open.
CloseMessage(s) ==
    LET status == IF worker[s].out \in {"completed", "requires_action"}
                  THEN "completed" ELSE "interrupted"
        last == LastAssistant(proj[s], IF worker[s].out = "completed"
                                       THEN {"open", "interrupted"} ELSE {"open"})
        next == IF worker[s].out = "requires_action" THEN "turn" ELSE "end"
    IN  /\ At(s, "message")
        /\ IF last = {}
           THEN worker' = [worker EXCEPT ![s] = Step(s, next)] /\ UNCHANGED proj
           ELSE \E m \in last :
                    WorkerAppends(s, <<MessageClosed(m, status)>>, Step(s, next), NoWorker)
        /\ UNCHANGED <<process, waiting, token, req, slots>>

\* Second append: the terminal event.
EndRun(s) ==
    /\ At(s, "end")
    /\ WorkerAppends(s, <<RunEnded(worker[s].run, worker[s].out)>>, Step(s, "release"), NoWorker)
    /\ UNCHANGED <<process, waiting, token, req, slots>>

\* Mutant: the slot is kept when the run has ended.
EndWithoutRelease(s) ==
    /\ At(s, "release")
    /\ worker' = [worker EXCEPT ![s] =
                    IF worker[s].out = "completed" THEN Begin ELSE Step(s, "turn")]
    /\ UNCHANGED <<process, proj, waiting, token, req, slots>>

\* release_terminal_admission; a completed run leaves the phase alone.
ReleaseEnded(s) ==
    /\ At(s, "release")
    /\ Slots!Release(worker[s].run)
    /\ worker' = [worker EXCEPT ![s] =
                    IF worker[s].out = "completed" THEN Begin ELSE Step(s, "turn")]
    /\ UNCHANGED <<process, proj, waiting, token, req>>

\* Third append: the phase.
EndPhase(out) == IF out = "failed" THEN "failed" ELSE "interrupted"

LeaveRunning(s) ==
    /\ At(s, "turn")
    /\ WorkerAppends(s, <<PhaseChanged("running", EndPhase(worker[s].out))>>, Begin, NoWorker)
    /\ UNCHANGED <<process, waiting, token, req, slots>>

-----------------------------------------------------------------------------
(* delete_project: cancel what is left of every session, wait for the       *)
(* workers to leave, delete the rows.  The project's id is in the deleting  *)
(* set as long as deletion # NoDeletion.                                    *)

WorkersDone == \A s \in Sessions : At(s, "idle") /\ waiting[s] = 0
HandlersDone ==
    deletion.at \in {"none", "abandoned"} /\ \A h \in Handlers : req[h].at = "idle"

BeginDeletion ==
    /\ server = "up" /\ deletion = NoDeletion
    /\ "delete" \in disturbances /\ ProjectSessions \ gone # {}
    /\ "busy" \in disturbances \/ HandlersDone
    /\ deletion' = [NoDeletion EXCEPT !.at = "cancel", !.todo = ProjectSessions]
    /\ UNCHANGED <<disturbances, gone, server, todo, visit, proj, worker, waiting, token, req, slots>>

\* cancel_session_for_project_deletion reads the projection: the token of the
\* run that is running is cancelled ...
CancelForDeletion(s) ==
    LET left == InOrder(RunsIn(proj[s], {"queued", "requires_action"})) IN
    /\ Running /\ deletion.at = "cancel" /\ s \in deletion.todo
    /\ deletion' = [deletion EXCEPT !.at = "append", !.session = s,
                        !.events = [i \in DOMAIN left |-> RunEnded(left[i], "cancelled")]]
    /\ token' = [r \in Runs |-> IF r \in ActiveRuns(proj[s]) /\ token[r] = "live"
                                THEN "cancelled" ELSE token[r]]
    /\ UNCHANGED <<disturbances, gone, server, todo, visit, proj, worker, waiting, req, slots>>

\* ... and the others are ended, which fails the deletion when one of them
\* has ended meanwhile.
AppendDeletion ==
    LET s == deletion.session
        ended == {r \in Runs : \E i \in DOMAIN deletion.events :
                                  deletion.events[i] = RunEnded(r, "cancelled")}
        left == deletion.todo \ {s}
    IN
    /\ Running /\ deletion.at = "append"
    /\ \/ /\ AppendMany(s, deletion.events)
          /\ Slots!ReleaseAll(ended)
          /\ deletion' = IF left = {} THEN [NoDeletion EXCEPT !.at = "wait", !.todo = ProjectSessions]
                         ELSE [NoDeletion EXCEPT !.at = "cancel", !.todo = left]
       \/ /\ deletion.events # <<>> /\ Refused(s, deletion.events)
          /\ deletion' = NoDeletion
          /\ UNCHANGED slots
    /\ UNCHANGED <<disturbances, gone, server, todo, visit, worker, waiting, token, req>>

\* Mutant: it waits for the runs of the session and not for its worker.
WaitForRuns(s) ==
    /\ Running /\ deletion.at = "wait" /\ s \in deletion.todo
    /\ RunsIn(proj[s], Unfinished) = {}
    /\ deletion' = [deletion EXCEPT !.todo = @ \ {s}]
    /\ UNCHANGED <<disturbances, gone, server, todo, visit, proj, worker, waiting, token, req, slots>>

\* wait_for_session_idle: the session's lock is taken and given back.
WaitForSessionIdle(s) ==
    /\ Running /\ deletion.at = "wait" /\ s \in deletion.todo
    /\ At(s, "idle")
    /\ deletion' = [deletion EXCEPT !.todo = @ \ {s}]
    /\ UNCHANGED <<disturbances, gone, server, todo, visit, proj, worker, waiting, token, req, slots>>

\* The rows are deleted, or not, and the id leaves the deleting set.
DeleteProject ==
    /\ Running /\ deletion.at = "wait" /\ deletion.todo = {}
    /\ gone' = gone \cup ProjectSessions \/ ("storage" \in disturbances /\ UNCHANGED gone)
    /\ deletion' = NoDeletion
    /\ UNCHANGED <<disturbances, server, todo, visit, proj, worker, waiting, token, req, slots>>

\* The client goes away: nobody takes the id out of the set any more.
DropDeletion ==
    /\ "disconnect" \in disturbances /\ Running
    /\ deletion.at \in {"cancel", "append", "wait"}
    /\ deletion' = [NoDeletion EXCEPT !.at = "abandoned"]
    /\ UNCHANGED <<disturbances, gone, server, todo, visit, proj, worker, waiting, token, req, slots>>

-----------------------------------------------------------------------------
(* shutdown: cancel the token, wait for the workers or abort them, then     *)
(* interrupt what is left, one session after another.                       *)

BeginShutdown ==
    /\ server = "up" /\ "stop" \in disturbances
    /\ "busy" \in disturbances \/ HandlersDone
    /\ server' = "draining"
    /\ UNCHANGED <<disturbances, removal, todo, visit, proj, worker, waiting, token, req, slots>>

\* join_next until the set is empty, or abort_all after the grace period.
StopWorkers ==
    /\ server = "draining"
    /\ WorkersDone \/ "abort" \in disturbances
    /\ server' = IF WorkersDone THEN "interrupting" ELSE "overdue"
    /\ todo' = Sessions \ gone
    /\ worker' = [s \in Sessions |-> NoWorker]
    /\ waiting' = [s \in Sessions |-> 0]
    /\ UNCHANGED <<disturbances, removal, visit, proj, token, req, slots>>

\* Mutant: only the run that is active is interrupted.
InterruptActiveOnly(p) ==
    LET ordered == InOrder(ActiveRuns(p)) IN
        [i \in DOMAIN ordered |-> RunEnded(ordered[i], "interrupted")]
        \o (IF p.phase = "running" THEN <<PhaseChanged("running", "interrupted")>> ELSE <<>>)

\* interrupt_remaining_runs: RunInterrupted for every unfinished run, in the
\* order of the map, and the phase.
InterruptEvents(p) ==
    LET ordered == InOrder(RunsIn(p, Unfinished)) IN
        [i \in DOMAIN ordered |-> RunEnded(ordered[i], "interrupted")]
        \o (IF p.phase = "running" THEN <<PhaseChanged("running", "interrupted")>> ELSE <<>>)

\* It reads the projection of a session; one that was deleted since the ids
\* were listed ends the whole shutdown with an error ...
InterruptRead(s) ==
    /\ Interrupting /\ visit = NoVisit /\ s \in todo
    /\ IF s \in gone
       THEN server' = "failed" /\ todo' = {} /\ UNCHANGED visit
       ELSE /\ visit' = [session |-> s, events |-> InterruptEvents(proj[s])]
            /\ UNCHANGED <<server, todo>>
    /\ UNCHANGED <<disturbances, removal, proj, worker, waiting, token, req, slots>>

\* Mutant: a refused append is tried again with the same events.
InterruptRetry ==
    LET s == visit.session IN
    /\ Interrupting /\ visit # NoVisit
    /\ \/ /\ AppendMany(s, visit.events)
          /\ todo' = todo \ {s}
          /\ visit' = NoVisit
       \/ Refused(s, visit.events) /\ UNCHANGED <<todo, visit>>
    /\ UNCHANGED <<disturbances, removal, server, worker, waiting, token, req, slots>>

\* ... and appends, which releases the slots of the runs it ends; a refusal
\* ends the whole shutdown with an error.
InterruptAppend ==
    LET s == visit.session
        ended == {r \in Runs : \E i \in DOMAIN visit.events :
                                  visit.events[i] = RunEnded(r, "interrupted")}
    IN
    /\ Interrupting /\ visit # NoVisit
    /\ \/ /\ AppendMany(s, visit.events)
          /\ Slots!ReleaseAll(ended)
          /\ todo' = todo \ {s}
          /\ UNCHANGED server
       \/ /\ Refused(s, visit.events)
          /\ server' = "failed"
          /\ todo' = {}
          /\ UNCHANGED slots
    /\ visit' = NoVisit
    /\ UNCHANGED <<disturbances, removal, worker, waiting, token, req>>

\* PreparedServer::run: cleanup is over, the HTTP server still waits for the
\* requests that are in flight ...
EndShutdown ==
    /\ Interrupting /\ visit = NoVisit /\ todo = {}
    /\ server' = IF server = "interrupting" THEN "stopped" ELSE "expired"
    /\ UNCHANGED <<disturbances, removal, todo, visit, proj, worker, waiting, token, req, slots>>

\* ... unless it failed or took too long: then the process exits at once.
Exit ==
    /\ server \in {"stopped", "expired", "failed"}
    /\ server = "stopped" => HandlersDone
    /\ server' = "down"
    /\ FreshMemory
    /\ UNCHANGED <<disturbances, gone, todo, visit, proj>>

Crash ==
    /\ \/ "crash" \in disturbances /\ Running
       \/ "recovery_crash" \in disturbances /\ server = "recovering"
    /\ server' = "down" /\ todo' = {} /\ visit' = NoVisit
    /\ FreshMemory
    /\ UNCHANGED <<disturbances, gone, proj>>

-----------------------------------------------------------------------------
(* prepare_server: recover_running_sessions before anything is served.      *)

Restart ==
    /\ server = "down"
    /\ server' = "recovering"
    /\ todo' = {s \in Sessions \ gone : proj[s].phase = "running"}
    /\ UNCHANGED <<disturbances, removal, visit, proj, worker, waiting, token, req, slots>>

\* Two appends, each a transaction of its own.
RecoverSession(s) ==
    /\ server = "recovering" /\ visit = NoVisit /\ s \in todo
    /\ AppendMany(s, <<SessionInterrupted>>)
    /\ visit' = [NoVisit EXCEPT !.session = s]
    /\ UNCHANGED <<disturbances, removal, server, todo, worker, waiting, token, req, slots>>

\* Mutant: the session is marked, its run is not.
RecoverPhaseOnly ==
    /\ server = "recovering" /\ visit # NoVisit
    /\ visit' = NoVisit /\ todo' = todo \ {visit.session}
    /\ UNCHANGED <<disturbances, removal, server, proj, worker, waiting, token, req, slots>>

RecoverRun ==
    LET s == visit.session
        active == ActiveRuns(proj[s])
    IN  /\ server = "recovering" /\ visit # NoVisit
        /\ IF active = {} THEN UNCHANGED proj
           ELSE AppendMany(s, <<RunEnded(CHOOSE r \in active : \A o \in active : r <= o,
                                     "interrupted")>>)
        /\ visit' = NoVisit /\ todo' = todo \ {s}
        /\ UNCHANGED <<disturbances, removal, server, worker, waiting, token, req, slots>>

Serve ==
    /\ server = "recovering" /\ visit = NoVisit /\ todo = {}
    /\ server' = "up"
    /\ UNCHANGED <<disturbances, removal, todo, visit, proj, worker, waiting, token, req, slots>>

-----------------------------------------------------------------------------
Outcomes == {"completed", "failed", "cancelled", "interrupted"}

WorkerStep(s) ==
    \/ LeaveSession(s) \/ SeeEmptyQueue(s) \/ FinishSession(s) \/ PickRun(s)
    \/ EnterRunning(s) \/ StartRun(s) \/ AcquirePermit(s)
    \/ OpenMessage(s) \/ FailToOpen(s) \/ RetryAttempt(s) \/ EmitCall(s) \/ RequireAction(s)
    \/ \E out \in Outcomes : EndStream(s, out)
    \/ CloseMessage(s) \/ EndRun(s) \/ ReleaseEnded(s) \/ LeaveRunning(s)

HandlerStep(h) ==
    \/ AppendRequest(h) \/ FailRequest(h) \/ SpawnForRequest(h)
    \/ AppendCancel(h) \/ ReleaseCancelled(h)

NewRequest(h) ==
    \E s \in Sessions :
        \/ QueueRun(h, s) \/ Resume(h, s)
        \/ \E r \in Runs : Retry(h, s, r) \/ CancelInactive(h, s, r) \/ CancelActive(h, s, r)

ShutdownStep ==
    \/ StopWorkers \/ InterruptAppend \/ EndShutdown \/ Exit
    \/ \E s \in Sessions : InterruptRead(s)

DeletionStep ==
    \/ AppendDeletion \/ DeleteProject
    \/ \E s \in ProjectSessions : CancelForDeletion(s) \/ WaitForSessionIdle(s)

RecoveryStep == RecoverRun \/ Serve \/ \E s \in Sessions : RecoverSession(s)

\* What the runtime does by itself once it was asked to.
TaskStep ==
    \/ \E s \in Sessions : EnterSession(s) \/ WorkerStep(s)
    \/ \E h \in Handlers : HandlerStep(h)
    \/ ShutdownStep \/ RecoveryStep \/ DeletionStep

Next ==
    \/ TaskStep
    \/ \E h \in Handlers : NewRequest(h) \/ DropRequest(h)
    \/ BeginShutdown \/ BeginDeletion \/ DropDeletion \/ Crash \/ Restart

Spec == Init /\ [][Next]_vars

\* The runtime goes on polling as long as some task can go on.  That is
\* enough because every request starts a bounded number of steps: no task
\* starves another for ever.  A provider that never answers and never closes
\* is excluded (the worker leaves its stream some time); requests, crashes
\* and restarts are under no fairness.
Fairness == WF_vars(TaskStep)

FairSpec == Spec /\ Fairness

-----------------------------------------------------------------------------
(* Properties.                                                              *)

\* Storage works and clients stay connected.
Steady == disturbances \cap {"storage", "disconnect"} = {}

\* Type correctness: the modes of the process, workers and handlers at one
\* of their awaits, tokens, phases and statuses.
TypeOK ==
    /\ server \in {"up", "down", "recovering"} \cup Stopping
    /\ todo \subseteq Sessions /\ gone \subseteq ProjectSessions
    /\ deletion.at \in {"none", "cancel", "append", "wait", "abandoned"}
    /\ \A s \in Sessions :
          /\ proj[s].phase \in Phases
          /\ \A r \in Runs : proj[s].runs[r].status \in RunStatuses \cup {"absent"}
          /\ worker[s].at \in HoldsPermit \cup {"idle", "loop", "empty", "phase", "start", "permit"}
          /\ waiting[s] \in Nat
    /\ token \in [Runs -> {"none", "live", "cancelled"}]
    /\ \A h \in Handlers : req[h].at \in {"idle", "append", "spawn", "cancel", "release"}

\* process_session, cancel and recovery all act on `active_run`, which is
\* one run: no session ever has two runs that are running.
OneActiveRun == \A s \in Sessions : Cardinality(ActiveRuns(proj[s])) <= 1

\* A running run is in the hands of a worker as long as the server serves:
\* nobody else will ever end it, and cancel() answers that it is stopping.
\* (A storage error inside finish_run, or a crash inside recovery, does leave
\* one behind.)
RunningIsWorked ==
    Steady /\ "recovery_crash" \notin disturbances /\ server \in {"up", "draining"} =>
        \A s \in Sessions \ gone : \A r \in ActiveRuns(proj[s]) :
            worker[s].run = r /\ worker[s].at \in {"permit"} \cup HoldsPermit

\* A slot belongs to a run that has not ended, to a request that is about
\* to queue one, or to a task that is about to give it back.  Only workers
\* that were aborted leave theirs behind, requests that were dropped, and
\* deletions of a session that was at work (its run may pause for an action
\* after it was told to stop).
SlotsAccounted ==
    Steady => \A r \in Runs : owner[r] # Slots!NoSession =>
        \/ owner[r] \notin gone /\ proj[owner[r]].runs[r].status \in Unfinished
        \/ \E h \in Handlers : "run" \in DOMAIN req[h] /\ req[h].run = r
        \/ worker[owner[r]].run = r /\ worker[owner[r]].at = "release"
        \/ owner[r] \in gone
        \/ server \in {"overdue", "expired", "failed"}

\* The counters are those of AdmissionController on every path.
SlotCounters == Slots!CountersExact

\* README.md "Graceful shutdown": the process "marks every non-terminal run
\* as `interrupted`": none is left when shutdown has visited every session,
\* if no request was in flight when it began.  (A deleted session has no
\* log to mark; its run may have paused for an action before it went.)
ShutdownInterruptsAll ==
    "busy" \notin disturbances /\ server \in {"stopped", "expired"} =>
        \A s \in Sessions \ gone : RunsIn(proj[s], Unfinished) = {}

\* README.md: "sessions that were running are marked as interrupted rather
\* than silently continued": no run is still running once recovery is over,
\* unless a recovery was cut short by a crash before it (the session's phase
\* is no longer running then, and its run stays), or a storage error left one.
RecoveryComplete ==
    [][/\ disturbances \cap {"recovery_crash", "storage"} = {}
       /\ server = "recovering" /\ server' = "up"
       => \A s \in Sessions \ gone : ActiveRuns(proj[s]) = {}]_vars

\* A run that has ended keeps its terminal status, whatever is still in
\* flight about it (a cancel, a shutdown, the worker's own last append).
EndedForGood ==
    [][\A s \in Sessions : \A r \in RunsIn(proj[s], Terminal) :
          proj'[s].runs[r].status = proj[s].runs[r].status]_proj

\* README.md: "Provider-owned tool calls are recorded and pause the run at
\* `requires_action`": a run that completes has no call without a result.
CallsPauseRun ==
    \A s \in Sessions : \A r \in RunsIn(proj[s], {"completed"}) : \A c \in Calls :
        proj[s].runs[r].calls[c].emitted => proj[s].runs[r].calls[c].result # Nil

\* A queued run is started, cancelled or held back by a paused queue, as
\* long as the server does not stop: queue_run, retry and resume leave a
\* worker behind for every run, whatever the last worker saw as it left.
\* (A run that a restart finds queued has no worker until the next request.)
Startable(r) ==
    /\ disturbances = {}
    /\ \E s \in Sessions : proj[s].runs[r].status = "queued" /\ ~proj[s].paused

QueuedRunProgress == \A r \in Runs : Startable(r) ~> ~Startable(r)

\* docs/CLIENT_PROTOCOL.md: "Cancellation is asynchronous": a run whose
\* token was cancelled ends, also one that still waits for a permit.
Active(r) == \E s \in Sessions \ gone : r \in ActiveRuns(proj[s])

CancelledRunEnds == \A r \in Runs : token[r] = "cancelled" /\ Active(r) ~> ~Active(r)

\* A deletion comes to its end: every run it finds is cancelled or cut off
\* from its worker, also one that waits for the permit of another session's
\* run, and no new one keeps the session busy.  (If its client goes away it
\* does not: the id stays in the deleting set until the process ends.)
DeletionEnds == deletion.at \in {"cancel", "append", "wait"} ~> deletion = NoDeletion

\* Shutdown ends even if every session is at work.
ShutdownEnds == server = "draining" ~> server \in {"down", "recovering", "up"}
=============================================================================
