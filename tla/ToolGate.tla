------------------------------ MODULE ToolGate -------------------------------
(***************************************************************************)
(* The tool gate of the supervisor: a run whose model asked for tools is   *)
(* paused, permissions are evaluated or asked for, approved calls are      *)
(* executed by Piqo or answered by the client, calls of `delegate` become  *)
(* runs of a child session, and the run goes on when all calls have their  *)
(* results.  One parent session and the child that it may delegate to,     *)
(* each with one run.                                                      *)
(*                                                                         *)
(* finish_run enters the gate for ExecutionResult::Completed.  At this     *)
(* commit execute_run never returns it (run super_calls of Supervisor), so *)
(* this is the gate as it is written, from its first step on; only the     *)
(* step Execute that returns that result is not reachable today.           *)
(* Messages, admission slots and shutdown are in Supervisor.               *)
(***************************************************************************)
EXTENDS SessionProjection

CONSTANTS
    Handlers,   \* API requests that may be in flight at once
    MaxActive,  \* max_active_runs
    MaxTurns,   \* max_model_turns, also of a child
    MaxDepth,   \* orchestration.max_depth
    Scenarios   \* what the models ask for, and what disturbs it

AllDisturbances ==
    { "overlap",        \* requests are in flight at once
      "rules",          \* approvals are given for good
      "cancel",         \* runs are cancelled
      "crash" }         \* the process dies

Run == 1                \* the run of each session
Agent == "agent"        \* the delegated instance
Tools == {"native", "client", "delegate"}
Settings == {"allow", "ask", "deny"}
Sessions == {"parent", "child"}

\* A call: the session whose model asks for it, its tool, the setting of the
\* session's agent, and that of its parent's agent (the permission ceiling).
Demands == [home : Sessions, tool : Tools, setting : Settings, ceiling : Settings]

Threads == Sessions \cup Handlers   \* the worker of each session, and the requests
Nobody == "nobody"

ASSUME GateAssumption ==
    /\ Runs = {Run} /\ Agents = {Agent} /\ Messages = {} /\ Requests = Calls
    /\ Values = Threads \cup {"output", "denied", "rejected", "result"}
    /\ Scenarios \subseteq [calls : [Calls -> Demands], disturbances : SUBSET AllDisturbances]
    /\ \A x \in Scenarios, c \in Calls : x.calls[c].home = "parent" => x.calls[c].ceiling = "allow"
    /\ Handlers \cap Sessions = {} /\ IsFiniteSet(Calls)
    /\ Nil \notin Calls \cup Threads /\ Nobody \notin Threads /\ MaxTurns \in Nat

VARIABLES
    disturbances,   \* those of this behaviour
    calls,      \* call -> what it is, if a model asks for it
    proj,       \* session -> its projection
    linked,     \* agent_links: the call that made the child, or Nil
    rules,      \* permission_rules: the tools that are always allowed
    lock,       \* session -> the thread that holds its mutex
    woken,      \* session -> a worker was spawned and waits for the mutex
    token,      \* session -> the cancellation token of its run: none, live, cancelled
    thread,     \* thread -> what it is in the middle of
    executed    \* auxiliary: call -> how often its tool has run

vars == <<disturbances, calls, proj, linked, rules, lock, woken, token, thread, executed>>
fixed == <<disturbances, calls>>

NoThread == [at |-> "idle", s |-> Nil, call |-> Nil, out |-> Nil, ready |-> FALSE,
             nested |-> FALSE, permits |-> 0]

RunOf(s) == proj[s].runs[Run]
Status(s) == RunOf(s).status
Answered(s) == \A c \in Calls : RunOf(s).calls[c].emitted => RunOf(s).calls[c].result # Nil

\* The projection after events, without their ids.  Each is applied to a
\* bound value, which TLC evaluates once.
AfterEvents(from, events) ==
    LET f[i \in 0..Len(events)] ==
            IF i = 0 THEN from
            ELSE CHOOSE q \in {Apply(p, 0, e) : p \in {f[i - 1]}, e \in {events[i]}} : TRUE
    IN  [f[Len(events)] EXCEPT !.revision = 0]

Appended(s, events) == AfterEvents(proj[s], events)

\* The batches of a set of calls one after another, in some order: those of
\* different calls commute.
OneByOne(set, batch) ==
    LET order == CHOOSE o \in [1..Cardinality(set) -> set] : \A c \in set : \E i \in DOMAIN o : o[i] = c
        f[i \in 0..Cardinality(set)] == IF i = 0 THEN <<>> ELSE f[i - 1] \o batch[order[i]]
    IN  f[Cardinality(set)]

\* A parent with a queued run, whose worker was spawned.
Init ==
    /\ \E x \in Scenarios : disturbances = x.disturbances /\ calls = x.calls
    /\ proj = [s \in Sessions |->
          IF s = "child" THEN Empty
          ELSE AfterEvents(Empty, <<SessionCreated, RunQueued(Run, FALSE)>>)]
    /\ linked = Nil
    /\ rules = {}
    /\ lock = [s \in Sessions |-> Nobody]
    /\ woken = [s \in Sessions |-> s = "parent"]
    /\ token = [s \in Sessions |-> "none"]
    /\ thread = [t \in Threads |-> NoThread]
    /\ executed = [c \in Calls |-> 0]

-----------------------------------------------------------------------------
At(t, at) == thread[t].at = at
Of(t) == thread[t].s
Goto(t, at) == thread' = [thread EXCEPT ![t].at = at]
Finish(t) == thread' = [thread EXCEPT ![t] = NoThread]

\* Mutant: what the projection refuses is stored as well.
AppendManyUnchecked(t, s, events, next, otherwise) ==
    /\ proj' = [proj EXCEPT ![s] = Appended(s, events)]
    /\ thread' = [thread EXCEPT ![t] = next]

\* The events are appended, or the projection refuses them and the thread
\* goes elsewhere.
AppendMany(t, s, events, next, otherwise) ==
    \E p \in {Appended(s, events)} :
        IF p.phase # "corrupt"
        THEN proj' = [proj EXCEPT ![s] = p] /\ thread' = [thread EXCEPT ![t] = next]
        ELSE UNCHANGED proj /\ thread' = [thread EXCEPT ![t] = otherwise]

To(t, at) == [thread[t] EXCEPT !.at = at]

\* The thread is in process_session, not in a request.
InProcess(t) == Of(t) \in Sessions /\ lock[Of(t)] = t

Unlocked(t) == [s \in Sessions |-> IF lock[s] = t THEN Nobody ELSE lock[s]]

-----------------------------------------------------------------------------
(* process_session.                                                         *)

Enter(t) ==
    /\ t \in Sessions /\ At(t, "idle")
    /\ woken[t] /\ lock[t] = Nobody
    /\ woken' = [woken EXCEPT ![t] = FALSE]
    /\ lock' = [lock EXCEPT ![t] = t]
    /\ thread' = [thread EXCEPT ![t].at = "look", ![t].s = t]
    /\ UNCHANGED <<fixed, proj, linked, rules, token, executed>>

\* deliver_child_result processes the parent's session on the thread that
\* ended the child, with the child's mutex and permit in its hands.
EnterParent(t) ==
    /\ At(t, "nested") /\ lock["parent"] = Nobody
    /\ lock' = [lock EXCEPT !["parent"] = t]
    /\ thread' = [thread EXCEPT ![t].at = "look", ![t].s = "parent", ![t].nested = TRUE]
    /\ UNCHANGED <<fixed, proj, linked, rules, woken, token, executed>>

\* The loop ends.  A worker that was nested goes on with its own session.
Leave(t) ==
    /\ At(t, "leave")
    /\ lock' = [lock EXCEPT ![Of(t)] = Nobody]
    /\ thread' = [thread EXCEPT ![t] =
          IF @.nested /\ t \in Sessions THEN [NoThread EXCEPT !.at = "look", !.s = t] ELSE NoThread]
    /\ UNCHANGED <<fixed, proj, linked, rules, woken, token, executed>>

\* An error ends it, and with it the one it was nested in.
Abandon(t) ==
    /\ At(t, "error")
    /\ lock' = Unlocked(t)
    /\ Finish(t)
    /\ UNCHANGED <<fixed, proj, linked, rules, woken, token, executed>>

\* The top of the loop: what the projection says is next.  Permits of the
\* last iteration are given back.
Look(t) ==
    LET s == Of(t)
        p == proj[s]
        run == RunOf(s)
        ready == Run \in ReadyActionRuns(p)
        base == [thread[t] EXCEPT !.out = Nil, !.permits = IF thread[t].nested /\ t \in Sessions THEN 1 ELSE 0]
        Then(at) == [base EXCEPT !.at = at]
        Moves(events, at) == AppendMany(t, s, events, Then(at), Then("error"))
    IN  /\ At(t, "look")
        /\ \/ /\ run.status = "running" \/ (~ready /\ (p.paused \/ (run.status # "queued" /\ p.phase # "running")))
              /\ thread' = [thread EXCEPT ![t] = Then("leave")] /\ UNCHANGED proj
           \/ ready /\ run.attempts >= MaxTurns /\ Moves(<<RunEnded(Run, "failed")>>, "look")
           \/ ready /\ run.attempts < MaxTurns /\ Moves(<<QueueResumed>>, "start")
           \/ /\ run.status = "queued" /\ ~p.paused
              /\ IF p.phase = "running" THEN thread' = [thread EXCEPT ![t] = Then("begin")] /\ UNCHANGED proj
                 ELSE Moves(<<PhaseChanged(p.phase, "running")>>, "begin")
           \/ /\ run.status \notin {"running", "queued"} /\ ~ready /\ ~p.paused /\ p.phase = "running"
              /\ Moves(<<PhaseChanged("running", "finished")>>, "leave")
        /\ UNCHANGED <<fixed, linked, rules, lock, woken, token, executed>>

\* A queued run: its token is there before RunStarted is.
BeginRun(t) ==
    LET s == Of(t)
        begun == Appended(s, <<RunStarted(Run, 1)>>).phase # "corrupt"
    IN  /\ At(t, "begin")
        /\ AppendMany(t, s, <<RunStarted(Run, 1)>>, To(t, "permit"), To(t, "error"))
        /\ token' = [token EXCEPT ![s] = IF begun THEN "live" ELSE "none"]
        /\ UNCHANGED <<fixed, linked, rules, lock, woken, executed>>

\* A run whose calls are answered: RunStarted first ...
StartAgain(t) ==
    LET s == Of(t) IN
    /\ At(t, "start")
    /\ AppendMany(t, s, <<RunStarted(Run, RunOf(s).attempts + 1)>>, To(t, "register"), To(t, "error"))
    /\ UNCHANGED <<fixed, linked, rules, lock, woken, token, executed>>

\* ... and then its token.
Register(t) ==
    /\ At(t, "register")
    /\ token' = [token EXCEPT ![Of(t)] = "live"]
    /\ Goto(t, "permit")
    /\ UNCHANGED <<fixed, proj, linked, rules, lock, woken, executed>>

Permits(t) == thread[t].permits
PermitsTaken ==
    Cardinality({t \in Threads : Permits(t) >= 1}) + Cardinality({t \in Threads : Permits(t) = 2})

\* acquire_active
AcquirePermit(t) ==
    /\ At(t, "permit") /\ PermitsTaken < MaxActive
    /\ thread' = [thread EXCEPT ![t].at = "execute", ![t].permits = @ + 1]
    /\ UNCHANGED <<fixed, proj, linked, rules, lock, woken, token, executed>>

\* is_native_call: Piqo executes what the agent's own settings do not deny.
IsNative(c) == calls[c].tool # "client" /\ calls[c].setting # "deny"

\* A turn of the model, which asks for some calls
\* (execute_run_with_child_timeout), and the token removed at its end.  A
\* turn that leaves calls open returns Completed (here "calls"), one that
\* leaves none CompletedWithUsage.
Execute(t, asked, out) ==
    LET s == Of(t)
        emitted == OneByOne(asked, [c \in asked |-> <<ToolCallEmitted(Run, c, IsNative(c))>>])
    IN  /\ At(t, "execute")
        /\ \A c \in asked : calls[c].home = s /\ ~RunOf(s).calls[c].emitted
        /\ out = "calls" => asked # {} \/ ~Answered(s)
        /\ out = "completed" => asked = {} /\ Answered(s)
        /\ out = "cancelled" => token[s] = "cancelled"
        /\ AppendMany(t, s, emitted, [To(t, "finish") EXCEPT !.out = out],
                      [To(t, "finish") EXCEPT !.out = "failed"])
        /\ token' = [token EXCEPT ![s] = "none"]
        /\ UNCHANGED <<fixed, linked, rules, lock, woken, executed>>

\* finish_run
FinishRun(t) ==
    LET s == Of(t)
        failed == [thread[t] EXCEPT !.out = "failed"]
    IN  /\ At(t, "finish")
        /\ IF thread[t].out = "calls"
           THEN AppendMany(t, s, <<RunRequiresAction(Run)>>, To(t, "evaluate"), failed)
           ELSE AppendMany(t, s, <<RunEnded(Run, thread[t].out)>>,
                       To(t, IF thread[t].out = "completed" THEN "deliver" ELSE "phase"), To(t, "error"))
        /\ UNCHANGED <<fixed, linked, rules, lock, woken, token, executed>>

\* ... and the phase of a session whose run did not complete.  A run that
\* was paused before left the phase at interrupted, and is refused here.
FinishPhase(t) ==
    LET s == Of(t)
        to == IF thread[t].out = "failed" THEN "failed" ELSE "interrupted"
    IN  /\ At(t, "phase")
        /\ AppendMany(t, s, <<PhaseChanged("running", to)>>, To(t, "deliver"), To(t, "error"))
        /\ UNCHANGED <<fixed, linked, rules, lock, woken, token, executed>>

-----------------------------------------------------------------------------
(* evaluate_tool_permissions and execute_approved_native_calls.             *)

MostRestrictive(a, b) ==
    IF "deny" \in {a, b} THEN "deny" ELSE IF "ask" \in {a, b} THEN "ask" ELSE "allow"

\* The name of a tool, for an agent: calls of one tool share their settings.
ToolName(c) == [calls[c] EXCEPT !.ceiling = "allow"]

\* A denied tool is denied whatever rules there are.  A rule counts only
\* where the parent's setting allows.
Decision(c) ==
    LET setting == MostRestrictive(calls[c].setting, calls[c].ceiling)
        ruled == calls[c].ceiling = "allow" /\ ToolName(c) \in rules
    IN  IF setting = "ask" /\ ruled THEN "allow" ELSE setting

EvaluationOf(c) ==
    <<PermissionRequested(c, Run, c)>>
    \o (IF Decision(c) = "ask" THEN <<>> ELSE <<PermissionResolved(c, Decision(c))>>)
    \o (IF Decision(c) = "deny" THEN <<ToolResult(Run, c, "denied")>> ELSE <<>>)

Evaluation(open) == OneByOne(open, [c \in open |-> EvaluationOf(c)])

Open(s) == {c \in Calls : RunOf(s).calls[c].emitted /\ RunOf(s).calls[c].result = Nil}

\* Approved calls are executed at once only if no call has to be asked for.
Evaluate(t) ==
    LET open == Open(Of(t))
        asks == \E c \in open : Decision(c) = "ask"
    IN  /\ At(t, "evaluate")
        /\ AppendMany(t, Of(t), Evaluation(open), To(t, IF asks THEN "paused" ELSE "pick"),
                  [To(t, "finish") EXCEPT !.out = "failed"])
        /\ UNCHANGED <<fixed, linked, rules, lock, woken, token, executed>>

\* Where the loop over approved calls ends with an error.
Broken(t) == IF InProcess(t) THEN [To(t, "finish") EXCEPT !.out = "failed"] ELSE NoThread

Executable(s) ==
    {c \in Open(s) : /\ RunOf(s).calls[c].native
                     /\ RunOf(s).calls[c].execution = Nil
                     /\ proj[s].requests[c].decision = "allow"}

\* The projection is read and a call picked ...
Pick(t) ==
    LET found == Executable(Of(t)) IN
    /\ At(t, "pick")
    /\ \/ found = {} /\ Goto(t, "resume")
       \/ \E c \in found : thread' = [thread EXCEPT ![t].at = "claim", ![t].call = c]
    /\ UNCHANGED <<fixed, proj, linked, rules, lock, woken, token, executed>>

\* Mutant: the call is executed although the log has refused the claim.
ClaimAnyway(t) ==
    LET c == thread[t].call
        next == To(t, IF calls[c].tool = "delegate" THEN "spawn" ELSE "tool")
    IN  /\ At(t, "claim")
        /\ AppendMany(t, Of(t), <<ToolExecutionStarted(Run, c, t)>>, next, next)
        /\ UNCHANGED <<fixed, linked, rules, lock, woken, token, executed>>

\* ... and claimed by an event that the log takes once.
Claim(t) ==
    LET c == thread[t].call
        next == To(t, IF calls[c].tool = "delegate" THEN "spawn" ELSE "tool")
    IN  /\ At(t, "claim")
        /\ AppendMany(t, Of(t), <<ToolExecutionStarted(Run, c, t)>>, next, Broken(t))
        /\ UNCHANGED <<fixed, linked, rules, lock, woken, token, executed>>

\* The tool runs, to its end, a timeout or its cancellation, ...
RunTool(t) ==
    /\ At(t, "tool")
    /\ executed' = [executed EXCEPT ![thread[t].call] = @ + 1]
    /\ Goto(t, "output")
    /\ UNCHANGED <<fixed, proj, linked, rules, lock, woken, token>>

\* ... and its result is appended.
AppendOutput(t) ==
    /\ At(t, "output")
    /\ AppendMany(t, Of(t), <<ToolResult(Run, thread[t].call, "output")>>, To(t, "pick"), Broken(t))
    /\ UNCHANGED <<fixed, linked, rules, lock, woken, token, executed>>

\* Mutant: the queue is resumed, but nobody is told to work on it.
ResumeQuietly(t) ==
    LET s == Of(t)
        ready == Status(s) = "requires_action" /\ Answered(s)
        next == IF InProcess(t) THEN To(t, "paused") ELSE NoThread
    IN  /\ At(t, "resume")
        /\ IF ready THEN AppendMany(t, s, <<QueueResumed>>, next, next)
           ELSE thread' = [thread EXCEPT ![t] = next] /\ UNCHANGED proj
        /\ UNCHANGED <<fixed, linked, rules, lock, woken, token, executed>>

\* resume_if_tool_results_ready.  Only a request spawns a worker.
Resume(t) ==
    LET s == Of(t)
        ready == Status(s) = "requires_action" /\ Answered(s)
        next == IF InProcess(t) THEN To(t, "paused") ELSE NoThread
    IN  /\ At(t, "resume")
        /\ IF ready THEN AppendMany(t, s, <<QueueResumed>>, next, next)
           ELSE thread' = [thread EXCEPT ![t] = next] /\ UNCHANGED proj
        /\ woken' = IF ready /\ ~InProcess(t) THEN [woken EXCEPT ![s] = TRUE] ELSE woken
        /\ UNCHANGED <<fixed, linked, rules, lock, token, executed>>

\* finish_run for RequiresAction.
Pause(t) ==
    /\ At(t, "paused")
    /\ AppendMany(t, Of(t), <<PhaseChanged("running", "interrupted")>>, To(t, "deliver"), To(t, "error"))
    /\ UNCHANGED <<fixed, linked, rules, lock, woken, token, executed>>

-----------------------------------------------------------------------------
(* spawn_delegated_child and deliver_child_result.                          *)

\* The delegation is refused: by its depth, its arguments, its context or,
\* in this model, because there is a child already.
RejectDelegation(t) ==
    /\ At(t, "spawn")
    /\ AppendMany(t, Of(t), <<ToolResult(Run, thread[t].call, "rejected")>>, To(t, "pick"), Broken(t))
    /\ UNCHANGED <<fixed, linked, rules, lock, woken, token, executed>>

\* The child's session, its link and AgentSpawned in the parent ...
SpawnChild(t) ==
    /\ At(t, "spawn") /\ Of(t) = "parent" /\ MaxDepth > 0 /\ linked = Nil
    /\ linked' = thread[t].call
    /\ executed' = [executed EXCEPT ![thread[t].call] = @ + 1]
    /\ AppendMany(t, "parent", <<AgentSpawned(Agent)>>, To(t, "queue"), thread[t])
    /\ UNCHANGED <<fixed, rules, lock, woken, token>>

\* ... then the child's own events, and its worker.
QueueChild(t) ==
    /\ At(t, "queue")
    /\ AppendMany(t, "child", <<SessionCreated, AgentSpawned(Agent), RunQueued(Run, FALSE)>>,
              To(t, "pick"), To(t, "spawn"))
    /\ woken' = [woken EXCEPT !["child"] = TRUE]
    /\ UNCHANGED <<fixed, linked, rules, lock, token, executed>>

\* deliver_child_result has nothing (more) to do.
Delivered(t) == IF InProcess(t) THEN To(t, "look") ELSE NoThread

\* A run that has ended, in a child session: AgentFinished, once.
Deliver(t) ==
    /\ At(t, "deliver")
    /\ IF Of(t) = "parent" \/ Status("child") \notin Terminal
       THEN thread' = [thread EXCEPT ![t] = Delivered(t)] /\ UNCHANGED proj
       ELSE IF proj["child"].agents[Agent].result = Nil
       THEN AppendMany(t, "child", <<AgentFinished(Agent, "result")>>, To(t, "parent"), To(t, "error"))
       ELSE Goto(t, "parent") /\ UNCHANGED proj
    /\ UNCHANGED <<fixed, linked, rules, lock, woken, token, executed>>

\* The parent's projection is read ...
ReadParent(t) ==
    /\ At(t, "parent")
    /\ thread' = [thread EXCEPT ![t] =
          IF proj["parent"].agents[Agent].result # Nil THEN Delivered(t)
          ELSE [@ EXCEPT !.at = "answer", !.ready = Open("parent") \subseteq {linked}]]
    /\ UNCHANGED <<fixed, proj, linked, rules, lock, woken, token, executed>>

\* Mutant: the call of the parent is not answered when the child failed.
AnswerIfCompleted(t) ==
    LET ended == <<AgentFinished(Agent, "result"), AgentResultDelivered(Agent, "result")>>
        answer == IF Status("child") = "completed" THEN <<ToolResult(Run, linked, "result")>> ELSE <<>>
        resumed == IF thread[t].ready THEN <<QueueResumed>> ELSE <<>>
    IN  /\ At(t, "answer")
        /\ AppendMany(t, "parent", ended \o answer \o resumed,
                  IF thread[t].ready THEN To(t, "nested") ELSE Delivered(t), To(t, "error"))
        /\ UNCHANGED <<fixed, linked, rules, lock, woken, token, executed>>

\* ... and its call answered.  Whether the parent can go on was read before.
AnswerParent(t) ==
    LET events == <<AgentFinished(Agent, "result"), AgentResultDelivered(Agent, "result"),
                    ToolResult(Run, linked, "result")>>
        resumed == IF thread[t].ready THEN <<QueueResumed>> ELSE <<>>
    IN  /\ At(t, "answer")
        /\ AppendMany(t, "parent", events \o resumed,
                  IF thread[t].ready THEN To(t, "nested") ELSE Delivered(t), To(t, "error"))
        /\ UNCHANGED <<fixed, linked, rules, lock, woken, token, executed>>

-----------------------------------------------------------------------------
(* Requests.                                                                *)

\* Requests are alike: the next one is taken up by some free handler.
MayBegin(h) ==
    /\ \E o \in Handlers : At(o, "idle")
    /\ h = CHOOSE o \in Handlers : At(o, "idle")
    /\ "overlap" \in disturbances \/ \A o \in Handlers : At(o, "idle")

Begin(h, at, s, c, out) ==
    thread' = [thread EXCEPT ![h] = [NoThread EXCEPT !.at = at, !.s = s, !.call = c, !.out = out]]

\* resolve_permission: an undecided request; a rule is stored first.
ResolvePermission(h, c, decision, always) ==
    /\ MayBegin(h)
    /\ proj[calls[c].home].requests[c].decision = "pending"
    /\ always => decision = "allow" /\ "rules" \in disturbances
    /\ rules' = IF always THEN rules \cup {ToolName(c)} ELSE rules
    /\ Begin(h, "resolve", calls[c].home, c, decision)
    /\ UNCHANGED <<fixed, proj, linked, lock, woken, token, executed>>

\* The decision is appended, unless another one was first.  No mutex is held
\* and the state of the run is not looked at.
Resolve(h) ==
    LET c == thread[h].call
        decision == thread[h].out
        answer == IF decision = "deny" THEN <<ToolResult(Run, c, "denied")>> ELSE <<>>
    IN  /\ At(h, "resolve")
        /\ AppendMany(h, Of(h), <<PermissionResolved(c, decision)>> \o answer,
                  To(h, IF decision = "allow" THEN "pick" ELSE "resume"), NoThread)
        /\ UNCHANGED <<fixed, linked, rules, lock, woken, token, executed>>

\* submit_tool_result, with the session's mutex.
SubmitToolResult(h, c) ==
    LET s == calls[c].home
        call == RunOf(s).calls[c]
    IN  /\ MayBegin(h)
        /\ lock[s] = Nobody
        /\ Status(s) = "requires_action"
        /\ call.emitted /\ ~call.native /\ call.result = Nil
        /\ proj[s].requests[c].decision = "allow"
        /\ lock' = [lock EXCEPT ![s] = h]
        /\ thread' = [thread EXCEPT ![h] = [NoThread EXCEPT !.at = "submit", !.s = s, !.call = c,
                                            !.ready = Open(s) \subseteq {c}]]
        /\ UNCHANGED <<fixed, proj, linked, rules, woken, token, executed>>

Submit(h) ==
    LET s == Of(h)
        resumed == IF thread[h].ready THEN <<QueueResumed>> ELSE <<>>
    IN  /\ At(h, "submit")
        /\ AppendMany(h, s, <<ToolResult(Run, thread[h].call, "output")>> \o resumed, NoThread, NoThread)
        /\ lock' = [lock EXCEPT ![s] = Nobody]
        /\ woken' = IF thread[h].ready THEN [woken EXCEPT ![s] = TRUE] ELSE woken
        /\ UNCHANGED <<fixed, linked, rules, token, executed>>

\* cancel: of a run that executes, through its token if it is registered ...
CancelRunning(h, s) ==
    /\ "cancel" \in disturbances /\ MayBegin(h)
    /\ Status(s) = "running" /\ token[s] = "live"
    /\ token' = [token EXCEPT ![s] = "cancelled"]
    /\ UNCHANGED <<fixed, proj, linked, rules, lock, woken, thread, executed>>

\* ... and of one that waits, by its terminal event.
Cancel(h, s) ==
    /\ "cancel" \in disturbances /\ MayBegin(h)
    /\ Status(s) \in {"queued", "requires_action"}
    /\ Begin(h, "cancel", s, Nil, Nil)
    /\ UNCHANGED <<fixed, proj, linked, rules, lock, woken, token, executed>>

CancelWaiting(h) ==
    LET s == Of(h) IN
    /\ At(h, "cancel")
    /\ AppendMany(h, s, <<RunEnded(Run, "cancelled")>>,
              To(h, IF s = "parent" /\ linked # Nil THEN "cancel_child" ELSE "deliver"), NoThread)
    /\ UNCHANGED <<fixed, linked, rules, lock, woken, token, executed>>

\* The child's run, whose own cancel reports no error.
CancelChild(h) ==
    LET waits == Status("child") \in {"queued", "requires_action"} IN
    /\ At(h, "cancel_child")
    /\ IF waits THEN Begin(h, "cancel", "child", Nil, Nil) ELSE Finish(h)
    /\ token' = IF Status("child") = "running" /\ token["child"] = "live"
                THEN [token EXCEPT !["child"] = "cancelled"] ELSE token
    /\ UNCHANGED <<fixed, proj, linked, rules, lock, woken, executed>>

-----------------------------------------------------------------------------
(* The process dies and starts again, with nothing but its database.        *)

\* recover_running_sessions interrupts what the phase says is running ...
Recovered(s) ==
    LET ended == IF Status(s) = "running" THEN <<RunEnded(Run, "interrupted")>> ELSE <<>> IN
    IF proj[s].phase = "running" THEN Appended(s, <<SessionInterrupted>> \o ended) ELSE proj[s]

\* ... and resume_ready_actions_after_restart interrupts runs with a call
\* whose execution was started, and wakes those that have all results.
InDoubt(p) ==
    /\ p.runs[Run].status = "requires_action"
    /\ \E c \in Calls : LET call == p.runs[Run].calls[c] IN
          call.native /\ call.execution # Nil /\ call.result = Nil

Crash ==
    LET found == [s \in Sessions |-> Recovered(s)] IN
    /\ "crash" \in disturbances
    /\ disturbances' = disturbances \ {"crash"}
    /\ proj' = [s \in Sessions |->
          IF InDoubt(found[s])
          THEN AfterEvents(found[s], <<RunEnded(Run, "interrupted")>>)
          ELSE found[s]]
    /\ woken' = [s \in Sessions |-> ~InDoubt(found[s]) /\ Run \in ReadyActionRuns(found[s])]
    /\ lock' = [s \in Sessions |-> Nobody]
    /\ token' = [s \in Sessions |-> "none"]
    /\ thread' = [t \in Threads |-> NoThread]
    /\ UNCHANGED <<calls, linked, rules, executed>>

-----------------------------------------------------------------------------
Outcomes == {"calls", "completed", "failed", "cancelled"}

\* What a worker or a request does next.
Step(t) ==
    \/ Enter(t) \/ EnterParent(t) \/ Leave(t) \/ Abandon(t) \/ Look(t)
    \/ BeginRun(t) \/ StartAgain(t) \/ Register(t) \/ AcquirePermit(t)
    \/ \E asked \in SUBSET Calls, out \in Outcomes : Execute(t, asked, out)
    \/ FinishRun(t) \/ FinishPhase(t)
    \/ Evaluate(t) \/ Pick(t) \/ Claim(t) \/ RunTool(t) \/ AppendOutput(t) \/ Resume(t) \/ Pause(t)
    \/ RejectDelegation(t) \/ SpawnChild(t) \/ QueueChild(t)
    \/ Deliver(t) \/ ReadParent(t) \/ AnswerParent(t)
    \/ Resolve(t) \/ Submit(t) \/ CancelWaiting(t) \/ CancelChild(t)

\* What clients ask for.
Ask(h) ==
    \/ \E c \in Calls, decision \in {"allow", "deny"}, always \in BOOLEAN :
           ResolvePermission(h, c, decision, always)
    \/ \E c \in Calls : SubmitToolResult(h, c)
    \/ \E s \in Sessions : CancelRunning(h, s) \/ Cancel(h, s)

Next ==
    \/ \E t \in Threads : Step(t)
    \/ \E h \in Handlers : Ask(h)
    \/ Crash

\* Tasks that can move are scheduled; nothing obliges clients to ask.
Spec == Init /\ [][Next]_vars /\ \A t \in Threads : WF_vars(Step(t))

-----------------------------------------------------------------------------
\* Type correctness: the log takes only what the projection accepts, no run
\* takes more turns than max_model_turns (but the first, for which it is not
\* looked at), and no thread holds more permits than its own and that of the
\* session it is nested in.
TypeOK ==
    /\ disturbances \subseteq AllDisturbances
    /\ \A s \in Sessions :
          /\ proj[s].phase \in Phases /\ proj[s].paused \in BOOLEAN
          /\ Status(s) \in RunStatuses \cup {"absent"} /\ RunOf(s).attempts \in (0..MaxTurns) \cup {1}
    /\ linked \in Calls \cup {Nil}
    /\ rules \subseteq {ToolName(c) : c \in Calls}
    /\ lock \in [Sessions -> Threads \cup {Nobody}]
    /\ woken \in [Sessions -> BOOLEAN]
    /\ token \in [Sessions -> {"none", "live", "cancelled"}]
    /\ \A t \in Threads :
          /\ Of(t) \in Sessions \cup {Nil} /\ thread[t].call \in Calls \cup {Nil}
          /\ thread[t].permits \in 0..2
    /\ executed \in [Calls -> Nat]

\* execute_approved_native_calls runs on workers and on requests at once,
\* without a lock, and again after a restart.  A call is executed at most
\* once, and only if it was decided to allow it and neither the agent nor,
\* for a child, its parent denies the tool.
PermittedOnce ==
    \A c \in Calls : executed[c] > 0 =>
        /\ executed[c] = 1
        /\ proj[calls[c].home].requests[c].decision = "allow"
        /\ "deny" \notin {calls[c].setting, calls[c].ceiling}

\* A run that was paused for its tools goes on, or ends, once all of its
\* calls have results: whoever records the last one (a worker, a denial, an
\* approval, a client's result) wakes a worker, or, if the process dies
\* before it does, the restart.  This is about requests that come one at a
\* time and the run's first pause: with several at once, and from the second
\* pause on, the code does not promise it (see the README).
Waits(s) == Status(s) = "requires_action" /\ RunOf(s).attempts = 1

FirstPauseResumes ==
    ("overlap" \notin disturbances /\ linked = Nil /\ Waits("parent") /\ Answered("parent"))
        ~> ~Waits("parent")

\* The result of a child that ends in its first turn (completed, failed,
\* cancelled before or while it ran or waited, or interrupted by a restart)
\* answers the call of its parent, or the parent's run has ended too: no
\* parent waits for a child that is no more.
ChildDelivered ==
    (Status("child") \in Terminal /\ RunOf("child").attempts <= 1)
        ~> (Status("parent") \in Terminal \/ linked \notin Open("parent"))
=============================================================================
