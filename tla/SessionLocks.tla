----------------------------- MODULE SessionLocks ----------------------------
(***************************************************************************)
(* The per-session mutexes of the supervisor: `locks` maps a session to an *)
(* Arc<Mutex<()>> that is created on first use and removed again by        *)
(* release_session_lock when its strong count says that nobody else holds  *)
(* a reference.  process_session, submit_tool_result and                   *)
(* wait_for_session_idle all use it the same way.  Sessions do not         *)
(* interact, so the module follows one entry of the map.                   *)
(***************************************************************************)
EXTENDS Naturals, FiniteSets

CONSTANTS
    Tasks,      \* tasks that may want the session: workers, request handlers
    Locks,      \* Arc<Mutex<()>> allocations
    CanAbort    \* whether a task's future may be dropped half-way

NoLock == 0

ASSUME SessionLocksAssumption ==
    /\ IsFiniteSet(Tasks)
    /\ NoLock \notin Locks
    /\ CanAbort \in BOOLEAN

VARIABLES
    entry,      \* locks.get(session): a lock or NoLock
    ref,        \* task -> the Arc clone it holds, or NoLock
    pc          \* task -> where it is

vars == <<entry, ref, pc>>

Holding == {"waiting", "critical", "leaving"}

Init ==
    /\ entry = NoLock
    /\ ref = [t \in Tasks |-> NoLock]
    /\ pc = [t \in Tasks |-> "idle"]

Holders(l) == {t \in Tasks : ref[t] = l}

\* Arc::strong_count: the clones of the tasks and the one in the map.
StrongCount(l) == Cardinality(Holders(l)) + (IF entry = l THEN 1 ELSE 0)

\* locks.entry(session).or_insert_with(..).clone(), under the map's mutex.
Fetch(t) ==
    /\ pc[t] = "idle"
    /\ IF entry # NoLock THEN UNCHANGED entry
       ELSE \E l \in Locks : Holders(l) = {} /\ entry' = l
    /\ ref' = [ref EXCEPT ![t] = entry']
    /\ pc' = [pc EXCEPT ![t] = "waiting"]

\* Mutant: the mutex is tried only while nobody else has a clone of it.
AcquireAlone(t) ==
    /\ pc[t] = "waiting"
    /\ Holders(ref[t]) = {t}
    /\ pc' = [pc EXCEPT ![t] = "critical"]
    /\ UNCHANGED <<entry, ref>>

\* lock.lock().await
Acquire(t) ==
    /\ pc[t] = "waiting"
    /\ \A u \in Tasks : pc[u] = "critical" => ref[u] # ref[t]
    /\ pc' = [pc EXCEPT ![t] = "critical"]
    /\ UNCHANGED <<entry, ref>>

\* drop(guard)
Leave(t) ==
    /\ pc[t] = "critical"
    /\ pc' = [pc EXCEPT ![t] = "leaving"]
    /\ UNCHANGED <<entry, ref>>

\* Mutant: the entry is removed whoever else holds it.
RemoveAlways(t) ==
    /\ pc[t] = "leaving"
    /\ entry' = NoLock
    /\ pc' = [pc EXCEPT ![t] = "released"]
    /\ UNCHANGED ref

\* release_session_lock, under the map's mutex.
ReleaseSessionLock(t) ==
    /\ pc[t] = "leaving"
    /\ entry' = IF StrongCount(ref[t]) = 2 /\ entry = ref[t] THEN NoLock ELSE entry
    /\ pc' = [pc EXCEPT ![t] = "released"]
    /\ UNCHANGED ref

\* Mutant: the clone is gone and the task left in a state of its own.
DropArcOnly(t) ==
    /\ pc[t] = "released"
    /\ ref' = [ref EXCEPT ![t] = NoLock]
    /\ pc' = [pc EXCEPT ![t] = "dropped"]
    /\ UNCHANGED entry

\* The clone goes out of scope when the function returns.
DropArc(t) ==
    /\ pc[t] = "released"
    /\ ref' = [ref EXCEPT ![t] = NoLock]
    /\ pc' = [pc EXCEPT ![t] = "idle"]
    /\ UNCHANGED entry

\* A dropped future releases its guard and its clone, and never reaches
\* release_session_lock.
Abort(t) ==
    /\ CanAbort
    /\ pc[t] # "idle"
    /\ ref' = [ref EXCEPT ![t] = NoLock]
    /\ pc' = [pc EXCEPT ![t] = "idle"]
    /\ UNCHANGED entry

Next ==
    \E t \in Tasks :
        \/ Fetch(t) \/ Acquire(t) \/ Leave(t)
        \/ ReleaseSessionLock(t) \/ DropArc(t) \/ Abort(t)

Spec == Init /\ [][Next]_vars

\* tokio's Mutex is a FIFO queue, so a waiter is never passed over for ever;
\* the other steps run as soon as the task is polled.
Fairness ==
    \A t \in Tasks :
        /\ SF_vars(Acquire(t))
        /\ WF_vars(Leave(t)) /\ WF_vars(ReleaseSessionLock(t)) /\ WF_vars(DropArc(t))

FairSpec == Spec /\ Fairness

-----------------------------------------------------------------------------
TypeOK ==
    /\ entry \in Locks \cup {NoLock}
    /\ ref \in [Tasks -> Locks \cup {NoLock}]
    /\ pc \in [Tasks -> Holding \cup {"idle", "released"}]

\* No two tasks work on the session at once, although the map may drop its
\* entry and make a new mutex for the same session at any time
\* (process_session and submit_tool_result rely on it).
MutualExclusion ==
    \A t, u \in Tasks : pc[t] = "critical" /\ pc[u] = "critical" => t = u

\* The strengthening that makes it inductive: every task that still competes
\* for the session holds the lock that is in the map.
CompetesForEntry ==
    \A t \in Tasks :
        /\ pc[t] \in Holding => entry # NoLock /\ ref[t] = entry
        /\ pc[t] = "idle" => ref[t] = NoLock

\* A task waiting for a session gets it, or is dropped.
WaiterEnters == \A t \in Tasks : pc[t] = "waiting" ~> pc[t] # "waiting"
=============================================================================
