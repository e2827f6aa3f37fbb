------------------------------ MODULE Admission ------------------------------
(***************************************************************************)
(* AdmissionController (supervisor.rs): the slots of accepted runs that    *)
(* have not ended.  `reserve` takes one for a run id that was just made,   *)
(* `release` gives it back and is called for every terminal event, also    *)
(* for runs that never had a slot: runs restored after a restart, child    *)
(* runs, runs whose terminal event is reported by two callers.             *)
(***************************************************************************)
EXTENDS Naturals, FiniteSets

CONSTANTS
    Sessions,
    Runs,
    MaxPending,     \* max_pending_runs
    MaxPerSession   \* max_pending_runs_per_session

NoSession == "none"

\* What the limits and the identifiers are, for the proofs.
AdmissionAssumption ==
    /\ IsFiniteSet(Runs)
    /\ NoSession \notin Sessions
    /\ MaxPending \in Nat /\ MaxPerSession \in Nat

VARIABLES
    pending,    \* AdmissionState.pending
    load,       \* AdmissionState.sessions, 0 for a missing key
    owner       \* AdmissionState.run_sessions, NoSession for a missing key

slots == <<pending, load, owner>>

Owned == {r \in Runs : owner[r] # NoSession}
OwnedBy(s) == {r \in Runs : owner[r] = s}

\* usize::saturating_sub
SaturatingSub(n, k) == IF n < k THEN 0 ELSE n - k

Init ==
    /\ pending = 0
    /\ load = [s \in Sessions |-> 0]
    /\ owner = [r \in Runs |-> NoSession]

CanReserve(s) == pending < MaxPending /\ load[s] < MaxPerSession

\* reserve
Reserve(s, r) ==
    /\ CanReserve(s)
    /\ pending' = pending + 1
    /\ load' = [load EXCEPT ![s] = @ + 1]
    /\ owner' = [owner EXCEPT ![r] = s]

\* Mutant: the counter is decremented for a run without a slot, saturating.
ReleaseUnknown(r) ==
    /\ pending' = SaturatingSub(pending, 1)
    /\ IF owner[r] = NoSession THEN UNCHANGED <<load, owner>>
       ELSE /\ load' = [load EXCEPT ![owner[r]] = SaturatingSub(@, 1)]
            /\ owner' = [owner EXCEPT ![r] = NoSession]

\* release
Release(r) ==
    IF owner[r] = NoSession THEN UNCHANGED slots
    ELSE /\ pending' = SaturatingSub(pending, 1)
         /\ load' = [load EXCEPT ![owner[r]] = SaturatingSub(@, 1)]
         /\ owner' = [owner EXCEPT ![r] = NoSession]

\* release for every run of a set, one after another.
ReleaseAll(runs) ==
    /\ pending' = SaturatingSub(pending, Cardinality(runs \cap Owned))
    /\ load' = [s \in Sessions |-> SaturatingSub(load[s], Cardinality(runs \cap OwnedBy(s)))]
    /\ owner' = [r \in Runs |-> IF r \in runs THEN NoSession ELSE owner[r]]

\* Run ids are fresh: reserve never meets an id that still has a slot.
Next ==
    \/ \E s \in Sessions, r \in Runs : owner[r] = NoSession /\ Reserve(s, r)
    \/ \E r \in Runs : Release(r)

Spec == Init /\ [][Next]_slots

-----------------------------------------------------------------------------
TypeOK ==
    /\ pending \in Nat
    /\ load \in [Sessions -> Nat]
    /\ owner \in [Runs -> Sessions \cup {NoSession}]

\* The two counters are the sizes of what the run map holds, so a second
\* release of a run, or one of a run that never had a slot, frees nobody
\* else's slot, and saturating_sub never saturates.
CountersExact ==
    /\ pending = Cardinality(Owned)
    /\ \A s \in Sessions : load[s] = Cardinality(OwnedBy(s))

\* config.rs resource limits: neither limit is ever exceeded.
WithinLimits ==
    /\ Cardinality(Owned) <= MaxPending
    /\ \A s \in Sessions : Cardinality(OwnedBy(s)) <= MaxPerSession
=============================================================================
