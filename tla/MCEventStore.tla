---------------------------- MODULE MCEventStore -----------------------------
(* Instances of EventStore for TLC.  The batches are the ones the           *)
(* supervisor appends during the life of a run.                             *)
EXTENDS EventStore, TLC

CONSTANTS worker, client

\* A request handler: queue_run, and cancel.
ClientBatches == { <<RunQueued(1, FALSE)>>, <<RunEnded(1, "cancelled")>> }

\* The worker and the shutdown of a session.
WorkerBatches ==
    { <<PhaseChanged("created", "running")>>,
      <<RunStarted(1, 1)>>,
      <<RunEnded(1, "interrupted"), PhaseChanged("running", "interrupted")>> }

AnyBatches == [t \in Tasks |-> ClientBatches \cup WorkerBatches]

RoleBatches ==
    [t \in Tasks |-> IF t = worker THEN { <<PhaseChanged("created", "running")>> }
                                   ELSE { <<RunQueued(1, FALSE)>> }]

\* Sound where every task may append every batch.
Symmetry == Permutations(Tasks) \cup Permutations(Sessions)
=============================================================================
