------------------------------ MODULE SerialLog ------------------------------
(***************************************************************************)
(* What the session store promises its callers: each session is one        *)
(* append-only log, a batch is appended atomically, and only if the        *)
(* projection of everything appended before it accepts it.  This is the    *)
(* in-memory EventLog of piqo-core (event_log.rs) with the projection as   *)
(* its admission test; EventStore is shown to implement it for a single    *)
(* writer.                                                                 *)
(***************************************************************************)
EXTENDS SessionProjection

CONSTANTS Sessions, Batches

VARIABLES
    log,    \* session -> sequence of recorded events, <<>> when it has no row
    used    \* session identifiers handed out so far (UUIDs are not reused)

vars == <<log, used>>

Init ==
    /\ log = [s \in Sessions |-> <<>>]
    /\ used = {}

Create(s) ==
    /\ s \notin used
    /\ used' = used \cup {s}
    /\ log' = [log EXCEPT ![s] = Record(0, <<SessionCreated>>)]

AppendBatch(s, batch) ==
    /\ log[s] # <<>>
    /\ Replayable(log[s] \o Record(Len(log[s]), batch))
    /\ log' = [log EXCEPT ![s] = @ \o Record(Len(@), batch)]
    /\ UNCHANGED used

Branch(prefix) ==
    prefix \o Record(Len(prefix), BranchEvents(Project(prefix)))

Fork(s, parent, at) ==
    /\ s \notin used
    /\ at \in DOMAIN log[parent]
    /\ used' = used \cup {s}
    /\ log' = [log EXCEPT ![s] = Branch(SubSeq(log[parent], 1, at))]

Delete(s) ==
    /\ log[s] # <<>>
    /\ log' = [log EXCEPT ![s] = <<>>]
    /\ UNCHANGED used

Next ==
    \E s \in Sessions :
        \/ Create(s)
        \/ \E batch \in Batches : AppendBatch(s, batch)
        \/ \E parent \in Sessions : \E at \in DOMAIN log[parent] : Fork(s, parent, at)
        \/ Delete(s)

Spec == Init /\ [][Next]_vars
=============================================================================
