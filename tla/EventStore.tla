------------------------------ MODULE EventStore -----------------------------
(***************************************************************************)
(* SqliteStore (storage.rs): the event table, the summary columns of the   *)
(* sessions table and the in-memory projection cache.                      *)
(*                                                                         *)
(* The pool has one connection, so a transaction is one step.  The cache   *)
(* has its own mutex: append_events copies the cached projection before it *)
(* waits for the connection and stores the new one after the commit, and   *)
(* projection() fills a miss after it has read the log.  Every caller is a *)
(* task whose future may be dropped at each of these awaits: a worker      *)
(* aborted at shutdown, a child run that times out, a client that          *)
(* disconnects.  A crash loses the cache and keeps the tables.             *)
(***************************************************************************)
EXTENDS SessionProjection

CONSTANTS
    Sessions,   \* session identifiers
    Tasks,      \* concurrent callers of the store
    Batches,    \* task -> the batches it may append
    CanDrop,    \* whether a caller's future may be dropped at an await
    MaxLog      \* bound: no session's log grows beyond this length

ASSUME EventStoreAssumption ==
    /\ CanDrop \in BOOLEAN
    /\ MaxLog \in Nat
    /\ \A t \in Tasks : \A b \in Batches[t] : IsSeq(b) /\ b # <<>>

VARIABLES
    mode,       \* "up", "down" after a crash, "refused" by validate_all
    log,        \* events: session -> sequence of [id, event]
    row,        \* sessions: session -> [phase, revision, last]
    used,       \* session identifiers handed out so far
    cache,      \* projection_cache: session -> projection or Missing
    op          \* task -> what it is in the middle of

vars == <<mode, log, row, used, cache, op>>

\* SQLite tables are what a crash keeps.
tables == <<log, row, used>>

NoRow == [phase |-> "none", revision |-> 0, last |-> 0]
Missing == [phase |-> "missing"]
Idle == [at |-> "idle"]

Exists(s) == row[s].phase # "none"
Cached(s) == cache[s].phase # "missing"

Columns(p) == [phase |-> p.phase, revision |-> p.revision, last |-> p.last]

Init ==
    /\ mode = "up"
    /\ log = [s \in Sessions |-> <<>>]
    /\ row = [s \in Sessions |-> NoRow]
    /\ used = {}
    /\ cache = [s \in Sessions |-> Missing]
    /\ op = [t \in Tasks |-> Idle]

-----------------------------------------------------------------------------
\* create_session: the row and its first event in one transaction.
CreateSession(s) ==
    /\ mode = "up" /\ s \notin used
    /\ used' = used \cup {s}
    /\ row' = [row EXCEPT ![s] = [phase |-> "created", revision |-> 0, last |-> 1]]
    /\ log' = [log EXCEPT ![s] = Record(0, <<SessionCreated>>)]
    /\ UNCHANGED <<mode, cache, op>>

\* Run identifiers are fresh UUIDs: a run is queued by one batch only.
FreshRun(s, batch) ==
    batch[1].type = "run_queued" =>
        /\ \A i \in DOMAIN log[s] : log[s][i].event # batch[1]
        /\ \A t \in Tasks : op[t].at = "begin" => op[t].batch[1] # batch[1]

\* append_events, up to pool.begin(): copy the cached projection.
ReadCache(t, s, batch) ==
    /\ mode = "up" /\ op[t].at = "idle" /\ s \in used
    /\ FreshRun(s, batch)
    /\ Len(log[s]) + Len(batch) <= MaxLog
    /\ op' = [op EXCEPT ![t] = [at |-> "begin", session |-> s, batch |-> batch,
                                base |-> cache[s]]]
    /\ UNCHANGED <<mode, tables, cache>>

\* The transaction of append_events: ids come from the last_event_id column,
\* the projection from the copy, or from the rows when there was none.
Projected(t) ==
    LET s == op[t].session
        base == IF op[t].base.phase = "missing" THEN Project(log[s]) ELSE op[t].base
    IN  ApplyAll(base, Record(row[s].last, op[t].batch))

\* The inserts, the UPDATE of the summary row, the commit.
WriteBatch(t, last, next) ==
    LET s == op[t].session IN
    /\ mode = "up" /\ op[t].at = "begin"
    /\ log' = [log EXCEPT ![s] = @ \o Record(last, op[t].batch)]
    /\ row' = [row EXCEPT ![s] =
                 [Columns(Projected(t)) EXCEPT !.last = last + Len(op[t].batch)]]
    /\ op' = [op EXCEPT ![t] = next]
    /\ UNCHANGED <<mode, used, cache>>

LastId(t) == row[op[t].session].last
Pending(t) == [at |-> "insert", session |-> op[t].session, proj |-> Projected(t)]

\* Mutant: the batch is stored although the projection refused it.
CommitUnchecked(t) ==
    op[t].at = "begin" /\ Exists(op[t].session) /\ WriteBatch(t, LastId(t), Pending(t))

\* Mutant: the cached projection is not replaced after the commit.
CommitUncached(t) ==
    /\ op[t].at = "begin" /\ Exists(op[t].session) /\ Projected(t).phase # "corrupt"
    /\ WriteBatch(t, LastId(t), Idle)

\* Mutant: the ids continue from the copied projection, not from the column.
CommitFromCopy(t) ==
    /\ op[t].at = "begin" /\ Exists(op[t].session) /\ Projected(t).phase # "corrupt"
    /\ WriteBatch(t, IF op[t].base.phase = "missing" THEN LastId(t) ELSE op[t].base.last,
                  Pending(t))

\* Mutant: the summary row is written whether or not it is still there.
CommitUpsert(t) ==
    /\ op[t].at = "begin" /\ Projected(t).phase # "corrupt"
    /\ WriteBatch(t, LastId(t), Pending(t))

CommitBatch(t) ==
    /\ op[t].at = "begin" /\ Exists(op[t].session) /\ Projected(t).phase # "corrupt"
    /\ WriteBatch(t, LastId(t), Pending(t))

\* The session is gone or the projection refuses the batch: rollback.
RollBack(t) ==
    /\ mode = "up" /\ op[t].at = "begin"
    /\ ~Exists(op[t].session) \/ Projected(t).phase = "corrupt"
    /\ op' = [op EXCEPT ![t] = Idle]
    /\ UNCHANGED <<mode, tables, cache>>

\* The end of append_events and of a projection() miss: store the result.
InsertCache(t) ==
    /\ mode = "up" /\ op[t].at = "insert"
    /\ cache' = [cache EXCEPT ![op[t].session] = op[t].proj]
    /\ op' = [op EXCEPT ![t] = Idle]
    /\ UNCHANGED <<mode, tables>>

\* projection(): nothing cached, so the log will be read.
MissProjection(t, s) ==
    /\ mode = "up" /\ op[t].at = "idle" /\ s \in used
    /\ ~Cached(s)
    /\ op' = [op EXCEPT ![t] = [at |-> "load", session |-> s]]
    /\ UNCHANGED <<mode, tables, cache>>

\* projection(): the rows are read and projected; an error ends the call.
LoadLog(t) ==
    LET s == op[t].session IN
    /\ mode = "up" /\ op[t].at = "load"
    /\ op' = [op EXCEPT ![t] =
                IF Replayable(log[s])
                THEN [at |-> "insert", session |-> s, proj |-> Project(log[s])]
                ELSE Idle]
    /\ UNCHANGED <<mode, tables, cache>>

\* A future dropped at an await: an open transaction rolls back, a pending
\* cache insertion never happens.
DropTask(t) ==
    /\ CanDrop
    /\ mode = "up" /\ op[t].at # "idle"
    /\ op' = [op EXCEPT ![t] = Idle]
    /\ UNCHANGED <<mode, tables, cache>>

-----------------------------------------------------------------------------
\* Mutant: the branch's row is the one of the prefix.
ForkStaleRow(s, parent, at) ==
    LET prefix == SubSeq(log[parent], 1, at)
        events == Record(at, BranchEvents(Project(prefix)))
    IN  /\ mode = "up" /\ s \notin used
        /\ at + Len(events) <= MaxLog
        /\ used' = used \cup {s}
        /\ log' = [log EXCEPT ![s] = prefix \o events]
        /\ row' = [row EXCEPT ![s] = Columns(Project(prefix))]
        /\ UNCHANGED <<mode, cache, op>>

\* Mutant: the branch may be written over a session that exists.
ForkOver(s, parent, at) ==
    LET prefix == SubSeq(log[parent], 1, at)
        events == Record(at, BranchEvents(Project(prefix)))
        branch == ApplyAll(Project(prefix), events)
    IN  /\ mode = "up"
        /\ at + Len(events) <= MaxLog
        /\ branch.phase # "corrupt"
        /\ used' = used \cup {s}
        /\ log' = [log EXCEPT ![s] = prefix \o events]
        /\ row' = [row EXCEPT ![s] = [Columns(branch) EXCEPT !.last = at + Len(events)]]
        /\ UNCHANGED <<mode, cache, op>>

\* fork_session: copy the prefix of the parent's log, then mark the branch
\* interrupted, its active run too, and pause its queue.  One transaction.
ForkSession(s, parent, at) ==
    LET prefix == SubSeq(log[parent], 1, at)
        events == Record(at, BranchEvents(Project(prefix)))
        branch == ApplyAll(Project(prefix), events)
    IN  /\ mode = "up" /\ s \notin used
        /\ at + Len(events) <= MaxLog
        /\ branch.phase # "corrupt"
        /\ used' = used \cup {s}
        /\ log' = [log EXCEPT ![s] = prefix \o events]
        /\ row' = [row EXCEPT ![s] = [Columns(branch) EXCEPT !.last = at + Len(events)]]
        /\ UNCHANGED <<mode, cache, op>>

\* delete_project for a project that holds s: the cascade removes the rows,
\* then the session leaves the cache.
DeleteRows(t, s) ==
    /\ mode = "up" /\ op[t].at = "idle" /\ Exists(s)
    /\ log' = [log EXCEPT ![s] = <<>>]
    /\ row' = [row EXCEPT ![s] = NoRow]
    /\ op' = [op EXCEPT ![t] = [at |-> "evict", session |-> s]]
    /\ UNCHANGED <<mode, used, cache>>

EvictCache(t) ==
    /\ mode = "up" /\ op[t].at = "evict"
    /\ cache' = [cache EXCEPT ![op[t].session] = Missing]
    /\ op' = [op EXCEPT ![t] = Idle]
    /\ UNCHANGED <<mode, tables>>

-----------------------------------------------------------------------------
Crash ==
    /\ mode = "up"
    /\ mode' = "down"
    /\ cache' = [s \in Sessions |-> Missing]
    /\ op' = [t \in Tasks |-> Idle]
    /\ UNCHANGED tables

\* validate_all: every session's log replays to its summary columns.
Validates(s) == Exists(s) => Replayable(log[s]) /\ row[s] = Columns(Project(log[s]))

\* connect: the store opens only if every session validates; a refused start
\* may be tried again.
Connect ==
    /\ mode # "up"
    /\ mode' = IF \A s \in Sessions : Validates(s) THEN "up" ELSE "refused"
    /\ UNCHANGED <<tables, cache, op>>

Next ==
    \/ \E s \in Sessions : CreateSession(s)
    \/ \E s, parent \in Sessions : \E at \in DOMAIN log[parent] : ForkSession(s, parent, at)
    \/ \E t \in Tasks, s \in Sessions :
          \/ \E batch \in Batches[t] : ReadCache(t, s, batch)
          \/ MissProjection(t, s)
          \/ DeleteRows(t, s)
    \/ \E t \in Tasks :
          \/ CommitBatch(t) \/ RollBack(t) \/ InsertCache(t)
          \/ LoadLog(t) \/ EvictCache(t) \/ DropTask(t)
    \/ Crash \/ Connect

Spec == Init /\ [][Next]_vars

-----------------------------------------------------------------------------
(* Properties.                                                              *)

\* Type correctness: tables indexed by session, tasks at one of the awaits of
\* append_events, projection or delete_project.
TypeOK ==
    /\ mode \in {"up", "down", "refused"}
    /\ used \subseteq Sessions
    /\ \A s \in Sessions :
          /\ row[s].last \in Nat /\ row[s].revision \in Nat
          /\ row[s].phase \in Phases \cup {"none"}
    /\ \A t \in Tasks : op[t].at \in {"idle", "begin", "insert", "load", "evict"}

\* storage.rs numbers events from the last_event_id column inside the
\* transaction: whatever the interleaving of appenders, forks, deletions and
\* dropped futures, a session's ids are 1, 2, 3, ... without a gap, and the
\* column names the last one (project() refuses anything else).
LogNumbering ==
    \A s \in Sessions :
        /\ row[s].last = Len(log[s])
        /\ \A i \in DOMAIN log[s] : log[s][i].id = i

\* An event that was committed is never changed or removed, except by the
\* deletion of its whole session (delete_project).
LogsAppendOnly ==
    [][\A s \in Sessions :
          \/ log'[s] = <<>>
          \/ /\ Len(log[s]) <= Len(log'[s])
             /\ \A i \in DOMAIN log[s] : log'[s][i] = log[s][i]]_log

\* A caller that was already inside append_events when its session was
\* deleted cannot bring the session back (the UPDATE finds no row).
DeletedStaysDeleted ==
    [][\A s \in used : ~Exists(s) => ~Exists(s)']_vars

\* No task is between its commit and its cache insertion, or its deletion and
\* its eviction, on s.
Settled(s) == \A t \in Tasks : op[t].at \in {"insert", "evict"} => op[t].session # s

\* The cache the callers decide on (projection()) is the replay of the log.
CacheCoherent ==
    \A s \in Sessions :
        Cached(s) /\ Exists(s) /\ Settled(s) => cache[s] = Project(log[s])

\* ARCHITECTURE.md: "a transactional projection cache verified against the
\* append-only event log on startup": the verification never fails on a
\* database this program wrote.
StartupAccepts == mode # "refused"

\* The store refines the serial log: every commit appends a batch that the
\* projection of the whole log so far accepts.
Serial == INSTANCE SerialLog WITH Batches <- UNION {Batches[t] : t \in Tasks}
SerialSpec == Serial!Spec
=============================================================================
