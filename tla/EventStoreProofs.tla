--------------------------- MODULE EventStoreProofs --------------------------
(* Proofs about the event store, for any number of sessions, callers and    *)
(* batches, with crashes in between: numbering, order and types also with   *)
(* futures dropped at every await; cache, startup and the serial log for    *)
(* callers that take turns on each session.                                 *)
EXTENDS EventStore, ReplayLemmas

\* LogNumbering is inductive once the tables are known to be sequences and an
\* unused identifier to have no events ...
TablesInv ==
    /\ DOMAIN log = Sessions /\ DOMAIN row = Sessions
    /\ \A s \in Sessions : IsSeq(log[s]) /\ (s \notin used => log[s] = <<>>)
    /\ LogNumbering

\* ... and a batch on its way to the transaction to be a sequence for a
\* session that was handed out.
BeginInv ==
    /\ DOMAIN op = Tasks
    /\ \A t \in Tasks : op[t].at = "begin" => /\ op[t].session \in Sessions \cap used
                                              /\ IsSeq(op[t].batch)

NumberingInv == TablesInv /\ BeginInv

LEMMA DomainOfSeq ==
    ASSUME NEW a, IsSeq(a)
    PROVE  DOMAIN a = 1..Len(a)
BY DEF IsSeq

LEMMA BranchIsSeq ==
    ASSUME NEW p
    PROVE  IsSeq(BranchEvents(p))
<1> DEFINE x == IF ActiveRuns(p) = {} THEN <<>>
                ELSE <<RunEnded(CHOOSE r \in ActiveRuns(p) : \A o \in ActiveRuns(p) : r <= o,
                                "interrupted")>>
<1>1. IsSeq(x)
  <2>1. x = <<>> \/ \E y : x = <<y>> OBVIOUS
  <2> HIDE DEF x
  <2> QED BY <2>1, EmptyIsSeq, SingletonIsSeq
<1>2. BranchEvents(p) = (<<SessionForked>> \o x) \o <<QueuePaused>>
    BY Zenon DEF BranchEvents
<1> HIDE DEF x
<1>3. IsSeq(<<SessionForked>>) /\ IsSeq(<<QueuePaused>>) BY SingletonIsSeq
<1>4. IsSeq(<<SessionForked>> \o x) BY <1>1, <1>3, ConcatIsSeq
<1>5. IsSeq((<<SessionForked>> \o x) \o <<QueuePaused>>) BY <1>3, <1>4, ConcatIsSeq
<1> QED BY <1>2, <1>5

\* What recording a batch after the last id of a numbered log does to it.
LEMMA AppendNumbered ==
    ASSUME NEW a, IsSeq(a), \A i \in DOMAIN a : a[i].id = i, NEW b, IsSeq(b)
    PROVE  /\ IsSeq(a \o Record(Len(a), b))
           /\ Len(a \o Record(Len(a), b)) = Len(a) + Len(b)
           /\ \A i \in DOMAIN (a \o Record(Len(a), b)) : (a \o Record(Len(a), b))[i].id = i
           /\ Len(a) <= Len(a \o Record(Len(a), b))
           /\ \A i \in DOMAIN a : (a \o Record(Len(a), b))[i] = a[i]
<1>1. \A i \in 1..Len(a) : a[i].id = i BY DomainOfSeq
<1>2. PICK r : r = Record(Len(a), b) OBVIOUS
<1>3. /\ IsSeq(a \o r)
      /\ Len(a \o r) = Len(a) + Len(b)
      /\ \A i \in 1..Len(a \o r) : (a \o r)[i].id = i
      /\ \A i \in 1..Len(a) : (a \o r)[i] = a[i]
    BY <1>1, <1>2, NumberedConcat
<1>4. Len(a) \in Nat /\ Len(b) \in Nat BY DEF IsSeq
<1>5. DOMAIN a = 1..Len(a) /\ DOMAIN (a \o r) = 1..Len(a \o r) BY <1>3, DomainOfSeq
<1>6. /\ IsSeq(a \o r)
      /\ Len(a \o r) = Len(a) + Len(b)
      /\ \A i \in DOMAIN (a \o r) : (a \o r)[i].id = i
      /\ Len(a) <= Len(a \o r)
      /\ \A i \in DOMAIN a : (a \o r)[i] = a[i]
    BY <1>3, <1>4, <1>5
<1> QED BY <1>2, <1>6

-----------------------------------------------------------------------------
\* The tables after a transaction wrote session s: its log is l, its
\* last_event_id column names the last event of l.
Wrote(s, l) ==
    /\ IsSeq(l) /\ (\A i \in DOMAIN l : l[i].id = i)
    /\ log' = [log EXCEPT ![s] = l]
    /\ DOMAIN row' = DOMAIN row
    /\ row'[s].last = Len(l)
    /\ \A o \in Sessions \ {s} : row'[o] = row[o]

LEMMA WroteTables ==
    ASSUME TablesInv, NEW s \in Sessions, NEW l, Wrote(s, l),
           s \in used' \/ l = <<>>, used \subseteq used'
    PROVE  TablesInv'
BY DEF TablesInv, LogNumbering, Wrote

\* Each of the four transactions writes one numbered log.
LEMMA CreateWrites ==
    ASSUME TablesInv, NEW s \in Sessions, CreateSession(s)
    PROVE  Wrote(s, Record(0, <<SessionCreated>>)) /\ s \in used'
<1>1. PICK e : e = SessionCreated OBVIOUS
<1>2. IsSeq(<<e>>) /\ Len(<<e>>) = 1 BY SingletonIsSeq
<1>3. PICK r : r = Record(0, <<e>>) OBVIOUS
<1>4. /\ IsSeq(r) /\ Len(r) = 1
      /\ \A i \in 1..1 : r[i].id = 0 + i
    BY <1>2, <1>3, RecordIsSeq
<1>5. \A i \in DOMAIN r : r[i].id = i BY <1>4, DomainOfSeq
<1>6. log' = [log EXCEPT ![s] = r] BY <1>1, <1>3 DEF CreateSession
<1>7. /\ DOMAIN row' = DOMAIN row
      /\ row'[s].last = 1
      /\ \A o \in Sessions \ {s} : row'[o] = row[o]
    BY DEF CreateSession, TablesInv
<1>8. Wrote(s, r) BY <1>4, <1>5, <1>6, <1>7 DEF Wrote
<1> QED BY <1>1, <1>3, <1>8 DEF CreateSession

LEMMA CommitWrites ==
    ASSUME TablesInv, NEW t \in Tasks, op[t].session \in Sessions, IsSeq(op[t].batch),
           CommitBatch(t)
    PROVE  /\ Wrote(op[t].session, log[op[t].session]
                                   \o Record(Len(log[op[t].session]), op[t].batch))
           /\ Exists(op[t].session)
<1>1. PICK s \in Sessions : s = op[t].session OBVIOUS
<1>2. PICK a : a = log[s] OBVIOUS
<1>3. PICK b : b = op[t].batch OBVIOUS
<1>4. IsSeq(a) /\ row[s].last = Len(a) /\ (\A i \in DOMAIN a : a[i].id = i)
    BY <1>1, <1>2 DEF TablesInv, LogNumbering
<1>5. IsSeq(b) BY <1>3
<1>6. PICK l : l = a \o Record(Len(a), b) OBVIOUS
<1>7. IsSeq(l) /\ Len(l) = Len(a) + Len(b) /\ (\A i \in DOMAIN l : l[i].id = i)
    BY <1>4, <1>5, <1>6, AppendNumbered
<1>8. log' = [log EXCEPT ![s] = l]
    BY <1>1, <1>2, <1>3, <1>4, <1>6 DEF CommitBatch, WriteBatch, LastId, Pending
<1>9. /\ DOMAIN row' = DOMAIN row
      /\ row'[s].last = Len(a) + Len(b)
      /\ \A o \in Sessions \ {s} : row'[o] = row[o]
    BY <1>1, <1>3, <1>4 DEF CommitBatch, WriteBatch, LastId, Pending, TablesInv, Columns
<1>10. Wrote(s, l) BY <1>7, <1>8, <1>9 DEF Wrote
<1> QED BY <1>1, <1>2, <1>3, <1>6, <1>10 DEF CommitBatch, WriteBatch, LastId, Pending

LEMMA ForkWrites ==
    ASSUME TablesInv, NEW s \in Sessions, NEW parent \in Sessions,
           NEW at \in DOMAIN log[parent], ForkSession(s, parent, at)
    PROVE  (\E l : Wrote(s, l)) /\ s \in used'
<1>1. PICK a : a = log[parent] OBVIOUS
<1>2. IsSeq(a) /\ (\A i \in DOMAIN a : a[i].id = i)
    BY <1>1 DEF TablesInv, LogNumbering
<1>3. DOMAIN a = 1..Len(a) /\ at \in 1..Len(a) BY <1>1, <1>2, DomainOfSeq
<1>4. PICK pre : pre = SubSeq(a, 1, at) OBVIOUS
<1>5. IsSeq(pre) /\ Len(pre) = at /\ \A i \in 1..at : pre[i] = a[i]
    BY <1>2, <1>3, <1>4, PrefixIsSeq
<1>6. \A i \in DOMAIN pre : pre[i].id = i
  <2>1. at \in Nat /\ Len(a) \in Nat /\ at <= Len(a) BY <1>2, <1>3 DEF IsSeq
  <2> QED BY <1>2, <1>3, <1>5, <2>1, DomainOfSeq
<1>7. PICK b : b = BranchEvents(Project(pre)) OBVIOUS
<1>8. IsSeq(b) BY <1>7, BranchIsSeq
<1>9. PICK l : l = pre \o Record(Len(pre), b) OBVIOUS
<1>10. IsSeq(l) /\ Len(l) = at + Len(b) /\ (\A i \in DOMAIN l : l[i].id = i)
    BY <1>5, <1>6, <1>8, <1>9, AppendNumbered
<1>11. PICK r : r = Record(at, b) OBVIOUS
<1>12. Len(r) = Len(b)
  <2>1. at \in Nat BY <1>3, <1>2 DEF IsSeq
  <2> QED BY <1>8, <1>11, <2>1, RecordIsSeq
<1>13. log' = [log EXCEPT ![s] = l]
    BY <1>1, <1>4, <1>5, <1>7, <1>9 DEF ForkSession
<1>14. /\ DOMAIN row' = DOMAIN row
       /\ row'[s].last = at + Len(r)
       /\ \A o \in Sessions \ {s} : row'[o] = row[o]
    BY <1>1, <1>4, <1>7, <1>11 DEF ForkSession, TablesInv, Columns
<1>15. Wrote(s, l) BY <1>10, <1>12, <1>13, <1>14 DEF Wrote
<1> QED BY <1>15 DEF ForkSession

LEMMA DeleteWrites ==
    ASSUME TablesInv, NEW t \in Tasks, NEW s \in Sessions, DeleteRows(t, s)
    PROVE  Wrote(s, <<>>)
<1>1. IsSeq(<<>>) /\ Len(<<>>) = 0 /\ DOMAIN (<<>>) = 1..0 BY EmptyIsSeq, DomainOfSeq
<1>2. \A i \in DOMAIN (<<>>) : (<<>>)[i].id = i BY <1>1
<1>3. /\ DOMAIN row' = DOMAIN row
      /\ row'[s].last = 0
      /\ \A o \in Sessions \ {s} : row'[o] = row[o]
    BY DEF DeleteRows, TablesInv, NoRow
<1> QED BY <1>1, <1>2, <1>3 DEF Wrote, DeleteRows

-----------------------------------------------------------------------------
\* An action that leaves the tables alone and moves task t elsewhere than to
\* the transaction of append_events.
LEMMA OtherStep ==
    ASSUME NumberingInv, UNCHANGED tables, NEW t \in Tasks, NEW x, x.at # "begin",
           op' = [op EXCEPT ![t] = x]
    PROVE  NumberingInv'
BY DEF NumberingInv, TablesInv, BeginInv, LogNumbering, tables

LEMMA BeginStep ==
    ASSUME BeginInv, used \subseteq used', NEW t \in Tasks, NEW x, x.at # "begin",
           op' = op \/ op' = [op EXCEPT ![t] = x]
    PROVE  BeginInv'
BY DEF BeginInv

LEMMA NumberingInit == Init => NumberingInv
<1>1. IsSeq(<<>>) /\ Len(<<>>) = 0 /\ DOMAIN (<<>>) = 1..0 BY EmptyIsSeq, DomainOfSeq
<1> QED BY <1>1 DEF Init, NumberingInv, TablesInv, BeginInv, LogNumbering, NoRow, Idle

LEMMA NumberingStep == NumberingInv /\ [Next]_vars => NumberingInv'
<1> SUFFICES ASSUME NumberingInv, [Next]_vars PROVE NumberingInv' OBVIOUS
<1>a. TablesInv /\ BeginInv BY DEF NumberingInv
<1>1. ASSUME NEW s \in Sessions, CreateSession(s) PROVE NumberingInv'
  <2>1. TablesInv'
    <3>1. Wrote(s, Record(0, <<SessionCreated>>)) /\ s \in used' BY <1>a, <1>1, CreateWrites
    <3>2. used \subseteq used' BY <1>1 DEF CreateSession
    <3> QED BY <1>a, <3>1, <3>2, WroteTables
  <2>2. BeginInv' BY <1>a, <1>1 DEF CreateSession, BeginInv
  <2> QED BY <2>1, <2>2 DEF NumberingInv
<1>2. ASSUME NEW s \in Sessions, NEW parent \in Sessions, NEW at \in DOMAIN log[parent],
             ForkSession(s, parent, at)
      PROVE  NumberingInv'
  <2>0. used \subseteq used' /\ op' = op BY <1>2 DEF ForkSession
  <2>1. TablesInv'
    <3>1. PICK l : Wrote(s, l) BY <1>a, <1>2, ForkWrites
    <3>2. s \in used' BY <1>2 DEF ForkSession
    <3> QED BY <1>a, <2>0, <3>1, <3>2, WroteTables
  <2>2. BeginInv' BY <1>a, <2>0 DEF BeginInv
  <2> QED BY <2>1, <2>2 DEF NumberingInv
<1>3. ASSUME NEW t \in Tasks, NEW s \in Sessions, NEW batch \in Batches[t],
             ReadCache(t, s, batch)
      PROVE  NumberingInv'
  <2>1. IsSeq(batch) BY EventStoreAssumption
  <2>2. TablesInv' BY <1>a, <1>3 DEF ReadCache, tables, TablesInv, LogNumbering
  <2>3. BeginInv' BY <1>a, <1>3, <2>1 DEF ReadCache, tables, BeginInv
  <2> QED BY <2>2, <2>3 DEF NumberingInv
<1>4. ASSUME NEW t \in Tasks, NEW s \in Sessions, MissProjection(t, s) PROVE NumberingInv'
  <2>1. PICK x : x = [at |-> "load", session |-> s] OBVIOUS
  <2> QED BY <1>4, <2>1, OtherStep DEF MissProjection
<1>5. ASSUME NEW t \in Tasks, NEW s \in Sessions, DeleteRows(t, s) PROVE NumberingInv'
  <2>1. TablesInv' BY <1>a, <1>5, DeleteWrites, WroteTables DEF DeleteRows
  <2>2. BeginInv'
    <3>1. PICK x : x = [at |-> "evict", session |-> s] OBVIOUS
    <3>2. op' = [op EXCEPT ![t] = x] /\ used \subseteq used' BY <1>5, <3>1 DEF DeleteRows
    <3>3. x.at # "begin" BY <3>1
    <3> QED BY <1>a, <3>2, <3>3, BeginStep
  <2> QED BY <2>1, <2>2 DEF NumberingInv
<1>6. ASSUME NEW t \in Tasks, CommitBatch(t) PROVE NumberingInv'
  <2>0. used' = used /\ op[t].session \in Sessions \cap used /\ IsSeq(op[t].batch)
      BY <1>a, <1>6 DEF CommitBatch, WriteBatch, LastId, Pending, BeginInv
  <2>1. TablesInv'
    <3>1. PICK l : Wrote(op[t].session, l) BY <1>a, <1>6, <2>0, CommitWrites
    <3>2. PICK s \in Sessions : s = op[t].session BY <2>0
    <3> QED BY <1>a, <2>0, <3>1, <3>2, WroteTables
  <2>2. BeginInv'
    <3>1. PICK x : x = Pending(t) OBVIOUS
    <3>2. op' = [op EXCEPT ![t] = x] BY <1>6, <3>1, Zenon DEF CommitBatch, WriteBatch
    <3>3. x.at # "begin" BY <3>1 DEF Pending
    <3> QED BY <1>a, <2>0, <3>2, <3>3, BeginStep
  <2> QED BY <2>1, <2>2 DEF NumberingInv
<1>7. ASSUME NEW t \in Tasks, LoadLog(t) PROVE NumberingInv'
  <2>1. PICK x : x = IF Replayable(log[op[t].session])
                     THEN [at |-> "insert", session |-> op[t].session,
                           proj |-> Project(log[op[t].session])]
                     ELSE Idle
      OBVIOUS
  <2>2. x.at # "begin" BY <2>1 DEF Idle
  <2> QED BY <1>7, <2>1, <2>2, OtherStep DEF LoadLog
<1>8. ASSUME NEW t \in Tasks, RollBack(t) \/ InsertCache(t) \/ EvictCache(t) \/ DropTask(t)
      PROVE  NumberingInv'
  <2>1. UNCHANGED tables /\ op' = [op EXCEPT ![t] = Idle]
      BY <1>8 DEF RollBack, InsertCache, EvictCache, DropTask
  <2>2. Idle.at # "begin" BY DEF Idle
  <2> QED BY <2>1, <2>2, OtherStep
<1>9. CASE Crash
    BY <1>a, <1>9 DEF Crash, tables, NumberingInv, TablesInv, BeginInv, LogNumbering, Idle
<1>10. CASE Connect
    BY <1>a, <1>10 DEF Connect, tables, NumberingInv, TablesInv, BeginInv, LogNumbering
<1>11. CASE UNCHANGED vars
    BY <1>a, <1>11 DEF vars, NumberingInv, TablesInv, BeginInv, LogNumbering
<1> QED BY <1>1, <1>2, <1>3, <1>4, <1>5, <1>6, <1>7, <1>8, <1>9, <1>10, <1>11 DEF Next

\* However the appenders, forks, deletions, dropped futures and crashes
\* interleave, the ids of every session are 1, 2, 3, ... and the
\* last_event_id column names the last one.
THEOREM NumberingCorrect == Spec => []LogNumbering
<1>1. NumberingInv => LogNumbering BY DEF NumberingInv, TablesInv
<1> QED BY <1>1, NumberingInit, NumberingStep, PTL DEF Spec

\* The events of a session before and after one step.
LEMMA AppendOnlyStep ==
    ASSUME NumberingInv, [Next]_vars, NEW s \in Sessions
    PROVE  \/ log'[s] = <<>>
           \/ /\ Len(log[s]) <= Len(log'[s])
              /\ \A i \in DOMAIN log[s] : log'[s][i] = log[s][i]
<1> DEFINE Kept == /\ Len(log[s]) <= Len(log'[s])
                   /\ \A i \in DOMAIN log[s] : log'[s][i] = log[s][i]
<1>a. TablesInv /\ BeginInv BY DEF NumberingInv
<1>b. Len(log[s]) \in Nat BY <1>a DEF TablesInv, IsSeq
<1>same. ASSUME log'[s] = log[s] PROVE Kept BY <1>b, <1>same
<1>new. ASSUME s \notin used, Len(log'[s]) \in Nat PROVE Kept
  <2>1. log[s] = <<>> BY <1>a, <1>new DEF TablesInv
  <2>2. IsSeq(<<>>) /\ Len(<<>>) = 0 /\ DOMAIN (<<>>) = 1..0 BY EmptyIsSeq, DomainOfSeq
  <2> QED BY <1>new, <2>1, <2>2
<1>1. ASSUME NEW o \in Sessions, CreateSession(o) PROVE Kept
  <2>1. CASE o = s
    <3>1. Len(log'[s]) \in Nat
        BY <1>a, <1>1, <2>1, CreateWrites DEF Wrote, IsSeq, TablesInv
    <3> QED BY <1>1, <1>new, <2>1, <3>1 DEF CreateSession
  <2>2. CASE o # s BY <1>same, <1>1, <2>2 DEF CreateSession
  <2> QED BY <2>1, <2>2
<1>2. ASSUME NEW o \in Sessions, NEW parent \in Sessions, NEW at \in DOMAIN log[parent],
             ForkSession(o, parent, at)
      PROVE  Kept
  <2>1. CASE o = s
    <3>1. Len(log'[s]) \in Nat
        BY <1>a, <1>2, <2>1, ForkWrites DEF Wrote, IsSeq, TablesInv
    <3> QED BY <1>2, <1>new, <2>1, <3>1 DEF ForkSession
  <2>2. CASE o # s
    <3>1. log'[s] = log[s] BY <1>a, <1>2, <2>2, ForkWrites DEF Wrote, TablesInv
    <3> QED BY <1>same, <3>1
  <2> QED BY <2>1, <2>2
<1>3. ASSUME NEW t \in Tasks, CommitBatch(t) PROVE Kept
  <2>0. op[t].session \in Sessions /\ IsSeq(op[t].batch)
      BY <1>a, <1>3 DEF CommitBatch, WriteBatch, LastId, Pending, BeginInv
  <2>1. Wrote(op[t].session, log[op[t].session]
                             \o Record(Len(log[op[t].session]), op[t].batch))
      BY <1>a, <1>3, <2>0, CommitWrites
  <2>2. PICK b : b = op[t].batch OBVIOUS
  <2>3. CASE op[t].session = s
    <3>1. log'[s] = log[s] \o Record(Len(log[s]), b)
        BY <1>a, <2>1, <2>2, <2>3 DEF Wrote, TablesInv
    <3>2. IsSeq(log[s]) /\ (\A i \in DOMAIN log[s] : log[s][i].id = i) /\ IsSeq(b)
        BY <1>a, <2>0, <2>2 DEF TablesInv, LogNumbering
    <3>3. PICK a : a = log[s] OBVIOUS
    <3>4. IsSeq(a) /\ (\A i \in DOMAIN a : a[i].id = i) /\ IsSeq(b) BY <3>2, <3>3
    <3>5. /\ Len(a) <= Len(a \o Record(Len(a), b))
          /\ \A i \in DOMAIN a : (a \o Record(Len(a), b))[i] = a[i]
        BY <3>4, AppendNumbered
    <3> QED BY <3>1, <3>3, <3>5
  <2>4. CASE op[t].session # s
    <3>1. log'[s] = log[s] BY <1>a, <2>1, <2>4 DEF Wrote, TablesInv
    <3> QED BY <1>same, <3>1
  <2> QED BY <2>3, <2>4
<1>4. ASSUME NEW t \in Tasks, NEW o \in Sessions, DeleteRows(t, o)
      PROVE  log'[s] = <<>> \/ Kept
    BY <1>a, <1>4, <1>same DEF DeleteRows, TablesInv
<1>5. ASSUME UNCHANGED log PROVE Kept BY <1>5, <1>same
<1>6. QED BY <1>1, <1>2, <1>3, <1>4, <1>5
          DEF Next, ReadCache, MissProjection, LoadLog, RollBack, InsertCache, EvictCache,
              DropTask, Crash, Connect, tables, vars

\* No step changes or removes a committed event, except the deletion of its
\* whole session by delete_project.
THEOREM AppendOnlyCorrect == Spec => LogsAppendOnly
<1>1. NumberingInv /\ [Next]_vars
        => [\A s \in Sessions :
              \/ log'[s] = <<>>
              \/ /\ Len(log[s]) <= Len(log'[s])
                 /\ \A i \in DOMAIN log[s] : log'[s][i] = log[s][i]]_log
    BY AppendOnlyStep
<1> QED BY <1>1, NumberingInit, NumberingStep, PTL DEF Spec, LogsAppendOnly

\* A session that delete_project removed never comes back: neither create nor
\* fork reuses its identifier, and an append that was already past its cache
\* read finds no row.
THEOREM DeletionCorrect == Spec => DeletedStaysDeleted
<1>1. NumberingInv /\ [Next]_vars => [\A s \in used : ~Exists(s) => ~Exists(s)']_vars
  <2> SUFFICES ASSUME NumberingInv, [Next]_vars, NEW s \in used, ~Exists(s)
               PROVE  ~Exists(s)'
      OBVIOUS
  <2>a. DOMAIN row = Sessions BY DEF NumberingInv, TablesInv
  <2>1. ASSUME NEW o \in Sessions, CreateSession(o) PROVE row'[s] = row[s]
      BY <2>1 DEF CreateSession
  <2>2. ASSUME NEW o \in Sessions, NEW parent \in Sessions, NEW at \in DOMAIN log[parent],
               ForkSession(o, parent, at)
        PROVE  row'[s] = row[s]
      BY <2>2 DEF ForkSession
  <2>3. ASSUME NEW t \in Tasks, CommitBatch(t) PROVE row'[s] = row[s]
      BY <2>3 DEF CommitBatch, WriteBatch, LastId, Pending, Exists
  <2>4. ASSUME NEW t \in Tasks, NEW o \in Sessions, DeleteRows(t, o)
        PROVE  row'[s] = row[s] \/ row'[s] = NoRow
      BY <2>a, <2>4 DEF DeleteRows
  <2>5. row'[s] = row[s] \/ row'[s] = NoRow
      BY <2>1, <2>2, <2>3, <2>4
         DEF Next, ReadCache, MissProjection, LoadLog, RollBack, InsertCache, EvictCache,
             DropTask, Crash, Connect, tables, vars
  <2> QED BY <2>5 DEF Exists, NoRow
<1> QED BY <1>1, NumberingInit, NumberingStep, PTL DEF Spec, DeletedStaysDeleted

-----------------------------------------------------------------------------
(* The types of the tables and of what the tasks hold.                      *)

\* A copy of a projection: of the cache, or made from the log.
Copy(p) == p = Missing \/ Summarised(p)

RowOK(r) == r.last \in Nat /\ r.revision \in Nat /\ r.phase \in Phases \cup {"none"}

TaskOK(t, x) ==
    /\ x.at \in {"idle", "begin", "insert", "load", "evict"}
    /\ x.at # "idle" => x.session \in Sessions \cap used
    /\ x.at = "begin" => Copy(x.base) /\ x.batch \in Batches[t]
    /\ x.at = "insert" => Summarised(x.proj)

StoreInv ==
    /\ NumberingInv
    /\ mode \in {"up", "down", "refused"} /\ used \subseteq Sessions /\ DOMAIN cache = Sessions
    /\ \A s \in Sessions : /\ RowOK(row[s]) /\ Copy(cache[s])
                           /\ s \notin used => row[s] = NoRow /\ cache[s] = Missing
    /\ \A t \in Tasks : TaskOK(t, op[t])

LEMMA MissingIs == ASSUME NEW p, Copy(p) PROVE p.phase = "missing" <=> p = Missing
BY DEF Copy, Missing, Summarised, Phases

LEMMA IdleOK == ASSUME NEW t PROVE TaskOK(t, Idle)
BY DEF TaskOK, Idle

\* A step that moves at most one task and writes at most rows of their type.
LEMMA StoreMoves ==
    ASSUME StoreInv, NumberingInv',
           mode' \in {"up", "down", "refused"}, used' \subseteq Sessions, used \subseteq used',
           \A s \in Sessions : row'[s] = row[s] \/ (RowOK(row'[s]) /\ s \in used'),
           cache' = cache,
           NEW t, NEW x, op' = op \/ (op' = [op EXCEPT ![t] = x] /\ TaskOK(t, x)')
    PROVE  StoreInv'
<1>1. ASSUME NEW u \in Tasks PROVE TaskOK(u, op[u])'
  <2>1. CASE op'[u] = op[u] BY <2>1 DEF StoreInv, TaskOK
  <2>2. CASE op'[u] # op[u]
    <3>1. DOMAIN op = Tasks BY DEF StoreInv, NumberingInv, BeginInv
    <3>2. u = t /\ op'[u] = x /\ TaskOK(t, x)' BY <2>2, <3>1
    <3> QED BY <3>2 DEF TaskOK
  <2> QED BY <2>1, <2>2
<1>2. \A s \in Sessions : /\ RowOK(row'[s]) /\ Copy(cache'[s])
                          /\ s \notin used' => row'[s] = NoRow /\ cache'[s] = Missing
  BY DEF StoreInv
<1> QED BY <1>1, <1>2 DEF StoreInv, RowOK, Copy

\* The projection of a batch on its way, and the row it writes.
LEMMA ProjectedSummary ==
    ASSUME StoreInv, NEW t \in Tasks, op[t].at = "begin"
    PROVE  /\ Summary(Projected(t))
           /\ op[t].session \in Sessions \cap used /\ IsSeq(op[t].batch) /\ op[t].batch # <<>>
<1>1. PICK s \in Sessions : s = op[t].session BY DEF StoreInv, TaskOK
<1>2. op[t].session \in Sessions \cap used /\ op[t].batch \in Batches[t] /\ Copy(op[t].base)
  BY DEF StoreInv, TaskOK
<1>3. PICK b : b = op[t].batch OBVIOUS
<1>4. IsSeq(b) /\ b # <<>> BY <1>2, <1>3, EventStoreAssumption
<1>5. IsSeq(log[s]) /\ row[s].last \in Nat
  BY DEF StoreInv, NumberingInv, TablesInv, RowOK
<1>6. PICK p : p = IF op[t].base.phase = "missing" THEN Project(log[s]) ELSE op[t].base OBVIOUS
<1>7. Summary(p)
  <2>1. CASE op[t].base.phase = "missing" BY <1>5, <1>6, <2>1, ProjectSummary
  <2>2. CASE op[t].base.phase # "missing" BY <1>2, <1>6, <2>2 DEF Copy, Missing, Summary
  <2> QED BY <2>1, <2>2
<1>8. PICK n \in Nat : n = row[s].last BY <1>5
<1>9. PICK r : r = Record(n, b) OBVIOUS
<1>10. Len(r) \in Nat /\ \A i \in 1..Len(r) : r[i].id = n + i
  BY <1>4, <1>9, RecordIsSeq DEF IsSeq
<1>11. Projected(t) = ApplyAll(p, r) BY <1>1, <1>3, <1>6, <1>8, <1>9 DEF Projected
<1>12. PICK q : q = ApplyAll(p, r) OBVIOUS
<1>13. Summary(q) BY <1>7, <1>10, <1>12, ReplaySummary DEF Summary
<1> QED BY <1>2, <1>3, <1>4, <1>11, <1>12, <1>13

LEMMA RowOfSummary ==
    ASSUME NEW q, Summary(q), q.phase # "corrupt", NEW n \in Nat
    PROVE  /\ Summarised(q)
           /\ RowOK([Columns(q) EXCEPT !.last = n])
           /\ [Columns(q) EXCEPT !.last = n] = [phase |-> q.phase, revision |-> q.revision, last |-> n]
<1>1. Summarised(q) BY CorruptPhase DEF Summary
<1>2. PICK r : r = [phase |-> q.phase, revision |-> q.revision, last |-> n] OBVIOUS
<1>3. [Columns(q) EXCEPT !.last = n] = r BY <1>2 DEF Columns
<1>4. RowOK(r) BY <1>1, <1>2 DEF RowOK, Summarised
<1> QED BY <1>1, <1>2, <1>3, <1>4

LEMMA StoreInit == Init => StoreInv
<1> SUFFICES ASSUME Init PROVE StoreInv OBVIOUS
<1>1. NumberingInv BY NumberingInit
<1>2. ASSUME NEW t \in Tasks PROVE TaskOK(t, op[t]) BY IdleOK DEF Init
<1>3. ASSUME NEW s \in Sessions PROVE RowOK(row[s]) /\ Copy(cache[s])
  BY DEF Init, RowOK, Copy, NoRow
<1> QED BY <1>1, <1>2, <1>3 DEF Init, StoreInv

LEMMA CommitRow ==
    ASSUME StoreInv, NEW t \in Tasks, CommitBatch(t)
    PROVE  /\ Summarised(Projected(t)) /\ op[t].session \in Sessions \cap used
           /\ row' = [row EXCEPT ![op[t].session] =
                         [phase |-> Projected(t).phase, revision |-> Projected(t).revision,
                          last |-> Len(log[op[t].session]) + Len(op[t].batch)]]
           /\ RowOK([phase |-> Projected(t).phase, revision |-> Projected(t).revision,
                     last |-> Len(log[op[t].session]) + Len(op[t].batch)])
<1>0. op[t].at = "begin" BY DEF CommitBatch
<1>1. PICK q : q = Projected(t) OBVIOUS
<1>2. PICK s \in Sessions \cap used : s = op[t].session BY <1>0, ProjectedSummary
<1>3. Summary(q) /\ q.phase # "corrupt" /\ IsSeq(op[t].batch)
  BY <1>0, <1>1, ProjectedSummary DEF CommitBatch
<1>4. row[s].last = Len(log[s]) /\ Len(log[s]) \in Nat
  BY DEF StoreInv, NumberingInv, TablesInv, LogNumbering, IsSeq
<1>5. PICK n \in Nat : n = Len(log[s]) + Len(op[t].batch)
  <2>1. PICK m \in Nat : m = Len(log[s]) BY <1>4
  <2>2. PICK k \in Nat : k = Len(op[t].batch) BY <1>3 DEF IsSeq
  <2>3. m + k \in Nat OBVIOUS
  <2> QED BY <2>1, <2>2, <2>3
<1>6. row' = [row EXCEPT ![s] = [Columns(q) EXCEPT !.last = n]]
  BY <1>1, <1>2, <1>4, <1>5, Zenon DEF CommitBatch, WriteBatch, LastId
<1>7. PICK r : r = [phase |-> q.phase, revision |-> q.revision, last |-> n] OBVIOUS
<1>8. Summarised(q) /\ RowOK(r) /\ [Columns(q) EXCEPT !.last = n] = r
  BY <1>3, <1>7, RowOfSummary
<1>9. row' = [row EXCEPT ![s] = r] BY <1>6, <1>8, Zenon
<1> QED BY <1>1, <1>2, <1>5, <1>7, <1>8, <1>9

\* What a fork writes: the replay of the copied prefix and of the events of
\* the branch.
LEMMA ForkRow ==
    ASSUME StoreInv, NEW s \in Sessions, NEW parent \in Sessions,
           NEW at \in DOMAIN log[parent], ForkSession(s, parent, at)
    PROVE  \E l, q :
              /\ IsSeq(l) /\ l # <<>> /\ (\A i \in DOMAIN l : l[i].id = i)
              /\ q = Project(l) /\ Summarised(q) /\ q.last = Len(l)
              /\ l = SubSeq(log[parent], 1, at)
                         \o Record(at, BranchEvents(Project(SubSeq(log[parent], 1, at))))
              /\ log' = [log EXCEPT ![s] = l]
              /\ row' = [row EXCEPT ![s] = Columns(q)] /\ RowOK(Columns(q))
<1>1. PICK a : a = log[parent] OBVIOUS
<1>2. IsSeq(a) /\ (\A i \in DOMAIN a : a[i].id = i)
    BY <1>1 DEF StoreInv, NumberingInv, TablesInv, LogNumbering
<1>3. DOMAIN a = 1..Len(a) /\ at \in 1..Len(a) /\ at \in Nat /\ Len(a) \in Nat
  <2>1. DOMAIN a = 1..Len(a) /\ Len(a) \in Nat BY <1>2, DomainOfSeq DEF IsSeq
  <2> QED BY <1>1, <2>1
<1>4. PICK pre : pre = SubSeq(a, 1, at) OBVIOUS
<1>5. IsSeq(pre) /\ Len(pre) = at /\ \A i \in 1..at : pre[i] = a[i]
    BY <1>2, <1>3, <1>4, PrefixIsSeq
<1>6. \A i \in DOMAIN pre : pre[i].id = i
  <2>1. DOMAIN pre = 1..at BY <1>5, DomainOfSeq
  <2> QED BY <1>2, <1>3, <1>5, <2>1
<1>7. PICK b : b = BranchEvents(Project(pre)) OBVIOUS
<1>8. IsSeq(b) BY <1>7, BranchIsSeq
<1>9. PICK r : r = Record(at, b) OBVIOUS
<1>10. IsSeq(r) /\ Len(r) = Len(b) BY <1>3, <1>8, <1>9, RecordIsSeq
<1>11. PICK l : l = pre \o r OBVIOUS
<1>12. IsSeq(l) /\ Len(l) = at + Len(b) /\ (\A i \in DOMAIN l : l[i].id = i)
    BY <1>5, <1>6, <1>8, <1>9, <1>11, AppendNumbered
<1>13. pre # <<>>
  <2> SUFFICES ASSUME pre = <<>> PROVE FALSE OBVIOUS
  <2>1. Len(pre) = 0 BY EmptyIsSeq, Zenon
  <2> QED BY <1>3, <1>5, <2>1
<1>14. l # <<>> /\ Project(l) = ApplyAll(Project(pre), r)
  BY <1>5, <1>6, <1>10, <1>11, <1>12, <1>13, ProjectAppended
<1>15. PICK q : q = Project(l) OBVIOUS
<1>16. q = ApplyAll(Project(pre), Record(at, b)) BY <1>9, <1>14, <1>15
<1>17. /\ q.phase # "corrupt"
       /\ log' = [log EXCEPT ![s] = l]
       /\ row' = [row EXCEPT ![s] = [Columns(q) EXCEPT !.last = at + Len(r)]]
    BY <1>1, <1>4, <1>7, <1>9, <1>11, <1>16, Zenon DEF ForkSession
<1>18. q = Corrupt \/ (Summarised(q) /\ q.last = Len(l)) BY <1>12, <1>14, <1>15, ProjectIs
<1>19. Summarised(q) /\ q.last = Len(l) BY <1>17, <1>18, CorruptPhase
<1>20. PICK n \in Nat : n = at + Len(r) BY <1>3, <1>10 DEF IsSeq
<1>21. q.last = n BY <1>10, <1>12, <1>19, <1>20
<1>22. [Columns(q) EXCEPT !.last = n] = Columns(q) BY <1>21 DEF Columns
<1>23. row' = [row EXCEPT ![s] = Columns(q)] BY <1>17, <1>20, <1>22, Zenon
<1>24. RowOK(Columns(q)) BY <1>19 DEF RowOK, Columns, Summarised
<1>25. l = SubSeq(log[parent], 1, at)
             \o Record(at, BranchEvents(Project(SubSeq(log[parent], 1, at))))
  BY <1>1, <1>4, <1>7, <1>9, <1>11
<1> QED BY <1>12, <1>14, <1>15, <1>17, <1>19, <1>23, <1>24, <1>25

LEMMA StoreStep == StoreInv /\ [Next]_vars => StoreInv'
<1> SUFFICES ASSUME StoreInv, [Next]_vars PROVE StoreInv' OBVIOUS
<1>n. NumberingInv' BY NumberingStep DEF StoreInv
<1>d. /\ DOMAIN op = Tasks /\ DOMAIN row = Sessions /\ DOMAIN log = Sessions
      /\ DOMAIN cache = Sessions /\ used \subseteq Sessions
      /\ mode \in {"up", "down", "refused"}
      /\ \A s \in Sessions : Copy(cache[s])
      /\ \A t \in Tasks : TaskOK(t, op[t])
  BY DEF StoreInv, NumberingInv, TablesInv, BeginInv
<1>e. mode' \in {"up", "down", "refused"}
  BY <1>d DEF Next, CreateSession, ForkSession, ReadCache, MissProjection, DeleteRows, CommitBatch,
              WriteBatch, RollBack, InsertCache, LoadLog, EvictCache, DropTask, Crash, Connect, vars
<1>idle. \A t : TaskOK(t, Idle)' BY DEF TaskOK, Idle
<1>1. ASSUME NEW s \in Sessions, CreateSession(s) PROVE StoreInv'
  <2>1. \A o \in Sessions : row'[o] = row[o] \/ (RowOK(row'[o]) /\ o \in used')
    BY <1>1, <1>d DEF CreateSession, RowOK, Phases
  <2>2. op' = op /\ cache' = cache /\ used \subseteq used' /\ used' \subseteq Sessions
    BY <1>1, <1>d DEF CreateSession
  <2> QED BY <1>n, <1>e, <2>1, <2>2, StoreMoves
<1>2. ASSUME NEW s \in Sessions, NEW parent \in Sessions, NEW at \in DOMAIN log[parent],
             ForkSession(s, parent, at)
      PROVE  StoreInv'
  <2>1. PICK r : row' = [row EXCEPT ![s] = r] /\ RowOK(r) BY <1>2, ForkRow
  <2>2. \A o \in Sessions : row'[o] = row[o] \/ (RowOK(row'[o]) /\ o \in used')
    BY <1>2, <1>d, <2>1 DEF ForkSession
  <2>3. op' = op /\ cache' = cache /\ used \subseteq used' /\ used' \subseteq Sessions
    BY <1>2, <1>d DEF ForkSession
  <2> QED BY <1>n, <1>e, <2>2, <2>3, StoreMoves
<1>3. ASSUME NEW t \in Tasks, NEW s \in Sessions, NEW batch \in Batches[t],
             ReadCache(t, s, batch)
      PROVE  StoreInv'
  <2>1. PICK x : x = [at |-> "begin", session |-> s, batch |-> batch, base |-> cache[s]] OBVIOUS
  <2>2. op' = [op EXCEPT ![t] = x] /\ UNCHANGED <<mode, tables, cache>> /\ s \in used
    BY <1>3, <2>1 DEF ReadCache
  <2>3. TaskOK(t, x)' BY <1>d, <2>1, <2>2 DEF TaskOK, tables
  <2> QED BY <1>d, <1>n, <1>e, <2>2, <2>3, StoreMoves DEF tables
<1>4. ASSUME NEW t \in Tasks, NEW s \in Sessions, MissProjection(t, s) PROVE StoreInv'
  <2>1. PICK x : x = [at |-> "load", session |-> s] OBVIOUS
  <2>2. op' = [op EXCEPT ![t] = x] /\ UNCHANGED <<mode, tables, cache>> /\ s \in used
    BY <1>4, <2>1 DEF MissProjection
  <2>3. TaskOK(t, x)' BY <1>d, <2>1, <2>2 DEF TaskOK, tables
  <2> QED BY <1>d, <1>n, <1>e, <2>2, <2>3, StoreMoves DEF tables
<1>5. ASSUME NEW t \in Tasks, NEW s \in Sessions, DeleteRows(t, s) PROVE StoreInv'
  <2>1. PICK x : x = [at |-> "evict", session |-> s] OBVIOUS
  <2>2. op' = [op EXCEPT ![t] = x] /\ used' = used /\ cache' = cache BY <1>5, <2>1 DEF DeleteRows
  <2>4. s \in used
    <3>1. row[s].phase # "none" BY <1>5 DEF DeleteRows, Exists
    <3> QED BY <3>1 DEF StoreInv, NoRow
  <2>3. \A o \in Sessions : row'[o] = row[o] \/ (RowOK(row'[o]) /\ o \in used')
    BY <1>5, <1>d, <2>4 DEF DeleteRows, RowOK, NoRow
  <2>5. TaskOK(t, x)' BY <1>d, <2>1, <2>2, <2>4 DEF TaskOK
  <2> QED BY <1>d, <1>n, <1>e, <2>2, <2>3, <2>5, StoreMoves
<1>6. ASSUME NEW t \in Tasks, CommitBatch(t) PROVE StoreInv'
  <2>1. PICK x : x = Pending(t) OBVIOUS
  <2>2. op' = [op EXCEPT ![t] = x] /\ used' = used /\ cache' = cache
    BY <1>6, <2>1, Zenon DEF CommitBatch, WriteBatch
  <2>3. PICK r : row' = [row EXCEPT ![op[t].session] = r] /\ RowOK(r) BY <1>6, CommitRow
  <2>5. PICK q : q = Projected(t) OBVIOUS
  <2>6. Summarised(q) /\ op[t].session \in Sessions \cap used BY <1>6, <2>5, CommitRow
  <2>4. \A o \in Sessions : row'[o] = row[o] \/ (RowOK(row'[o]) /\ o \in used')
    BY <1>d, <2>2, <2>3, <2>6
  <2>7. x = [at |-> "insert", session |-> op[t].session, proj |-> q] BY <2>1, <2>5 DEF Pending
  <2>8. TaskOK(t, x)' BY <2>2, <2>6, <2>7 DEF TaskOK
  <2> QED BY <1>d, <1>n, <1>e, <2>2, <2>4, <2>8, StoreMoves
<1>7. ASSUME NEW t \in Tasks, LoadLog(t) PROVE StoreInv'
  <2>1. PICK s \in Sessions \cap used : s = op[t].session BY <1>d, <1>7 DEF LoadLog, TaskOK
  <2>2. PICK q : q = Project(log[s]) OBVIOUS
  <2>3. Summary(q) BY <2>2, ProjectSummary DEF StoreInv, NumberingInv, TablesInv
  <2>4. PICK x : x = IF q.phase # "corrupt" THEN [at |-> "insert", session |-> s, proj |-> q] ELSE Idle
    OBVIOUS
  <2>5. op' = [op EXCEPT ![t] = x] /\ UNCHANGED <<mode, tables, cache>>
    BY <1>7, <2>1, <2>2, <2>4, Zenon DEF LoadLog, Replayable
  <2>6. TaskOK(t, x)'
    <3>1. CASE q.phase = "corrupt" BY <1>idle, <2>4, <3>1
    <3>2. CASE q.phase # "corrupt"
      <4>1. Summarised(q) BY <2>3, <3>2, CorruptPhase DEF Summary
      <4> QED BY <2>1, <2>4, <2>5, <3>2, <4>1 DEF TaskOK, tables
    <3> QED BY <3>1, <3>2
  <2> QED BY <1>d, <1>n, <1>e, <2>5, <2>6, StoreMoves DEF tables
<1>8. ASSUME NEW t \in Tasks, RollBack(t) \/ DropTask(t) PROVE StoreInv'
  <2>1. op' = [op EXCEPT ![t] = Idle] /\ UNCHANGED <<mode, tables, cache>>
    BY <1>8 DEF RollBack, DropTask
  <2>2. PICK x : x = Idle OBVIOUS
  <2>3. TaskOK(t, x)' BY <1>idle, <2>2
  <2> QED BY <1>d, <1>n, <1>e, <2>1, <2>2, <2>3, StoreMoves DEF tables
<1>9. ASSUME NEW t \in Tasks, InsertCache(t) \/ EvictCache(t) PROVE StoreInv'
  <2>1. op' = [op EXCEPT ![t] = Idle] /\ UNCHANGED <<mode, tables>>
    BY <1>9 DEF InsertCache, EvictCache
  <2>2. PICK p : cache' = [cache EXCEPT ![op[t].session] = p] /\ Copy(p) /\ op[t].session \in used
    BY <1>9, <1>d DEF InsertCache, EvictCache, TaskOK, Copy
  <2>3. /\ DOMAIN cache' = Sessions /\ \A s \in Sessions : Copy(cache'[s])
        /\ \A s \in Sessions \ used : cache'[s] = cache[s]
    BY <1>d, <2>2
  <2>4. ASSUME NEW u \in Tasks PROVE TaskOK(u, op[u])'
    <3>1. CASE u = t BY <1>d, <1>idle, <2>1, <3>1
    <3>2. CASE u # t BY <1>d, <2>1, <3>2 DEF TaskOK, tables
    <3> QED BY <3>1, <3>2
  <2> QED BY <1>n, <1>e, <2>1, <2>3, <2>4 DEF StoreInv, tables, RowOK, Copy
<1>10. CASE Crash
  <2>1. UNCHANGED tables /\ cache' = [s \in Sessions |-> Missing] /\ op' = [t \in Tasks |-> Idle]
    BY <1>10 DEF Crash
  <2>2. ASSUME NEW u \in Tasks PROVE TaskOK(u, op[u])' BY <1>idle, <2>1
  <2>3. DOMAIN cache' = Sessions /\ \A s \in Sessions : Copy(cache'[s]) /\ cache'[s] = Missing
    BY <2>1 DEF Copy
  <2> QED BY <1>n, <1>e, <2>1, <2>2, <2>3 DEF StoreInv, tables, RowOK, Copy
<1>11. CASE Connect
  <2>1. UNCHANGED <<tables, cache, op>> BY <1>11 DEF Connect
  <2> QED BY <1>d, <1>n, <1>e, <2>1, StoreMoves DEF tables
<1>12. CASE UNCHANGED vars
  BY <1>d, <1>n, <1>e, <1>12, StoreMoves DEF vars
<1> QED BY <1>1, <1>2, <1>3, <1>4, <1>5, <1>6, <1>7, <1>8, <1>9, <1>10, <1>11, <1>12 DEF Next

\* Whatever the events of the batches, and also on copies that are stale:
\* the columns have a phase, a revision and an id, tasks are at an await.
THEOREM StoreTypes == Spec => []TypeOK
<1>1. StoreInv => TypeOK BY DEF StoreInv, TypeOK, RowOK, TaskOK
<1> QED BY <1>1, StoreInit, StoreStep, PTL DEF Spec

-----------------------------------------------------------------------------
(* Callers that take turns on each session and are not dropped.             *)

\* No two tasks are inside calls about the same session.
Exclusive ==
    \A t, u \in Tasks :
        op[t].at # "idle" /\ op[u].at # "idle" /\ op[t].session = op[u].session => t = u

\* The columns of a session are the replay of its log; so is what is cached
\* when nobody is about to replace it ...
Written(s) ==
    /\ Exists(s) => /\ log[s] # <<>> /\ Replayable(log[s])
                    /\ row[s] = Columns(Project(log[s]))
    /\ ~Exists(s) => log[s] = <<>>
    /\ Cached(s) /\ Exists(s) /\ Settled(s) => cache[s] = Project(log[s])

\* ... and what a caller has copied or is about to store.
Based(t) ==
    op[t].at \in {"begin", "insert"} /\ Exists(op[t].session) =>
        /\ op[t].at = "begin" => op[t].base = Missing \/ op[t].base = Project(log[op[t].session])
        /\ op[t].at = "insert" => op[t].proj = Project(log[op[t].session])

SerialInv ==
    /\ mode # "refused"
    /\ \A s \in Sessions : Written(s)
    /\ \A t \in Tasks : Based(t)

LEMMA SerialInit == Init => SerialInv
<1> SUFFICES ASSUME Init PROVE SerialInv OBVIOUS
<1>1. \A s \in Sessions : ~Exists(s) /\ log[s] = <<>> BY DEF Init, Exists, NoRow
<1>2. \A t \in Tasks : op[t].at = "idle" BY DEF Init, Idle
<1> QED BY <1>1, <1>2 DEF Init, SerialInv, Written, Based

\* A step that does not touch a session, nor what is about to be stored.
LEMMA SessionAside ==
    ASSUME NEW s, Written(s), log'[s] = log[s], row'[s] = row[s], cache'[s] = cache[s],
           Settled(s)' => Settled(s)
    PROVE  Written(s)'
<1>1. Exists(s)' = Exists(s) /\ Cached(s)' = Cached(s) BY DEF Exists, Cached
<1> QED BY <1>1 DEF Written

LEMMA TaskAside ==
    ASSUME NEW t, Based(t), op'[t] = op[t],
           op[t].at \in {"begin", "insert"} =>
               \/ ~Exists(op[t].session)'
               \/ log'[op[t].session] = log[op[t].session] /\ row'[op[t].session] = row[op[t].session]
    PROVE  Based(t)'
BY DEF Based, Exists

\* Task t leaves everything alone but where it is; it was not about to store
\* anything.
LEMMA MovesAside ==
    ASSUME StoreInv, SerialInv, NEW t \in Tasks, NEW x, op' = [op EXCEPT ![t] = x],
           op[t].at \notin {"insert", "evict"}, UNCHANGED <<mode, tables, cache>>, Based(t)'
    PROVE  SerialInv'
<1>1. DOMAIN op = Tasks BY DEF StoreInv, NumberingInv, BeginInv
<1>2. ASSUME NEW s \in Sessions PROVE Written(s)'
  <2>1. Settled(s)' => Settled(s) BY <1>1 DEF Settled
  <2> QED BY <2>1, SessionAside DEF SerialInv, tables
<1>3. ASSUME NEW u \in Tasks PROVE Based(u)'
  <2>1. CASE u = t BY <2>1
  <2>2. CASE u # t
    <3>1. op'[u] = op[u] BY <1>1, <2>2
    <3> QED BY <3>1, TaskAside DEF SerialInv, tables
  <2> QED BY <2>1, <2>2
<1> QED BY <1>2, <1>3 DEF SerialInv

\* A session that was not in use is made.
LEMMA MadeAside ==
    ASSUME StoreInv, SerialInv, NEW s \in Sessions, s \notin used, NEW l, NEW r,
           log' = [log EXCEPT ![s] = l], row' = [row EXCEPT ![s] = r],
           UNCHANGED <<mode, cache, op>>,
           l # <<>>, Replayable(l), r = Columns(Project(l)), r.phase # "none"
    PROVE  SerialInv'
<1>1. /\ DOMAIN log = Sessions /\ DOMAIN row = Sessions /\ cache[s] = Missing
      /\ \A t \in Tasks : op[t].at # "idle" => op[t].session \in Sessions /\ op[t].session # s
  BY DEF StoreInv, NumberingInv, TablesInv, TaskOK
<1>2. ASSUME NEW o \in Sessions PROVE Written(o)'
  <2>1. CASE o = s
    <3>1. log'[s] = l /\ row'[s] = r /\ ~Cached(s)' BY <1>1 DEF Cached, Missing
    <3> QED BY <2>1, <3>1 DEF Written, Exists
  <2>2. CASE o # s
    <3>1. Settled(o)' => Settled(o) BY DEF Settled
    <3>2. log'[o] = log[o] /\ row'[o] = row[o] BY <2>2
    <3> QED BY <3>1, <3>2, SessionAside DEF SerialInv
  <2> QED BY <2>1, <2>2
<1>3. ASSUME NEW u \in Tasks PROVE Based(u)'
  <2>1. op[u].at \in {"begin", "insert"} =>
           log'[op[u].session] = log[op[u].session] /\ row'[op[u].session] = row[op[u].session]
    BY <1>1
  <2> QED BY <2>1, TaskAside DEF SerialInv
<1> QED BY <1>2, <1>3 DEF SerialInv

LEMMA SerialCreate ==
    ASSUME StoreInv, SerialInv, NEW s \in Sessions, CreateSession(s)
    PROVE  SerialInv'
<1>1. PICK l : l = Record(0, <<SessionCreated>>) OBVIOUS
<1>2. PICK r : r = [phase |-> "created", revision |-> 0, last |-> 1] OBVIOUS
<1>3. PICK q : q = Project(l) OBVIOUS
<1>4. q.phase = "created" /\ q.revision = 0 /\ q.last = 1 /\ l # <<>>
  BY <1>1, <1>3, CreatedProjects
<1>5. r = Columns(q) /\ r.phase # "none" BY <1>2, <1>4 DEF Columns
<1>6. Replayable(l) BY <1>3, <1>4 DEF Replayable
<1>7. /\ s \notin used /\ log' = [log EXCEPT ![s] = l] /\ row' = [row EXCEPT ![s] = r]
      /\ UNCHANGED <<mode, cache, op>>
  BY <1>1, <1>2 DEF CreateSession
<1> QED BY <1>3, <1>4, <1>5, <1>6, <1>7, MadeAside

LEMMA SerialFork ==
    ASSUME StoreInv, SerialInv, NEW s \in Sessions, NEW parent \in Sessions,
           NEW at \in DOMAIN log[parent], ForkSession(s, parent, at)
    PROVE  SerialInv'
<1>1. PICK l, q :
         /\ l # <<>> /\ q = Project(l) /\ Summarised(q)
         /\ log' = [log EXCEPT ![s] = l] /\ row' = [row EXCEPT ![s] = Columns(q)]
  BY ForkRow
<1>2. q.phase # "corrupt" /\ q.phase # "none" BY <1>1 DEF Summarised, Phases
<1>3. PICK r : r = Columns(q) OBVIOUS
<1>4. r.phase # "none" /\ Replayable(l) BY <1>1, <1>2, <1>3 DEF Columns, Replayable
<1>5. s \notin used /\ UNCHANGED <<mode, cache, op>> BY DEF ForkSession
<1> QED BY <1>1, <1>3, <1>4, <1>5, MadeAside

\* The batch of a caller whose copy is the replay of the log: the projection
\* it writes is the replay of the log with the batch.
LEMMA CommitProjects ==
    ASSUME StoreInv, SerialInv, NEW t \in Tasks, CommitBatch(t)
    PROVE  \E l : /\ l = log[op[t].session] \o Record(Len(log[op[t].session]), op[t].batch)
                  /\ log' = [log EXCEPT ![op[t].session] = l]
                  /\ l # <<>> /\ log[op[t].session] # <<>>
                  /\ Projected(t) = Project(l) /\ Summarised(Project(l)) /\ Replayable(l)
                  /\ row' = [row EXCEPT ![op[t].session] = Columns(Project(l))]
<1>1. op[t].at = "begin" /\ Exists(op[t].session) BY DEF CommitBatch
<1>2. PICK s \in Sessions \cap used : s = op[t].session BY <1>1, ProjectedSummary
<1>3. PICK b : b = op[t].batch OBVIOUS
<1>4. IsSeq(b) BY <1>1, <1>3, ProjectedSummary
<1>5. PICK a : a = log[s] OBVIOUS
<1>6. IsSeq(a) /\ a # <<>> /\ (\A i \in DOMAIN a : a[i].id = i) /\ row[s].last = Len(a)
  BY <1>1, <1>2, <1>5 DEF StoreInv, NumberingInv, TablesInv, LogNumbering, SerialInv, Written
<1>7. Len(a) \in Nat /\ Len(b) \in Nat BY <1>4, <1>6 DEF IsSeq
<1>8. PICK r : r = Record(Len(a), b) OBVIOUS
<1>9. IsSeq(r) BY <1>4, <1>7, <1>8, RecordIsSeq
<1>10. PICK l : l = a \o r OBVIOUS
<1>11. IsSeq(l) /\ Len(l) = Len(a) + Len(b) /\ (\A i \in DOMAIN l : l[i].id = i)
  BY <1>4, <1>6, <1>8, <1>10, AppendNumbered
<1>12. l # <<>> /\ Project(l) = ApplyAll(Project(a), r)
  BY <1>6, <1>9, <1>10, <1>11, ProjectAppended
<1>13. PICK q : q = Project(l) OBVIOUS
<1>14. (IF op[t].base.phase = "missing" THEN Project(a) ELSE op[t].base) = Project(a)
  <2>1. op[t].base = Missing \/ op[t].base = Project(a) BY <1>1, <1>2, <1>5 DEF SerialInv, Based
  <2> QED BY <2>1 DEF Missing
<1>15. Projected(t) = q
  BY <1>2, <1>3, <1>5, <1>6, <1>8, <1>12, <1>13, <1>14, Zenon DEF Projected
<1>16. Summarised(q) /\ q.phase # "corrupt" BY <1>15, CommitRow DEF CommitBatch
<1>17. q.last = Len(a) + Len(b) BY <1>11, <1>12, <1>13, <1>16, ProjectIs, CorruptPhase
<1>18. row' = [row EXCEPT ![s] = [phase |-> q.phase, revision |-> q.revision, last |-> q.last]]
  BY <1>2, <1>3, <1>5, <1>15, <1>17, CommitRow
<1>19. row' = [row EXCEPT ![s] = Columns(q)] BY <1>18, Zenon DEF Columns
<1>20. log' = [log EXCEPT ![s] = l]
  <2>1. log' = [log EXCEPT ![s] = log[s] \o Record(row[s].last, b)]
    BY <1>2, <1>3 DEF CommitBatch, WriteBatch, LastId
  <2> QED BY <1>5, <1>6, <1>8, <1>10, <2>1
<1> QED BY <1>2, <1>3, <1>5, <1>6, <1>8, <1>10, <1>12, <1>13, <1>15, <1>16, <1>19, <1>20 DEF Replayable

LEMMA SerialCommit ==
    ASSUME StoreInv, SerialInv, Exclusive, NEW t \in Tasks, CommitBatch(t)
    PROVE  SerialInv'
<1>1. PICK s \in Sessions : s = op[t].session /\ op[t].at = "begin"
  BY ProjectedSummary DEF CommitBatch
<1>2. PICK l : /\ log' = [log EXCEPT ![s] = l] /\ l # <<>> /\ Projected(t) = Project(l)
               /\ Summarised(Project(l)) /\ Replayable(l)
               /\ row' = [row EXCEPT ![s] = Columns(Project(l))]
  BY <1>1, CommitProjects
<1>3. PICK q : q = Project(l) OBVIOUS
<1>4. PICK x : x = [at |-> "insert", session |-> s, proj |-> q] OBVIOUS
<1>5. op' = [op EXCEPT ![t] = x] /\ mode' = mode /\ cache' = cache
  BY <1>1, <1>2, <1>3, <1>4, Zenon DEF CommitBatch, WriteBatch, Pending
<1>6. /\ DOMAIN log = Sessions /\ DOMAIN row = Sessions /\ DOMAIN op = Tasks
      /\ \A u \in Tasks \ {t} : op[u].at # "idle" => op[u].session # s
  BY <1>1 DEF StoreInv, NumberingInv, TablesInv, BeginInv, Exclusive
<1>7. log'[s] = l /\ row'[s] = Columns(q) /\ op'[t] = x BY <1>2, <1>3, <1>5, <1>6
<1>8. q.phase # "none" BY <1>2, <1>3 DEF Summarised, Phases
<1>9. ASSUME NEW o \in Sessions PROVE Written(o)'
  <2>1. CASE o = s
    <3>1. ~Settled(s)' BY <1>4, <1>7 DEF Settled
    <3>2. Exists(s)' BY <1>7, <1>8 DEF Exists, Columns
    <3> QED BY <1>2, <1>3, <1>7, <2>1, <3>1, <3>2 DEF Written
  <2>2. CASE o # s
    <3>1. Settled(o)' => Settled(o) BY <1>1, <1>5, <1>6 DEF Settled
    <3>2. log'[o] = log[o] /\ row'[o] = row[o] BY <1>2, <2>2
    <3> QED BY <1>5, <3>1, <3>2, SessionAside DEF SerialInv
  <2> QED BY <2>1, <2>2
<1>10. ASSUME NEW u \in Tasks PROVE Based(u)'
  <2>1. CASE u = t BY <1>3, <1>4, <1>7, <2>1 DEF Based
  <2>2. CASE u # t
    <3>1. op'[u] = op[u] BY <1>5, <1>6, <2>2
    <3>2. op[u].at \in {"begin", "insert"} =>
             log'[op[u].session] = log[op[u].session] /\ row'[op[u].session] = row[op[u].session]
      BY <1>2, <1>6, <2>2
    <3> QED BY <3>1, <3>2, TaskAside DEF SerialInv
  <2> QED BY <2>1, <2>2
<1> QED BY <1>5, <1>9, <1>10 DEF SerialInv

\* What a caller copies in its turn is the replay of the log.
LEMMA SerialRead ==
    ASSUME StoreInv, SerialInv, Exclusive', NEW t \in Tasks, NEW s \in Sessions,
           NEW batch \in Batches[t], ReadCache(t, s, batch)
    PROVE  SerialInv'
<1>1. PICK x : x = [at |-> "begin", session |-> s, batch |-> batch, base |-> cache[s]] OBVIOUS
<1>2. op' = [op EXCEPT ![t] = x] /\ UNCHANGED <<mode, tables, cache>> /\ op[t].at = "idle"
  BY <1>1 DEF ReadCache
<1>3. DOMAIN op = Tasks BY DEF StoreInv, NumberingInv, BeginInv
<1>4. Settled(s)
  <2> SUFFICES ASSUME NEW u \in Tasks, op[u].at \in {"insert", "evict"}, op[u].session = s
               PROVE  FALSE
    BY DEF Settled
  <2>1. u # t BY <1>2
  <2>2. op'[u] = op[u] /\ op'[t] = x BY <1>2, <1>3, <2>1
  <2> QED BY <1>1, <2>1, <2>2 DEF Exclusive
<1>5. Exists(s) => cache[s] = Missing \/ cache[s] = Project(log[s])
  BY <1>4, MissingIs DEF SerialInv, Written, StoreInv, Cached
<1>6. Based(t)' BY <1>1, <1>2, <1>3, <1>5 DEF Based, Exists, tables
<1> QED BY <1>2, <1>6, MovesAside

LEMMA SerialDelete ==
    ASSUME StoreInv, SerialInv, NEW t \in Tasks, NEW s \in Sessions, DeleteRows(t, s)
    PROVE  SerialInv'
<1>1. PICK x : x = [at |-> "evict", session |-> s] OBVIOUS
<1>2. /\ op' = [op EXCEPT ![t] = x] /\ mode' = mode /\ cache' = cache /\ op[t].at = "idle"
      /\ log' = [log EXCEPT ![s] = <<>>] /\ row' = [row EXCEPT ![s] = NoRow]
  BY <1>1 DEF DeleteRows
<1>3. DOMAIN log = Sessions /\ DOMAIN row = Sessions /\ DOMAIN op = Tasks
  BY DEF StoreInv, NumberingInv, TablesInv, BeginInv
<1>4. log'[s] = <<>> /\ ~Exists(s)' BY <1>2, <1>3 DEF Exists, NoRow
<1>5. ASSUME NEW o \in Sessions PROVE Written(o)'
  <2>1. CASE o = s BY <1>4, <2>1 DEF Written
  <2>2. CASE o # s
    <3>1. Settled(o)' => Settled(o) BY <1>2, <1>3 DEF Settled
    <3>2. log'[o] = log[o] /\ row'[o] = row[o] BY <1>2, <2>2
    <3> QED BY <1>2, <3>1, <3>2, SessionAside DEF SerialInv
  <2> QED BY <2>1, <2>2
<1>6. ASSUME NEW u \in Tasks PROVE Based(u)'
  <2>1. CASE u = t
    <3>1. op'[t].at = "evict" BY <1>1, <1>2, <1>3
    <3> QED BY <2>1, <3>1 DEF Based
  <2>2. CASE u # t
    <3>1. op'[u] = op[u] BY <1>2, <1>3, <2>2
    <3>2. \/ ~Exists(op[u].session)'
          \/ log'[op[u].session] = log[op[u].session] /\ row'[op[u].session] = row[op[u].session]
      <4>1. CASE op[u].session = s BY <1>4, <3>1, <4>1 DEF Exists
      <4>2. CASE op[u].session # s BY <1>2, <4>2
      <4> QED BY <4>1, <4>2
    <3> QED BY <3>1, <3>2, TaskAside DEF SerialInv
  <2> QED BY <2>1, <2>2
<1> QED BY <1>2, <1>5, <1>6 DEF SerialInv

\* The end of an append, of a miss and of a deletion.
LEMMA SerialStore ==
    ASSUME StoreInv, SerialInv, NEW t \in Tasks, InsertCache(t) \/ EvictCache(t)
    PROVE  SerialInv'
<1>0. op[t].at \in {"insert", "evict"} BY DEF InsertCache, EvictCache
<1>1. PICK s \in Sessions : s = op[t].session BY <1>0 DEF StoreInv, TaskOK
<1>2. PICK p : cache' = [cache EXCEPT ![s] = p] /\ (p = Missing \/ (op[t].at = "insert" /\ p = op[t].proj))
  BY <1>1 DEF InsertCache, EvictCache
<1>3. op' = [op EXCEPT ![t] = Idle] /\ UNCHANGED <<mode, tables>> BY DEF InsertCache, EvictCache
<1>4. DOMAIN cache = Sessions /\ DOMAIN op = Tasks BY DEF StoreInv, NumberingInv, BeginInv
<1>5. Exists(s) => p = Missing \/ p = Project(log[s]) BY <1>1, <1>2 DEF SerialInv, Based
<1>6. ASSUME NEW o \in Sessions PROVE Written(o)'
  <2>1. CASE o = s
    <3>1. cache'[s] = p BY <1>2, <1>4
    <3>2. Cached(s)' => p # Missing BY <3>1 DEF Cached, Missing
    <3>3. log'[s] = log[s] /\ row'[s] = row[s] BY <1>3 DEF tables
    <3>4. Exists(s)' = Exists(s) BY <3>3 DEF Exists
    <3> QED BY <1>5, <2>1, <3>1, <3>2, <3>3, <3>4 DEF SerialInv, Written
  <2>2. CASE o # s
    <3>1. Settled(o)' => Settled(o) BY <1>1, <1>3, <1>4, <2>2 DEF Settled
    <3>2. cache'[o] = cache[o] /\ log'[o] = log[o] /\ row'[o] = row[o] BY <1>2, <1>3, <2>2 DEF tables
    <3> QED BY <3>1, <3>2, SessionAside DEF SerialInv
  <2> QED BY <2>1, <2>2
<1>7. ASSUME NEW u \in Tasks PROVE Based(u)'
  <2>1. CASE u = t
    <3>1. op'[t].at = "idle" BY <1>3, <1>4 DEF Idle
    <3> QED BY <2>1, <3>1 DEF Based
  <2>2. CASE u # t
    <3>1. op'[u] = op[u] BY <1>3, <1>4, <2>2
    <3> QED BY <1>3, <3>1, TaskAside DEF SerialInv, tables
  <2> QED BY <2>1, <2>2
<1> QED BY <1>3, <1>6, <1>7 DEF SerialInv

LEMMA SerialStep ==
    ~CanDrop /\ StoreInv /\ SerialInv /\ Exclusive /\ Exclusive' /\ [Next]_vars => SerialInv'
<1> SUFFICES ASSUME ~CanDrop, StoreInv, SerialInv, Exclusive, Exclusive', [Next]_vars
             PROVE  SerialInv'
  OBVIOUS
<1>d. DOMAIN op = Tasks BY DEF StoreInv, NumberingInv, BeginInv
<1>1. ASSUME NEW t \in Tasks, NEW s \in Sessions, MissProjection(t, s) PROVE SerialInv'
  <2>1. PICK x : x = [at |-> "load", session |-> s] OBVIOUS
  <2>2. /\ op' = [op EXCEPT ![t] = x] /\ UNCHANGED <<mode, tables, cache>> /\ op[t].at = "idle"
    BY <1>1, <2>1 DEF MissProjection
  <2>3. Based(t)' BY <1>d, <2>1, <2>2 DEF Based
  <2> QED BY <2>2, <2>3, MovesAside
<1>2. ASSUME NEW t \in Tasks, LoadLog(t) PROVE SerialInv'
  <2>1. PICK s : s = op[t].session OBVIOUS
  <2>2. PICK q : q = Project(log[s]) OBVIOUS
  <2>3. PICK x : x = IF q.phase # "corrupt" THEN [at |-> "insert", session |-> s, proj |-> q] ELSE Idle
    OBVIOUS
  <2>4. /\ op' = [op EXCEPT ![t] = x] /\ UNCHANGED <<mode, tables, cache>> /\ op[t].at = "load"
    BY <1>2, <2>1, <2>2, <2>3, Zenon DEF LoadLog, Replayable
  <2>5. op'[t] = x /\ log' = log BY <1>d, <2>4 DEF tables
  <2>6. Based(t)' BY <2>2, <2>3, <2>5 DEF Based, Idle
  <2> QED BY <2>4, <2>6, MovesAside
<1>3. ASSUME NEW t \in Tasks, RollBack(t) PROVE SerialInv'
  <2>1. /\ op' = [op EXCEPT ![t] = Idle] /\ UNCHANGED <<mode, tables, cache>> /\ op[t].at = "begin"
    BY <1>3 DEF RollBack
  <2>2. Based(t)' BY <1>d, <2>1 DEF Based, Idle
  <2> QED BY <2>1, <2>2, MovesAside
<1>4. CASE Crash
  <2>1. UNCHANGED tables /\ mode' = "down" BY <1>4 DEF Crash
  <2>2. \A s \in Sessions : cache'[s] = Missing BY <1>4 DEF Crash
  <2>3. \A t \in Tasks : op'[t] = Idle BY <1>4 DEF Crash
  <2>4. ASSUME NEW s \in Sessions PROVE Written(s)'
    <3>1. ~Cached(s)' BY <2>2 DEF Cached, Missing
    <3>2. log'[s] = log[s] /\ Exists(s)' = Exists(s) /\ row'[s] = row[s] BY <2>1 DEF tables, Exists
    <3> QED BY <3>1, <3>2 DEF SerialInv, Written
  <2>5. ASSUME NEW t \in Tasks PROVE Based(t)' BY <2>3 DEF Based, Idle
  <2> QED BY <2>1, <2>4, <2>5 DEF SerialInv
<1>5. CASE Connect
  <2>1. UNCHANGED <<tables, cache, op>> BY <1>5 DEF Connect
  <2>2. \A s \in Sessions : Validates(s) BY DEF SerialInv, Written, Validates
  <2>3. mode' = "up" BY <1>5, <2>2 DEF Connect
  <2>4. ASSUME NEW s \in Sessions PROVE Written(s)'
    <3>1. Settled(s)' => Settled(s) BY <2>1 DEF Settled
    <3> QED BY <2>1, <3>1, SessionAside DEF SerialInv, tables
  <2>5. ASSUME NEW t \in Tasks PROVE Based(t)' BY <2>1, TaskAside DEF SerialInv, tables
  <2> QED BY <2>3, <2>4, <2>5 DEF SerialInv
<1>6. CASE UNCHANGED vars
  <2>1. ASSUME NEW s \in Sessions PROVE Written(s)'
    <3>1. Settled(s)' => Settled(s) BY <1>6 DEF Settled, vars
    <3> QED BY <1>6, <3>1, SessionAside DEF SerialInv, vars
  <2>2. ASSUME NEW t \in Tasks PROVE Based(t)' BY <1>6, TaskAside DEF SerialInv, vars
  <2> QED BY <1>6, <2>1, <2>2 DEF SerialInv, vars
<1>7. \A t \in Tasks : ~DropTask(t) BY DEF DropTask
<1> QED BY <1>1, <1>2, <1>3, <1>4, <1>5, <1>6, <1>7, SerialCreate, SerialFork, SerialRead,
           SerialDelete, SerialCommit, SerialStore DEF Next

LEMMA SerialHolds == ~CanDrop => (Spec /\ []Exclusive => [](StoreInv /\ SerialInv))
<1> SUFFICES ASSUME ~CanDrop PROVE Spec /\ []Exclusive => [](StoreInv /\ SerialInv) OBVIOUS
<1>1. SerialInv /\ StoreInv /\ Exclusive /\ Exclusive' /\ [Next]_vars => SerialInv' BY SerialStep
<1> QED BY <1>1, SerialInit, StoreInit, StoreStep, PTL DEF Spec

\* As long as the callers of append_events, projection and delete_project take
\* turns on each session and are not dropped at an await, what projection()
\* answers from its cache is the replay of the log, for any number of callers ...
THEOREM CacheIsCoherent == ~CanDrop => (Spec /\ []Exclusive => []CacheCoherent)
<1> SUFFICES ASSUME ~CanDrop PROVE Spec /\ []Exclusive => []CacheCoherent OBVIOUS
<1>1. Spec /\ []Exclusive => [](StoreInv /\ SerialInv) BY SerialHolds
<1>2. SerialInv => CacheCoherent BY DEF SerialInv, Written, CacheCoherent
<1> QED BY <1>1, <1>2, PTL

\* ... and connect() never refuses a database that the program wrote, crashed
\* or not.
THEOREM StartupIsAccepted == ~CanDrop => (Spec /\ []Exclusive => []StartupAccepts)
<1> SUFFICES ASSUME ~CanDrop PROVE Spec /\ []Exclusive => []StartupAccepts OBVIOUS
<1>1. Spec /\ []Exclusive => [](StoreInv /\ SerialInv) BY SerialHolds
<1>2. SerialInv => StartupAccepts BY DEF SerialInv, StartupAccepts
<1> QED BY <1>1, <1>2, PTL

-----------------------------------------------------------------------------
(* The store is the serial log.                                             *)

\* The abstract log replays as the store does.
LEMMA SameEmpty == Serial!Empty = Empty /\ Serial!Corrupt = Corrupt
BY Zenon DEF Serial!Empty, Serial!Corrupt, Serial!NoRun, Serial!NoCall, Serial!NoMessage,
   Serial!NoRequest, Serial!NoAgent, Serial!Nil, Empty, Corrupt, NoRun, NoCall, NoMessage,
   NoRequest, NoAgent, Nil

LEMMA SameApply ==
    ASSUME NEW p, NEW id, NEW e
    PROVE  Serial!Apply(p, id, e) = Apply(p, id, e)
<1>1. Serial!Corrupt = Corrupt BY SameEmpty
<1>2. Serial!Accepts(p, e) = Accepts(p, e)
  BY Zenon DEF Serial!Accepts, Accepts, Serial!StateAccepts, StateAccepts, Serial!AllowedSources,
     AllowedSources, Serial!MayEnd, MayEnd, Serial!WriteOnce, WriteOnce, Serial!Unfinished, Unfinished,
     Serial!Nil, Nil
<1>3. Serial!Effect(p, id, e) = Effect(p, id, e)
  BY Zenon DEF Serial!Effect, Effect, Serial!StateEffect, StateEffect, Serial!PausedEffect, PausedEffect,
     Serial!RunEffect, RunEffect, Serial!NoRun, NoRun, Serial!NoCall, NoCall, Serial!Nil, Nil
<1> QED BY <1>1, <1>2, <1>3, Zenon DEF Serial!Apply, Apply

LEMMA SameRecord == ASSUME NEW n, NEW b PROVE Serial!Record(n, b) = Record(n, b)
BY Zenon DEF Serial!Record, Record

LEMMA SameCreated == Serial!SessionCreated = SessionCreated
BY Zenon DEF Serial!SessionCreated, SessionCreated

LEMMA SameBranch == ASSUME NEW p PROVE Serial!BranchEvents(p) = BranchEvents(p)
BY Zenon DEF Serial!BranchEvents, BranchEvents, Serial!SessionForked, SessionForked, Serial!ActiveRuns,
   ActiveRuns, Serial!RunsIn, RunsIn, Serial!RunEnded, RunEnded, Serial!QueuePaused, QueuePaused
LEMMA SameProject == ASSUME NEW l, IsSeq(l) PROVE Serial!Project(l) = Project(l)
<1> DEFINE OfSerial(g, p, n) ==
               g = [i \in 0..n |-> IF i = 0 THEN p ELSE Serial!Apply(g[i - 1], l[i].id, l[i].event)]
<1>1. ASSUME NEW g, NEW p, NEW n PROVE OfSerial(g, p, n) <=> IsSteps(g, p, l, n)
  BY SameApply DEF IsSteps
<1>2. ASSUME NEW p PROVE Serial!ApplyAll(p, l) = ApplyAll(p, l)
  <2>1. Len(l) \in Nat BY DEF IsSeq
  <2>2. PICK f : f = Steps(p, l) /\ IsSteps(f, p, l, Len(l)) BY <2>1, StepsDef
  <2>3. Serial!Steps(p, l) = CHOOSE g : OfSerial(g, p, Len(l)) BY DEF Serial!Steps
  <2> HIDE DEF OfSerial
  <2>4. \E g : OfSerial(g, p, Len(l)) BY <1>1, <2>2
  <2>5. PICK h : h = Serial!Steps(p, l) OBVIOUS
  <2>6. IsSteps(h, p, l, Len(l)) BY <1>1, <2>3, <2>4, <2>5
  <2>7. PICK n \in Nat : n = Len(l) BY <2>1
  <2>8. \A i \in 0..n : f[i] = h[i]
    <3>1. n <= n /\ \A i \in 1..n : l[i] = l[i] OBVIOUS
    <3> QED BY <2>2, <2>6, <2>7, <3>1, StepsUnique
  <2>9. f[n] = h[n] BY <2>8
  <2> QED BY <2>2, <2>5, <2>7, <2>9, Zenon DEF Serial!ApplyAll, ApplyAll
<1>3. Serial!Empty = Empty /\ Serial!Corrupt = Corrupt BY SameEmpty
<1> HIDE DEF OfSerial
<1> QED BY <1>2, <1>3, Zenon DEF Serial!Project, Project

LEMMA SerialStarts == Init => Serial!Init
BY DEF Init, Serial!Init

\* Each transaction is a step of the serial log, and nothing else is one.
LEMMA StepIsSerial ==
    StoreInv /\ SerialInv /\ [Next]_vars => [Serial!Next]_(Serial!vars)
<1> SUFFICES ASSUME StoreInv, SerialInv, [Next]_vars, ~UNCHANGED Serial!vars PROVE Serial!Next
  OBVIOUS
<1>u. ~(log' = log /\ used' = used) BY DEF Serial!vars
<1>1. ASSUME NEW s \in Sessions, CreateSession(s) PROVE Serial!Next
  <2>1. Serial!Create(s)
    BY <1>1, SameRecord, SameCreated, Zenon DEF Serial!Create, CreateSession
  <2> QED BY <2>1 DEF Serial!Next
<1>2. ASSUME NEW s \in Sessions, NEW parent \in Sessions, NEW at \in DOMAIN log[parent],
             ForkSession(s, parent, at)
      PROVE  Serial!Next
  <2>1. PICK pre : pre = SubSeq(log[parent], 1, at) OBVIOUS
  <2>2. IsSeq(pre) /\ Len(pre) = at
    <3>1. PICK a : a = log[parent] OBVIOUS
    <3>2. IsSeq(a) BY <3>1 DEF StoreInv, NumberingInv, TablesInv
    <3>3. at \in 1..Len(a) BY <3>1, <3>2, DomainOfSeq
    <3> QED BY <2>1, <3>1, <3>2, <3>3, PrefixIsSeq
  <2>3. Serial!Branch(pre) = pre \o Record(at, BranchEvents(Project(pre)))
    BY <2>2, SameProject, SameRecord, SameBranch, Zenon DEF Serial!Branch
  <2>4. /\ s \notin used /\ used' = used \cup {s}
        /\ log' = [log EXCEPT ![s] = pre \o Record(at, BranchEvents(Project(pre)))]
    BY <1>2, <2>1, Zenon DEF ForkSession
  <2>5. Serial!Fork(s, parent, at) BY <2>1, <2>3, <2>4, Zenon DEF Serial!Fork
  <2> QED BY <2>5 DEF Serial!Next
<1>3. ASSUME NEW t \in Tasks, NEW s \in Sessions, DeleteRows(t, s) PROVE Serial!Next
  <2>1. log[s] # <<>> BY <1>3 DEF DeleteRows, SerialInv, Written
  <2>2. Serial!Delete(s) BY <1>3, <2>1 DEF DeleteRows, Serial!Delete
  <2> QED BY <2>2 DEF Serial!Next
<1>4. ASSUME NEW t \in Tasks, CommitBatch(t) PROVE Serial!Next
  <2>1. op[t].at = "begin" /\ used' = used BY <1>4 DEF CommitBatch, WriteBatch
  <2>2. PICK s \in Sessions : s = op[t].session BY <2>1, ProjectedSummary
  <2>3. PICK b \in Batches[t] : b = op[t].batch BY <2>1 DEF StoreInv, TaskOK
  <2>4. PICK l : /\ l = log[s] \o Record(Len(log[s]), b)
                 /\ log' = [log EXCEPT ![s] = l] /\ log[s] # <<>> /\ Replayable(l)
    BY <1>4, <2>2, <2>3, CommitProjects
  <2>5. IsSeq(l)
    <3>1. PICK a : a = log[s] OBVIOUS
    <3>2. IsSeq(a) /\ IsSeq(b) BY <2>3, <3>1, EventStoreAssumption DEF StoreInv, NumberingInv, TablesInv
    <3>3. Len(a) \in Nat BY <3>2 DEF IsSeq
    <3>4. IsSeq(Record(Len(a), b)) BY <3>2, <3>3, RecordIsSeq
    <3> QED BY <2>4, <3>1, <3>2, <3>4, ConcatIsSeq
  <2>6. Serial!Replayable(l)
    <3>1. Serial!Project(l) = Project(l) BY <2>5, SameProject
    <3> QED BY <2>4, <3>1, Zenon DEF Serial!Replayable, Replayable
  <2>7. l = log[s] \o Serial!Record(Len(log[s]), b) BY <2>4, SameRecord, Zenon
  <2>8. Serial!AppendBatch(s, b)
    BY <2>1, <2>4, <2>6, <2>7, Zenon DEF Serial!AppendBatch
  <2>9. b \in UNION {Batches[u] : u \in Tasks} BY <2>3
  <2> QED BY <2>8, <2>9 DEF Serial!Next
<1>5. ~UNCHANGED vars BY <1>u DEF vars
<1>6. ASSUME NEW t \in Tasks
      PROVE  /\ ~RollBack(t) /\ ~InsertCache(t) /\ ~LoadLog(t) /\ ~EvictCache(t) /\ ~DropTask(t)
             /\ \A s : ~MissProjection(t, s) /\ \A b : ~ReadCache(t, s, b)
  BY <1>u DEF RollBack, InsertCache, LoadLog, EvictCache, DropTask, MissProjection, ReadCache, tables
<1>7. ~Crash /\ ~Connect BY <1>u DEF Crash, Connect, tables
<1> QED BY <1>1, <1>2, <1>3, <1>4, <1>5, <1>6, <1>7 DEF Next

\* ... so the store is the serial log: every commit appends a batch that the
\* replay of everything committed before it accepts.
THEOREM StoreIsSerial == ~CanDrop => (Spec /\ []Exclusive => SerialSpec)
<1> SUFFICES ASSUME ~CanDrop PROVE Spec /\ []Exclusive => SerialSpec OBVIOUS
<1>1. Spec /\ []Exclusive => [](StoreInv /\ SerialInv) BY SerialHolds
<1> QED BY <1>1, SerialStarts, StepIsSerial, PTL DEF Spec, SerialSpec, Serial!Spec
=============================================================================
