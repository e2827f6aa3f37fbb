---------------------------- MODULE ConfigProofs -----------------------------
(* Proofs about ConfigManager: no accepted change of the configuration is    *)
(* lost and what is reported as written is readable and durable, for any     *)
(* number of requests, providers and endpoints and in every scenario.        *)
EXTENDS ConfigManager, TLAPS

Files == {Text(content) : content \in Contents} \cup {Missing, Broken}

TaskStates ==
    {NoTask}
    \cup [at : {"lock", "clear", "spawn"}, kind : {"reload"}, live : BOOLEAN]
    \cup [at : {"lock", "write", "renamed", "forget"}, kind : {"mutate"},
          p : Providers, op : Operations, live : BOOLEAN, doc : Contents]

Types ==
    /\ file \in Files
    /\ disk \in Files
    /\ mutation \in Tasks \cup {Free}
    /\ task \in [Tasks -> TaskStates]

\* The mutex is held by the task that writes or reloads.
Locking == {"write", "renamed", "clear"}
Held == \A t \in Tasks : task[t].at \in Locking <=> mutation = t

\* The document of a task that writes is the file with its change, and the
\* file once it is renamed.
Edited ==
    \A t \in Tasks :
        /\ task[t].at = "write" =>
              task[t].doc = [file.providers EXCEPT ![task[t].p] = OpEffect(task[t].op, @)]
        /\ task[t].at = "renamed" => file.providers = task[t].doc

\* Whether a renamed file waits for the sync of its directory.
Renamed == \E t \in Tasks : task[t].at = "renamed"

IInv ==
    /\ Types /\ Held /\ Edited
    /\ file = want
    /\ Renamed \/ "disk" \in diverged \/ disk = file
    /\ Renamed \/ "snapshot" \in diverged \/ snapshot.providers = file.providers

-----------------------------------------------------------------------------
(* Facts about the operators.                                               *)

\* An operation that is accepted leaves a well-formed provider.
LEMMA OpType ==
    ASSUME NEW c \in Contents, NEW p \in Providers, NEW op \in Operations, OpAccepts(op, c[p])
    PROVE  [c EXCEPT ![p] = OpEffect(op, @)] \in Contents
<1>1. c[p] \in ProviderConfigs \cup {Absent} BY DEF Contents
<1>2. OpEffect(op, c[p]) \in ProviderConfigs \cup {Absent}
  <2>1. CASE op.kind = "create"
    <3>1. op.url \in Urls BY <2>1 DEF Operations
    <3> QED BY <2>1, <3>1 DEF OpEffect, ProviderConfigs
  <2>2. CASE op.kind = "update"
    <3>1. op.url \in Urls BY <2>2 DEF Operations
    <3>2. c[p] \in ProviderConfigs BY <2>2, <1>1 DEF OpAccepts
    <3> QED BY <2>2, <3>1, <3>2 DEF OpEffect, ProviderConfigs
  <2>3. CASE op.kind = "replace"
    <3>1. c[p] \in ProviderConfigs BY <2>3, <1>1 DEF OpAccepts
    <3> QED BY <2>3, <3>1 DEF OpEffect, ProviderConfigs
  <2>4. CASE op.kind = "clear"
    <3>1. c[p] \in ProviderConfigs BY <2>4, <1>1 DEF OpAccepts
    <3> QED BY <2>4, <3>1 DEF OpEffect, ProviderConfigs
  <2>5. CASE op.kind = "delete" BY <2>5 DEF OpEffect
  <2> QED BY <2>1, <2>2, <2>3, <2>4, <2>5 DEF Operations
<1> QED BY <1>1, <1>2 DEF Contents

LEMMA FileTypes ==
    /\ NoProviders \in Contents
    /\ Missing \in Files /\ Broken \in Files
    /\ \A c \in Contents : Text(c) \in Files /\ Text(c).providers = c
    /\ \A f \in Files : Load(f) = f.providers /\ Load(f) \in Contents
<1>1. NoProviders \in Contents BY DEF NoProviders, Contents
<1> QED BY <1>1 DEF Missing, Broken, Text, Load, Files

\* Only a mutating task is at one of the steps of mutate, and so on.
LEMMA TaskShapes ==
    ASSUME NEW u \in TaskStates
    PROVE  /\ u.at \in {"idle", "lock", "write", "renamed", "forget", "clear", "spawn"}
           /\ u.at \in {"write", "renamed", "forget"} =>
                 u \in [at : {"lock", "write", "renamed", "forget"}, kind : {"mutate"},
                        p : Providers, op : Operations, live : BOOLEAN, doc : Contents]
           /\ u.at \in {"clear", "spawn"} =>
                 u \in [at : {"lock", "clear", "spawn"}, kind : {"reload"}, live : BOOLEAN]
BY DEF TaskStates, NoTask

-----------------------------------------------------------------------------
LEMMA InitConfig == Init => IInv
<1> SUFFICES ASSUME Init PROVE IInv OBVIOUS
<1> USE FileTypes
<1>1. Types BY DEF Init, Types, TaskStates
<1>2. Held BY ConfigAssumption DEF Init, Held, NoTask, Free, Locking
<1>3. Edited BY DEF Init, Edited, NoTask
<1> QED BY <1>1, <1>2, <1>3 DEF Init, IInv

\* Steps that touch neither the files nor the tasks.
LEMMA Untouched ==
    ASSUME IInv, UNCHANGED <<store, snapshot, mutation, task>>
    PROVE  IInv'
BY DEF IInv, Types, Held, Edited, Renamed, store

\* Steps of a task that does not hold the mutex, before or after.
LEMMA TaskMoves ==
    ASSUME IInv, NEW t \in Tasks, NEW u \in TaskStates,
           task[t].at \notin Locking, u.at \notin Locking,
           task' = [task EXCEPT ![t] = u], UNCHANGED <<store, snapshot, mutation>>
    PROVE  IInv'
<1> USE DEF IInv, Types, Locking, store
<1>1. Types' OBVIOUS
<1>2. \A o \in Tasks : task'[o] = IF o = t THEN u ELSE task[o] OBVIOUS
<1>3. Held' BY <1>2 DEF Held
<1>4. Edited' BY <1>2 DEF Edited
<1>5. Renamed' <=> Renamed BY <1>2 DEF Renamed
<1> QED BY <1>1, <1>3, <1>4, <1>5

\* Steps of the task that holds the mutex, or takes it, or gives it back: no
\* other task is at a step that needs it.
LEMMA HolderMoves ==
    ASSUME IInv, NEW t \in Tasks, NEW u \in TaskStates,
           mutation \in {t, Free},
           task' = [task EXCEPT ![t] = u],
           mutation' = IF u.at \in Locking THEN t ELSE Free
    PROVE  /\ task' \in [Tasks -> TaskStates] /\ mutation' \in Tasks \cup {Free}
           /\ task'[t] = u
           /\ Held'
           /\ \A o \in Tasks \ {t} : task[o].at \notin Locking /\ task'[o] = task[o]
           /\ Renamed <=> task[t].at = "renamed"
           /\ Renamed' <=> u.at = "renamed"
<1>1. task \in [Tasks -> TaskStates] BY DEF IInv, Types
<1>2. Free \notin Tasks BY ConfigAssumption DEF Free
<1>3. \A o \in Tasks \ {t} : task[o].at \notin Locking /\ task'[o] = task[o]
  BY <1>1, <1>2 DEF IInv, Held
<1>4. task' \in [Tasks -> TaskStates] /\ task'[t] = u BY <1>1
<1>5. Held'
  <2> SUFFICES ASSUME NEW o \in Tasks PROVE (task[o].at \in Locking)' <=> mutation' = o
    BY DEF Held, Locking
  <2>1. CASE o = t BY <2>1, <1>4, <1>2
  <2>2. CASE o # t BY <2>2, <1>3, <1>2
  <2> QED BY <2>1, <2>2
<1>6. Renamed <=> task[t].at = "renamed" BY <1>3 DEF Renamed, Locking
<1>7. Renamed' <=> u.at = "renamed" BY <1>3, <1>4 DEF Renamed, Locking
<1> QED BY <1>3, <1>4, <1>5, <1>6, <1>7

-----------------------------------------------------------------------------
(* The actions, one by one.                                                 *)

LEMMA NewRequestStep == ASSUME IInv, NEW t \in Tasks, NewRequest(t) PROVE IInv'
<1>1. CASE Reload(t)
  <2> DEFINE u == [at |-> "lock", kind |-> "reload", live |-> TRUE]
  <2>1. u \in TaskStates BY DEF TaskStates
  <2> QED BY <1>1, <2>1, TaskMoves DEF Reload, MayBegin, Idle, Locking
<1>2. CASE \E p \in Providers : RefreshModels(t, p)
  BY <1>2, Untouched DEF RefreshModels
<1>3. ASSUME NEW p \in Providers, NEW op \in Operations, Request(t, p, op) PROVE IInv'
  <2> DEFINE u == [at |-> "lock", kind |-> "mutate", p |-> p, op |-> op,
                   live |-> TRUE, doc |-> NoProviders]
  <2>1. u \in TaskStates BY FileTypes DEF TaskStates
  <2> QED BY <1>3, <2>1, TaskMoves DEF Request, MayBegin, Idle, Locking
<1> QED BY <1>1, <1>2, <1>3 DEF NewRequest

LEMMA ApplyStep == ASSUME IInv, NEW t \in Tasks, Apply(t) PROVE IInv'
<1> DEFINE k == task[t]
           c == [Load(file) EXCEPT ![k.p] = OpEffect(k.op, @)]
           u == [k EXCEPT !.at = "write", !.doc = c]
<1>1. k \in [at : {"lock", "write", "renamed", "forget"}, kind : {"mutate"},
              p : Providers, op : Operations, live : BOOLEAN, doc : Contents]
  BY DEF Apply, IInv, Types, TaskStates, NoTask
<1>2. c \in Contents
  <2>1. Load(file) \in Contents BY FileTypes DEF IInv, Types
  <2> HIDE DEF k
  <2> QED BY <2>1, <1>1, OpType DEF Apply, k
<1>3. /\ u \in TaskStates
      /\ u.at = "write" /\ u.doc = c /\ u.p = k.p /\ u.op = k.op
  BY <1>1, <1>2 DEF TaskStates
<1>4. task' = [task EXCEPT ![t] = u] BY DEF Apply, IInv, Types
<1> HIDE DEF u
<1>5. /\ Held' /\ task' \in [Tasks -> TaskStates] /\ mutation' \in Tasks \cup {Free}
      /\ task'[t] = u
      /\ \A o \in Tasks \ {t} : task[o].at \notin Locking /\ task'[o] = task[o]
      /\ ~Renamed /\ ~Renamed'
  BY <1>3, <1>4, HolderMoves DEF Apply, Locking
<1>6. Load(file) = file.providers BY FileTypes DEF IInv, Types
<1>7. Edited' BY <1>3, <1>5, <1>6 DEF Edited, Locking, Apply, store
<1> QED BY <1>5, <1>7 DEF IInv, Types, Apply, store

LEMMA RenameStep == ASSUME IInv, NEW t \in Tasks, Rename(t) PROVE IInv'
<1> DEFINE k == task[t]
           u == [k EXCEPT !.at = "renamed"]
<1>1. k \in [at : {"lock", "write", "renamed", "forget"}, kind : {"mutate"},
              p : Providers, op : Operations, live : BOOLEAN, doc : Contents]
  BY DEF Rename, IInv, Types, TaskStates, NoTask
<1>2. u \in TaskStates /\ u.at = "renamed" /\ u.doc = k.doc BY <1>1 DEF TaskStates
<1>3. task' = [task EXCEPT ![t] = u] BY DEF Rename, Goto, IInv, Types
<1>4. mutation = t BY DEF Rename, IInv, Held, Locking
<1>5. file' \in Files /\ file'.providers = k.doc BY <1>1, FileTypes DEF Rename
<1>6. want' = file'
  <2>1. k.doc = [file.providers EXCEPT ![k.p] = OpEffect(k.op, @)] BY DEF Rename, IInv, Edited
  <2>2. Load(want) = file.providers BY FileTypes DEF IInv, Types
  <2> QED BY <2>1, <2>2 DEF Rename
<1> HIDE DEF u
<1>7. /\ Held' /\ task' \in [Tasks -> TaskStates] /\ mutation' \in Tasks \cup {Free}
      /\ task'[t] = u
      /\ \A o \in Tasks \ {t} : task[o].at \notin Locking /\ task'[o] = task[o]
      /\ Renamed'
  BY <1>2, <1>3, <1>4, HolderMoves DEF Rename, Locking
<1>8. Edited' BY <1>2, <1>5, <1>7 DEF Edited, Locking
<1> QED BY <1>5, <1>6, <1>7, <1>8 DEF IInv, Types, Rename

LEMMA FailWriteStep == ASSUME IInv, NEW t \in Tasks, FailWrite(t) PROVE IInv'
<1>1. NoTask \in TaskStates /\ NoTask.at = "idle" BY DEF TaskStates, NoTask
<1>2. task' = [task EXCEPT ![t] = NoTask] BY DEF FailWrite, Finish
<1>3. mutation = t BY DEF FailWrite, IInv, Held, Locking
<1>4. /\ Held' /\ task' \in [Tasks -> TaskStates] /\ mutation' \in Tasks \cup {Free}
      /\ task'[t] = NoTask
      /\ \A o \in Tasks \ {t} : task[o].at \notin Locking /\ task'[o] = task[o]
      /\ ~Renamed' /\ (Renamed <=> task[t].at = "renamed")
  BY <1>1, <1>2, <1>3, HolderMoves DEF FailWrite, Locking
<1>5. Edited' BY <1>1, <1>4 DEF Edited, Locking
<1>6. CASE task[t].at = "renamed" BY <1>4, <1>5, <1>6 DEF IInv, Types, FailWrite
<1>7. CASE task[t].at = "write" BY <1>4, <1>5, <1>7 DEF IInv, Types, FailWrite
<1> QED BY <1>6, <1>7 DEF FailWrite

LEMMA PublishStep == ASSUME IInv, NEW t \in Tasks, Publish(t) PROVE IInv'
<1> DEFINE k == task[t]
           u == IF k.live THEN [k EXCEPT !.at = "forget"] ELSE NoTask
<1>1. k \in [at : {"lock", "write", "renamed", "forget"}, kind : {"mutate"},
              p : Providers, op : Operations, live : BOOLEAN, doc : Contents]
  BY DEF Publish, IInv, Types, TaskStates, NoTask
<1>2. u \in TaskStates /\ u.at \in {"forget", "idle"} BY <1>1 DEF TaskStates, NoTask
<1>3. task' = [task EXCEPT ![t] = u] BY DEF Publish, Goto, Finish, IInv, Types
<1>4. mutation = t BY DEF Publish, IInv, Held, Locking
<1>5. snapshot'.providers = file'.providers BY DEF Publish, IInv, Edited
<1> HIDE DEF u
<1>6. /\ Held' /\ task' \in [Tasks -> TaskStates] /\ mutation' \in Tasks \cup {Free}
      /\ task'[t] = u
      /\ \A o \in Tasks \ {t} : task[o].at \notin Locking /\ task'[o] = task[o]
  BY <1>2, <1>3, <1>4, HolderMoves DEF Publish, Locking
<1>7. Edited' BY <1>2, <1>6 DEF Edited, Locking
<1> QED BY <1>5, <1>6, <1>7 DEF IInv, Types, Publish

LEMMA ReloadSwapStep == ASSUME IInv, NEW t \in Tasks, ReloadSwap(t) PROVE IInv'
<1> DEFINE k == task[t]
           u == [k EXCEPT !.at = "clear"]
<1>1. k \in [at : {"lock", "clear", "spawn"}, kind : {"reload"}, live : BOOLEAN]
  BY DEF ReloadSwap, IInv, Types, TaskStates, NoTask
<1>2. u \in TaskStates /\ u.at = "clear" BY <1>1 DEF TaskStates
<1>3. task' = [task EXCEPT ![t] = u] BY DEF ReloadSwap, Goto, IInv, Types
<1>4. snapshot'.providers = file.providers BY FileTypes DEF ReloadSwap, IInv, Types
<1> HIDE DEF u
<1>5. /\ Held' /\ task' \in [Tasks -> TaskStates] /\ mutation' \in Tasks \cup {Free}
      /\ task'[t] = u
      /\ \A o \in Tasks \ {t} : task[o].at \notin Locking /\ task'[o] = task[o]
      /\ ~Renamed
  BY <1>2, <1>3, HolderMoves DEF ReloadSwap, Locking
<1>6. Edited' BY <1>2, <1>5 DEF Edited, Locking
<1> QED BY <1>4, <1>5, <1>6 DEF IInv, Types, ReloadSwap

LEMMA ReloadClearStep == ASSUME IInv, NEW t \in Tasks, ReloadClear(t) PROVE IInv'
<1> DEFINE k == task[t]
           u == IF k.live THEN [k EXCEPT !.at = "spawn"] ELSE NoTask
<1>1. k \in [at : {"lock", "clear", "spawn"}, kind : {"reload"}, live : BOOLEAN]
  BY DEF ReloadClear, IInv, Types, TaskStates, NoTask
<1>2. u \in TaskStates /\ u.at \in {"spawn", "idle"} BY <1>1 DEF TaskStates, NoTask
<1>3. task' = [task EXCEPT ![t] = u] BY DEF ReloadClear, Goto, Finish, IInv, Types
<1>4. mutation = t BY DEF ReloadClear, IInv, Held, Locking
<1> HIDE DEF u
<1>5. /\ Held' /\ task' \in [Tasks -> TaskStates] /\ mutation' \in Tasks \cup {Free}
      /\ task'[t] = u
      /\ \A o \in Tasks \ {t} : task[o].at \notin Locking /\ task'[o] = task[o]
      /\ ~Renamed
  BY <1>2, <1>3, <1>4, HolderMoves DEF ReloadClear, Locking
<1>6. Edited' BY <1>2, <1>5 DEF Edited, Locking
<1> QED BY <1>5, <1>6 DEF IInv, Types, ReloadClear, store

\* The steps of a request that does not hold the mutex.
LEMMA FreeStep ==
    ASSUME IInv, NEW t \in Tasks,
           Reject(t) \/ FatalReload(t) \/ Forget(t) \/ ReloadSpawn(t)
    PROVE  IInv'
<1>1. NoTask \in TaskStates /\ NoTask.at \notin Locking BY DEF TaskStates, NoTask, Locking
<1>2. task[t].at \notin Locking BY DEF Reject, FatalReload, Forget, ReloadSpawn, Locking
<1>3. task' = [task EXCEPT ![t] = NoTask] /\ UNCHANGED <<store, snapshot, mutation>>
  BY DEF Reject, FatalReload, Forget, ReloadSpawn, Finish
<1> QED BY <1>1, <1>2, <1>3, TaskMoves

LEMMA DropStep == ASSUME IInv, NEW t \in Tasks, Drop(t) PROVE IInv'
<1>1. CASE UNCHANGED task BY <1>1, Untouched DEF Drop
<1>2. CASE task[t].at \in {"forget", "spawn"} /\ Finish(t)
  <2>1. NoTask \in TaskStates /\ NoTask.at \notin Locking BY DEF TaskStates, NoTask, Locking
  <2> QED BY <1>2, <2>1, TaskMoves DEF Drop, Finish, Locking
<1>3. CASE task[t].at \in {"lock", "write", "renamed", "clear"}
           /\ task' = [task EXCEPT ![t].live = FALSE]
  <2> DEFINE u == [task[t] EXCEPT !.live = FALSE]
  <2>1. /\ u \in TaskStates /\ u.at = task[t].at
        /\ u.at \in {"write", "renamed"} => u.doc = task[t].doc /\ u.p = task[t].p /\ u.op = task[t].op
    BY <1>3 DEF IInv, Types, TaskStates, NoTask
  <2>2. task' = [task EXCEPT ![t] = u] BY <1>3 DEF IInv, Types
  <2> HIDE DEF u
  <2>3. \A o \in Tasks : task'[o] = IF o = t THEN u ELSE task[o] BY <2>2 DEF IInv, Types
  <2>4. Types' BY <2>1, <2>2 DEF Drop, store, IInv, Types
  <2>5. Held' BY <2>1, <2>3 DEF Drop, IInv, Held, Locking
  <2>6. Edited' BY <2>1, <2>3 DEF Drop, store, IInv, Edited
  <2>7. Renamed' <=> Renamed BY <2>1, <2>3 DEF Renamed
  <2> QED BY <2>4, <2>5, <2>6, <2>7 DEF Drop, store, IInv
<1> QED BY <1>1, <1>2, <1>3 DEF Drop

\* With the mutex free nothing is half written.
LEMMA Unlocked ==
    ASSUME IInv, mutation = Free
    PROVE  ~Renamed /\ \A t \in Tasks : task[t].at \notin Locking
BY ConfigAssumption DEF IInv, Held, Renamed, Locking, Free

LEMMA EditStep == ASSUME IInv, EditFile PROVE IInv'
<1>1. ~Renamed /\ \A t \in Tasks : task[t].at \notin Locking BY Unlocked DEF EditFile
<1>2. file' \in Files BY FileTypes DEF EditFile
<1>3. Edited' BY <1>1 DEF EditFile, Edited, Locking
<1>4. Held' BY DEF EditFile, IInv, Held
<1> QED BY <1>2, <1>3, <1>4 DEF EditFile, IInv, Types

\* A process that ends leaves no task and no lock.
LEMMA EndedClean == ASSUME Memoryless
                    PROVE  Held' /\ Edited' /\ ~Renamed' /\ task' \in [Tasks -> TaskStates]
                           /\ mutation' = Free
BY ConfigAssumption DEF Memoryless, Held, Edited, Renamed, NoTask, Locking, Free, TaskStates

LEMMA ExitStep == ASSUME IInv, Exit PROVE IInv'
<1>1. ~Renamed BY DEF Exit, Renamed
<1> QED BY <1>1, EndedClean DEF Exit, IInv, Types, store

LEMMA CrashStep == ASSUME IInv, Crash PROVE IInv'
<1>1. file' \in Files BY DEF Crash, IInv, Types
<1>2. want' = file'
  <2>1. CASE mutation = Free /\ "disk" \notin diverged
    BY <2>1, Unlocked DEF Crash, IInv
  <2> QED BY <2>1 DEF Crash
<1> QED BY <1>1, <1>2, EndedClean DEF Crash, IInv, Types

LEMMA RestartStep == ASSUME IInv, Restart PROVE IInv'
<1>1. Load(file) = file.providers BY FileTypes DEF IInv, Types
<1>2. Held' /\ Edited' /\ (Renamed' <=> Renamed) BY DEF Restart, IInv, Held, Edited, Renamed
<1> QED BY <1>1, <1>2 DEF Restart, IInv, Types

LEMMA NextConfig == IInv /\ [Next]_vars => IInv'
<1> SUFFICES ASSUME IInv, [Next]_vars PROVE IInv' OBVIOUS
<1>1. ASSUME NEW t \in Tasks, TaskStep(t) PROVE IInv'
  BY <1>1, ApplyStep, RenameStep, FailWriteStep, PublishStep, ReloadSwapStep, ReloadClearStep, FreeStep
     DEF TaskStep
<1>2. ASSUME NEW t \in Tasks \cup {Boot}, NEW p \in Providers, DiscoveryStep(t, p) PROVE IInv'
  <2>1. UNCHANGED <<store, snapshot, mutation, task>>
    BY <1>2 DEF DiscoveryStep, DiscoverRead, DiscoverMark, DiscoverStore, Answer
  <2> QED BY <2>1, Untouched
<1>3. CASE UNCHANGED vars BY <1>3, Untouched DEF vars
<1> QED BY <1>1, <1>2, <1>3, NewRequestStep, DropStep, EditStep, ExitStep, CrashStep, RestartStep DEF Next

\* What README.md calls atomic mutations, for any number of providers and of
\* requests in flight: an accepted change is never lost, whatever is dropped,
\* fails or crashes.
THEOREM ConfigDurable == Spec => []NoLostUpdate
<1>1. IInv => NoLostUpdate BY DEF IInv, NoLostUpdate
<1> QED BY <1>1, InitConfig, NextConfig, PTL DEF Spec

\* A change that was answered is in the snapshot and on disk, unless a later
\* hand edit or failed write parted them.
THEOREM ConfigPublished == Spec => []Published
<1>1. IInv => Published BY Unlocked, FileTypes DEF IInv, Types, Published
<1> QED BY <1>1, InitConfig, NextConfig, PTL DEF Spec

-----------------------------------------------------------------------------
(* The catalogs.                                                            *)

ProviderStates == ProviderConfigs \cup {Absent}
CacheStates == {NoCache} \cup [status : {"pending", "succeeded", "failed"}, of : ProviderStates]
Discoverers == Tasks \cup {Boot}
DiscoveryStates ==
    [at : {"idle", "read", "mark", "request", "store"}, awaited : BOOLEAN,
     original : ProviderStates, ok : BOOLEAN]

Shapes ==
    /\ server \in {"up", "stopping", "down"}
    /\ snapshot \in [providers : Contents, agents : BOOLEAN]
    /\ cache \in [Providers -> CacheStates]
    /\ disc \in [Discoverers -> [Providers -> DiscoveryStates]]

\* A process that is down does nothing.
Ended ==
    server = "down" =>
        /\ \A t \in Tasks : task[t].at = "idle"
        /\ \A t \in Discoverers, p \in Providers : disc[t][p].at = "idle"
        /\ \A p \in Providers : cache[p].status = "none"

\* A change that leaves no provider to discover is in the document.
Marked ==
    \A t \in Tasks :
        task[t].at \in {"write", "renamed"} /\ task[t].op.kind \in {"replace", "delete"}
            => task[t].p \notin Automatic(task[t].doc)

\* In a tidy behaviour every request is live, discoveries have no half steps,
\* and the snapshot is the file but for the change of the task that writes.
Attended == \A t \in Tasks : task[t].at # "idle" => task[t].live
Whole == \A t \in Discoverers, p \in Providers : disc[t][p].at \in {"idle", "read", "request"}
InStep ==
    /\ server # "down" => "snapshot" \notin diverged
    /\ \A t \in Tasks : task[t].at = "renamed" =>
          \A q \in Providers \ {task[t].p} : snapshot.providers[q] = task[t].doc[q]

\* A task that is about to clear the catalog of provider p.
Clears(t, p) == task[t].at = "clear" \/ (task[t].at = "forget" /\ task[t].p = p)

\* A result is that of the provider as it is, or about to be cleared.
Current ==
    \A p \in Providers :
        cache[p].status \in {"succeeded", "failed"} =>
            \/ cache[p].of = snapshot.providers[p]
            \/ \E t \in Tasks : Clears(t, p)

Orderly == Tidy => Attended /\ Whole /\ InStep /\ Current

Calm == Tidy /\ "overlap" \notin disturbances

\* Without overlap one request is in flight, and what it published stays.
Single == \A t, u \in Tasks : task[t].at # "idle" /\ task[u].at # "idle" => t = u
Stays ==
    \A t \in Tasks :
        task[t].at = "forget" /\ task[t].op.kind \in {"replace", "delete"}
            => task[t].p \notin Automatic(snapshot.providers)

\* What will bring the result of provider p.
Coming(t, p) ==
    disc[t][p].at = "read" \/ (disc[t][p].at = "request" /\ disc[t][p].original = snapshot.providers[p])
Awaiting(p) ==
    \/ \E t \in Discoverers : Coming(t, p)
    \/ \E t \in Tasks : Clears(t, p) \/ task[t].at = "spawn"
Promised ==
    server # "down" =>
        \A p \in Automatic(snapshot.providers) :
            cache[p].status \in {"succeeded", "failed"} \/ Awaiting(p)

Settling == Calm => Single /\ Stays /\ Promised

CatalogInv == Shapes /\ Ended /\ Marked /\ Orderly /\ Settling

LEMMA CatalogTypes ==
    /\ Absent \in ProviderStates
    /\ NoCache \in CacheStates /\ NoCache.status = "none"
    /\ NoDiscovery \in DiscoveryStates /\ NoDiscovery.at = "idle"
    /\ \A c \in Contents, p \in Providers : c[p] \in ProviderStates
BY DEF ProviderStates, NoCache, CacheStates, NoDiscovery, DiscoveryStates, Contents

LEMMA InitCatalogs == Init => CatalogInv
<1> SUFFICES ASSUME Init PROVE CatalogInv OBVIOUS
<1>1. snapshot.providers = NoProviders /\ NoProviders \in Contents /\ snapshot.agents = TRUE
      /\ snapshot \in [providers : Contents, agents : BOOLEAN]
  BY FileTypes DEF Init, Missing, Load
<1>2. Shapes BY <1>1, CatalogTypes DEF Init, Shapes, Discoverers
<1>3. \A t \in Tasks : task[t].at = "idle" BY DEF Init, NoTask
<1>4. Automatic(snapshot.providers) = {} BY <1>1 DEF Automatic, NoProviders
<1>5. \A t \in Discoverers, p \in Providers : disc[t][p].at = "idle"
  BY CatalogTypes DEF Init, Discoverers
<1>6. \A p \in Providers : cache[p].status = "none" BY CatalogTypes DEF Init
<1>7. Orderly
  BY <1>3, <1>5, <1>6 DEF Init, Orderly, Attended, Whole, InStep, Current
<1>8. Settling BY <1>3, <1>4 DEF Settling, Single, Stays, Promised
<1> QED BY <1>2, <1>3, <1>7, <1>8 DEF Init, CatalogInv, Ended, Marked

\* In a behaviour that is not tidy little is left to show.
LEMMA NotTidy ==
    ASSUME CatalogInv, ~Tidy, UNCHANGED disturbances, Shapes', Ended', Marked'
    PROVE  CatalogInv'
BY DEF CatalogInv, Orderly, Settling, Calm, Tidy

\* Steps of a request that neither publish nor clear anything.
LEMMA TaskAlone ==
    ASSUME IInv, CatalogInv, NEW t \in Tasks, NEW u \in TaskStates,
           task' = [task EXCEPT ![t] = u],
           UNCHANGED <<disturbances, snapshot, cache, disc, diverged>>,
           server # "down", server' \in {"up", "stopping"},
           task[t].at \notin {"forget", "clear", "spawn"},
           u.at \in {"idle", "lock", "write", "renamed"},
           Tidy => u.at = "idle" \/ u.live,
           u.at \in {"write", "renamed"} /\ u.op.kind \in {"replace", "delete"} => u.p \notin Automatic(u.doc),
           Tidy /\ u.at = "renamed" => \A q \in Providers \ {u.p} : snapshot.providers[q] = u.doc[q],
           Calm => task[t].at # "idle" \/ \A o \in Tasks : task[o].at = "idle"
    PROVE  CatalogInv'
<1>1. \A o \in Tasks : task'[o] = IF o = t THEN u ELSE task[o] BY DEF IInv, Types
<1>2. (Tidy' <=> Tidy) /\ (Calm' <=> Calm) BY DEF Tidy, Calm
<1>3. Shapes' /\ Ended' BY DEF CatalogInv, Shapes, Ended
<1>4. Marked' BY <1>1 DEF CatalogInv, Marked
<1>5. \A p \in Providers, o \in Tasks : Clears(o, p) => Clears(o, p)'
  BY <1>1 DEF Clears
<1>6. Orderly'
  <2> SUFFICES ASSUME Tidy PROVE Attended' /\ Whole' /\ InStep' /\ Current' BY <1>2 DEF Orderly
  <2>1. Attended' BY <1>1 DEF CatalogInv, Orderly, Attended
  <2>2. Whole' BY DEF CatalogInv, Orderly, Whole
  <2>3. InStep' BY <1>1 DEF CatalogInv, Orderly, InStep
  <2>4. Current' BY <1>5 DEF CatalogInv, Orderly, Current
  <2> QED BY <2>1, <2>2, <2>3, <2>4
<1>7. Settling'
  <2> SUFFICES ASSUME Calm PROVE Single' /\ Stays' /\ Promised' BY <1>2 DEF Settling
  <2>1. Single' BY <1>1 DEF CatalogInv, Settling, Single
  <2>2. Stays' BY <1>1 DEF CatalogInv, Settling, Stays
  <2>3. \A p \in Providers : Awaiting(p) => Awaiting(p)'
    BY <1>1, <1>5 DEF Awaiting, Coming
  <2>4. Promised' BY <2>3 DEF CatalogInv, Settling, Promised, Automatic
  <2> QED BY <2>1, <2>2, <2>4
<1> QED BY <1>3, <1>4, <1>6, <1>7 DEF CatalogInv

\* Steps of a discovery.
LEMMA DiscoveryMoves ==
    ASSUME CatalogInv, NEW t \in Discoverers, NEW p \in Providers, NEW d \in DiscoveryStates,
           NEW c \in CacheStates,
           disc[t][p].at # "idle",
           disc' = [disc EXCEPT ![t] = [disc[t] EXCEPT ![p] = d]],
           cache' = [cache EXCEPT ![p] = c],
           UNCHANGED <<disturbances, server, store, snapshot, mutation, task>>,
           Tidy => d.at \in {"idle", "request"},
           Tidy => c.status = "pending" \/ c.of = snapshot.providers[p] \/ c = cache[p],
           Calm /\ p \in Automatic(snapshot.providers) =>
               \/ c.status \in {"succeeded", "failed"}
               \/ d.at = "request" /\ d.original = snapshot.providers[p]
               \/ c = cache[p] /\ ~Coming(t, p)
    PROVE  CatalogInv'
<1>1. \A o \in Discoverers, q \in Providers :
         disc'[o][q] = IF o = t /\ q = p THEN d ELSE disc[o][q]
  BY DEF CatalogInv, Shapes
<1>2. \A q \in Providers : cache'[q] = IF q = p THEN c ELSE cache[q] BY DEF CatalogInv, Shapes
<1>3. (Tidy' <=> Tidy) /\ (Calm' <=> Calm) BY DEF Tidy, Calm
<1>4. Shapes' BY DEF CatalogInv, Shapes
<1>5. Ended' /\ Marked' BY DEF CatalogInv, Ended, Marked
<1>6. Orderly'
  <2> SUFFICES ASSUME Tidy PROVE Attended' /\ Whole' /\ InStep' /\ Current' BY <1>3 DEF Orderly
  <2>1. Attended' BY DEF CatalogInv, Orderly, Attended
  <2>2. Whole' BY <1>1 DEF CatalogInv, Orderly, Whole
  <2>3. InStep' BY DEF CatalogInv, Orderly, InStep, store
  <2>4. Current' BY <1>2 DEF CatalogInv, Orderly, Current, Clears
  <2> QED BY <2>1, <2>2, <2>3, <2>4
<1>7. Settling'
  <2> SUFFICES ASSUME Calm PROVE Single' /\ Stays' /\ Promised' BY <1>3 DEF Settling
  <2>1. Single' /\ Stays' BY DEF CatalogInv, Settling, Single, Stays
  <2>2. \A q \in Providers \ {p} : Awaiting(q) => Awaiting(q)'
    BY <1>1 DEF Awaiting, Coming, Clears
  <2>3. d.at = "request" /\ d.original = snapshot.providers[p] => Awaiting(p)'
    BY <1>1 DEF Awaiting, Coming
  <2>4. ~Coming(t, p) /\ Awaiting(p) => Awaiting(p)'
    BY <1>1 DEF Awaiting, Coming, Clears
  <2>5. Promised' BY <1>2, <2>2, <2>3, <2>4 DEF CatalogInv, Settling, Promised, Automatic
  <2> QED BY <2>1, <2>5
<1> QED BY <1>4, <1>5, <1>6, <1>7 DEF CatalogInv

\* Requests that begin, and their steps up to the rename.
LEMMA RequestCatalogs ==
    ASSUME IInv, CatalogInv, NEW t \in Tasks, NEW p \in Providers, NEW op \in Operations, Request(t, p, op)
    PROVE  CatalogInv'
<1> DEFINE u == [at |-> "lock", kind |-> "mutate", p |-> p, op |-> op, live |-> TRUE, doc |-> NoProviders]
<1>1. u \in TaskStates /\ u.at = "lock" /\ u.live BY FileTypes DEF TaskStates
<1>2. task' = [task EXCEPT ![t] = u] BY DEF Request
<1> HIDE DEF u
<1>3. Calm => \A o \in Tasks : task[o].at = "idle" BY DEF Request, MayBegin, Calm, Answered
<1> QED BY <1>1, <1>2, <1>3, TaskAlone DEF Request, MayBegin, Idle, store

LEMMA ReloadCatalogs == ASSUME IInv, CatalogInv, NEW t \in Tasks, Reload(t) PROVE CatalogInv'
<1> DEFINE u == [at |-> "lock", kind |-> "reload", live |-> TRUE]
<1>1. u \in TaskStates /\ u.at = "lock" /\ u.live BY DEF TaskStates
<1>2. task' = [task EXCEPT ![t] = u] BY DEF Reload
<1> HIDE DEF u
<1>3. Calm => \A o \in Tasks : task[o].at = "idle" BY DEF Reload, MayBegin, Calm, Answered
<1> QED BY <1>1, <1>2, <1>3, TaskAlone DEF Reload, MayBegin, Idle, store

\* A task that is in the middle of a request is in a process that runs.
LEMMA Runs == ASSUME CatalogInv, NEW t \in Tasks, task[t].at # "idle"
              PROVE  server \in {"up", "stopping"}
BY DEF CatalogInv, Ended, Shapes

LEMMA ApplyCatalogs == ASSUME IInv, CatalogInv, NEW t \in Tasks, Apply(t) PROVE CatalogInv'
<1> DEFINE k == task[t]
           old == Load(file)[k.p]
           c == [Load(file) EXCEPT ![k.p] = OpEffect(k.op, @)]
           u == [k EXCEPT !.at = "write", !.doc = c]
<1>1. k \in [at : {"lock", "write", "renamed", "forget"}, kind : {"mutate"},
              p : Providers, op : Operations, live : BOOLEAN, doc : Contents]
  BY DEF Apply, IInv, Types, TaskStates, NoTask
<1>2. Load(file) \in Contents BY FileTypes DEF IInv, Types
<1>3. c \in Contents /\ c[k.p] = OpEffect(k.op, old)
  <2> HIDE DEF k
  <2>1. c \in Contents BY <1>1, <1>2, OpType DEF Apply, k
  <2>2. c[k.p] = OpEffect(k.op, old) BY <1>1, <1>2 DEF Contents
  <2> QED BY <2>1, <2>2
<1>4. k.op.kind \in {"replace", "delete"} => k.p \notin Automatic(c)
  <2>1. CASE k.op.kind = "replace"
    <3>1. OpEffect(k.op, old).manual BY <2>1 DEF OpEffect
    <3> HIDE DEF k, c, old
    <3> QED BY <3>1, <1>3 DEF Automatic
  <2>2. CASE k.op.kind = "delete"
    <3>1. OpEffect(k.op, old) = Absent BY <2>2 DEF OpEffect
    <3> HIDE DEF k, c, old
    <3> QED BY <3>1, <1>3 DEF Automatic
  <2> HIDE DEF k
  <2> QED BY <2>1, <2>2
<1>5. /\ u \in TaskStates
      /\ u.at = "write" /\ u.doc = c /\ u.p = k.p /\ u.op = k.op /\ u.live = k.live
  BY <1>1, <1>3 DEF TaskStates
<1>6. task' = [task EXCEPT ![t] = u] BY DEF Apply, IInv, Types
<1>7. Tidy => k.live BY DEF Apply, CatalogInv, Orderly, Attended
<1>8. server \in {"up", "stopping"} BY Runs DEF Apply
<1> HIDE DEF u, c
<1> QED BY <1>4, <1>5, <1>6, <1>7, <1>8, TaskAlone DEF Apply, store

LEMMA RenameCatalogs == ASSUME IInv, CatalogInv, NEW t \in Tasks, Rename(t) PROVE CatalogInv'
<1> DEFINE k == task[t]
           u == [k EXCEPT !.at = "renamed"]
<1>1. k \in [at : {"lock", "write", "renamed", "forget"}, kind : {"mutate"},
              p : Providers, op : Operations, live : BOOLEAN, doc : Contents]
  BY DEF Rename, IInv, Types, TaskStates, NoTask
<1>2. /\ u \in TaskStates
      /\ u.at = "renamed" /\ u.doc = k.doc /\ u.p = k.p /\ u.op = k.op /\ u.live = k.live
  BY <1>1 DEF TaskStates
<1>3. task' = [task EXCEPT ![t] = u] BY DEF Rename, Goto, IInv, Types
<1>4. server \in {"up", "stopping"} BY Runs DEF Rename
<1>5. Tidy => \A q \in Providers \ {k.p} : snapshot.providers[q] = k.doc[q]
  <2> SUFFICES ASSUME Tidy PROVE \A q \in Providers \ {k.p} : snapshot.providers[q] = k.doc[q] OBVIOUS
  <2>1. mutation = t BY DEF Rename, IInv, Held, Locking
  <2>2. ~Renamed BY <2>1 DEF Rename, Renamed, IInv, Held, Locking
  <2>3. snapshot.providers = file.providers BY <2>2, <1>4 DEF IInv, CatalogInv, Orderly, InStep
  <2>4. k.doc = [file.providers EXCEPT ![k.p] = OpEffect(k.op, @)] BY DEF Rename, IInv, Edited
  <2>5. file.providers \in Contents BY FileTypes DEF IInv, Types
  <2> HIDE DEF k
  <2> QED BY <2>3, <2>4, <2>5 DEF Contents
<1>6. Tidy => k.live BY DEF Rename, CatalogInv, Orderly, Attended
<1>7. k.op.kind \in {"replace", "delete"} => k.p \notin Automatic(k.doc)
  BY DEF Rename, CatalogInv, Marked
<1> HIDE DEF u
<1> QED BY <1>2, <1>3, <1>4, <1>5, <1>6, <1>7, TaskAlone DEF Rename

\* A request that is refused.
LEMMA RefusedCatalogs ==
    ASSUME IInv, CatalogInv, NEW t \in Tasks, Reject(t) \/ FatalReload(t)
    PROVE  CatalogInv'
<1>1. NoTask \in TaskStates /\ NoTask.at = "idle" BY DEF TaskStates, NoTask
<1>2. /\ task' = [task EXCEPT ![t] = NoTask] /\ task[t].at = "lock"
      /\ UNCHANGED <<disturbances, snapshot, cache, disc, diverged>>
  BY DEF Reject, FatalReload, Finish, store
<1>3. server \in {"up", "stopping"} BY <1>2, Runs
<1>4. server' \in {"up", "stopping"} BY <1>3 DEF Reject, FatalReload
<1> QED BY <1>1, <1>2, <1>3, <1>4, TaskAlone

LEMMA FailWriteCatalogs == ASSUME IInv, CatalogInv, NEW t \in Tasks, FailWrite(t) PROVE CatalogInv'
<1>1. ~Tidy BY DEF FailWrite, Tidy
<1>2. \A o \in Tasks : task'[o] = IF o = t THEN NoTask ELSE task[o] BY DEF FailWrite, Finish, IInv, Types
<1>3. Shapes' BY DEF FailWrite, CatalogInv, Shapes
<1>4. Ended' /\ Marked' BY <1>2 DEF FailWrite, CatalogInv, Ended, Marked, NoTask
<1> QED BY <1>1, <1>3, <1>4, NotTidy DEF FailWrite

LEMMA DropCatalogs == ASSUME IInv, CatalogInv, NEW t \in Tasks, Drop(t) PROVE CatalogInv'
<1>1. ~Tidy BY DEF Drop, Tidy
<1>2. Shapes' /\ \A o \in Discoverers, q \in Providers : disc[o][q].at = "idle" => disc'[o][q].at = "idle"
  <2>1. CASE UNCHANGED disc BY <2>1 DEF Drop, CatalogInv, Shapes
  <2>2. CASE \E p \in Providers : disc' = [disc EXCEPT ![t][p] = NoDiscovery]
    <3>1. PICK p \in Providers : disc' = [disc EXCEPT ![t][p] = NoDiscovery] BY <2>2
    <3>2. disc' \in [Discoverers -> [Providers -> DiscoveryStates]]
      BY <3>1, CatalogTypes DEF CatalogInv, Shapes, Discoverers
    <3>3. \A o \in Discoverers, q \in Providers :
             disc'[o][q] = IF o = t /\ q = p THEN NoDiscovery ELSE disc[o][q]
      BY <3>1 DEF CatalogInv, Shapes, Discoverers
    <3> QED BY <3>2, <3>3, CatalogTypes DEF Drop, CatalogInv, Shapes
  <2> QED BY <2>1, <2>2 DEF Drop
<1>3. Ended' /\ Marked'
  <2>1. CASE UNCHANGED task BY <2>1, <1>2 DEF Drop, CatalogInv, Ended, Marked
  <2>2. CASE Finish(t)
    <3>1. \A o \in Tasks : task'[o] = IF o = t THEN NoTask ELSE task[o] BY <2>2 DEF Finish, IInv, Types
    <3> QED BY <3>1, <1>2 DEF Drop, CatalogInv, Ended, Marked, NoTask
  <2>3. CASE /\ task[t].at \in {"lock", "write", "renamed", "clear"}
             /\ task' = [task EXCEPT ![t].live = FALSE]
    <3> DEFINE u == [task[t] EXCEPT !.live = FALSE]
    <3>1. /\ u.at = task[t].at
          /\ u.at \in {"write", "renamed"} => u.doc = task[t].doc /\ u.p = task[t].p /\ u.op = task[t].op
      BY <2>3 DEF IInv, Types, TaskStates, NoTask
    <3>2. \A o \in Tasks : task'[o] = IF o = t THEN u ELSE task[o] BY <2>3 DEF IInv, Types
    <3> HIDE DEF u
    <3> QED BY <3>1, <3>2, <1>2 DEF Drop, CatalogInv, Ended, Marked
  <2> QED BY <2>1, <2>2, <2>3 DEF Drop
<1> QED BY <1>1, <1>2, <1>3, NotTidy DEF Drop

LEMMA PublishCatalogs == ASSUME IInv, CatalogInv, NEW t \in Tasks, Publish(t) PROVE CatalogInv'
<1> DEFINE k == task[t]
           u == IF k.live THEN [k EXCEPT !.at = "forget"] ELSE NoTask
<1>1. k \in [at : {"lock", "write", "renamed", "forget"}, kind : {"mutate"},
              p : Providers, op : Operations, live : BOOLEAN, doc : Contents]
  BY DEF Publish, IInv, Types, TaskStates, NoTask
<1>2. /\ u \in TaskStates /\ u.at \in {"forget", "idle"}
      /\ k.live => u.at = "forget" /\ u.p = k.p /\ u.op = k.op /\ u.live
  BY <1>1 DEF TaskStates, NoTask
<1>3. \A o \in Tasks : task'[o] = IF o = t THEN u ELSE task[o]
  BY DEF Publish, Goto, Finish, IInv, Types
<1>4. /\ k.at = "renamed" /\ k.doc \in Contents /\ k.p \in Providers
      /\ k.op.kind \in {"replace", "delete"} => k.p \notin Automatic(k.doc)
  BY <1>1 DEF Publish, CatalogInv, Marked
<1>5. snapshot'.providers = k.doc /\ Shapes'
  BY <1>4 DEF Publish, CatalogInv, Shapes
<1>6. UNCHANGED <<disturbances, server, cache, disc>> /\ diverged' = {} BY DEF Publish
<1>7. server # "down" BY Runs DEF Publish
<1>8. Tidy => /\ k.live
              /\ \A q \in Providers \ {k.p} : snapshot.providers[q] = k.doc[q]
  BY DEF Publish, CatalogInv, Orderly, Attended, InStep
<1>9. \A o \in Tasks \ {t} : task[o].at \notin Locking
  BY ConfigAssumption DEF Publish, IInv, Held, Locking, Free
<1>10. (Tidy' <=> Tidy) /\ (Calm' <=> Calm) BY <1>6 DEF Tidy, Calm
<1>0. PICK p \in Providers : p = k.p BY <1>4
<1> HIDE DEF k, u
<1>11. Ended' BY <1>6, <1>7 DEF Ended
<1>12. Marked' BY <1>2, <1>3 DEF CatalogInv, Marked
<1>13. Orderly'
  <2> SUFFICES ASSUME Tidy PROVE Attended' /\ Whole' /\ InStep' /\ Current' BY <1>0, <1>10 DEF Orderly
  <2>1. Attended' BY <1>2, <1>3, <1>8 DEF CatalogInv, Orderly, Attended
  <2>2. Whole' BY <1>6 DEF CatalogInv, Orderly, Whole
  <2>3. InStep' BY <1>2, <1>3, <1>6, <1>9 DEF InStep, Locking
  <2>4. Clears(t, p)' BY <1>0, <1>2, <1>3, <1>8 DEF Clears
  <2>5. \A q \in Providers, o \in Tasks : Clears(o, q) => Clears(o, q)'
    BY <1>3, <1>4 DEF Clears, k
  <2>6. Current' BY <1>0, <1>5, <1>6, <1>8, <2>4, <2>5 DEF CatalogInv, Orderly, Current
  <2> QED BY <2>1, <2>2, <2>3, <2>6
<1>14. Settling'
  <2> SUFFICES ASSUME Calm PROVE Single' /\ Stays' /\ Promised' BY <1>10 DEF Settling
  <2> USE DEF Calm
  <2>1. \A o \in Tasks : task[o].at # "idle" => o = t
    BY <1>4 DEF CatalogInv, Settling, Single, k
  <2>2. Single' BY <2>1, <1>3 DEF Single
  <2>3. Stays' BY <2>1, <1>2, <1>3, <1>4, <1>5, <1>8 DEF Stays
  <2>4. Awaiting(p)' BY <1>0, <1>2, <1>3, <1>8 DEF Awaiting, Clears
  <2>5. \A q \in Providers \ {p} : Awaiting(q) => Awaiting(q)'
    BY <1>0, <2>1, <1>3, <1>4, <1>5, <1>6, <1>8 DEF Awaiting, Clears, Coming, k
  <2>6. \A q \in Providers \ {p} : q \in Automatic(k.doc) => q \in Automatic(snapshot.providers)
    BY <1>0, <1>8 DEF Automatic
  <2>7. \A q \in Automatic(k.doc) : q \in Providers BY DEF Automatic
  <2>8. Promised' BY <1>5, <1>6, <1>7, <2>4, <2>5, <2>6, <2>7 DEF CatalogInv, Settling, Promised
  <2> QED BY <2>2, <2>3, <2>8
<1> QED BY <1>5, <1>11, <1>12, <1>13, <1>14 DEF CatalogInv

\* discover_provider begins.
LEMMA OneDiscovery ==
    ASSUME CatalogInv, NEW t \in Tasks, NEW p \in Providers
    PROVE  /\ DiscoverOne(t, p) \in [Discoverers -> [Providers -> DiscoveryStates]]
           /\ \A o \in Discoverers, q \in Providers :
                 ~(o = t /\ q = p) => DiscoverOne(t, p)[o][q] = disc[o][q]
           /\ DiscoverOne(t, p)[t][p].at = "read"
<1> DEFINE d == [disc[t][p] EXCEPT !.at = "read", !.awaited = TRUE]
           D == [disc EXCEPT ![t] = [disc[t] EXCEPT ![p] = d]]
<1>1. /\ disc \in [Discoverers -> [Providers -> DiscoveryStates]] /\ t \in Discoverers
      /\ disc[t][p] \in DiscoveryStates
  BY DEF CatalogInv, Shapes, Discoverers
<1>2. d \in DiscoveryStates /\ d.at = "read" BY <1>1 DEF DiscoveryStates
<1>3. DiscoverOne(t, p) = D BY <1>1 DEF DiscoverOne
<1> HIDE DEF d
<1>4. [disc[t] EXCEPT ![p] = d] \in [Providers -> DiscoveryStates] BY <1>1, <1>2
<1>5. D \in [Discoverers -> [Providers -> DiscoveryStates]] BY <1>1, <1>4
<1>6. \A o \in Discoverers, q \in Providers : D[o][q] = IF o = t /\ q = p THEN d ELSE disc[o][q]
  BY <1>1
<1> QED BY <1>1, <1>2, <1>3, <1>5, <1>6

LEMMA ForgetCatalogs == ASSUME IInv, CatalogInv, NEW t \in Tasks, Forget(t) PROVE CatalogInv'
<1> DEFINE k == task[t]
<1>0. PICK p : p = k.p OBVIOUS
<1> DEFINE again == \/ k.op.kind \in {"create", "clear"}
                    \/ k.op.kind = "update" /\ ~(snapshot.providers[p] # Absent /\ snapshot.providers[p].manual)
<1>1. k \in [at : {"lock", "write", "renamed", "forget"}, kind : {"mutate"},
              p : Providers, op : Operations, live : BOOLEAN, doc : Contents]
  BY DEF Forget, IInv, Types, TaskStates, NoTask
<1>2. k.at = "forget" /\ p \in Providers BY <1>0, <1>1 DEF Forget
<1>3. \A o \in Tasks : task'[o] = IF o = t THEN NoTask ELSE task[o]
  BY DEF Forget, Finish, IInv, Types
<1>4. cache' \in [Providers -> CacheStates]
  BY <1>0, CatalogTypes DEF Forget, CatalogInv, Shapes
<1>5. \A q \in Providers : cache'[q] = IF q = p THEN NoCache ELSE cache[q]
  BY <1>0 DEF Forget, CatalogInv, Shapes
<1>6. disc' = IF again THEN DiscoverOne(t, p) ELSE disc BY <1>0 DEF Forget
<1>7. disc' \in [Discoverers -> [Providers -> DiscoveryStates]]
  BY <1>2, <1>6, OneDiscovery DEF CatalogInv, Shapes
<1>8. \A o \in Discoverers, q \in Providers : ~(o = t /\ q = p) => disc'[o][q] = disc[o][q]
  BY <1>2, <1>6, OneDiscovery
<1>9. disc'[t][p].at = IF again THEN "read" ELSE disc[t][p].at
  BY <1>2, <1>6, OneDiscovery
<1>10. ~again => k.op.kind \in {"replace", "delete"} \/ p \notin Automatic(snapshot.providers)
  <2>1. k.op.kind \in {"create", "update", "replace", "clear", "delete"} BY <1>1 DEF Operations
  <2> HIDE DEF k
  <2> QED BY <2>1 DEF Automatic
<1>11. ~again => disc' = disc BY <1>6
<1>12. UNCHANGED <<disturbances, server, store, snapshot, mutation>> BY DEF Forget
<1>13. server # "down" BY Runs DEF Forget
<1>14. (Tidy' <=> Tidy) /\ (Calm' <=> Calm) BY <1>12 DEF Tidy, Calm
<1> HIDE DEF k, again
<1>15. Shapes' BY <1>4, <1>7, <1>12 DEF CatalogInv, Shapes
<1>16. Ended' BY <1>12, <1>13 DEF Ended
<1>17. Marked' BY <1>3 DEF CatalogInv, Marked, NoTask
<1>18. \A q \in Providers \ {p}, o \in Tasks : Clears(o, q) => Clears(o, q)'
  BY <1>0, <1>2, <1>3 DEF Clears, k
<1>19. Orderly'
  <2> SUFFICES ASSUME Tidy PROVE Attended' /\ Whole' /\ InStep' /\ Current' BY <1>14 DEF Orderly
  <2>1. Attended' BY <1>3 DEF CatalogInv, Orderly, Attended, NoTask
  <2>2. Whole' BY <1>8, <1>9 DEF CatalogInv, Orderly, Whole
  <2>3. InStep' BY <1>3, <1>12 DEF CatalogInv, Orderly, InStep, NoTask, store
  <2>4. cache'[p].status = "none" BY <1>2, <1>5, CatalogTypes
  <2>5. Current' BY <1>5, <1>12, <1>18, <2>4 DEF CatalogInv, Orderly, Current
  <2> QED BY <2>1, <2>2, <2>3, <2>5
<1>20. Settling'
  <2> SUFFICES ASSUME Calm PROVE Single' /\ Stays' /\ Promised' BY <1>14 DEF Settling
  <2>1. Single' BY <1>3 DEF CatalogInv, Settling, Single, NoTask
  <2>2. Stays' BY <1>3, <1>12 DEF CatalogInv, Settling, Stays, NoTask
  <2>3. again => Awaiting(p)' BY <1>9 DEF Awaiting, Coming, Discoverers
  <2>4. ~again => p \notin Automatic(snapshot.providers)
    BY <1>0, <1>2, <1>10 DEF CatalogInv, Settling, Stays, k
  <2>5. \A q \in Providers \ {p} : Awaiting(q) => Awaiting(q)'
    <3> SUFFICES ASSUME NEW q \in Providers \ {p}, Awaiting(q) PROVE Awaiting(q)' OBVIOUS
    <3>1. CASE \E o \in Discoverers : Coming(o, q) BY <3>1, <1>8, <1>12 DEF Awaiting, Coming
    <3>2. CASE \E o \in Tasks : Clears(o, q) BY <3>2, <1>18 DEF Awaiting
    <3>3. CASE \E o \in Tasks : task[o].at = "spawn" BY <3>3, <1>2, <1>3 DEF Awaiting, k
    <3> QED BY <3>1, <3>2, <3>3 DEF Awaiting
  <2>6. \A q \in Automatic(snapshot.providers) : q \in Providers BY DEF Automatic
  <2>7. Promised' BY <1>5, <1>12, <1>13, <2>3, <2>4, <2>5, <2>6 DEF CatalogInv, Settling, Promised
  <2> QED BY <2>1, <2>2, <2>7
<1> QED BY <1>15, <1>16, <1>17, <1>19, <1>20 DEF CatalogInv

LEMMA RefreshCatalogs ==
    ASSUME IInv, CatalogInv, NEW t \in Tasks, NEW p \in Providers, RefreshModels(t, p)
    PROVE  CatalogInv'
<1>1. /\ disc' \in [Discoverers -> [Providers -> DiscoveryStates]]
      /\ \A o \in Discoverers, q \in Providers : ~(o = t /\ q = p) => disc'[o][q] = disc[o][q]
      /\ disc'[t][p].at = "read"
  BY OneDiscovery DEF RefreshModels
<1>2. UNCHANGED <<disturbances, server, snapshot, cache, task, diverged>> /\ server = "up"
  BY DEF RefreshModels, MayBegin, store
<1>3. (Tidy' <=> Tidy) /\ (Calm' <=> Calm) BY <1>2 DEF Tidy, Calm
<1>4. Shapes' /\ Ended' /\ Marked' BY <1>1, <1>2 DEF CatalogInv, Shapes, Ended, Marked
<1>5. Orderly'
  <2>1. Whole => Whole' BY <1>1 DEF Whole
  <2>2. (Attended => Attended') /\ (InStep => InStep') /\ (Current => Current')
    BY <1>2 DEF Attended, InStep, Current, Clears
  <2> QED BY <2>1, <2>2, <1>3 DEF CatalogInv, Orderly
<1>6. Settling'
  <2>1. (Single => Single') /\ (Stays => Stays') BY <1>2 DEF Single, Stays
  <2>2. \A q \in Providers : Awaiting(q) => Awaiting(q)'
    BY <1>1, <1>2 DEF Awaiting, Coming, Clears
  <2>3. Promised => Promised' BY <1>2, <2>2 DEF Promised, Automatic
  <2> QED BY <2>1, <2>3, <1>3 DEF CatalogInv, Settling
<1> QED BY <1>4, <1>5, <1>6 DEF CatalogInv

\* discover_all begins.
LEMMA AllDiscoveries ==
    ASSUME CatalogInv, NEW t \in Discoverers, NEW c
    PROVE  /\ DiscoverAll(t, c) \in [Discoverers -> [Providers -> DiscoveryStates]]
           /\ \A o \in Discoverers \ {t} : DiscoverAll(t, c)[o] = disc[o]
           /\ \A q \in Providers : DiscoverAll(t, c)[t][q].at \in {"idle", "read"}
           /\ \A q \in Automatic(c) : DiscoverAll(t, c)[t][q].at = "read"
<1> DEFINE d(p) == IF p \in Automatic(c) THEN [NoDiscovery EXCEPT !.at = "read"] ELSE NoDiscovery
           f == [p \in Providers |-> d(p)]
<1>1. disc \in [Discoverers -> [Providers -> DiscoveryStates]] BY DEF CatalogInv, Shapes
<1>2. \A p \in Providers : /\ d(p) \in DiscoveryStates
                           /\ d(p).at = IF p \in Automatic(c) THEN "read" ELSE "idle"
  BY CatalogTypes DEF NoDiscovery, DiscoveryStates
<1>3. Automatic(c) \subseteq Providers BY DEF Automatic
<1>4. DiscoverAll(t, c) = [disc EXCEPT ![t] = f] BY DEF DiscoverAll
<1> HIDE DEF d
<1>5. f \in [Providers -> DiscoveryStates] BY <1>2
<1>6. \A p \in Providers : f[p].at = IF p \in Automatic(c) THEN "read" ELSE "idle" BY <1>2
<1> HIDE DEF f
<1> QED BY <1>1, <1>3, <1>4, <1>5, <1>6

LEMMA ReloadSwapCatalogs == ASSUME IInv, CatalogInv, NEW t \in Tasks, ReloadSwap(t) PROVE CatalogInv'
<1> DEFINE u == [task[t] EXCEPT !.at = "clear"]
<1>1. task[t] \in [at : {"lock", "clear", "spawn"}, kind : {"reload"}, live : BOOLEAN]
  BY DEF ReloadSwap, IInv, Types, TaskStates, NoTask
<1>2. u.at = "clear" /\ u.live = task[t].live BY <1>1
<1>3. \A o \in Tasks : task'[o] = IF o = t THEN u ELSE task[o] BY DEF ReloadSwap, Goto, IInv, Types
<1> HIDE DEF u
<1>4. /\ UNCHANGED <<disturbances, server, cache, disc>> /\ diverged' = diverged \ {"snapshot"}
      /\ task[t].at = "lock"
  BY DEF ReloadSwap
<1>5. server # "down" BY <1>4, Runs
<1>6. (Tidy' <=> Tidy) /\ (Calm' <=> Calm) BY <1>4 DEF Tidy, Calm
<1>7. Shapes'
  <2>1. Load(file) \in Contents BY FileTypes DEF IInv, Types
  <2> QED BY <1>4, <2>1 DEF ReloadSwap, CatalogInv, Shapes
<1>8. Ended' /\ Marked' BY <1>2, <1>3, <1>4, <1>5 DEF CatalogInv, Ended, Marked
<1>9. \A p \in Providers : Clears(t, p)' BY <1>2, <1>3 DEF Clears
<1>10. Orderly'
  <2> SUFFICES ASSUME Tidy PROVE Attended' /\ Whole' /\ InStep' /\ Current' BY <1>6 DEF Orderly
  <2>1. Attended' BY <1>2, <1>3, <1>4 DEF CatalogInv, Orderly, Attended
  <2>2. Whole' BY <1>4 DEF CatalogInv, Orderly, Whole
  <2>3. \A o \in Tasks : task'[o].at # "renamed"
    BY <1>2, <1>3, Unlocked DEF ReloadSwap, Locking
  <2>4. InStep' BY <1>4, <2>3 DEF InStep
  <2>5. Current' BY <1>9 DEF Current
  <2> QED BY <2>1, <2>2, <2>4, <2>5
<1>11. Settling'
  <2> SUFFICES ASSUME Calm PROVE Single' /\ Stays' /\ Promised' BY <1>6 DEF Settling
  <2>1. \A o \in Tasks : task[o].at # "idle" => o = t BY <1>4 DEF CatalogInv, Settling, Single
  <2>2. Single' /\ Stays' BY <1>2, <1>3, <2>1 DEF Single, Stays
  <2>3. Promised' BY <1>9 DEF Promised, Awaiting, Automatic
  <2> QED BY <2>2, <2>3
<1> QED BY <1>7, <1>8, <1>10, <1>11 DEF CatalogInv

LEMMA ReloadClearCatalogs == ASSUME IInv, CatalogInv, NEW t \in Tasks, ReloadClear(t) PROVE CatalogInv'
<1> DEFINE u == IF task[t].live THEN [task[t] EXCEPT !.at = "spawn"] ELSE NoTask
<1>1. task[t] \in [at : {"lock", "clear", "spawn"}, kind : {"reload"}, live : BOOLEAN]
  BY DEF ReloadClear, IInv, Types, TaskStates, NoTask
<1>2. u.at \in {"spawn", "idle"} /\ (task[t].live => u.at = "spawn" /\ u.live) BY <1>1 DEF NoTask
<1>3. \A o \in Tasks : task'[o] = IF o = t THEN u ELSE task[o]
  BY DEF ReloadClear, Goto, Finish, IInv, Types
<1> HIDE DEF u
<1>4. UNCHANGED <<disturbances, server, snapshot, disc, diverged>> /\ task[t].at = "clear"
  BY DEF ReloadClear, store
<1>5. server # "down" BY <1>4, Runs
<1>6. (Tidy' <=> Tidy) /\ (Calm' <=> Calm) BY <1>4 DEF Tidy, Calm
<1>7. cache' = [p \in Providers |-> NoCache] BY DEF ReloadClear
<1>8. Shapes' BY <1>4, <1>7, CatalogTypes DEF CatalogInv, Shapes
<1>9. Ended' /\ Marked' BY <1>2, <1>3, <1>4, <1>5 DEF CatalogInv, Ended, Marked
<1>10. Tidy => task[t].live BY <1>4 DEF CatalogInv, Orderly, Attended
<1>11. Orderly'
  <2> SUFFICES ASSUME Tidy PROVE Attended' /\ Whole' /\ InStep' /\ Current' BY <1>6 DEF Orderly
  <2>1. Attended' BY <1>2, <1>3, <1>10 DEF CatalogInv, Orderly, Attended
  <2>2. Whole' BY <1>4 DEF CatalogInv, Orderly, Whole
  <2>3. InStep' BY <1>2, <1>3, <1>4 DEF CatalogInv, Orderly, InStep
  <2>4. Current' BY <1>7, CatalogTypes DEF Current
  <2> QED BY <2>1, <2>2, <2>3, <2>4
<1>12. Settling'
  <2> SUFFICES ASSUME Calm PROVE Single' /\ Stays' /\ Promised' BY <1>6 DEF Settling
  <2>1. Single' BY <1>3, <1>4 DEF CatalogInv, Settling, Single
  <2>2. Stays' BY <1>2, <1>3, <1>4 DEF CatalogInv, Settling, Stays
  <2>3. task'[t].at = "spawn" BY <1>2, <1>3, <1>10 DEF Calm
  <2>4. Promised' BY <2>3 DEF Promised, Awaiting
  <2> QED BY <2>1, <2>2, <2>4
<1> QED BY <1>8, <1>9, <1>11, <1>12 DEF CatalogInv

LEMMA ReloadSpawnCatalogs == ASSUME IInv, CatalogInv, NEW t \in Tasks, ReloadSpawn(t) PROVE CatalogInv'
<1>1. \A o \in Tasks : task'[o] = IF o = t THEN NoTask ELSE task[o]
  BY DEF ReloadSpawn, Finish, IInv, Types
<1>2. /\ disc' \in [Discoverers -> [Providers -> DiscoveryStates]]
      /\ \A o \in Discoverers \ {t} : disc'[o] = disc[o]
      /\ \A q \in Providers : disc'[t][q].at \in {"idle", "read"}
      /\ \A q \in Automatic(snapshot.providers) : disc'[t][q].at = "read"
  <2>1. t \in Discoverers /\ disc' = DiscoverAll(t, snapshot.providers) BY DEF ReloadSpawn, Discoverers
  <2> QED BY <2>1, AllDiscoveries
<1>3. UNCHANGED <<disturbances, server, snapshot, cache, diverged>> /\ task[t].at = "spawn"
  BY DEF ReloadSpawn, store
<1>4. server # "down" BY <1>3, Runs
<1>5. (Tidy' <=> Tidy) /\ (Calm' <=> Calm) BY <1>3 DEF Tidy, Calm
<1>6. Shapes' /\ Ended' BY <1>2, <1>3, <1>4 DEF CatalogInv, Shapes, Ended
<1>7. Marked' BY <1>1 DEF CatalogInv, Marked, NoTask
<1>8. Orderly'
  <2> SUFFICES ASSUME Tidy PROVE Attended' /\ Whole' /\ InStep' /\ Current' BY <1>5 DEF Orderly
  <2>1. Attended' BY <1>1 DEF CatalogInv, Orderly, Attended, NoTask
  <2>2. Whole' BY <1>2 DEF CatalogInv, Orderly, Whole
  <2>3. InStep' BY <1>1, <1>3 DEF CatalogInv, Orderly, InStep, NoTask
  <2>4. \A p \in Providers, o \in Tasks : Clears(o, p) => Clears(o, p)' BY <1>1, <1>3 DEF Clears
  <2>5. Current' BY <1>3, <2>4 DEF CatalogInv, Orderly, Current
  <2> QED BY <2>1, <2>2, <2>3, <2>5
<1>9. Settling'
  <2> SUFFICES ASSUME Calm PROVE Single' /\ Stays' /\ Promised' BY <1>5 DEF Settling
  <2>1. Single' BY <1>1 DEF CatalogInv, Settling, Single, NoTask
  <2>2. Stays' BY <1>1, <1>3 DEF CatalogInv, Settling, Stays, NoTask
  <2>3. Promised' BY <1>2, <1>3 DEF Promised, Awaiting, Coming, Discoverers
  <2> QED BY <2>1, <2>2, <2>3
<1> QED BY <1>6, <1>7, <1>8, <1>9 DEF CatalogInv

-----------------------------------------------------------------------------
LEMMA DiscoveryCatalogs ==
    ASSUME IInv, CatalogInv, NEW t \in Discoverers, NEW p \in Providers, DiscoveryStep(t, p)
    PROVE  CatalogInv'
<1> DEFINE e == disc[t][p]
           now == snapshot.providers[p]
<1>1. /\ e \in DiscoveryStates /\ now \in ProviderStates
      /\ cache[p] \in CacheStates
      /\ cache = [cache EXCEPT ![p] = cache[p]]
  BY CatalogTypes DEF CatalogInv, Shapes
<1>2. Tidy => Together /\ e.at \in {"idle", "read", "request"}
  BY DEF Tidy, Together, CatalogInv, Orderly, Whole
<1>3. UNCHANGED <<disturbances, server, store, snapshot, mutation, task>> /\ e.at # "idle"
  BY DEF DiscoveryStep, DiscoverRead, DiscoverMark, DiscoverStore, Answer
<1>4. ASSUME NEW d \in DiscoveryStates, NEW c \in CacheStates,
             disc' = [disc EXCEPT ![t][p] = d], cache' = [cache EXCEPT ![p] = c],
             Tidy => d.at \in {"idle", "request"},
             Tidy => c.status = "pending" \/ c.of = now \/ c = cache[p],
             Calm /\ p \in Automatic(snapshot.providers) =>
                 \/ c.status \in {"succeeded", "failed"}
                 \/ d.at = "request" /\ d.original = now
                 \/ c = cache[p] /\ ~Coming(t, p)
      PROVE  CatalogInv'
  <2>1. disc' = [disc EXCEPT ![t] = [disc[t] EXCEPT ![p] = d]] BY <1>4
  <2> QED BY <1>3, <1>4, <2>1, DiscoveryMoves
<1>5. CASE DiscoverRead(t, p)
  <2>1. CASE p \notin Automatic(snapshot.providers)
    BY <2>1, <1>1, <1>4, <1>5, CatalogTypes DEF DiscoverRead
  <2>2. CASE p \in Automatic(snapshot.providers)
    <3> DEFINE d == [e EXCEPT !.at = IF Together THEN "request" ELSE "mark", !.original = now]
               c == IF Together THEN PendingCache(now) ELSE cache[p]
    <3>1. /\ d \in DiscoveryStates /\ d.original = now
          /\ d.at = IF Together THEN "request" ELSE "mark"
      BY <1>1 DEF DiscoveryStates
    <3>2. /\ c \in CacheStates
          /\ c.status = "pending" \/ c = cache[p]
      BY <1>1 DEF PendingCache, CacheStates
    <3>3. disc' = [disc EXCEPT ![t][p] = d] BY <1>5, <2>2 DEF DiscoverRead, CatalogInv, Shapes
    <3>4. cache' = [cache EXCEPT ![p] = c] BY <1>1, <1>5, <2>2 DEF DiscoverRead
    <3> HIDE DEF d, c
    <3> QED BY <1>2, <1>4, <3>1, <3>2, <3>3, <3>4 DEF Calm
  <2> QED BY <2>1, <2>2
<1>6. CASE DiscoverMark(t, p)
  <2> DEFINE d == [e EXCEPT !.at = "request"]
             c == PendingCache(e.original)
  <2>1. d \in DiscoveryStates /\ c \in CacheStates
    BY <1>1 DEF DiscoveryStates, PendingCache, CacheStates
  <2>2. disc' = [disc EXCEPT ![t][p] = d] /\ cache' = [cache EXCEPT ![p] = c]
    BY <1>6 DEF DiscoverMark, CatalogInv, Shapes
  <2>3. ~Tidy BY <1>2, <1>6 DEF DiscoverMark
  <2> HIDE DEF d, c
  <2> QED BY <1>4, <2>1, <2>2, <2>3 DEF Calm
<1>7. ASSUME NEW ok \in BOOLEAN
      PROVE  /\ Outcome(e, ok) \in CacheStates
             /\ Outcome(e, ok).status \in {"succeeded", "failed"}
             /\ Outcome(e, ok).of = e.original
  BY <1>1 DEF Outcome, CacheStates, DiscoveryStates
<1>8. CASE DiscoverStore(t, p)
  <2>1. e.ok \in BOOLEAN BY <1>1 DEF DiscoveryStates
  <2>2. disc' = [disc EXCEPT ![t][p] = NoDiscovery] /\ cache' = [cache EXCEPT ![p] = Outcome(e, e.ok)]
    BY <1>8 DEF DiscoverStore
  <2>3. ~Tidy BY <1>2, <1>8 DEF DiscoverStore
  <2>4. Outcome(e, e.ok) \in CacheStates BY <1>7, <2>1
  <2> QED BY <1>4, <2>2, <2>3, <2>4, CatalogTypes DEF Calm
<1>9. ASSUME NEW ok \in BOOLEAN, Answer(t, p, ok) PROVE CatalogInv'
  <2>1. CASE now # e.original
    <3>1. ~Coming(t, p) BY <1>9, <2>1 DEF Coming, Answer
    <3>2. disc' = [disc EXCEPT ![t][p] = NoDiscovery] /\ cache' = [cache EXCEPT ![p] = cache[p]]
      BY <1>1, <1>9, <2>1 DEF Answer
    <3> QED BY <1>1, <1>4, <3>1, <3>2, CatalogTypes
  <2>2. CASE now = e.original /\ Together
    <3>1. disc' = [disc EXCEPT ![t][p] = NoDiscovery] /\ cache' = [cache EXCEPT ![p] = Outcome(e, ok)]
      BY <1>9, <2>2 DEF Answer
    <3>2. /\ Outcome(e, ok) \in CacheStates
          /\ Outcome(e, ok).status \in {"succeeded", "failed"} /\ Outcome(e, ok).of = now
      BY <1>7, <2>2
    <3> QED BY <1>4, <3>1, <3>2, CatalogTypes
  <2>3. CASE now = e.original /\ ~Together
    <3> DEFINE d == [e EXCEPT !.at = "store", !.ok = ok]
    <3>1. d \in DiscoveryStates BY <1>1 DEF DiscoveryStates
    <3>2. disc' = [disc EXCEPT ![t][p] = d] /\ cache' = [cache EXCEPT ![p] = cache[p]]
      BY <1>1, <1>9, <2>3 DEF Answer, CatalogInv, Shapes
    <3>3. ~Tidy BY <1>2, <2>3
    <3> HIDE DEF d
    <3> QED BY <1>1, <1>4, <3>1, <3>2, <3>3 DEF Calm
  <2> QED BY <2>1, <2>2, <2>3
<1> QED BY <1>5, <1>6, <1>8, <1>9 DEF DiscoveryStep

-----------------------------------------------------------------------------
LEMMA EditCatalogs == ASSUME IInv, CatalogInv, EditFile PROVE CatalogInv'
<1>1. ~Tidy BY DEF EditFile, Tidy
<1>2. Shapes' /\ Ended' /\ Marked' BY DEF EditFile, CatalogInv, Shapes, Ended, Marked
<1> QED BY <1>1, <1>2, NotTidy DEF EditFile

LEMMA DownCatalogs == ASSUME IInv, CatalogInv, Exit \/ Crash PROVE CatalogInv'
<1>1. /\ server' = "down" /\ Memoryless /\ UNCHANGED <<disturbances, snapshot>>
      /\ disc' = [t \in Discoverers |-> [p \in Providers |-> NoDiscovery]]
  BY DEF Exit, Crash, Discoverers
<1>2. Shapes' BY <1>1, CatalogTypes DEF Memoryless, CatalogInv, Shapes
<1>3. \A t \in Tasks : task'[t].at = "idle" BY <1>1 DEF Memoryless, NoTask
<1>4. \A t \in Discoverers, p \in Providers : disc'[t][p].at = "idle" BY <1>1, CatalogTypes
<1>5. \A p \in Providers : cache'[p].status = "none" BY <1>1, CatalogTypes DEF Memoryless
<1>6. Orderly' BY <1>1, <1>3, <1>4, <1>5 DEF Orderly, Attended, Whole, InStep, Current
<1>7. Settling' BY <1>1, <1>3 DEF Settling, Single, Stays, Promised
<1> QED BY <1>2, <1>3, <1>4, <1>5, <1>6, <1>7 DEF CatalogInv, Ended, Marked

LEMMA RestartCatalogs == ASSUME IInv, CatalogInv, Restart PROVE CatalogInv'
<1>1. /\ disc' \in [Discoverers -> [Providers -> DiscoveryStates]]
      /\ \A o \in Discoverers \ {Boot} : disc'[o] = disc[o]
      /\ \A q \in Providers : disc'[Boot][q].at \in {"idle", "read"}
      /\ \A q \in Automatic(Load(file)) : disc'[Boot][q].at = "read"
  <2>1. Boot \in Discoverers /\ disc' = DiscoverAll(Boot, Load(file)) BY DEF Restart, Discoverers
  <2> QED BY <2>1, AllDiscoveries
<1>2. \A t \in Tasks : task[t].at = "idle" BY DEF Restart, CatalogInv, Ended
<1>3. /\ UNCHANGED <<disturbances, cache, task>> /\ server' = "up"
      /\ snapshot' = [providers |-> Load(file), agents |-> TRUE]
      /\ snapshot'.providers = Load(file) /\ diverged' = diverged \ {"snapshot"}
  BY DEF Restart
<1>4. Load(file) \in Contents BY FileTypes DEF IInv, Types
<1>5. Shapes' BY <1>1, <1>3, <1>4 DEF CatalogInv, Shapes
<1>6. (Tidy' <=> Tidy) /\ (Calm' <=> Calm) BY <1>3 DEF Tidy, Calm
<1>7. Orderly'
  <2>1. Attended' /\ InStep' BY <1>2, <1>3 DEF Attended, InStep
  <2>2. Whole => Whole' BY <1>1 DEF Whole
  <2>3. Current' BY <1>3 DEF Current, CatalogInv, Ended, Restart
  <2> QED BY <2>1, <2>2, <2>3, <1>6 DEF CatalogInv, Orderly
<1>8. Settling'
  <2>1. Single' /\ Stays' BY <1>2, <1>3 DEF Single, Stays
  <2>2. Promised' BY <1>1, <1>3 DEF Promised, Awaiting, Coming, Discoverers
  <2> QED BY <2>1, <2>2 DEF Settling
<1> QED BY <1>2, <1>3, <1>5, <1>7, <1>8 DEF CatalogInv, Ended, Marked

LEMMA NextCatalogs == IInv /\ CatalogInv /\ [Next]_vars => CatalogInv'
<1> SUFFICES ASSUME IInv, CatalogInv, [Next]_vars PROVE CatalogInv' OBVIOUS
<1>1. ASSUME NEW t \in Tasks, NewRequest(t) PROVE CatalogInv'
  BY <1>1, RequestCatalogs, ReloadCatalogs, RefreshCatalogs DEF NewRequest
<1>2. ASSUME NEW t \in Tasks, TaskStep(t) PROVE CatalogInv'
  BY <1>2, ApplyCatalogs, RenameCatalogs, RefusedCatalogs, FailWriteCatalogs, PublishCatalogs,
     ForgetCatalogs, ReloadSwapCatalogs, ReloadClearCatalogs, ReloadSpawnCatalogs
     DEF TaskStep
<1>3. ASSUME NEW t \in Tasks \cup {Boot}, NEW p \in Providers, DiscoveryStep(t, p) PROVE CatalogInv'
  BY <1>3, DiscoveryCatalogs DEF Discoverers
<1>4. CASE UNCHANGED vars
  BY <1>4 DEF vars, store, CatalogInv, Shapes, Ended, Marked, Orderly, Settling, Tidy, Calm,
              Attended, Whole, InStep, Current, Clears, Single, Stays, Promised, Awaiting, Coming, Automatic
<1> QED BY <1>1, <1>2, <1>3, <1>4, DropCatalogs, EditCatalogs, DownCatalogs, RestartCatalogs DEF Next

LEMMA CatalogsHold == Spec => [](IInv /\ CatalogInv)
BY InitConfig, InitCatalogs, NextConfig, NextCatalogs, PTL DEF Spec

\* The file, the snapshot, the caches and the requests of the server have
\* their types, whatever is edited by hand.
THEOREM ConfigTypes == Spec => []TypeOK
<1>1. IInv /\ CatalogInv => TypeOK
  <2> SUFFICES ASSUME IInv, CatalogInv PROVE TypeOK OBVIOUS
  <2>1. file \in {Text(content) : content \in Contents} \cup {Missing, Broken}
    BY DEF IInv, Types, Files
  <2>2. \A t \in Tasks : task[t].at \in {"idle", "lock", "write", "renamed", "forget", "clear", "spawn"}
    BY DEF IInv, Types, TaskStates, NoTask
  <2> QED BY <2>1, <2>2 DEF IInv, Types, CatalogInv, Shapes, TypeOK, CacheStates, NoCache, ProviderStates
<1> QED BY <1>1, CatalogsHold, PTL

\* What view_for shows of a provider without a manual list.
LEMMA ViewOf ==
    ASSUME CatalogInv, NEW p \in Listed
    PROVE  /\ p \in Providers
           /\ p \notin Automatic(snapshot.providers) =>
                 View(p) = [status |-> "not_applicable", of |-> snapshot.providers[p]]
           /\ p \in Automatic(snapshot.providers) =>
                 View(p) = IF cache[p] = NoCache THEN PendingCache(Absent) ELSE cache[p]
<1>1. p \in Providers /\ snapshot.providers[p] # Absent BY DEF Listed
<1>2. p \in Automatic(snapshot.providers) <=> ~snapshot.providers[p].manual BY <1>1 DEF Automatic
<1>3. CASE snapshot.providers[p].manual BY <1>1, <1>2, <1>3, Zenon DEF View
<1>4. CASE ~snapshot.providers[p].manual /\ cache[p] = NoCache BY <1>1, <1>2, <1>4, Zenon DEF View
<1>5. CASE ~snapshot.providers[p].manual /\ cache[p] # NoCache BY <1>1, <1>2, <1>5, Zenon DEF View
<1> QED BY <1>3, <1>4, <1>5

\* No discovery that was overtaken by an update, a deletion, a reload or a
\* crash leaves the catalog of another configuration behind, for any number
\* of providers and of requests that overlap.
THEOREM CatalogsFresh == Spec => []CatalogFresh
<1>1. CatalogInv => CatalogFresh
  <2> SUFFICES ASSUME CatalogInv, Tidy, Quiet, NEW p \in Listed, View(p).status # "pending"
               PROVE  View(p).of = snapshot.providers[p]
    BY DEF CatalogFresh
  <2>1. \A t \in Tasks : ~Clears(t, p) BY DEF Quiet, Idle, Clears
  <2>2. CASE p \notin Automatic(snapshot.providers) BY <2>2, ViewOf
  <2>3. CASE p \in Automatic(snapshot.providers)
    <3>1. PendingCache(Absent).status = "pending" BY DEF PendingCache
    <3>2. View(p) = cache[p] /\ cache[p] # NoCache /\ p \in Providers BY <2>3, <3>1, ViewOf
    <3>3. cache[p] \in CacheStates BY <3>2 DEF CatalogInv, Shapes
    <3>5. CASE cache[p].status \in {"succeeded", "failed"}
      BY <2>1, <3>2, <3>5 DEF CatalogInv, Orderly, Current
    <3> QED BY <3>2, <3>3, <3>5 DEF CacheStates
  <2> QED BY <2>2, <2>3
<1> QED BY <1>1, CatalogsHold, PTL

\* Without overlapping requests every provider has a result once the server
\* is at rest: no order of discoveries, changes, reloads and crashes leaves
\* one pending.
THEOREM CatalogsSettle == Spec => []CatalogSettled
<1>1. CatalogInv => CatalogSettled
  <2> SUFFICES ASSUME CatalogInv, Tidy, "overlap" \notin disturbances, server = "up", Quiet,
                      ~Discovering(Boot), NEW p \in Listed
               PROVE  View(p).status # "pending"
    BY DEF CatalogSettled
  <2>1. CASE p \notin Automatic(snapshot.providers) BY <2>1, ViewOf
  <2>2. CASE p \in Automatic(snapshot.providers)
    <3>1. p \in Providers BY ViewOf
    <3>2. \A t \in Discoverers : disc[t][p].at = "idle"
      BY <3>1 DEF Quiet, Idle, Discovering, Discoverers
    <3>3. ~Awaiting(p) BY <3>2 DEF Awaiting, Coming, Clears, Quiet, Idle
    <3>4. cache[p].status \in {"succeeded", "failed"}
      BY <2>2, <3>3 DEF CatalogInv, Settling, Calm, Promised
    <3>5. cache[p] # NoCache BY <3>4, CatalogTypes
    <3> QED BY <2>2, <3>4, <3>5, ViewOf
  <2> QED BY <2>1, <2>2
<1> QED BY <1>1, CatalogsHold, PTL
=============================================================================
