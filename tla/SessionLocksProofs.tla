-------------------------- MODULE SessionLocksProofs -------------------------
(* Proofs about SessionLocks, for any number of tasks.                     *)
EXTENDS SessionLocks, FiniteSetTheorems, TLAPS

IInv == TypeOK /\ CompetesForEntry /\ MutualExclusion

\* With a strong count of two, one for the map and one for the releasing
\* task, no other task holds the lock.
LEMMA SoleHolder ==
    ASSUME NEW t \in Tasks, ref[t] = entry, StrongCount(ref[t]) = 2
    PROVE  Holders(entry) = {t}
<1>1. IsFiniteSet(Holders(entry))
  <2>1. Holders(entry) \subseteq Tasks BY DEF Holders
  <2> QED BY <2>1, SessionLocksAssumption, FS_Subset
<1>2. Cardinality(Holders(entry)) \in Nat BY <1>1, FS_CardinalityType
<1>3. Cardinality(Holders(entry)) = 1
    BY <1>2 DEF StrongCount
<1>4. PICK u : Holders(entry) = {u} BY <1>1, <1>3, FS_Singleton
<1>5. t \in Holders(entry) BY DEF Holders
<1> QED BY <1>4, <1>5

LEMMA InitLocks == Init => IInv
BY DEF Init, IInv, TypeOK, CompetesForEntry, MutualExclusion, Holding

LEMMA LocksTyped == TypeOK /\ [Next]_vars => TypeOK'
<1> SUFFICES ASSUME TypeOK, [Next]_vars PROVE TypeOK' OBVIOUS
<1> USE SessionLocksAssumption DEF TypeOK, Holding
<1>1. ASSUME NEW t \in Tasks, Fetch(t) PROVE TypeOK' BY <1>1 DEF Fetch
<1>2. ASSUME NEW t \in Tasks, Acquire(t) PROVE TypeOK' BY <1>2 DEF Acquire
<1>3. ASSUME NEW t \in Tasks, Leave(t) PROVE TypeOK' BY <1>3 DEF Leave
<1>4. ASSUME NEW t \in Tasks, ReleaseSessionLock(t) PROVE TypeOK'
    BY <1>4 DEF ReleaseSessionLock
<1>5. ASSUME NEW t \in Tasks, DropArc(t) PROVE TypeOK' BY <1>5 DEF DropArc
<1>6. ASSUME NEW t \in Tasks, Abort(t) PROVE TypeOK' BY <1>6 DEF Abort
<1>7. CASE UNCHANGED vars BY <1>7 DEF vars
<1> QED BY <1>1, <1>2, <1>3, <1>4, <1>5, <1>6, <1>7 DEF Next

\* The entry is only removed when nobody else competes for it, so whoever
\* still competes does so with the mutex that is in the map.
LEMMA CompetitorsAgree == IInv /\ [Next]_vars => CompetesForEntry'
<1> SUFFICES ASSUME IInv, [Next]_vars PROVE CompetesForEntry' OBVIOUS
<1> USE SessionLocksAssumption DEF IInv, TypeOK, Holding, CompetesForEntry
<1>1. ASSUME NEW t \in Tasks, Fetch(t) PROVE CompetesForEntry'
  <2>1. entry' # NoLock /\ (entry # NoLock => entry' = entry) BY <1>1 DEF Fetch
  <2>2. ASSUME NEW u \in Tasks, pc'[u] \in Holding PROVE ref'[u] = entry'
    <3>1. CASE u = t BY <1>1, <3>1 DEF Fetch
    <3>2. CASE u # t
      <4>1. pc[u] \in Holding /\ ref'[u] = ref[u] BY <1>1, <3>2, <2>2 DEF Fetch
      <4> QED BY <4>1, <2>1
    <3> QED BY <3>1, <3>2
  <2>3. ASSUME NEW u \in Tasks, pc'[u] = "idle" PROVE ref'[u] = NoLock
    BY <1>1, <2>3 DEF Fetch
  <2> QED BY <2>1, <2>2, <2>3
<1>2. ASSUME NEW t \in Tasks, Acquire(t) PROVE CompetesForEntry' BY <1>2 DEF Acquire
<1>3. ASSUME NEW t \in Tasks, Leave(t) PROVE CompetesForEntry' BY <1>3 DEF Leave
<1>4. ASSUME NEW t \in Tasks, ReleaseSessionLock(t) PROVE CompetesForEntry'
  <2>1. CASE StrongCount(ref[t]) = 2 /\ entry = ref[t]
    <3>1. Holders(entry) = {t} BY <2>1, SoleHolder
    <3>2. \A u \in Tasks : u # t => pc[u] \notin Holding
        BY <3>1 DEF Holders
    <3> QED BY <1>4, <3>2 DEF ReleaseSessionLock
  <2>2. CASE ~(StrongCount(ref[t]) = 2 /\ entry = ref[t])
    <3>1. entry' = entry BY <1>4, <2>2 DEF ReleaseSessionLock
    <3> QED BY <1>4, <3>1 DEF ReleaseSessionLock
  <2> QED BY <2>1, <2>2
<1>5. ASSUME NEW t \in Tasks, DropArc(t) PROVE CompetesForEntry' BY <1>5 DEF DropArc
<1>6. ASSUME NEW t \in Tasks, Abort(t) PROVE CompetesForEntry' BY <1>6 DEF Abort
<1>7. CASE UNCHANGED vars BY <1>7 DEF vars
<1> QED BY <1>1, <1>2, <1>3, <1>4, <1>5, <1>6, <1>7 DEF Next

\* Only Acquire makes a task critical, and it finds no other task critical
\* with the same mutex, which is the only one in use.
LEMMA LocksExclude == IInv /\ [Next]_vars => MutualExclusion'
<1> SUFFICES ASSUME IInv, [Next]_vars PROVE MutualExclusion' OBVIOUS
<1> USE DEF IInv, TypeOK, MutualExclusion
<1>1. ASSUME NEW t \in Tasks, Acquire(t) PROVE MutualExclusion'
  <2>1. \A u \in Tasks : pc[u] = "critical" => ref[u] = entry
      BY DEF CompetesForEntry, Holding
  <2>2. ref[t] = entry BY <1>1 DEF Acquire, CompetesForEntry, Holding
  <2>3. \A u \in Tasks : pc[u] # "critical" BY <1>1, <2>1, <2>2 DEF Acquire
  <2> QED BY <1>1, <2>3 DEF Acquire
<1>2. ASSUME NEW t \in Tasks,
             Fetch(t) \/ Leave(t) \/ ReleaseSessionLock(t) \/ DropArc(t) \/ Abort(t)
      PROVE  MutualExclusion'
  <2>1. \A u \in Tasks : pc'[u] = "critical" => pc[u] = "critical"
      BY <1>2 DEF Fetch, Leave, ReleaseSessionLock, DropArc, Abort
  <2> QED BY <2>1
<1>3. CASE UNCHANGED vars BY <1>3 DEF vars
<1> QED BY <1>1, <1>2, <1>3 DEF Next

\* Type correctness of the lock map.
THEOREM LocksTypeCorrect == Spec => []TypeOK
<1>1. Init => TypeOK BY InitLocks DEF IInv
<1> QED BY <1>1, LocksTyped, PTL DEF Spec

\* process_session and submit_tool_result never work on one session at the
\* same time, although release_session_lock takes the mutex out of the map.
THEOREM SessionExclusion == Spec => []MutualExclusion
<1>1. IInv /\ [Next]_vars => IInv'
    BY LocksTyped, CompetitorsAgree, LocksExclude DEF IInv
<1>2. IInv => MutualExclusion BY DEF IInv
<1> QED BY InitLocks, <1>1, <1>2, PTL DEF Spec
=============================================================================
