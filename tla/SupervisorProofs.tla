--------------------------- MODULE SupervisorProofs ---------------------------
(***************************************************************************)
(* Proofs about Supervisor, for any sessions, runs and handlers and in     *)
(* every scenario: its type invariant, OneActiveRun, EndedForGood, the     *)
(* admission counters, RunningIsWorked, RecoveryComplete,                  *)
(* ShutdownInterruptsAll and SlotsAccounted.                               *)
(*                                                                         *)
(* There are four layers of inductive invariant.  Inv says in which state  *)
(* a worker, a handler, a deletion and a visit may be at each of their     *)
(* awaits: which run they carry, which events they hold back, that only    *)
(* the worker of a session ever starts a run, and that no run is active    *)
(* while it is about to.  Work adds who has the run that is running, and   *)
(* how the next start will find it if nobody has.  Closing adds what the   *)
(* shutdown has ended, if no request was in flight when it began.  Slotted *)
(* adds to Inv who will give a slot back.                                  *)
(***************************************************************************)
EXTENDS Supervisor, ReplayLemmas, FiniteSetTheorems

\* What is appended by anyone but StartRun.
QuietEvents == {e \in SupervisorEvents : e.type # "run_started"}

\* What handlers and a deletion append, and what the shutdown does.
RequestEvents == {e \in QuietEvents : e.type \in {"run_queued", "queue_resumed", "run_ended"}}
ClosingEvents == {e \in QuietEvents : e.type \in {"run_ended", "phase_changed"}}

Readable == {p \in Projections : p.phase # "corrupt"}

Ended == Terminal \cup {"requires_action"}

WorkerStates ==
    [at : {"idle", "loop", "empty"}, run : {0}, out : {Nil}]
    \cup [at : {"phase", "start"}, run : Runs, out : Phases]
    \cup [at : {"permit", "open", "stream"}, run : Runs, out : {Nil}]
    \cup [at : {"message", "turn"}, run : Runs, out : Ended]
    \cup [at : {"end", "release"}, run : Runs, out : Terminal]

ReqStates ==
    {NoReq}
    \cup [at : {"append"}, session : Sessions, run : Runs, events : Seq(RequestEvents)]
    \cup [at : {"append"}, session : Sessions, events : Seq(RequestEvents)]
    \cup [at : {"spawn"}, session : Sessions]
    \cup [at : {"cancel"}, session : Sessions, run : Runs]
    \cup [at : {"release"}, run : Runs]

DeletionStates ==
    [at : {"none", "cancel", "wait", "abandoned"}, todo : SUBSET ProjectSessions,
     session : {Nil}, events : {<<>>}]
    \cup [at : {"append"}, todo : SUBSET ProjectSessions, session : Sessions,
          events : Seq(RequestEvents)]

Visits == {NoVisit} \cup [session : Sessions, events : Seq(ClosingEvents)]

ServerOK == server \in {"up", "down", "recovering"} \cup Stopping /\ todo \subseteq Sessions
RemovalOK == gone \subseteq ProjectSessions /\ deletion \in DeletionStates
VisitOK == visit \in Visits
ProjOK == proj \in [Sessions -> Readable]
WorkerOK == worker \in [Sessions -> WorkerStates]
WaitingOK == waiting \in [Sessions -> Nat]
TokenOK == token \in [Runs -> {"none", "live", "cancelled"}]
ReqOK == req \in [Handlers -> ReqStates]
SlotsOK == Slots!TypeOK /\ Slots!CountersExact /\ Slots!WithinLimits

\* At most one run of a session is active, and none while its worker is
\* about to start one.
AtMostOne ==
    \A s \in Sessions :
        /\ \A r, o \in ActiveRuns(proj[s]) : r = o
        /\ worker[s].at \in {"phase", "start"} => ActiveRuns(proj[s]) = {}

Inv ==
    /\ ServerOK /\ RemovalOK /\ VisitOK /\ ProjOK /\ WorkerOK /\ WaitingOK
    /\ TokenOK /\ ReqOK /\ SlotsOK /\ AtMostOne

-----------------------------------------------------------------------------
(* The runs of a set in order.                                              *)

LEMMA SortedEnumeration ==
    ASSUME NEW A \in SUBSET Nat, IsFiniteSet(A)
    PROVE  \E q \in [1..Cardinality(A) -> A] : \A i, j \in DOMAIN q : i < j => q[i] < q[j]
<1> DEFINE Sorted(q) == \A i, j \in DOMAIN q : i < j => q[i] < q[j]
           T == {n \in Nat : \A B \in SUBSET Nat :
                    IsFiniteSet(B) /\ Cardinality(B) = n => \E q \in [1..n -> B] : Sorted(q)}
<1>1. 0 \in T
  <2> SUFFICES ASSUME NEW B \in SUBSET Nat PROVE \E q \in [1..0 -> B] : Sorted(q) OBVIOUS
  <2>1. [i \in 1..0 |-> i] \in [1..0 -> B] /\ Sorted([i \in 1..0 |-> i]) OBVIOUS
  <2> QED BY <2>1
<1>2. ASSUME NEW n \in T PROVE n + 1 \in T
  <2>0. n \in Nat OBVIOUS
  <2> SUFFICES ASSUME NEW B \in SUBSET Nat, IsFiniteSet(B), Cardinality(B) = n + 1
               PROVE  \E q \in [1..(n + 1) -> B] : Sorted(q)
    BY <2>0
  <2>1. B # {} BY <2>0, FS_EmptySet
  <2>2. PICK m \in B : \A y \in B : m <= y BY <2>1, NatLeast
  <2>3. IsFiniteSet(B \ {m}) /\ Cardinality(B \ {m}) = n BY <2>0, FS_RemoveElement
  <2>4. PICK q \in [1..n -> B \ {m}] : Sorted(q) BY <2>3
  <2> DEFINE g == [i \in 1..(n + 1) |-> IF i = 1 THEN m ELSE q[i - 1]]
  <2>5. \A i \in 1..(n + 1) : i = 1 \/ i - 1 \in 1..n BY <2>0
  <2>6. g \in [1..(n + 1) -> B] BY <2>4, <2>5
  <2>7. ASSUME NEW i \in 1..(n + 1), NEW j \in 1..(n + 1), i < j PROVE g[i] < g[j]
    <3>1. j # 1 /\ j - 1 \in 1..n /\ g[j] = q[j - 1] BY <2>0, <2>7
    <3>2. q[j - 1] \in B \ {m} BY <2>4, <3>1
    <3>3. CASE i = 1
      <4>1. g[i] = m BY <3>3
      <4>2. m <= q[j - 1] /\ m # q[j - 1] /\ m \in Nat /\ q[j - 1] \in Nat BY <2>2, <3>2
      <4> QED BY <3>1, <4>1, <4>2
    <3>4. CASE i # 1
      <4>1. i - 1 \in 1..n /\ g[i] = q[i - 1] /\ i - 1 < j - 1 BY <2>0, <2>7, <3>4
      <4>2. DOMAIN q = 1..n BY <2>4
      <4>3. q[i - 1] < q[j - 1] BY <2>4, <3>1, <4>1, <4>2
      <4> QED BY <3>1, <4>1, <4>3
    <3> QED BY <3>3, <3>4
  <2>8. Sorted(g) BY <2>7
  <2> HIDE DEF g
  <2> QED BY <2>6, <2>8
<1> HIDE DEF T
<1>3. T \subseteq Nat BY DEF T
<1>4. T = Nat BY <1>1, <1>2, <1>3, NatSetInduction
<1>5. Cardinality(A) \in Nat BY FS_CardinalityType
<1> QED BY <1>4, <1>5 DEF T

LEMMA RunsFinite == IsFiniteSet(Runs)
<1>1. \A S : Slots!IsFiniteSet(S) <=> IsFiniteSet(S) BY DEF Slots!IsFiniteSet, IsFiniteSet
<1> QED BY <1>1, SlotsAssumption DEF Slots!AdmissionAssumption

LEMMA InOrderType ==
    ASSUME NEW A \in SUBSET Runs
    PROVE  Cardinality(A) \in Nat /\ InOrder(A) \in [1..Cardinality(A) -> A]
<1>1. A \in SUBSET Nat BY IdsAreOrdered
<1>2. IsFiniteSet(A) BY RunsFinite, FS_Subset
<1>3. Cardinality(A) \in Nat BY <1>2, FS_CardinalityType
<1>4. \E q \in [1..Cardinality(A) -> A] : \A i, j \in DOMAIN q : i < j => q[i] < q[j]
  BY <1>1, <1>2, SortedEnumeration
<1> QED BY <1>3, <1>4 DEF InOrder

-----------------------------------------------------------------------------
(* Events.                                                                  *)

LEMMA EventsAre ==
    /\ SessionInterrupted \in QuietEvents /\ QueueResumed \in QuietEvents
    /\ \A from, to \in Phases : PhaseChanged(from, to) \in QuietEvents
    /\ \A r \in Runs :
          /\ \A b \in BOOLEAN : RunQueued(r, b) \in QuietEvents
          /\ \A n \in Nat : RunAttemptStarted(r, n) \in QuietEvents
          /\ RunRequiresAction(r) \in QuietEvents
          /\ \A out \in Terminal : RunEnded(r, out) \in QuietEvents
          /\ \A c \in Calls : ToolCallEmitted(r, c, FALSE) \in QuietEvents
    /\ \A m \in Messages :
          /\ MessageStarted(m, "assistant") \in QuietEvents
          /\ \A st \in {"completed", "interrupted"} : MessageClosed(m, st) \in QuietEvents
<1> USE DEF QuietEvents, SupervisorEvents
<1>1. SessionInterrupted \in QuietEvents /\ QueueResumed \in QuietEvents
  BY DEF SessionInterrupted, QueueResumed, PhaseEvents
<1>2. \A from, to \in Phases : PhaseChanged(from, to) \in QuietEvents
  BY DEF PhaseChanged, PhaseEvents
<1>3. ASSUME NEW r \in Runs
      PROVE  /\ \A b \in BOOLEAN : RunQueued(r, b) \in QuietEvents
             /\ \A n \in Nat : RunAttemptStarted(r, n) \in QuietEvents
             /\ RunRequiresAction(r) \in QuietEvents
             /\ \A out \in Terminal : RunEnded(r, out) \in QuietEvents
             /\ \A c \in Calls : ToolCallEmitted(r, c, FALSE) \in QuietEvents
  <2>1. \A b \in BOOLEAN : RunQueued(r, b) \in QuietEvents BY DEF RunQueued, RunEvents
  <2>2. \A n \in Nat : RunAttemptStarted(r, n) \in QuietEvents BY DEF RunAttemptStarted, RunEvents
  <2>3. RunRequiresAction(r) \in QuietEvents BY DEF RunRequiresAction, RunEvents
  <2>4. \A out \in Terminal : RunEnded(r, out) \in QuietEvents BY DEF RunEnded, RunEvents
  <2>5. \A c \in Calls : ToolCallEmitted(r, c, FALSE) \in QuietEvents
    BY DEF ToolCallEmitted, RunEvents
  <2> QED BY <2>1, <2>2, <2>3, <2>4, <2>5
<1>4. ASSUME NEW m \in Messages
      PROVE  /\ MessageStarted(m, "assistant") \in QuietEvents
             /\ \A st \in {"completed", "interrupted"} : MessageClosed(m, st) \in QuietEvents
  BY DEF MessageStarted, MessageClosed, MessageEvents
<1> QED BY <1>1, <1>2, <1>3, <1>4

LEMMA OneEvent == ASSUME NEW S, NEW e \in S PROVE <<e>> \in Seq(S)
OBVIOUS

LEMMA RequestEventsAre ==
    /\ QueueResumed \in RequestEvents
    /\ \A r \in Runs :
          /\ \A b \in BOOLEAN : RunQueued(r, b) \in RequestEvents
          /\ \A out \in Terminal : RunEnded(r, out) \in RequestEvents \cap ClosingEvents
    /\ \A from, to \in Phases : PhaseChanged(from, to) \in ClosingEvents
<1> USE EventsAre DEF RequestEvents, ClosingEvents
<1>1. QueueResumed \in RequestEvents BY DEF QueueResumed
<1>2. ASSUME NEW r \in Runs, NEW b \in BOOLEAN PROVE RunQueued(r, b) \in RequestEvents
  BY DEF RunQueued
<1>3. ASSUME NEW r \in Runs, NEW out \in Terminal
      PROVE  RunEnded(r, out) \in RequestEvents \cap ClosingEvents
  BY DEF RunEnded
<1>4. ASSUME NEW from \in Phases, NEW to \in Phases
      PROVE  PhaseChanged(from, to) \in ClosingEvents
  BY DEF PhaseChanged
<1> QED BY <1>1, <1>2, <1>3, <1>4

LEMMA QuietSeqs ==
    Seq(RequestEvents) \subseteq Seq(QuietEvents) /\ Seq(ClosingEvents) \subseteq Seq(QuietEvents)
<1>1. RequestEvents \subseteq QuietEvents /\ ClosingEvents \subseteq QuietEvents
  BY DEF RequestEvents, ClosingEvents
<1> QED BY <1>1

\* RunEnded for every run of a set, in order.
LEMMA EndAll ==
    ASSUME NEW A \in SUBSET Runs, NEW out \in Terminal
    PROVE  [i \in DOMAIN InOrder(A) |-> RunEnded(InOrder(A)[i], out)]
               \in Seq(RequestEvents) \cap Seq(ClosingEvents)
<1>1. PICK n \in Nat : n = Cardinality(A) BY InOrderType
<1>2. PICK q : q = InOrder(A) /\ q \in [1..n -> A] BY <1>1, InOrderType
<1>3. PICK b : b = [i \in 1..n |-> RunEnded(q[i], out)] OBVIOUS
<1>4. b \in [1..n -> RequestEvents] /\ b \in [1..n -> ClosingEvents]
  <2>1. \A i \in 1..n : q[i] \in Runs BY <1>2
  <2> QED BY <2>1, <1>3, RequestEventsAre
<1>5. DOMAIN q = 1..n BY <1>2
<1>6. \A S : [1..n -> S] \subseteq Seq(S) BY SeqDef
<1>7. b \in Seq(RequestEvents) /\ b \in Seq(ClosingEvents) BY <1>4, <1>6
<1> QED BY <1>2, <1>3, <1>5, <1>7

-----------------------------------------------------------------------------
(* Admission: the counters of the slots that Supervisor keeps.              *)

LEMMA SlotCounts ==
    /\ \A S : Slots!Cardinality(S) = Cardinality(S)
    /\ \A S : Slots!IsFiniteSet(S) <=> IsFiniteSet(S)
<1>1. \A S : Slots!Cardinality(S) = Cardinality(S) BY DEF Slots!Cardinality, Cardinality
<1>2. \A S : Slots!IsFiniteSet(S) <=> IsFiniteSet(S) BY DEF Slots!IsFiniteSet, IsFiniteSet
<1> QED BY <1>1, <1>2

SlotsCounted ==
    /\ pending = Cardinality(Slots!Owned)
    /\ \A s \in Sessions : load[s] = Cardinality(Slots!OwnedBy(s))

SlotsLimited ==
    /\ Cardinality(Slots!Owned) <= MaxPending
    /\ \A s \in Sessions : Cardinality(Slots!OwnedBy(s)) <= MaxPerSession

LEMMA SlotsMeaning ==
    /\ SlotsOK <=> Slots!TypeOK /\ SlotsCounted /\ SlotsLimited
    /\ SlotsOK' <=> Slots!TypeOK' /\ SlotsCounted' /\ SlotsLimited'
<1> USE DEF SlotsOK, Slots!CountersExact, Slots!WithinLimits, SlotsCounted, SlotsLimited
<1>1. SlotsOK <=> Slots!TypeOK /\ SlotsCounted /\ SlotsLimited BY SlotCounts
<1>2. SlotsOK' <=> Slots!TypeOK' /\ SlotsCounted' /\ SlotsLimited' BY SlotCounts
<1> QED BY <1>1, <1>2

\* The sets that are counted are finite.
LEMMA SlotsFinite ==
    /\ IsFiniteSet(Slots!Owned)
    /\ \A s \in Sessions : IsFiniteSet(Slots!OwnedBy(s))
<1>1. IsFiniteSet(Runs) BY SlotsAssumption, SlotCounts DEF Slots!AdmissionAssumption
<1>2. Slots!Owned \subseteq Runs BY DEF Slots!Owned
<1>3. \A s \in Sessions : Slots!OwnedBy(s) \subseteq Runs BY DEF Slots!OwnedBy
<1> QED BY <1>1, <1>2, <1>3, FS_Subset

LEMMA SlotsInit == Slots!Init => SlotsOK
<1> SUFFICES ASSUME Slots!Init PROVE SlotsOK OBVIOUS
<1> USE SlotsAssumption DEF Slots!AdmissionAssumption
<1>1. Slots!TypeOK BY DEF Slots!Init, Slots!TypeOK
<1>2. Slots!Owned = {} BY DEF Slots!Init, Slots!Owned
<1>3. \A s \in Sessions : Slots!OwnedBy(s) = {} BY DEF Slots!Init, Slots!OwnedBy
<1>4. SlotsCounted BY <1>2, <1>3, FS_EmptySet DEF SlotsCounted, Slots!Init
<1>5. SlotsLimited BY <1>2, <1>3, FS_EmptySet DEF SlotsLimited
<1> QED BY <1>1, <1>4, <1>5, SlotsMeaning

\* A reservation adds the run to the set of its session only.
LEMMA SlotsReserve ==
    ASSUME SlotsOK, NEW s \in Sessions, NEW r \in Runs, owner[r] = Slots!NoSession,
           Slots!Reserve(s, r)
    PROVE  SlotsOK'
<1>a. Slots!TypeOK /\ SlotsCounted /\ SlotsLimited BY SlotsMeaning
<1>b. /\ Slots!IsFiniteSet(Runs) /\ MaxPending \in Nat /\ MaxPerSession \in Nat
      /\ Slots!NoSession \notin Sessions
  BY SlotsAssumption DEF Slots!AdmissionAssumption
<1>c. IsFiniteSet(Runs) BY <1>b, SlotCounts
<1> USE <1>a, <1>b, <1>c
<1>1. Slots!TypeOK' BY DEF Slots!TypeOK, Slots!Reserve, Slots!CanReserve
<1>2. Slots!Owned' = Slots!Owned \cup {r} /\ r \notin Slots!Owned
    BY DEF Slots!Owned, Slots!Reserve, Slots!TypeOK
<1>3. Slots!OwnedBy(s)' = Slots!OwnedBy(s) \cup {r} /\ r \notin Slots!OwnedBy(s)
    BY DEF Slots!OwnedBy, Slots!Reserve, Slots!TypeOK
<1>4. \A o \in Sessions \ {s} : Slots!OwnedBy(o)' = Slots!OwnedBy(o)
    BY DEF Slots!OwnedBy, Slots!Reserve, Slots!TypeOK
<1>5. Cardinality(Slots!Owned') = Cardinality(Slots!Owned) + 1
    BY <1>2, SlotsFinite, FS_AddElement
<1>6. Cardinality(Slots!OwnedBy(s)') = Cardinality(Slots!OwnedBy(s)) + 1
    BY <1>3, SlotsFinite, FS_AddElement
<1>7. SlotsCounted'
  <2>1. pending' = Cardinality(Slots!Owned')
    BY <1>5 DEF SlotsCounted, Slots!Reserve
  <2>2. ASSUME NEW o \in Sessions PROVE load'[o] = Cardinality(Slots!OwnedBy(o)')
    <3>1. CASE o = s BY <3>1, <1>6 DEF SlotsCounted, Slots!Reserve, Slots!TypeOK
    <3>2. CASE o # s BY <3>2, <1>4 DEF SlotsCounted, Slots!Reserve, Slots!TypeOK
    <3> QED BY <3>1, <3>2
  <2> QED BY <2>1, <2>2 DEF SlotsCounted
<1>8. SlotsLimited'
  <2>1. Cardinality(Slots!Owned') <= MaxPending
    BY <1>5 DEF SlotsCounted, Slots!Reserve, Slots!CanReserve, Slots!TypeOK
  <2>2. ASSUME NEW o \in Sessions PROVE Cardinality(Slots!OwnedBy(o)') <= MaxPerSession
    <3>1. CASE o = s
      BY <3>1, <1>6 DEF SlotsCounted, Slots!Reserve, Slots!CanReserve, Slots!TypeOK
    <3>2. CASE o # s BY <3>2, <1>4 DEF SlotsLimited
    <3> QED BY <3>1, <3>2
  <2> QED BY <2>1, <2>2 DEF SlotsLimited
<1> QED BY <1>1, <1>7, <1>8, SlotsMeaning

LEMMA SlotsKept == ASSUME SlotsOK, UNCHANGED slots PROVE SlotsOK'
BY DEF SlotsOK, slots, Slots!TypeOK, Slots!CountersExact, Slots!WithinLimits, Slots!Owned,
       Slots!OwnedBy

\* A release takes the run out of the set of its session, which held it: the
\* counters were positive.
LEMMA SlotsReleaseHeld ==
    ASSUME SlotsOK, NEW r \in Runs, owner[r] # Slots!NoSession, Slots!Release(r)
    PROVE  SlotsOK'
<1>a. Slots!TypeOK /\ SlotsCounted /\ SlotsLimited BY SlotsMeaning
<1>b. /\ Slots!IsFiniteSet(Runs) /\ MaxPending \in Nat /\ MaxPerSession \in Nat
      /\ Slots!NoSession \notin Sessions
  BY SlotsAssumption DEF Slots!AdmissionAssumption
<1>c. IsFiniteSet(Runs) BY <1>b, SlotCounts
<1> USE <1>a, <1>b, <1>c
<1>0. PICK s \in Sessions : owner[r] = s BY DEF Slots!TypeOK
<1>1. Slots!TypeOK' BY <1>0 DEF Slots!TypeOK, Slots!Release, Slots!SaturatingSub
<1>2. Slots!Owned' = Slots!Owned \ {r} /\ r \in Slots!Owned
    BY DEF Slots!Owned, Slots!Release, Slots!TypeOK
<1>3. Slots!OwnedBy(s)' = Slots!OwnedBy(s) \ {r} /\ r \in Slots!OwnedBy(s)
    BY <1>0 DEF Slots!OwnedBy, Slots!Release, Slots!TypeOK
<1>4. \A o \in Sessions \ {s} : Slots!OwnedBy(o)' = Slots!OwnedBy(o)
    BY <1>0 DEF Slots!OwnedBy, Slots!Release, Slots!TypeOK
<1>5. Cardinality(Slots!Owned') = Cardinality(Slots!Owned) - 1 /\ Cardinality(Slots!Owned) \in Nat
    BY <1>2, SlotsFinite, FS_RemoveElement, FS_CardinalityType
<1>6. /\ Cardinality(Slots!OwnedBy(s)') = Cardinality(Slots!OwnedBy(s)) - 1
      /\ Cardinality(Slots!OwnedBy(s)) \in Nat
    BY <1>3, SlotsFinite, FS_RemoveElement, FS_CardinalityType
<1>7. Cardinality(Slots!Owned) # 0 /\ Cardinality(Slots!OwnedBy(s)) # 0
    BY <1>2, <1>3, SlotsFinite, FS_EmptySet
<1>8. SlotsCounted'
  <2>1. pending' = Cardinality(Slots!Owned')
    BY <1>5, <1>7 DEF SlotsCounted, Slots!Release, Slots!SaturatingSub
  <2>2. ASSUME NEW o \in Sessions PROVE load'[o] = Cardinality(Slots!OwnedBy(o)')
    <3>1. CASE o = s
      BY <3>1, <1>0, <1>6, <1>7 DEF SlotsCounted, Slots!Release, Slots!SaturatingSub, Slots!TypeOK
    <3>2. CASE o # s
      BY <3>2, <1>0, <1>4 DEF SlotsCounted, Slots!Release, Slots!TypeOK
    <3> QED BY <3>1, <3>2
  <2> QED BY <2>1, <2>2 DEF SlotsCounted
<1>9. SlotsLimited'
  <2>1. Cardinality(Slots!Owned') <= MaxPending
    BY <1>5 DEF SlotsLimited
  <2>2. ASSUME NEW o \in Sessions PROVE Cardinality(Slots!OwnedBy(o)') <= MaxPerSession
    <3>1. CASE o = s BY <3>1, <1>6 DEF SlotsLimited
    <3>2. CASE o # s BY <3>2, <1>4 DEF SlotsLimited
    <3> QED BY <3>1, <3>2
  <2> QED BY <2>1, <2>2 DEF SlotsLimited
<1> QED BY <1>1, <1>8, <1>9, SlotsMeaning

LEMMA SlotsRelease ==
    ASSUME SlotsOK, NEW r \in Runs, Slots!Release(r)
    PROVE  SlotsOK'
<1>1. CASE owner[r] = Slots!NoSession
  <2>1. UNCHANGED slots BY <1>1 DEF Slots!Release, Slots!slots, slots
  <2> QED BY <2>1, SlotsKept
<1>2. CASE owner[r] # Slots!NoSession BY <1>2, SlotsReleaseHeld
<1> QED BY <1>1, <1>2

\* A release of several runs takes out of every session's set those it held.
LEMMA SlotsReleaseAll ==
    ASSUME SlotsOK, NEW runs \in SUBSET Runs, Slots!ReleaseAll(runs)
    PROVE  SlotsOK'
<1>a. Slots!TypeOK /\ SlotsCounted /\ SlotsLimited BY SlotsMeaning
<1>b. /\ Slots!IsFiniteSet(Runs) /\ MaxPending \in Nat /\ MaxPerSession \in Nat
      /\ Slots!NoSession \notin Sessions
  BY SlotsAssumption DEF Slots!AdmissionAssumption
<1>c. IsFiniteSet(Runs) BY <1>b, SlotCounts
<1> USE <1>a, <1>b, <1>c
<1>0. \A m, n \in Nat : Slots!SaturatingSub(m, n) \in Nat /\ (n <= m => Slots!SaturatingSub(m, n) = m - n)
    BY DEF Slots!SaturatingSub
<1>1. /\ IsFiniteSet(runs \cap Slots!Owned) /\ Cardinality(runs \cap Slots!Owned) \in Nat
      /\ Cardinality(runs \cap Slots!Owned) <= Cardinality(Slots!Owned) /\ Cardinality(Slots!Owned) \in Nat
      /\ Cardinality(Slots!Owned \ runs) = Cardinality(Slots!Owned) - Cardinality(runs \cap Slots!Owned)
  <2>1. IsFiniteSet(Slots!Owned) BY SlotsFinite
  <2>2. IsFiniteSet(runs) BY FS_Subset
  <2>3. Slots!Owned \cap runs = runs \cap Slots!Owned OBVIOUS
  <2>4. IsFiniteSet(runs \cap Slots!Owned) BY <2>1, <2>2, FS_Intersection
  <2>5. Cardinality(runs \cap Slots!Owned) <= Cardinality(Slots!Owned) BY <2>1, FS_Subset
  <2> QED BY <2>1, <2>2, <2>3, <2>4, <2>5, FS_Difference, FS_CardinalityType
<1>2. ASSUME NEW s \in Sessions
      PROVE  /\ Cardinality(runs \cap Slots!OwnedBy(s)) \in Nat
             /\ Cardinality(runs \cap Slots!OwnedBy(s)) <= Cardinality(Slots!OwnedBy(s))
             /\ Cardinality(Slots!OwnedBy(s)) \in Nat
             /\ Cardinality(Slots!OwnedBy(s) \ runs)
                  = Cardinality(Slots!OwnedBy(s)) - Cardinality(runs \cap Slots!OwnedBy(s))
  <2>1. IsFiniteSet(Slots!OwnedBy(s)) BY SlotsFinite
  <2>2. IsFiniteSet(runs) BY FS_Subset
  <2>3. Slots!OwnedBy(s) \cap runs = runs \cap Slots!OwnedBy(s) OBVIOUS
  <2>4. IsFiniteSet(runs \cap Slots!OwnedBy(s)) BY <2>1, <2>2, FS_Intersection
  <2>5. Cardinality(runs \cap Slots!OwnedBy(s)) <= Cardinality(Slots!OwnedBy(s)) BY <2>1, FS_Subset
  <2> QED BY <2>1, <2>2, <2>3, <2>4, <2>5, FS_Difference, FS_CardinalityType
<1>3. Slots!TypeOK'
  <2>1. pending' \in Nat BY <1>0, <1>1, SlotCounts DEF Slots!TypeOK, Slots!ReleaseAll
  <2>2. load' \in [Sessions -> Nat] BY <1>0, <1>2, SlotCounts DEF Slots!TypeOK, Slots!ReleaseAll
  <2>3. owner' \in [Runs -> Sessions \cup {Slots!NoSession}] BY DEF Slots!TypeOK, Slots!ReleaseAll
  <2> QED BY <2>1, <2>2, <2>3 DEF Slots!TypeOK
<1>4. Slots!Owned' = Slots!Owned \ runs BY DEF Slots!Owned, Slots!ReleaseAll
<1>5. \A s \in Sessions : Slots!OwnedBy(s)' = Slots!OwnedBy(s) \ runs BY DEF Slots!OwnedBy, Slots!ReleaseAll
<1>6. SlotsCounted'
  <2>1. pending' = Cardinality(Slots!Owned') BY <1>0, <1>1, <1>4, SlotCounts DEF SlotsCounted, Slots!ReleaseAll
  <2>2. ASSUME NEW s \in Sessions PROVE load'[s] = Cardinality(Slots!OwnedBy(s)')
    <3>1. load'[s] = Slots!SaturatingSub(load[s], Cardinality(runs \cap Slots!OwnedBy(s)))
      BY SlotCounts DEF Slots!ReleaseAll
    <3>2. load[s] = Cardinality(Slots!OwnedBy(s)) BY DEF SlotsCounted
    <3> QED BY <1>0, <1>2, <1>5, <3>1, <3>2
  <2> QED BY <2>1, <2>2 DEF SlotsCounted
<1>7. SlotsLimited'
  <2>1. Cardinality(Slots!Owned') <= MaxPending BY <1>1, <1>4 DEF SlotsLimited
  <2>2. ASSUME NEW s \in Sessions PROVE Cardinality(Slots!OwnedBy(s)') <= MaxPerSession
    <3>1. Cardinality(Slots!OwnedBy(s)) <= MaxPerSession BY DEF SlotsLimited
    <3>2. Slots!OwnedBy(s)' = Slots!OwnedBy(s) \ runs BY <1>5
    <3>3. \A m, n, k \in Nat : m <= k => m - n <= k OBVIOUS
    <3> QED BY <1>2, <3>1, <3>2, <3>3
  <2> QED BY <2>1, <2>2 DEF SlotsLimited
<1> QED BY <1>3, <1>6, <1>7, SlotsMeaning

-----------------------------------------------------------------------------
(* Appends.                                                                 *)

\* What EndedForGood says of a step.
Kept ==
    \A s \in Sessions : \A r \in RunsIn(proj[s], Terminal) :
        proj'[s].runs[r].status = proj[s].runs[r].status

\* A step that starts no run.
Quiet ==
    /\ ProjOK' /\ Kept
    /\ \A s \in Sessions : ActiveRuns(proj'[s]) \subseteq ActiveRuns(proj[s])

LEMMA Appends ==
    ASSUME ProjOK, NEW s \in Sessions, NEW S, NEW b, IsSeq(b),
           \A i \in 1..Len(b) : b[i] \in SupervisorEvents /\ Started(b[i]) \subseteq S,
           AppendMany(s, b)
    PROVE  /\ ProjOK' /\ Kept
           /\ ActiveRuns(proj'[s]) \subseteq ActiveRuns(proj[s]) \cup S
           /\ \A t \in Sessions \ {s} : proj'[t] = proj[t]
<1> DEFINE p == proj[s]
<1>1. p \in Projections /\ p.phase # "corrupt" BY DEF ProjOK, Readable
<1>2. PICK q : q = ApplyAll(p, Record(0, b)) OBVIOUS
<1>3. q \in Projections /\ KeepsRuns(p, q, S) BY <1>1, <1>2, ApplyBatch
<1>4. PICK n : n = Appended(s, b) OBVIOUS
<1>5. n = [q EXCEPT !.last = 0, !.revision = 0] BY <1>2, <1>4 DEF Appended
<1>6. n \in Projections /\ n.runs = q.runs /\ n.phase = q.phase BY <1>3, <1>5 DEF Projections
<1>7. n.phase # "corrupt" /\ proj' = [proj EXCEPT ![s] = n] BY <1>4 DEF AppendMany, Accepted
<1>8. n \in Readable BY <1>6, <1>7 DEF Readable
<1>9. ProjOK' BY <1>7, <1>8 DEF ProjOK
<1>10. proj'[s] = n /\ \A t \in Sessions \ {s} : proj'[t] = proj[t] BY <1>7 DEF ProjOK
<1>11. Kept
  <2> SUFFICES ASSUME NEW t \in Sessions, NEW r \in RunsIn(proj[t], Terminal)
               PROVE  proj'[t].runs[r].status = proj[t].runs[r].status
    BY DEF Kept
  <2>1. CASE t = s BY <2>1, <1>3, <1>6, <1>7, <1>10 DEF KeepsRuns, RunsIn
  <2>2. CASE t # s BY <2>2, <1>10
  <2> QED BY <2>1, <2>2
<1>12. ActiveRuns(proj'[s]) \subseteq ActiveRuns(proj[s]) \cup S
  BY <1>3, <1>6, <1>10 DEF KeepsRuns, ActiveRuns, RunsIn
<1> QED BY <1>9, <1>10, <1>11, <1>12

LEMMA QuietAppend ==
    ASSUME ProjOK, NEW s \in Sessions, NEW b \in Seq(QuietEvents), AppendMany(s, b)
    PROVE  Quiet
<1>1. IsSeq(b) BY TypedSeq
<1>2. \A i \in 1..Len(b) : b[i] \in SupervisorEvents /\ Started(b[i]) \subseteq {}
  <2>1. \A i \in 1..Len(b) : b[i] \in QuietEvents OBVIOUS
  <2> QED BY <2>1 DEF QuietEvents, Started
<1>3. /\ ProjOK' /\ Kept
      /\ ActiveRuns(proj'[s]) \subseteq ActiveRuns(proj[s]) \cup {}
      /\ \A t \in Sessions \ {s} : proj'[t] = proj[t]
  BY <1>1, <1>2, Appends
<1>4. \A t \in Sessions : ActiveRuns(proj'[t]) \subseteq ActiveRuns(proj[t]) BY <1>3
<1> QED BY <1>3, <1>4 DEF Quiet

LEMMA QuietOne ==
    ASSUME ProjOK, NEW s \in Sessions, NEW e \in QuietEvents, AppendMany(s, <<e>>)
    PROVE  Quiet
BY OneEvent, QuietAppend

-----------------------------------------------------------------------------
(* What an action leaves alone.                                             *)

Good == Inv' /\ Kept

LEMMA Frames ==
    ASSUME Inv
    PROVE  /\ UNCHANGED <<server, todo>> => ServerOK'
           /\ UNCHANGED removal => RemovalOK'
           /\ UNCHANGED visit => VisitOK'
           /\ UNCHANGED process => ServerOK' /\ RemovalOK' /\ VisitOK'
           /\ UNCHANGED proj => Quiet
           /\ UNCHANGED worker => WorkerOK'
           /\ UNCHANGED waiting => WaitingOK'
           /\ UNCHANGED token => TokenOK'
           /\ UNCHANGED req => ReqOK'
           /\ UNCHANGED slots => SlotsOK'
<1> USE DEF Inv
<1>1. UNCHANGED <<server, todo>> => ServerOK' BY DEF ServerOK
<1>2. UNCHANGED removal => RemovalOK' BY DEF RemovalOK, removal
<1>3. UNCHANGED visit => VisitOK' BY DEF VisitOK
<1>4. UNCHANGED process => ServerOK' /\ RemovalOK' /\ VisitOK' BY <1>1, <1>2, <1>3 DEF process
<1>5. UNCHANGED proj => Quiet BY DEF Quiet, ProjOK, Kept
<1>6. UNCHANGED worker => WorkerOK' BY DEF WorkerOK
<1>7. UNCHANGED waiting => WaitingOK' BY DEF WaitingOK
<1>8. UNCHANGED token => TokenOK' BY DEF TokenOK
<1>9. UNCHANGED req => ReqOK' BY DEF ReqOK
<1>10. UNCHANGED slots => SlotsOK' BY SlotsKept
<1> QED BY <1>1, <1>2, <1>3, <1>4, <1>5, <1>6, <1>7, <1>8, <1>9, <1>10

\* The worker of one session moves.
LEMMA WorkerMoves ==
    ASSUME Inv, Quiet, NEW s \in Sessions, NEW u \in WorkerStates,
           worker' = [worker EXCEPT ![s] = u],
           u.at \in {"phase", "start"} =>
               worker[s].at \in {"phase", "start"} \/ ActiveRuns(proj[s]) = {}
    PROVE  WorkerOK' /\ AtMostOne'
<1>1. WorkerOK' BY DEF Inv, WorkerOK
<1>2. ASSUME NEW t \in Sessions
      PROVE  /\ \A r, o \in ActiveRuns(proj'[t]) : r = o
             /\ worker'[t].at \in {"phase", "start"} => ActiveRuns(proj'[t]) = {}
  <2>1. ActiveRuns(proj'[t]) \subseteq ActiveRuns(proj[t]) BY DEF Quiet
  <2>2. /\ \A r, o \in ActiveRuns(proj[t]) : r = o
        /\ worker[t].at \in {"phase", "start"} => ActiveRuns(proj[t]) = {}
    BY DEF Inv, AtMostOne
  <2>3. worker'[t] = IF t = s THEN u ELSE worker[t] BY DEF Inv, WorkerOK
  <2> QED BY <2>1, <2>2, <2>3
<1>3. AtMostOne' BY <1>2 DEF AtMostOne
<1> QED BY <1>1, <1>3

\* No worker moves, or all leave.
LEMMA NoWorkerMoves ==
    ASSUME Inv, Quiet,
           worker' = worker \/ worker' = [s \in Sessions |-> NoWorker]
    PROVE  WorkerOK' /\ AtMostOne'
<1>0. NoWorker \in WorkerStates BY DEF NoWorker, WorkerStates
<1>1. WorkerOK' BY <1>0 DEF Inv, WorkerOK
<1>2. ASSUME NEW t \in Sessions
      PROVE  /\ \A r, o \in ActiveRuns(proj'[t]) : r = o
             /\ worker'[t].at \in {"phase", "start"} => ActiveRuns(proj'[t]) = {}
  <2>1. ActiveRuns(proj'[t]) \subseteq ActiveRuns(proj[t]) BY DEF Quiet
  <2>2. /\ \A r, o \in ActiveRuns(proj[t]) : r = o
        /\ worker[t].at \in {"phase", "start"} => ActiveRuns(proj[t]) = {}
    BY DEF Inv, AtMostOne
  <2>3. worker'[t] = worker[t] \/ worker'[t].at = "idle" BY DEF NoWorker
  <2> QED BY <2>1, <2>2, <2>3
<1>3. AtMostOne' BY <1>2 DEF AtMostOne
<1> QED BY <1>1, <1>3

-----------------------------------------------------------------------------
(* The worker.                                                              *)

\* A step of the worker of s that starts no run.
LEMMA WorkerActs ==
    ASSUME Inv, Quiet, NEW s \in Sessions, NEW u \in WorkerStates,
           worker' = [worker EXCEPT ![s] = u],
           u.at \in {"phase", "start"} =>
               worker[s].at \in {"phase", "start"} \/ ActiveRuns(proj[s]) = {},
           UNCHANGED <<process, req>>, WaitingOK', TokenOK', SlotsOK'
    PROVE  Good
<1>1. WorkerOK' /\ AtMostOne' BY WorkerMoves
<1>2. ServerOK' /\ RemovalOK' /\ VisitOK' /\ ReqOK' BY Frames
<1>3. ProjOK' /\ Kept BY DEF Quiet
<1> QED BY <1>1, <1>2, <1>3 DEF Good, Inv

\* The worker that reached a given point of process_session.
LEMMA WorkerAt ==
    ASSUME Inv, NEW s \in Sessions
    PROVE  /\ worker[s] \in WorkerStates
           /\ worker[s].at \in {"phase", "start"} =>
                 worker[s].run \in Runs /\ worker[s].out \in Phases
           /\ worker[s].at \in {"permit", "open", "stream"} =>
                 worker[s].run \in Runs /\ worker[s].out = Nil
           /\ worker[s].at \in {"message", "turn"} =>
                 worker[s].run \in Runs /\ worker[s].out \in Ended
           /\ worker[s].at \in {"end", "release"} =>
                 worker[s].run \in Runs /\ worker[s].out \in Terminal
<1>1. worker[s] \in WorkerStates BY DEF Inv, WorkerOK
<1> QED BY <1>1 DEF WorkerStates

\* The states the worker goes to.
LEMMA WorkerNext ==
    ASSUME Inv, NEW s \in Sessions
    PROVE  /\ NoWorker \in WorkerStates /\ NoWorker.at = "idle"
           /\ Begin \in WorkerStates /\ Begin.at = "loop"
           /\ \A at : Step(s, at).at = at
           /\ worker[s].at = "loop" => Step(s, "empty") \in WorkerStates
           /\ worker[s].at = "phase" => Step(s, "start") \in WorkerStates
           /\ worker[s].at = "permit" => Step(s, "open") \in WorkerStates
           /\ worker[s].at = "open" => Step(s, "stream") \in WorkerStates
           /\ worker[s].at = "message" /\ worker[s].out # "requires_action" =>
                 Step(s, "end") \in WorkerStates
           /\ worker[s].at = "message" => Step(s, "turn") \in WorkerStates
           /\ worker[s].at = "end" => Step(s, "release") \in WorkerStates
           /\ worker[s].at = "release" => Step(s, "turn") \in WorkerStates
           /\ \A out : Outcome(s, out).at = "message"
           /\ worker[s].at \in {"open", "stream"} =>
                 \A out \in Ended : Outcome(s, out) \in WorkerStates
<1>1. worker[s] \in WorkerStates BY WorkerAt
<1> USE DEF WorkerStates
<1>2. NoWorker \in WorkerStates /\ NoWorker.at = "idle" BY DEF NoWorker
<1>3. Begin \in WorkerStates /\ Begin.at = "loop" BY DEF NoWorker, Begin
<1>4. \A at : Step(s, at).at = at BY <1>1 DEF Step
<1>5. worker[s].at = "loop" => Step(s, "empty") \in WorkerStates BY <1>1 DEF Step
<1>6. worker[s].at = "phase" => Step(s, "start") \in WorkerStates BY <1>1 DEF Step
<1>7. worker[s].at = "permit" => Step(s, "open") \in WorkerStates BY <1>1 DEF Step
<1>8. worker[s].at = "open" => Step(s, "stream") \in WorkerStates BY <1>1 DEF Step
<1>9. worker[s].at = "message" /\ worker[s].out # "requires_action" =>
          Step(s, "end") \in WorkerStates
  BY <1>1 DEF Step, Ended
<1>10. worker[s].at = "message" => Step(s, "turn") \in WorkerStates BY <1>1 DEF Step
<1>11. worker[s].at = "end" => Step(s, "release") \in WorkerStates BY <1>1 DEF Step
<1>12. worker[s].at = "release" => Step(s, "turn") \in WorkerStates BY <1>1 DEF Step, Ended
<1>13. \A out : Outcome(s, out).at = "message" BY <1>1 DEF Outcome
<1>14. ASSUME worker[s].at \in {"open", "stream"}, NEW out \in Ended
       PROVE  Outcome(s, out) \in WorkerStates
  BY <1>1, <1>14 DEF Outcome
<1> QED BY <1>2, <1>3, <1>4, <1>5, <1>6, <1>7, <1>8, <1>9, <1>10, <1>11, <1>12, <1>13, <1>14

\* The two ways out of WorkerAppends.
LEMMA WorkerAppended ==
    ASSUME Inv, NEW s \in Sessions, NEW e \in QuietEvents, NEW next, NEW otherwise,
           WorkerAppends(s, <<e>>, next, otherwise)
    PROVE  Quiet /\ (worker' = [worker EXCEPT ![s] = next] \/ worker' = [worker EXCEPT ![s] = otherwise])
<1>1. CASE AppendMany(s, <<e>>) /\ worker' = [worker EXCEPT ![s] = next]
  BY <1>1, QuietOne DEF Inv
<1>2. CASE Refused(s, <<e>>) /\ worker' = [worker EXCEPT ![s] = otherwise]
  BY <1>2, Frames DEF Refused
<1> QED BY <1>1, <1>2 DEF WorkerAppends

LEMMA TokenDropped ==
    ASSUME Inv, NEW s \in Sessions, DropToken(s) PROVE TokenOK'
BY DEF Inv, TokenOK, DropToken

LEMMA EnterSessionGood ==
    ASSUME Inv, NEW s \in Sessions, EnterSession(s) PROVE Good
<1>1. WaitingOK' BY DEF EnterSession, Inv, WaitingOK
<1>2. Quiet /\ TokenOK' /\ SlotsOK' BY Frames DEF EnterSession
<1>3. Begin \in WorkerStates /\ Begin.at = "loop" BY WorkerNext
<1> QED BY <1>1, <1>2, <1>3, WorkerActs DEF EnterSession

LEMMA LeaveSessionGood ==
    ASSUME Inv, NEW s \in Sessions, LeaveSession(s) PROVE Good
<1>1. Quiet /\ WaitingOK' /\ TokenOK' /\ SlotsOK' BY Frames DEF LeaveSession
<1>2. NoWorker \in WorkerStates /\ NoWorker.at = "idle" BY WorkerNext
<1> QED BY <1>1, <1>2, WorkerActs DEF LeaveSession

LEMMA SeeEmptyQueueGood ==
    ASSUME Inv, NEW s \in Sessions, SeeEmptyQueue(s) PROVE Good
<1>1. Quiet /\ WaitingOK' /\ TokenOK' /\ SlotsOK' BY Frames DEF SeeEmptyQueue
<1>2. PICK u : worker' = [worker EXCEPT ![s] = u] /\ u \in {Step(s, "empty"), NoWorker}
  BY DEF SeeEmptyQueue
<1>3. u \in WorkerStates /\ u.at \in {"empty", "idle"}
  BY <1>2, WorkerNext DEF SeeEmptyQueue, MayPick, At
<1> QED BY <1>1, <1>2, <1>3, WorkerActs DEF SeeEmptyQueue

LEMMA FinishSessionGood ==
    ASSUME Inv, NEW s \in Sessions, FinishSession(s) PROVE Good
<1>1. PhaseChanged("running", "finished") \in QuietEvents BY EventsAre DEF Phases
<1>2. Quiet /\ worker' = [worker EXCEPT ![s] = NoWorker]
  BY <1>1, WorkerAppended DEF FinishSession
<1>3. WaitingOK' /\ TokenOK' /\ SlotsOK' BY Frames DEF FinishSession
<1>4. NoWorker \in WorkerStates /\ NoWorker.at = "idle" BY WorkerNext
<1> QED BY <1>2, <1>3, <1>4, WorkerActs DEF FinishSession

\* next() of the queued runs is one of them.
LEMMA NextQueuedIs ==
    ASSUME NEW p, RunsIn(p, {"queued"}) # {} PROVE NextQueued(p) \in RunsIn(p, {"queued"})
<1> DEFINE queued == RunsIn(p, {"queued"})
           first == IF \E r \in queued : p.runs[r].retry
                    THEN {r \in queued : p.runs[r].retry} ELSE queued
<1>1. first # {} /\ first \subseteq queued OBVIOUS
<1>2. first \subseteq Nat BY <1>1, IdsAreOrdered DEF RunsIn
<1>3. NextQueued(p) = CHOOSE r \in first : \A o \in first : r <= o BY DEF NextQueued
<1> HIDE DEF first
<1>4. \E r \in first : \A o \in first : r <= o BY <1>1, <1>2, NatLeast
<1>5. NextQueued(p) \in first BY <1>3, <1>4
<1> QED BY <1>1, <1>5

LEMMA PickRunGood ==
    ASSUME Inv, NEW s \in Sessions, PickRun(s) PROVE Good
<1>1. Quiet /\ WaitingOK' /\ TokenOK' /\ SlotsOK' BY Frames DEF PickRun
<1>2. NextQueued(proj[s]) \in Runs BY NextQueuedIs DEF PickRun, RunsIn
<1>3. proj[s].phase \in Phases BY DEF Inv, ProjOK, Readable, Projections
<1>4. PICK at \in {"phase", "start"} :
        worker' = [worker EXCEPT ![s] =
                      [at |-> at, run |-> NextQueued(proj[s]), out |-> proj[s].phase]]
  BY DEF PickRun
<1> DEFINE u == [at |-> at, run |-> NextQueued(proj[s]), out |-> proj[s].phase]
<1>5. u \in WorkerStates BY <1>2, <1>3 DEF WorkerStates
<1>6. ActiveRuns(proj[s]) = {} BY DEF PickRun, MayPick
<1>7. worker' = [worker EXCEPT ![s] = u] BY <1>4
<1> HIDE DEF u
<1> QED BY <1>1, <1>5, <1>6, <1>7, WorkerActs DEF PickRun

LEMMA EnterRunningGood ==
    ASSUME Inv, NEW s \in Sessions, EnterRunning(s) PROVE Good
<1>0. worker[s].at = "phase" BY DEF EnterRunning, At
<1>1. PhaseChanged(worker[s].out, "running") \in QuietEvents
  BY <1>0, WorkerAt, EventsAre DEF Phases
<1>2. Quiet /\ \E u \in {Step(s, "start"), NoWorker} : worker' = [worker EXCEPT ![s] = u]
  BY <1>1, WorkerAppended DEF EnterRunning
<1>3. PICK u \in {Step(s, "start"), NoWorker} : worker' = [worker EXCEPT ![s] = u] BY <1>2
<1>4. u \in WorkerStates BY <1>0, <1>3, WorkerNext
<1>5. WaitingOK' /\ TokenOK' /\ SlotsOK' BY Frames DEF EnterRunning
<1> QED BY <1>0, <1>2, <1>3, <1>4, <1>5, WorkerActs DEF EnterRunning

\* Only here a run becomes active: none was, and the worker is past the
\* point from which it could start another.
LEMMA StartRunGood ==
    ASSUME Inv, NEW s \in Sessions, StartRun(s) PROVE Good
<1> DEFINE r == worker[s].run
           n == proj[s].runs[r].attempts + 1
           e == RunStarted(r, n)
<1>1. worker[s].at = "start" /\ worker[s] \in WorkerStates /\ r \in Runs
  BY WorkerAt DEF StartRun, At
<1>2. n \in Nat
  <2>1. proj[s].runs[r].attempts \in Nat
    BY <1>1 DEF Inv, ProjOK, Readable, Projections, RunRecords
  <2> QED BY <2>1
<1> HIDE DEF r, n
<1>3. e \in SupervisorEvents /\ Started(e) \subseteq {r}
  BY <1>1, <1>2 DEF RunStarted, SupervisorEvents, RunEvents, Started
<1>4. ServerOK' /\ RemovalOK' /\ VisitOK' /\ WaitingOK' /\ ReqOK' /\ SlotsOK'
  BY Frames DEF StartRun
<1>5. \/ /\ AppendMany(s, <<e>>)
         /\ token' = [token EXCEPT ![r] = "live"]
         /\ worker' = [worker EXCEPT ![s] = [Step(s, "permit") EXCEPT !.out = Nil]]
      \/ UNCHANGED <<proj, token>> /\ worker' = [worker EXCEPT ![s] = NoWorker]
  BY DEF StartRun, Refused, r, n
<1> HIDE DEF e
<1>6. CASE /\ AppendMany(s, <<e>>)
           /\ token' = [token EXCEPT ![r] = "live"]
           /\ worker' = [worker EXCEPT ![s] = [Step(s, "permit") EXCEPT !.out = Nil]]
  <2>1. PICK u : worker' = [worker EXCEPT ![s] = u] /\ u = [Step(s, "permit") EXCEPT !.out = Nil]
    BY <1>6
  <2>2. u \in WorkerStates /\ u.at = "permit" BY <1>1, <2>1 DEF Step, WorkerStates, r
  <2>3. WorkerOK' BY <2>1, <2>2 DEF Inv, WorkerOK
  <2>4. TokenOK' BY <1>1, <1>6 DEF Inv, TokenOK
  <2>5. /\ ProjOK' /\ Kept
        /\ ActiveRuns(proj'[s]) \subseteq ActiveRuns(proj[s]) \cup {r}
        /\ \A t \in Sessions \ {s} : proj'[t] = proj[t]
    <3>1. ProjOK BY DEF Inv
    <3>2. IsSeq(<<e>>) /\ \A i \in 1..Len(<<e>>) :
              <<e>>[i] \in SupervisorEvents /\ Started(<<e>>[i]) \subseteq {r}
      <4>1. \A i \in 1..1 : i = 1 OBVIOUS
      <4> QED BY <1>3, <4>1, SingletonIsSeq
    <3>3. PICK b : b = <<e>> OBVIOUS
    <3> QED BY <1>6, <3>1, <3>2, <3>3, Appends
  <2>6. ActiveRuns(proj[s]) = {} BY <1>1 DEF Inv, AtMostOne
  <2>7. ASSUME NEW t \in Sessions
        PROVE  /\ \A x, o \in ActiveRuns(proj'[t]) : x = o
               /\ worker'[t].at \in {"phase", "start"} => ActiveRuns(proj'[t]) = {}
    <3>1. CASE t = s
      <4>1. worker'[t].at = "permit" BY <3>1, <2>1, <2>2 DEF Inv, WorkerOK
      <4> QED BY <3>1, <4>1, <2>5, <2>6
    <3>2. CASE t # s
      <4>1. worker'[t] = worker[t] BY <3>2, <2>1 DEF Inv, WorkerOK
      <4> QED BY <3>2, <4>1, <2>5 DEF Inv, AtMostOne
    <3> QED BY <3>1, <3>2
  <2>8. AtMostOne' BY <2>7 DEF AtMostOne
  <2> QED BY <1>4, <2>3, <2>4, <2>5, <2>8 DEF Good, Inv
<1>7. CASE UNCHANGED <<proj, token>> /\ worker' = [worker EXCEPT ![s] = NoWorker]
  <2>1. Quiet /\ TokenOK' BY <1>7, Frames
  <2>2. NoWorker \in WorkerStates /\ NoWorker.at = "idle" BY WorkerNext
  <2> QED BY <1>4, <1>7, <2>1, <2>2, WorkerActs DEF StartRun
<1> QED BY <1>5, <1>6, <1>7

LEMMA AcquirePermitGood ==
    ASSUME Inv, NEW s \in Sessions, AcquirePermit(s) PROVE Good
<1>1. Quiet /\ WaitingOK' /\ TokenOK' /\ SlotsOK' BY Frames DEF AcquirePermit
<1>2. Step(s, "open") \in WorkerStates /\ Step(s, "open").at = "open"
  BY WorkerNext DEF AcquirePermit, At
<1> QED BY <1>1, <1>2, WorkerActs DEF AcquirePermit

LEMMA OpenMessageGood ==
    ASSUME Inv, NEW s \in Sessions, OpenMessage(s) PROVE Good
<1>1. PICK m \in Messages : AppendMany(s, <<MessageStarted(m, "assistant")>>) BY DEF OpenMessage
<1>2. Quiet BY <1>1, EventsAre, QuietOne DEF Inv
<1>3. WaitingOK' /\ TokenOK' /\ SlotsOK' BY Frames DEF OpenMessage
<1>4. Step(s, "stream") \in WorkerStates /\ Step(s, "stream").at = "stream"
  BY WorkerNext DEF OpenMessage, At
<1> QED BY <1>2, <1>3, <1>4, WorkerActs DEF OpenMessage

LEMMA FailToOpenGood ==
    ASSUME Inv, NEW s \in Sessions, FailToOpen(s) PROVE Good
<1>1. Quiet /\ WaitingOK' /\ SlotsOK' BY Frames DEF FailToOpen
<1>2. TokenOK' BY TokenDropped DEF FailToOpen
<1>3. Outcome(s, "failed") \in WorkerStates /\ Outcome(s, "failed").at = "message"
  BY WorkerNext DEF FailToOpen, At, Ended, Terminal
<1> QED BY <1>1, <1>2, <1>3, WorkerActs DEF FailToOpen

\* persist_delta: the worker appends while it streams, or fails the run.
LEMMA StreamAppends ==
    ASSUME Inv, NEW s \in Sessions, NEW e \in QuietEvents, worker[s].at = "stream",
           \/ AppendMany(s, <<e>>) /\ UNCHANGED <<worker, token>>
           \/ /\ Refused(s, <<e>>)
              /\ worker' = [worker EXCEPT ![s] = Outcome(s, "failed")]
              /\ DropToken(s),
           UNCHANGED <<process, waiting, req, slots>>
    PROVE  Good
<1>1. ServerOK' /\ RemovalOK' /\ VisitOK' /\ WaitingOK' /\ ReqOK' /\ SlotsOK' BY Frames
<1>2. CASE AppendMany(s, <<e>>) /\ UNCHANGED <<worker, token>>
  <2>1. Quiet /\ TokenOK' BY <1>2, QuietOne, Frames DEF Inv
  <2>2. WorkerOK' /\ AtMostOne' BY <1>2, <2>1, NoWorkerMoves
  <2> QED BY <1>1, <2>1, <2>2 DEF Good, Inv, Quiet
<1>3. CASE /\ Refused(s, <<e>>)
           /\ worker' = [worker EXCEPT ![s] = Outcome(s, "failed")]
           /\ DropToken(s)
  <2>1. Quiet BY <1>3, Frames DEF Refused
  <2>2. TokenOK' BY <1>3, TokenDropped
  <2>3. Outcome(s, "failed") \in WorkerStates /\ Outcome(s, "failed").at = "message"
    BY WorkerNext DEF Ended, Terminal
  <2> QED BY <1>1, <1>3, <2>1, <2>2, <2>3, WorkerActs
<1> QED BY <1>2, <1>3

LEMMA RetryAttemptGood ==
    ASSUME Inv, NEW s \in Sessions, RetryAttempt(s) PROVE Good
<1> DEFINE r == worker[s].run
           e == RunAttemptStarted(r, proj[s].runs[r].attempts + 1)
<1>1. worker[s].at = "stream" /\ r \in Runs BY WorkerAt DEF RetryAttempt, At
<1>2. e \in QuietEvents
  <2>1. proj[s].runs[r].attempts \in Nat
    BY <1>1 DEF Inv, ProjOK, Readable, Projections, RunRecords
  <2>2. proj[s].runs[r].attempts + 1 \in Nat BY <2>1
  <2> HIDE DEF r
  <2> QED BY <1>1, <2>2, EventsAre
<1>3. \/ AppendMany(s, <<e>>) /\ UNCHANGED <<worker, token>>
      \/ /\ Refused(s, <<e>>)
         /\ worker' = [worker EXCEPT ![s] = Outcome(s, "failed")]
         /\ DropToken(s)
  BY DEF RetryAttempt
<1> HIDE DEF e
<1> QED BY <1>1, <1>2, <1>3, StreamAppends DEF RetryAttempt

LEMMA EmitCallGood ==
    ASSUME Inv, NEW s \in Sessions, EmitCall(s) PROVE Good
<1>1. worker[s].at = "stream" /\ worker[s].run \in Runs BY WorkerAt DEF EmitCall, At
<1>2. PICK c \in Calls :
        \/ AppendMany(s, <<ToolCallEmitted(worker[s].run, c, FALSE)>>) /\ UNCHANGED <<worker, token>>
        \/ /\ Refused(s, <<ToolCallEmitted(worker[s].run, c, FALSE)>>)
           /\ worker' = [worker EXCEPT ![s] = Outcome(s, "failed")]
           /\ DropToken(s)
  BY DEF EmitCall
<1>3. ToolCallEmitted(worker[s].run, c, FALSE) \in QuietEvents BY <1>1, EventsAre
<1> QED BY <1>1, <1>2, <1>3, StreamAppends DEF EmitCall

LEMMA EndStreamGood ==
    ASSUME Inv, NEW s \in Sessions, NEW out \in Outcomes, EndStream(s, out) PROVE Good
<1>1. Quiet /\ WaitingOK' /\ SlotsOK' BY Frames DEF EndStream
<1>2. TokenOK' BY TokenDropped DEF EndStream
<1>3. Outcome(s, out) \in WorkerStates /\ Outcome(s, out).at = "message"
  BY WorkerNext DEF EndStream, At, Outcomes, Ended, Terminal
<1> QED BY <1>1, <1>2, <1>3, WorkerActs DEF EndStream

LEMMA RequireActionGood ==
    ASSUME Inv, NEW s \in Sessions, RequireAction(s) PROVE Good
<1>1. worker[s].at = "stream" /\ worker[s].run \in Runs BY WorkerAt DEF RequireAction, At
<1>2. RunRequiresAction(worker[s].run) \in QuietEvents BY <1>1, EventsAre
<1>3. Quiet /\ \E u \in {Outcome(s, "requires_action"), Outcome(s, "failed")} :
                  worker' = [worker EXCEPT ![s] = u]
  BY <1>2, WorkerAppended DEF RequireAction
<1>4. PICK u \in {Outcome(s, "requires_action"), Outcome(s, "failed")} :
          worker' = [worker EXCEPT ![s] = u]
  BY <1>3
<1>5. u \in WorkerStates /\ u.at = "message" BY <1>1, <1>4, WorkerNext DEF Ended, Terminal
<1>6. TokenOK' BY TokenDropped DEF RequireAction
<1>7. WaitingOK' /\ SlotsOK' BY Frames DEF RequireAction
<1> QED BY <1>3, <1>4, <1>5, <1>6, <1>7, WorkerActs DEF RequireAction

LEMMA CloseMessageGood ==
    ASSUME Inv, NEW s \in Sessions, CloseMessage(s) PROVE Good
<1> DEFINE status == IF worker[s].out \in {"completed", "requires_action"}
                     THEN "completed" ELSE "interrupted"
           next == IF worker[s].out = "requires_action" THEN "turn" ELSE "end"
<1>1. worker[s].at = "message" BY DEF CloseMessage, At
<1>2. Step(s, next) \in WorkerStates /\ Step(s, next).at \in {"turn", "end"} BY <1>1, WorkerNext
<1>3. WaitingOK' /\ TokenOK' /\ SlotsOK' BY Frames DEF CloseMessage
<1>4. \/ UNCHANGED proj /\ worker' = [worker EXCEPT ![s] = Step(s, next)]
      \/ \E m \in Messages :
            WorkerAppends(s, <<MessageClosed(m, status)>>, Step(s, next), NoWorker)
  BY DEF CloseMessage, LastAssistant
<1>5. Quiet /\ \E u \in {Step(s, next), NoWorker} : worker' = [worker EXCEPT ![s] = u]
  <2>1. CASE UNCHANGED proj /\ worker' = [worker EXCEPT ![s] = Step(s, next)]
    BY <2>1, Frames
  <2>2. CASE \E m \in Messages :
                WorkerAppends(s, <<MessageClosed(m, status)>>, Step(s, next), NoWorker)
    <3>1. PICK m \in Messages :
              WorkerAppends(s, <<MessageClosed(m, status)>>, Step(s, next), NoWorker)
      BY <2>2
    <3>2. MessageClosed(m, status) \in QuietEvents BY EventsAre
    <3> QED BY <3>1, <3>2, WorkerAppended
  <2> QED BY <1>4, <2>1, <2>2
<1>6. PICK u \in {Step(s, next), NoWorker} : worker' = [worker EXCEPT ![s] = u] BY <1>5
<1>7. u \in WorkerStates /\ u.at \in {"turn", "end", "idle"} BY <1>2, <1>6, WorkerNext
<1> HIDE DEF next, status
<1> QED BY <1>3, <1>5, <1>6, <1>7, WorkerActs DEF CloseMessage

LEMMA EndRunGood ==
    ASSUME Inv, NEW s \in Sessions, EndRun(s) PROVE Good
<1>1. worker[s].at = "end" BY DEF EndRun, At
<1>2. RunEnded(worker[s].run, worker[s].out) \in QuietEvents BY <1>1, WorkerAt, EventsAre
<1>3. Quiet /\ \E u \in {Step(s, "release"), NoWorker} : worker' = [worker EXCEPT ![s] = u]
  BY <1>2, WorkerAppended DEF EndRun
<1>4. PICK u \in {Step(s, "release"), NoWorker} : worker' = [worker EXCEPT ![s] = u] BY <1>3
<1>5. u \in WorkerStates /\ u.at \in {"release", "idle"} BY <1>1, <1>4, WorkerNext
<1>6. WaitingOK' /\ TokenOK' /\ SlotsOK' BY Frames DEF EndRun
<1> QED BY <1>3, <1>4, <1>5, <1>6, WorkerActs DEF EndRun

LEMMA ReleaseEndedGood ==
    ASSUME Inv, NEW s \in Sessions, ReleaseEnded(s) PROVE Good
<1>1. worker[s].at = "release" /\ worker[s].run \in Runs BY WorkerAt DEF ReleaseEnded, At
<1>2. SlotsOK' BY <1>1, SlotsRelease DEF ReleaseEnded, Inv
<1>3. Quiet /\ WaitingOK' /\ TokenOK' BY Frames DEF ReleaseEnded
<1>4. PICK u \in {Begin, Step(s, "turn")} : worker' = [worker EXCEPT ![s] = u] BY DEF ReleaseEnded
<1>5. u \in WorkerStates /\ u.at \in {"loop", "turn"} BY <1>1, <1>4, WorkerNext
<1> QED BY <1>2, <1>3, <1>4, <1>5, WorkerActs DEF ReleaseEnded

LEMMA LeaveRunningGood ==
    ASSUME Inv, NEW s \in Sessions, LeaveRunning(s) PROVE Good
<1>1. PhaseChanged("running", EndPhase(worker[s].out)) \in QuietEvents
  BY EventsAre DEF Phases, EndPhase
<1>2. Quiet /\ \E u \in {Begin, NoWorker} : worker' = [worker EXCEPT ![s] = u]
  BY <1>1, WorkerAppended DEF LeaveRunning
<1>3. PICK u \in {Begin, NoWorker} : worker' = [worker EXCEPT ![s] = u] BY <1>2
<1>4. u \in WorkerStates /\ u.at \in {"loop", "idle"} BY <1>3, WorkerNext
<1>5. WaitingOK' /\ TokenOK' /\ SlotsOK' BY Frames DEF LeaveRunning
<1> QED BY <1>2, <1>3, <1>4, <1>5, WorkerActs DEF LeaveRunning

LEMMA WorkerStepGood ==
    ASSUME Inv, NEW s \in Sessions, WorkerStep(s) PROVE Good
BY LeaveSessionGood, SeeEmptyQueueGood, FinishSessionGood, PickRunGood, EnterRunningGood,
   StartRunGood, AcquirePermitGood, OpenMessageGood, FailToOpenGood, RetryAttemptGood,
   EmitCallGood, RequireActionGood, EndStreamGood, CloseMessageGood, EndRunGood,
   ReleaseEndedGood, LeaveRunningGood
   DEF WorkerStep

-----------------------------------------------------------------------------
(* Request handlers.                                                        *)

\* A step of a handler that touches no worker.
LEMMA HandlerActs ==
    ASSUME Inv, Quiet, NEW h \in Handlers, NEW u \in ReqStates,
           req' = [req EXCEPT ![h] = u],
           UNCHANGED <<process, worker>>, WaitingOK', TokenOK', SlotsOK'
    PROVE  Good
<1>1. WorkerOK' /\ AtMostOne' BY NoWorkerMoves
<1>2. ServerOK' /\ RemovalOK' /\ VisitOK' BY Frames
<1>3. ReqOK' BY DEF Inv, ReqOK
<1> QED BY <1>1, <1>2, <1>3 DEF Good, Inv, Quiet

\* What a handler carries at each of its awaits.
LEMMA HandlerAt ==
    ASSUME Inv, NEW h \in Handlers
    PROVE  /\ NoReq \in ReqStates
           /\ req[h].at = "append" => req[h].session \in Sessions /\ req[h].events \in Seq(RequestEvents)
           /\ req[h].at = "spawn" => req[h].session \in Sessions
           /\ req[h].at = "cancel" => req[h].session \in Sessions /\ req[h].run \in Runs
           /\ req[h].at = "release" => req[h].run \in Runs
           /\ "run" \in DOMAIN req[h] => req[h].run \in Runs
<1>1. req[h] \in ReqStates BY DEF Inv, ReqOK
<1> QED BY <1>1 DEF ReqStates, NoReq

\* An id that was just made has no slot.
LEMMA FreshHasNoSlot ==
    ASSUME NEW r \in Runs, FreshRun(r) PROVE owner[r] = Slots!NoSession
<1>1. r \in Nat BY IdsAreOrdered
<1>2. r \notin Allocated BY <1>1 DEF FreshRun
<1> QED BY <1>2 DEF Allocated

LEMMA QueueRunGood ==
    ASSUME Inv, NEW h \in Handlers, NEW s \in Sessions, QueueRun(h, s) PROVE Good
<1>1. PICK r \in Runs :
        /\ FreshRun(r) /\ Slots!Reserve(s, r)
        /\ req' = [req EXCEPT ![h] = [at |-> "append", session |-> s, run |-> r,
                                      events |-> <<RunQueued(r, FALSE)>>]]
  BY DEF QueueRun
<1>2. SlotsOK' BY <1>1, FreshHasNoSlot, SlotsReserve DEF Inv
<1>3. Quiet /\ WaitingOK' /\ TokenOK' BY Frames DEF QueueRun
<1>4. PICK b \in Seq(RequestEvents) : b = <<RunQueued(r, FALSE)>> BY RequestEventsAre, OneEvent
<1>5. [at |-> "append", session |-> s, run |-> r, events |-> b] \in ReqStates BY DEF ReqStates
<1> QED BY <1>1, <1>2, <1>3, <1>4, <1>5, HandlerActs DEF QueueRun

LEMMA RetryGood ==
    ASSUME Inv, NEW h \in Handlers, NEW s \in Sessions, NEW old \in Runs, Retry(h, s, old)
    PROVE  Good
<1>1. PICK r \in Runs :
        /\ FreshRun(r) /\ Slots!Reserve(s, r)
        /\ req' = [req EXCEPT ![h] = [at |-> "append", session |-> s, run |-> r,
                events |-> <<RunQueued(r, TRUE)>> \o
                           (IF proj[s].paused THEN <<QueueResumed>> ELSE <<>>)]]
  BY DEF Retry
<1>2. SlotsOK' BY <1>1, FreshHasNoSlot, SlotsReserve DEF Inv
<1>3. Quiet /\ WaitingOK' /\ TokenOK' BY Frames DEF Retry
<1>4. PICK b \in Seq(RequestEvents) :
        b = <<RunQueued(r, TRUE)>> \o (IF proj[s].paused THEN <<QueueResumed>> ELSE <<>>)
  <2>1. <<RunQueued(r, TRUE)>> \in Seq(RequestEvents) BY RequestEventsAre, OneEvent
  <2>2. <<QueueResumed>> \in Seq(RequestEvents) BY RequestEventsAre, OneEvent
  <2>3. <<>> \in Seq(RequestEvents) OBVIOUS
  <2>4. \A a, c \in Seq(RequestEvents) : a \o c \in Seq(RequestEvents) OBVIOUS
  <2> QED BY <2>1, <2>2, <2>3, <2>4
<1>5. [at |-> "append", session |-> s, run |-> r, events |-> b] \in ReqStates BY DEF ReqStates
<1> QED BY <1>1, <1>2, <1>3, <1>4, <1>5, HandlerActs DEF Retry

LEMMA ResumeGood ==
    ASSUME Inv, NEW h \in Handlers, NEW s \in Sessions, Resume(h, s) PROVE Good
<1>1. Quiet /\ WaitingOK' /\ TokenOK' /\ SlotsOK' BY Frames DEF Resume
<1>2. PICK b \in Seq(RequestEvents) : b = <<QueueResumed>> BY RequestEventsAre, OneEvent
<1>3. [at |-> "append", session |-> s, events |-> b] \in ReqStates BY DEF ReqStates
<1> QED BY <1>1, <1>2, <1>3, HandlerActs DEF Resume

LEMMA AppendRequestGood ==
    ASSUME Inv, NEW h \in Handlers, AppendRequest(h) PROVE Good
<1>1. req[h].session \in Sessions /\ req[h].events \in Seq(QuietEvents)
  BY HandlerAt, QuietSeqs DEF AppendRequest
<1>2. Quiet BY <1>1, QuietAppend DEF AppendRequest, Inv
<1>3. WaitingOK' /\ TokenOK' /\ SlotsOK' BY Frames DEF AppendRequest
<1>4. [at |-> "spawn", session |-> req[h].session] \in ReqStates BY <1>1 DEF ReqStates
<1> QED BY <1>2, <1>3, <1>4, HandlerActs DEF AppendRequest

LEMMA FailRequestGood ==
    ASSUME Inv, NEW h \in Handlers, FailRequest(h) PROVE Good
<1>1. SlotsOK'
  <2>1. CASE "run" \in DOMAIN req[h] BY <2>1, HandlerAt, SlotsRelease DEF FailRequest, Inv
  <2>2. CASE "run" \notin DOMAIN req[h] BY <2>2, Frames DEF FailRequest
  <2> QED BY <2>1, <2>2
<1>2. Quiet /\ WaitingOK' /\ TokenOK' BY Frames DEF FailRequest, Refused
<1> QED BY <1>1, <1>2, HandlerAt, HandlerActs DEF FailRequest

LEMMA SpawnForRequestGood ==
    ASSUME Inv, NEW h \in Handlers, SpawnForRequest(h) PROVE Good
<1>1. req[h].session \in Sessions BY HandlerAt DEF SpawnForRequest
<1>2. WaitingOK' BY <1>1 DEF SpawnForRequest, SpawnWorker, Inv, WaitingOK
<1>3. Quiet /\ TokenOK' /\ SlotsOK' BY Frames DEF SpawnForRequest
<1> QED BY <1>2, <1>3, HandlerAt, HandlerActs DEF SpawnForRequest

LEMMA CancelInactiveGood ==
    ASSUME Inv, NEW h \in Handlers, NEW s \in Sessions, NEW r \in Runs, CancelInactive(h, s, r)
    PROVE  Good
<1>1. Quiet /\ WaitingOK' /\ TokenOK' /\ SlotsOK' BY Frames DEF CancelInactive
<1>2. [at |-> "cancel", session |-> s, run |-> r] \in ReqStates BY DEF ReqStates
<1> QED BY <1>1, <1>2, HandlerActs DEF CancelInactive

LEMMA AppendCancelGood ==
    ASSUME Inv, NEW h \in Handlers, AppendCancel(h) PROVE Good
<1>1. req[h].session \in Sessions /\ req[h].run \in Runs BY HandlerAt DEF AppendCancel
<1>2. RunEnded(req[h].run, "cancelled") \in QuietEvents BY <1>1, EventsAre DEF Terminal
<1>3. Quiet /\ \E u \in {NoReq, [at |-> "release", run |-> req[h].run]} :
                  req' = [req EXCEPT ![h] = u]
  <2>1. CASE /\ AppendMany(req[h].session, <<RunEnded(req[h].run, "cancelled")>>)
             /\ req' = [req EXCEPT ![h] = [at |-> "release", run |-> req[h].run]]
    BY <1>1, <1>2, <2>1, QuietOne DEF Inv
  <2>2. CASE UNCHANGED proj /\ req' = [req EXCEPT ![h] = NoReq] BY <2>2, Frames
  <2> QED BY <2>1, <2>2 DEF AppendCancel, Refused
<1>4. PICK u \in {NoReq, [at |-> "release", run |-> req[h].run]} : req' = [req EXCEPT ![h] = u]
  BY <1>3
<1>5. u \in ReqStates BY <1>1, <1>4 DEF ReqStates
<1>6. WaitingOK' /\ TokenOK' /\ SlotsOK' BY Frames DEF AppendCancel
<1> QED BY <1>3, <1>4, <1>5, <1>6, HandlerActs DEF AppendCancel

LEMMA ReleaseCancelledGood ==
    ASSUME Inv, NEW h \in Handlers, ReleaseCancelled(h) PROVE Good
<1>1. SlotsOK' BY HandlerAt, SlotsRelease DEF ReleaseCancelled, Inv
<1>2. Quiet /\ WaitingOK' /\ TokenOK' BY Frames DEF ReleaseCancelled
<1> QED BY <1>1, <1>2, HandlerAt, HandlerActs DEF ReleaseCancelled

LEMMA CancelActiveGood ==
    ASSUME Inv, NEW h \in Handlers, NEW s \in Sessions, NEW r \in Runs, CancelActive(h, s, r)
    PROVE  Good
<1>1. TokenOK' BY DEF CancelActive, Inv, TokenOK
<1>2. /\ ServerOK' /\ RemovalOK' /\ VisitOK' /\ Quiet /\ WaitingOK' /\ ReqOK' /\ SlotsOK'
  BY Frames DEF CancelActive
<1>3. WorkerOK' /\ AtMostOne' BY <1>2, NoWorkerMoves DEF CancelActive
<1> QED BY <1>1, <1>2, <1>3 DEF Good, Inv, Quiet

LEMMA DropRequestGood ==
    ASSUME Inv, NEW h \in Handlers, DropRequest(h) PROVE Good
<1>1. Quiet /\ WaitingOK' /\ TokenOK' /\ SlotsOK' BY Frames DEF DropRequest
<1> QED BY <1>1, HandlerAt, HandlerActs DEF DropRequest

LEMMA HandlerStepGood ==
    ASSUME Inv, NEW h \in Handlers, HandlerStep(h) \/ NewRequest(h) \/ DropRequest(h) PROVE Good
BY AppendRequestGood, FailRequestGood, SpawnForRequestGood, AppendCancelGood,
   ReleaseCancelledGood, QueueRunGood, ResumeGood, RetryGood, CancelInactiveGood,
   CancelActiveGood, DropRequestGood
   DEF HandlerStep, NewRequest

-----------------------------------------------------------------------------
(* Deletion, shutdown, crash and recovery.                                  *)

\* A step of the process that touches no handler.
LEMMA ProcessActs ==
    ASSUME Inv, Quiet, ServerOK', RemovalOK', VisitOK', WaitingOK', TokenOK', ReqOK', SlotsOK',
           worker' = worker \/ worker' = [s \in Sessions |-> NoWorker]
    PROVE  Good
<1>1. WorkerOK' /\ AtMostOne' BY NoWorkerMoves
<1> QED BY <1>1 DEF Good, Inv, Quiet

LEMMA NoDeletionType ==
    /\ NoDeletion \in DeletionStates
    /\ [NoDeletion EXCEPT !.at = "abandoned"] \in DeletionStates
    /\ \A S \in SUBSET ProjectSessions :
          /\ [NoDeletion EXCEPT !.at = "cancel", !.todo = S] \in DeletionStates
          /\ [NoDeletion EXCEPT !.at = "wait", !.todo = S] \in DeletionStates
BY DEF NoDeletion, DeletionStates

LEMMA BeginDeletionGood == ASSUME Inv, BeginDeletion PROVE Good
<1>1. RemovalOK' BY NoDeletionType DEF BeginDeletion, Inv, RemovalOK
<1>2. ServerOK' /\ VisitOK' /\ Quiet /\ WaitingOK' /\ TokenOK' /\ ReqOK' /\ SlotsOK'
  BY Frames DEF BeginDeletion
<1> QED BY <1>1, <1>2, ProcessActs DEF BeginDeletion

LEMMA CancelForDeletionGood ==
    ASSUME Inv, NEW s \in ProjectSessions, CancelForDeletion(s) PROVE Good
<1> DEFINE left == RunsIn(proj[s], {"queued", "requires_action"})
<1>0. s \in Sessions BY SupervisorAssumption
<1>1. PICK b \in Seq(RequestEvents) :
        b = [i \in DOMAIN InOrder(left) |-> RunEnded(InOrder(left)[i], "cancelled")]
  <2>1. left \in SUBSET Runs BY DEF RunsIn
  <2>2. "cancelled" \in Terminal BY DEF Terminal
  <2> HIDE DEF left
  <2> QED BY <2>1, <2>2, EndAll
<1>2. RemovalOK'
  <2>1. deletion' = [deletion EXCEPT !.at = "append", !.session = s, !.events = b]
    BY <1>1 DEF CancelForDeletion
  <2>2. deletion \in DeletionStates BY DEF Inv, RemovalOK
  <2>3. deletion' \in DeletionStates BY <1>0, <2>1, <2>2 DEF DeletionStates
  <2> QED BY <2>3 DEF CancelForDeletion, Inv, RemovalOK
<1>3. TokenOK' BY DEF CancelForDeletion, Inv, TokenOK
<1>4. ServerOK' /\ VisitOK' /\ Quiet /\ WaitingOK' /\ ReqOK' /\ SlotsOK'
  BY Frames DEF CancelForDeletion
<1> QED BY <1>2, <1>3, <1>4, ProcessActs DEF CancelForDeletion

LEMMA AppendDeletionGood == ASSUME Inv, AppendDeletion PROVE Good
<1> DEFINE s == deletion.session
           ended == {r \in Runs : \E i \in DOMAIN deletion.events :
                                     deletion.events[i] = RunEnded(r, "cancelled")}
           left == deletion.todo \ {s}
<1>1. deletion \in DeletionStates /\ deletion.at = "append" BY DEF Inv, RemovalOK, AppendDeletion
<1>2. s \in Sessions /\ deletion.events \in Seq(QuietEvents) /\ left \in SUBSET ProjectSessions
  BY <1>1, QuietSeqs DEF DeletionStates
<1>3. ended \in SUBSET Runs OBVIOUS
<1>4. \/ /\ AppendMany(s, deletion.events)
         /\ Slots!ReleaseAll(ended)
         /\ \/ deletion' = [NoDeletion EXCEPT !.at = "wait", !.todo = ProjectSessions]
            \/ deletion' = [NoDeletion EXCEPT !.at = "cancel", !.todo = left]
      \/ UNCHANGED <<proj, slots>> /\ deletion' = NoDeletion
  BY DEF AppendDeletion, Refused
<1> HIDE DEF s, ended, left
<1>5. deletion' \in DeletionStates BY <1>2, <1>4, NoDeletionType
<1>6. RemovalOK' BY <1>5 DEF AppendDeletion, Inv, RemovalOK
<1>7. Quiet /\ SlotsOK'
  <2>1. CASE AppendMany(s, deletion.events) /\ Slots!ReleaseAll(ended)
    BY <2>1, <1>2, <1>3, QuietAppend, SlotsReleaseAll DEF Inv
  <2>2. CASE UNCHANGED <<proj, slots>> BY <2>2, Frames
  <2> QED BY <1>4, <2>1, <2>2
<1>8. ServerOK' /\ VisitOK' /\ WaitingOK' /\ TokenOK' /\ ReqOK' BY Frames DEF AppendDeletion
<1> QED BY <1>6, <1>7, <1>8, ProcessActs DEF AppendDeletion

LEMMA WaitForSessionIdleGood ==
    ASSUME Inv, NEW s \in ProjectSessions, WaitForSessionIdle(s) PROVE Good
<1>1. deletion \in DeletionStates /\ deletion.at = "wait" BY DEF Inv, RemovalOK, WaitForSessionIdle
<1>2. deletion' \in DeletionStates BY <1>1 DEF WaitForSessionIdle, DeletionStates
<1>3. RemovalOK' BY <1>2 DEF WaitForSessionIdle, Inv, RemovalOK
<1>4. ServerOK' /\ VisitOK' /\ Quiet /\ WaitingOK' /\ TokenOK' /\ ReqOK' /\ SlotsOK'
  BY Frames DEF WaitForSessionIdle
<1> QED BY <1>3, <1>4, ProcessActs DEF WaitForSessionIdle

LEMMA DeleteProjectGood == ASSUME Inv, DeleteProject PROVE Good
<1>1. RemovalOK' BY NoDeletionType DEF DeleteProject, Inv, RemovalOK
<1>2. ServerOK' /\ VisitOK' /\ Quiet /\ WaitingOK' /\ TokenOK' /\ ReqOK' /\ SlotsOK'
  BY Frames DEF DeleteProject
<1> QED BY <1>1, <1>2, ProcessActs DEF DeleteProject

LEMMA DropDeletionGood == ASSUME Inv, DropDeletion PROVE Good
<1>1. RemovalOK' BY NoDeletionType DEF DropDeletion, Inv, RemovalOK
<1>2. ServerOK' /\ VisitOK' /\ Quiet /\ WaitingOK' /\ TokenOK' /\ ReqOK' /\ SlotsOK'
  BY Frames DEF DropDeletion
<1> QED BY <1>1, <1>2, ProcessActs DEF DropDeletion

LEMMA FreshIsGood ==
    ASSUME Inv, FreshMemory, UNCHANGED <<gone, proj>>, ServerOK', VisitOK'
    PROVE  Good
<1>1. SlotsOK'
  <2>1. Slots!Init' BY DEF FreshMemory, Slots!Init
  <2>2. Slots!Init' => SlotsOK' BY SlotsInit, PTL
  <2> QED BY <2>1, <2>2
<1>2. RemovalOK' BY NoDeletionType DEF FreshMemory, Inv, RemovalOK
<1>3. WaitingOK' /\ TokenOK' /\ ReqOK'
  BY DEF FreshMemory, WaitingOK, TokenOK, ReqOK, ReqStates
<1>4. Quiet BY Frames
<1> QED BY <1>1, <1>2, <1>3, <1>4, ProcessActs DEF FreshMemory

LEMMA ShutdownStages ==
    {"draining", "interrupting", "overdue", "stopped", "expired", "failed", "down", "up",
     "recovering"} \subseteq {"up", "down", "recovering"} \cup Stopping
BY DEF Stopping

LEMMA BeginShutdownGood == ASSUME Inv, BeginShutdown PROVE Good
<1>1. ServerOK' BY ShutdownStages DEF BeginShutdown, Inv, ServerOK
<1>2. RemovalOK' /\ VisitOK' /\ Quiet /\ WaitingOK' /\ TokenOK' /\ ReqOK' /\ SlotsOK'
  BY Frames DEF BeginShutdown
<1> QED BY <1>1, <1>2, ProcessActs DEF BeginShutdown

LEMMA StopWorkersGood == ASSUME Inv, StopWorkers PROVE Good
<1>1. ServerOK' BY ShutdownStages DEF StopWorkers, ServerOK
<1>2. WaitingOK' BY DEF StopWorkers, WaitingOK
<1>3. RemovalOK' /\ VisitOK' /\ Quiet /\ TokenOK' /\ ReqOK' /\ SlotsOK' BY Frames DEF StopWorkers
<1> QED BY <1>1, <1>2, <1>3, ProcessActs DEF StopWorkers

LEMMA InterruptEventsType ==
    ASSUME NEW p PROVE InterruptEvents(p) \in Seq(ClosingEvents)
<1> DEFINE left == RunsIn(p, Unfinished)
<1>1. left \in SUBSET Runs BY DEF RunsIn
<1>2. "interrupted" \in Terminal BY DEF Terminal
<1>3. PICK a \in Seq(ClosingEvents) :
        a = [i \in DOMAIN InOrder(left) |-> RunEnded(InOrder(left)[i], "interrupted")]
  <2> HIDE DEF left
  <2> QED BY <1>1, <1>2, EndAll
<1>4. PICK c \in Seq(ClosingEvents) :
        c = IF p.phase = "running" THEN <<PhaseChanged("running", "interrupted")>> ELSE <<>>
  <2>1. PhaseChanged("running", "interrupted") \in ClosingEvents BY RequestEventsAre DEF Phases
  <2>2. <<PhaseChanged("running", "interrupted")>> \in Seq(ClosingEvents) BY <2>1, OneEvent
  <2>3. <<>> \in Seq(ClosingEvents) OBVIOUS
  <2> QED BY <2>2, <2>3
<1>5. InterruptEvents(p) = a \o c BY <1>3, <1>4 DEF InterruptEvents
<1>6. a \o c \in Seq(ClosingEvents) OBVIOUS
<1> QED BY <1>5, <1>6

LEMMA InterruptReadGood ==
    ASSUME Inv, NEW s \in Sessions, InterruptRead(s) PROVE Good
<1>1. PICK b \in Seq(ClosingEvents) : b = InterruptEvents(proj[s]) BY InterruptEventsType
<1>2. \/ server' = "failed" /\ todo' = {} /\ UNCHANGED visit
      \/ visit' = [session |-> s, events |-> b] /\ UNCHANGED <<server, todo>>
  BY <1>1 DEF InterruptRead
<1>3. ServerOK' BY <1>2, ShutdownStages DEF Inv, ServerOK
<1>4. VisitOK' BY <1>2 DEF Inv, VisitOK, Visits
<1>5. RemovalOK' /\ Quiet /\ WaitingOK' /\ TokenOK' /\ ReqOK' /\ SlotsOK'
  BY Frames DEF InterruptRead
<1> QED BY <1>3, <1>4, <1>5, ProcessActs DEF InterruptRead

LEMMA VisitIs ==
    ASSUME Inv, visit # NoVisit
    PROVE  visit.session \in Sessions /\ visit.events \in Seq(ClosingEvents)
BY DEF Inv, VisitOK, Visits

LEMMA NoVisitType ==
    NoVisit \in Visits /\ \A s \in Sessions : [NoVisit EXCEPT !.session = s] \in Visits
<1>1. <<>> \in Seq(ClosingEvents) OBVIOUS
<1>2. \A s \in Sessions : [NoVisit EXCEPT !.session = s] = [session |-> s, events |-> <<>>]
  BY DEF NoVisit
<1> QED BY <1>1, <1>2 DEF Visits

LEMMA InterruptAppendGood == ASSUME Inv, InterruptAppend PROVE Good
<1> DEFINE s == visit.session
           ended == {r \in Runs : \E i \in DOMAIN visit.events :
                                     visit.events[i] = RunEnded(r, "interrupted")}
<1>1. s \in Sessions /\ visit.events \in Seq(QuietEvents) BY VisitIs, QuietSeqs DEF InterruptAppend
<1>2. ended \in SUBSET Runs OBVIOUS
<1>3. \/ /\ AppendMany(s, visit.events) /\ Slots!ReleaseAll(ended)
         /\ todo' = todo \ {s} /\ UNCHANGED server
      \/ UNCHANGED <<proj, slots>> /\ server' = "failed" /\ todo' = {}
  BY DEF InterruptAppend, Refused
<1> HIDE DEF s, ended
<1>4. ServerOK' BY <1>3, ShutdownStages DEF Inv, ServerOK
<1>5. VisitOK' BY NoVisitType DEF InterruptAppend, VisitOK
<1>6. Quiet /\ SlotsOK'
  <2>1. CASE AppendMany(s, visit.events) /\ Slots!ReleaseAll(ended)
    BY <2>1, <1>1, <1>2, QuietAppend, SlotsReleaseAll DEF Inv
  <2>2. CASE UNCHANGED <<proj, slots>> BY <2>2, Frames
  <2> QED BY <1>3, <2>1, <2>2
<1>7. RemovalOK' /\ WaitingOK' /\ TokenOK' /\ ReqOK' BY Frames DEF InterruptAppend
<1> QED BY <1>4, <1>5, <1>6, <1>7, ProcessActs DEF InterruptAppend

LEMMA EndShutdownGood == ASSUME Inv, EndShutdown PROVE Good
<1>1. ServerOK' BY ShutdownStages DEF EndShutdown, Inv, ServerOK
<1>2. RemovalOK' /\ VisitOK' /\ Quiet /\ WaitingOK' /\ TokenOK' /\ ReqOK' /\ SlotsOK'
  BY Frames DEF EndShutdown
<1> QED BY <1>1, <1>2, ProcessActs DEF EndShutdown

LEMMA ExitGood == ASSUME Inv, Exit PROVE Good
<1>1. ServerOK' BY ShutdownStages DEF Exit, Inv, ServerOK
<1>2. VisitOK' BY Frames DEF Exit
<1> QED BY <1>1, <1>2, FreshIsGood DEF Exit

LEMMA CrashGood == ASSUME Inv, Crash PROVE Good
<1>1. ServerOK' BY ShutdownStages DEF Crash, Inv, ServerOK
<1>2. VisitOK' BY NoVisitType DEF Crash, VisitOK
<1> QED BY <1>1, <1>2, FreshIsGood DEF Crash

LEMMA RestartGood == ASSUME Inv, Restart PROVE Good
<1>1. ServerOK' BY ShutdownStages DEF Restart, Inv, ServerOK
<1>2. RemovalOK' /\ VisitOK' /\ Quiet /\ WaitingOK' /\ TokenOK' /\ ReqOK' /\ SlotsOK'
  BY Frames DEF Restart
<1> QED BY <1>1, <1>2, ProcessActs DEF Restart

LEMMA RecoverSessionGood ==
    ASSUME Inv, NEW s \in Sessions, RecoverSession(s) PROVE Good
<1>1. Quiet BY EventsAre, QuietOne DEF RecoverSession, Inv
<1>2. VisitOK' BY NoVisitType DEF RecoverSession, VisitOK
<1>3. ServerOK' /\ RemovalOK' /\ WaitingOK' /\ TokenOK' /\ ReqOK' /\ SlotsOK'
  BY Frames DEF RecoverSession
<1> QED BY <1>1, <1>2, <1>3, ProcessActs DEF RecoverSession

LEMMA RecoverRunGood == ASSUME Inv, RecoverRun PROVE Good
<1> DEFINE s == visit.session
           active == ActiveRuns(proj[s])
           r == CHOOSE x \in active : \A o \in active : x <= o
<1>1. s \in Sessions BY VisitIs DEF RecoverRun
<1>2. CASE active = {}
  BY <1>2, Frames, ProcessActs, NoVisitType DEF RecoverRun, VisitOK, Inv, ServerOK
<1>3. CASE active # {}
  <2>1. active \subseteq Nat /\ active \subseteq Runs BY IdsAreOrdered DEF ActiveRuns, RunsIn
  <2> HIDE DEF active
  <2>2. \E x \in active : \A o \in active : x <= o BY <1>3, <2>1, NatLeast
  <2>3. r \in Runs BY <2>1, <2>2
  <2>4. AppendMany(s, <<RunEnded(r, "interrupted")>>) BY <1>3 DEF RecoverRun, active
  <2> HIDE DEF r
  <2>5. RunEnded(r, "interrupted") \in QuietEvents BY <2>3, EventsAre DEF Terminal
  <2>6. Quiet BY <1>1, <2>4, <2>5, QuietOne DEF Inv
  <2>7. VisitOK' BY NoVisitType DEF RecoverRun, VisitOK
  <2>8. ServerOK' BY DEF RecoverRun, Inv, ServerOK
  <2>9. RemovalOK' /\ WaitingOK' /\ TokenOK' /\ ReqOK' /\ SlotsOK' BY Frames DEF RecoverRun
  <2> QED BY <2>6, <2>7, <2>8, <2>9, ProcessActs DEF RecoverRun
<1> QED BY <1>2, <1>3

LEMMA ServeGood == ASSUME Inv, Serve PROVE Good
<1>1. ServerOK' BY ShutdownStages DEF Serve, Inv, ServerOK
<1>2. RemovalOK' /\ VisitOK' /\ Quiet /\ WaitingOK' /\ TokenOK' /\ ReqOK' /\ SlotsOK'
  BY Frames DEF Serve
<1> QED BY <1>1, <1>2, ProcessActs DEF Serve

-----------------------------------------------------------------------------
(* The theorems.                                                            *)

LEMMA InitGood == Init => Inv
<1> SUFFICES ASSUME Init PROVE Inv OBVIOUS
<1> USE DEF Init
<1>1. ServerOK BY DEF ServerOK
<1>2. RemovalOK BY NoDeletionType DEF RemovalOK
<1>3. VisitOK BY NoVisitType DEF VisitOK
<1>4. Empty \in Readable BY EmptyType DEF Readable, Empty
<1>5. ProjOK BY <1>4 DEF ProjOK
<1>6. NoWorker \in WorkerStates /\ NoWorker.at = "idle" BY DEF NoWorker, WorkerStates
<1>7. WorkerOK BY <1>6 DEF WorkerOK
<1>8. WaitingOK BY DEF WaitingOK
<1>9. TokenOK BY DEF TokenOK
<1>10. ReqOK BY DEF ReqOK, ReqStates
<1>11. SlotsOK BY SlotsInit
<1>12. ActiveRuns(Empty) = {} BY DEF ActiveRuns, RunsIn, Empty, NoRun
<1>13. AtMostOne BY <1>12 DEF AtMostOne
<1> QED BY <1>1, <1>2, <1>3, <1>5, <1>7, <1>8, <1>9, <1>10, <1>11, <1>13 DEF Inv

LEMMA StepGood == Inv /\ [Next]_vars => Good
<1> SUFFICES ASSUME Inv, [Next]_vars PROVE Good OBVIOUS
<1>1. CASE TaskStep
  <2>1. CASE \E s \in Sessions : EnterSession(s) \/ WorkerStep(s)
    BY <2>1, EnterSessionGood, WorkerStepGood
  <2>2. CASE \E h \in Handlers : HandlerStep(h) BY <2>2, HandlerStepGood
  <2>3. CASE ShutdownStep
    BY <2>3, StopWorkersGood, InterruptAppendGood, EndShutdownGood, ExitGood, InterruptReadGood
       DEF ShutdownStep
  <2>4. CASE RecoveryStep
    BY <2>4, RecoverRunGood, ServeGood, RecoverSessionGood DEF RecoveryStep
  <2>5. CASE DeletionStep
    BY <2>5, AppendDeletionGood, DeleteProjectGood, CancelForDeletionGood, WaitForSessionIdleGood
       DEF DeletionStep
  <2> QED BY <1>1, <2>1, <2>2, <2>3, <2>4, <2>5 DEF TaskStep
<1>2. CASE \E h \in Handlers : NewRequest(h) \/ DropRequest(h) BY <1>2, HandlerStepGood
<1>3. CASE BeginShutdown \/ BeginDeletion \/ DropDeletion \/ Crash \/ Restart
  BY <1>3, BeginShutdownGood, BeginDeletionGood, DropDeletionGood, CrashGood, RestartGood
<1>4. CASE UNCHANGED vars
  <2>1. UNCHANGED <<process, proj, worker, waiting, token, req, slots>> BY <1>4 DEF vars
  <2>2. /\ ServerOK' /\ RemovalOK' /\ VisitOK' /\ Quiet /\ WaitingOK' /\ TokenOK' /\ ReqOK'
        /\ SlotsOK'
    BY <2>1, Frames
  <2> QED BY <2>1, <2>2, ProcessActs
<1> QED BY <1>1, <1>2, <1>3, <1>4 DEF Next

LEMMA InvHolds == Spec => []Inv
<1>1. Inv /\ [Next]_vars => Inv' BY StepGood DEF Good
<1> QED BY <1>1, InitGood, PTL DEF Spec

\* In every scenario the process, its workers, handlers, deletion and
\* projections are in the states supervisor.rs gives them.
THEOREM SupervisorTypes == Spec => []TypeOK
<1>1. ASSUME Inv PROVE TypeOK
  <2> USE <1>1 DEF Inv
  <2>1. server \in {"up", "down", "recovering"} \cup Stopping /\ todo \subseteq Sessions
    BY DEF ServerOK
  <2>2. gone \subseteq ProjectSessions /\ deletion.at \in {"none", "cancel", "append", "wait", "abandoned"}
    BY DEF RemovalOK, DeletionStates
  <2>3. ASSUME NEW s \in Sessions
        PROVE  /\ proj[s].phase \in Phases
               /\ \A r \in Runs : proj[s].runs[r].status \in RunStatuses \cup {"absent"}
    BY DEF ProjOK, Readable, Projections, RunRecords
  <2>4. ASSUME NEW s \in Sessions
        PROVE  worker[s].at \in HoldsPermit \cup {"idle", "loop", "empty", "phase", "start", "permit"}
    BY DEF WorkerOK, WorkerStates, HoldsPermit
  <2>5. \A s \in Sessions : waiting[s] \in Nat BY DEF WaitingOK
  <2>6. token \in [Runs -> {"none", "live", "cancelled"}] BY DEF TokenOK
  <2>7. \A h \in Handlers : req[h].at \in {"idle", "append", "spawn", "cancel", "release"}
    BY DEF ReqOK, ReqStates, NoReq
  <2> QED BY <2>1, <2>2, <2>3, <2>4, <2>5, <2>6, <2>7 DEF TypeOK
<1> QED BY <1>1, InvHolds, PTL

\* No interleaving of workers, handlers, a deletion, a shutdown, crashes and
\* recoveries, refused appends included, gives a session two running runs.
THEOREM OneActiveRunHolds == Spec => []OneActiveRun
<1>1. ASSUME Inv PROVE OneActiveRun
  <2> SUFFICES ASSUME NEW s \in Sessions PROVE Cardinality(ActiveRuns(proj[s])) <= 1
    BY DEF OneActiveRun
  <2> DEFINE A == ActiveRuns(proj[s])
  <2>1. \A r, o \in A : r = o BY <1>1 DEF Inv, AtMostOne
  <2> HIDE DEF A
  <2>2. CASE A = {} BY <2>2, FS_EmptySet DEF A
  <2>3. CASE A # {}
    <3>1. PICK r \in A : TRUE BY <2>3
    <3>2. A = {r} BY <2>1, <3>1
    <3>3. Cardinality({r}) = 1 BY FS_Singleton
    <3>4. ActiveRuns(proj[s]) = {r} BY <3>2 DEF A
    <3> QED BY <3>3, <3>4
  <2> QED BY <2>2, <2>3
<1> QED BY <1>1, InvHolds, PTL

\* On every path of the supervisor, releases by handlers, workers, a
\* deletion and the shutdown included, the two counters of the admission
\* controller are what its run map holds and below the configured limits.
THEOREM SlotCountersHold == Spec => [](SlotCounters /\ Slots!WithinLimits)
<1>1. Inv => SlotCounters /\ Slots!WithinLimits BY DEF Inv, SlotsOK, SlotCounters
<1> QED BY <1>1, InvHolds, PTL

\* Whatever is still in flight about a run that has ended, no step changes
\* its terminal status.
THEOREM EndedForGoodHolds == Spec => EndedForGood
<1>1. Inv /\ [Next]_vars => [\A s \in Sessions : \A r \in RunsIn(proj[s], Terminal) :
          proj'[s].runs[r].status = proj[s].runs[r].status]_proj
  BY StepGood DEF Good, Kept
<1> QED BY <1>1, InvHolds, PTL DEF Spec, EndedForGood

-----------------------------------------------------------------------------
(* Who has the run that is running.                                         *)

\* No recovery is cut short.
Whole == "recovery_crash" \notin disturbances

\* Where the worker of a session carries a run that may be running, and
\* where it has none.
Carrying == {"permit", "open", "stream", "message", "end"}
Clear(w) ==
    \/ w.at \in {"empty", "phase", "start", "release", "turn"}
    \/ w.at = "message" /\ w.out = "requires_action"

\* The last message is the one the worker has opened.
LastOpen(p) ==
    \E m \in Messages : /\ p.messages[m].status = "open" /\ p.messages[m].role = "assistant"
                        /\ \A o \in Messages : o > m => p.messages[o].status = "absent"
Streaming(w) == w.at = "stream" \/ (w.at = "message" /\ w.out = "completed")

HasActive(s) == s \notin gone /\ ActiveRuns(proj[s]) # {}

Owns(s) ==
    /\ Clear(worker[s]) => ActiveRuns(proj[s]) = {}
    /\ worker[s].at \in Carrying => ActiveRuns(proj[s]) \subseteq {worker[s].run}
    /\ Streaming(worker[s]) => LastOpen(proj[s])
    /\ worker[s].at = "start" => s \in gone \/ proj[s].phase = "running"

\* A run that is running is carried by the worker, and its session's phase
\* says so, which is how the next start will find it.
Held(s) ==
    /\ Steady /\ Whole /\ server \in {"up", "draining"} /\ HasActive(s) => worker[s].at \in Carrying
    /\ Whole /\ server # "recovering" /\ HasActive(s) => proj[s].phase = "running"
    /\ Whole /\ server = "recovering" /\ HasActive(s) => s \in todo
    /\ server \notin {"up", "draining"} => worker[s].at = "idle" /\ waiting[s] = 0

\* What the shutdown is about to append ends every run that is running.
VisitEnds ==
    /\ server \in {"up", "draining", "stopped", "expired", "failed", "down"} => visit = NoVisit
    /\ Interrupting /\ visit # NoVisit =>
          \A r \in ActiveRuns(proj[visit.session]) :
              \E i \in DOMAIN visit.events : visit.events[i] = RunEnded(r, "interrupted")

Work == VisitEnds /\ \A s \in Sessions : Owns(s) /\ Held(s)

-----------------------------------------------------------------------------
(* What an append does to a session.                                        *)

LEMMA AppendedIs ==
    ASSUME ProjOK, NEW s \in Sessions, NEW b, AppendMany(s, b),
           ApplyAll(proj[s], Record(0, b)) \in Projections
    PROVE  \E q : /\ q = ApplyAll(proj[s], Record(0, b)) /\ q.phase # "corrupt"
                  /\ proj'[s].phase = q.phase /\ proj'[s].runs = q.runs
                  /\ proj'[s].messages = q.messages
                  /\ s \notin gone /\ \A t \in Sessions \ {s} : proj'[t] = proj[t]
<1>1. PICK q : q = ApplyAll(proj[s], Record(0, b)) OBVIOUS
<1>2. PICK n : n = Appended(s, b) OBVIOUS
<1>3. n = [q EXCEPT !.last = 0, !.revision = 0] BY <1>1, <1>2 DEF Appended
<1>4. n.runs = q.runs /\ n.phase = q.phase /\ n.messages = q.messages
  BY <1>1, <1>3 DEF Projections
<1>5. n.phase # "corrupt" /\ proj' = [proj EXCEPT ![s] = n] /\ s \notin gone
  BY <1>2 DEF AppendMany, Accepted
<1>6. proj'[s] = n /\ \A t \in Sessions \ {s} : proj'[t] = proj[t] BY <1>5 DEF ProjOK
<1> QED BY <1>1, <1>4, <1>5, <1>6

LEMMA AppendOne ==
    ASSUME ProjOK, NEW s \in Sessions, NEW e \in SupervisorEvents, AppendMany(s, <<e>>)
    PROVE  /\ s \notin gone /\ Accepts(proj[s], e)
           /\ \A t \in Sessions \ {s} : proj'[t] = proj[t]
           /\ proj'[s].phase = PhaseAfter(proj[s], e)
           /\ \A r \in Runs : proj'[s].runs[r] = IF e \in RunEvents /\ e.run = r
                                                 THEN RunEffect(proj[s].runs[r], e)
                                                 ELSE proj[s].runs[r]
           /\ e \notin MessageEvents => proj'[s].messages = proj[s].messages
           /\ e.type = "message_started" =>
                 proj'[s].messages = [proj[s].messages EXCEPT
                                         ![e.message] = [status |-> "open", role |-> e.role]]
<1> DEFINE p == proj[s]
<1>1. p \in Projections /\ p.phase # "corrupt" BY DEF ProjOK, Readable
<1> HIDE DEF p
<1>0. PICK q : q = ApplyAll(p, Record(0, <<e>>)) OBVIOUS
<1>2. PICK id \in Nat : /\ Accepts(p, e) => q = Effect(p, id, e) /\ q.phase # "corrupt"
                        /\ ~Accepts(p, e) => q.phase = "corrupt"
  BY <1>0, <1>1, ApplySingle
<1>3. q \in Projections
  <2>1. IsSeq(<<e>>) /\ Len(<<e>>) = 1 /\ <<e>>[1] = e BY SingletonIsSeq
  <2>2. PICK b : b = <<e>> OBVIOUS
  <2>3. \A i \in 1..Len(b) : b[i] \in SupervisorEvents /\ Started(b[i]) \subseteq Started(e)
    BY <2>1, <2>2
  <2> QED BY <1>0, <1>1, <2>1, <2>2, <2>3, ApplyBatch
<1>4. /\ q.phase # "corrupt"
      /\ proj'[s].phase = q.phase /\ proj'[s].runs = q.runs /\ proj'[s].messages = q.messages
      /\ s \notin gone /\ \A t \in Sessions \ {s} : proj'[t] = proj[t]
  BY <1>0, <1>3, AppendedIs DEF p
<1>5. Accepts(p, e) /\ q = Effect(p, id, e) BY <1>2, <1>4
<1>6. q.phase = PhaseAfter(p, e) /\ (e \notin MessageEvents => q.messages = p.messages)
      /\ (e.type = "message_started" => q.messages =
            [p.messages EXCEPT ![e.message] = [status |-> "open", role |-> e.role]])
  BY <1>1, <1>5, EffectRest
<1>7. \A r \in Runs : q.runs[r] = IF e \in RunEvents /\ e.run = r
                                 THEN RunEffect(p.runs[r], e) ELSE p.runs[r]
  BY <1>1, <1>5, EffectType
<1> QED BY <1>4, <1>5, <1>6, <1>7 DEF p

\* With a storage that works, only an illegal event is refused.
LEMMA RefusedOne ==
    ASSUME ProjOK, NEW s \in Sessions, s \notin gone, NEW e \in SupervisorEvents, Refused(s, <<e>>),
           Steady
    PROVE  ~Accepts(proj[s], e)
<1>1. proj[s] \in Projections /\ proj[s].phase # "corrupt" BY DEF ProjOK, Readable
<1>0. PICK q : q = ApplyAll(proj[s], Record(0, <<e>>)) OBVIOUS
<1>2. PICK id \in Nat : /\ Accepts(proj[s], e) => q = Effect(proj[s], id, e) /\ q.phase # "corrupt"
                        /\ ~Accepts(proj[s], e) => q.phase = "corrupt"
  BY <1>0, <1>1, ApplySingle
<1>3. ~Accepted(s, <<e>>) BY DEF Refused, Steady
<1>4. Appended(s, <<e>>) = [q EXCEPT !.last = 0, !.revision = 0] BY <1>0 DEF Appended
<1>5. Appended(s, <<e>>).phase = "corrupt" BY <1>3 DEF Accepted
<1>6. SUFFICES ASSUME Accepts(proj[s], e) PROVE FALSE OBVIOUS
<1>7. q \in Projections BY <1>1, <1>2, <1>6, EffectType
<1>8. Appended(s, <<e>>).phase = q.phase BY <1>4, <1>7 DEF Projections
<1> QED BY <1>2, <1>5, <1>6, <1>8

LEMMA AppendFollows ==
    ASSUME ProjOK, NEW s \in Sessions, NEW b \in Seq(QuietEvents), AppendMany(s, b)
    PROVE  /\ s \notin gone /\ \A t \in Sessions \ {s} : proj'[t] = proj[t]
           /\ proj'[s].phase # "corrupt"
           /\ Follows(proj[s], proj'[s], {b[i] : i \in 1..Len(b)})
<1>1. proj[s] \in Projections BY DEF ProjOK, Readable
<1>2. IsSeq(b) BY TypedSeq
<1>3. \A i \in 1..Len(b) : b[i] \in SupervisorEvents /\ Started(b[i]) \subseteq {}
  <2>1. \A i \in 1..Len(b) : b[i] \in QuietEvents OBVIOUS
  <2> QED BY <2>1 DEF QuietEvents, Started
<1>4. PICK q : q = ApplyAll(proj[s], Record(0, b)) OBVIOUS
<1>5. q \in Projections BY <1>1, <1>2, <1>3, <1>4, ApplyBatch
<1>6. Follows(proj[s], q, {b[i] : i \in 1..Len(b)}) BY <1>1, <1>2, <1>3, <1>4, FollowsBatch
<1>7. /\ q.phase # "corrupt" /\ s \notin gone /\ \A t \in Sessions \ {s} : proj'[t] = proj[t]
      /\ proj'[s].phase = q.phase /\ proj'[s].runs = q.runs /\ proj'[s].messages = q.messages
  BY <1>4, <1>5, AppendedIs
<1> DEFINE B == {b[i] : i \in 1..Len(b)}
<1> HIDE DEF B
<1>8. Follows(proj[s], q, B) => Follows(proj[s], proj'[s], B) BY <1>7 DEF Follows
<1> QED BY <1>6, <1>7, <1>8 DEF B

\* Handlers and deletions move no phase and touch no message.
Mild ==
    /\ Quiet
    /\ \A t \in Sessions : /\ proj'[t].phase = proj[t].phase
                           /\ proj'[t].messages = proj[t].messages

LEMMA MildAppend ==
    ASSUME ProjOK, NEW s \in Sessions, NEW b \in Seq(RequestEvents), AppendMany(s, b)
    PROVE  Mild
<1>1. b \in Seq(QuietEvents) BY QuietSeqs
<1>2. /\ \A t \in Sessions \ {s} : proj'[t] = proj[t]
      /\ proj'[s].phase # "corrupt"
      /\ Follows(proj[s], proj'[s], {b[i] : i \in 1..Len(b)})
  BY <1>1, AppendFollows
<1>3. \A i \in 1..Len(b) : b[i].type \in {"run_queued", "queue_resumed", "run_ended"}
  <2>1. \A i \in 1..Len(b) : b[i] \in RequestEvents OBVIOUS
  <2> QED BY <2>1 DEF RequestEvents
<1>4. \A e \in {b[i] : i \in 1..Len(b)} :
         e.type \notin {"phase_changed", "session_interrupted"} /\ e \notin MessageEvents
  BY <1>3 DEF MessageEvents
<1>5. proj'[s].phase = proj[s].phase /\ proj'[s].messages = proj[s].messages
  BY <1>2, <1>4 DEF Follows
<1>6. Quiet BY <1>1, QuietAppend
<1> QED BY <1>2, <1>5, <1>6 DEF Mild

-----------------------------------------------------------------------------
(* What keeps Work.                                                         *)

LEMMA SessionKept ==
    ASSUME NEW t \in Sessions, Owns(t), Held(t), worker'[t] = worker[t],
           ActiveRuns(proj'[t]) \subseteq ActiveRuns(proj[t]),
           proj'[t].phase = proj[t].phase, proj'[t].messages = proj[t].messages,
           gone \subseteq gone', UNCHANGED <<disturbances, server, todo>>,
           server \notin {"up", "draining"} => waiting'[t] = waiting[t]
    PROVE  Owns(t)' /\ Held(t)'
<1>1. LastOpen(proj[t]) => LastOpen(proj'[t]) BY DEF LastOpen
<1>2. Owns(t)' BY <1>1 DEF Owns, Clear, Streaming
<1>3. HasActive(t)' => HasActive(t) BY DEF HasActive
<1>4. Held(t)' BY <1>3 DEF Held, Steady, Whole
<1> QED BY <1>2, <1>4

LEMMA VisitKept ==
    ASSUME Inv, VisitEnds, Quiet, UNCHANGED <<server, visit>>
    PROVE  VisitEnds'
<1>1. visit # NoVisit => visit.session \in Sessions BY VisitIs
<1>2. visit # NoVisit => ActiveRuns(proj'[visit.session]) \subseteq ActiveRuns(proj[visit.session])
  BY <1>1 DEF Quiet
<1> QED BY <1>2 DEF VisitEnds, Interrupting

\* A step of a handler or a deletion.
LEMMA MildWork ==
    ASSUME Inv, Work, Mild, worker' = worker, gone \subseteq gone',
           UNCHANGED <<disturbances, server, todo, visit>>,
           \A t \in Sessions : server \notin {"up", "draining"} => waiting'[t] = waiting[t]
    PROVE  Work'
<1>1. VisitEnds' BY VisitKept DEF Work, Mild
<1>2. ASSUME NEW t \in Sessions PROVE Owns(t)' /\ Held(t)'
  <2>1. /\ ActiveRuns(proj'[t]) \subseteq ActiveRuns(proj[t])
        /\ proj'[t].phase = proj[t].phase /\ proj'[t].messages = proj[t].messages
    BY DEF Mild, Quiet
  <2> QED BY <2>1, SessionKept DEF Work
<1> QED BY <1>1, <1>2 DEF Work

\* Workers are at work only while the server serves or drains.
LEMMA WorkerServes ==
    ASSUME Work, NEW s \in Sessions, worker[s].at # "idle" \/ waiting[s] # 0
    PROVE  server \in {"up", "draining"}
BY DEF Work, Held

\* A step of the worker of s: what it has to show about s itself.
LEMMA WorkerWorks ==
    ASSUME Inv, Work, NEW s \in Sessions, server \in {"up", "draining"}, UNCHANGED process,
           NEW u, worker' = [worker EXCEPT ![s] = u],
           \A t \in Sessions \ {s} : proj'[t] = proj[t],
           NEW A, A = ActiveRuns(proj'[s]),
           Clear(u) => A = {},
           u.at \in Carrying => A \subseteq {u.run},
           Streaming(u) => LastOpen(proj'[s]),
           u.at = "start" => s \in gone \/ proj'[s].phase = "running",
           Steady /\ Whole /\ s \notin gone /\ A # {} => u.at \in Carrying,
           Whole /\ s \notin gone /\ A # {} => proj'[s].phase = "running"
    PROVE  Work'
<1>0. UNCHANGED <<disturbances, gone, server, todo, visit>> BY DEF process, removal
<1>1. VisitEnds' BY <1>0 DEF Work, VisitEnds, Interrupting
<1>2. ASSUME NEW t \in Sessions \ {s} PROVE Owns(t)' /\ Held(t)'
  <2>1. worker'[t] = worker[t] BY DEF Inv, WorkerOK
  <2> QED BY <1>0, <2>1, SessionKept DEF Work
<1>3. worker'[s] = u BY DEF Inv, WorkerOK
<1>4. Owns(s)' BY <1>0, <1>3 DEF Owns
<1>5. Held(s)' BY <1>0, <1>3 DEF Held, HasActive, Steady, Whole
<1> QED BY <1>1, <1>2, <1>4, <1>5 DEF Work

\* One whose append leaves the phase alone and starts no run.
LEMMA WorkerKeeps ==
    ASSUME Inv, Work, NEW s \in Sessions, worker[s].at \in Carrying, UNCHANGED process,
           NEW u, worker' = [worker EXCEPT ![s] = u], u.at \in Carrying, u.run = worker[s].run,
           \A t \in Sessions \ {s} : proj'[t] = proj[t],
           ActiveRuns(proj'[s]) \subseteq ActiveRuns(proj[s]),
           proj'[s].phase = proj[s].phase,
           ~Clear(u), Streaming(u) => LastOpen(proj'[s])
    PROVE  Work'
<1>1. server \in {"up", "draining"} BY WorkerServes DEF Carrying
<1>2. Owns(s) /\ Held(s) BY DEF Work
<1>3. PICK A : A = ActiveRuns(proj'[s]) OBVIOUS
<1>4. A \subseteq {u.run} BY <1>2, <1>3 DEF Owns
<1>5. u.at # "start" BY DEF Carrying
<1>6. Whole /\ s \notin gone /\ A # {} => proj'[s].phase = "running"
  BY <1>1, <1>2, <1>3 DEF Held, HasActive
<1> QED BY <1>1, <1>3, <1>4, <1>5, <1>6, WorkerWorks

\* One that has no run, before and after.
LEMMA WorkerClear ==
    ASSUME Inv, Work, NEW s \in Sessions, server \in {"up", "draining"}, UNCHANGED process,
           NEW u, worker' = [worker EXCEPT ![s] = u],
           \A t \in Sessions \ {s} : proj'[t] = proj[t],
           ActiveRuns(proj'[s]) = {}, ~Streaming(u),
           u.at = "start" => proj'[s].phase = "running"
    PROVE  Work'
BY WorkerWorks

\* One that leaves, when no run needs it.
LEMMA WorkerLeaves ==
    ASSUME Inv, Work, NEW s \in Sessions, server \in {"up", "draining"}, UNCHANGED <<process, proj>>,
           NEW u \in {NoWorker, Begin}, worker' = [worker EXCEPT ![s] = u],
           Steady /\ Whole /\ s \notin gone => ActiveRuns(proj[s]) = {}
    PROVE  Work'
<1>1. u.at \in {"idle", "loop"} BY DEF NoWorker, Begin
<1>2. Held(s) BY DEF Work
<1>3. PICK A : A = ActiveRuns(proj'[s]) /\ A = ActiveRuns(proj[s]) OBVIOUS
<1>4. ~Clear(u) /\ ~Streaming(u) /\ u.at \notin Carrying /\ u.at # "start"
  BY <1>1 DEF Clear, Streaming, Carrying
<1>5. Whole /\ s \notin gone /\ A # {} => proj'[s].phase = "running"
  BY <1>2, <1>3 DEF Held, HasActive
<1> QED BY <1>3, <1>4, <1>5, WorkerWorks

-----------------------------------------------------------------------------
(* The steps of a worker.                                                   *)

LEMMA EnterSessionWork ==
    ASSUME Inv, Work, NEW s \in Sessions, EnterSession(s) PROVE Work'
<1>1. worker[s].at = "idle" /\ waiting[s] # 0 BY DEF EnterSession, At, Inv, WaitingOK
<1>2. server \in {"up", "draining"} BY <1>1, WorkerServes
<1>3. Steady /\ Whole /\ s \notin gone => ActiveRuns(proj[s]) = {}
  BY <1>1, <1>2 DEF Work, Held, HasActive, Carrying
<1> QED BY <1>2, <1>3, WorkerLeaves DEF EnterSession

LEMMA LeaveSessionWork ==
    ASSUME Inv, Work, NEW s \in Sessions, LeaveSession(s) PROVE Work'
<1>1. worker[s].at = "loop" BY DEF LeaveSession, At
<1>2. server \in {"up", "draining"} BY <1>1, WorkerServes
<1>3. Steady /\ Whole /\ s \notin gone => ActiveRuns(proj[s]) = {}
  BY <1>1, <1>2 DEF Work, Held, HasActive, Carrying
<1> QED BY <1>2, <1>3, WorkerLeaves DEF LeaveSession

LEMMA SeeEmptyQueueWork ==
    ASSUME Inv, Work, NEW s \in Sessions, SeeEmptyQueue(s) PROVE Work'
<1>1. worker[s].at = "loop" /\ ActiveRuns(proj[s]) = {} BY DEF SeeEmptyQueue, MayPick, At
<1>2. server \in {"up", "draining"} BY <1>1, WorkerServes
<1>3. PICK u : worker' = [worker EXCEPT ![s] = u] /\ u \in {Step(s, "empty"), NoWorker}
  BY DEF SeeEmptyQueue
<1>4. u.at \in {"empty", "idle"} BY <1>3, WorkerNext
<1>5. ~Streaming(u) /\ u.at # "start" BY <1>4 DEF Streaming
<1> QED BY <1>1, <1>2, <1>3, <1>5, WorkerClear DEF SeeEmptyQueue

LEMMA PickRunWork ==
    ASSUME Inv, Work, NEW s \in Sessions, PickRun(s) PROVE Work'
<1>1. worker[s].at = "loop" /\ ActiveRuns(proj[s]) = {} BY DEF PickRun, MayPick, At
<1>2. server \in {"up", "draining"} BY <1>1, WorkerServes
<1>3. PICK u : /\ worker' = [worker EXCEPT ![s] = u]
               /\ u = [at |-> IF proj[s].phase = "running" THEN "start" ELSE "phase",
                       run |-> NextQueued(proj[s]), out |-> proj[s].phase]
  BY DEF PickRun
<1>4. ~Streaming(u) /\ (u.at = "start" => proj[s].phase = "running") BY <1>3 DEF Streaming
<1>5. UNCHANGED <<process, proj>> BY DEF PickRun
<1> QED BY <1>1, <1>2, <1>3, <1>4, <1>5, WorkerClear

\* The worker is clear of runs and appends the phase.
LEMMA PhaseStep ==
    ASSUME Inv, Work, NEW s \in Sessions, Clear(worker[s]), NEW from \in Phases, NEW to \in Phases,
           NEW next, NEW otherwise,
           WorkerAppends(s, <<PhaseChanged(from, to)>>, next, otherwise), UNCHANGED process,
           ~Streaming(next), ~Streaming(otherwise), otherwise.at # "start",
           next.at = "start" => to = "running"
    PROVE  Work'
<1>1. server \in {"up", "draining"} BY WorkerServes DEF Clear
<1>2. ActiveRuns(proj[s]) = {} BY DEF Work, Owns
<1>3. PICK e : e = PhaseChanged(from, to) /\ e \in QuietEvents BY EventsAre
<1>4. e \in SupervisorEvents BY <1>3 DEF QuietEvents
<1>5. CASE AppendMany(s, <<e>>) /\ worker' = [worker EXCEPT ![s] = next]
  <2>1. /\ \A t \in Sessions \ {s} : proj'[t] = proj[t]
        /\ proj'[s].phase = PhaseAfter(proj[s], e)
    BY <1>4, <1>5, AppendOne DEF Inv
  <2>2. proj'[s].phase = to BY <1>3, <2>1 DEF PhaseAfter, PhaseChanged
  <2>3. Quiet BY <1>3, <1>5, QuietOne DEF Inv
  <2>4. ActiveRuns(proj'[s]) = {} BY <1>2, <2>3 DEF Quiet
  <2> QED BY <1>1, <1>5, <2>1, <2>2, <2>4, WorkerClear
<1>6. CASE Refused(s, <<e>>) /\ worker' = [worker EXCEPT ![s] = otherwise]
  BY <1>1, <1>2, <1>6, WorkerClear DEF Refused
<1> QED BY <1>3, <1>5, <1>6 DEF WorkerAppends

LEMMA FinishSessionWork ==
    ASSUME Inv, Work, NEW s \in Sessions, FinishSession(s) PROVE Work'
<1>1. Clear(worker[s]) BY DEF FinishSession, At, Clear
<1>2. ~Streaming(NoWorker) /\ NoWorker.at # "start" BY DEF Streaming, NoWorker
<1>3. "running" \in Phases /\ "finished" \in Phases BY DEF Phases
<1> QED BY <1>1, <1>2, <1>3, PhaseStep DEF FinishSession

LEMMA EnterRunningWork ==
    ASSUME Inv, Work, NEW s \in Sessions, EnterRunning(s) PROVE Work'
<1>1. Clear(worker[s]) BY DEF EnterRunning, At, Clear
<1>2. ~Streaming(NoWorker) /\ NoWorker.at # "start" BY DEF Streaming, NoWorker
<1>3. "running" \in Phases /\ worker[s].out \in Phases BY WorkerAt DEF Phases, EnterRunning, At
<1>4. ~Streaming(Step(s, "start")) BY WorkerNext DEF Streaming
<1> QED BY <1>1, <1>2, <1>3, <1>4, PhaseStep DEF EnterRunning

LEMMA LeaveRunningWork ==
    ASSUME Inv, Work, NEW s \in Sessions, LeaveRunning(s) PROVE Work'
<1>1. Clear(worker[s]) BY DEF LeaveRunning, At, Clear
<1>2. /\ ~Streaming(NoWorker) /\ NoWorker.at # "start"
      /\ ~Streaming(Begin) /\ Begin.at # "start"
  BY DEF Streaming, NoWorker, Begin
<1>3. "running" \in Phases /\ EndPhase(worker[s].out) \in Phases BY DEF Phases, EndPhase
<1> QED BY <1>1, <1>2, <1>3, PhaseStep DEF LeaveRunning

\* The run that is started is the only one, and its worker carries it.
LEMMA StartRunWork ==
    ASSUME Inv, Work, NEW s \in Sessions, StartRun(s) PROVE Work'
<1> DEFINE r == worker[s].run
           n == proj[s].runs[r].attempts + 1
<1>1. worker[s].at = "start" /\ worker[s] \in WorkerStates /\ r \in Runs
  BY WorkerAt DEF StartRun, At
<1>2. n \in Nat
  <2>1. proj[s].runs[r].attempts \in Nat
    BY <1>1 DEF Inv, ProjOK, Readable, Projections, RunRecords
  <2> QED BY <2>1
<1>3. server \in {"up", "draining"} BY <1>1, WorkerServes
<1>4. ActiveRuns(proj[s]) = {} /\ (s \in gone \/ proj[s].phase = "running")
  BY <1>1 DEF Work, Owns, Clear
<1>5. PICK e : e = RunStarted(r, n) OBVIOUS
<1>6. \/ /\ AppendMany(s, <<e>>)
         /\ worker' = [worker EXCEPT ![s] = [Step(s, "permit") EXCEPT !.out = Nil]]
      \/ UNCHANGED proj /\ worker' = [worker EXCEPT ![s] = NoWorker]
  BY <1>5 DEF StartRun, Refused
<1>7. UNCHANGED process BY DEF StartRun
<1> HIDE DEF r, n
<1>8. e \in RunEvents /\ e.run = r /\ e.type = "run_started"
  BY <1>1, <1>2, <1>5 DEF RunStarted, RunEvents
<1>9. CASE /\ AppendMany(s, <<e>>)
           /\ worker' = [worker EXCEPT ![s] = [Step(s, "permit") EXCEPT !.out = Nil]]
  <2>0. e \in SupervisorEvents BY <1>8 DEF SupervisorEvents
  <2>1. /\ s \notin gone /\ \A t \in Sessions \ {s} : proj'[t] = proj[t]
        /\ proj'[s].phase = PhaseAfter(proj[s], e)
        /\ \A x \in Runs : proj'[s].runs[x] = IF e \in RunEvents /\ e.run = x
                                              THEN RunEffect(proj[s].runs[x], e)
                                              ELSE proj[s].runs[x]
    BY <1>9, <2>0, AppendOne DEF Inv
  <2>2. proj'[s].phase = "running" BY <1>4, <1>8, <2>1 DEF PhaseAfter
  <2>3. PICK A : A = ActiveRuns(proj'[s]) OBVIOUS
  <2>4. A \subseteq {r} BY <1>4, <1>8, <2>1, <2>3 DEF ActiveRuns, RunsIn
  <2>5. PICK u : u = [Step(s, "permit") EXCEPT !.out = Nil] OBVIOUS
  <2>6. u.at = "permit" /\ u.run = r BY <1>1, <2>5 DEF Step, WorkerStates, r
  <2>7. u.at \in Carrying /\ ~Clear(u) /\ ~Streaming(u) /\ u.at # "start"
    BY <2>6 DEF Carrying, Clear, Streaming
  <2> QED BY <1>3, <1>7, <1>9, <2>1, <2>2, <2>3, <2>4, <2>5, <2>6, <2>7, WorkerWorks
<1>10. CASE UNCHANGED proj /\ worker' = [worker EXCEPT ![s] = NoWorker]
  BY <1>3, <1>4, <1>7, <1>10, WorkerLeaves
<1> QED BY <1>6, <1>9, <1>10

\* An append of the worker that moves no phase and starts no run.
LEMMA CarryAppend ==
    ASSUME Inv, NEW s \in Sessions, NEW e \in QuietEvents, AppendMany(s, <<e>>),
           e.type \notin {"phase_changed", "session_interrupted"}
    PROVE  /\ \A t \in Sessions \ {s} : proj'[t] = proj[t]
           /\ ActiveRuns(proj'[s]) \subseteq ActiveRuns(proj[s])
           /\ proj'[s].phase = proj[s].phase
           /\ e \notin MessageEvents => (LastOpen(proj[s]) => LastOpen(proj'[s]))
<1>1. e \in SupervisorEvents BY DEF QuietEvents
<1>2. /\ \A t \in Sessions \ {s} : proj'[t] = proj[t]
      /\ proj'[s].phase = PhaseAfter(proj[s], e)
      /\ e \notin MessageEvents => proj'[s].messages = proj[s].messages
  BY <1>1, AppendOne DEF Inv
<1>3. Quiet BY QuietOne DEF Inv
<1> QED BY <1>2, <1>3 DEF Quiet, PhaseAfter, LastOpen

LEMMA OutcomeIs ==
    ASSUME Inv, NEW s \in Sessions, NEW out
    PROVE  Outcome(s, out).at = "message" /\ Outcome(s, out).run = worker[s].run
           /\ Outcome(s, out).out = out
<1>1. worker[s] \in WorkerStates BY WorkerAt
<1> QED BY <1>1 DEF Outcome, WorkerStates

LEMMA StepIs ==
    ASSUME Inv, NEW s \in Sessions, NEW at
    PROVE  Step(s, at).at = at /\ Step(s, at).run = worker[s].run /\ Step(s, at).out = worker[s].out
<1>1. worker[s] \in WorkerStates BY WorkerAt
<1> QED BY <1>1 DEF Step, WorkerStates

\* execute_run is over: the run is carried to finish_run.
LEMMA OutcomeWork ==
    ASSUME Inv, Work, NEW s \in Sessions, worker[s].at \in {"open", "stream"},
           NEW out \in Ended \ {"requires_action"}, out = "completed" => worker[s].at = "stream",
           worker' = [worker EXCEPT ![s] = Outcome(s, out)], UNCHANGED <<process, proj>>
    PROVE  Work'
<1>1. PICK u : u = Outcome(s, out) OBVIOUS
<1>2. u.at = "message" /\ u.run = worker[s].run /\ u.out = out BY <1>1, OutcomeIs
<1>3. u.at \in Carrying /\ ~Clear(u) BY <1>2 DEF Carrying, Clear
<1>4. Streaming(u) => worker[s].at = "stream" BY <1>2 DEF Streaming
<1>5. Streaming(u) => LastOpen(proj'[s]) BY <1>4 DEF Work, Owns, Streaming
<1>6. worker[s].at \in Carrying BY DEF Carrying
<1> QED BY <1>1, <1>2, <1>3, <1>5, <1>6, WorkerKeeps

LEMMA AcquirePermitWork ==
    ASSUME Inv, Work, NEW s \in Sessions, AcquirePermit(s) PROVE Work'
<1>1. PICK u : u = Step(s, "open") OBVIOUS
<1>2. u.at = "open" /\ u.run = worker[s].run BY <1>1, StepIs
<1>3. u.at \in Carrying /\ ~Clear(u) /\ ~Streaming(u) /\ worker[s].at \in Carrying
  BY <1>2 DEF Carrying, Clear, Streaming, AcquirePermit, At
<1> QED BY <1>1, <1>2, <1>3, WorkerKeeps DEF AcquirePermit

LEMMA OpenMessageWork ==
    ASSUME Inv, Work, NEW s \in Sessions, OpenMessage(s) PROVE Work'
<1>1. PICK u : u = Step(s, "stream") OBVIOUS
<1>2. u.at = "stream" /\ u.run = worker[s].run BY <1>1, StepIs
<1>3. u.at \in Carrying /\ ~Clear(u) /\ worker[s].at \in Carrying
  BY <1>2 DEF Carrying, Clear, OpenMessage, At
<1>4. PICK m \in Messages :
        /\ \A o \in Messages : o < m <=> proj[s].messages[o].status # "absent"
        /\ AppendMany(s, <<MessageStarted(m, "assistant")>>)
  BY DEF OpenMessage
<1>5. PICK e : e = MessageStarted(m, "assistant") OBVIOUS
<1>6. /\ e \in QuietEvents /\ e \in SupervisorEvents /\ e.type = "message_started"
      /\ e.message = m /\ e.role = "assistant"
  BY <1>5, EventsAre DEF MessageStarted, QuietEvents
<1>7. /\ \A t \in Sessions \ {s} : proj'[t] = proj[t]
      /\ ActiveRuns(proj'[s]) \subseteq ActiveRuns(proj[s])
      /\ proj'[s].phase = proj[s].phase
  BY <1>4, <1>5, <1>6, CarryAppend
<1>8. proj'[s].messages = [proj[s].messages EXCEPT ![m] = [status |-> "open", role |-> "assistant"]]
  <2>1. AppendMany(s, <<e>>) BY <1>4, <1>5
  <2>2. proj'[s].messages
          = [proj[s].messages EXCEPT ![e.message] = [status |-> "open", role |-> e.role]]
    BY <1>6, <2>1, AppendOne DEF Inv
  <2> QED BY <1>6, <2>2
<1>9. LastOpen(proj'[s])
  <2>1. proj[s].messages \in [Messages -> MessageRecords] BY DEF Inv, ProjOK, Readable, Projections
  <2>2. proj'[s].messages[m].status = "open" /\ proj'[s].messages[m].role = "assistant"
    BY <1>8, <2>1
  <2>3. \A o \in Messages : o > m => proj'[s].messages[o].status = "absent"
    <3>1. \A o \in Messages : o \in Nat BY IdsAreOrdered
    <3>2. \A o \in Messages : o > m => o # m /\ ~(o < m) BY <3>1
    <3> QED BY <1>4, <1>8, <2>1, <3>2
  <2> QED BY <2>2, <2>3 DEF LastOpen
<1> QED BY <1>1, <1>2, <1>3, <1>7, <1>9, WorkerKeeps DEF OpenMessage

LEMMA FailToOpenWork ==
    ASSUME Inv, Work, NEW s \in Sessions, FailToOpen(s) PROVE Work'
<1>1. "failed" \in Ended \ {"requires_action"} BY DEF Ended, Terminal
<1> QED BY <1>1, OutcomeWork DEF FailToOpen, At

\* An append of the stream, which fails the run when it is refused.
LEMMA StreamWork ==
    ASSUME Inv, Work, NEW s \in Sessions, worker[s].at = "stream", NEW e \in QuietEvents,
           e.type \notin {"phase_changed", "session_interrupted"}, e \notin MessageEvents,
           \/ AppendMany(s, <<e>>) /\ UNCHANGED worker
           \/ Refused(s, <<e>>) /\ worker' = [worker EXCEPT ![s] = Outcome(s, "failed")],
           UNCHANGED process
    PROVE  Work'
<1>1. CASE AppendMany(s, <<e>>) /\ UNCHANGED worker
  <2>1. /\ \A t \in Sessions \ {s} : proj'[t] = proj[t]
        /\ ActiveRuns(proj'[s]) \subseteq ActiveRuns(proj[s])
        /\ proj'[s].phase = proj[s].phase
        /\ LastOpen(proj[s]) => LastOpen(proj'[s])
    BY <1>1, CarryAppend
  <2>2. PICK u : u = worker[s] OBVIOUS
  <2>3. worker' = [worker EXCEPT ![s] = u] BY <1>1, <2>2 DEF Inv, WorkerOK
  <2>4. u.at \in Carrying /\ ~Clear(u) BY <2>2 DEF Carrying, Clear
  <2>5. LastOpen(proj'[s]) BY <2>1 DEF Work, Owns, Streaming
  <2> QED BY <2>1, <2>2, <2>3, <2>4, <2>5, WorkerKeeps
<1>2. CASE Refused(s, <<e>>) /\ worker' = [worker EXCEPT ![s] = Outcome(s, "failed")]
  <2>1. "failed" \in Ended \ {"requires_action"} BY DEF Ended, Terminal
  <2> QED BY <1>2, <2>1, OutcomeWork DEF Refused
<1> QED BY <1>1, <1>2

LEMMA RetryAttemptWork ==
    ASSUME Inv, Work, NEW s \in Sessions, RetryAttempt(s) PROVE Work'
<1> DEFINE r == worker[s].run
           n == proj[s].runs[r].attempts + 1
<1>1. worker[s].at = "stream" /\ r \in Runs BY WorkerAt DEF RetryAttempt, At
<1>2. n \in Nat
  <2>1. proj[s].runs[r].attempts \in Nat
    BY <1>1 DEF Inv, ProjOK, Readable, Projections, RunRecords
  <2> QED BY <2>1
<1>3. PICK e : e = RunAttemptStarted(r, n) OBVIOUS
<1>4. \/ AppendMany(s, <<e>>) /\ UNCHANGED worker
      \/ Refused(s, <<e>>) /\ worker' = [worker EXCEPT ![s] = Outcome(s, "failed")]
  BY <1>3 DEF RetryAttempt
<1>5. UNCHANGED process BY DEF RetryAttempt
<1> HIDE DEF r, n
<1>6. e \in QuietEvents /\ e.type = "attempt_started" /\ e \notin MessageEvents
  BY <1>1, <1>2, <1>3, EventsAre DEF RunAttemptStarted, MessageEvents
<1> QED BY <1>1, <1>4, <1>5, <1>6, StreamWork

LEMMA EmitCallWork ==
    ASSUME Inv, Work, NEW s \in Sessions, EmitCall(s) PROVE Work'
<1>1. worker[s].at = "stream" /\ worker[s].run \in Runs BY WorkerAt DEF EmitCall, At
<1>2. PICK c \in Calls :
        \/ AppendMany(s, <<ToolCallEmitted(worker[s].run, c, FALSE)>>) /\ UNCHANGED worker
        \/ /\ Refused(s, <<ToolCallEmitted(worker[s].run, c, FALSE)>>)
           /\ worker' = [worker EXCEPT ![s] = Outcome(s, "failed")]
  BY DEF EmitCall
<1>3. PICK e : e = ToolCallEmitted(worker[s].run, c, FALSE) OBVIOUS
<1>4. e \in QuietEvents /\ e.type = "call_emitted" /\ e \notin MessageEvents
  BY <1>1, <1>3, EventsAre DEF ToolCallEmitted, MessageEvents
<1> QED BY <1>1, <1>2, <1>3, <1>4, StreamWork DEF EmitCall

LEMMA EndStreamWork ==
    ASSUME Inv, Work, NEW s \in Sessions, NEW out \in Outcomes, EndStream(s, out) PROVE Work'
<1>1. out \in Ended \ {"requires_action"} BY DEF Outcomes, Ended, Terminal
<1> QED BY <1>1, OutcomeWork DEF EndStream, At

LEMMA EndAccepted ==
    ASSUME NEW p, NEW e, e.type = "run_ended", p.runs[e.run].status \in Unfinished
    PROVE  Accepts(p, e)
<1>1. StateAccepts(p, e) BY Zenon DEF StateAccepts
<1> QED BY <1>1, Zenon DEF Accepts, MayEnd

LEMMA CloseAccepted ==
    ASSUME NEW p, NEW e, e.type = "message_closed", p.messages[e.message].status = "open"
    PROVE  Accepts(p, e)
<1>1. StateAccepts(p, e) BY Zenon DEF StateAccepts
<1> QED BY <1>1, Zenon DEF Accepts

\* What an event about the worker's own run leaves active.
LEMMA RunStops ==
    ASSUME Inv, Work, NEW s \in Sessions, worker[s].at \in Carrying, NEW e \in QuietEvents,
           e \in RunEvents, e.run = worker[s].run, e.type \in {"run_ended", "requires_action"},
           AppendMany(s, <<e>>)
    PROVE  /\ \A t \in Sessions \ {s} : proj'[t] = proj[t]
           /\ ActiveRuns(proj'[s]) = {}
<1>1. e \in SupervisorEvents /\ e.run \in Runs BY DEF QuietEvents, RunEvents
<1>2. /\ \A t \in Sessions \ {s} : proj'[t] = proj[t]
      /\ \A r \in Runs : proj'[s].runs[r] = IF e \in RunEvents /\ e.run = r
                                            THEN RunEffect(proj[s].runs[r], e)
                                            ELSE proj[s].runs[r]
  BY <1>1, AppendOne DEF Inv
<1>3. proj[s].runs[e.run] \in RunRecords BY <1>1 DEF Inv, ProjOK, Readable, Projections
<1>4. e.type = "run_ended" => e.status \in Terminal BY DEF RunEvents
<1>5. proj'[s].runs[e.run].status # "running"
  BY <1>1, <1>2, <1>3, <1>4, RunEffectType DEF Terminal
<1>6. ActiveRuns(proj[s]) \subseteq {e.run} BY DEF Work, Owns
<1> QED BY <1>2, <1>5, <1>6 DEF ActiveRuns, RunsIn

LEMMA RequireActionWork ==
    ASSUME Inv, Work, NEW s \in Sessions, RequireAction(s) PROVE Work'
<1>1. worker[s].at = "stream" /\ worker[s].run \in Runs BY WorkerAt DEF RequireAction, At
<1>2. PICK e : e = RunRequiresAction(worker[s].run) OBVIOUS
<1>3. /\ e \in QuietEvents /\ e \in RunEvents /\ e.type = "requires_action"
      /\ e.run = worker[s].run /\ e \notin MessageEvents
  BY <1>1, <1>2, EventsAre DEF RunRequiresAction, RunEvents, MessageEvents
<1>4. UNCHANGED process BY DEF RequireAction
<1>5. CASE AppendMany(s, <<e>>) /\ worker' = [worker EXCEPT ![s] = Outcome(s, "requires_action")]
  <2>1. PICK u : u = Outcome(s, "requires_action") OBVIOUS
  <2>2. u.at = "message" /\ u.out = "requires_action" BY <2>1, OutcomeIs
  <2>3. ~Streaming(u) /\ u.at # "start" BY <2>2 DEF Streaming
  <2>4. worker[s].at \in Carrying BY <1>1 DEF Carrying
  <2>5. /\ \A t \in Sessions \ {s} : proj'[t] = proj[t]
        /\ ActiveRuns(proj'[s]) = {}
    BY <1>3, <1>5, <2>4, RunStops
  <2>6. server \in {"up", "draining"} BY <1>1, WorkerServes
  <2> QED BY <1>4, <1>5, <2>1, <2>3, <2>5, <2>6, WorkerClear
<1>6. CASE Refused(s, <<e>>) /\ worker' = [worker EXCEPT ![s] = Outcome(s, "failed")]
  BY <1>1, <1>3, <1>4, <1>6, StreamWork
<1> QED BY <1>2, <1>5, <1>6 DEF RequireAction, WorkerAppends

\* The message that is closed is open: the terminal event will follow.
LEMMA CloseMessageWork ==
    ASSUME Inv, Work, NEW s \in Sessions, CloseMessage(s) PROVE Work'
<1> DEFINE status == IF worker[s].out \in {"completed", "requires_action"}
                     THEN "completed" ELSE "interrupted"
           open == IF worker[s].out = "completed" THEN {"open", "interrupted"} ELSE {"open"}
           next == IF worker[s].out = "requires_action" THEN "turn" ELSE "end"
<1>1. worker[s].at = "message" /\ worker[s].at \in Carrying BY DEF CloseMessage, At, Carrying
<1>2. UNCHANGED process BY DEF CloseMessage
<1>3. server \in {"up", "draining"} BY <1>1, WorkerServes
<1>4. \/ UNCHANGED proj /\ worker' = [worker EXCEPT ![s] = Step(s, next)]
      \/ \E m \in LastAssistant(proj[s], open) :
            WorkerAppends(s, <<MessageClosed(m, status)>>, Step(s, next), NoWorker)
  BY DEF CloseMessage
<1>5. ASSUME \A t \in Sessions \ {s} : proj'[t] = proj[t],
             ActiveRuns(proj'[s]) \subseteq ActiveRuns(proj[s]),
             proj'[s].phase = proj[s].phase,
             worker' = [worker EXCEPT ![s] = Step(s, next)]
      PROVE  Work'
  <2>1. PICK u : u = Step(s, next) OBVIOUS
  <2>2. u.at = next /\ u.run = worker[s].run /\ u.out = worker[s].out BY <2>1, StepIs
  <2>3. ~Streaming(u) /\ u.at # "start" BY <2>2 DEF Streaming
  <2>4. CASE worker[s].out = "requires_action"
    <3>1. ActiveRuns(proj'[s]) = {} BY <1>1, <1>5, <2>4 DEF Work, Owns, Clear
    <3> QED BY <1>2, <1>3, <1>5, <2>1, <2>3, <3>1, WorkerClear
  <2>5. CASE worker[s].out # "requires_action"
    <3>1. u.at \in Carrying /\ ~Clear(u) BY <2>2, <2>5 DEF Carrying, Clear
    <3> QED BY <1>1, <1>2, <1>5, <2>1, <2>2, <2>3, <3>1, WorkerKeeps
  <2> QED BY <2>4, <2>5
<1>6. CASE UNCHANGED proj /\ worker' = [worker EXCEPT ![s] = Step(s, next)] BY <1>5, <1>6
<1>7. CASE \E m \in LastAssistant(proj[s], open) :
              WorkerAppends(s, <<MessageClosed(m, status)>>, Step(s, next), NoWorker)
  <2>1. PICK m \in LastAssistant(proj[s], open) :
            WorkerAppends(s, <<MessageClosed(m, status)>>, Step(s, next), NoWorker)
    BY <1>7
  <2>2. PICK e : e = MessageClosed(m, status) OBVIOUS
  <2>3. m \in Messages /\ proj[s].messages[m].status \in open BY <2>1 DEF LastAssistant
  <2>4. e \in QuietEvents /\ e.type = "message_closed" /\ e.message = m
    BY <2>2, <2>3, EventsAre DEF MessageClosed
  <2>5. CASE AppendMany(s, <<e>>) /\ worker' = [worker EXCEPT ![s] = Step(s, next)]
    <3>1. /\ \A t \in Sessions \ {s} : proj'[t] = proj[t]
          /\ ActiveRuns(proj'[s]) \subseteq ActiveRuns(proj[s])
          /\ proj'[s].phase = proj[s].phase
      BY <2>4, <2>5, CarryAppend
    <3> QED BY <1>5, <2>5, <3>1
  <2>6. CASE Refused(s, <<e>>) /\ worker' = [worker EXCEPT ![s] = NoWorker]
    <3>1. proj[s].messages[m].status = "open"
      <4>1. CASE worker[s].out # "completed" BY <2>3, <4>1
      <4>2. CASE worker[s].out = "completed"
        <5>1. LastOpen(proj[s]) BY <1>1, <4>2 DEF Work, Owns, Streaming
        <5>2. PICK k \in Messages :
                /\ proj[s].messages[k].status = "open" /\ proj[s].messages[k].role = "assistant"
                /\ \A o \in Messages : o > k => proj[s].messages[o].status = "absent"
          BY <5>1 DEF LastOpen
        <5>3. k <= m BY <2>1, <4>2, <5>2 DEF LastAssistant
        <5>4. ~(m > k) BY <2>3, <5>2
        <5>5. m \in Nat /\ k \in Nat BY <2>3, <5>2, IdsAreOrdered
        <5>6. m = k BY <5>3, <5>4, <5>5
        <5> QED BY <5>2, <5>6
      <4> QED BY <4>1, <4>2
    <3>2. Accepts(proj[s], e) BY <2>4, <3>1, CloseAccepted
    <3>3. Steady => s \in gone BY <2>4, <2>6, <3>2, RefusedOne DEF Inv, QuietEvents
    <3> QED BY <1>2, <1>3, <2>6, <3>3, WorkerLeaves DEF Refused
  <2> QED BY <2>1, <2>2, <2>5, <2>6 DEF WorkerAppends
<1> QED BY <1>4, <1>6, <1>7

LEMMA EndRunWork ==
    ASSUME Inv, Work, NEW s \in Sessions, EndRun(s) PROVE Work'
<1>1. worker[s].at = "end" /\ worker[s].run \in Runs /\ worker[s].out \in Terminal
  BY WorkerAt DEF EndRun, At
<1>2. PICK e : e = RunEnded(worker[s].run, worker[s].out) OBVIOUS
<1>3. e \in QuietEvents /\ e \in RunEvents /\ e.type = "run_ended" /\ e.run = worker[s].run
  BY <1>1, <1>2, EventsAre DEF RunEnded, RunEvents
<1>4. UNCHANGED process BY DEF EndRun
<1>5. server \in {"up", "draining"} BY <1>1, WorkerServes
<1>6. worker[s].at \in Carrying BY <1>1 DEF Carrying
<1>7. CASE AppendMany(s, <<e>>) /\ worker' = [worker EXCEPT ![s] = Step(s, "release")]
  <2>1. PICK u : u = Step(s, "release") OBVIOUS
  <2>2. ~Streaming(u) /\ u.at # "start" BY <2>1, StepIs DEF Streaming
  <2>3. /\ \A t \in Sessions \ {s} : proj'[t] = proj[t]
        /\ ActiveRuns(proj'[s]) = {}
    BY <1>3, <1>6, <1>7, RunStops
  <2> QED BY <1>4, <1>5, <1>7, <2>1, <2>2, <2>3, WorkerClear
<1>8. CASE Refused(s, <<e>>) /\ worker' = [worker EXCEPT ![s] = NoWorker]
  <2>1. ASSUME Steady, s \notin gone PROVE ActiveRuns(proj[s]) = {}
    <3>1. ~Accepts(proj[s], e) BY <1>3, <1>8, <2>1, RefusedOne DEF Inv, QuietEvents
    <3>2. proj[s].runs[e.run].status \notin Unfinished BY <1>3, <3>1, EndAccepted
    <3>3. e.run \notin ActiveRuns(proj[s]) BY <3>2 DEF ActiveRuns, RunsIn, Unfinished
    <3>4. ActiveRuns(proj[s]) \subseteq {e.run} BY <1>3, <1>6 DEF Work, Owns
    <3> QED BY <3>3, <3>4
  <2> QED BY <1>4, <1>5, <1>8, <2>1, WorkerLeaves DEF Refused
<1> QED BY <1>2, <1>7, <1>8 DEF EndRun, WorkerAppends

LEMMA ReleaseEndedWork ==
    ASSUME Inv, Work, NEW s \in Sessions, ReleaseEnded(s) PROVE Work'
<1>1. worker[s].at = "release" BY DEF ReleaseEnded, At
<1>2. ActiveRuns(proj[s]) = {} BY <1>1 DEF Work, Owns, Clear
<1>3. PICK u : worker' = [worker EXCEPT ![s] = u] /\ u \in {Begin, Step(s, "turn")}
  BY DEF ReleaseEnded
<1>4. u.at \in {"loop", "turn"} BY <1>3, WorkerNext
<1>5. ~Streaming(u) /\ u.at # "start" BY <1>4 DEF Streaming
<1>6. server \in {"up", "draining"} BY <1>1, WorkerServes
<1> QED BY <1>2, <1>3, <1>5, <1>6, WorkerClear DEF ReleaseEnded

LEMMA WorkerStepWork ==
    ASSUME Inv, Work, NEW s \in Sessions, WorkerStep(s) PROVE Work'
BY LeaveSessionWork, SeeEmptyQueueWork, FinishSessionWork, PickRunWork, EnterRunningWork,
   StartRunWork, AcquirePermitWork, OpenMessageWork, FailToOpenWork, RetryAttemptWork,
   EmitCallWork, RequireActionWork, EndStreamWork, CloseMessageWork, EndRunWork,
   ReleaseEndedWork, LeaveRunningWork
   DEF WorkerStep

-----------------------------------------------------------------------------
(* Handlers and deletions.                                                  *)

LEMMA StillMild == ASSUME Inv, UNCHANGED proj PROVE Mild
BY Frames DEF Mild

\* A request that appends nothing.
LEMMA RequestWork ==
    ASSUME Inv, Work, UNCHANGED <<process, proj, worker>>,
           \A t \in Sessions : server \notin {"up", "draining"} => waiting'[t] = waiting[t]
    PROVE  Work'
<1>1. UNCHANGED <<disturbances, gone, server, todo, visit>> BY DEF process, removal
<1> QED BY <1>1, StillMild, MildWork

LEMMA AppendRequestWork ==
    ASSUME Inv, Work, NEW h \in Handlers, AppendRequest(h) PROVE Work'
<1>1. req[h].session \in Sessions /\ req[h].events \in Seq(RequestEvents)
  BY HandlerAt DEF AppendRequest
<1>2. Mild BY <1>1, MildAppend DEF AppendRequest, Inv
<1>3. UNCHANGED <<disturbances, gone, server, todo, visit, worker, waiting>>
  BY DEF AppendRequest, process, removal
<1> QED BY <1>2, <1>3, MildWork

LEMMA AppendCancelWork ==
    ASSUME Inv, Work, NEW h \in Handlers, AppendCancel(h) PROVE Work'
<1>1. req[h].session \in Sessions /\ req[h].run \in Runs BY HandlerAt DEF AppendCancel
<1>2. PICK b \in Seq(RequestEvents) : b = <<RunEnded(req[h].run, "cancelled")>>
  <2>1. RunEnded(req[h].run, "cancelled") \in RequestEvents BY <1>1, RequestEventsAre DEF Terminal
  <2> QED BY <2>1, OneEvent
<1>3. Mild
  <2>1. CASE AppendMany(req[h].session, b) BY <1>1, <2>1, MildAppend DEF Inv
  <2>2. CASE UNCHANGED proj BY <2>2, StillMild
  <2> QED BY <1>2, <2>1, <2>2 DEF AppendCancel, Refused
<1>4. UNCHANGED <<disturbances, gone, server, todo, visit, worker, waiting>>
  BY DEF AppendCancel, process, removal
<1> QED BY <1>3, <1>4, MildWork

LEMMA SpawnForRequestWork ==
    ASSUME Inv, Work, NEW h \in Handlers, SpawnForRequest(h) PROVE Work'
<1>1. server \notin {"up", "draining"} => waiting' = waiting
  BY DEF SpawnForRequest, SpawnWorker, Running, ShuttingDown
<1> QED BY <1>1, RequestWork DEF SpawnForRequest

LEMMA HandlerStepWork ==
    ASSUME Inv, Work, NEW h \in Handlers, HandlerStep(h) \/ NewRequest(h) \/ DropRequest(h)
    PROVE  Work'
<1>1. CASE HandlerStep(h)
  <2>1. FailRequest(h) \/ ReleaseCancelled(h) => UNCHANGED <<process, proj, worker, waiting>>
    BY DEF FailRequest, ReleaseCancelled, Refused
  <2>2. FailRequest(h) \/ ReleaseCancelled(h) => Work' BY <2>1, RequestWork
  <2> QED BY <1>1, <2>2, AppendRequestWork, AppendCancelWork, SpawnForRequestWork DEF HandlerStep
<1>2. CASE NewRequest(h)
  <2>1. UNCHANGED <<process, proj, worker, waiting>>
    BY <1>2 DEF NewRequest, QueueRun, Resume, Retry, CancelInactive, CancelActive
  <2> QED BY <2>1, RequestWork
<1>3. CASE DropRequest(h) BY <1>3, RequestWork DEF DropRequest
<1> QED BY <1>1, <1>2, <1>3

LEMMA AppendDeletionWork == ASSUME Inv, Work, AppendDeletion PROVE Work'
<1>1. deletion \in DeletionStates /\ deletion.at = "append" BY DEF Inv, RemovalOK, AppendDeletion
<1>2. deletion.session \in Sessions /\ deletion.events \in Seq(RequestEvents)
  BY <1>1 DEF DeletionStates
<1>3. Mild
  <2>1. CASE AppendMany(deletion.session, deletion.events) BY <1>2, <2>1, MildAppend DEF Inv
  <2>2. CASE UNCHANGED proj BY <2>2, StillMild
  <2> QED BY <2>1, <2>2 DEF AppendDeletion, Refused
<1>4. UNCHANGED <<disturbances, gone, server, todo, visit, worker, waiting>> BY DEF AppendDeletion
<1> QED BY <1>3, <1>4, MildWork

LEMMA DeletionWork ==
    ASSUME Inv, Work, DeletionStep \/ BeginDeletion \/ DropDeletion
    PROVE  Work'
<1>1. CASE AppendDeletion BY <1>1, AppendDeletionWork
<1>2. CASE ~AppendDeletion
  <2>1. /\ UNCHANGED <<disturbances, server, todo, visit, proj, worker, waiting>>
        /\ gone \subseteq gone'
    BY <1>2 DEF DeletionStep, DeleteProject, CancelForDeletion, WaitForSessionIdle, BeginDeletion,
                DropDeletion
  <2> QED BY <2>1, StillMild, MildWork
<1> QED BY <1>1, <1>2

-----------------------------------------------------------------------------
(* Shutdown, crash and recovery.                                            *)

\* The enumeration of a set of runs misses none.
LEMMA InOrderOnto ==
    ASSUME NEW A \in SUBSET Runs, NEW r \in A
    PROVE  \E i \in DOMAIN InOrder(A) : InOrder(A)[i] = r
<1>1. A \in SUBSET Nat BY IdsAreOrdered
<1>2. IsFiniteSet(A) BY RunsFinite, FS_Subset
<1>3. PICK n \in Nat : n = Cardinality(A) BY InOrderType
<1>4. PICK q : q = InOrder(A) OBVIOUS
<1>5. q \in [1..n -> A] /\ \A i, j \in DOMAIN q : i < j => q[i] < q[j]
  <2>1. \E x \in [1..Cardinality(A) -> A] : \A i, j \in DOMAIN x : i < j => x[i] < x[j]
    BY <1>1, <1>2, SortedEnumeration
  <2> QED BY <1>3, <1>4, <2>1 DEF InOrder
<1>6. q \in Injection(1..n, A)
  <2>1. \A i \in 1..n : q[i] \in Nat BY <1>1, <1>5
  <2>2. ASSUME NEW i \in 1..n, NEW j \in 1..n, q[i] = q[j] PROVE i = j
    <3>1. i < j => q[i] < q[j] BY <1>5
    <3>2. j < i => q[j] < q[i] BY <1>5
    <3> QED BY <2>1, <2>2, <3>1, <3>2
  <2> QED BY <1>5, <2>2 DEF Injection, IsInjective
<1>7. Cardinality(1..n) = n
  <2>1. Cardinality(1..n) = IF 1 > n THEN 0 ELSE n - 1 + 1 BY FS_Interval
  <2> QED BY <2>1
<1>8. q \in Surjection(1..n, A) BY <1>2, <1>3, <1>6, <1>7, FS_Injection
<1>9. DOMAIN q = 1..n BY <1>5
<1> QED BY <1>4, <1>8, <1>9 DEF Surjection

LEMMA InterruptsAll ==
    ASSUME NEW p, NEW r \in RunsIn(p, Unfinished)
    PROVE  \E i \in DOMAIN InterruptEvents(p) : InterruptEvents(p)[i] = RunEnded(r, "interrupted")
<1>1. PICK left : left = RunsIn(p, Unfinished) OBVIOUS
<1>2. left \in SUBSET Runs /\ r \in left BY <1>1 DEF RunsIn
<1>3. "interrupted" \in Terminal BY DEF Terminal
<1>4. PICK a \in Seq(ClosingEvents) :
        a = [i \in DOMAIN InOrder(left) |-> RunEnded(InOrder(left)[i], "interrupted")]
  BY <1>2, <1>3, EndAll
<1>5. PICK i \in DOMAIN InOrder(left) : InOrder(left)[i] = r BY <1>2, InOrderOnto
<1>6. DOMAIN a = DOMAIN InOrder(left) /\ a[i] = RunEnded(r, "interrupted") BY <1>4, <1>5
<1>7. PICK c \in Seq(ClosingEvents) :
        c = IF p.phase = "running" THEN <<PhaseChanged("running", "interrupted")>> ELSE <<>>
  <2>1. PhaseChanged("running", "interrupted") \in ClosingEvents BY RequestEventsAre DEF Phases
  <2>2. <<PhaseChanged("running", "interrupted")>> \in Seq(ClosingEvents) BY <2>1, OneEvent
  <2>3. <<>> \in Seq(ClosingEvents) OBVIOUS
  <2> QED BY <2>2, <2>3
<1>8. InterruptEvents(p) = a \o c BY <1>1, <1>4, <1>7 DEF InterruptEvents
<1>9. i \in DOMAIN (a \o c) /\ (a \o c)[i] = a[i]
  <2>1. i \in 1..Len(a) BY <1>6
  <2> QED BY <2>1
<1> QED BY <1>6, <1>8, <1>9

NobodyWorks == \A t \in Sessions : worker'[t].at = "idle" /\ waiting'[t] = 0

LEMMA IdleOwns ==
    ASSUME NEW t \in Sessions, worker'[t].at = "idle" PROVE Owns(t)'
BY DEF Owns, Clear, Streaming, Carrying

\* The process stops to serve, or goes on stopping.
LEMMA Halts ==
    ASSUME Work, UNCHANGED <<disturbances, gone>>, NobodyWorks, VisitEnds',
           server # "recovering" \/ ~Whole, server' \notin {"up", "draining", "recovering"},
           \A t \in Sessions : ActiveRuns(proj'[t]) = {} \/ proj'[t] = proj[t]
    PROVE  Work'
<1> SUFFICES ASSUME NEW t \in Sessions PROVE Owns(t)' /\ Held(t)' BY DEF Work
<1>1. Owns(t)' BY IdleOwns DEF NobodyWorks
<1>2. HasActive(t)' => HasActive(t) /\ proj'[t] = proj[t] BY DEF HasActive
<1>3. Held(t)' BY <1>2 DEF Work, Held, Whole, NobodyWorks
<1> QED BY <1>1, <1>3

LEMMA Recovers ==
    ASSUME server' = "recovering", NobodyWorks, VisitEnds',
           \A t \in Sessions : Whole' /\ HasActive(t)' => t \in todo'
    PROVE  Work'
<1> SUFFICES ASSUME NEW t \in Sessions PROVE Owns(t)' /\ Held(t)' BY DEF Work
<1>1. Owns(t)' BY IdleOwns DEF NobodyWorks
<1>2. Held(t)' BY DEF Held, NobodyWorks
<1> QED BY <1>1, <1>2

LEMMA StayIdle ==
    ASSUME Work, server \notin {"up", "draining"}, UNCHANGED <<worker, waiting>>
    PROVE  NobodyWorks
BY DEF NobodyWorks, Work, Held

LEMMA BeginShutdownWork == ASSUME Inv, Work, BeginShutdown PROVE Work'
<1> USE DEF BeginShutdown
<1>1. UNCHANGED <<disturbances, gone, todo, visit, proj, worker>> BY DEF removal
<1>2. VisitEnds' BY <1>1 DEF Work, VisitEnds, Interrupting
<1>3. ASSUME NEW t \in Sessions PROVE Owns(t)' /\ Held(t)'
  <2>1. Owns(t)' BY <1>1 DEF Work, Owns
  <2>2. Held(t)' BY <1>1 DEF Work, Held, HasActive, Steady, Whole
  <2> QED BY <2>1, <2>2
<1> QED BY <1>2, <1>3 DEF Work

LEMMA StopWorkersWork == ASSUME Inv, Work, StopWorkers PROVE Work'
<1> USE DEF StopWorkers
<1>1. UNCHANGED <<disturbances, gone, visit, proj>> BY DEF removal
<1>2. server = "draining" /\ server' \in {"interrupting", "overdue"} OBVIOUS
<1>3. visit' = NoVisit BY <1>1, <1>2 DEF Work, VisitEnds
<1>4. VisitEnds' BY <1>2, <1>3 DEF VisitEnds
<1>5. NobodyWorks BY DEF NobodyWorks, NoWorker
<1> QED BY <1>1, <1>2, <1>4, <1>5, Halts

LEMMA InterruptReadWork ==
    ASSUME Inv, Work, NEW s \in Sessions, InterruptRead(s) PROVE Work'
<1>1. UNCHANGED <<disturbances, gone, proj, worker, waiting>> BY DEF InterruptRead, removal
<1>2. server \in {"interrupting", "overdue"} /\ visit = NoVisit BY DEF InterruptRead, Interrupting
<1>3. NobodyWorks BY <1>1, <1>2, StayIdle
<1>4. CASE server' = "failed" /\ UNCHANGED visit
  <2>1. VisitEnds' BY <1>2, <1>4 DEF VisitEnds
  <2> QED BY <1>1, <1>2, <1>3, <1>4, <2>1, Halts
<1>5. CASE visit' = [session |-> s, events |-> InterruptEvents(proj[s])] /\ UNCHANGED server
  <2>1. PICK b : b = InterruptEvents(proj[s]) OBVIOUS
  <2>2. visit'.session = s /\ visit'.events = b BY <1>5, <2>1
  <2>3. ASSUME NEW r \in ActiveRuns(proj[s])
        PROVE  \E i \in DOMAIN b : b[i] = RunEnded(r, "interrupted")
    <3>1. r \in RunsIn(proj[s], Unfinished) BY DEF ActiveRuns, RunsIn, Unfinished
    <3> QED BY <2>1, <3>1, InterruptsAll
  <2>4. VisitEnds' BY <1>1, <1>2, <1>5, <2>2, <2>3 DEF VisitEnds
  <2> QED BY <1>1, <1>2, <1>3, <1>5, <2>4, Halts
<1> QED BY <1>4, <1>5 DEF InterruptRead

LEMMA InterruptAppendWork == ASSUME Inv, Work, InterruptAppend PROVE Work'
<1>1. UNCHANGED <<disturbances, gone, worker, waiting>> BY DEF InterruptAppend, removal
<1>2. /\ server \in {"interrupting", "overdue"} /\ visit # NoVisit /\ visit' = NoVisit
      /\ server' \in {server, "failed"}
  BY DEF InterruptAppend, Interrupting
<1>3. NobodyWorks BY <1>1, <1>2, StayIdle
<1>4. VisitEnds' BY <1>2 DEF VisitEnds
<1>5. PICK s \in Sessions : s = visit.session BY <1>2, VisitIs
<1>6. PICK b \in Seq(ClosingEvents) : b = visit.events BY <1>2, VisitIs
<1>7. CASE AppendMany(s, b)
  <2>1. b \in Seq(QuietEvents) BY QuietSeqs
  <2>2. /\ \A t \in Sessions \ {s} : proj'[t] = proj[t]
        /\ proj'[s].phase # "corrupt"
        /\ Follows(proj[s], proj'[s], {b[i] : i \in 1..Len(b)})
    BY <1>7, <2>1, AppendFollows DEF Inv
  <2>3. Quiet BY <1>7, <2>1, QuietAppend DEF Inv
  <2>4. ASSUME NEW r \in ActiveRuns(proj'[s]) PROVE FALSE
    <3>1. r \in ActiveRuns(proj[s]) BY <2>3, <2>4 DEF Quiet
    <3>2. PICK i \in DOMAIN b : b[i] = RunEnded(r, "interrupted")
      BY <1>2, <1>5, <1>6, <3>1 DEF Work, VisitEnds, Interrupting
    <3>3. i \in 1..Len(b) OBVIOUS
    <3>4. b[i].type = "run_ended" /\ b[i].run = r BY <3>2 DEF RunEnded
    <3>5. proj'[s].runs[r].status \in Terminal BY <2>2, <3>3, <3>4 DEF Follows
    <3>6. proj'[s].runs[r].status = "running" BY <2>4 DEF ActiveRuns, RunsIn
    <3> QED BY <3>5, <3>6 DEF Terminal
  <2>5. \A t \in Sessions : ActiveRuns(proj'[t]) = {} \/ proj'[t] = proj[t] BY <2>2, <2>4
  <2> QED BY <1>1, <1>2, <1>3, <1>4, <2>5, Halts
<1>8. CASE UNCHANGED proj BY <1>1, <1>2, <1>3, <1>4, <1>8, Halts
<1> QED BY <1>5, <1>6, <1>7, <1>8 DEF InterruptAppend, Refused

LEMMA EndShutdownWork == ASSUME Inv, Work, EndShutdown PROVE Work'
<1>1. UNCHANGED <<disturbances, gone, proj, worker, waiting>> /\ visit' = NoVisit
  BY DEF EndShutdown, removal
<1>2. server \in {"interrupting", "overdue"} /\ server' \in {"stopped", "expired"}
  BY DEF EndShutdown, Interrupting
<1>3. NobodyWorks BY <1>1, <1>2, StayIdle
<1>4. VisitEnds' BY <1>1, <1>2 DEF VisitEnds
<1> QED BY <1>1, <1>2, <1>3, <1>4, Halts

LEMMA FreshWork ==
    ASSUME Inv, Work, FreshMemory, UNCHANGED <<disturbances, gone, proj>>, visit' = NoVisit,
           server' = "down", server # "recovering" \/ ~Whole
    PROVE  Work'
<1>1. NobodyWorks BY DEF FreshMemory, NobodyWorks, NoWorker
<1>2. VisitEnds' BY DEF VisitEnds
<1> QED BY <1>1, <1>2, Halts

LEMMA ExitWork == ASSUME Inv, Work, Exit PROVE Work'
<1>1. visit' = NoVisit BY DEF Exit, Work, VisitEnds
<1> QED BY <1>1, FreshWork DEF Exit

LEMMA CrashWork == ASSUME Inv, Work, Crash PROVE Work'
<1>1. server # "recovering" \/ ~Whole BY DEF Crash, Running, ShuttingDown, Stopping, Whole
<1> QED BY <1>1, FreshWork DEF Crash

\* A session with a run that is running is in the phase that recovery
\* looks for.
LEMMA RestartWork == ASSUME Inv, Work, Restart PROVE Work'
<1>1. UNCHANGED <<disturbances, gone, proj, worker, waiting>> BY DEF Restart, removal
<1>2. server = "down" /\ server' = "recovering" BY DEF Restart
<1>3. NobodyWorks BY <1>1, <1>2, StayIdle
<1>4. VisitEnds' BY <1>2 DEF VisitEnds, Interrupting
<1>5. ASSUME NEW t \in Sessions, Whole', HasActive(t)' PROVE t \in todo'
  <2>1. Whole /\ HasActive(t) BY <1>1, <1>5 DEF Whole, HasActive
  <2>2. proj[t].phase = "running" BY <1>2, <2>1 DEF Work, Held
  <2> QED BY <2>1, <2>2 DEF Restart, HasActive
<1> QED BY <1>2, <1>3, <1>4, <1>5, Recovers

LEMMA RecoverSessionWork ==
    ASSUME Inv, Work, NEW s \in Sessions, RecoverSession(s) PROVE Work'
<1>1. UNCHANGED <<disturbances, gone, worker, waiting, todo, server>> BY DEF RecoverSession, removal
<1>2. server = "recovering" BY DEF RecoverSession
<1>3. NobodyWorks BY <1>1, <1>2, StayIdle
<1>4. VisitEnds' BY <1>1, <1>2 DEF VisitEnds, Interrupting
<1>5. Quiet BY EventsAre, QuietOne DEF RecoverSession, Inv
<1>6. ASSUME NEW t \in Sessions, Whole', HasActive(t)' PROVE t \in todo'
  <2>1. Whole /\ HasActive(t) BY <1>1, <1>5, <1>6 DEF Whole, HasActive, Quiet
  <2> QED BY <1>1, <1>2, <2>1 DEF Work, Held
<1> QED BY <1>1, <1>2, <1>3, <1>4, <1>6, Recovers

LEMMA RecoverRunWork == ASSUME Inv, Work, RecoverRun PROVE Work'
<1>1. UNCHANGED <<disturbances, gone, worker, waiting, server>> BY DEF RecoverRun, removal
<1>2. server = "recovering" /\ visit # NoVisit BY DEF RecoverRun
<1>3. NobodyWorks BY <1>1, <1>2, StayIdle
<1>4. VisitEnds' BY <1>1, <1>2 DEF VisitEnds, Interrupting
<1>5. PICK s \in Sessions : s = visit.session BY <1>2, VisitIs
<1>6. todo' = todo \ {s} BY <1>5 DEF RecoverRun
<1>7. ActiveRuns(proj'[s]) = {} /\ \A t \in Sessions \ {s} : proj'[t] = proj[t]
  <2>1. PICK active : active = ActiveRuns(proj[s]) OBVIOUS
  <2>2. CASE active = {} BY <1>5, <2>1, <2>2 DEF RecoverRun
  <2>3. CASE active # {}
    <3>1. active \subseteq Nat /\ active \subseteq Runs
      BY <2>1, IdsAreOrdered DEF ActiveRuns, RunsIn
    <3>2. PICK r : r = CHOOSE x \in active : \A o \in active : x <= o OBVIOUS
    <3>3. \E x \in active : \A o \in active : x <= o BY <2>3, <3>1, NatLeast
    <3>4. r \in active BY <3>2, <3>3
    <3>5. active = {r} BY <2>1, <3>4 DEF Inv, AtMostOne
    <3>6. AppendMany(s, <<RunEnded(r, "interrupted")>>)
      BY <1>5, <2>1, <2>3, <3>2 DEF RecoverRun
    <3>7. PICK e : e = RunEnded(r, "interrupted") OBVIOUS
    <3>8. e \in QuietEvents /\ e \in RunEvents /\ e.run = r /\ e.status = "interrupted" /\ e.type = "run_ended"
      BY <3>1, <3>4, <3>7, EventsAre DEF RunEnded, RunEvents, Terminal
    <3>9. e \in SupervisorEvents /\ r \in Runs BY <3>1, <3>4, <3>8 DEF QuietEvents
    <3>10. /\ \A t \in Sessions \ {s} : proj'[t] = proj[t]
           /\ \A x \in Runs : proj'[s].runs[x] = IF e \in RunEvents /\ e.run = x
                                                 THEN RunEffect(proj[s].runs[x], e)
                                                 ELSE proj[s].runs[x]
      BY <3>6, <3>7, <3>9, AppendOne DEF Inv
    <3>11. proj[s].runs[r] \in RunRecords BY <3>9 DEF Inv, ProjOK, Readable, Projections
    <3>12. proj'[s].runs[r].status = "interrupted" BY <3>8, <3>9, <3>10, <3>11, RunEffectType
    <3> QED BY <2>1, <3>5, <3>8, <3>10, <3>12 DEF ActiveRuns, RunsIn
  <2> QED BY <2>2, <2>3
<1>8. ASSUME NEW t \in Sessions, Whole', HasActive(t)' PROVE t \in todo'
  <2>1. t # s BY <1>7, <1>8 DEF HasActive
  <2>2. Whole /\ HasActive(t) BY <1>1, <1>7, <1>8, <2>1 DEF Whole, HasActive
  <2> QED BY <1>2, <1>6, <2>1, <2>2 DEF Work, Held
<1> QED BY <1>1, <1>2, <1>3, <1>4, <1>8, Recovers

LEMMA ServeWork == ASSUME Inv, Work, Serve PROVE Work'
<1>1. UNCHANGED <<disturbances, gone, proj, worker, waiting>> BY DEF Serve, removal
<1>2. server = "recovering" /\ server' = "up" /\ visit' = NoVisit /\ todo = {} BY DEF Serve
<1>3. NobodyWorks BY <1>1, <1>2, StayIdle
<1>4. VisitEnds' BY <1>2 DEF VisitEnds
<1>5. ASSUME NEW t \in Sessions PROVE Owns(t)' /\ Held(t)'
  <2>1. Owns(t)' BY <1>3, IdleOwns DEF NobodyWorks
  <2>2. Whole => ~HasActive(t) BY <1>2 DEF Work, Held
  <2>3. Held(t)' BY <1>1, <1>2, <2>2 DEF Held, HasActive, Whole
  <2> QED BY <2>1, <2>3
<1> QED BY <1>4, <1>5 DEF Work

LEMMA InitWork == Init => Work
<1> SUFFICES ASSUME Init PROVE Work OBVIOUS
<1> USE DEF Init
<1>1. VisitEnds BY DEF VisitEnds
<1>2. ActiveRuns(Empty) = {} BY DEF ActiveRuns, RunsIn, Empty, NoRun
<1>3. ASSUME NEW s \in Sessions PROVE Owns(s) /\ Held(s)
  <2>1. worker[s].at = "idle" /\ proj[s] = Empty BY DEF NoWorker
  <2>2. Owns(s) BY <2>1 DEF Owns, Clear, Streaming, Carrying
  <2>3. Held(s) BY <1>2, <2>1 DEF Held, HasActive
  <2> QED BY <2>2, <2>3
<1> QED BY <1>1, <1>3 DEF Work

LEMMA StepWork == Inv /\ Work /\ [Next]_vars => Work'
<1> SUFFICES ASSUME Inv, Work, [Next]_vars PROVE Work' OBVIOUS
<1>1. CASE TaskStep
  <2>1. CASE \E s \in Sessions : EnterSession(s) \/ WorkerStep(s)
    BY <2>1, EnterSessionWork, WorkerStepWork
  <2>2. CASE \E h \in Handlers : HandlerStep(h) BY <2>2, HandlerStepWork
  <2>3. CASE ShutdownStep
    BY <2>3, StopWorkersWork, InterruptAppendWork, EndShutdownWork, ExitWork, InterruptReadWork
       DEF ShutdownStep
  <2>4. CASE RecoveryStep
    BY <2>4, RecoverRunWork, ServeWork, RecoverSessionWork DEF RecoveryStep
  <2>5. CASE DeletionStep BY <2>5, DeletionWork
  <2> QED BY <1>1, <2>1, <2>2, <2>3, <2>4, <2>5 DEF TaskStep
<1>2. CASE \E h \in Handlers : NewRequest(h) \/ DropRequest(h) BY <1>2, HandlerStepWork
<1>3. CASE BeginShutdown \/ BeginDeletion \/ DropDeletion \/ Crash \/ Restart
  BY <1>3, BeginShutdownWork, DeletionWork, CrashWork, RestartWork
<1>4. CASE UNCHANGED vars
  <2>1. UNCHANGED <<process, proj, worker, waiting>> BY <1>4 DEF vars
  <2> QED BY <2>1, RequestWork
<1> QED BY <1>1, <1>2, <1>3, <1>4 DEF Next

LEMMA WorkHolds == Spec => [](Inv /\ Work)
<1>1. Inv /\ Work /\ [Next]_vars => (Inv /\ Work)' BY StepGood, StepWork DEF Good
<1>2. Init => Inv /\ Work BY InitGood, InitWork
<1> QED BY <1>1, <1>2, PTL DEF Spec

\* While the server serves, a run that is running is carried by the worker
\* of its session, whatever handlers, cancellations, deletions, aborted
\* shutdowns, crashes and recoveries came before: no run waits for an end
\* that nobody will bring.
THEOREM RunningIsWorkedHolds == Spec => []RunningIsWorked
<1>1. ASSUME Inv, Work PROVE RunningIsWorked
  <2> SUFFICES ASSUME Steady, Whole, server \in {"up", "draining"},
                      NEW s \in Sessions \ gone, NEW r \in ActiveRuns(proj[s])
               PROVE  worker[s].run = r /\ worker[s].at \in {"permit"} \cup HoldsPermit
    BY DEF RunningIsWorked, Whole
  <2>1. Owns(s) /\ Held(s) BY <1>1 DEF Work
  <2>2. worker[s].at \in Carrying BY <2>1 DEF Held, HasActive
  <2>3. worker[s].run = r BY <2>1, <2>2 DEF Owns
  <2> QED BY <2>2, <2>3 DEF Carrying, HoldsPermit
<1> QED BY <1>1, WorkHolds, PTL

\* Workers and requests leave the process alone, and a deletion leaves the
\* stages of its start and stop alone.
LEMMA WorkersAside ==
    ASSUME NEW s \in Sessions, EnterSession(s) \/ WorkerStep(s) PROVE UNCHANGED <<process, req>>
<1>1. CASE EnterSession(s) BY <1>1 DEF EnterSession
<1>2. CASE WorkerStep(s)
  <2>1. CASE LeaveSession(s) \/ SeeEmptyQueue(s) \/ FinishSession(s) \/ PickRun(s) \/ EnterRunning(s)
             \/ StartRun(s) \/ AcquirePermit(s)
    BY <2>1 DEF LeaveSession, SeeEmptyQueue, FinishSession, PickRun, EnterRunning, StartRun, AcquirePermit
  <2>2. CASE OpenMessage(s) \/ FailToOpen(s) \/ RetryAttempt(s) \/ EmitCall(s) \/ RequireAction(s)
    BY <2>2 DEF OpenMessage, FailToOpen, RetryAttempt, EmitCall, RequireAction
  <2>3. CASE \E out \in Outcomes : EndStream(s, out) BY <2>3 DEF EndStream
  <2>4. CASE CloseMessage(s) \/ EndRun(s) \/ ReleaseEnded(s) \/ LeaveRunning(s)
    BY <2>4 DEF CloseMessage, EndRun, ReleaseEnded, LeaveRunning
  <2> QED BY <1>2, <2>1, <2>2, <2>3, <2>4 DEF WorkerStep
<1> QED BY <1>1, <1>2

LEMMA RequestsAside ==
    ASSUME NEW h \in Handlers, HandlerStep(h) \/ NewRequest(h) \/ DropRequest(h)
    PROVE  UNCHANGED process
<1>1. CASE HandlerStep(h)
  BY <1>1 DEF HandlerStep, AppendRequest, FailRequest, SpawnForRequest, AppendCancel, ReleaseCancelled
<1>2. CASE NewRequest(h)
  BY <1>2 DEF NewRequest, QueueRun, Resume, Retry, CancelInactive, CancelActive
<1>3. CASE DropRequest(h) BY <1>3 DEF DropRequest
<1> QED BY <1>1, <1>2, <1>3

LEMMA DeletionAside ==
    ASSUME DeletionStep \/ BeginDeletion \/ DropDeletion PROVE UNCHANGED <<disturbances, server, todo, visit>>
BY DEF DeletionStep, AppendDeletion, DeleteProject, CancelForDeletion, WaitForSessionIdle,
       BeginDeletion, DropDeletion

\* A recovery that is not cut short leaves no run running, whatever the
\* process was doing when it died or stopped.
THEOREM RecoveryCompletes == Spec => RecoveryComplete
<1>1. ASSUME Inv, Work, [Next]_vars
      PROVE  [/\ disturbances \cap {"recovery_crash", "storage"} = {}
              /\ server = "recovering" /\ server' = "up"
              => \A s \in Sessions \ gone : ActiveRuns(proj[s]) = {}]_vars
  <2> SUFFICES ASSUME Whole, server = "recovering", server' = "up", NEW s \in Sessions \ gone
               PROVE  ActiveRuns(proj[s]) = {}
    BY DEF Whole
  <2>1. todo = {}
    <3>1. CASE TaskStep
      <4>1. ~\E x \in Sessions : EnterSession(x) \/ WorkerStep(x) BY WorkersAside DEF process
      <4>2. ~\E h \in Handlers : HandlerStep(h) BY RequestsAside DEF process
      <4>3. ~DeletionStep BY DeletionAside
      <4>4. ~ShutdownStep
        BY DEF ShutdownStep, StopWorkers, InterruptAppend, EndShutdown, Exit, InterruptRead,
               Interrupting
      <4>5. Serve
        BY <3>1, <4>1, <4>2, <4>3, <4>4 DEF TaskStep, RecoveryStep, RecoverRun, RecoverSession
      <4> QED BY <4>5 DEF Serve
    <3>2. ~\E h \in Handlers : NewRequest(h) \/ DropRequest(h) BY RequestsAside DEF process
    <3>3. ~(BeginShutdown \/ BeginDeletion \/ DropDeletion \/ Crash \/ Restart)
      BY DeletionAside DEF BeginShutdown, Crash, Restart
    <3>4. ~UNCHANGED vars BY DEF vars, process
    <3> QED BY <1>1, <3>1, <3>2, <3>3, <3>4 DEF Next
  <2> QED BY <1>1, <2>1 DEF Work, Held, HasActive
<1> QED BY <1>1, WorkHolds, PTL DEF Spec, RecoveryComplete

-----------------------------------------------------------------------------
(* A shutdown that no request disturbs.                                     *)

Calm == "busy" \notin disturbances

\* Nothing queues a run behind the back of the shutdown ...
NoRequests == Calm /\ ShuttingDown => HandlersDone

\* ... so what it is about to append ends every unfinished run, and the
\* sessions it has visited have none.
VisitEndsAll ==
    Calm /\ Interrupting /\ visit # NoVisit =>
        \A r \in RunsIn(proj[visit.session], Unfinished) :
            \E i \in DOMAIN visit.events : visit.events[i] = RunEnded(r, "interrupted")
VisitedEnded ==
    Calm =>
        /\ Interrupting => \A s \in Sessions \ (gone \cup todo) : RunsIn(proj[s], Unfinished) = {}
        /\ server \in {"stopped", "expired"} =>
               \A s \in Sessions \ gone : RunsIn(proj[s], Unfinished) = {}

Closing == NoRequests /\ VisitEndsAll /\ VisitedEnded

LEMMA NotStopping == ASSUME server' \notin Stopping PROVE Closing'
BY DEF Closing, NoRequests, VisitEndsAll, VisitedEnded, ShuttingDown, Interrupting, Stopping

\* Before the workers are stopped only the requests matter.
LEMMA StillDraining ==
    ASSUME NoRequests, server' = "draining", UNCHANGED <<disturbances, deletion, req>>,
           server = "draining" \/ (Calm => HandlersDone)
    PROVE  Closing'
<1>1. NoRequests' BY DEF NoRequests, Calm, ShuttingDown, Stopping, HandlersDone
<1> QED BY <1>1 DEF Closing, VisitEndsAll, VisitedEnded, Interrupting

LEMMA WorkersClosing ==
    ASSUME Inv, Work, Closing, NEW s \in Sessions, EnterSession(s) \/ WorkerStep(s)
    PROVE  Closing'
<1>1. UNCHANGED <<disturbances, deletion, server, req>> BY WorkersAside DEF process, removal
<1>2. worker[s].at # "idle" \/ waiting[s] # 0
  <2>1. EnterSession(s) => waiting[s] # 0 BY DEF EnterSession, Inv, WaitingOK
  <2>2. WorkerStep(s) => worker[s].at # "idle"
    BY DEF WorkerStep, LeaveSession, SeeEmptyQueue, FinishSession, PickRun, EnterRunning, StartRun,
           AcquirePermit, OpenMessage, FailToOpen, RetryAttempt, EmitCall, RequireAction, EndStream,
           CloseMessage, EndRun, ReleaseEnded, LeaveRunning, MayPick, At
  <2> QED BY <2>1, <2>2
<1>3. server \in {"up", "draining"} BY <1>2, WorkerServes
<1>4. CASE server = "up" BY <1>1, <1>4, NotStopping DEF Stopping
<1>5. CASE server = "draining" BY <1>1, <1>5, StillDraining DEF Closing
<1> QED BY <1>3, <1>4, <1>5

LEMMA RequestsClosing ==
    ASSUME Closing, NEW h \in Handlers, HandlerStep(h) \/ NewRequest(h) \/ DropRequest(h)
    PROVE  Closing'
<1>1. UNCHANGED <<disturbances, server>> BY RequestsAside DEF process
<1>2. ~(Calm /\ ShuttingDown)
  <2> SUFFICES ASSUME Calm, ShuttingDown PROVE FALSE OBVIOUS
  <2>1. req[h].at = "idle" BY DEF Closing, NoRequests, HandlersDone
  <2>2. server # "up" BY DEF ShuttingDown, Stopping
  <2>3. ~HandlerStep(h) /\ ~DropRequest(h)
    BY <2>1 DEF HandlerStep, AppendRequest, FailRequest, SpawnForRequest, AppendCancel,
                ReleaseCancelled, DropRequest
  <2>4. ~NewRequest(h)
    BY <2>2 DEF NewRequest, QueueRun, Resume, Retry, CancelInactive, CancelActive, Accepting
  <2> QED BY <2>3, <2>4
<1> QED BY <1>1, <1>2 DEF Closing, NoRequests, VisitEndsAll, VisitedEnded, Calm, ShuttingDown,
                          Interrupting, Stopping

LEMMA DeletionClosing ==
    ASSUME Closing, DeletionStep \/ BeginDeletion \/ DropDeletion PROVE Closing'
<1>1. UNCHANGED <<disturbances, server>> BY DeletionAside
<1>2. ~(Calm /\ ShuttingDown)
  <2> SUFFICES ASSUME Calm, ShuttingDown PROVE FALSE OBVIOUS
  <2>1. deletion.at \in {"none", "abandoned"} BY DEF Closing, NoRequests, HandlersDone
  <2>2. server # "up" BY DEF ShuttingDown, Stopping
  <2> QED BY <2>1, <2>2 DEF DeletionStep, AppendDeletion, DeleteProject, CancelForDeletion,
                            WaitForSessionIdle, BeginDeletion, DropDeletion
<1> QED BY <1>1, <1>2 DEF Closing, NoRequests, VisitEndsAll, VisitedEnded, Calm, ShuttingDown,
                          Interrupting, Stopping

\* A step of the shutdown after the workers were stopped.
LEMMA ShutdownClosing ==
    ASSUME NoRequests, server \in Stopping, UNCHANGED <<disturbances, deletion, req>>,
           server' \in Stopping, VisitEndsAll', VisitedEnded'
    PROVE  Closing'
<1>1. NoRequests' BY DEF NoRequests, Calm, ShuttingDown, HandlersDone
<1> QED BY <1>1 DEF Closing

LEMMA StopWorkersClosing == ASSUME Inv, Work, Closing, StopWorkers PROVE Closing'
<1>1. UNCHANGED <<disturbances, gone, deletion, visit, proj, req>> BY DEF StopWorkers, removal
<1>2. /\ server = "draining" /\ server' \in {"interrupting", "overdue"} /\ todo' = Sessions \ gone
  BY DEF StopWorkers
<1>3. visit' = NoVisit BY <1>1, <1>2 DEF Work, VisitEnds
<1>4. VisitEndsAll' /\ VisitedEnded' BY <1>1, <1>2, <1>3 DEF VisitEndsAll, VisitedEnded, Interrupting
<1>5. server \in Stopping /\ server' \in Stopping BY <1>2 DEF Stopping
<1> QED BY <1>1, <1>4, <1>5, ShutdownClosing DEF Closing

LEMMA InterruptReadClosing ==
    ASSUME Inv, Closing, NEW s \in Sessions, InterruptRead(s) PROVE Closing'
<1>1. UNCHANGED <<disturbances, gone, deletion, proj, req>> BY DEF InterruptRead, removal
<1>2. server \in {"interrupting", "overdue"} BY DEF InterruptRead, Interrupting
<1>3. server \in Stopping BY <1>2 DEF Stopping
<1>4. CASE server' = "failed"
  <2>1. VisitEndsAll' /\ VisitedEnded' /\ server' \in Stopping
    BY <1>4 DEF VisitEndsAll, VisitedEnded, Interrupting, Stopping
  <2> QED BY <1>1, <1>3, <2>1, ShutdownClosing DEF Closing
<1>5. CASE visit' = [session |-> s, events |-> InterruptEvents(proj[s])] /\ UNCHANGED <<server, todo>>
  <2>1. PICK b : b = InterruptEvents(proj[s]) OBVIOUS
  <2>2. visit'.session = s /\ visit'.events = b BY <1>5, <2>1
  <2>3. \A r \in RunsIn(proj[s], Unfinished) : \E i \in DOMAIN b : b[i] = RunEnded(r, "interrupted")
    BY <2>1, InterruptsAll
  <2>4. VisitEndsAll' BY <1>1, <2>2, <2>3 DEF VisitEndsAll
  <2>5. VisitedEnded' BY <1>1, <1>2, <1>5 DEF Closing, VisitedEnded, Calm, Interrupting
  <2> QED BY <1>1, <1>3, <1>5, <2>4, <2>5, ShutdownClosing DEF Closing
<1> QED BY <1>4, <1>5 DEF InterruptRead

LEMMA InterruptAppendClosing == ASSUME Inv, Work, Closing, InterruptAppend PROVE Closing'
<1>1. UNCHANGED <<disturbances, gone, deletion, req>> BY DEF InterruptAppend, removal
<1>2. /\ server \in {"interrupting", "overdue"} /\ visit # NoVisit /\ visit' = NoVisit
      /\ server' \in {server, "failed"}
  BY DEF InterruptAppend, Interrupting
<1>3. server \in Stopping /\ server' \in Stopping BY <1>2 DEF Stopping
<1>4. VisitEndsAll' BY <1>2 DEF VisitEndsAll
<1>5. PICK s \in Sessions : s = visit.session BY <1>2, VisitIs
<1>6. PICK b \in Seq(ClosingEvents) : b = visit.events BY <1>2, VisitIs
<1>7. CASE AppendMany(s, b) /\ todo' = todo \ {s} /\ UNCHANGED server
  <2>1. b \in Seq(QuietEvents) BY QuietSeqs
  <2>2. /\ \A t \in Sessions \ {s} : proj'[t] = proj[t]
        /\ proj'[s].phase # "corrupt"
        /\ Follows(proj[s], proj'[s], {b[i] : i \in 1..Len(b)})
    BY <1>7, <2>1, AppendFollows DEF Inv
  <2>3. ASSUME Calm, NEW r \in RunsIn(proj'[s], Unfinished) PROVE FALSE
    <3>0. r \in Runs /\ proj'[s].runs[r].status \in Unfinished BY <2>3 DEF RunsIn
    <3>1. \A e \in {b[i] : i \in 1..Len(b)} : e.type # "run_queued"
      <4>1. \A i \in 1..Len(b) : b[i] \in ClosingEvents OBVIOUS
      <4> QED BY <4>1 DEF ClosingEvents
    <3>2. r \in RunsIn(proj[s], Unfinished) BY <2>2, <3>0, <3>1 DEF Follows, RunsIn
    <3>3. PICK i \in DOMAIN b : b[i] = RunEnded(r, "interrupted")
      BY <1>2, <1>5, <1>6, <2>3, <3>2 DEF Closing, VisitEndsAll, Interrupting
    <3>4. i \in 1..Len(b) OBVIOUS
    <3>5. b[i].type = "run_ended" /\ b[i].run = r BY <3>3 DEF RunEnded
    <3>6. proj'[s].runs[r].status \in Terminal BY <2>2, <3>4, <3>5 DEF Follows
    <3> QED BY <3>0, <3>6 DEF Terminal, Unfinished
  <2>4. ASSUME Calm', NEW t \in Sessions \ (gone' \cup todo') PROVE RunsIn(proj'[t], Unfinished) = {}
    <3>0. Calm BY <1>1, <2>4 DEF Calm
    <3>1. CASE t = s BY <2>3, <3>0, <3>1
    <3>2. CASE t # s
      <4>1. t \in Sessions \ (gone \cup todo) /\ proj'[t] = proj[t] BY <1>1, <1>7, <2>2, <2>4, <3>2
      <4> QED BY <1>2, <3>0, <4>1 DEF Closing, VisitedEnded, Interrupting
    <3> QED BY <3>1, <3>2
  <2>5. VisitedEnded' BY <1>2, <1>7, <2>4 DEF VisitedEnded
  <2> QED BY <1>1, <1>3, <1>4, <2>5, ShutdownClosing DEF Closing
<1>8. CASE server' = "failed"
  <2>1. VisitedEnded' BY <1>8 DEF VisitedEnded, Interrupting
  <2> QED BY <1>1, <1>3, <1>4, <2>1, ShutdownClosing DEF Closing
<1> QED BY <1>5, <1>6, <1>7, <1>8 DEF InterruptAppend

LEMMA EndShutdownClosing == ASSUME Closing, EndShutdown PROVE Closing'
<1>1. UNCHANGED <<disturbances, gone, deletion, todo, proj, req>> /\ visit' = NoVisit
  BY DEF EndShutdown, removal
<1>2. server \in {"interrupting", "overdue"} /\ server' \in {"stopped", "expired"}
  BY DEF EndShutdown, Interrupting
<1>3. server \in Stopping /\ server' \in Stopping BY <1>2 DEF Stopping
<1>4. VisitEndsAll' BY <1>1 DEF VisitEndsAll
<1>5. VisitedEnded'
  <2>1. Interrupting /\ todo = {} BY DEF EndShutdown
  <2>2. Calm => \A s \in Sessions \ gone : RunsIn(proj[s], Unfinished) = {}
    BY <2>1 DEF Closing, VisitedEnded
  <2> QED BY <1>1, <1>2, <2>2 DEF VisitedEnded, Calm, Interrupting
<1> QED BY <1>1, <1>3, <1>4, <1>5, ShutdownClosing DEF Closing

LEMMA BeginShutdownClosing == ASSUME Closing, BeginShutdown PROVE Closing'
<1>1. UNCHANGED <<disturbances, deletion, req>> BY DEF BeginShutdown, removal
<1>2. Calm => HandlersDone BY DEF BeginShutdown, Calm
<1>3. NoRequests' BY <1>1, <1>2 DEF NoRequests, Calm, HandlersDone
<1> QED BY <1>3 DEF BeginShutdown, Closing, VisitEndsAll, VisitedEnded, Interrupting

LEMMA StepClosing == Inv /\ Work /\ Closing /\ [Next]_vars => Closing'
<1> SUFFICES ASSUME Inv, Work, Closing, [Next]_vars PROVE Closing' OBVIOUS
<1>1. CASE TaskStep
  <2>1. CASE \E s \in Sessions : EnterSession(s) \/ WorkerStep(s) BY <2>1, WorkersClosing
  <2>2. CASE \E h \in Handlers : HandlerStep(h) BY <2>2, RequestsClosing
  <2>3. CASE ShutdownStep
    <3>1. Exit => Closing' BY NotStopping DEF Exit, Stopping
    <3> QED BY <2>3, <3>1, StopWorkersClosing, InterruptAppendClosing, EndShutdownClosing,
               InterruptReadClosing DEF ShutdownStep
  <2>4. CASE RecoveryStep
    <3>1. server' \in {"recovering", "up"}
      BY <2>4 DEF RecoveryStep, RecoverRun, Serve, RecoverSession
    <3> QED BY <3>1, NotStopping DEF Stopping
  <2>5. CASE DeletionStep BY <2>5, DeletionClosing
  <2> QED BY <1>1, <2>1, <2>2, <2>3, <2>4, <2>5 DEF TaskStep
<1>2. CASE \E h \in Handlers : NewRequest(h) \/ DropRequest(h) BY <1>2, RequestsClosing
<1>3. CASE BeginShutdown BY <1>3, BeginShutdownClosing
<1>4. CASE BeginDeletion \/ DropDeletion BY <1>4, DeletionClosing
<1>5. CASE Crash \/ Restart BY <1>5, NotStopping DEF Crash, Restart, Stopping
<1>6. CASE UNCHANGED vars
  <2>1. UNCHANGED <<disturbances, gone, deletion, server, todo, visit, proj, req>>
    BY <1>6 DEF vars, process, removal
  <2> QED BY <2>1 DEF Closing, NoRequests, VisitEndsAll, VisitedEnded, Calm, ShuttingDown,
                      Interrupting, HandlersDone
<1> QED BY <1>1, <1>2, <1>3, <1>4, <1>5, <1>6 DEF Next

\* A shutdown that began with no request in flight and came to its end has
\* ended every run of every session there is, also when it had to abort the
\* workers: no session is skipped and no run queued behind it.
THEOREM ShutdownInterrupts == Spec => []ShutdownInterruptsAll
<1>1. Closing => ShutdownInterruptsAll
  BY DEF Closing, VisitedEnded, ShutdownInterruptsAll, Calm
<1>2. Init => Closing
  BY DEF Init, Closing, NoRequests, VisitEndsAll, VisitedEnded, ShuttingDown, Interrupting, Stopping
<1> QED BY <1>1, <1>2, StepClosing, WorkHolds, PTL DEF Spec

-----------------------------------------------------------------------------
(* Whose the slots are.                                                     *)

\* Slots that the end of the process will give back.
Lost == server \in {"overdue", "expired", "failed"}

\* A handler between the reservation and the append, or between the append
\* and the release.
Keeps(h, r) == req[h].at \in {"append", "release"} /\ "run" \in DOMAIN req[h] /\ req[h].run = r

AccountedIn(s, r) ==
    \/ s \in gone \/ Lost
    \/ proj[s].runs[r].status \in Unfinished
    \/ \E h \in Handlers : Keeps(h, r)
    \/ worker[s].run = r /\ worker[s].at = "release"

AllAccounted ==
    Steady => \A s \in Sessions : \A r \in Runs : owner[r] = s => AccountedIn(s, r)

\* A process that has not served yet has given out no slot.
NoneOwned == server \in {"down", "recovering"} => \A r \in Runs : owner[r] = Slots!NoSession

\* The slot of a run that is about to be queued is that of its session, and
\* the append does queue it.
QueuesOwn(h) ==
    req[h].at = "append" =>
        /\ \A i \in DOMAIN req[h].events : req[h].events[i].type # "run_ended"
        /\ "run" \in DOMAIN req[h] =>
              /\ owner[req[h].run] \in {req[h].session, Slots!NoSession}
              /\ \E i \in DOMAIN req[h].events :
                    req[h].events[i].type = "run_queued" /\ req[h].events[i].run = req[h].run

\* The runs that deletion and shutdown release are those that they end.
DeletionCancels ==
    \A i \in DOMAIN deletion.events : \E r \in Runs : deletion.events[i] = RunEnded(r, "cancelled")
VisitInterrupts ==
    \A i \in DOMAIN visit.events :
        visit.events[i].type = "run_ended" =>
            \E r \in Runs : visit.events[i] = RunEnded(r, "interrupted")

Slotted ==
    /\ AllAccounted /\ NoneOwned /\ DeletionCancels /\ VisitInterrupts
    /\ \A h \in Handlers : QueuesOwn(h)

-----------------------------------------------------------------------------
(* What an append does to the runs that have not ended.                     *)

LEMMA AliveOne ==
    ASSUME ProjOK, NEW s \in Sessions, NEW e \in SupervisorEvents, AppendMany(s, <<e>>),
           e.type # "run_ended"
    PROVE  /\ \A t \in Sessions \ {s} : proj'[t] = proj[t]
           /\ \A r \in Runs : proj[s].runs[r].status \in Unfinished =>
                                  proj'[s].runs[r].status \in Unfinished
<1>1. /\ Accepts(proj[s], e) /\ \A t \in Sessions \ {s} : proj'[t] = proj[t]
      /\ \A r \in Runs : proj'[s].runs[r] = IF e \in RunEvents /\ e.run = r
                                            THEN RunEffect(proj[s].runs[r], e)
                                            ELSE proj[s].runs[r]
  BY AppendOne
<1>2. ASSUME NEW r \in Runs, proj[s].runs[r].status \in Unfinished
      PROVE  proj'[s].runs[r].status \in Unfinished
  <2>1. CASE e \in RunEvents /\ e.run = r
    <3>1. e.type \in {"run_queued", "run_started", "attempt_started", "requires_action", "call_emitted"}
      BY <2>1 DEF RunEvents
    <3>2. proj[s].runs[r] \in RunRecords BY DEF ProjOK, Readable, Projections
    <3>3. proj'[s].runs[r].status = proj[s].runs[r].status
              \/ proj'[s].runs[r].status \in {"queued", "running", "requires_action"}
      BY <1>1, <2>1, <3>1, <3>2, RunEffectType
    <3> QED BY <1>2, <3>3 DEF Unfinished
  <2>2. CASE ~(e \in RunEvents /\ e.run = r) BY <1>1, <1>2, <2>2
  <2> QED BY <2>1, <2>2
<1> QED BY <1>1, <1>2

LEMMA AliveMany ==
    ASSUME ProjOK, NEW s \in Sessions, NEW b \in Seq(QuietEvents), AppendMany(s, b),
           NEW r \in Runs, ~\E i \in DOMAIN b : b[i].type = "run_ended" /\ b[i].run = r,
           proj[s].runs[r].status \in Unfinished
               \/ \E i \in DOMAIN b : b[i].type = "run_queued" /\ b[i].run = r
    PROVE  proj'[s].runs[r].status \in Unfinished
<1>1. DOMAIN b = 1..Len(b) OBVIOUS
<1> DEFINE B == {b[i] : i \in 1..Len(b)}
<1>2. Follows(proj[s], proj'[s], B) /\ proj'[s].phase # "corrupt" BY AppendFollows
<1>3. ~\E e \in B : e.type = "run_ended" /\ e.run = r BY <1>1
<1>4. proj[s].runs[r].status \in Unfinished \/ \E e \in B : e.type = "run_queued" /\ e.run = r
  BY <1>1
<1> HIDE DEF B
<1> QED BY <1>2, <1>3, <1>4 DEF Follows

-----------------------------------------------------------------------------
(* Workers.                                                                 *)

LEMMA WorkerSlots ==
    ASSUME Slotted, NEW s \in Sessions, UNCHANGED <<process, req, owner>>, worker[s].at # "release",
           \A t \in Sessions \ {s} : worker'[t] = worker[t] /\ proj'[t] = proj[t],
           \A r \in Runs : proj[s].runs[r].status \in Unfinished =>
               \/ proj'[s].runs[r].status \in Unfinished
               \/ worker'[s].run = r /\ worker'[s].at = "release"
    PROVE  Slotted'
<1>1. UNCHANGED <<disturbances, gone, deletion, server, visit>> BY DEF process, removal
<1>2. NoneOwned' /\ DeletionCancels' /\ VisitInterrupts'
  BY <1>1 DEF Slotted, NoneOwned, DeletionCancels, VisitInterrupts
<1>3. \A h \in Handlers : QueuesOwn(h)' BY DEF Slotted, QueuesOwn
<1>4. ASSUME Steady, NEW t \in Sessions, NEW r \in Runs, owner[r] = t PROVE AccountedIn(t, r)'
  <2>1. AccountedIn(t, r) BY <1>4 DEF Slotted, AllAccounted
  <2>2. (\E h \in Handlers : Keeps(h, r)) => \E h \in Handlers : Keeps(h, r)' BY DEF Keeps
  <2>3. Lost => Lost' BY <1>1 DEF Lost
  <2>4. CASE t = s BY <1>1, <2>1, <2>2, <2>3, <2>4 DEF AccountedIn
  <2>5. CASE t # s BY <1>1, <2>1, <2>2, <2>3, <2>5 DEF AccountedIn
  <2> QED BY <2>4, <2>5
<1>5. AllAccounted' BY <1>1, <1>4 DEF AllAccounted, Steady
<1> QED BY <1>2, <1>3, <1>5 DEF Slotted

\* A worker that appends something else than the end of its run.
LEMMA WorkerGoesOn ==
    ASSUME Inv, Slotted, NEW s \in Sessions, UNCHANGED <<process, req, slots>>, worker[s].at # "release",
           UNCHANGED worker \/ \E u : worker' = [worker EXCEPT ![s] = u],
           \/ UNCHANGED proj
           \/ \E e \in SupervisorEvents : e.type # "run_ended" /\ AppendMany(s, <<e>>)
    PROVE  Slotted'
<1>1. \A t \in Sessions \ {s} : worker'[t] = worker[t] BY DEF Inv, WorkerOK
<1>2. /\ \A t \in Sessions \ {s} : proj'[t] = proj[t]
      /\ \A r \in Runs : proj[s].runs[r].status \in Unfinished => proj'[s].runs[r].status \in Unfinished
  BY AliveOne DEF Inv
<1> QED BY <1>1, <1>2, WorkerSlots DEF slots

LEMMA WorkerAppendGoesOn ==
    ASSUME Inv, Slotted, NEW s \in Sessions, UNCHANGED <<process, req, slots>>, worker[s].at # "release",
           NEW e \in QuietEvents, e.type # "run_ended", NEW next, NEW otherwise,
           WorkerAppends(s, <<e>>, next, otherwise)
    PROVE  Slotted'
<1>1. e \in SupervisorEvents BY DEF QuietEvents
<1> QED BY <1>1, WorkerGoesOn DEF WorkerAppends, Refused

LEMMA QuietStepsSlots ==
    ASSUME Inv, Slotted, NEW s \in Sessions,
           \/ EnterSession(s) \/ LeaveSession(s) \/ SeeEmptyQueue(s) \/ PickRun(s) \/ AcquirePermit(s)
           \/ FailToOpen(s) \/ \E out \in Outcomes : EndStream(s, out)
    PROVE  Slotted'
<1>1. /\ UNCHANGED <<process, proj, req, slots>> /\ worker[s].at # "release"
      /\ \E u : worker' = [worker EXCEPT ![s] = u]
  <2>1. CASE EnterSession(s) BY <2>1 DEF EnterSession, At
  <2>2. CASE LeaveSession(s) BY <2>2 DEF LeaveSession, At
  <2>3. CASE SeeEmptyQueue(s) BY <2>3 DEF SeeEmptyQueue, MayPick, At
  <2>4. CASE PickRun(s) BY <2>4 DEF PickRun, MayPick, At
  <2>5. CASE AcquirePermit(s) BY <2>5 DEF AcquirePermit, At
  <2>6. CASE FailToOpen(s) BY <2>6 DEF FailToOpen, At
  <2>7. CASE \E out \in Outcomes : EndStream(s, out) BY <2>7 DEF EndStream, At
  <2> QED BY <2>1, <2>2, <2>3, <2>4, <2>5, <2>6, <2>7
<1> QED BY <1>1, WorkerGoesOn

LEMMA PhaseStepsSlots ==
    ASSUME Inv, Slotted, NEW s \in Sessions, FinishSession(s) \/ EnterRunning(s) \/ LeaveRunning(s)
    PROVE  Slotted'
<1>0. \A from, to : PhaseChanged(from, to).type = "phase_changed" BY DEF PhaseChanged
<1>1. CASE FinishSession(s)
  <2>1. PICK e \in QuietEvents : e = PhaseChanged("running", "finished") BY EventsAre DEF Phases
  <2>2. WorkerAppends(s, <<e>>, NoWorker, NoWorker) BY <1>1, <2>1 DEF FinishSession
  <2> QED BY <1>0, <1>1, <2>1, <2>2, WorkerAppendGoesOn DEF FinishSession, At
<1>2. CASE EnterRunning(s)
  <2>1. worker[s].out \in Phases BY <1>2, WorkerAt DEF EnterRunning, At
  <2>2. PICK e \in QuietEvents : e = PhaseChanged(worker[s].out, "running")
    BY <2>1, EventsAre DEF Phases
  <2>3. WorkerAppends(s, <<e>>, Step(s, "start"), NoWorker) BY <1>2, <2>2 DEF EnterRunning
  <2> QED BY <1>0, <1>2, <2>2, <2>3, WorkerAppendGoesOn DEF EnterRunning, At
<1>3. CASE LeaveRunning(s)
  <2>1. PICK e \in QuietEvents : e = PhaseChanged("running", EndPhase(worker[s].out))
    BY EventsAre DEF Phases, EndPhase
  <2>2. WorkerAppends(s, <<e>>, Begin, NoWorker) BY <1>3, <2>1 DEF LeaveRunning
  <2> QED BY <1>0, <1>3, <2>1, <2>2, WorkerAppendGoesOn DEF LeaveRunning, At
<1> QED BY <1>1, <1>2, <1>3

LEMMA StartRunSlots ==
    ASSUME Inv, Slotted, NEW s \in Sessions, StartRun(s) PROVE Slotted'
<1> DEFINE r == worker[s].run
           n == proj[s].runs[r].attempts + 1
<1>1. worker[s].at = "start" /\ r \in Runs BY WorkerAt DEF StartRun, At
<1>2. n \in Nat
  <2>1. proj[s].runs[r].attempts \in Nat
    BY <1>1 DEF Inv, ProjOK, Readable, Projections, RunRecords
  <2> QED BY <2>1
<1>3. PICK e : e = RunStarted(r, n) OBVIOUS
<1>4. /\ AppendMany(s, <<e>>) \/ UNCHANGED proj
      /\ \E u : worker' = [worker EXCEPT ![s] = u]
      /\ UNCHANGED <<process, req, slots>>
  BY <1>3 DEF StartRun, Refused
<1> HIDE DEF r, n
<1>5. e \in SupervisorEvents /\ e.type = "run_started"
  BY <1>1, <1>2, <1>3 DEF RunStarted, SupervisorEvents, RunEvents
<1> QED BY <1>1, <1>4, <1>5, WorkerGoesOn

LEMMA OpenMessageSlots ==
    ASSUME Inv, Slotted, NEW s \in Sessions, OpenMessage(s) PROVE Slotted'
<1>1. PICK m \in Messages : AppendMany(s, <<MessageStarted(m, "assistant")>>) BY DEF OpenMessage
<1>2. PICK e \in QuietEvents : e = MessageStarted(m, "assistant") BY EventsAre
<1>3. e \in SupervisorEvents /\ e.type # "run_ended" BY <1>2 DEF QuietEvents, MessageStarted
<1> QED BY <1>1, <1>2, <1>3, WorkerGoesOn DEF OpenMessage, At

LEMMA RetryAttemptSlots ==
    ASSUME Inv, Slotted, NEW s \in Sessions, RetryAttempt(s) PROVE Slotted'
<1> DEFINE r == worker[s].run
           n == proj[s].runs[r].attempts + 1
<1>1. worker[s].at = "stream" /\ r \in Runs BY WorkerAt DEF RetryAttempt, At
<1>2. n \in Nat
  <2>1. proj[s].runs[r].attempts \in Nat
    BY <1>1 DEF Inv, ProjOK, Readable, Projections, RunRecords
  <2> QED BY <2>1
<1>3. PICK e : e = RunAttemptStarted(r, n) OBVIOUS
<1>4. /\ \/ AppendMany(s, <<e>>) /\ UNCHANGED worker
         \/ UNCHANGED proj /\ worker' = [worker EXCEPT ![s] = Outcome(s, "failed")]
      /\ UNCHANGED <<process, req, slots>>
  BY <1>3 DEF RetryAttempt, Refused
<1> HIDE DEF r, n
<1>5. e \in SupervisorEvents /\ e.type # "run_ended"
  BY <1>1, <1>2, <1>3, EventsAre DEF RunAttemptStarted, QuietEvents
<1> QED BY <1>1, <1>4, <1>5, WorkerGoesOn

LEMMA EmitCallSlots ==
    ASSUME Inv, Slotted, NEW s \in Sessions, EmitCall(s) PROVE Slotted'
<1>1. worker[s].at = "stream" /\ worker[s].run \in Runs BY WorkerAt DEF EmitCall, At
<1>2. PICK c \in Calls :
        \/ AppendMany(s, <<ToolCallEmitted(worker[s].run, c, FALSE)>>) /\ UNCHANGED worker
        \/ UNCHANGED proj /\ worker' = [worker EXCEPT ![s] = Outcome(s, "failed")]
  BY DEF EmitCall, Refused
<1>3. PICK e : e = ToolCallEmitted(worker[s].run, c, FALSE) OBVIOUS
<1>4. e \in SupervisorEvents /\ e.type # "run_ended"
  BY <1>1, <1>3, EventsAre DEF ToolCallEmitted, QuietEvents
<1> QED BY <1>1, <1>2, <1>3, <1>4, WorkerGoesOn DEF EmitCall

LEMMA RequireActionSlots ==
    ASSUME Inv, Slotted, NEW s \in Sessions, RequireAction(s) PROVE Slotted'
<1>1. worker[s].at = "stream" /\ worker[s].run \in Runs BY WorkerAt DEF RequireAction, At
<1>2. PICK e \in QuietEvents : e = RunRequiresAction(worker[s].run) BY <1>1, EventsAre
<1>3. e.type # "run_ended" BY <1>2 DEF RunRequiresAction
<1>4. WorkerAppends(s, <<e>>, Outcome(s, "requires_action"), Outcome(s, "failed"))
  BY <1>2 DEF RequireAction
<1> QED BY <1>1, <1>3, <1>4, WorkerAppendGoesOn DEF RequireAction

LEMMA CloseMessageSlots ==
    ASSUME Inv, Slotted, NEW s \in Sessions, CloseMessage(s) PROVE Slotted'
<1> DEFINE status == IF worker[s].out \in {"completed", "requires_action"}
                     THEN "completed" ELSE "interrupted"
           last == LastAssistant(proj[s], IF worker[s].out = "completed"
                                          THEN {"open", "interrupted"} ELSE {"open"})
           next == IF worker[s].out = "requires_action" THEN "turn" ELSE "end"
<1>1. \/ UNCHANGED proj /\ worker' = [worker EXCEPT ![s] = Step(s, next)]
      \/ \E m \in last : WorkerAppends(s, <<MessageClosed(m, status)>>, Step(s, next), NoWorker)
  BY DEF CloseMessage
<1>0. status \in {"completed", "interrupted"} /\ last \subseteq Messages BY DEF LastAssistant
<1> HIDE DEF status, last, next
<1>2. worker[s].at = "message" /\ UNCHANGED <<process, req, slots>> BY DEF CloseMessage, At
<1>3. CASE UNCHANGED proj /\ worker' = [worker EXCEPT ![s] = Step(s, next)]
  BY <1>2, <1>3, WorkerGoesOn
<1>4. CASE \E m \in last : WorkerAppends(s, <<MessageClosed(m, status)>>, Step(s, next), NoWorker)
  <2>1. PICK m \in Messages : WorkerAppends(s, <<MessageClosed(m, status)>>, Step(s, next), NoWorker)
    BY <1>0, <1>4
  <2>2. PICK e \in QuietEvents : e = MessageClosed(m, status) BY <1>0, EventsAre
  <2>3. e.type # "run_ended" BY <2>2 DEF MessageClosed
  <2> QED BY <1>2, <2>1, <2>2, <2>3, WorkerAppendGoesOn
<1> QED BY <1>1, <1>3, <1>4

LEMMA EndRunSlots ==
    ASSUME Inv, Slotted, NEW s \in Sessions, EndRun(s) PROVE Slotted'
<1>1. worker[s].at = "end" /\ worker[s].run \in Runs /\ worker[s].out \in Terminal
  BY WorkerAt DEF EndRun, At
<1>2. PICK e \in QuietEvents : e = RunEnded(worker[s].run, worker[s].out) BY <1>1, EventsAre
<1>3. e \in SupervisorEvents /\ e.run = worker[s].run BY <1>2 DEF QuietEvents, RunEnded
<1>4. UNCHANGED <<process, req, slots>> BY DEF EndRun
<1>5. CASE AppendMany(s, <<e>>) /\ worker' = [worker EXCEPT ![s] = Step(s, "release")]
  <2>1. \A t \in Sessions \ {s} : worker'[t] = worker[t] BY <1>5 DEF Inv, WorkerOK
  <2>2. worker'[s].at = "release" /\ worker'[s].run = worker[s].run
    <3>1. worker[s] \in WorkerStates BY WorkerAt
    <3>2. worker'[s] = [worker[s] EXCEPT !.at = "release"] BY <1>5 DEF Step, Inv, WorkerOK
    <3> QED BY <3>1, <3>2 DEF WorkerStates
  <2>3. /\ \A t \in Sessions \ {s} : proj'[t] = proj[t]
        /\ \A r \in Runs \ {worker[s].run} : proj'[s].runs[r] = proj[s].runs[r]
    BY <1>3, <1>5, AppendOne DEF Inv
  <2> QED BY <1>1, <1>4, <2>1, <2>2, <2>3, WorkerSlots DEF slots
<1>6. CASE UNCHANGED proj /\ worker' = [worker EXCEPT ![s] = NoWorker]
  BY <1>1, <1>4, <1>6, WorkerGoesOn
<1> QED BY <1>2, <1>5, <1>6 DEF EndRun, WorkerAppends, Refused

\* The slot is given back to where it came from.
LEMMA Freed ==
    ASSUME SlotsOK, NEW r \in Runs, Slots!Release(r)
    PROVE  owner'[r] = Slots!NoSession /\ \A o \in Runs \ {r} : owner'[o] = owner[o]
<1>1. owner \in [Runs -> Sessions \cup {Slots!NoSession}] BY DEF SlotsOK, Slots!TypeOK
<1> QED BY <1>1 DEF Slots!Release, Slots!slots

\* No session is the missing one.
LEMMA NotASession == Slots!NoSession \notin Sessions
BY SlotsAssumption DEF Slots!AdmissionAssumption

LEMMA OwnFreed ==
    ASSUME Inv, NEW h \in Handlers, QueuesOwn(h), req'[h] = req[h],
           \A o \in Runs : owner'[o] \in {owner[o], Slots!NoSession}
    PROVE  QueuesOwn(h)'
<1>1. "run" \in DOMAIN req[h] => req[h].run \in Runs BY HandlerAt
<1> QED BY <1>1 DEF QueuesOwn

LEMMA ReleaseEndedSlots ==
    ASSUME Inv, Slotted, NEW s \in Sessions, ReleaseEnded(s) PROVE Slotted'
<1>1. PICK r \in Runs : r = worker[s].run BY WorkerAt DEF ReleaseEnded, At
<1>2. owner'[r] = Slots!NoSession /\ \A o \in Runs \ {r} : owner'[o] = owner[o]
  BY <1>1, Freed DEF ReleaseEnded, Inv
<1>3. UNCHANGED <<disturbances, gone, deletion, server, visit, proj, req>>
  BY DEF ReleaseEnded, process, removal
<1>4. \A t \in Sessions \ {s} : worker'[t] = worker[t] BY DEF ReleaseEnded, Inv, WorkerOK
<1>5. NoneOwned' /\ DeletionCancels' /\ VisitInterrupts'
  BY <1>2, <1>3 DEF Slotted, NoneOwned, DeletionCancels, VisitInterrupts
<1>6. \A h \in Handlers : QueuesOwn(h)' BY <1>2, <1>3, OwnFreed DEF Slotted
<1>7. ASSUME Steady, NEW t \in Sessions, NEW o \in Runs, owner'[o] = t PROVE AccountedIn(t, o)'
  <2>0. o # r /\ owner[o] = t BY <1>2, <1>7, NotASession
  <2>1. AccountedIn(t, o) BY <1>7, <2>0 DEF Slotted, AllAccounted
  <2>2. (\E h \in Handlers : Keeps(h, o)) => \E h \in Handlers : Keeps(h, o)' BY <1>3 DEF Keeps
  <2>3. Lost => Lost' BY <1>3 DEF Lost
  <2>4. CASE t = s BY <1>1, <1>3, <2>0, <2>1, <2>2, <2>3, <2>4 DEF AccountedIn
  <2>5. CASE t # s BY <1>3, <1>4, <2>1, <2>2, <2>3, <2>5 DEF AccountedIn
  <2> QED BY <2>4, <2>5
<1>8. AllAccounted' BY <1>3, <1>7 DEF AllAccounted, Steady
<1> QED BY <1>5, <1>6, <1>8 DEF Slotted

LEMMA WorkerStepSlots ==
    ASSUME Inv, Slotted, NEW s \in Sessions, EnterSession(s) \/ WorkerStep(s) PROVE Slotted'
BY QuietStepsSlots, PhaseStepsSlots, StartRunSlots, OpenMessageSlots, RetryAttemptSlots,
   EmitCallSlots, RequireActionSlots, CloseMessageSlots, EndRunSlots, ReleaseEndedSlots
   DEF WorkerStep

-----------------------------------------------------------------------------
(* Handlers.                                                                *)

\* A step of handler h: what it held may go, if it is accounted for.
LEMMA HandlerSlots ==
    ASSUME Inv, Slotted, NEW h \in Handlers, UNCHANGED <<process, worker>>,
           \A g \in Handlers \ {h} : req'[g] = req[g],
           QueuesOwn(h)',
           \A g \in Handlers \ {h} : QueuesOwn(g)',
           NoneOwned',
           Steady => \A t \in Sessions : \A r \in Runs : owner'[r] = t =>
               \/ /\ owner[r] = t
                  /\ Keeps(h, r) => AccountedIn(t, r)'
                  /\ proj[t].runs[r].status \in Unfinished => AccountedIn(t, r)'
               \/ AccountedIn(t, r)'
    PROVE  Slotted'
<1>1. UNCHANGED <<disturbances, gone, deletion, server, visit>> BY DEF process, removal
<1>2. DeletionCancels' /\ VisitInterrupts' BY <1>1 DEF Slotted, DeletionCancels, VisitInterrupts
<1>3. ASSUME Steady, NEW t \in Sessions, NEW r \in Runs, owner'[r] = t, ~AccountedIn(t, r)' PROVE FALSE
  <2>1. /\ owner[r] = t /\ ~Keeps(h, r) /\ proj[t].runs[r].status \notin Unfinished BY <1>3
  <2>2. AccountedIn(t, r) BY <1>3, <2>1 DEF Slotted, AllAccounted
  <2>3. Lost => Lost' BY <1>1 DEF Lost
  <2>4. ~\E g \in Handlers : Keeps(g, r)
    <3>1. ASSUME NEW g \in Handlers, Keeps(g, r) PROVE FALSE
      <4>1. g # h BY <2>1, <3>1
      <4>2. Keeps(g, r)' BY <3>1, <4>1 DEF Keeps
      <4> QED BY <1>3, <4>2 DEF AccountedIn
    <3> QED BY <3>1
  <2> QED BY <1>1, <1>3, <2>1, <2>2, <2>3, <2>4 DEF AccountedIn
<1>4. AllAccounted' BY <1>1, <1>3 DEF AllAccounted, Steady
<1> QED BY <1>2, <1>4 DEF Slotted

\* Handler h held nothing, and nothing else moves.
LEMMA HandlerAsks ==
    ASSUME Inv, Slotted, NEW h \in Handlers, UNCHANGED <<process, proj, worker, owner>>,
           req[h].at \notin {"append", "release"}, QueuesOwn(h)',
           \A g \in Handlers \ {h} : req'[g] = req[g]
    PROVE  Slotted'
<1>1. NoneOwned' BY DEF Slotted, NoneOwned, process
<1>2. \A g \in Handlers \ {h} : QueuesOwn(g)' BY OwnFreed DEF Slotted
<1>3. ASSUME Steady, NEW t \in Sessions, NEW r \in Runs, owner[r] = t
      PROVE  ~Keeps(h, r) /\ (proj[t].runs[r].status \in Unfinished => AccountedIn(t, r)')
  BY DEF Keeps, AccountedIn
<1> QED BY <1>1, <1>2, <1>3, HandlerSlots

LEMMA AskSlots ==
    ASSUME Inv, Slotted, NEW h \in Handlers, NEW s \in Sessions,
           Resume(h, s) \/ \E r \in Runs : CancelInactive(h, s, r) \/ CancelActive(h, s, r)
    PROVE  Slotted'
<1>1. req[h].at = "idle" /\ UNCHANGED <<process, proj, worker, owner>>
  BY DEF Resume, CancelInactive, CancelActive, Accepting, slots
<1>2. CASE Resume(h, s)
  <2>1. PICK b : b = <<QueueResumed>> OBVIOUS
  <2>2. req' = [req EXCEPT ![h] = [at |-> "append", session |-> s, events |-> b]]
    BY <1>2, <2>1 DEF Resume
  <2>3. req'[h] = [at |-> "append", session |-> s, events |-> b]
        /\ \A g \in Handlers \ {h} : req'[g] = req[g]
    BY <2>2 DEF Inv, ReqOK
  <2>4. \A i \in DOMAIN b : b[i].type # "run_ended" BY <2>1 DEF QueueResumed
  <2>5. QueuesOwn(h)' BY <2>3, <2>4 DEF QueuesOwn
  <2> QED BY <1>1, <2>3, <2>5, HandlerAsks
<1>3. CASE \E r \in Runs : CancelInactive(h, s, r)
  <2>1. PICK r \in Runs : req' = [req EXCEPT ![h] = [at |-> "cancel", session |-> s, run |-> r]]
    BY <1>3 DEF CancelInactive
  <2>2. req'[h].at = "cancel" /\ \A g \in Handlers \ {h} : req'[g] = req[g]
    BY <2>1 DEF Inv, ReqOK
  <2>3. QueuesOwn(h)' BY <2>2 DEF QueuesOwn
  <2> QED BY <1>1, <2>2, <2>3, HandlerAsks
<1>4. CASE UNCHANGED req
  <2>1. QueuesOwn(h)' BY <1>1, <1>4 DEF QueuesOwn
  <2> QED BY <1>1, <1>4, <2>1, HandlerAsks
<1> QED BY <1>2, <1>3, <1>4 DEF CancelActive

\* queue_run and retry: the id is new, so nobody else's slot changes hands.
LEMMA ReserveSlots ==
    ASSUME Inv, Slotted, NEW h \in Handlers, NEW s \in Sessions, NEW r \in Runs, NEW b,
           server = "up", req[h].at = "idle", FreshRun(r), Slots!Reserve(s, r),
           UNCHANGED <<process, proj, worker>>,
           req' = [req EXCEPT ![h] = [at |-> "append", session |-> s, run |-> r, events |-> b]],
           \A i \in DOMAIN b : b[i].type # "run_ended",
           \E i \in DOMAIN b : b[i].type = "run_queued" /\ b[i].run = r
    PROVE  Slotted'
<1>1. owner'[r] = s /\ \A o \in Runs \ {r} : owner'[o] = owner[o]
  BY DEF Slots!Reserve, Inv, SlotsOK, Slots!TypeOK
<1>2. /\ req'[h] = [at |-> "append", session |-> s, run |-> r, events |-> b]
      /\ \A g \in Handlers \ {h} : req'[g] = req[g]
  BY DEF Inv, ReqOK
<1>3. QueuesOwn(h)' BY <1>1, <1>2 DEF QueuesOwn
<1>4. ASSUME NEW g \in Handlers \ {h} PROVE QueuesOwn(g)'
  <2>1. r \in Nat BY IdsAreOrdered
  <2>2. r \notin Allocated BY <2>1 DEF FreshRun
  <2>3. ~("run" \in DOMAIN req[g] /\ req[g].run = r) BY <2>2 DEF Allocated
  <2>4. "run" \in DOMAIN req[g] => req[g].run \in Runs \ {r} BY <2>3, HandlerAt
  <2>5. QueuesOwn(g) BY DEF Slotted
  <2> QED BY <1>1, <1>2, <2>4, <2>5 DEF QueuesOwn
<1>5. NoneOwned' BY DEF NoneOwned, process
<1>6. Keeps(h, r)' BY <1>2 DEF Keeps
<1>7. ASSUME Steady, NEW t \in Sessions, NEW o \in Runs, owner'[o] = t
      PROVE  \/ /\ owner[o] = t
                /\ Keeps(h, o) => AccountedIn(t, o)'
                /\ proj[t].runs[o].status \in Unfinished => AccountedIn(t, o)'
             \/ AccountedIn(t, o)'
  <2>1. CASE o = r BY <1>6, <2>1 DEF AccountedIn
  <2>2. CASE o # r
    <3>1. owner[o] = t /\ ~Keeps(h, o) BY <1>1, <1>7, <2>2 DEF Keeps
    <3>2. proj[t].runs[o].status \in Unfinished => AccountedIn(t, o)' BY DEF AccountedIn
    <3> QED BY <3>1, <3>2
  <2> QED BY <2>1, <2>2
<1> QED BY <1>2, <1>3, <1>4, <1>5, <1>7, HandlerSlots

LEMMA QueueRunSlots ==
    ASSUME Inv, Slotted, NEW h \in Handlers, NEW s \in Sessions, QueueRun(h, s) PROVE Slotted'
<1>1. PICK r \in Runs :
        /\ FreshRun(r) /\ Slots!Reserve(s, r)
        /\ req' = [req EXCEPT ![h] = [at |-> "append", session |-> s, run |-> r,
                                      events |-> <<RunQueued(r, FALSE)>>]]
  BY DEF QueueRun
<1>2. PICK b : b = <<RunQueued(r, FALSE)>> OBVIOUS
<1>3. DOMAIN b = {1} /\ b[1] = RunQueued(r, FALSE) BY <1>2
<1>4. b[1].type = "run_queued" /\ b[1].run = r BY <1>3 DEF RunQueued
<1> QED BY <1>1, <1>2, <1>3, <1>4, ReserveSlots DEF QueueRun, Accepting

LEMMA RetrySlots ==
    ASSUME Inv, Slotted, NEW h \in Handlers, NEW s \in Sessions, NEW old \in Runs, Retry(h, s, old)
    PROVE  Slotted'
<1>1. PICK r \in Runs :
        /\ FreshRun(r) /\ Slots!Reserve(s, r)
        /\ req' = [req EXCEPT ![h] = [at |-> "append", session |-> s, run |-> r,
                events |-> <<RunQueued(r, TRUE)>> \o
                           (IF proj[s].paused THEN <<QueueResumed>> ELSE <<>>)]]
  BY DEF Retry
<1>2. PICK b : b = <<RunQueued(r, TRUE)>> \o (IF proj[s].paused THEN <<QueueResumed>> ELSE <<>>)
  OBVIOUS
<1>3. PICK e : e = RunQueued(r, TRUE) OBVIOUS
<1>4. e.type = "run_queued" /\ e.run = r BY <1>3 DEF RunQueued
<1>5. PICK q : q = QueueResumed OBVIOUS
<1>6. q.type = "queue_resumed" BY <1>5 DEF QueueResumed
<1>7. 1 \in DOMAIN b /\ b[1] = e /\ \A i \in DOMAIN b : b[i] \in {e, q}
  <2>1. \A x, y : DOMAIN (<<x>> \o <<y>>) = {1, 2} /\ (<<x>> \o <<y>>)[1] = x /\ (<<x>> \o <<y>>)[2] = y
    OBVIOUS
  <2>2. \A x : DOMAIN (<<x>> \o <<>>) = {1} /\ (<<x>> \o <<>>)[1] = x OBVIOUS
  <2>3. CASE proj[s].paused
    <3>1. b = <<e>> \o <<q>> BY <1>2, <1>3, <1>5, <2>3
    <3> QED BY <2>1, <3>1
  <2>4. CASE ~proj[s].paused
    <3>1. b = <<e>> \o <<>> BY <1>2, <1>3, <2>4
    <3> QED BY <2>2, <3>1
  <2> QED BY <2>3, <2>4
<1>8. (\A i \in DOMAIN b : b[i].type # "run_ended")
      /\ \E i \in DOMAIN b : b[i].type = "run_queued" /\ b[i].run = r
  BY <1>4, <1>6, <1>7
<1>9. server = "up" /\ req[h].at = "idle" /\ UNCHANGED <<process, proj, worker>>
  BY DEF Retry, Accepting
<1> QED BY <1>1, <1>2, <1>8, <1>9, ReserveSlots

\* A handler that gives a slot back.
LEMMA HandlerReleases ==
    ASSUME Inv, Slotted, NEW h \in Handlers, UNCHANGED <<process, proj, worker>>,
           req' = [req EXCEPT ![h] = NoReq],
           IF "run" \in DOMAIN req[h] THEN Slots!Release(req[h].run) ELSE UNCHANGED slots
    PROVE  Slotted'
<1>1. req'[h] = NoReq /\ \A g \in Handlers \ {h} : req'[g] = req[g] BY DEF Inv, ReqOK
<1>2. \A o \in Runs : /\ owner'[o] \in {owner[o], Slots!NoSession}
                      /\ "run" \in DOMAIN req[h] /\ req[h].run = o => owner'[o] = Slots!NoSession
  <2>1. CASE "run" \in DOMAIN req[h] BY <2>1, HandlerAt, Freed DEF Inv
  <2>2. CASE "run" \notin DOMAIN req[h] BY <2>2 DEF slots
  <2> QED BY <2>1, <2>2
<1>3. QueuesOwn(h)' BY <1>1 DEF QueuesOwn, NoReq
<1>4. \A g \in Handlers \ {h} : QueuesOwn(g)' BY <1>1, <1>2, OwnFreed DEF Slotted
<1>5. NoneOwned' BY <1>2 DEF Slotted, NoneOwned, process
<1>6. ASSUME Steady, NEW t \in Sessions, NEW o \in Runs, owner'[o] = t
      PROVE  /\ owner[o] = t /\ ~Keeps(h, o)
             /\ proj[t].runs[o].status \in Unfinished => AccountedIn(t, o)'
  <2>1. owner'[o] # Slots!NoSession BY <1>6, NotASession
  <2>2. owner[o] = t /\ ~Keeps(h, o) BY <1>2, <1>6, <2>1 DEF Keeps
  <2> QED BY <2>2 DEF AccountedIn
<1> QED BY <1>1, <1>3, <1>4, <1>5, <1>6, HandlerSlots

LEMMA AppendRequestSlots ==
    ASSUME Inv, Slotted, NEW h \in Handlers, AppendRequest(h) PROVE Slotted'
<1>1. PICK s \in Sessions : s = req[h].session BY HandlerAt DEF AppendRequest
<1>2. PICK b \in Seq(RequestEvents) : b = req[h].events BY HandlerAt DEF AppendRequest
<1>3. UNCHANGED <<process, worker, owner>> /\ req[h].at = "append" BY DEF AppendRequest, slots
<1>4. req' = [req EXCEPT ![h] = [at |-> "spawn", session |-> s]] BY <1>1 DEF AppendRequest
<1>5. req'[h].at = "spawn" /\ \A g \in Handlers \ {h} : req'[g] = req[g] BY <1>4 DEF Inv, ReqOK
<1>6. AppendMany(s, b) /\ b \in Seq(QuietEvents) BY <1>1, <1>2, QuietSeqs DEF AppendRequest
<1>7. QueuesOwn(h)' BY <1>5 DEF QueuesOwn
<1>8. \A g \in Handlers \ {h} : QueuesOwn(g)' BY <1>3, <1>5, OwnFreed DEF Slotted
<1>9. NoneOwned' BY <1>3 DEF Slotted, NoneOwned, process
<1>10. /\ \A i \in DOMAIN b : b[i].type # "run_ended"
       /\ "run" \in DOMAIN req[h] =>
             /\ owner[req[h].run] \in {s, Slots!NoSession}
             /\ \E i \in DOMAIN b : b[i].type = "run_queued" /\ b[i].run = req[h].run
  BY <1>1, <1>2, <1>3 DEF Slotted, QueuesOwn
<1>11. \A t \in Sessions \ {s} : proj'[t] = proj[t] BY <1>6, AppendFollows DEF Inv
<1>12. ASSUME NEW t \in Sessions, NEW r \in Runs, owner[r] = t,
              Keeps(h, r) \/ proj[t].runs[r].status \in Unfinished
       PROVE  proj'[t].runs[r].status \in Unfinished
  <2>1. CASE Keeps(h, r)
    <3>1. owner[r] \in {s, Slots!NoSession} /\ \E i \in DOMAIN b : b[i].type = "run_queued" /\ b[i].run = r
      BY <1>10, <2>1 DEF Keeps
    <3>2. t = s BY <1>12, <3>1, NotASession
    <3> QED BY <1>6, <1>10, <3>1, <3>2, AliveMany DEF Inv
  <2>2. CASE proj[t].runs[r].status \in Unfinished
    <3>1. CASE t = s BY <1>6, <1>10, <2>2, <3>1, AliveMany DEF Inv
    <3>2. CASE t # s BY <1>11, <2>2, <3>2
    <3> QED BY <3>1, <3>2
  <2> QED BY <1>12, <2>1, <2>2
<1>13. ASSUME NEW t \in Sessions, NEW r \in Runs, owner'[r] = t
       PROVE  /\ owner[r] = t
              /\ Keeps(h, r) => AccountedIn(t, r)'
              /\ proj[t].runs[r].status \in Unfinished => AccountedIn(t, r)'
  <2>1. owner[r] = t BY <1>3, <1>13
  <2> QED BY <1>12, <2>1 DEF AccountedIn
<1> QED BY <1>3, <1>5, <1>7, <1>8, <1>9, <1>13, HandlerSlots

LEMMA AppendCancelSlots ==
    ASSUME Inv, Slotted, NEW h \in Handlers, AppendCancel(h) PROVE Slotted'
<1>1. PICK s \in Sessions, r \in Runs : s = req[h].session /\ r = req[h].run
  BY HandlerAt DEF AppendCancel
<1>2. UNCHANGED <<process, worker, owner>> /\ req[h].at = "cancel" BY DEF AppendCancel, slots
<1>3. PICK e : e = RunEnded(r, "cancelled") OBVIOUS
<1>4. e \in SupervisorEvents /\ e.run = r
  BY <1>3, EventsAre DEF QuietEvents, RunEnded, Terminal
<1>5. \/ AppendMany(s, <<e>>) /\ req' = [req EXCEPT ![h] = [at |-> "release", run |-> r]]
      \/ UNCHANGED proj /\ req' = [req EXCEPT ![h] = NoReq]
  BY <1>1, <1>3 DEF AppendCancel, Refused
<1>6. CASE UNCHANGED proj /\ req' = [req EXCEPT ![h] = NoReq]
  <2>1. req'[h] = NoReq /\ \A g \in Handlers \ {h} : req'[g] = req[g] BY <1>6 DEF Inv, ReqOK
  <2>2. QueuesOwn(h)' BY <2>1 DEF QueuesOwn, NoReq
  <2> QED BY <1>2, <1>6, <2>1, <2>2, HandlerAsks
<1>7. CASE AppendMany(s, <<e>>) /\ req' = [req EXCEPT ![h] = [at |-> "release", run |-> r]]
  <2>1. /\ req'[h] = [at |-> "release", run |-> r] /\ \A g \in Handlers \ {h} : req'[g] = req[g]
    BY <1>7 DEF Inv, ReqOK
  <2>2. QueuesOwn(h)' /\ Keeps(h, r)' BY <2>1 DEF QueuesOwn, Keeps
  <2>3. \A g \in Handlers \ {h} : QueuesOwn(g)' BY <1>2, <2>1, OwnFreed DEF Slotted
  <2>4. NoneOwned' BY <1>2 DEF Slotted, NoneOwned, process
  <2>5. /\ \A t \in Sessions \ {s} : proj'[t] = proj[t]
        /\ \A o \in Runs \ {r} : proj'[s].runs[o] = proj[s].runs[o]
    BY <1>4, <1>7, AppendOne DEF Inv
  <2>6. ASSUME NEW t \in Sessions, NEW o \in Runs, owner'[o] = t
        PROVE  /\ owner[o] = t
               /\ Keeps(h, o) => AccountedIn(t, o)'
               /\ proj[t].runs[o].status \in Unfinished => AccountedIn(t, o)'
    <3>1. owner[o] = t /\ ~Keeps(h, o) BY <1>2, <2>6 DEF Keeps
    <3>2. CASE o = r BY <2>2, <3>1, <3>2 DEF AccountedIn
    <3>3. CASE o # r
      <4>1. proj'[t].runs[o] = proj[t].runs[o] BY <2>5, <3>3
      <4> QED BY <3>1, <4>1 DEF AccountedIn
    <3> QED BY <3>2, <3>3
  <2> QED BY <1>2, <2>1, <2>2, <2>3, <2>4, <2>6, HandlerSlots
<1> QED BY <1>5, <1>6, <1>7

LEMMA HandlerStepSlots ==
    ASSUME Inv, Slotted, NEW h \in Handlers, HandlerStep(h) \/ NewRequest(h) \/ DropRequest(h)
    PROVE  Slotted'
<1>1. CASE FailRequest(h) BY <1>1, HandlerReleases DEF FailRequest, Refused
<1>2. CASE ReleaseCancelled(h)
  <2>1. req[h] \in ReqStates /\ req[h].at = "release" BY <1>2 DEF ReleaseCancelled, Inv, ReqOK
  <2>2. "run" \in DOMAIN req[h] BY <2>1 DEF ReqStates, NoReq
  <2> QED BY <1>2, <2>2, HandlerReleases DEF ReleaseCancelled
<1>3. CASE SpawnForRequest(h)
  <2>1. req'[h] = NoReq /\ \A g \in Handlers \ {h} : req'[g] = req[g]
    BY <1>3 DEF SpawnForRequest, Inv, ReqOK
  <2>2. QueuesOwn(h)' BY <2>1 DEF QueuesOwn, NoReq
  <2> QED BY <1>3, <2>1, <2>2, HandlerAsks DEF SpawnForRequest, slots
<1>4. CASE NewRequest(h) BY <1>4, QueueRunSlots, RetrySlots, AskSlots DEF NewRequest
<1>5. CASE DropRequest(h)
  <2>1. req'[h] = NoReq /\ \A g \in Handlers \ {h} : req'[g] = req[g]
    BY <1>5 DEF DropRequest, Inv, ReqOK
  <2>2. UNCHANGED <<process, worker, owner>> /\ ~Steady BY <1>5 DEF DropRequest, Steady, slots
  <2>3. QueuesOwn(h)' BY <2>1 DEF QueuesOwn, NoReq
  <2>4. \A g \in Handlers \ {h} : QueuesOwn(g)' BY <2>1, <2>2, OwnFreed DEF Slotted
  <2>5. NoneOwned' BY <2>2 DEF Slotted, NoneOwned, process
  <2> QED BY <2>1, <2>2, <2>3, <2>4, <2>5, HandlerSlots
<1> QED BY <1>1, <1>2, <1>3, <1>4, <1>5, AppendRequestSlots, AppendCancelSlots DEF HandlerStep

-----------------------------------------------------------------------------
(* Deletion, shutdown, crash and recovery.                                  *)

\* A step of neither a worker nor a handler.
LEMMA ProcessSlots ==
    ASSUME Inv, Slotted, UNCHANGED <<disturbances, worker, req>>, gone \subseteq gone', Lost => Lost',
           \A r \in Runs : owner'[r] \in {owner[r], Slots!NoSession},
           \A t \in Sessions : \A r \in Runs :
               owner'[r] = t /\ proj[t].runs[r].status \in Unfinished => AccountedIn(t, r)',
           server' \in {"down", "recovering"} => server \in {"down", "recovering"},
           DeletionCancels', VisitInterrupts'
    PROVE  Slotted'
<1>1. \A h \in Handlers : QueuesOwn(h)' BY OwnFreed DEF Slotted
<1>2. NoneOwned' BY DEF Slotted, NoneOwned
<1>3. ASSUME Steady, NEW t \in Sessions, NEW r \in Runs, owner'[r] = t PROVE AccountedIn(t, r)'
  <2>1. owner[r] = t BY <1>3, NotASession
  <2>2. AccountedIn(t, r) BY <1>3, <2>1 DEF Slotted, AllAccounted
  <2>3. (\E h \in Handlers : Keeps(h, r)) => \E h \in Handlers : Keeps(h, r)' BY DEF Keeps
  <2> QED BY <1>3, <2>2, <2>3 DEF AccountedIn
<1>4. AllAccounted' BY <1>3 DEF AllAccounted, Steady
<1> QED BY <1>1, <1>2, <1>4 DEF Slotted

LEMMA ProcessRests ==
    ASSUME Inv, Slotted, UNCHANGED <<disturbances, proj, worker, req, owner>>, gone \subseteq gone',
           Lost => Lost', server' \in {"down", "recovering"} => server \in {"down", "recovering"},
           DeletionCancels', VisitInterrupts'
    PROVE  Slotted'
<1>1. \A t \in Sessions : \A r \in Runs :
          owner'[r] = t /\ proj[t].runs[r].status \in Unfinished => AccountedIn(t, r)'
  BY DEF AccountedIn
<1> QED BY <1>1, ProcessSlots

\* The append of a batch that releases the runs it ends.
LEMMA EndsAndReleases ==
    ASSUME Inv, NEW s \in Sessions, NEW b \in Seq(QuietEvents), AppendMany(s, b),
           NEW ended \in SUBSET Runs, Slots!ReleaseAll(ended),
           \A i \in DOMAIN b : b[i].type = "run_ended" => b[i].run \in ended
    PROVE  /\ \A r \in Runs : owner'[r] \in {owner[r], Slots!NoSession}
           /\ \A t \in Sessions : \A r \in Runs :
                 owner'[r] = t /\ proj[t].runs[r].status \in Unfinished => AccountedIn(t, r)'
<1>1. \A r \in Runs : owner'[r] = IF r \in ended THEN Slots!NoSession ELSE owner[r]
  BY DEF Slots!ReleaseAll
<1>2. \A t \in Sessions \ {s} : proj'[t] = proj[t] BY AppendFollows DEF Inv
<1>3. ASSUME NEW t \in Sessions, NEW r \in Runs, owner'[r] = t, proj[t].runs[r].status \in Unfinished
      PROVE  proj'[t].runs[r].status \in Unfinished
  <2>1. r \notin ended BY <1>1, <1>3, NotASession
  <2>2. CASE t = s BY <1>3, <2>1, <2>2, AliveMany DEF Inv
  <2>3. CASE t # s BY <1>2, <1>3, <2>3
  <2> QED BY <2>2, <2>3
<1> QED BY <1>1, <1>3 DEF AccountedIn

LEMMA NothingToAppend ==
    ASSUME NEW at, NEW left
    PROVE  /\ NoDeletion.events = <<>> /\ [NoDeletion EXCEPT !.at = at].events = <<>>
           /\ [NoDeletion EXCEPT !.at = at, !.todo = left].events = <<>>
BY DEF NoDeletion

LEMMA AppendDeletionSlots == ASSUME Inv, Slotted, AppendDeletion PROVE Slotted'
<1> DEFINE ended == {r \in Runs : \E i \in DOMAIN deletion.events :
                                     deletion.events[i] = RunEnded(r, "cancelled")}
<1>1. deletion \in DeletionStates /\ deletion.at = "append" BY DEF Inv, RemovalOK, AppendDeletion
<1>2. PICK s \in Sessions : s = deletion.session BY <1>1 DEF DeletionStates
<1>3. PICK b \in Seq(QuietEvents) : b = deletion.events BY <1>1, QuietSeqs DEF DeletionStates
<1>4. UNCHANGED <<disturbances, gone, server, visit, worker, req>> BY DEF AppendDeletion
<1>5. (AppendMany(s, b) /\ Slots!ReleaseAll(ended)) \/ UNCHANGED <<proj, owner>>
  BY <1>2, <1>3 DEF AppendDeletion, Refused, slots
<1>6. DeletionCancels'
  <2>1. \/ deletion' = [NoDeletion EXCEPT !.at = "wait", !.todo = ProjectSessions]
        \/ \E left : deletion' = [NoDeletion EXCEPT !.at = "cancel", !.todo = left]
        \/ deletion' = NoDeletion
    BY DEF AppendDeletion
  <2>2. deletion'.events = <<>> BY <2>1, NothingToAppend
  <2> QED BY <2>2 DEF DeletionCancels
<1>7. VisitInterrupts' BY <1>4 DEF Slotted, VisitInterrupts
<1>8. Lost => Lost' BY <1>4 DEF Lost
<1>9. \A i \in DOMAIN b : b[i].type = "run_ended" => b[i].run \in ended
  <2>1. ASSUME NEW i \in DOMAIN b PROVE b[i].run \in ended
    <3>1. PICK r \in Runs : b[i] = RunEnded(r, "cancelled") BY <1>3 DEF Slotted, DeletionCancels
    <3>2. b[i].run = r BY <3>1 DEF RunEnded
    <3> QED BY <1>3, <3>1, <3>2
  <2> QED BY <2>1
<1>10. ended \in SUBSET Runs OBVIOUS
<1> HIDE DEF ended
<1>11. CASE AppendMany(s, b) /\ Slots!ReleaseAll(ended)
  BY <1>4, <1>6, <1>7, <1>8, <1>9, <1>10, <1>11, EndsAndReleases, ProcessSlots
<1>12. CASE UNCHANGED <<proj, owner>> BY <1>4, <1>6, <1>7, <1>8, <1>12, ProcessRests
<1> QED BY <1>5, <1>11, <1>12

LEMMA CancelForDeletionSlots ==
    ASSUME Inv, Slotted, NEW s \in Sessions, CancelForDeletion(s) PROVE Slotted'
<1>1. PICK A \in SUBSET Runs : A = RunsIn(proj[s], {"queued", "requires_action"}) BY DEF RunsIn
<1>2. PICK left : left = InOrder(A) OBVIOUS
<1>3. \A i \in DOMAIN left : left[i] \in Runs
  <2>1. PICK n \in Nat : n = Cardinality(A) BY InOrderType
  <2>2. left \in [1..n -> A] BY <1>2, <2>1, InOrderType
  <2> QED BY <2>2
<1>4. PICK b : b = [i \in DOMAIN left |-> RunEnded(left[i], "cancelled")] OBVIOUS
<1>5. deletion' = [deletion EXCEPT !.at = "append", !.session = s, !.events = b]
  BY <1>1, <1>2, <1>4 DEF CancelForDeletion
<1>6. deletion'.events = b
  <2>1. deletion \in DeletionStates BY DEF Inv, RemovalOK
  <2> QED BY <1>5, <2>1 DEF DeletionStates
<1>7. DeletionCancels' BY <1>3, <1>4, <1>6 DEF DeletionCancels
<1>8. UNCHANGED <<disturbances, gone, server, visit, proj, worker, req, owner>>
  BY DEF CancelForDeletion, slots
<1>9. VisitInterrupts' /\ (Lost => Lost') BY <1>8 DEF Slotted, VisitInterrupts, Lost
<1> QED BY <1>7, <1>8, <1>9, ProcessRests

LEMMA DeletionRests ==
    ASSUME Inv, Slotted, gone \subseteq gone', deletion'.events \in {<<>>, deletion.events},
           UNCHANGED <<disturbances, server, visit, proj, worker, req, owner>>
    PROVE  Slotted'
<1>1. DeletionCancels' BY DEF Slotted, DeletionCancels
<1>2. VisitInterrupts' /\ (Lost => Lost') BY DEF Slotted, VisitInterrupts, Lost
<1> QED BY <1>1, <1>2, ProcessRests

LEMMA DeletionSlots ==
    ASSUME Inv, Slotted, DeletionStep \/ BeginDeletion \/ DropDeletion PROVE Slotted'
<1>0. ProjectSessions \subseteq Sessions BY SupervisorAssumption
<1>1. CASE \E s \in ProjectSessions : WaitForSessionIdle(s)
  <2>1. PICK s \in ProjectSessions : WaitForSessionIdle(s) BY <1>1
  <2>2. deletion \in DeletionStates BY DEF Inv, RemovalOK
  <2>3. deletion'.events = deletion.events BY <2>1, <2>2 DEF WaitForSessionIdle, DeletionStates
  <2> QED BY <2>1, <2>3, DeletionRests DEF WaitForSessionIdle, slots
<1>2. CASE DeleteProject \/ BeginDeletion \/ DropDeletion
  <2>1. deletion'.events = <<>> BY <1>2, NothingToAppend DEF DeleteProject, BeginDeletion, DropDeletion
  <2> QED BY <1>2, <2>1, DeletionRests DEF DeleteProject, BeginDeletion, DropDeletion, slots
<1> QED BY <1>0, <1>1, <1>2, AppendDeletionSlots, CancelForDeletionSlots DEF DeletionStep

LEMMA BeginShutdownSlots == ASSUME Inv, Slotted, BeginShutdown PROVE Slotted'
<1>1. UNCHANGED <<disturbances, gone, deletion, visit, proj, worker, req, owner>>
  BY DEF BeginShutdown, removal, slots
<1>2. server = "up" /\ server' = "draining" BY DEF BeginShutdown
<1>3. DeletionCancels' /\ VisitInterrupts' BY <1>1 DEF Slotted, DeletionCancels, VisitInterrupts
<1> QED BY <1>1, <1>2, <1>3, ProcessRests DEF Lost

\* Aborted workers leave their slots behind; workers that are done have none.
LEMMA StopWorkersSlots == ASSUME Inv, Slotted, StopWorkers PROVE Slotted'
<1>1. UNCHANGED <<disturbances, gone, deletion, visit, proj, req, owner>>
  BY DEF StopWorkers, removal, slots
<1>2. server = "draining" /\ server' \in {"interrupting", "overdue"} BY DEF StopWorkers
<1>3. DeletionCancels' /\ VisitInterrupts' BY <1>1 DEF Slotted, DeletionCancels, VisitInterrupts
<1>4. CASE server' = "interrupting"
  <2>1. WorkersDone BY <1>4 DEF StopWorkers
  <2>2. ASSUME Steady, NEW t \in Sessions, NEW r \in Runs, owner[r] = t PROVE AccountedIn(t, r)'
    <3>1. AccountedIn(t, r) BY <2>2 DEF Slotted, AllAccounted
    <3>2. worker[t].at # "release" BY <2>1 DEF WorkersDone, At
    <3>3. (\E h \in Handlers : Keeps(h, r)) => \E h \in Handlers : Keeps(h, r)' BY <1>1 DEF Keeps
    <3>4. ~Lost BY <1>2 DEF Lost
    <3> QED BY <1>1, <3>1, <3>2, <3>3, <3>4 DEF AccountedIn
  <2>3. AllAccounted' BY <1>1, <2>2 DEF AllAccounted, Steady
  <2>4. \A h \in Handlers : QueuesOwn(h)' BY <1>1, OwnFreed DEF Slotted
  <2> QED BY <1>2, <1>3, <2>3, <2>4 DEF Slotted, NoneOwned
<1>5. CASE server' = "overdue"
  <2>1. AllAccounted' BY <1>5 DEF AllAccounted, AccountedIn, Lost
  <2>2. \A h \in Handlers : QueuesOwn(h)' BY <1>1, OwnFreed DEF Slotted
  <2> QED BY <1>2, <1>3, <2>1, <2>2 DEF Slotted, NoneOwned
<1> QED BY <1>2, <1>4, <1>5

\* The runs that interrupt_remaining_runs ends.
LEMMA InterruptsOnly ==
    ASSUME NEW p, NEW b, b = InterruptEvents(p), NEW i \in DOMAIN b, b[i].type = "run_ended"
    PROVE  \E r \in Runs : b[i] = RunEnded(r, "interrupted")
<1> DEFINE A == RunsIn(p, Unfinished)
<1>1. A \in SUBSET Runs BY DEF RunsIn
<1>2. PICK n \in Nat : n = Cardinality(A) BY <1>1, InOrderType
<1>3. PICK q : q = InOrder(A) /\ q \in [1..n -> A] BY <1>1, <1>2, InOrderType
<1>4. PICK a : a = [j \in 1..n |-> RunEnded(q[j], "interrupted")] OBVIOUS
<1>5. PICK c : c = IF p.phase = "running" THEN <<PhaseChanged("running", "interrupted")>> ELSE <<>>
  OBVIOUS
<1>6. DOMAIN q = 1..n BY <1>3
<1>7. b = a \o c BY <1>3, <1>4, <1>5, <1>6 DEF InterruptEvents
<1> HIDE DEF A
<1>8. IsSeq(a) /\ Len(a) = n
  <2>1. DOMAIN a = 1..n BY <1>4
  <2>2. Len(a) = n BY <1>4
  <2> QED BY <1>4, <2>1, <2>2 DEF IsSeq
<1>9. CASE c = <<>>
  <2>1. DOMAIN b = 1..n /\ b[i] = a[i] BY <1>4, <1>7, <1>8, <1>9
  <2> QED BY <1>1, <1>3, <1>4, <2>1
<1>10. CASE c = <<PhaseChanged("running", "interrupted")>>
  <2>1. PICK x : x = PhaseChanged("running", "interrupted") OBVIOUS
  <2>2. x.type = "phase_changed" BY <2>1 DEF PhaseChanged
  <2>3. DOMAIN b = 1..(n + 1) /\ (i \in 1..n => b[i] = a[i]) /\ (i = n + 1 => b[i] = x)
    BY <1>4, <1>7, <1>8, <1>10, <2>1
  <2>4. i \in 1..n BY <2>2, <2>3
  <2> QED BY <1>1, <1>3, <1>4, <2>3, <2>4
<1> QED BY <1>5, <1>9, <1>10

LEMMA InterruptReadSlots ==
    ASSUME Inv, Slotted, NEW s \in Sessions, InterruptRead(s) PROVE Slotted'
<1>1. UNCHANGED <<disturbances, gone, deletion, proj, worker, req, owner>>
  BY DEF InterruptRead, removal, slots
<1>2. PICK b : b = InterruptEvents(proj[s]) OBVIOUS
<1>3. \/ server' = "failed" /\ visit' = visit
      \/ visit' = [session |-> s, events |-> b] /\ server' = server
  BY <1>2 DEF InterruptRead
<1>4. DeletionCancels' BY <1>1 DEF Slotted, DeletionCancels
<1>5. VisitInterrupts'
  <2>1. CASE visit' = visit BY <2>1 DEF Slotted, VisitInterrupts
  <2>2. CASE visit' = [session |-> s, events |-> b]
    <3>1. visit'.events = b BY <2>2
    <3>2. \A i \in DOMAIN b : b[i].type = "run_ended" => \E r \in Runs : b[i] = RunEnded(r, "interrupted")
      BY <1>2, InterruptsOnly
    <3> QED BY <3>1, <3>2 DEF VisitInterrupts
  <2> QED BY <1>3, <2>1, <2>2
<1>6. server' # "down" /\ (server' = "recovering" => server = "recovering")
  BY <1>3 DEF InterruptRead, Interrupting
<1> QED BY <1>1, <1>3, <1>4, <1>5, <1>6, ProcessRests DEF Lost

LEMMA InterruptAppendSlots == ASSUME Inv, Slotted, InterruptAppend PROVE Slotted'
<1> DEFINE ended == {r \in Runs : \E i \in DOMAIN visit.events :
                                     visit.events[i] = RunEnded(r, "interrupted")}
<1>1. PICK s \in Sessions : s = visit.session BY VisitIs DEF InterruptAppend
<1>2. PICK b \in Seq(QuietEvents) : b = visit.events BY VisitIs, QuietSeqs DEF InterruptAppend
<1>3. UNCHANGED <<disturbances, gone, deletion, worker, req>> /\ visit' = NoVisit
  BY DEF InterruptAppend, removal
<1>4. \/ AppendMany(s, b) /\ Slots!ReleaseAll(ended) /\ server' = server
      \/ UNCHANGED <<proj, owner>> /\ server' = "failed"
  BY <1>1, <1>2 DEF InterruptAppend, Refused, slots
<1>5. DeletionCancels' BY <1>3 DEF Slotted, DeletionCancels
<1>6. VisitInterrupts' BY <1>3 DEF VisitInterrupts, NoVisit
<1>7. \A i \in DOMAIN b : b[i].type = "run_ended" => b[i].run \in ended
  <2>1. ASSUME NEW i \in DOMAIN b, b[i].type = "run_ended" PROVE b[i].run \in ended
    <3>1. PICK r \in Runs : b[i] = RunEnded(r, "interrupted")
      BY <1>2, <2>1 DEF Slotted, VisitInterrupts
    <3>2. b[i].run = r BY <3>1 DEF RunEnded
    <3> QED BY <1>2, <3>1, <3>2
  <2> QED BY <2>1
<1>8. ended \in SUBSET Runs OBVIOUS
<1> HIDE DEF ended
<1>9. CASE AppendMany(s, b) /\ Slots!ReleaseAll(ended) /\ server' = server
  <2>1. Lost => Lost' BY <1>9 DEF Lost
  <2> QED BY <1>3, <1>5, <1>6, <1>7, <1>8, <1>9, <2>1, EndsAndReleases, ProcessSlots
<1>10. CASE UNCHANGED <<proj, owner>> /\ server' = "failed"
  BY <1>3, <1>5, <1>6, <1>10, ProcessRests DEF Lost
<1> QED BY <1>4, <1>9, <1>10

LEMMA EndShutdownSlots == ASSUME Inv, Slotted, EndShutdown PROVE Slotted'
<1>1. UNCHANGED <<disturbances, gone, deletion, visit, proj, worker, req, owner>>
  BY DEF EndShutdown, removal, slots
<1>2. DeletionCancels' /\ VisitInterrupts' BY <1>1 DEF Slotted, DeletionCancels, VisitInterrupts
<1>3. /\ server' \in {"stopped", "expired"} /\ (Lost => Lost') BY DEF EndShutdown, Lost, Interrupting
<1> QED BY <1>1, <1>2, <1>3, ProcessRests

\* A process that starts has given out nothing.
LEMMA FreshSlots == ASSUME FreshMemory, VisitInterrupts' PROVE Slotted'
<1>1. \A r \in Runs : owner'[r] = Slots!NoSession BY DEF FreshMemory
<1>2. AllAccounted' /\ NoneOwned' BY <1>1, NotASession DEF AllAccounted, NoneOwned
<1>3. \A h \in Handlers : QueuesOwn(h)' BY DEF QueuesOwn, FreshMemory, NoReq
<1>4. DeletionCancels' BY DEF DeletionCancels, FreshMemory, NoDeletion
<1> QED BY <1>2, <1>3, <1>4 DEF Slotted

LEMMA ExitSlots == ASSUME Slotted, Exit PROVE Slotted'
<1>1. VisitInterrupts' BY DEF Exit, Slotted, VisitInterrupts
<1> QED BY <1>1, FreshSlots DEF Exit

LEMMA CrashSlots == ASSUME Crash PROVE Slotted'
<1>1. VisitInterrupts' BY DEF Crash, VisitInterrupts, NoVisit
<1> QED BY <1>1, FreshSlots DEF Crash

\* Recovery comes before anything has a slot.
LEMMA RecoverySlots == ASSUME Inv, Slotted, RecoveryStep \/ Restart PROVE Slotted'
<1>1. server \in {"down", "recovering"} /\ UNCHANGED <<disturbances, deletion, req, owner>>
  BY DEF RecoveryStep, RecoverRun, Serve, RecoverSession, Restart, removal, slots
<1>2. \A r \in Runs : owner'[r] = Slots!NoSession BY <1>1 DEF Slotted, NoneOwned
<1>3. AllAccounted' /\ NoneOwned' BY <1>2, NotASession DEF AllAccounted, NoneOwned
<1>4. DeletionCancels' BY <1>1 DEF Slotted, DeletionCancels
<1>5. \A h \in Handlers : QueuesOwn(h)' BY <1>1, OwnFreed DEF Slotted
<1>6. visit'.events = <<>> \/ visit' = visit
  <2>1. CASE \E s \in Sessions : RecoverSession(s)
    <3>1. \A s : [NoVisit EXCEPT !.session = s].events = <<>> BY DEF NoVisit
    <3> QED BY <2>1, <3>1 DEF RecoverSession
  <2>2. CASE RecoverRun
    <3>1. NoVisit.events = <<>> BY DEF NoVisit
    <3> QED BY <2>2, <3>1 DEF RecoverRun
  <2>3. CASE Serve \/ Restart BY <2>3 DEF Serve, Restart
  <2> QED BY <2>1, <2>2, <2>3 DEF RecoveryStep
<1>7. VisitInterrupts' BY <1>6 DEF Slotted, VisitInterrupts
<1> QED BY <1>3, <1>4, <1>5, <1>7 DEF Slotted

LEMMA InitSlots == Init => Slotted
<1> SUFFICES ASSUME Init PROVE Slotted OBVIOUS
<1>1. \A r \in Runs : owner[r] = Slots!NoSession BY DEF Init, Slots!Init
<1>2. AllAccounted /\ NoneOwned BY <1>1, NotASession DEF AllAccounted, NoneOwned
<1>3. \A h \in Handlers : QueuesOwn(h) BY DEF QueuesOwn, Init, NoReq
<1>4. DeletionCancels /\ VisitInterrupts
  BY DEF DeletionCancels, VisitInterrupts, Init, NoDeletion, NoVisit
<1> QED BY <1>2, <1>3, <1>4 DEF Slotted

LEMMA StepSlots == Inv /\ Slotted /\ [Next]_vars => Slotted'
<1> SUFFICES ASSUME Inv, Slotted, [Next]_vars PROVE Slotted' OBVIOUS
<1>1. CASE TaskStep
  <2>1. CASE \E s \in Sessions : EnterSession(s) \/ WorkerStep(s) BY <2>1, WorkerStepSlots
  <2>2. CASE \E h \in Handlers : HandlerStep(h) BY <2>2, HandlerStepSlots
  <2>3. CASE ShutdownStep
    BY <2>3, StopWorkersSlots, InterruptAppendSlots, EndShutdownSlots, ExitSlots, InterruptReadSlots
       DEF ShutdownStep
  <2>4. CASE RecoveryStep BY <2>4, RecoverySlots
  <2>5. CASE DeletionStep BY <2>5, DeletionSlots
  <2> QED BY <1>1, <2>1, <2>2, <2>3, <2>4, <2>5 DEF TaskStep
<1>2. CASE \E h \in Handlers : NewRequest(h) \/ DropRequest(h) BY <1>2, HandlerStepSlots
<1>3. CASE BeginShutdown \/ BeginDeletion \/ DropDeletion \/ Crash \/ Restart
  BY <1>3, BeginShutdownSlots, DeletionSlots, CrashSlots, RecoverySlots
<1>4. CASE UNCHANGED vars
  <2>1. UNCHANGED <<disturbances, gone, deletion, server, visit, proj, worker, req, owner>>
    BY <1>4 DEF vars, process, removal, slots
  <2> QED BY <2>1, DeletionRests
<1> QED BY <1>1, <1>2, <1>3, <1>4 DEF Next

\* No slot leaks while storage works and clients stay: one that is taken is
\* that of a run that has not ended, or of a task that is about to queue a
\* run or to give the slot back, through every interleaving of handlers,
\* worker, deletion, shutdown, crash and recovery.
THEOREM SlotsAreAccounted == Spec => []SlotsAccounted
<1>1. ASSUME Inv, Slotted PROVE SlotsAccounted
  <2> SUFFICES ASSUME Steady, NEW r \in Runs, owner[r] # Slots!NoSession
               PROVE  \/ owner[r] \notin gone /\ proj[owner[r]].runs[r].status \in Unfinished
                      \/ \E h \in Handlers : "run" \in DOMAIN req[h] /\ req[h].run = r
                      \/ worker[owner[r]].run = r /\ worker[owner[r]].at = "release"
                      \/ owner[r] \in gone
                      \/ server \in {"overdue", "expired", "failed"}
    BY DEF SlotsAccounted
  <2>1. PICK s \in Sessions : owner[r] = s BY <1>1 DEF Inv, SlotsOK, Slots!TypeOK
  <2>2. AccountedIn(s, r) BY <1>1, <2>1 DEF Slotted, AllAccounted
  <2> QED BY <2>1, <2>2 DEF AccountedIn, Keeps, Lost
<1> QED BY <1>1, InitSlots, StepSlots, InvHolds, PTL DEF Spec
=============================================================================
