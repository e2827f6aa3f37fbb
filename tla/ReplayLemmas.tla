----------------------------- MODULE ReplayLemmas ----------------------------
(* Facts about sequences, records and the fold of SessionProjection that    *)
(* the proofs about the store rest on.  The fold is a recursive function;   *)
(* what it computes is shown by induction over the set of good lengths.     *)
EXTENDS SessionProjection, SequenceTheorems, WellFoundedInduction, TLAPS

-----------------------------------------------------------------------------
(* Sequences.                                                               *)

LEMMA SingletonIsSeq ==
    ASSUME NEW x
    PROVE  IsSeq(<<x>>) /\ Len(<<x>>) = 1 /\ <<x>>[1] = x
BY DEF IsSeq

LEMMA SeqTyped ==
    ASSUME NEW a, IsSeq(a), NEW S, \A i \in 1..Len(a) : a[i] \in S
    PROVE  a \in Seq(S)
BY SeqDef DEF IsSeq

LEMMA TypedSeq ==
    ASSUME NEW S, NEW a \in Seq(S)
    PROVE  IsSeq(a)
BY DEF IsSeq

LEMMA EmptyIsSeq == IsSeq(<<>>) /\ Len(<<>>) = 0
<1>1. Len(<<>>) = 0 OBVIOUS
<1>2. IsSeq(<<>>) BY <1>1 DEF IsSeq
<1>3. QED BY <1>1, <1>2, Zenon

LEMMA ConcatIsSeq ==
    ASSUME NEW a, NEW b, IsSeq(a), IsSeq(b)
    PROVE  /\ IsSeq(a \o b)
           /\ Len(a \o b) = Len(a) + Len(b)
           /\ \A i \in 1..Len(a) : (a \o b)[i] = a[i]
           /\ \A i \in 1..Len(b) : (a \o b)[Len(a) + i] = b[i]
<1> DEFINE S == {a[i] : i \in 1..Len(a)} \cup {b[i] : i \in 1..Len(b)}
<1>1. a \in Seq(S) /\ b \in Seq(S) BY SeqTyped
<1> HIDE DEF S
<1>2. a \o b \in Seq(S) BY <1>1
<1>3. IsSeq(a \o b) BY <1>2, TypedSeq
<1>4. Len(a \o b) = Len(a) + Len(b) BY <1>1
<1>5. \A i \in 1..Len(a) : (a \o b)[i] = a[i] BY <1>1
<1>6. \A i \in 1..Len(b) : (a \o b)[Len(a) + i] = b[i] BY <1>1
<1> QED BY <1>3, <1>4, <1>5, <1>6

LEMMA PrefixIsSeq ==
    ASSUME NEW a, IsSeq(a), NEW n \in 1..Len(a)
    PROVE  /\ IsSeq(SubSeq(a, 1, n))
           /\ Len(SubSeq(a, 1, n)) = n
           /\ \A i \in 1..n : SubSeq(a, 1, n)[i] = a[i]
<1> DEFINE S == {a[i] : i \in 1..Len(a)}
<1>1. a \in Seq(S) BY SeqTyped
<1> HIDE DEF S
<1>2. n \in Nat /\ n <= Len(a) /\ Len(a) \in Nat BY DEF IsSeq
<1>3. SubSeq(a, 1, n) \in Seq(S) BY <1>1, <1>2
<1>4. Len(SubSeq(a, 1, n)) = n BY <1>1, <1>2
<1>5. \A i \in 1..n : SubSeq(a, 1, n)[i] = a[i] BY <1>1, <1>2
<1> QED BY <1>3, <1>4, <1>5, TypedSeq

\* The events of a batch are numbered from the id after `last`.
LEMMA RecordIsSeq ==
    ASSUME NEW last \in Nat, NEW b, IsSeq(b)
    PROVE  /\ IsSeq(Record(last, b))
           /\ Len(Record(last, b)) = Len(b)
           /\ \A i \in 1..Len(b) : /\ Record(last, b)[i].id = last + i
                                   /\ Record(last, b)[i].event = b[i]
<1>1. Len(b) \in Nat BY DEF IsSeq
<1>2. Record(last, b) \in Seq({Record(last, b)[i] : i \in 1..Len(b)})
    BY <1>1, SeqDef DEF Record
<1>3. Len(Record(last, b)) = Len(b) BY <1>1 DEF Record
<1>4. \A i \in 1..Len(b) : /\ Record(last, b)[i].id = last + i
                           /\ Record(last, b)[i].event = b[i]
    BY DEF Record
<1> QED BY <1>2, <1>3, <1>4, TypedSeq

\* A log whose ids are its positions stays so when a batch is recorded
\* after its last id.
LEMMA NumberedConcat ==
    ASSUME NEW a, IsSeq(a), \A i \in 1..Len(a) : a[i].id = i,
           NEW b, IsSeq(b), NEW r, r = Record(Len(a), b)
    PROVE  /\ IsSeq(a \o r)
           /\ Len(a \o r) = Len(a) + Len(b)
           /\ \A i \in 1..Len(a \o r) : (a \o r)[i].id = i
           /\ \A i \in 1..Len(a) : (a \o r)[i] = a[i]
<1>0. Len(a) \in Nat /\ Len(b) \in Nat BY DEF IsSeq
<1>1. IsSeq(r) /\ Len(r) = Len(b) /\ \A i \in 1..Len(b) : r[i].id = Len(a) + i
    BY <1>0, RecordIsSeq
<1>2. /\ IsSeq(a \o r)
      /\ Len(a \o r) = Len(a) + Len(b)
      /\ \A i \in 1..Len(a) : (a \o r)[i] = a[i]
      /\ \A i \in 1..Len(b) : (a \o r)[Len(a) + i] = r[i]
  <2>0. IsSeq(r) BY <1>1
  <2>1. /\ IsSeq(a \o r)
        /\ Len(a \o r) = Len(a) + Len(r)
        /\ \A i \in 1..Len(a) : (a \o r)[i] = a[i]
        /\ \A i \in 1..Len(r) : (a \o r)[Len(a) + i] = r[i]
    BY <2>0, ConcatIsSeq
  <2> QED BY <2>1, <1>1
<1>3. ASSUME NEW i \in 1..Len(a \o r) PROVE (a \o r)[i].id = i
  <2>1. CASE i <= Len(a) BY <1>0, <1>2, <2>1
  <2>2. CASE i > Len(a)
    <3>1. i - Len(a) \in 1..Len(b) /\ Len(a) + (i - Len(a)) = i
        BY <1>0, <1>2, <2>2
    <3> QED BY <3>1, <1>0, <1>1, <1>2
  <2> QED BY <2>1, <2>2, <1>0, <1>2
<1> QED BY <1>2, <1>3

-----------------------------------------------------------------------------
(* Induction over the natural numbers.                                      *)

\* A set of naturals has a least element.
LEMMA NatLeast ==
  ASSUME NEW T, T \subseteq Nat, T # {}
  PROVE  \E x \in T : \A y \in T : x <= y
<1> DEFINE R == OpToRel(<, Nat)
<1>1. IsWellFoundedOn(R, Nat)
  BY NatLessThanWellFounded
<1> HIDE DEF R
<1>2. PICK x \in T : \A y \in T : ~(<<y, x>> \in R)
  BY <1>1, WFMin
<1>3. \A y \in T : <<y, x>> \in R <=> y < x
  BY DEF R, OpToRel
<1>4. \A y \in T : x <= y
  <2> SUFFICES ASSUME NEW y \in T PROVE x <= y
    OBVIOUS
  <2>1. ~(y < x)
    BY <1>2, <1>3
  <2>2. x \in Nat /\ y \in Nat
    OBVIOUS
  <2> QED BY <2>1, <2>2
<1> QED BY <1>4

\* Induction, stated for sets.
LEMMA NatSetInduction ==
  ASSUME NEW T, T \subseteq Nat, 0 \in T, \A n \in T : n + 1 \in T
  PROVE  T = Nat
<1> SUFFICES ASSUME T # Nat PROVE FALSE OBVIOUS
<1>1. PICK x \in Nat \ T : \A y \in Nat \ T : x <= y
  BY NatLeast
<1>2. x # 0 /\ x - 1 \in Nat /\ x - 1 \in T
  BY <1>1
<1> QED BY <1>1, <1>2

-----------------------------------------------------------------------------
(* The fold.                                                                *)

\* g lists the projections after 0, 1, ..., n events of r.
IsSteps(g, p, r, n) ==
    g = [i \in 0..n |-> IF i = 0 THEN p ELSE Apply(g[i - 1], r[i].id, r[i].event)]

\* The recursion is well defined for every length ...
LEMMA StepsExist ==
  ASSUME NEW p, NEW r
  PROVE  \A n \in Nat : \E g : IsSteps(g, p, r, n)
<1> DEFINE T == {n \in Nat : \E g : IsSteps(g, p, r, n)}
<1>1. 0 \in T
  <2>1. IsSteps([i \in 0..0 |-> p], p, r, 0)
    BY DEF IsSteps
  <2> QED BY <2>1
<1>2. ASSUME NEW n \in T PROVE n + 1 \in T
  <2>0. n \in Nat
    OBVIOUS
  <2>1. PICK g : IsSteps(g, p, r, n)
    BY <1>2
  <2> DEFINE h == [i \in 0..(n + 1) |-> IF i <= n THEN g[i]
                      ELSE Apply(g[n], r[n + 1].id, r[n + 1].event)]
  <2>2. \A i \in 0..(n + 1) : h[i] = IF i = 0 THEN p ELSE Apply(h[i - 1], r[i].id, r[i].event)
    <3> SUFFICES ASSUME NEW i \in 0..(n + 1)
                 PROVE h[i] = IF i = 0 THEN p ELSE Apply(h[i - 1], r[i].id, r[i].event)
      OBVIOUS
    <3>1. CASE i = n + 1
      <4>1. h[i] = Apply(g[n], r[i].id, r[i].event)
        BY <3>1, <2>0
      <4>2. i # 0 /\ i - 1 = n /\ h[n] = g[n]
        BY <3>1, <2>0
      <4> QED BY <4>1, <4>2
    <3>2. CASE i = 0
      BY <3>2, <2>0, <2>1 DEF IsSteps
    <3>3. CASE i \in 1..n
      <4>1. h[i] = g[i] /\ h[i - 1] = g[i - 1] /\ i # 0
        BY <3>3, <2>0
      <4>2. g[i] = Apply(g[i - 1], r[i].id, r[i].event)
        BY <3>3, <2>0, <2>1 DEF IsSteps
      <4> QED BY <4>1, <4>2
    <3> QED BY <3>1, <3>2, <3>3, <2>0
  <2>3. h = [i \in 0..(n + 1) |-> h[i]]
    OBVIOUS
  <2> HIDE DEF h
  <2>4. IsSteps(h, p, r, n + 1)
    BY <2>2, <2>3 DEF IsSteps
  <2> QED BY <2>4, <2>0
<1> HIDE DEF T
<1>3. T \subseteq Nat
  BY DEF T
<1>4. T = Nat
  BY <1>1, <1>2, <1>3, NatSetInduction
<1> QED BY <1>4 DEF T

\* ... so Steps is the function it is written to be.
LEMMA StepsDef ==
  ASSUME NEW p, NEW r, Len(r) \in Nat
  PROVE  IsSteps(Steps(p, r), p, r, Len(r))
<1>1. \E g : IsSteps(g, p, r, Len(r))
  BY StepsExist
<1>2. Steps(p, r) = CHOOSE g : IsSteps(g, p, r, Len(r))
  BY DEF Steps, IsSteps
<1> QED BY <1>1, <1>2

\* Records that agree on a prefix have the same steps there.
LEMMA StepsUnique ==
  ASSUME NEW p, NEW r, NEW n \in Nat, NEW m \in Nat, m <= n,
         NEW g, NEW h, IsSteps(g, p, r, n), NEW s, IsSteps(h, p, s, m),
         \A i \in 1..m : s[i] = r[i]
  PROVE  \A i \in 0..m : g[i] = h[i]
<1> DEFINE T == {i \in Nat : i <= m => g[i] = h[i]}
<1>1. 0 \in T
  BY DEF IsSteps
<1>2. ASSUME NEW i \in T PROVE i + 1 \in T
  <2> SUFFICES ASSUME i + 1 <= m PROVE g[i + 1] = h[i + 1]
    OBVIOUS
  <2>1. i \in Nat /\ g[i] = h[i]
    OBVIOUS
  <2>2. g[i + 1] = Apply(g[i], r[i + 1].id, r[i + 1].event)
    BY <2>1 DEF IsSteps
  <2>3. h[i + 1] = Apply(h[i], s[i + 1].id, s[i + 1].event)
    BY <2>1 DEF IsSteps
  <2>4. s[i + 1] = r[i + 1]
    BY <2>1
  <2> QED BY <2>1, <2>2, <2>3, <2>4
<1> HIDE DEF T
<1>3. T \subseteq Nat
  BY DEF T
<1>4. T = Nat
  BY <1>1, <1>2, <1>3, NatSetInduction
<1> QED BY <1>4 DEF T

\* The steps of two sequences that follow each other: the second part runs
\* from the projection the first one left.
LEMMA StepsShift ==
    ASSUME NEW p, NEW b, NEW c, NEW m \in Nat, NEW k \in Nat,
           NEW n \in Nat, m + k <= n, \A i \in 1..k : c[m + i] = b[i],
           NEW f, IsSteps(f, p, c, n), NEW q, NEW g, IsSteps(g, q, b, k), g[0] = f[m]
    PROVE  \A i \in 0..k : f[m + i] = g[i]
<1> DEFINE T == {i \in Nat : i <= k => f[m + i] = g[i]}
<1>a. ASSUME NEW i \in 1..n PROVE f[i] = Apply(f[i - 1], c[i].id, c[i].event)
  <2>1. i \in 0..n /\ i # 0 OBVIOUS
  <2> QED BY <2>1 DEF IsSteps
<1>b. ASSUME NEW i \in 1..k PROVE g[i] = Apply(g[i - 1], b[i].id, b[i].event)
  <2>1. i \in 0..k /\ i # 0 OBVIOUS
  <2> QED BY <2>1 DEF IsSteps
<1>1. 0 \in T
  OBVIOUS
<1>2. ASSUME NEW i \in T PROVE i + 1 \in T
  <2> SUFFICES ASSUME i + 1 <= k PROVE f[m + (i + 1)] = g[i + 1] OBVIOUS
  <2>1. i \in Nat /\ i + 1 \in 1..k /\ f[m + i] = g[i] OBVIOUS
  <2>2. g[i + 1] = Apply(g[i], b[i + 1].id, b[i + 1].event)
    <3>1. (i + 1) - 1 = i BY <2>1
    <3> QED BY <3>1, <2>1, <1>b
  <2>3. c[m + (i + 1)] = b[i + 1] BY <2>1
  <2>4. m + (i + 1) \in 1..n /\ (m + (i + 1)) - 1 = m + i BY <2>1
  <2>5. f[m + (i + 1)] = Apply(f[m + i], b[i + 1].id, b[i + 1].event)
      BY <1>a, <2>3, <2>4
  <2> QED BY <2>1, <2>2, <2>5
<1> HIDE DEF T
<1>3. T \subseteq Nat BY DEF T
<1>4. T = Nat BY <1>1, <1>2, <1>3, NatSetInduction
<1> QED BY <1>4 DEF T

LEMMA StepsConcat ==
    ASSUME NEW p, NEW a, NEW b, NEW c, NEW m \in Nat, NEW k \in Nat,
           NEW n \in Nat, m + k <= n,
           \A i \in 1..m : a[i] = c[i], \A i \in 1..k : c[m + i] = b[i],
           NEW f, IsSteps(f, p, c, n), NEW h, IsSteps(h, p, a, m),
           NEW q, NEW g, IsSteps(g, q, b, k), g[0] = h[m]
    PROVE  f[m] = h[m] /\ f[m + k] = g[k]
<1>1. \A i \in 0..m : f[i] = h[i]
  <2>1. ASSUME n \in Nat, m \in Nat, m <= n, IsSteps(f, p, c, n), IsSteps(h, p, a, m),
               \A i \in 1..m : a[i] = c[i]
        PROVE  \A i \in 0..m : f[i] = h[i]
      BY ONLY <2>1, StepsUnique, SMT
  <2> QED BY <2>1
<1>2. g[0] = f[m] BY <1>1
<1>3. \A i \in 0..k : f[m + i] = g[i]
  <2>1. ASSUME m \in Nat, k \in Nat, n \in Nat, m + k <= n,
               \A i \in 1..k : c[m + i] = b[i],
               IsSteps(f, p, c, n), IsSteps(g, q, b, k), g[0] = f[m]
        PROVE  \A i \in 0..k : f[m + i] = g[i]
      BY ONLY <2>1, StepsShift, SMT
  <2> QED BY <1>2, <2>1
<1> QED BY <1>1, <1>3

\* Applying a log and then a batch is applying the log with the batch.
LEMMA ReplayConcat ==
    ASSUME NEW p, NEW a, NEW b, IsSeq(a), IsSeq(b)
    PROVE  ApplyAll(p, a \o b) = ApplyAll(ApplyAll(p, a), b)
<1>0. Len(a) \in Nat /\ Len(b) \in Nat BY DEF IsSeq
<1> SUFFICES ASSUME NEW c, c = a \o b, NEW m \in Nat, m = Len(a), NEW k \in Nat, k = Len(b)
             PROVE  ApplyAll(p, c) = ApplyAll(ApplyAll(p, a), b)
    BY <1>0
<1>1. /\ Len(c) = m + k
      /\ \A i \in 1..m : a[i] = c[i]
      /\ \A i \in 1..k : c[m + i] = b[i]
    BY ConcatIsSeq
<1>2. PICK n \in Nat : n = m + k OBVIOUS
<1>3. PICK f : f = Steps(p, c) /\ IsSteps(f, p, c, n) BY <1>1, <1>2, StepsDef
<1>4. PICK h : h = Steps(p, a) /\ IsSteps(h, p, a, m) BY StepsDef
<1>5. PICK q : q = h[m] OBVIOUS
<1>6. PICK g : g = Steps(q, b) /\ IsSteps(g, q, b, k) BY StepsDef
<1>7. g[0] = h[m] BY <1>5, <1>6 DEF IsSteps
<1>8. f[m + k] = g[k]
  <2>1. ASSUME m \in Nat, k \in Nat, n \in Nat, m + k <= n,
               \A i \in 1..m : a[i] = c[i], \A i \in 1..k : c[m + i] = b[i],
               IsSteps(f, p, c, n), IsSteps(h, p, a, m), IsSteps(g, q, b, k), g[0] = h[m]
        PROVE  f[m + k] = g[k]
      BY ONLY <2>1, StepsConcat, SMT
  <2> QED BY <1>1, <1>2, <1>3, <1>4, <1>6, <1>7, <2>1
<1>9. ApplyAll(p, c) = f[m + k] BY <1>1, <1>3 DEF ApplyAll
<1>10. ApplyAll(p, a) = q BY <1>4, <1>5 DEF ApplyAll
<1>11. ApplyAll(q, b) = g[k] BY <1>6 DEF ApplyAll
<1> QED BY <1>8, <1>9, <1>10, <1>11

-----------------------------------------------------------------------------
(* What the events of the supervisor do to a projection and to its runs.    *)

CallRecords == [emitted : BOOLEAN, native : BOOLEAN,
                execution : Values \cup {Nil}, result : Values \cup {Nil}]
RunRecords == [status : RunStatuses \cup {"absent"}, retry : BOOLEAN, attempts : Nat,
               calls : [Calls -> CallRecords]]
MessageRecords == [status : {"absent", "open", "completed", "interrupted"},
                   role : {"user", "assistant"}]
Projections ==
    [phase : Phases \cup {"corrupt"}, revision : Nat, last : Nat, paused : BOOLEAN,
     runs : [Runs -> RunRecords], messages : [Messages -> MessageRecords],
     requests : [Requests -> {NoRequest}], agents : [Agents -> {NoAgent}]]

\* The events that the supervisor appends, by what they change.
PhaseEvents ==
    [type : {"session_interrupted", "queue_resumed"}]
    \cup [type : {"phase_changed"}, from : Phases, to : Phases]
MessageEvents ==
    [type : {"message_started"}, message : Messages, role : {"user", "assistant"}]
    \cup [type : {"message_closed"}, message : Messages, status : {"completed", "interrupted"}]
RunEvents ==
    [type : {"run_queued"}, run : Runs, retry : BOOLEAN]
    \cup [type : {"run_started", "attempt_started"}, run : Runs, attempt : Nat]
    \cup [type : {"requires_action"}, run : Runs]
    \cup [type : {"run_ended"}, run : Runs, status : Terminal]
    \cup [type : {"call_emitted"}, run : Runs, call : Calls, native : BOOLEAN]
SupervisorEvents == PhaseEvents \cup MessageEvents \cup RunEvents

LEMMA EmptyType == Empty \in Projections /\ Corrupt \in Projections
<1>1. NoCall \in CallRecords BY DEF NoCall, CallRecords
<1>2. NoRun \in RunRecords BY <1>1 DEF NoRun, RunRecords, RunStatuses
<1>3. NoMessage \in MessageRecords BY DEF NoMessage, MessageRecords
<1>4. Empty \in Projections BY <1>2, <1>3 DEF Empty, Projections, Phases
<1> QED BY <1>4 DEF Corrupt, Projections


\* Every event is of one of these types.
LEMMA EventTypes ==
    ASSUME NEW e \in SupervisorEvents
    PROVE  \/ e.type \in {"session_interrupted", "queue_resumed"} /\ "run" \notin DOMAIN e
           \/ e.type = "phase_changed" /\ e.to \in Phases /\ "run" \notin DOMAIN e
           \/ e.type = "message_started" /\ e.message \in Messages /\ e.role \in {"user", "assistant"}
           \/ e.type = "message_closed" /\ e.message \in Messages
                 /\ e.status \in {"completed", "interrupted"}
           \/ e.type = "run_queued" /\ e.run \in Runs /\ e.retry \in BOOLEAN /\ "run" \in DOMAIN e
           \/ e.type \in {"run_started", "attempt_started"} /\ e.run \in Runs /\ e.attempt \in Nat
                 /\ "run" \in DOMAIN e
           \/ e.type = "requires_action" /\ e.run \in Runs /\ "run" \in DOMAIN e
           \/ e.type = "run_ended" /\ e.run \in Runs /\ e.status \in Terminal /\ "run" \in DOMAIN e
           \/ e.type = "call_emitted" /\ e.run \in Runs /\ e.call \in Calls /\ e.native \in BOOLEAN
                 /\ "run" \in DOMAIN e
BY DEF SupervisorEvents, PhaseEvents, MessageEvents, RunEvents

\* The phase, the revision, the last id and the pause after an event.
StateAfter(p, id, e) == [StateEffect(p, id, e) EXCEPT !.paused = PausedEffect(p, e)]

LEMMA StateAfterType ==
    ASSUME NEW p \in Projections, NEW id \in Nat, NEW e \in SupervisorEvents
    PROVE  /\ StateAfter(p, id, e) \in Projections
           /\ StateAfter(p, id, e).runs = p.runs
           /\ StateAfter(p, id, e).messages = p.messages
           /\ p.phase \in Phases => StateAfter(p, id, e).phase \in Phases
<1>1. PausedEffect(p, e) \in BOOLEAN
  <2>1. p.paused \in BOOLEAN BY DEF Projections
  <2> QED BY <2>1, Zenon DEF PausedEffect
<1>2. \E to \in Phases \cup {p.phase} : \E n \in Nat :
         StateEffect(p, id, e) = [p EXCEPT !.phase = to, !.last = id, !.revision = n]
  <2>0. p.revision \in Nat /\ p.revision + 1 \in Nat BY DEF Projections
  <2>1. CASE e.type = "phase_changed"
    <3>1. e.to \in Phases BY <2>1, EventTypes
    <3>2. StateEffect(p, id, e) = [p EXCEPT !.phase = e.to, !.last = id, !.revision = p.revision + 1]
      BY <2>1, Zenon DEF StateEffect
    <3> QED BY <3>1, <3>2, <2>0, Zenon
  <2>2. CASE e.type = "session_interrupted"
    <3>1. StateEffect(p, id, e)
            = [p EXCEPT !.phase = "interrupted", !.last = id, !.revision = p.revision + 1]
      BY <2>2, Zenon DEF StateEffect
    <3>2. "interrupted" \in Phases BY DEF Phases
    <3> QED BY <3>1, <3>2, <2>0, Zenon
  <2>3. CASE e.type \notin {"phase_changed", "session_interrupted", "session_forked"}
    <3>1. StateEffect(p, id, e)
            = [p EXCEPT !.phase = p.phase, !.last = id, !.revision = p.revision]
      BY <2>3, Zenon DEF StateEffect
    <3> QED BY <3>1, <2>0, Zenon
  <2>4. e.type # "session_forked" BY EventTypes
  <2> QED BY <2>1, <2>2, <2>3, <2>4
<1>3. PICK to \in Phases \cup {p.phase}, n \in Nat :
         StateEffect(p, id, e) = [p EXCEPT !.phase = to, !.last = id, !.revision = n]
  BY <1>2
<1>4. [p EXCEPT !.phase = to, !.last = id, !.revision = n] \in Projections
  BY DEF Projections
<1> QED BY <1>1, <1>3, <1>4 DEF Projections, StateAfter

\* What an event does to the run it names.
LEMMA RunEffectType ==
    ASSUME NEW run \in RunRecords, NEW e \in RunEvents
    PROVE  /\ RunEffect(run, e) \in RunRecords
           /\ e.type = "run_queued" => RunEffect(run, e).status = "queued"
           /\ e.type = "run_started" => RunEffect(run, e).status = "running"
           /\ e.type = "requires_action" => RunEffect(run, e).status = "requires_action"
           /\ e.type = "run_ended" => RunEffect(run, e).status = e.status
           /\ e.type \in {"attempt_started", "call_emitted"} => RunEffect(run, e).status = run.status
<1> USE DEF RunRecords, RunStatuses, Unfinished
<1>0. e \in SupervisorEvents BY DEF SupervisorEvents
<1>1. CASE e.type = "run_queued"
  <2>1. e.retry \in BOOLEAN BY <1>0, <1>1, EventTypes
  <2>2. RunEffect(run, e) = [NoRun EXCEPT !.status = "queued", !.retry = e.retry]
    BY <1>1, Zenon DEF RunEffect
  <2>3. NoRun \in RunRecords
    <3>1. NoCall \in CallRecords BY DEF NoCall, CallRecords
    <3> QED BY <3>1 DEF NoRun
  <2> QED BY <1>1, <2>1, <2>2, <2>3
<1>2. CASE e.type = "run_started"
  <2>1. e.attempt \in Nat BY <1>0, <1>2, EventTypes
  <2>2. RunEffect(run, e) = [run EXCEPT !.status = "running", !.attempts = e.attempt]
    BY <1>2, Zenon DEF RunEffect
  <2> QED BY <1>2, <2>1, <2>2
<1>3. CASE e.type = "attempt_started"
  <2>1. e.attempt \in Nat BY <1>0, <1>3, EventTypes
  <2>2. RunEffect(run, e) = [run EXCEPT !.attempts = e.attempt] BY <1>3, Zenon DEF RunEffect
  <2> QED BY <1>3, <2>1, <2>2
<1>4. CASE e.type = "requires_action"
  <2>1. RunEffect(run, e) = [run EXCEPT !.status = "requires_action"]
    BY <1>4, Zenon DEF RunEffect
  <2> QED BY <1>4, <2>1
<1>5. CASE e.type = "run_ended"
  <2>1. e.status \in Terminal BY <1>0, <1>5, EventTypes
  <2>2. RunEffect(run, e) = [run EXCEPT !.status = e.status] BY <1>5, Zenon DEF RunEffect
  <2> QED BY <1>5, <2>1, <2>2
<1>6. CASE e.type = "call_emitted"
  <2>1. e.call \in Calls /\ e.native \in BOOLEAN BY <1>0, <1>6, EventTypes
  <2>2. RunEffect(run, e) =
          [run EXCEPT !.calls[e.call] = [NoCall EXCEPT !.emitted = TRUE, !.native = e.native]]
    BY <1>6, Zenon DEF RunEffect
  <2>3. [NoCall EXCEPT !.emitted = TRUE, !.native = e.native] \in CallRecords
    BY <2>1 DEF NoCall, CallRecords
  <2> QED BY <1>6, <2>1, <2>2, <2>3
<1>7. e.type \in {"run_queued", "run_started", "attempt_started", "requires_action", "run_ended",
                  "call_emitted"}
  BY DEF RunEvents
<1> QED BY <1>1, <1>2, <1>3, <1>4, <1>5, <1>6, <1>7

\* What an event does to the projection.
LEMMA EffectType ==
    ASSUME NEW p \in Projections, NEW id \in Nat, NEW e \in SupervisorEvents
    PROVE  /\ Effect(p, id, e) \in Projections
           /\ p.phase \in Phases => Effect(p, id, e).phase \in Phases
           /\ \A r \in Runs :
                 Effect(p, id, e).runs[r] = IF e \in RunEvents /\ e.run = r
                                            THEN RunEffect(p.runs[r], e) ELSE p.runs[r]
<1>0. PICK q : q = StateAfter(p, id, e) OBVIOUS
<1>1. q \in Projections /\ q.runs = p.runs /\ q.messages = p.messages
      /\ (p.phase \in Phases => q.phase \in Phases)
  BY <1>0, StateAfterType
<1>2. CASE e \in RunEvents
  <2>1. "run" \in DOMAIN e /\ e.run \in Runs BY <1>2 DEF RunEvents
  <2>2. e.type \notin {"message_started", "message_closed", "permission_requested",
                       "permission_resolved", "agent_spawned", "agent_finished", "agent_delivered"}
    BY <1>2 DEF RunEvents
  <2>3. Effect(p, id, e) = [q EXCEPT !.runs[e.run] = RunEffect(q.runs[e.run], e)]
    BY <2>1, <2>2, <1>0, Zenon DEF Effect, StateAfter
  <2>4. p.runs \in [Runs -> RunRecords] BY DEF Projections
  <2>5. RunEffect(p.runs[e.run], e) \in RunRecords BY <1>2, <2>1, <2>4, RunEffectType
  <2> QED BY <1>1, <1>2, <2>1, <2>3, <2>4, <2>5 DEF Projections
<1>3. CASE e \in MessageEvents
  <2>1. e.message \in Messages /\ p.messages \in [Messages -> MessageRecords]
    BY <1>3 DEF MessageEvents, Projections
  <2>2. e \notin RunEvents BY <1>3 DEF MessageEvents, RunEvents
  <2>3. CASE e.type = "message_started"
    <3>1. e.role \in {"user", "assistant"} BY <1>3, <2>3 DEF MessageEvents
    <3>2. Effect(p, id, e) = [q EXCEPT !.messages[e.message] = [status |-> "open", role |-> e.role]]
      BY <2>3, <1>0, Zenon DEF Effect, StateAfter
    <3>3. [q EXCEPT !.messages[e.message] = [status |-> "open", role |-> e.role]] \in Projections
      BY <1>1, <2>1, <3>1 DEF Projections, MessageRecords
    <3>4. Effect(p, id, e).runs = q.runs /\ Effect(p, id, e).phase = q.phase
      BY <1>1, <3>2 DEF Projections
    <3> QED BY <1>1, <2>2, <3>2, <3>3, <3>4
  <2>4. CASE e.type = "message_closed"
    <3>1. e.status \in {"completed", "interrupted"} BY <1>3, <2>4 DEF MessageEvents
    <3>2. Effect(p, id, e) = [q EXCEPT !.messages[e.message].status = e.status]
      BY <2>4, <1>0, Zenon DEF Effect, StateAfter
    <3>3. [q EXCEPT !.messages[e.message].status = e.status] \in Projections
      <4>1. [q.messages[e.message] EXCEPT !.status = e.status] \in MessageRecords
        BY <1>1, <2>1, <3>1 DEF MessageRecords
      <4> QED BY <1>1, <2>1, <4>1 DEF Projections
    <3>4. Effect(p, id, e).runs = q.runs /\ Effect(p, id, e).phase = q.phase
      BY <1>1, <3>2 DEF Projections
    <3> QED BY <1>1, <2>2, <3>2, <3>3, <3>4
  <2> QED BY <1>3, <2>3, <2>4 DEF MessageEvents
<1>4. CASE e \in PhaseEvents
  <2>1. e.type \notin {"message_started", "message_closed", "permission_requested",
                       "permission_resolved", "agent_spawned", "agent_finished", "agent_delivered"}
    BY <1>4 DEF PhaseEvents
  <2>2. "run" \notin DOMAIN e /\ e \notin RunEvents BY <1>4 DEF PhaseEvents, RunEvents
  <2>3. Effect(p, id, e) = q BY <2>1, <2>2, <1>0, Zenon DEF Effect, StateAfter
  <2> QED BY <1>1, <2>2, <2>3
<1> QED BY <1>2, <1>3, <1>4 DEF SupervisorEvents

\* Which runs an event may name.
LEMMA AcceptsRuns ==
    ASSUME NEW p, NEW e, Accepts(p, e)
    PROVE  /\ e.type = "run_queued" => p.runs[e.run].status = "absent"
           /\ e.type = "run_started" => p.runs[e.run].status \in {"queued", "requires_action"}
           /\ e.type \in {"attempt_started", "requires_action"} => p.runs[e.run].status = "running"
           /\ e.type = "run_ended" => p.runs[e.run].status \in Unfinished
           /\ e.type = "call_emitted" => p.runs[e.run].status # "absent"
<1>1. e.type = "run_queued" => p.runs[e.run].status = "absent" BY Zenon DEF Accepts
<1>2. e.type = "run_started" => p.runs[e.run].status \in {"queued", "requires_action"}
  BY Zenon DEF Accepts
<1>3. e.type \in {"attempt_started", "requires_action"} => p.runs[e.run].status = "running"
  BY Zenon DEF Accepts
<1>4. e.type = "run_ended" => p.runs[e.run].status \in Unfinished BY Zenon DEF Accepts, MayEnd
<1>5. e.type = "call_emitted" => p.runs[e.run].status # "absent" BY Zenon DEF Accepts
<1> QED BY <1>1, <1>2, <1>3, <1>4, <1>5

\* How q may follow p: a run that has ended keeps its status, and only the
\* runs in `started` become active.
KeepsRuns(p, q, started) ==
    /\ q.phase # "corrupt" => p.phase # "corrupt"
    /\ \A r \in Runs :
          /\ q.phase # "corrupt" /\ p.runs[r].status \in Terminal =>
                q.runs[r].status = p.runs[r].status
          /\ q.runs[r].status = "running" => p.runs[r].status = "running" \/ r \in started

Started(e) == IF e.type = "run_started" THEN {e.run} ELSE {}

LEMMA KeepsTrans ==
    ASSUME NEW p, NEW c, NEW d, NEW S, NEW U, U \subseteq S,
           KeepsRuns(p, c, S), KeepsRuns(c, d, U)
    PROVE  KeepsRuns(p, d, S)
BY DEF KeepsRuns

\* One event.
LEMMA ApplyOne ==
    ASSUME NEW p \in Projections, NEW id \in Nat, NEW e \in SupervisorEvents
    PROVE  Apply(p, id, e) \in Projections /\ KeepsRuns(p, Apply(p, id, e), Started(e))
<1>0. PICK q : q = Apply(p, id, e) OBVIOUS
<1>1. CASE ~(p.phase # "corrupt" /\ Accepts(p, e))
  <2>1. q = Corrupt BY <1>0, <1>1 DEF Apply
  <2>2. q.phase = "corrupt" /\ \A r \in Runs : q.runs[r].status = "absent"
    BY <2>1 DEF Corrupt, Empty, NoRun
  <2> QED BY <1>0, <2>1, <2>2, EmptyType DEF KeepsRuns
<1>2. CASE p.phase # "corrupt" /\ Accepts(p, e)
  <2>1. q = Effect(p, id, e) BY <1>0, <1>2 DEF Apply
  <2>2. q \in Projections /\ p.phase # "corrupt" BY <1>2, <2>1, EffectType
  <2>3. \A r \in Runs : q.runs[r] = IF e \in RunEvents /\ e.run = r
                                   THEN RunEffect(p.runs[r], e) ELSE p.runs[r]
    BY <2>1, EffectType
  <2>4. CASE e \notin RunEvents
    <3>1. \A r \in Runs : q.runs[r] = p.runs[r] BY <2>3, <2>4
    <3> QED BY <1>0, <2>2, <3>1 DEF KeepsRuns
  <2>5. CASE e \in RunEvents
    <3>1. e.run \in Runs BY <2>5 DEF RunEvents
    <3>2. /\ p.runs[e.run].status \in Terminal => q.runs[e.run].status = p.runs[e.run].status
          /\ q.runs[e.run].status = "running" =>
                p.runs[e.run].status = "running" \/ e.type = "run_started"
      <4>1. e.type \in {"run_queued", "run_started", "attempt_started", "requires_action",
                        "run_ended", "call_emitted"}
        BY <2>5 DEF RunEvents
      <4>2. p.runs[e.run] \in RunRecords BY <3>1 DEF Projections
      <4>3. e.type = "run_ended" => e.status \in Terminal BY <2>5 DEF RunEvents
      <4>4. q.runs[e.run] = RunEffect(p.runs[e.run], e) BY <2>3, <2>5, <3>1
      <4> QED BY <1>2, <2>5, <4>1, <4>2, <4>3, <4>4, RunEffectType, AcceptsRuns
              DEF Terminal, Unfinished
    <3>3. \A r \in Runs : r # e.run => q.runs[r] = p.runs[r] BY <2>3
    <3>4. ASSUME NEW r \in Runs
          PROVE  /\ p.runs[r].status \in Terminal => q.runs[r].status = p.runs[r].status
                 /\ q.runs[r].status = "running" =>
                       p.runs[r].status = "running" \/ r \in Started(e)
      <4>1. CASE r = e.run BY <4>1, <3>2 DEF Started
      <4>2. CASE r # e.run BY <4>2, <3>3
      <4> QED BY <4>1, <4>2
    <3> QED BY <1>0, <2>2, <3>4 DEF KeepsRuns
  <2> QED BY <2>4, <2>5
<1> QED BY <1>1, <1>2

\* Applying a batch is applying its events one after another.
IsBatch(f, p, b) ==
    /\ f[0] = p /\ f[Len(b)] = ApplyAll(p, Record(0, b))
    /\ \A n \in Nat : n + 1 <= Len(b) => \E id \in Nat : f[n + 1] = Apply(f[n], id, b[n + 1])

LEMMA BatchSteps == ASSUME NEW p, NEW b, IsSeq(b) PROVE \E f : IsBatch(f, p, b)
<1> DEFINE records == Record(0, b)
<1>1. /\ Len(b) \in Nat /\ Len(records) = Len(b)
      /\ \A i \in 1..Len(b) : records[i].id \in Nat /\ records[i].event = b[i]
  <2>1. Len(b) \in Nat BY DEF IsSeq
  <2>2. PICK z \in Nat : z = 0 OBVIOUS
  <2>3. /\ Len(Record(z, b)) = Len(b)
        /\ \A i \in 1..Len(b) : Record(z, b)[i].id = z + i /\ Record(z, b)[i].event = b[i]
    BY RecordIsSeq
  <2>4. \A i \in 1..Len(b) : z + i \in Nat BY <2>1
  <2> QED BY <2>1, <2>2, <2>3, <2>4
<1> HIDE DEF records
<1>2. PICK f : f = Steps(p, records) /\ IsSteps(f, p, records, Len(b)) BY <1>1, StepsDef
<1>3. f[0] = p BY <1>1, <1>2 DEF IsSteps
<1>4. ASSUME NEW n \in Nat, n + 1 <= Len(b)
      PROVE  \E id \in Nat : f[n + 1] = Apply(f[n], id, b[n + 1])
  <2>1. n + 1 \in 0..Len(b) /\ n + 1 # 0 /\ (n + 1) - 1 = n /\ n + 1 \in 1..Len(b) BY <1>1, <1>4
  <2>2. f[n + 1] = Apply(f[n], records[n + 1].id, b[n + 1]) BY <2>1, <1>1, <1>2 DEF IsSteps
  <2> QED BY <2>1, <2>2, <1>1
<1>5. f[Len(b)] = ApplyAll(p, Record(0, b)) BY <1>1, <1>2 DEF ApplyAll, records
<1>6. \A n \in Nat : n + 1 <= Len(b) => \E id \in Nat : f[n + 1] = Apply(f[n], id, b[n + 1])
  BY <1>4
<1>7. IsBatch(f, p, b) BY <1>3, <1>5, <1>6 DEF IsBatch
<1> QED BY <1>7

LEMMA ApplyBatch ==
    ASSUME NEW p \in Projections, NEW b, IsSeq(b), NEW S,
           \A i \in 1..Len(b) : b[i] \in SupervisorEvents /\ Started(b[i]) \subseteq S
    PROVE  ApplyAll(p, Record(0, b)) \in Projections /\ KeepsRuns(p, ApplyAll(p, Record(0, b)), S)
<1>1. Len(b) \in Nat BY DEF IsSeq
<1>2. PICK f : IsBatch(f, p, b) BY BatchSteps
<1> USE DEF IsBatch
<1> DEFINE T == {n \in Nat : n <= Len(b) => f[n] \in Projections /\ KeepsRuns(p, f[n], S)}
<1>3. 0 \in T
  <2>1. KeepsRuns(p, p, S) BY DEF KeepsRuns
  <2> QED BY <1>2, <2>1
<1>4. ASSUME NEW n \in T PROVE n + 1 \in T
  <2> SUFFICES ASSUME n + 1 <= Len(b)
               PROVE f[n + 1] \in Projections /\ KeepsRuns(p, f[n + 1], S)
    OBVIOUS
  <2>1. n \in Nat /\ n + 1 \in 1..Len(b) /\ n <= Len(b) BY <1>1
  <2>2. f[n] \in Projections /\ KeepsRuns(p, f[n], S) BY <2>1
  <2>3. b[n + 1] \in SupervisorEvents /\ Started(b[n + 1]) \subseteq S BY <2>1
  <2>4. PICK id \in Nat : f[n + 1] = Apply(f[n], id, b[n + 1]) BY <1>2, <2>1
  <2>5. f[n + 1] \in Projections /\ KeepsRuns(f[n], f[n + 1], Started(b[n + 1]))
    BY <2>2, <2>3, <2>4, ApplyOne
  <2> QED BY <2>2, <2>3, <2>5, KeepsTrans
<1> HIDE DEF T
<1>5. T \subseteq Nat BY DEF T
<1>6. T = Nat BY <1>3, <1>4, <1>5, NatSetInduction
<1> QED BY <1>1, <1>2, <1>6 DEF T

-----------------------------------------------------------------------------
(* What a batch does to the phase, the messages and the runs it ends.       *)

PhaseAfter(p, e) ==
    IF e.type = "phase_changed" THEN e.to
    ELSE IF e.type = "session_interrupted" THEN "interrupted" ELSE p.phase

LEMMA EffectRest ==
    ASSUME NEW p \in Projections, NEW id \in Nat, NEW e \in SupervisorEvents
    PROVE  /\ Effect(p, id, e).phase = PhaseAfter(p, e)
           /\ e \notin MessageEvents => Effect(p, id, e).messages = p.messages
           /\ e.type = "message_started" =>
                 Effect(p, id, e).messages
                     = [p.messages EXCEPT ![e.message] = [status |-> "open", role |-> e.role]]
<1>0. PICK q : q = StateAfter(p, id, e) OBVIOUS
<1>1. q \in Projections /\ q.messages = p.messages BY <1>0, StateAfterType
<1>2. q.phase = PhaseAfter(p, e)
  <2>0. p.phase \in Phases \cup {"corrupt"} /\ p.revision \in Nat BY DEF Projections
  <2>1. \E m, n : StateEffect(p, id, e) = [p EXCEPT !.phase = PhaseAfter(p, e), !.last = m, !.revision = n]
    <3>1. CASE e.type = "phase_changed"
      <4>1. StateEffect(p, id, e) = [p EXCEPT !.phase = e.to, !.last = id, !.revision = p.revision + 1]
        BY <3>1, Zenon DEF StateEffect
      <4> QED BY <3>1, <4>1, Zenon DEF PhaseAfter
    <3>2. CASE e.type = "session_interrupted"
      <4>1. StateEffect(p, id, e)
              = [p EXCEPT !.phase = "interrupted", !.last = id, !.revision = p.revision + 1]
        BY <3>2, Zenon DEF StateEffect
      <4> QED BY <3>2, <4>1, Zenon DEF PhaseAfter
    <3>3. CASE e.type \notin {"phase_changed", "session_interrupted", "session_forked"}
      <4>1. StateEffect(p, id, e) = [p EXCEPT !.phase = p.phase, !.last = id, !.revision = p.revision]
        BY <3>3, Zenon DEF StateEffect
      <4>2. PhaseAfter(p, e) = p.phase BY <3>3 DEF PhaseAfter
      <4> QED BY <4>1, <4>2, Zenon
    <3>4. e.type # "session_forked" BY EventTypes
    <3> QED BY <3>1, <3>2, <3>3, <3>4
  <2>2. PICK m, n : StateEffect(p, id, e) = [p EXCEPT !.phase = PhaseAfter(p, e), !.last = m, !.revision = n]
    BY <2>1
  <2>3. PICK ph : ph = PhaseAfter(p, e) OBVIOUS
  <2>4. PICK pd : pd = PausedEffect(p, e) OBVIOUS
  <2>5. q = [[p EXCEPT !.phase = ph, !.last = m, !.revision = n] EXCEPT !.paused = pd]
    BY <1>0, <2>2, <2>3, <2>4, Zenon DEF StateAfter
  <2> QED BY <2>3, <2>5 DEF Projections
<1>3. CASE e \in RunEvents
  <2>1. "run" \in DOMAIN e /\ e.run \in Runs /\ e \notin MessageEvents /\ e.type # "message_started"
    BY <1>3 DEF RunEvents, MessageEvents
  <2>2. e.type \notin {"message_started", "message_closed", "permission_requested",
                       "permission_resolved", "agent_spawned", "agent_finished", "agent_delivered"}
    BY <1>3 DEF RunEvents
  <2>3. Effect(p, id, e) = [q EXCEPT !.runs[e.run] = RunEffect(q.runs[e.run], e)]
    BY <2>1, <2>2, <1>0, Zenon DEF Effect, StateAfter
  <2>4. Effect(p, id, e).phase = q.phase /\ Effect(p, id, e).messages = q.messages
    BY <1>1, <2>3 DEF Projections
  <2> QED BY <1>1, <1>2, <2>1, <2>4
<1>4. CASE e.type = "message_started" /\ e \in MessageEvents
  <2>1. Effect(p, id, e) = [q EXCEPT !.messages[e.message] = [status |-> "open", role |-> e.role]]
    BY <1>4, <1>0, Zenon DEF Effect, StateAfter
  <2>2. /\ Effect(p, id, e).phase = q.phase
        /\ Effect(p, id, e).messages
              = [q.messages EXCEPT ![e.message] = [status |-> "open", role |-> e.role]]
    BY <1>1, <2>1 DEF Projections
  <2> QED BY <1>1, <1>2, <1>4, <2>2
<1>5. CASE e.type = "message_closed" /\ e \in MessageEvents
  <2>1. Effect(p, id, e) = [q EXCEPT !.messages[e.message].status = e.status]
    BY <1>5, <1>0, Zenon DEF Effect, StateAfter
  <2>2. Effect(p, id, e).phase = q.phase BY <1>1, <2>1 DEF Projections
  <2> QED BY <1>2, <1>5, <2>2
<1>6. CASE e \in PhaseEvents
  <2>1. e.type \notin {"message_started", "message_closed", "permission_requested",
                       "permission_resolved", "agent_spawned", "agent_finished", "agent_delivered"}
    BY <1>6 DEF PhaseEvents
  <2>2. "run" \notin DOMAIN e BY <1>6 DEF PhaseEvents
  <2>3. Effect(p, id, e) = q BY <2>1, <2>2, <1>0, Zenon DEF Effect, StateAfter
  <2> QED BY <1>1, <1>2, <2>1, <2>3
<1>7. e \in MessageEvents => e.type \in {"message_started", "message_closed"} BY DEF MessageEvents
<1> QED BY <1>3, <1>4, <1>5, <1>6, <1>7 DEF SupervisorEvents

\* How q may follow p when the events of B are applied.
Follows(p, q, B) ==
    q.phase # "corrupt" =>
        /\ p.phase # "corrupt"
        /\ (\A e \in B : e.type \notin {"phase_changed", "session_interrupted"}) => q.phase = p.phase
        /\ (\A e \in B : e \notin MessageEvents) => q.messages = p.messages
        /\ \A r \in Runs :
              /\ p.runs[r].status \in Terminal => q.runs[r].status \in Terminal
              /\ q.runs[r].status \in Unfinished =>
                    \/ p.runs[r].status \in Unfinished
                    \/ \E e \in B : e.type = "run_queued" /\ e.run = r
              /\ p.runs[r].status \in Unfinished \/ (\E e \in B : e.type = "run_queued" /\ e.run = r) =>
                    q.runs[r].status \in Unfinished \/ \E e \in B : e.type = "run_ended" /\ e.run = r
        /\ \A e \in B : e.type = "run_ended" => q.runs[e.run].status \in Terminal

LEMMA FollowsTrans ==
    ASSUME NEW p, NEW c, NEW d, NEW B \in SUBSET SupervisorEvents, NEW e \in SupervisorEvents,
           Follows(p, c, B), Follows(c, d, {e})
    PROVE  Follows(p, d, B \cup {e})
<1> SUFFICES ASSUME d.phase # "corrupt" PROVE Follows(p, d, B \cup {e}) BY DEF Follows
<1>1. c.phase # "corrupt" /\ p.phase # "corrupt" BY DEF Follows
<1>2. (\A x \in B \cup {e} : x.type \notin {"phase_changed", "session_interrupted"}) => d.phase = p.phase
  BY <1>1 DEF Follows
<1>3. (\A x \in B \cup {e} : x \notin MessageEvents) => d.messages = p.messages BY <1>1 DEF Follows
<1>4. ASSUME NEW r \in Runs
      PROVE  /\ p.runs[r].status \in Terminal => d.runs[r].status \in Terminal
             /\ d.runs[r].status \in Unfinished =>
                    \/ p.runs[r].status \in Unfinished
                    \/ \E x \in B \cup {e} : x.type = "run_queued" /\ x.run = r
  BY <1>1 DEF Follows
<1>6. ASSUME NEW r \in Runs,
             p.runs[r].status \in Unfinished
                 \/ \E x \in B \cup {e} : x.type = "run_queued" /\ x.run = r,
             ~\E x \in B \cup {e} : x.type = "run_ended" /\ x.run = r
      PROVE  d.runs[r].status \in Unfinished
  <2>1. c.runs[r].status \in Unfinished \/ (e.type = "run_queued" /\ e.run = r)
    BY <1>1, <1>6 DEF Follows
  <2> QED BY <1>1, <1>6, <2>1 DEF Follows
<1>5. ASSUME NEW x \in B \cup {e}, x.type = "run_ended" PROVE d.runs[x.run].status \in Terminal
  <2>1. CASE x = e BY <1>5, <2>1 DEF Follows
  <2>2. CASE x \in B
    <3>1. x.run \in Runs BY <1>5, <2>2, EventTypes
    <3> QED BY <1>1, <1>5, <2>2, <3>1 DEF Follows
  <2> QED BY <2>1, <2>2
<1> QED BY <1>1, <1>2, <1>3, <1>4, <1>5, <1>6 DEF Follows

LEMMA FollowsOne ==
    ASSUME NEW p \in Projections, NEW id \in Nat, NEW e \in SupervisorEvents
    PROVE  Follows(p, Apply(p, id, e), {e})
<1>0. PICK q : q = Apply(p, id, e) OBVIOUS
<1> SUFFICES ASSUME q.phase # "corrupt" PROVE Follows(p, q, {e}) BY <1>0 DEF Follows
<1>1. p.phase # "corrupt" /\ Accepts(p, e)
  <2>1. Corrupt.phase = "corrupt" BY DEF Corrupt, Empty
  <2> QED BY <1>0, <2>1 DEF Apply
<1>2. q = Effect(p, id, e) BY <1>0, <1>1 DEF Apply
<1>3. q.phase = PhaseAfter(p, e) /\ (e \notin MessageEvents => q.messages = p.messages)
  BY <1>2, EffectRest
<1>4. \A r \in Runs : q.runs[r] = IF e \in RunEvents /\ e.run = r
                                 THEN RunEffect(p.runs[r], e) ELSE p.runs[r]
  BY <1>2, EffectType
<1>5. e.type \in {"run_ended", "run_queued"} => e \in RunEvents
  BY DEF SupervisorEvents, PhaseEvents, MessageEvents
<1>6. ASSUME e \in RunEvents
      PROVE  /\ e.run \in Runs
             /\ p.runs[e.run].status \in Terminal => q.runs[e.run].status \in Terminal
             /\ q.runs[e.run].status \in Unfinished =>
                   p.runs[e.run].status \in Unfinished \/ e.type = "run_queued"
             /\ p.runs[e.run].status \in Unfinished \/ e.type = "run_queued" =>
                   q.runs[e.run].status \in Unfinished \/ e.type = "run_ended"
             /\ e.type = "run_ended" => q.runs[e.run].status \in Terminal
  <2>1. e.run \in Runs BY <1>6 DEF RunEvents
  <2>2. e.type \in {"run_queued", "run_started", "attempt_started", "requires_action",
                    "run_ended", "call_emitted"}
    BY <1>6 DEF RunEvents
  <2>3. p.runs[e.run] \in RunRecords BY <2>1 DEF Projections
  <2>4. e.type = "run_ended" => e.status \in Terminal BY <1>6 DEF RunEvents
  <2>5. q.runs[e.run] = RunEffect(p.runs[e.run], e) BY <1>4, <1>6, <2>1
  <2> QED BY <1>1, <1>6, <2>1, <2>2, <2>3, <2>4, <2>5, RunEffectType, AcceptsRuns
          DEF Terminal, Unfinished
<1>7. ASSUME NEW r \in Runs
      PROVE  /\ p.runs[r].status \in Terminal => q.runs[r].status \in Terminal
             /\ q.runs[r].status \in Unfinished =>
                   p.runs[r].status \in Unfinished \/ (e.type = "run_queued" /\ e.run = r)
             /\ p.runs[r].status \in Unfinished \/ (e.type = "run_queued" /\ e.run = r) =>
                   q.runs[r].status \in Unfinished \/ (e.type = "run_ended" /\ e.run = r)
  <2>1. CASE e \in RunEvents /\ e.run = r BY <2>1, <1>6
  <2>2. CASE ~(e \in RunEvents /\ e.run = r) BY <2>2, <1>4, <1>5
  <2> QED BY <2>1, <2>2
<1>8. e.type \notin {"phase_changed", "session_interrupted"} => q.phase = p.phase
  BY <1>3 DEF PhaseAfter
<1> QED BY <1>1, <1>3, <1>5, <1>6, <1>7, <1>8 DEF Follows

LEMMA FollowsBatch ==
    ASSUME NEW p \in Projections, NEW b, IsSeq(b), \A i \in 1..Len(b) : b[i] \in SupervisorEvents
    PROVE  Follows(p, ApplyAll(p, Record(0, b)), {b[i] : i \in 1..Len(b)})
<1>1. Len(b) \in Nat BY DEF IsSeq
<1>2. PICK f : IsBatch(f, p, b) BY BatchSteps
<1> USE DEF IsBatch
<1> DEFINE B(n) == {b[i] : i \in 1..n}
           T == {n \in Nat : n <= Len(b) => f[n] \in Projections /\ Follows(p, f[n], B(n))}
<1>3. 0 \in T
  <2>1. B(0) = {} OBVIOUS
  <2>2. Follows(p, p, {}) BY DEF Follows
  <2> QED BY <1>2, <2>1, <2>2
<1>4. ASSUME NEW n \in T PROVE n + 1 \in T
  <2> SUFFICES ASSUME n + 1 <= Len(b)
               PROVE f[n + 1] \in Projections /\ Follows(p, f[n + 1], B(n + 1))
    OBVIOUS
  <2>1. n \in Nat /\ n + 1 \in 1..Len(b) /\ n <= Len(b) BY <1>1
  <2>2. f[n] \in Projections /\ Follows(p, f[n], B(n)) BY <2>1
  <2>3. b[n + 1] \in SupervisorEvents BY <2>1
  <2>4. PICK id \in Nat : f[n + 1] = Apply(f[n], id, b[n + 1]) BY <1>2, <2>1
  <2>5. f[n + 1] \in Projections /\ Follows(f[n], f[n + 1], {b[n + 1]})
    BY <2>2, <2>3, <2>4, ApplyOne, FollowsOne
  <2>6. B(n) \in SUBSET SupervisorEvents /\ B(n + 1) = B(n) \cup {b[n + 1]}
    <3>1. \A i \in 1..n : i \in 1..Len(b) BY <1>1, <2>1
    <3>2. 1..(n + 1) = (1..n) \cup {n + 1} BY <2>1
    <3> QED BY <3>1, <3>2
  <2> HIDE DEF B
  <2> QED BY <2>2, <2>3, <2>5, <2>6, FollowsTrans
<1> HIDE DEF T
<1>5. T \subseteq Nat BY DEF T
<1>6. T = Nat BY <1>3, <1>4, <1>5, NatSetInduction
<1> HIDE DEF B
<1>7. Follows(p, f[Len(b)], B(Len(b))) BY <1>1, <1>6 DEF T
<1> QED BY <1>2, <1>7 DEF B

\* A single event is applied if it is accepted, and refused otherwise.
LEMMA ApplySingle ==
    ASSUME NEW p \in Projections, p.phase # "corrupt", NEW e \in SupervisorEvents,
           NEW q, q = ApplyAll(p, Record(0, <<e>>))
    PROVE  \E id \in Nat : /\ Accepts(p, e) => q = Effect(p, id, e) /\ q.phase # "corrupt"
                           /\ ~Accepts(p, e) => q.phase = "corrupt"
<1>1. IsSeq(<<e>>) /\ Len(<<e>>) = 1 /\ <<e>>[1] = e BY SingletonIsSeq
<1>2. PICK b : b = <<e>> OBVIOUS
<1>3. PICK f : IsBatch(f, p, b) BY <1>1, <1>2, BatchSteps
<1> USE DEF IsBatch
<1>4. PICK id \in Nat : f[0 + 1] = Apply(f[0], id, b[0 + 1]) BY <1>1, <1>2, <1>3
<1>5. q = Apply(p, id, e) BY <1>1, <1>2, <1>3, <1>4
<1>6. Corrupt.phase = "corrupt" BY DEF Corrupt, Empty
<1>7. Effect(p, id, e).phase \in Phases BY EffectType DEF Projections
<1>8. "corrupt" \notin Phases BY DEF Phases
<1> QED BY <1>5, <1>6, <1>7, <1>8 DEF Apply

-----------------------------------------------------------------------------
(* The summary of a projection, after any event that is accepted.           *)

SummaryFields == {"phase", "revision", "last", "paused"}

Summarised(p) ==
    /\ SummaryFields \subseteq DOMAIN p
    /\ p.phase \in Phases /\ p.revision \in Nat /\ p.last \in Nat

SameSummary(p, q) ==
    /\ DOMAIN q = DOMAIN p
    /\ q.phase = p.phase /\ q.revision = p.revision /\ q.last = p.last

\* SessionState::transition leads to one of the phases only.
LEMMA PhaseReached ==
    ASSUME NEW p, NEW e, StateAccepts(p, e), e.type = "phase_changed"
    PROVE  e.to \in Phases
<1>1. p.phase \in AllowedSources(e.to) BY Zenon DEF StateAccepts
<1>2. PICK to : to = e.to OBVIOUS
<1>3. CASE to \in {"running", "interrupted", "finished", "failed"} BY <1>2, <1>3 DEF Phases
<1>4. CASE to \notin {"running", "interrupted", "finished", "failed"}
  <2>1. AllowedSources(to) = {} BY <1>4, Zenon DEF AllowedSources
  <2> QED BY <1>1, <1>2, <2>1
<1> QED BY <1>3, <1>4

LEMMA StateAfterSummary ==
    ASSUME NEW p, Summarised(p), NEW id \in Nat, NEW e, StateAccepts(p, e)
    PROVE  Summarised(StateAfter(p, id, e)) /\ StateAfter(p, id, e).last = id
<1>1. \E to \in Phases, n \in Nat :
         StateEffect(p, id, e) = [p EXCEPT !.phase = to, !.last = id, !.revision = n]
  <2>0. p.revision \in Nat /\ p.revision + 1 \in Nat /\ p.phase \in Phases BY DEF Summarised
  <2>1. CASE e.type = "phase_changed"
    <3>1. e.to \in Phases BY <2>1, PhaseReached
    <3>2. StateEffect(p, id, e) = [p EXCEPT !.phase = e.to, !.last = id, !.revision = p.revision + 1]
      BY <2>1, Zenon DEF StateEffect
    <3> QED BY <3>1, <3>2, <2>0, Zenon
  <2>2. CASE e.type \in {"session_interrupted", "session_forked"}
    <3>1. StateEffect(p, id, e)
            = [p EXCEPT !.phase = "interrupted", !.last = id, !.revision = p.revision + 1]
      BY <2>2, Zenon DEF StateEffect
    <3>2. "interrupted" \in Phases BY DEF Phases
    <3> QED BY <3>1, <3>2, <2>0, Zenon
  <2>3. CASE e.type \notin {"phase_changed", "session_interrupted", "session_forked"}
    <3>1. StateEffect(p, id, e)
            = [p EXCEPT !.phase = p.phase, !.last = id, !.revision = p.revision]
      BY <2>3, Zenon DEF StateEffect
    <3> QED BY <3>1, <2>0, Zenon
  <2> QED BY <2>1, <2>2, <2>3
<1>2. PICK to \in Phases, n \in Nat :
         StateEffect(p, id, e) = [p EXCEPT !.phase = to, !.last = id, !.revision = n]
  BY <1>1
<1>3. PICK u : u = [p EXCEPT !.phase = to, !.last = id, !.revision = n] OBVIOUS
<1>4. DOMAIN u = DOMAIN p /\ u.phase = to /\ u.last = id /\ u.revision = n
  BY <1>3 DEF Summarised, SummaryFields
<1>5. PICK v : v = PausedEffect(p, e) OBVIOUS
<1>6. PICK q : q = [u EXCEPT !.paused = v] OBVIOUS
<1>7. DOMAIN q = DOMAIN u /\ q.phase = u.phase /\ q.last = u.last /\ q.revision = u.revision
  BY <1>4, <1>6 DEF Summarised, SummaryFields
<1>8. q = StateAfter(p, id, e) BY <1>2, <1>3, <1>5, <1>6, Zenon DEF StateAfter
<1>9. Summarised(q) /\ q.last = id BY <1>4, <1>7 DEF Summarised
<1> QED BY <1>8, <1>9

\* The maps of a projection are updated beside its summary.
LEMMA MapSummary ==
    ASSUME NEW q, Summarised(q), NEW z, NEW x, NEW v,
           \/ z = [q EXCEPT !.messages[x] = v] \/ z = [q EXCEPT !.messages[x].status = v]
           \/ z = [q EXCEPT !.requests[x] = v] \/ z = [q EXCEPT !.requests[x].decision = v]
           \/ z = [q EXCEPT !.agents[x].spawned = v] \/ z = [q EXCEPT !.agents[x].result = v]
           \/ z = [q EXCEPT !.runs[x] = v]
    PROVE  SameSummary(q, z)
BY DEF SameSummary, Summarised, SummaryFields

LEMMA EffectSummary ==
    ASSUME NEW p, Summarised(p), NEW id \in Nat, NEW e, Accepts(p, e)
    PROVE  Summarised(Effect(p, id, e)) /\ Effect(p, id, e).last = id
<1>0. PICK q : q = StateAfter(p, id, e) OBVIOUS
<1>1. Summarised(q) /\ q.last = id BY <1>0, StateAfterSummary DEF Accepts
<1>2. PICK z : z = Effect(p, id, e) OBVIOUS
<1>3. SameSummary(q, z)
  <2> USE <1>0, <1>1, <1>2
  <2>1. CASE e.type = "message_started"
    <3>1. PICK v : v = [status |-> "open", role |-> e.role] OBVIOUS
    <3>2. z = [q EXCEPT !.messages[e.message] = v] BY <2>1, <3>1, Zenon DEF Effect, StateAfter
    <3> QED BY <3>2, MapSummary
  <2>2. CASE e.type = "message_closed"
    <3>1. PICK v : v = e.status OBVIOUS
    <3>2. PICK x : x = e.message OBVIOUS
    <3>3. z = [q EXCEPT !.messages[x].status = v] BY <2>2, <3>1, <3>2, Zenon DEF Effect, StateAfter
    <3> QED BY <3>3, MapSummary
  <2>3. CASE e.type = "permission_requested"
    <3>1. PICK v : v = [run |-> e.run, call |-> e.call, decision |-> "pending"] OBVIOUS
    <3>2. z = [q EXCEPT !.requests[e.request] = v] BY <2>3, <3>1, Zenon DEF Effect, StateAfter
    <3> QED BY <3>2, MapSummary
  <2>4. CASE e.type = "permission_resolved"
    <3>1. PICK v : v = e.decision OBVIOUS
    <3>2. PICK x : x = e.request OBVIOUS
    <3>3. z = [q EXCEPT !.requests[x].decision = v]
      BY <2>4, <3>1, <3>2, Zenon DEF Effect, StateAfter
    <3> QED BY <3>3, MapSummary
  <2>5. CASE e.type = "agent_spawned"
    <3>1. z = [q EXCEPT !.agents[e.agent].spawned = TRUE] BY <2>5, Zenon DEF Effect, StateAfter
    <3>2. PICK v : z = [q EXCEPT !.agents[e.agent].spawned = v] BY <3>1, Zenon
    <3>3. PICK x : x = e.agent OBVIOUS
    <3>4. z = [q EXCEPT !.agents[x].spawned = v] BY <3>2, <3>3, Zenon
    <3> QED BY <3>4, MapSummary
  <2>6. CASE e.type \in {"agent_finished", "agent_delivered"}
    <3>1. PICK v : v = IF e.value = Nil THEN q.agents[e.agent].result ELSE e.value OBVIOUS
    <3>2. PICK x : x = e.agent OBVIOUS
    <3>3. z = [q EXCEPT !.agents[x].result = v] BY <2>6, <3>1, <3>2, Zenon DEF Effect, StateAfter
    <3> QED BY <3>3, MapSummary
  <2>7. CASE e.type \notin {"message_started", "message_closed", "permission_requested",
                            "permission_resolved", "agent_spawned", "agent_finished",
                            "agent_delivered"}
    <3>1. z = IF "run" \in DOMAIN e THEN [q EXCEPT !.runs[e.run] = RunEffect(q.runs[e.run], e)] ELSE q
      BY <2>7, Zenon DEF Effect, StateAfter
    <3>2. PICK v : v = RunEffect(q.runs[e.run], e) OBVIOUS
    <3>3. z = [q EXCEPT !.runs[e.run] = v] \/ z = q BY <3>1, <3>2, Zenon
    <3>4. SameSummary(q, q) BY DEF SameSummary
    <3> QED BY <3>3, <3>4, MapSummary
  <2> QED BY <2>1, <2>2, <2>3, <2>4, <2>5, <2>6, <2>7
<1>4. Summarised(z) /\ z.last = id BY <1>1, <1>3 DEF Summarised, SameSummary
<1> QED BY <1>2, <1>4

\* A replay is corrupt, or it has a summary that names its last event.
Summary(p) == p = Corrupt \/ Summarised(p)

LEMMA CorruptPhase == Corrupt.phase = "corrupt" /\ "corrupt" \notin Phases
BY DEF Corrupt, Empty, Phases

LEMMA ApplySummary ==
    ASSUME NEW p, Summary(p), NEW id \in Nat, NEW e
    PROVE  LET q == Apply(p, id, e) IN q = Corrupt \/ (Summarised(q) /\ q.last = id)
<1>1. CASE p.phase # "corrupt" /\ Accepts(p, e)
  <2>1. Summarised(p) BY <1>1, CorruptPhase DEF Summary
  <2> QED BY <1>1, <2>1, EffectSummary DEF Apply
<1>2. CASE ~(p.phase # "corrupt" /\ Accepts(p, e)) BY <1>2 DEF Apply
<1> QED BY <1>1, <1>2

LEMMA ReplaySummary ==
    ASSUME NEW p, Summary(p), NEW last \in Nat,
           NEW r, Len(r) \in Nat, \A i \in 1..Len(r) : r[i].id = last + i
    PROVE  \/ ApplyAll(p, r) = Corrupt
           \/ /\ Summarised(ApplyAll(p, r))
              /\ Len(r) > 0 => ApplyAll(p, r).last = last + Len(r)
<1>1. PICK f : f = Steps(p, r) /\ IsSteps(f, p, r, Len(r)) BY StepsDef
<1> DEFINE OK(i) == \/ f[i] = Corrupt
                    \/ Summarised(f[i]) /\ (i > 0 => f[i].last = last + i)
           T == {i \in Nat : i <= Len(r) => OK(i)}
<1>2. 0 \in T
  <2>1. f[0] = p BY <1>1 DEF IsSteps
  <2> QED BY <2>1 DEF Summary
<1>3. ASSUME NEW i \in T PROVE i + 1 \in T
  <2> SUFFICES ASSUME i + 1 <= Len(r) PROVE OK(i + 1) OBVIOUS
  <2>1. i \in Nat /\ i <= Len(r) /\ i + 1 \in 1..Len(r) /\ i + 1 \in 0..Len(r) /\ (i + 1) - 1 = i
    OBVIOUS
  <2>2. PICK n \in Nat : n = last + (i + 1) BY <2>1
  <2>3. f[i + 1] = Apply(f[i], r[i + 1].id, r[i + 1].event) BY <1>1, <2>1 DEF IsSteps
  <2>4. r[i + 1].id = n BY <2>1, <2>2
  <2>5. Summary(f[i]) BY <2>1 DEF Summary
  <2>6. PICK c : c = f[i] OBVIOUS
  <2>7. PICK e : e = r[i + 1].event OBVIOUS
  <2>8. PICK q : q = Apply(c, n, e) OBVIOUS
  <2>9. q = Corrupt \/ (Summarised(q) /\ q.last = n) BY <2>5, <2>6, <2>8, ApplySummary
  <2>10. f[i + 1] = q BY <2>3, <2>4, <2>6, <2>7, <2>8
  <2> QED BY <2>2, <2>9, <2>10
<1> HIDE DEF T
<1>4. T = Nat BY <1>2, <1>3, NatSetInduction DEF T
<1>5. OK(Len(r)) BY <1>4 DEF T
<1> QED BY <1>1, <1>5 DEF ApplyAll

\* The replay of a numbered log.
LEMMA ProjectIs ==
    ASSUME NEW l, IsSeq(l), l # <<>>, \A i \in DOMAIN l : l[i].id = i
    PROVE  /\ Project(l) = ApplyAll(Empty, l)
           /\ Project(l) = Corrupt \/ (Summarised(Project(l)) /\ Project(l).last = Len(l))
<1>1. Project(l) = ApplyAll(Empty, l) BY DEF Project
<1>2. Summary(Empty) BY DEF Summary, Summarised, SummaryFields, Empty, Phases
<1>3. Len(l) \in Nat /\ DOMAIN l = 1..Len(l) BY DEF IsSeq
<1>4. Len(l) > 0
  <2>1. Len(l) # 0
    <3> SUFFICES ASSUME Len(l) = 0 PROVE FALSE OBVIOUS
    <3>1. l = [i \in 1..0 |-> l[i]] BY DEF IsSeq
    <3>2. l = <<>> BY <3>1
    <3> QED BY <3>2
  <2> QED BY <1>3, <2>1
<1>5. PICK z \in Nat : z = 0 OBVIOUS
<1>6. \A i \in 1..Len(l) : l[i].id = z + i BY <1>3, <1>5
<1>7. PICK q : q = ApplyAll(Empty, l) OBVIOUS
<1>8. PICK e : e = Empty OBVIOUS
<1>9. q = ApplyAll(e, l) /\ Summary(e) BY <1>2, <1>7, <1>8
<1>10. q = Corrupt \/ (Summarised(q) /\ q.last = z + Len(l))
  BY <1>3, <1>4, <1>6, <1>9, ReplaySummary
<1>11. z + Len(l) = Len(l) BY <1>3, <1>5
<1> QED BY <1>1, <1>7, <1>10, <1>11

\* Without the check of the ids nothing more can be said than that.
LEMMA ProjectSummary == ASSUME NEW l, IsSeq(l) PROVE Summary(Project(l))
<1>1. CASE l # <<>> /\ \A i \in DOMAIN l : l[i].id = i BY <1>1, ProjectIs DEF Summary
<1>2. CASE l = <<>> \/ \E i \in DOMAIN l : l[i].id # i BY <1>2 DEF Summary, Project
<1> QED BY <1>1, <1>2

\* The replay of a log and a batch recorded behind it.
LEMMA ProjectAppended ==
    ASSUME NEW a, IsSeq(a), a # <<>>, \A i \in DOMAIN a : a[i].id = i,
           NEW r, IsSeq(r), \A i \in DOMAIN (a \o r) : (a \o r)[i].id = i
    PROVE  a \o r # <<>> /\ Project(a \o r) = ApplyAll(Project(a), r)
<1>1. PICK c : c = a \o r OBVIOUS
<1>2. IsSeq(c) /\ Len(c) = Len(a) + Len(r) BY <1>1, ConcatIsSeq
<1>3. c # <<>>
  <2> SUFFICES ASSUME c = <<>> PROVE FALSE OBVIOUS
  <2>1. Len(c) = 0 BY EmptyIsSeq
  <2>2. Len(a) \in Nat /\ Len(r) \in Nat BY DEF IsSeq
  <2>3. Len(a) = 0 BY <1>2, <2>1, <2>2
  <2>4. a = [i \in 1..0 |-> a[i]] BY <2>3 DEF IsSeq
  <2>5. a = <<>> BY <2>4
  <2> QED BY <2>5
<1>4. Project(c) = ApplyAll(Empty, c) BY <1>1, <1>2, <1>3, ProjectIs
<1>5. Project(a) = ApplyAll(Empty, a) BY ProjectIs
<1>6. PICK e : e = Empty OBVIOUS
<1>7. ApplyAll(e, a \o r) = ApplyAll(ApplyAll(e, a), r) BY ReplayConcat
<1> QED BY <1>1, <1>3, <1>4, <1>5, <1>6, <1>7

\* The first event of a session.
LEMMA CreatedProjects ==
    /\ Project(Record(0, <<SessionCreated>>)).phase = "created"
    /\ Project(Record(0, <<SessionCreated>>)).revision = 0
    /\ Project(Record(0, <<SessionCreated>>)).last = 1
    /\ Record(0, <<SessionCreated>>) # <<>>
<1>1. PICK e : e = SessionCreated OBVIOUS
<1>2. IsSeq(<<e>>) /\ Len(<<e>>) = 1 /\ <<e>>[1] = e BY SingletonIsSeq
<1>3. PICK b : b = <<e>> OBVIOUS
<1>4. PICK z \in Nat : z = 0 OBVIOUS
<1>5. PICK r : r = Record(z, b) OBVIOUS
<1>6. /\ IsSeq(r) /\ Len(r) = 1
      /\ \A i \in 1..1 : r[i].id = z + i /\ r[i].event = b[i]
  BY <1>2, <1>3, <1>4, <1>5, RecordIsSeq
<1>7. r[1].id = 1 /\ r[1].event = e BY <1>2, <1>3, <1>4, <1>6
<1>8. r # <<>>
  <2> SUFFICES ASSUME r = <<>> PROVE FALSE OBVIOUS
  <2>1. Len(r) = 0 BY EmptyIsSeq, Zenon
  <2> QED BY <1>6, <2>1
<1>9. DOMAIN r = 1..1 BY <1>6 DEF IsSeq
<1>10. \A i \in DOMAIN r : r[i].id = i BY <1>7, <1>9
<1>11. PICK p : p = Empty OBVIOUS
<1>12. Project(r) = ApplyAll(p, r) BY <1>6, <1>8, <1>10, <1>11, ProjectIs
<1>13. PICK f : f = Steps(p, r) /\ IsSteps(f, p, r, 1)
  <2>1. Len(r) \in Nat BY <1>6
  <2>2. IsSteps(Steps(p, r), p, r, Len(r)) BY <2>1, StepsDef
  <2> QED BY <1>6, <2>2, Zenon
<1>14. ApplyAll(p, r) = f[1] BY <1>6, <1>13 DEF ApplyAll
<1>15. f[0] = p /\ f[1] = Apply(f[0], r[1].id, r[1].event) BY <1>13 DEF IsSteps
<1>16. e.type = "session_created" /\ DOMAIN e = {"type"} BY <1>1 DEF SessionCreated
<1>17. p.revision = 0 /\ p.last = 0 /\ p.phase = "created" /\ SummaryFields \subseteq DOMAIN p
  BY <1>11 DEF Empty, SummaryFields
<1>18. Accepts(p, e)
  <2>1. StateAccepts(p, e) BY <1>16, <1>17, Zenon DEF StateAccepts
  <2> QED BY <1>16, <2>1, Zenon DEF Accepts
<1>19. f[1] = Effect(p, 1, e) BY <1>7, <1>15, <1>17, <1>18 DEF Apply
<1>20. StateEffect(p, 1, e) = [p EXCEPT !.phase = p.phase, !.last = 1, !.revision = p.revision]
  BY <1>16, Zenon DEF StateEffect
<1>21. PICK u : u = [p EXCEPT !.phase = p.phase, !.last = 1, !.revision = p.revision] OBVIOUS
<1>22. PICK v : v = PausedEffect(p, e) OBVIOUS
<1>23. PICK q : q = [u EXCEPT !.paused = v] OBVIOUS
<1>24. "run" \notin DOMAIN e BY <1>16
<1>25. Effect(p, 1, e) = q
  BY <1>16, <1>20, <1>21, <1>22, <1>23, <1>24, Zenon DEF Effect
<1>26. q.phase = "created" /\ q.revision = 0 /\ q.last = 1
  BY <1>17, <1>21, <1>23 DEF SummaryFields
<1>27. Project(r) = q BY <1>12, <1>14, <1>19, <1>25
<1>28. Record(0, <<SessionCreated>>) = r BY <1>1, <1>3, <1>4, <1>5
<1> QED BY <1>8, <1>26, <1>27, <1>28
=============================================================================
