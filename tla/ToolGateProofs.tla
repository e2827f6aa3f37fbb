---------------------------- MODULE ToolGateProofs ----------------------------
(***************************************************************************)
(* Proofs about ToolGate, for any calls, requests in flight and limits and *)
(* in every scenario: its type invariant and PermittedOnce.                *)
(*                                                                         *)
(* The first half is about batches: what a set of calls appends            *)
(* (OneByOneElements), and what a batch does to a projection that has its  *)
(* type.  A claim or an "allow" in it is never taken back.  The invariant  *)
(* GateInv adds what each thread holds, carries and has claimed (Fits).    *)
(* A step changes the record of one thread; for every other it is enough   *)
(* that the step stands Aside.                                             *)
(***************************************************************************)
EXTENDS ToolGate, ReplayLemmas, FiniteSetTheorems

-----------------------------------------------------------------------------
(* Sequences of events.                                                     *)

Elements(a) == {a[i] : i \in 1..Len(a)}

LEMMA ElementsConcat ==
    ASSUME NEW a, NEW b, IsSeq(a), IsSeq(b)
    PROVE  IsSeq(a \o b) /\ Elements(a \o b) = Elements(a) \cup Elements(b)
<1>1. PICK m \in Nat : m = Len(a) BY DEF IsSeq
<1>2. PICK n \in Nat : n = Len(b) BY DEF IsSeq
<1>3. PICK c : c = a \o b OBVIOUS
<1>4. /\ IsSeq(c) /\ Len(c) = m + n
      /\ \A i \in 1..m : c[i] = a[i]
      /\ \A i \in 1..n : c[m + i] = b[i]
  BY <1>1, <1>2, <1>3, ConcatIsSeq
<1>5. \A i \in 1..(m + n) : i \in 1..m \/ (i - m \in 1..n /\ m + (i - m) = i) OBVIOUS
<1>6. \A i \in 1..m : i \in 1..(m + n) OBVIOUS
<1>7. \A i \in 1..n : m + i \in 1..(m + n) OBVIOUS
<1>8. ASSUME NEW i \in 1..(m + n) PROVE c[i] \in Elements(a) \cup Elements(b)
  <2>1. CASE i \in 1..m BY <2>1, <1>1, <1>4 DEF Elements
  <2>2. CASE i - m \in 1..n /\ m + (i - m) = i
    <3>1. c[i] = b[i - m] BY <2>2, <1>4
    <3> QED BY <2>2, <3>1, <1>2 DEF Elements
  <2> QED BY <2>1, <2>2, <1>5
<1>9. ASSUME NEW i \in 1..m PROVE a[i] \in Elements(c)
  BY <1>4, <1>6 DEF Elements
<1>10. ASSUME NEW i \in 1..n PROVE b[i] \in Elements(c)
  BY <1>4, <1>7 DEF Elements
<1>11. Elements(c) \subseteq Elements(a) \cup Elements(b) BY <1>4, <1>8 DEF Elements
<1>12. Elements(a) \subseteq Elements(c) BY <1>1, <1>9 DEF Elements
<1>13. Elements(b) \subseteq Elements(c) BY <1>2, <1>10 DEF Elements
<1> QED BY <1>3, <1>4, <1>11, <1>12, <1>13

LEMMA ElementsOne == ASSUME NEW e PROVE IsSeq(<<e>>) /\ Elements(<<e>>) = {e}
BY SingletonIsSeq DEF Elements

LEMMA ElementsThree ==
    ASSUME NEW x, NEW y, NEW z PROVE IsSeq(<<x, y, z>>) /\ Elements(<<x, y, z>>) = {x, y, z}
<1>1. PICK b : b = <<x, y, z>> OBVIOUS
<1>2. Len(b) = 3 /\ b[1] = x /\ b[2] = y /\ b[3] = z BY <1>1
<1>3. 1..3 = {1, 2, 3} OBVIOUS
<1>4. IsSeq(b) BY <1>1 DEF IsSeq
<1> QED BY <1>1, <1>2, <1>3, <1>4 DEF Elements

LEMMA ElementsNone == IsSeq(<<>>) /\ Elements(<<>>) = {}
BY EmptyIsSeq DEF Elements

\* f lists the batches of the calls in `order` one after another.
IsListing(f, order, batch, n) ==
    f = [i \in 0..n |-> IF i = 0 THEN <<>> ELSE f[i - 1] \o batch[order[i]]]

LEMMA ListingExists ==
    ASSUME NEW order, NEW batch
    PROVE  \A n \in Nat : \E f : IsListing(f, order, batch, n)
<1> DEFINE T == {n \in Nat : \E f : IsListing(f, order, batch, n)}
<1>1. 0 \in T
  <2>1. IsListing([i \in 0..0 |-> <<>>], order, batch, 0) BY DEF IsListing
  <2> QED BY <2>1
<1>2. ASSUME NEW n \in T PROVE n + 1 \in T
  <2>0. n \in Nat OBVIOUS
  <2>1. PICK f : IsListing(f, order, batch, n) BY <1>2
  <2>w. PICK w : w = f[n] \o batch[order[n + 1]] OBVIOUS
  <2> DEFINE h == [i \in 0..(n + 1) |-> IF i <= n THEN f[i] ELSE w]
  <2>2. \A i \in 0..(n + 1) : h[i] = IF i = 0 THEN <<>> ELSE h[i - 1] \o batch[order[i]]
    <3> SUFFICES ASSUME NEW i \in 0..(n + 1)
                 PROVE h[i] = IF i = 0 THEN <<>> ELSE h[i - 1] \o batch[order[i]]
      OBVIOUS
    <3>1. CASE i = n + 1
      <4>1. h[i] = w BY <3>1, <2>0
      <4>2. i # 0 /\ i - 1 = n /\ h[n] = f[n] BY <3>1, <2>0
      <4> QED BY <4>1, <4>2, <3>1, <2>w
    <3>2. CASE i = 0 BY <3>2, <2>0, <2>1 DEF IsListing
    <3>3. CASE i \in 1..n
      <4>1. h[i] = f[i] /\ h[i - 1] = f[i - 1] /\ i # 0 BY <3>3, <2>0
      <4>2. i \in 0..n /\ i # 0 BY <3>3, <2>0
      <4>3. f[i] = f[i - 1] \o batch[order[i]] BY <4>2, <2>1, Zenon DEF IsListing
      <4> QED BY <4>1, <4>3
    <3> QED BY <3>1, <3>2, <3>3, <2>0
  <2>3. h = [i \in 0..(n + 1) |-> h[i]] OBVIOUS
  <2> HIDE DEF h
  <2>4. IsListing(h, order, batch, n + 1) BY <2>2, <2>3 DEF IsListing
  <2> QED BY <2>4, <2>0
<1> HIDE DEF T
<1>3. T \subseteq Nat BY DEF T
<1>4. T = Nat BY <1>1, <1>2, <1>3, NatSetInduction
<1> QED BY <1>4 DEF T

\* An order of a set names every element of it.
Orders(S) == {o \in [1..Cardinality(S) -> S] : \A c \in S : \E i \in DOMAIN o : o[i] = c}

LEMMA OrderExists == ASSUME NEW S, IsFiniteSet(S) PROVE Orders(S) # {} /\ Cardinality(S) \in Nat
<1>1. Cardinality(S) \in Nat BY FS_CardinalityType
<1>2. PICK o : o \in Bijection(1..Cardinality(S), S)
  BY FS_CardinalityType DEF ExistsBijection
<1>3. o \in [1..Cardinality(S) -> S] /\ \A c \in S : \E i \in 1..Cardinality(S) : o[i] = c
  BY <1>2 DEF Bijection, Injection, Surjection
<1>4. o \in Orders(S) BY <1>3 DEF Orders
<1> QED BY <1>1, <1>4

\* The events of the listing are those of the batches.
LEMMA OneByOneElements ==
    ASSUME NEW S, IsFiniteSet(S), NEW batch, \A c \in S : IsSeq(batch[c])
    PROVE  /\ IsSeq(OneByOne(S, batch))
           /\ Elements(OneByOne(S, batch)) = UNION {Elements(batch[c]) : c \in S}
<1>1. PICK k \in Nat : k = Cardinality(S) BY OrderExists
<1>2. PICK order : order = CHOOSE o \in [1..Cardinality(S) -> S] :
                                \A c \in S : \E i \in DOMAIN o : o[i] = c
  OBVIOUS
<1>3. order \in [1..k -> S] /\ \A c \in S : \E i \in 1..k : order[i] = c
  <2>1. \E o \in [1..Cardinality(S) -> S] : \A c \in S : \E i \in DOMAIN o : o[i] = c
    BY OrderExists DEF Orders
  <2>2. order \in [1..Cardinality(S) -> S] /\ \A c \in S : \E i \in DOMAIN order : order[i] = c
    BY <1>2, <2>1, Zenon
  <2> QED BY <1>1, <2>2
<1>4. PICK f : IsListing(f, order, batch, k) /\ OneByOne(S, batch) = f[k]
  <2>1. PICK g : g = CHOOSE x : IsListing(x, order, batch, k) OBVIOUS
  <2>2. IsListing(g, order, batch, k) BY <2>1, ListingExists
  <2>3. OneByOne(S, batch) = g[k] BY <1>1, <1>2, <2>1 DEF OneByOne, IsListing
  <2> QED BY <2>2, <2>3
<1> DEFINE U(n) == UNION {Elements(batch[order[i]]) : i \in 1..n}
           T == {n \in Nat : n <= k => IsSeq(f[n]) /\ Elements(f[n]) = U(n)}
<1>5. 0 \in T
  <2>1. f[0] = <<>> BY <1>4 DEF IsListing
  <2>2. U(0) = {} OBVIOUS
  <2> QED BY <2>1, <2>2, ElementsNone
<1>6. ASSUME NEW n \in T PROVE n + 1 \in T
  <2> SUFFICES ASSUME n + 1 <= k PROVE IsSeq(f[n + 1]) /\ Elements(f[n + 1]) = U(n + 1)
    OBVIOUS
  <2>1. n \in Nat /\ n <= k /\ n + 1 \in 1..k /\ n + 1 \in 0..k /\ n + 1 # 0 /\ (n + 1) - 1 = n
    OBVIOUS
  <2>2. IsSeq(f[n]) /\ Elements(f[n]) = U(n) BY <2>1
  <2>3. f[n + 1] = f[n] \o batch[order[n + 1]] BY <1>4, <2>1 DEF IsListing
  <2>4. IsSeq(batch[order[n + 1]]) BY <1>3, <2>1
  <2>5. IsSeq(f[n + 1]) /\ Elements(f[n + 1]) = U(n) \cup Elements(batch[order[n + 1]])
    BY <2>2, <2>3, <2>4, ElementsConcat
  <2>6. 1..(n + 1) = (1..n) \cup {n + 1} BY <2>1
  <2>7. U(n + 1) = U(n) \cup Elements(batch[order[n + 1]]) BY <2>6
  <2> QED BY <2>5, <2>7
<1> HIDE DEF T
<1>7. T \subseteq Nat BY DEF T
<1>8. T = Nat BY <1>5, <1>6, <1>7, NatSetInduction
<1>9. IsSeq(f[k]) /\ Elements(f[k]) = U(k) BY <1>8 DEF T
<1>10. U(k) = UNION {Elements(batch[c]) : c \in S} BY <1>3
<1> QED BY <1>4, <1>9, <1>10

\* The steps of AfterEvents: f lists the projections after 0, 1, ... events.
IsRun(f, p, b) ==
    /\ f[0] = p
    /\ \A n \in Nat : n + 1 <= Len(b) => f[n + 1] = Apply(f[n], 0, b[n + 1])
    /\ AfterEvents(p, b) = [f[Len(b)] EXCEPT !.revision = 0]

IsAfter(g, p, b) ==
    g = [i \in 0..Len(b) |-> IF i = 0 THEN p
            ELSE CHOOSE q \in {Apply(x, 0, e) : x \in {g[i - 1]}, e \in {b[i]}} : TRUE]

LEMMA AfterSteps == ASSUME NEW p, NEW b, IsSeq(b) PROVE \E f : IsRun(f, p, b)
<1>1. PICK k \in Nat : k = Len(b) BY DEF IsSeq
<1>2. PICK r : r = [i \in 1..k |-> [id |-> 0, event |-> b[i]]] OBVIOUS
<1>3. \A x, e : (CHOOSE q \in {Apply(y, 0, d) : y \in {x}, d \in {e}} : TRUE) = Apply(x, 0, e)
  <2> SUFFICES ASSUME NEW x, NEW e
               PROVE (CHOOSE q \in {Apply(y, 0, d) : y \in {x}, d \in {e}} : TRUE) = Apply(x, 0, e)
    OBVIOUS
  <2>1. PICK a : a = Apply(x, 0, e) OBVIOUS
  <2>2. {Apply(y, 0, d) : y \in {x}, d \in {e}} = {a} BY <2>1
  <2>3. (CHOOSE q \in {a} : TRUE) = a OBVIOUS
  <2> QED BY <2>1, <2>2, <2>3
<1>4. PICK g : IsSteps(g, p, r, k) BY StepsExist
<1>5. IsAfter(g, p, b)
  <2>1. \A i \in 1..k : r[i].id = 0 /\ r[i].event = b[i] BY <1>2
  <2>2. \A i \in 0..k : i # 0 => i \in 1..k OBVIOUS
  <2>3. \A i \in 0..k : g[i] = IF i = 0 THEN p ELSE Apply(g[i - 1], 0, b[i])
    BY <1>4, <2>1, <2>2 DEF IsSteps
  <2>4. g = [i \in 0..k |-> g[i]] BY <1>4 DEF IsSteps
  <2>5. \A i \in 0..k : g[i] = IF i = 0 THEN p
            ELSE CHOOSE q \in {Apply(x, 0, e) : x \in {g[i - 1]}, e \in {b[i]}} : TRUE
    BY <1>3, <2>3
  <2> QED BY <1>1, <2>4, <2>5 DEF IsAfter
<1>6. PICK f : f = CHOOSE x : IsAfter(x, p, b) OBVIOUS
<1>7. IsAfter(f, p, b) BY <1>5, <1>6
<1>8. AfterEvents(p, b) = [f[Len(b)] EXCEPT !.revision = 0] BY <1>6 DEF AfterEvents, IsAfter
<1>9. f[0] = p BY <1>1, <1>7 DEF IsAfter
<1>10. ASSUME NEW n \in Nat, n + 1 <= Len(b) PROVE f[n + 1] = Apply(f[n], 0, b[n + 1])
  <2>1. n + 1 \in 0..Len(b) /\ n + 1 # 0 /\ (n + 1) - 1 = n BY <1>1, <1>10
  <2>2. f[n + 1] = CHOOSE q \in {Apply(x, 0, e) : x \in {f[n]}, e \in {b[n + 1]}} : TRUE
    BY <1>7, <2>1 DEF IsAfter
  <2> QED BY <1>3, <2>2
<1>11. IsRun(f, p, b) BY <1>8, <1>9, <1>10 DEF IsRun
<1> QED BY <1>11

-----------------------------------------------------------------------------
(* What the events of the gate do to a projection.                          *)

RequestRecords == [run : Nat, call : Calls \cup {Nil},
                   decision : {"absent", "pending", "allow", "deny"}]
AgentRecords == [spawned : BOOLEAN, result : Values \cup {Nil}]
GateProjections ==
    [phase : Phases, revision : Nat, last : Nat, paused : BOOLEAN,
     runs : [Runs -> RunRecords], messages : [Messages -> MessageRecords],
     requests : [Requests -> RequestRecords], agents : [Agents -> AgentRecords]]

GatePhaseEvents == PhaseEvents \cup [type : {"session_created"}]
GateRunEvents ==
    [type : {"run_queued"}, run : Runs, retry : BOOLEAN]
    \cup [type : {"run_started"}, run : Runs, attempt : Nat]
    \cup [type : {"requires_action"}, run : Runs]
    \cup [type : {"run_ended"}, run : Runs, status : Terminal]
    \cup [type : {"call_emitted"}, run : Runs, call : Calls, native : BOOLEAN]
    \cup [type : {"execution_started", "tool_result"}, run : Runs, call : Calls, value : Values]
RequestEvents ==
    [type : {"permission_requested"}, request : Requests, run : Runs, call : Calls]
    \cup [type : {"permission_resolved"}, request : Requests, decision : {"allow", "deny"}]
AgentEvents ==
    [type : {"agent_spawned"}, agent : Agents]
    \cup [type : {"agent_finished", "agent_delivered"}, agent : Agents, value : Values]
GateEvents == GatePhaseEvents \cup GateRunEvents \cup RequestEvents \cup AgentEvents

\* A run that is not there has no calls, and a call that is not there has
\* not been executed.
RunSound(run) ==
    \A c \in Calls : /\ run.status = "absent" => ~run.calls[c].emitted
                     /\ ~run.calls[c].emitted => run.calls[c].execution = Nil

Sound(p) == p \in GateProjections /\ \A r \in Runs : RunSound(p.runs[r])

\* How run b may follow run a when the events of B are applied: the claim of
\* a call is for good, and what is new was brought by an event.
RunLeads(a, b, B) ==
    /\ a.status # "absent" => b.status # "absent"
    /\ b.status # "absent" => a.status # "absent" \/ \E e \in B : e.type = "run_queued"
    /\ b.attempts \in {a.attempts, 0} \/ \E e \in B : e.type = "run_started" /\ e.attempt = b.attempts
    /\ \A c \in Calls :
          /\ a.calls[c].execution # Nil => b.calls[c].execution = a.calls[c].execution
          /\ b.calls[c].execution # a.calls[c].execution =>
                \E e \in B : e.type = "execution_started" /\ e.call = c
                             /\ e.value = b.calls[c].execution
          /\ b.calls[c].emitted =>
                a.calls[c].emitted \/ \E e \in B : e.type = "call_emitted" /\ e.call = c
    /\ \A e \in B : e.type = "execution_started" /\ e.value # Nil =>
          b.calls[e.call].execution = e.value

\* The same for a request: a decision is final.
RequestLeads(a, b, B, c) ==
    /\ a.decision \in {"allow", "deny"} => b.decision = a.decision
    /\ b.decision # "absent" =>
          a.decision # "absent" \/ \E e \in B : e.type = "permission_requested" /\ e.request = c
    /\ b.decision # a.decision =>
          \E e \in B : /\ e.type \in {"permission_requested", "permission_resolved"}
                       /\ e.request = c
                       /\ b.decision = IF e.type = "permission_requested" THEN "pending" ELSE e.decision
    /\ \A e \in B : e.type = "permission_resolved" /\ e.request = c => b.decision = e.decision

Leads(p, q, B) ==
    /\ \A r \in Runs : RunLeads(p.runs[r], q.runs[r], B)
    /\ \A c \in Requests : RequestLeads(p.requests[c], q.requests[c], B, c)

LEMMA RunLeadsTrans ==
    ASSUME NEW a, NEW b, NEW c, NEW B \in SUBSET GateEvents, NEW e \in GateEvents,
           RunLeads(a, b, B), RunLeads(b, c, {e})
    PROVE  RunLeads(a, c, B \cup {e})
<1> USE DEF RunLeads
<1>1. \A x \in GateEvents : x.type = "execution_started" => x.call \in Calls
  BY DEF GateEvents, GatePhaseEvents, PhaseEvents, GateRunEvents, RequestEvents, AgentEvents
<1>2. c.attempts \in {a.attempts, 0}
      \/ \E x \in B \cup {e} : x.type = "run_started" /\ x.attempt = c.attempts
  OBVIOUS
<1>3. ASSUME NEW k \in Calls
      PROVE  /\ a.calls[k].execution # Nil => c.calls[k].execution = a.calls[k].execution
             /\ c.calls[k].execution # a.calls[k].execution =>
                   \E x \in B \cup {e} : x.type = "execution_started" /\ x.call = k
                                         /\ x.value = c.calls[k].execution
             /\ c.calls[k].emitted =>
                   a.calls[k].emitted \/ \E x \in B \cup {e} : x.type = "call_emitted" /\ x.call = k
  OBVIOUS
<1>4. ASSUME NEW x \in B \cup {e}, x.type = "execution_started", x.value # Nil
      PROVE  c.calls[x.call].execution = x.value
  <2>1. CASE x = e BY <1>4, <2>1
  <2>2. CASE x \in B
    <3>1. b.calls[x.call].execution = x.value /\ x.call \in Calls BY <1>1, <1>4, <2>2
    <3> QED BY <1>4, <3>1
  <2> QED BY <2>1, <2>2
<1>5. /\ a.status # "absent" => c.status # "absent"
      /\ c.status # "absent" => a.status # "absent" \/ \E x \in B \cup {e} : x.type = "run_queued"
  OBVIOUS
<1> QED BY <1>2, <1>3, <1>4, <1>5

LEMMA RequestLeadsTrans ==
    ASSUME NEW a, NEW b, NEW d, NEW c, NEW B \in SUBSET GateEvents, NEW e \in GateEvents,
           RequestLeads(a, b, B, c), RequestLeads(b, d, {e}, c)
    PROVE  RequestLeads(a, d, B \cup {e}, c)
<1> USE DEF RequestLeads
<1>1. \A x \in GateEvents : x.type = "permission_resolved" => x.decision \in {"allow", "deny"}
  BY DEF GateEvents, GatePhaseEvents, PhaseEvents, GateRunEvents, RequestEvents, AgentEvents
<1>2. a.decision \in {"allow", "deny"} => d.decision = a.decision OBVIOUS
<1>3. d.decision # "absent" =>
          a.decision # "absent" \/ \E x \in B \cup {e} : x.type = "permission_requested" /\ x.request = c
  OBVIOUS
<1>4. d.decision # a.decision =>
          \E x \in B \cup {e} :
             /\ x.type \in {"permission_requested", "permission_resolved"}
             /\ x.request = c
             /\ d.decision = IF x.type = "permission_requested" THEN "pending" ELSE x.decision
  OBVIOUS
<1>5. ASSUME NEW x \in B \cup {e}, x.type = "permission_resolved", x.request = c
      PROVE  d.decision = x.decision
  <2>1. CASE x = e BY <1>5, <2>1
  <2>2. CASE x \in B
    <3>1. b.decision = x.decision BY <1>5, <2>2
    <3>2. b.decision \in {"allow", "deny"} BY <1>1, <1>5, <2>2, <3>1
    <3> QED BY <3>1, <3>2
  <2> QED BY <2>1, <2>2
<1> QED BY <1>2, <1>3, <1>4, <1>5

LEMMA LeadsTrans ==
    ASSUME NEW p, NEW q, NEW z, NEW B \in SUBSET GateEvents, NEW e \in GateEvents,
           Leads(p, q, B), Leads(q, z, {e})
    PROVE  Leads(p, z, B \cup {e})
<1>1. ASSUME NEW r \in Runs PROVE RunLeads(p.runs[r], z.runs[r], B \cup {e})
  <2>1. RunLeads(p.runs[r], q.runs[r], B) /\ RunLeads(q.runs[r], z.runs[r], {e}) BY DEF Leads
  <2> QED BY <2>1, RunLeadsTrans
<1>2. ASSUME NEW c \in Requests
      PROVE  RequestLeads(p.requests[c], z.requests[c], B \cup {e}, c)
  <2>1. /\ RequestLeads(p.requests[c], q.requests[c], B, c)
        /\ RequestLeads(q.requests[c], z.requests[c], {e}, c)
    BY DEF Leads
  <2> QED BY <2>1, RequestLeadsTrans
<1> QED BY <1>1, <1>2 DEF Leads

\* When an event is accepted.
LEMMA GateAccepts ==
    ASSUME NEW p, NEW e, Accepts(p, e)
    PROVE  /\ e.type = "run_queued" => p.runs[e.run].status = "absent"
           /\ e.type = "run_started" => p.runs[e.run].status # "absent"
           /\ e.type = "requires_action" => p.runs[e.run].status # "absent"
           /\ e.type = "run_ended" => p.runs[e.run].status # "absent"
           /\ e.type = "call_emitted" =>
                 p.runs[e.run].status # "absent" /\ ~p.runs[e.run].calls[e.call].emitted
           /\ e.type = "execution_started" =>
                 /\ p.runs[e.run].calls[e.call].emitted
                 /\ p.runs[e.run].calls[e.call].execution \in {Nil, e.value}
           /\ e.type = "tool_result" => p.runs[e.run].calls[e.call].emitted
           /\ e.type = "permission_requested" => p.requests[e.request].decision = "absent"
           /\ e.type = "permission_resolved" =>
                 p.requests[e.request].decision \in {"pending", e.decision}
<1>1. e.type = "run_queued" => p.runs[e.run].status = "absent" BY Zenon DEF Accepts
<1>2. e.type = "run_started" => p.runs[e.run].status \in {"queued", "requires_action"}
  BY Zenon DEF Accepts
<1>3. e.type = "requires_action" => p.runs[e.run].status = "running" BY Zenon DEF Accepts
<1>4. e.type = "run_ended" => p.runs[e.run].status \in Unfinished BY Zenon DEF Accepts, MayEnd
<1>5. e.type = "call_emitted" =>
         p.runs[e.run].status # "absent" /\ ~p.runs[e.run].calls[e.call].emitted
  BY Zenon DEF Accepts
<1>6. e.type = "execution_started" =>
         /\ p.runs[e.run].calls[e.call].emitted
         /\ WriteOnce(p.runs[e.run].calls[e.call].execution, e.value)
  BY Zenon DEF Accepts
<1>7. e.type = "tool_result" => p.runs[e.run].calls[e.call].emitted BY Zenon DEF Accepts
<1>8. e.type = "permission_requested" => p.requests[e.request].decision = "absent"
  BY Zenon DEF Accepts
<1>9. e.type = "permission_resolved" => p.requests[e.request].decision \in {"pending", e.decision}
  BY Zenon DEF Accepts
<1> QED BY <1>1, <1>2, <1>3, <1>4, <1>5, <1>6, <1>7, <1>8, <1>9 DEF WriteOnce, Unfinished

\* What an event does to the run it names.
LEMMA GateRunEffect ==
    ASSUME NEW a \in RunRecords, RunSound(a), NEW e \in GateRunEvents,
           e.type = "run_queued" => a.status = "absent",
           e.type \in {"run_started", "requires_action", "run_ended"} => a.status # "absent",
           e.type = "call_emitted" => a.status # "absent" /\ ~a.calls[e.call].emitted,
           e.type = "execution_started" =>
               a.calls[e.call].emitted /\ a.calls[e.call].execution \in {Nil, e.value},
           e.type = "tool_result" => a.calls[e.call].emitted
    PROVE  LET b == RunEffect(a, e) IN b \in RunRecords /\ RunSound(b) /\ RunLeads(a, b, {e})
<1> USE DEF RunRecords, RunStatuses, Unfinished, RunSound, RunLeads
<1>0. PICK b : b = RunEffect(a, e) OBVIOUS
<1> SUFFICES b \in RunRecords /\ RunSound(b) /\ RunLeads(a, b, {e}) BY <1>0
<1>1. CASE e.type = "run_queued"
  <2>1. e.retry \in BOOLEAN BY <1>1 DEF GateRunEvents
  <2>2. PICK v \in BOOLEAN : v = e.retry BY <2>1
  <2>3. b = [NoRun EXCEPT !.status = "queued", !.retry = v]
    BY <1>0, <1>1, <2>2, Zenon DEF RunEffect
  <2>4. PICK n : n = NoRun OBVIOUS
  <2>5. n \in RunRecords /\ n.attempts = 0 /\ \A c \in Calls : n.calls[c] = NoCall
    <3>1. NoCall \in CallRecords BY DEF NoCall, CallRecords
    <3> QED BY <2>4, <3>1 DEF NoRun
  <2>6. b \in RunRecords /\ b.status = "queued" /\ b.attempts = 0 /\ b.calls = n.calls
    BY <2>3, <2>4, <2>5
  <2>7. NoCall.emitted = FALSE /\ NoCall.execution = Nil BY DEF NoCall
  <2>8. \A c \in Calls : ~b.calls[c].emitted /\ b.calls[c].execution = Nil BY <2>5, <2>6, <2>7
  <2> QED BY <1>1, <2>6, <2>8
<1>2. CASE e.type = "run_started"
  <2>1. e.attempt \in Nat BY <1>2 DEF GateRunEvents
  <2>2. b = [a EXCEPT !.status = "running", !.attempts = e.attempt]
    BY <1>0, <1>2, Zenon DEF RunEffect
  <2> QED BY <1>2, <2>1, <2>2
<1>3. CASE e.type = "requires_action"
  <2>1. b = [a EXCEPT !.status = "requires_action"] BY <1>0, <1>3, Zenon DEF RunEffect
  <2> QED BY <1>3, <2>1
<1>4. CASE e.type = "run_ended"
  <2>1. e.status \in Terminal BY <1>4 DEF GateRunEvents
  <2>2. b = [a EXCEPT !.status = e.status] BY <1>0, <1>4, Zenon DEF RunEffect
  <2>3. "absent" \notin Terminal BY DEF Terminal
  <2> QED BY <1>4, <2>1, <2>2, <2>3
<1>5. CASE e.type = "call_emitted"
  <2>1. e.call \in Calls /\ e.native \in BOOLEAN BY <1>5 DEF GateRunEvents
  <2>2. PICK k \in Calls : k = e.call BY <2>1
  <2>3. PICK v : v = [NoCall EXCEPT !.emitted = TRUE, !.native = e.native] OBVIOUS
  <2>a. v \in CallRecords /\ v.emitted = TRUE /\ v.execution = Nil
    BY <2>1, <2>3 DEF NoCall, CallRecords
  <2>4. b = [a EXCEPT !.calls[k] = v] BY <1>0, <1>5, <2>2, <2>3, Zenon DEF RunEffect
  <2>5. /\ b \in RunRecords /\ b.status = a.status /\ b.attempts = a.attempts
        /\ b.calls[k] = v /\ \A c \in Calls : c # k => b.calls[c] = a.calls[c]
    BY <2>4, <2>a
  <2>6. a.calls[k].execution = Nil BY <1>5, <2>2
  <2> QED BY <1>5, <2>2, <2>a, <2>5, <2>6
<1>6. CASE e.type \in {"execution_started", "tool_result"}
  <2>1. e.call \in Calls /\ e.value \in Values BY <1>6 DEF GateRunEvents
  <2>2. PICK k \in Calls : k = e.call BY <2>1
  <2>3. PICK x \in Values : x = e.value BY <2>1
  <2>4. CASE e.type = "execution_started"
    <3>1. b = [a EXCEPT !.calls[k].execution = x] BY <1>0, <2>2, <2>3, <2>4, Zenon DEF RunEffect
    <3>2. [a.calls[k] EXCEPT !.execution = x] \in CallRecords BY DEF CallRecords
    <3>3. /\ b \in RunRecords /\ b.status = a.status /\ b.attempts = a.attempts
          /\ \A c \in Calls : c # k => b.calls[c] = a.calls[c]
      BY <3>1, <3>2
    <3>4. b.calls[k].execution = x /\ b.calls[k].emitted = a.calls[k].emitted
      BY <3>1 DEF CallRecords
    <3> QED BY <2>2, <2>3, <2>4, <3>3, <3>4
  <2>5. CASE e.type = "tool_result"
    <3>1. b = [a EXCEPT !.calls[k].result = x] BY <1>0, <2>2, <2>3, <2>5, Zenon DEF RunEffect
    <3>2. [a.calls[k] EXCEPT !.result = x] \in CallRecords BY DEF CallRecords
    <3>3. /\ b \in RunRecords /\ b.status = a.status /\ b.attempts = a.attempts
          /\ \A c \in Calls : c # k => b.calls[c] = a.calls[c]
      BY <3>1, <3>2
    <3>4. b.calls[k].execution = a.calls[k].execution /\ b.calls[k].emitted = a.calls[k].emitted
      BY <3>1 DEF CallRecords
    <3> QED BY <2>2, <2>5, <3>3, <3>4
  <2> QED BY <1>6, <2>4, <2>5
<1>7. e.type \in {"run_queued", "run_started", "requires_action", "run_ended", "call_emitted",
                  "execution_started", "tool_result"}
  BY DEF GateRunEvents
<1> QED BY <1>1, <1>2, <1>3, <1>4, <1>5, <1>6, <1>7

\* The phase and the pause are updated beside the maps.
SameMaps(p, q) ==
    /\ q \in GateProjections /\ q.runs = p.runs /\ q.requests = p.requests

LEMMA GateStateAfter ==
    ASSUME NEW p \in GateProjections, NEW e \in GateEvents
    PROVE  SameMaps(p, StateAfter(p, 0, e))
<1>1. PICK v \in BOOLEAN : v = PausedEffect(p, e)
  <2>1. p.paused \in BOOLEAN BY DEF GateProjections
  <2>2. PausedEffect(p, e) \in BOOLEAN BY <2>1, Zenon DEF PausedEffect
  <2> QED BY <2>2
<1>2. \E to \in Phases, n \in Nat :
         StateEffect(p, 0, e) = [p EXCEPT !.phase = to, !.last = 0, !.revision = n]
  <2>0. p.phase \in Phases /\ p.revision \in Nat /\ p.revision + 1 \in Nat BY DEF GateProjections
  <2>1. CASE e.type = "phase_changed"
    <3>1. e.to \in Phases
      BY <2>1 DEF GateEvents, GatePhaseEvents, PhaseEvents, GateRunEvents, RequestEvents, AgentEvents
    <3>2. StateEffect(p, 0, e) = [p EXCEPT !.phase = e.to, !.last = 0, !.revision = p.revision + 1]
      BY <2>1, Zenon DEF StateEffect
    <3> QED BY <3>1, <3>2, <2>0, Zenon
  <2>2. CASE e.type \in {"session_interrupted", "session_forked"}
    <3>1. StateEffect(p, 0, e)
            = [p EXCEPT !.phase = "interrupted", !.last = 0, !.revision = p.revision + 1]
      BY <2>2, Zenon DEF StateEffect
    <3>2. "interrupted" \in Phases BY DEF Phases
    <3> QED BY <3>1, <3>2, <2>0, Zenon
  <2>3. CASE e.type \notin {"phase_changed", "session_interrupted", "session_forked"}
    <3>1. StateEffect(p, 0, e) = [p EXCEPT !.phase = p.phase, !.last = 0, !.revision = p.revision]
      BY <2>3, Zenon DEF StateEffect
    <3> QED BY <3>1, <2>0, Zenon
  <2> QED BY <2>1, <2>2, <2>3
<1>3. PICK to \in Phases, n \in Nat :
         StateEffect(p, 0, e) = [p EXCEPT !.phase = to, !.last = 0, !.revision = n]
  BY <1>2
<1>4. PICK u : u = [p EXCEPT !.phase = to, !.last = 0, !.revision = n] OBVIOUS
<1>5. SameMaps(p, u) BY <1>4 DEF GateProjections, SameMaps
<1>6. PICK q : q = [u EXCEPT !.paused = v] OBVIOUS
<1>7. SameMaps(p, q) BY <1>5, <1>6 DEF GateProjections, SameMaps
<1>8. StateAfter(p, 0, e) = q BY <1>1, <1>3, <1>4, <1>6, Zenon DEF StateAfter
<1> QED BY <1>7, <1>8

\* What an event does to the projection.
LEMMA GateEffect ==
    ASSUME GateAssumption, NEW p, Sound(p), NEW e \in GateEvents, Accepts(p, e)
    PROVE  Sound(Effect(p, 0, e)) /\ Leads(p, Effect(p, 0, e), {e})
<1>0. PICK q : q = StateAfter(p, 0, e) OBVIOUS
<1>1. q \in GateProjections /\ q.runs = p.runs /\ q.requests = p.requests
  BY <1>0, GateStateAfter DEF SameMaps, Sound
<1>2. PICK z : z = Effect(p, 0, e) OBVIOUS
<1> SUFFICES Sound(z) /\ Leads(p, z, {e}) BY <1>2
<1>3. \A r \in Runs : p.runs[r] \in RunRecords /\ RunSound(p.runs[r]) BY DEF Sound, GateProjections
<1>4. ASSUME e.type # "run_queued", e.type # "execution_started" PROVE \A r \in Runs : RunLeads(p.runs[r], p.runs[r], {e})
  BY <1>4 DEF RunLeads
<1>5. ASSUME e \notin RequestEvents
      PROVE  \A c \in Requests : RequestLeads(p.requests[c], p.requests[c], {e}, c)
  <2>1. e.type # "permission_resolved"
    BY <1>5 DEF GateEvents, GatePhaseEvents, PhaseEvents, GateRunEvents, RequestEvents, AgentEvents
  <2> QED BY <2>1 DEF RequestLeads
<1>6. CASE e \in GatePhaseEvents
  <2>1. e.type \notin {"message_started", "message_closed", "permission_requested",
                       "permission_resolved", "agent_spawned", "agent_finished", "agent_delivered",
                       "run_queued", "execution_started"}
    BY <1>6 DEF GatePhaseEvents, PhaseEvents
  <2>2. "run" \notin DOMAIN e /\ e \notin RequestEvents
    BY <1>6 DEF GatePhaseEvents, PhaseEvents, RequestEvents
  <2>3. z = q BY <2>1, <2>2, <1>0, <1>2, Zenon DEF Effect, StateAfter
  <2> QED BY <1>1, <1>3, <1>4, <1>5, <2>1, <2>2, <2>3 DEF Sound, Leads
<1>7. CASE e \in GateRunEvents
  <2>1. "run" \in DOMAIN e /\ e.run \in Runs /\ e \notin RequestEvents
    BY <1>7 DEF GateRunEvents, RequestEvents
  <2>2. e.type \notin {"message_started", "message_closed", "permission_requested",
                       "permission_resolved", "agent_spawned", "agent_finished", "agent_delivered"}
    BY <1>7 DEF GateRunEvents
  <2>3. PICK r \in Runs : r = e.run BY <2>1
  <2>4. PICK b : b = RunEffect(p.runs[r], e) OBVIOUS
  <2>5. z = [q EXCEPT !.runs[r] = b]
    <3>1. z = [q EXCEPT !.runs[e.run] = RunEffect(q.runs[e.run], e)]
      BY <2>1, <2>2, <1>0, <1>2, Zenon DEF Effect, StateAfter
    <3> QED BY <1>1, <2>3, <2>4, <3>1
  <2>6. PICK a : a = p.runs[r] OBVIOUS
  <2>7. b \in RunRecords /\ RunSound(b) /\ RunLeads(a, b, {e})
    <3>1. a \in RunRecords /\ RunSound(a) BY <1>3, <2>6
    <3>2. b = RunEffect(a, e) BY <2>4, <2>6
    <3>3. /\ e.type = "run_queued" => a.status = "absent"
          /\ e.type \in {"run_started", "requires_action", "run_ended"} => a.status # "absent"
          /\ e.type = "call_emitted" => a.status # "absent" /\ ~a.calls[e.call].emitted
          /\ e.type = "execution_started" =>
                a.calls[e.call].emitted /\ a.calls[e.call].execution \in {Nil, e.value}
          /\ e.type = "tool_result" => a.calls[e.call].emitted
      BY <2>3, <2>6, GateAccepts
    <3> QED BY <1>7, <3>1, <3>2, <3>3, GateRunEffect
  <2>8. z \in GateProjections /\ z.runs[r] = b /\ z.requests = p.requests
    BY <1>1, <2>5, <2>7 DEF GateProjections
  <2>9. \A s \in Runs : s = r BY DEF GateAssumption
  <2> QED BY <1>3, <1>5, <2>1, <2>6, <2>7, <2>8, <2>9 DEF Sound, Leads
<1>8. CASE e \in RequestEvents
  <2>0. e.request \in Requests /\ p.requests \in [Requests -> RequestRecords]
    BY <1>8 DEF RequestEvents, Sound, GateProjections
  <2>1. PICK c \in Requests : c = e.request BY <2>0
  <2>a. e.type \notin {"run_queued", "execution_started"} BY <1>8 DEF RequestEvents
  <2>2. CASE e.type = "permission_requested"
    <3>1. e.run \in Nat /\ e.call \in Calls BY <1>8, <2>2, IdsAreOrdered DEF RequestEvents
    <3>2. PICK v : v = [run |-> e.run, call |-> e.call, decision |-> "pending"] OBVIOUS
    <3>3. v \in RequestRecords /\ v.decision = "pending" BY <3>1, <3>2 DEF RequestRecords
    <3>4. z = [q EXCEPT !.requests[c] = v] BY <2>1, <2>2, <3>2, <1>0, <1>2, Zenon DEF Effect, StateAfter
    <3>5. /\ z \in GateProjections /\ z.runs = p.runs /\ z.requests[c] = v
          /\ \A d \in Requests : d # c => z.requests[d] = p.requests[d]
      BY <1>1, <3>3, <3>4 DEF GateProjections
    <3>6. p.requests[c].decision = "absent" BY <2>1, <2>2, GateAccepts
    <3>7. ASSUME NEW d \in Requests PROVE RequestLeads(p.requests[d], z.requests[d], {e}, d)
      <4>1. CASE d = c BY <2>1, <2>2, <3>3, <3>5, <3>6, <4>1 DEF RequestLeads
      <4>2. CASE d # c BY <2>1, <2>2, <3>5, <4>2 DEF RequestLeads
      <4> QED BY <4>1, <4>2
    <3> QED BY <1>3, <1>4, <2>a, <3>5, <3>7 DEF Sound, Leads
  <2>3. CASE e.type = "permission_resolved"
    <3>1. PICK v \in {"allow", "deny"} : v = e.decision BY <1>8, <2>3 DEF RequestEvents
    <3>2. z = [q EXCEPT !.requests[c].decision = v]
      BY <2>1, <2>3, <3>1, <1>0, <1>2, Zenon DEF Effect, StateAfter
    <3>3. [p.requests[c] EXCEPT !.decision = v] \in RequestRecords BY <2>0 DEF RequestRecords
    <3>4. /\ z \in GateProjections /\ z.runs = p.runs
          /\ z.requests[c] = [p.requests[c] EXCEPT !.decision = v]
          /\ \A d \in Requests : d # c => z.requests[d] = p.requests[d]
      BY <1>1, <3>2, <3>3 DEF GateProjections
    <3>5. z.requests[c].decision = v BY <2>0, <3>4 DEF RequestRecords
    <3>6. p.requests[c].decision \in {"pending", v} BY <2>1, <2>3, <3>1, GateAccepts
    <3>7. ASSUME NEW d \in Requests PROVE RequestLeads(p.requests[d], z.requests[d], {e}, d)
      <4>1. CASE d = c BY <2>1, <2>3, <3>1, <3>5, <3>6, <4>1 DEF RequestLeads
      <4>2. CASE d # c BY <2>1, <2>3, <3>4, <4>2 DEF RequestLeads
      <4> QED BY <4>1, <4>2
    <3> QED BY <1>3, <1>4, <2>a, <3>4, <3>7 DEF Sound, Leads
  <2> QED BY <1>8, <2>2, <2>3 DEF RequestEvents
<1>9. CASE e \in AgentEvents
  <2>0. /\ e.agent \in Agents /\ p.agents \in [Agents -> AgentRecords] /\ e \notin RequestEvents
        /\ e.type \notin {"run_queued", "execution_started"}
    BY <1>9 DEF AgentEvents, RequestEvents, Sound, GateProjections
  <2>1. PICK c \in Agents : c = e.agent BY <2>0
  <2>2. z \in GateProjections /\ z.runs = p.runs /\ z.requests = p.requests
    <3>1. CASE e.type = "agent_spawned"
      <4>1. z = [q EXCEPT !.agents[c].spawned = TRUE]
        BY <2>1, <3>1, <1>0, <1>2, Zenon DEF Effect, StateAfter
      <4>2. \E v \in BOOLEAN : z = [q EXCEPT !.agents[c].spawned = v] BY <4>1, Zenon
      <4>3. PICK v \in BOOLEAN : z = [q EXCEPT !.agents[c].spawned = v] BY <4>2
      <4>4. q.agents[c] \in AgentRecords BY <1>1 DEF GateProjections
      <4>5. [q.agents[c] EXCEPT !.spawned = v] \in AgentRecords BY <4>4 DEF AgentRecords
      <4> QED BY <1>1, <4>3, <4>5 DEF GateProjections
    <3>2. CASE e.type \in {"agent_finished", "agent_delivered"}
      <4>1. e.value \in Values BY <1>9, <3>2 DEF AgentEvents
      <4>2. q.agents[c] \in AgentRecords BY <1>1 DEF GateProjections
      <4>3. PICK v \in Values \cup {Nil} : v = IF e.value = Nil THEN q.agents[c].result ELSE e.value
        BY <4>1, <4>2 DEF AgentRecords
      <4>4. z = [q EXCEPT !.agents[c].result = v]
        BY <2>1, <3>2, <4>3, <1>0, <1>2, Zenon DEF Effect, StateAfter
      <4>5. [q.agents[c] EXCEPT !.result = v] \in AgentRecords BY <4>2 DEF AgentRecords
      <4> QED BY <1>1, <4>4, <4>5 DEF GateProjections
    <3> QED BY <1>9, <3>1, <3>2 DEF AgentEvents
  <2> QED BY <1>3, <1>4, <1>5, <2>0, <2>2 DEF Sound, Leads
<1> QED BY <1>6, <1>7, <1>8, <1>9 DEF GateEvents

LEMMA GateApply ==
    ASSUME GateAssumption, NEW p, p = Corrupt \/ Sound(p), NEW e \in GateEvents,
           NEW q, q = Apply(p, 0, e)
    PROVE  q = Corrupt \/ (Sound(p) /\ Sound(q) /\ Leads(p, q, {e}))
<1>1. CASE p.phase # "corrupt" /\ Accepts(p, e)
  <2>1. q = Effect(p, 0, e) BY <1>1 DEF Apply
  <2>2. Sound(p) BY <1>1, CorruptPhase
  <2> QED BY <1>1, <2>1, <2>2, GateEffect
<1>2. CASE ~(p.phase # "corrupt" /\ Accepts(p, e)) BY <1>2 DEF Apply
<1> QED BY <1>1, <1>2

\* What a batch of events does, if it is accepted.
LEMMA GateBatch ==
    ASSUME GateAssumption, NEW p, Sound(p), NEW b, IsSeq(b), Elements(b) \subseteq GateEvents,
           AfterEvents(p, b).phase # "corrupt"
    PROVE  Sound(AfterEvents(p, b)) /\ Leads(p, AfterEvents(p, b), Elements(b))
<1>1. PICK k \in Nat : k = Len(b) BY DEF IsSeq
<1>2. PICK f : IsRun(f, p, b) BY AfterSteps
<1> DEFINE B(n) == {b[i] : i \in 1..n}
           T == {n \in Nat : n <= k => f[n] = Corrupt \/ (Sound(f[n]) /\ Leads(p, f[n], B(n)))}
<1>3. 0 \in T
  <2>1. B(0) = {} OBVIOUS
  <2>2. Leads(p, p, {}) BY DEF Leads, RunLeads, RequestLeads
  <2>3. f[0] = p BY <1>2 DEF IsRun
  <2> QED BY <2>1, <2>2, <2>3
<1>4. ASSUME NEW n \in T PROVE n + 1 \in T
  <2> SUFFICES ASSUME n + 1 <= k
               PROVE  f[n + 1] = Corrupt \/ (Sound(f[n + 1]) /\ Leads(p, f[n + 1], B(n + 1)))
    OBVIOUS
  <2>1. n \in Nat /\ n + 1 \in 1..k /\ n <= k OBVIOUS
  <2>2. f[n] = Corrupt \/ (Sound(f[n]) /\ Leads(p, f[n], B(n))) BY <2>1
  <2>3. PICK e \in GateEvents : e = b[n + 1] BY <1>1, <2>1 DEF Elements
  <2>4. PICK c : c = f[n] OBVIOUS
  <2>5. PICK q : q = f[n + 1] OBVIOUS
  <2>6. q = Apply(c, 0, e) BY <1>1, <1>2, <2>1, <2>3, <2>4, <2>5 DEF IsRun
  <2> HIDE DEF B
  <2>7. q = Corrupt \/ (Sound(c) /\ Sound(q) /\ Leads(c, q, {e})) BY <2>2, <2>4, <2>6, GateApply
  <2>8. B(n) \in SUBSET GateEvents /\ B(n + 1) = B(n) \cup {e}
    <3>1. \A i \in 1..n : i \in 1..k BY <2>1
    <3>2. 1..(n + 1) = (1..n) \cup {n + 1} BY <2>1
    <3> QED BY <1>1, <2>3, <3>1, <3>2 DEF B, Elements
  <2>9. CASE q = Corrupt BY <2>5, <2>9
  <2>10. CASE q # Corrupt
    <3>1. Sound(q) /\ Leads(c, q, {e}) /\ Sound(c) BY <2>7, <2>10
    <3>2. c # Corrupt BY <3>1, CorruptPhase DEF Sound, GateProjections
    <3>3. Leads(p, c, B(n)) BY <2>2, <2>4, <3>2
    <3>4. Leads(p, q, B(n) \cup {e}) BY <2>8, <3>1, <3>3, LeadsTrans
    <3> QED BY <2>5, <2>8, <3>1, <3>4
  <2> QED BY <2>9, <2>10
<1> HIDE DEF T
<1>5. T \subseteq Nat BY DEF T
<1>6. T = Nat BY <1>3, <1>4, <1>5, NatSetInduction
<1> HIDE DEF B
<1>7. f[k] = Corrupt \/ (Sound(f[k]) /\ Leads(p, f[k], B(k))) BY <1>6 DEF T
<1>8. PICK q : q = f[k] OBVIOUS
<1>9. PICK z : z = [q EXCEPT !.revision = 0] OBVIOUS
<1>10. z = AfterEvents(p, b) BY <1>1, <1>2, <1>8, <1>9 DEF IsRun
<1>11. q # Corrupt
  <2> SUFFICES ASSUME q = Corrupt PROVE FALSE OBVIOUS
  <2>1. z.phase = "corrupt" BY <1>9 DEF Corrupt, Empty
  <2> QED BY <1>10, <2>1
<1>12. Sound(q) /\ Leads(p, q, B(k)) BY <1>7, <1>8, <1>11
<1>13. z \in GateProjections /\ z.runs = q.runs /\ z.requests = q.requests
  BY <1>9, <1>12 DEF Sound, GateProjections
<1>14. Sound(z) /\ Leads(p, z, B(k)) BY <1>12, <1>13 DEF Sound, Leads
<1>15. B(k) = Elements(b) BY <1>1 DEF B, Elements
<1> QED BY <1>10, <1>14, <1>15

-----------------------------------------------------------------------------
(* The inductive invariant.                                                 *)

Places ==
    {"idle", "look", "begin", "start", "register", "permit", "execute", "finish", "phase",
     "evaluate", "pick", "claim", "tool", "output", "resume", "paused", "spawn", "queue",
     "deliver", "parent", "answer", "nested", "leave", "error", "resolve", "submit", "cancel",
     "cancel_child"}

\* Where a thread has the mutex of its session, and where it is about a call.
LockedPlaces ==
    {"look", "begin", "start", "register", "permit", "execute", "finish", "phase", "evaluate",
     "paused", "leave", "submit"}
CallPlaces == {"claim", "tool", "output", "spawn", "queue", "resolve", "submit"}

ThreadRecords ==
    [at : Places, s : Sessions \cup {Nil}, call : Calls \cup {Nil},
     out : Outcomes \cup {Nil, "allow", "deny"}, ready : BOOLEAN, nested : BOOLEAN, permits : 0..2]

Decided(s, c) == proj[s].requests[c].decision
Execution(s, c) == RunOf(s).calls[c].execution
Emitted(s, c) == RunOf(s).calls[c].emitted
Attempts(s) == RunOf(s).attempts

Typed ==
    /\ disturbances \subseteq AllDisturbances
    /\ calls \in [Calls -> Demands]
    /\ linked \in Calls \cup {Nil}
    /\ rules \subseteq {ToolName(c) : c \in Calls}
    /\ lock \in [Sessions -> Threads \cup {Nobody}]
    /\ woken \in [Sessions -> BOOLEAN]
    /\ token \in [Sessions -> {"none", "live", "cancelled"}]
    /\ thread \in [Threads -> ThreadRecords]
    /\ executed \in [Calls -> Nat]

Projected == proj \in [Sessions -> GateProjections] /\ \A s \in Sessions : Sound(proj[s])

\* What holds of a thread t whose record is r.  process_session holds the
\* mutex of its session, and a worker that is nested in the parent's also
\* that of its own.
Holds(t, r) ==
    /\ r.at \in LockedPlaces => lock[r.s] = t
    /\ r.at # "idle" => r.s \in Sessions /\ (t \in Sessions => lock[t] = t)
    /\ t \in Sessions /\ r.at # "idle" => r.s = t \/ r.nested
    /\ r.nested => r.s = "parent" /\ t # "parent" /\ r.at # "idle"
    /\ r.at \in {"parent", "answer", "nested"} => r.s = "child"
    /\ r.at \in {"cancel", "cancel_child"} => t \notin Sessions

\* What it carries from one step to a later one.
Carries(t, r) ==
    /\ r.at \in {"begin", "start", "register", "permit"} => r.permits <= 1
    /\ r.at = "start" => Attempts(r.s) < MaxTurns
    /\ r.at = "finish" => r.out \in Outcomes
    /\ r.at = "resolve" => r.out \in {"allow", "deny"}
    /\ r.at \in CallPlaces => r.call \in Calls /\ r.s = calls[r.call].home
    /\ r.at \in {"queue", "parent", "answer"} => linked # Nil

\* If it is to execute a call, it has claimed it, and nobody has executed it
\* before.
Claims(t, r) ==
    /\ r.at = "claim" => Execution(r.s, r.call) # t /\ Decided(r.s, r.call) = "allow"
    /\ r.at \in {"tool", "spawn", "queue"} =>
          Execution(r.s, r.call) = t /\ Decided(r.s, r.call) = "allow"
    /\ r.at = "tool" => executed[r.call] = 0
    /\ r.at = "spawn" /\ linked = Nil => executed[r.call] = 0

Fits(t, r) == Holds(t, r) /\ Carries(t, r) /\ Claims(t, r)

NotDenied(c) == "deny" \notin {calls[c].setting, calls[c].ceiling}

Turns == \A s \in Sessions : Attempts(s) \in (0..MaxTurns) \cup {1}
AtHome == \A s \in Sessions, c \in Calls : Emitted(s, c) => calls[c].home = s
Permitted ==
    \A s \in Sessions, c \in Calls : Decided(s, c) \in {"pending", "allow"} => NotDenied(c)
Accounted ==
    \A c \in Calls : executed[c] > 0 =>
        /\ executed[c] = 1
        /\ Execution(calls[c].home, c) # Nil
        /\ Decided(calls[c].home, c) = "allow"
ChildLinked == Status("child") # "absent" => linked # Nil

GateInv ==
    /\ Typed /\ Projected /\ Turns /\ AtHome /\ Permitted /\ Accounted /\ ChildLinked
    /\ \A t \in Threads : Fits(t, thread[t])

-----------------------------------------------------------------------------
(* What the steps of others leave to a thread.                              *)

Aside(u) ==
    /\ calls' = calls
    /\ \A s \in Sessions : lock[s] = u => lock'[s] = u
    /\ linked' = linked \/ (linked = Nil /\ linked' # Nil)
    /\ \A s \in Sessions, c \in Calls :
          /\ Execution(s, c) # Nil => Execution(s, c)' = Execution(s, c)
          /\ Execution(s, c)' = u => Execution(s, c) = u
          /\ Decided(s, c) = "allow" => Decided(s, c)' = "allow"
    /\ \A s \in Sessions : lock[s] = u => Attempts(s)' \in {Attempts(s), 0}
    /\ \A c \in Calls : Execution(calls[c].home, c) = u => executed'[c] = executed[c]

LEMMA StaysFit ==
    ASSUME GateAssumption, Projected, NEW u \in Threads, NEW r \in ThreadRecords,
           Fits(u, r), Aside(u)
    PROVE  Fits(u, r)'
<1> USE DEF Aside
<1>0. u # Nil BY DEF GateAssumption
<1>1. Holds(u, r) /\ Carries(u, r) /\ Claims(u, r) BY DEF Fits
<1>2. Holds(u, r)'
  <2>1. r.at \in LockedPlaces => lock'[r.s] = u BY <1>1 DEF Holds, LockedPlaces
  <2>2. r.at # "idle" /\ u \in Sessions => lock'[u] = u BY <1>1 DEF Holds
  <2> QED BY <1>1, <2>1, <2>2 DEF Holds
<1>3. Carries(u, r)'
  <2>1. r.at = "start" => Attempts(r.s)' < MaxTurns
    <3> SUFFICES ASSUME r.at = "start" PROVE Attempts(r.s)' < MaxTurns OBVIOUS
    <3>1. r.s \in Sessions /\ lock[r.s] = u /\ Attempts(r.s) < MaxTurns
      BY <1>1 DEF Holds, Carries, LockedPlaces
    <3>2. PICK s \in Sessions : s = r.s BY <3>1
    <3>3. Attempts(s)' \in {Attempts(s), 0} BY <3>1, <3>2
    <3>4. Attempts(s) \in Nat /\ MaxTurns \in Nat
      BY DEF Attempts, RunOf, Projected, GateProjections, RunRecords, GateAssumption
    <3>5. Attempts(s)' < MaxTurns BY <3>1, <3>2, <3>3, <3>4
    <3> QED BY <3>2, <3>5
  <2> QED BY <1>1, <2>1 DEF Carries
<1>4. Claims(u, r)'
  <2> SUFFICES ASSUME r.at \in {"claim", "tool", "spawn", "queue"} PROVE Claims(u, r)'
    BY DEF Claims
  <2>1. PICK s \in Sessions : s = r.s BY <1>1 DEF Holds
  <2>2. PICK c \in Calls : c = r.call /\ s = calls[c].home
    BY <1>1, <2>1 DEF Carries, CallPlaces
  <2>4. /\ r.at = "claim" => Execution(s, c) # u /\ Decided(s, c) = "allow"
        /\ r.at \in {"tool", "spawn", "queue"} => Execution(s, c) = u /\ Decided(s, c) = "allow"
        /\ r.at = "tool" => executed[c] = 0
        /\ r.at = "spawn" /\ linked = Nil => executed[c] = 0
    BY <1>1, <2>1, <2>2 DEF Claims
  <2>5. /\ r.at = "claim" => Execution(s, c)' # u /\ Decided(s, c)' = "allow"
        /\ r.at \in {"tool", "spawn", "queue"} => Execution(s, c)' = u /\ Decided(s, c)' = "allow"
        /\ r.at = "tool" => executed'[c] = 0
        /\ r.at = "spawn" /\ linked' = Nil => executed'[c] = 0
    BY <1>0, <2>2, <2>4
  <2> QED BY <2>1, <2>2, <2>5 DEF Claims
<1> QED BY <1>2, <1>3, <1>4 DEF Fits

\* A step that brings no new run, turn, call, claim or decision.
Still ==
    \A s \in Sessions :
        /\ Status(s)' # "absent" => Status(s) # "absent"
        /\ Attempts(s)' \in {Attempts(s), 0}
        /\ \A c \in Calls : /\ Execution(s, c)' = Execution(s, c)
                            /\ Decided(s, c)' = Decided(s, c)
                            /\ Emitted(s, c)' => Emitted(s, c)

QuietEvents ==
    {e \in GateEvents : e.type \notin {"run_queued", "run_started", "call_emitted",
        "execution_started", "permission_requested", "permission_resolved"}}

\* The log of s takes the events of B.
Logged(s, B) ==
    /\ Projected'
    /\ \A o \in Sessions : o # s => proj'[o] = proj[o]
    /\ Leads(proj[s], proj'[s], B)

LEMMA Appending ==
    ASSUME GateAssumption, Projected, NEW t, NEW s \in Sessions, NEW b, IsSeq(b),
           Elements(b) \subseteq GateEvents, NEW next, NEW otherwise,
           AppendMany(t, s, b, next, otherwise)
    PROVE  \/ Logged(s, Elements(b)) /\ thread' = [thread EXCEPT ![t] = next]
           \/ UNCHANGED proj /\ thread' = [thread EXCEPT ![t] = otherwise]
<1>1. PICK p : p = Appended(s, b) OBVIOUS
<1>2. CASE p.phase # "corrupt"
  <2>1. proj' = [proj EXCEPT ![s] = p] /\ thread' = [thread EXCEPT ![t] = next]
    BY <1>1, <1>2 DEF AppendMany
  <2>2. PICK a : a = proj[s] OBVIOUS
  <2>3. p = AfterEvents(a, b) /\ Sound(a) BY <1>1, <2>2 DEF Appended, Projected
  <2>4. Sound(p) /\ Leads(a, p, Elements(b)) BY <1>2, <2>3, GateBatch
  <2>5. /\ proj'[s] = p /\ \A o \in Sessions : o # s => proj'[o] = proj[o]
        /\ proj' \in [Sessions -> GateProjections]
    BY <2>1, <2>4 DEF Projected, Sound
  <2>6. Projected' BY <2>4, <2>5 DEF Projected
  <2> QED BY <2>1, <2>2, <2>4, <2>5, <2>6 DEF Logged
<1>3. CASE p.phase = "corrupt" BY <1>1, <1>3 DEF AppendMany
<1> QED BY <1>2, <1>3

LEMMA QuietLog ==
    ASSUME GateAssumption, Projected, NEW s \in Sessions, NEW B, B \subseteq QuietEvents, Logged(s, B)
    PROVE  Projected' /\ Still
<1>1. \A e \in B : e.type \notin {"run_queued", "run_started", "call_emitted",
        "execution_started", "permission_requested", "permission_resolved"}
  BY DEF QuietEvents
<1>2. Run \in Runs /\ \A c \in Calls : c \in Requests BY DEF GateAssumption
<1>3. ASSUME NEW o \in Sessions
      PROVE  /\ Status(o)' # "absent" => Status(o) # "absent"
             /\ Attempts(o)' \in {Attempts(o), 0}
             /\ \A c \in Calls : /\ Execution(o, c)' = Execution(o, c)
                                 /\ Decided(o, c)' = Decided(o, c)
                                 /\ Emitted(o, c)' => Emitted(o, c)
  <2> USE DEF Status, Attempts, Execution, Decided, Emitted, RunOf
  <2>1. CASE o # s BY <2>1 DEF Logged
  <2>2. CASE o = s
    <3>1. RunLeads(proj[o].runs[Run], proj'[o].runs[Run], B) BY <1>2, <2>2 DEF Logged, Leads
    <3>2. \A c \in Calls : RequestLeads(proj[o].requests[c], proj'[o].requests[c], B, c)
      BY <1>2, <2>2 DEF Logged, Leads
    <3>3. /\ Status(o)' # "absent" => Status(o) # "absent"
          /\ Attempts(o)' \in {Attempts(o), 0}
          /\ \A c \in Calls : /\ Execution(o, c)' = Execution(o, c)
                              /\ Emitted(o, c)' => Emitted(o, c)
      BY <1>1, <3>1 DEF RunLeads
    <3>4. \A c \in Calls : Decided(o, c)' = Decided(o, c) BY <1>1, <3>2 DEF RequestLeads
    <3> QED BY <3>3, <3>4
  <2> QED BY <2>1, <2>2
<1> QED BY <1>3 DEF Still, Logged

LEMMA Unlogged == Projected /\ UNCHANGED proj => Projected' /\ Still
BY DEF Projected, Still, Status, Attempts, Execution, Decided, Emitted, RunOf

\* An append of quiet events, taken or refused.
LEMMA QuietAppend ==
    ASSUME GateAssumption, Projected, NEW t, NEW s \in Sessions, NEW b, IsSeq(b),
           Elements(b) \subseteq QuietEvents, NEW next, NEW otherwise,
           AppendMany(t, s, b, next, otherwise)
    PROVE  /\ Projected' /\ Still
           /\ \/ thread' = [thread EXCEPT ![t] = next]
              \/ thread' = [thread EXCEPT ![t] = otherwise]
<1>1. Elements(b) \subseteq GateEvents BY DEF QuietEvents
<1>2. \/ Logged(s, Elements(b)) /\ thread' = [thread EXCEPT ![t] = next]
      \/ UNCHANGED proj /\ thread' = [thread EXCEPT ![t] = otherwise]
  BY <1>1, Appending
<1> QED BY <1>2, QuietLog, Unlogged

\* A thread's step, besides its own new state.
LEMMA StillAside ==
    ASSUME Typed, NEW u \in Threads, Still, UNCHANGED <<calls, linked, executed>>,
           \A s \in Sessions : lock[s] = u => lock'[s] = u
    PROVE  Aside(u)
BY DEF Still, Aside

LEMMA StillGlobals ==
    ASSUME GateAssumption, GateInv, Still, UNCHANGED <<calls, linked, executed>>
    PROVE  Turns' /\ AtHome' /\ Permitted' /\ Accounted' /\ ChildLinked'
<1> USE DEF GateInv, Still
<1>1. Turns' BY DEF Turns, GateAssumption
<1>2. AtHome' BY DEF AtHome
<1>3. Permitted' BY DEF Permitted, NotDenied
<1>4. Accounted'
  <2> SUFFICES ASSUME NEW c \in Calls, executed'[c] > 0
               PROVE  /\ executed'[c] = 1
                      /\ Execution(calls[c].home, c)' # Nil
                      /\ Decided(calls[c].home, c)' = "allow"
    BY DEF Accounted
  <2>1. PICK s \in Sessions : s = calls[c].home BY DEF Typed, Demands
  <2>2. executed[c] = 1 /\ Execution(s, c) # Nil /\ Decided(s, c) = "allow" BY <2>1 DEF Accounted
  <2>3. /\ Execution(calls[c].home, c)' = Execution(s, c)'
        /\ Decided(calls[c].home, c)' = Decided(s, c)'
    BY <2>1 DEF Execution, Decided, RunOf
  <2> QED BY <2>2, <2>3
<1>5. ChildLinked' BY DEF ChildLinked, Sessions
<1> QED BY <1>1, <1>2, <1>3, <1>4, <1>5

\* A step of t: the others are left as they are.
LEMMA OneStep ==
    ASSUME GateAssumption, GateInv, NEW t \in Threads, Typed', Projected',
           Turns' /\ AtHome' /\ Permitted' /\ Accounted' /\ ChildLinked',
           \A u \in Threads : u # t => thread'[u] = thread[u] /\ Aside(u),
           Fits(t, thread[t])'
    PROVE  GateInv'
<1>1. ASSUME NEW u \in Threads PROVE Fits(u, thread[u])'
  <2>1. CASE u = t BY <2>1
  <2>2. CASE u # t
    <3>1. PICK r : r = thread[u] OBVIOUS
    <3>2. r \in ThreadRecords /\ Fits(u, r) BY <3>1 DEF GateInv, Typed
    <3>3. Fits(u, r)' BY <2>2, <3>2, StaysFit DEF GateInv
    <3>4. thread'[u] = r BY <2>2, <3>1
    <3> QED BY <3>3, <3>4
  <2> QED BY <2>1, <2>2
<1> QED BY <1>1 DEF GateInv

\* A quiet step that leaves the mutexes of others alone.
LEMMA QuietStep ==
    ASSUME GateAssumption, GateInv, NEW t \in Threads, Typed', Projected', Still,
           UNCHANGED <<calls, linked, executed>>,
           \A u \in Threads : u # t => thread'[u] = thread[u],
           \A u \in Threads, s \in Sessions : u # t /\ lock[s] = u => lock'[s] = u,
           Fits(t, thread[t])'
    PROVE  GateInv'
<1>1. \A u \in Threads : u # t => thread'[u] = thread[u] /\ Aside(u)
  BY StillAside DEF GateInv
<1> QED BY <1>1, StillGlobals, OneStep

\* A quiet step to the record r, with every mutex as it was.
LEMMA QuietMove ==
    ASSUME GateAssumption, GateInv, NEW t \in Threads, Projected', Still,
           UNCHANGED <<calls, linked, executed, lock>>, disturbances' \subseteq AllDisturbances,
           rules' \subseteq {ToolName(c) : c \in Calls},
           woken' \in [Sessions -> BOOLEAN], token' \in [Sessions -> {"none", "live", "cancelled"}],
           NEW r \in ThreadRecords, thread' = [thread EXCEPT ![t] = r], Fits(t, r)
    PROVE  GateInv'
<1>1. /\ thread' \in [Threads -> ThreadRecords] /\ thread'[t] = r
      /\ \A u \in Threads : u # t => thread'[u] = thread[u]
  BY DEF GateInv, Typed
<1>2. rules' \subseteq {ToolName(c)' : c \in Calls} BY DEF ToolName
<1>3. Typed' BY <1>1, <1>2 DEF GateInv, Typed
<1>4. Aside(t) BY StillAside DEF GateInv
<1>5. Fits(t, r)' BY <1>4, StaysFit DEF GateInv
<1>6. Fits(t, thread[t])' BY <1>1, <1>5
<1> QED BY <1>1, <1>3, <1>6, QuietStep

-----------------------------------------------------------------------------
(* The events and the records that the actions use.                         *)

LEMMA QuietTypes ==
    ASSUME GateAssumption
    PROVE  /\ SessionCreated \in QuietEvents /\ SessionInterrupted \in QuietEvents
           /\ QueueResumed \in QuietEvents /\ RunRequiresAction(Run) \in QuietEvents
           /\ AgentSpawned(Agent) \in QuietEvents /\ AgentFinished(Agent, "result") \in QuietEvents
           /\ AgentResultDelivered(Agent, "result") \in QuietEvents
           /\ \A a, b \in Phases : PhaseChanged(a, b) \in QuietEvents
           /\ \A st \in Terminal : RunEnded(Run, st) \in QuietEvents
           /\ \A c \in Calls, v \in Values : ToolResult(Run, c, v) \in QuietEvents
<1>0. Run \in Runs /\ Agent \in Agents /\ "result" \in Values BY DEF GateAssumption
<1> USE <1>0 DEF QuietEvents, GateEvents
<1>1. SessionCreated \in QuietEvents BY DEF SessionCreated, GatePhaseEvents
<1>2. SessionInterrupted \in QuietEvents /\ QueueResumed \in QuietEvents
  BY DEF SessionInterrupted, QueueResumed, GatePhaseEvents, PhaseEvents
<1>3. RunRequiresAction(Run) \in QuietEvents BY DEF RunRequiresAction, GateRunEvents
<1>4. AgentSpawned(Agent) \in QuietEvents BY DEF AgentSpawned, AgentEvents
<1>5. AgentFinished(Agent, "result") \in QuietEvents BY DEF AgentFinished, AgentEvents
<1>6. AgentResultDelivered(Agent, "result") \in QuietEvents BY DEF AgentResultDelivered, AgentEvents
<1>7. \A a, b \in Phases : PhaseChanged(a, b) \in QuietEvents
  BY DEF PhaseChanged, GatePhaseEvents, PhaseEvents
<1>8. \A st \in Terminal : RunEnded(Run, st) \in QuietEvents BY DEF RunEnded, GateRunEvents
<1>9. \A c \in Calls, v \in Values : ToolResult(Run, c, v) \in QuietEvents
  BY DEF ToolResult, GateRunEvents
<1> QED BY <1>1, <1>2, <1>3, <1>4, <1>5, <1>6, <1>7, <1>8, <1>9

LEMMA NoThreadFits == ASSUME NEW t PROVE NoThread \in ThreadRecords /\ Fits(t, NoThread)
<1>1. NoThread \in ThreadRecords BY DEF NoThread, ThreadRecords, Places
<1>2. NoThread.at = "idle" /\ NoThread.nested = FALSE BY DEF NoThread
<1>3. "idle" \notin LockedPlaces /\ "idle" \notin CallPlaces BY DEF LockedPlaces, CallPlaces
<1>4. Holds(t, NoThread) BY <1>2, <1>3 DEF Holds
<1>5. Carries(t, NoThread) BY <1>2, <1>3 DEF Carries
<1>6. Claims(t, NoThread) BY <1>2 DEF Claims
<1> QED BY <1>1, <1>4, <1>5, <1>6 DEF Fits

\* Where a thread needs no more than, possibly, the mutex.
FreePlaces ==
    {"look", "execute", "phase", "evaluate", "pick", "resume", "paused", "deliver", "leave",
     "error"}

\* A thread stays in its session and goes on to another place.
LEMMA GoesOn ==
    ASSUME GateInv, NEW t \in Threads, thread[t].at # "idle", NEW r \in ThreadRecords,
           r.s = Of(t), r.nested = thread[t].nested,
           r.at \in FreePlaces \/ (r.at = "finish" /\ r.out \in Outcomes)
              \/ (r.at \in {"begin", "register", "permit"} /\ r.permits <= 1)
              \/ (r.at = "nested" /\ Of(t) = "child"),
           r.at \in LockedPlaces => lock[Of(t)] = t
    PROVE  Fits(t, r)
<1>1. Fits(t, thread[t]) BY DEF GateInv
<1>2. Holds(t, r) BY <1>1 DEF Fits, Holds, FreePlaces, Of
<1>3. Carries(t, r) BY DEF Carries, FreePlaces, CallPlaces
<1>4. Claims(t, r) BY DEF Claims, FreePlaces
<1> QED BY <1>2, <1>3, <1>4 DEF Fits

LEMMA ToRecord ==
    ASSUME GateInv, NEW t \in Threads, NEW at \in Places
    PROVE  /\ To(t, at) \in ThreadRecords
           /\ To(t, at).at = at /\ To(t, at).s = Of(t) /\ To(t, at).call = thread[t].call
           /\ To(t, at).out = thread[t].out /\ To(t, at).ready = thread[t].ready
           /\ To(t, at).nested = thread[t].nested /\ To(t, at).permits = thread[t].permits
<1>1. PICK r : r = thread[t] OBVIOUS
<1>2. r \in ThreadRecords BY <1>1 DEF GateInv, Typed
<1>3. PICK z : z = [r EXCEPT !.at = at] OBVIOUS
<1>4. /\ z \in ThreadRecords
      /\ z.at = at /\ z.s = r.s /\ z.call = r.call /\ z.out = r.out /\ z.ready = r.ready
      /\ z.nested = r.nested /\ z.permits = r.permits
  BY <1>2, <1>3 DEF ThreadRecords
<1>5. z = To(t, at) BY <1>1, <1>3 DEF To
<1> QED BY <1>1, <1>4, <1>5 DEF Of

LEMMA ToFits ==
    ASSUME GateInv, NEW t \in Threads, thread[t].at # "idle", NEW at \in FreePlaces,
           at \in LockedPlaces => lock[Of(t)] = t
    PROVE  To(t, at) \in ThreadRecords /\ Fits(t, To(t, at))
<1>1. at \in Places BY DEF FreePlaces, Places
<1>2. PICK r : r = To(t, at) OBVIOUS
<1>3. r \in ThreadRecords /\ r.at = at /\ r.s = Of(t) /\ r.nested = thread[t].nested
  BY <1>1, <1>2, ToRecord
<1> QED BY <1>2, <1>3, GoesOn

\* A run that is to be finished with the outcome o.
LEMMA FinishFits ==
    ASSUME GateInv, NEW t \in Threads, thread[t].at # "idle", lock[Of(t)] = t, NEW o \in Outcomes
    PROVE  LET r == [To(t, "finish") EXCEPT !.out = o] IN r \in ThreadRecords /\ Fits(t, r)
<1>1. PICK a : a = To(t, "finish") OBVIOUS
<1>2. "finish" \in Places BY DEF Places
<1>3. a \in ThreadRecords /\ a.at = "finish" /\ a.s = Of(t) /\ a.nested = thread[t].nested
  BY <1>1, <1>2, ToRecord
<1>4. PICK r : r = [a EXCEPT !.out = o] OBVIOUS
<1>5. /\ r \in ThreadRecords /\ r.at = "finish" /\ r.s = Of(t) /\ r.nested = thread[t].nested
      /\ r.out = o
  BY <1>3, <1>4 DEF ThreadRecords
<1>6. Fits(t, r) BY <1>5, GoesOn
<1> QED BY <1>1, <1>4, <1>5, <1>6

LEMMA BrokenFits ==
    ASSUME GateInv, NEW t \in Threads, thread[t].at # "idle"
    PROVE  Broken(t) \in ThreadRecords /\ Fits(t, Broken(t))
<1>1. CASE InProcess(t)
  <2>1. lock[Of(t)] = t BY <1>1 DEF InProcess
  <2>2. "failed" \in Outcomes BY DEF Outcomes
  <2> QED BY <1>1, <2>1, <2>2, FinishFits DEF Broken
<1>2. CASE ~InProcess(t) BY <1>2, NoThreadFits DEF Broken
<1> QED BY <1>1, <1>2

\* Where a thread has the mutex, and in which session it is.
LEMMA HasMutex ==
    ASSUME GateInv, NEW t \in Threads
    PROVE  /\ thread[t].at \in LockedPlaces => lock[Of(t)] = t
           /\ thread[t].at # "idle" => Of(t) \in Sessions
BY DEF GateInv, Fits, Holds, Of

\* An append of quiet events, as the whole of a step of t.
LEMMA QuietAction ==
    ASSUME GateAssumption, GateInv, NEW t \in Threads, NEW s \in Sessions,
           NEW b, IsSeq(b), Elements(b) \subseteq QuietEvents,
           NEW next \in ThreadRecords, Fits(t, next), NEW otherwise \in ThreadRecords, Fits(t, otherwise),
           AppendMany(t, s, b, next, otherwise),
           UNCHANGED <<fixed, linked, rules, lock, executed>>,
           woken' \in [Sessions -> BOOLEAN], token' \in [Sessions -> {"none", "live", "cancelled"}]
    PROVE  GateInv'
<1>0. Projected BY DEF GateInv
<1>1. /\ Projected' /\ Still
      /\ thread' = [thread EXCEPT ![t] = next] \/ thread' = [thread EXCEPT ![t] = otherwise]
  BY <1>0, QuietAppend
<1>2. /\ disturbances' \subseteq AllDisturbances /\ rules' \subseteq {ToolName(c) : c \in Calls}
      /\ UNCHANGED <<calls, linked, executed, lock>>
  BY DEF GateInv, Typed, fixed
<1>3. CASE thread' = [thread EXCEPT ![t] = next] BY <1>1, <1>2, <1>3, QuietMove
<1>4. CASE thread' = [thread EXCEPT ![t] = otherwise] BY <1>1, <1>2, <1>4, QuietMove
<1> QED BY <1>1, <1>3, <1>4

LEMMA QuietEvent ==
    ASSUME GateAssumption, GateInv, NEW t \in Threads, NEW s \in Sessions, NEW e \in QuietEvents,
           NEW next \in ThreadRecords, Fits(t, next), NEW otherwise \in ThreadRecords, Fits(t, otherwise),
           AppendMany(t, s, <<e>>, next, otherwise),
           UNCHANGED <<fixed, linked, rules, lock, executed>>,
           woken' \in [Sessions -> BOOLEAN], token' \in [Sessions -> {"none", "live", "cancelled"}]
    PROVE  GateInv'
<1>1. IsSeq(<<e>>) /\ Elements(<<e>>) \subseteq QuietEvents BY ElementsOne
<1> QED BY <1>1, QuietAction

\* The same for a step that leaves the log alone.
LEMMA QuietGo ==
    ASSUME GateAssumption, GateInv, NEW t \in Threads,
           NEW next \in ThreadRecords, Fits(t, next), thread' = [thread EXCEPT ![t] = next],
           UNCHANGED <<fixed, proj, linked, rules, lock, executed>>,
           woken' \in [Sessions -> BOOLEAN], token' \in [Sessions -> {"none", "live", "cancelled"}]
    PROVE  GateInv'
<1>1. Projected' /\ Still BY Unlogged DEF GateInv
<1>2. /\ disturbances' \subseteq AllDisturbances /\ rules' \subseteq {ToolName(c) : c \in Calls}
      /\ UNCHANGED <<calls, linked, executed, lock>>
  BY DEF GateInv, Typed, fixed
<1> QED BY <1>1, <1>2, QuietMove

LEMMA SideTyped ==
    ASSUME GateInv
    PROVE  /\ UNCHANGED woken => woken' \in [Sessions -> BOOLEAN]
           /\ UNCHANGED token => token' \in [Sessions -> {"none", "live", "cancelled"}]
           /\ \A s \in Sessions, v \in {"none", "live", "cancelled"} :
                 [token EXCEPT ![s] = v] \in [Sessions -> {"none", "live", "cancelled"}]
           /\ \A s \in Sessions : [woken EXCEPT ![s] = TRUE] \in [Sessions -> BOOLEAN]
<1>1. woken \in [Sessions -> BOOLEAN] /\ token \in [Sessions -> {"none", "live", "cancelled"}]
  BY DEF GateInv, Typed
<1>2. \A s \in Sessions : [woken EXCEPT ![s] = TRUE] \in [Sessions -> BOOLEAN]
  BY <1>1, Zenon
<1> QED BY <1>1, <1>2

-----------------------------------------------------------------------------
(* The steps of process_session.                                            *)

\* A thread that takes or gives back a mutex.
LEMMA MutexStep ==
    ASSUME GateAssumption, GateInv, NEW t \in Threads, NEW r \in ThreadRecords,
           thread' = [thread EXCEPT ![t] = r], lock' \in [Sessions -> Threads \cup {Nobody}],
           \A s \in Sessions : lock'[s] = lock[s] \/ lock[s] \notin Threads \/ lock[s] = t,
           UNCHANGED <<fixed, proj, linked, rules, token, executed>>,
           woken' \in [Sessions -> BOOLEAN],
           r.at \in FreePlaces \cup {"idle"}, Holds(t, r)'
    PROVE  GateInv'
<1>1. /\ thread' \in [Threads -> ThreadRecords] /\ thread'[t] = r
      /\ \A u \in Threads : u # t => thread'[u] = thread[u]
  BY DEF GateInv, Typed
<1>2. {ToolName(c)' : c \in Calls} = {ToolName(c) : c \in Calls} BY DEF ToolName, fixed
<1>3. Typed' BY <1>1, <1>2 DEF GateInv, Typed, fixed
<1>4. Projected' /\ Still BY Unlogged DEF GateInv
<1>5. \A u \in Threads, s \in Sessions : u # t /\ lock[s] = u => lock'[s] = u OBVIOUS
<1>6. Carries(t, r)' BY DEF Carries, FreePlaces, CallPlaces
<1>7. Claims(t, r)' BY DEF Claims, FreePlaces
<1>8. Fits(t, r)' BY <1>6, <1>7 DEF Fits
<1>9. Fits(t, thread[t])' BY <1>1, <1>8
<1>10. UNCHANGED <<calls, linked, executed>> BY DEF fixed
<1> QED BY <1>1, <1>3, <1>4, <1>5, <1>9, <1>10, QuietStep

LEMMA EnterOK == ASSUME GateAssumption, GateInv, NEW t \in Threads, Enter(t) PROVE GateInv'
<1> USE DEF Enter
<1>1. t \in Sessions /\ thread[t].at = "idle" /\ lock[t] = Nobody BY DEF At
<1>2. PICK r : r = [thread[t] EXCEPT !.at = "look", !.s = t] OBVIOUS
<1>3. thread[t] \in ThreadRecords /\ lock \in [Sessions -> Threads \cup {Nobody}] BY DEF GateInv, Typed
<1>4. ~thread[t].nested BY <1>1 DEF GateInv, Fits, Holds
<1>5. /\ r \in ThreadRecords /\ r.at = "look" /\ r.s = t /\ r.nested = thread[t].nested
  BY <1>1, <1>2, <1>3 DEF ThreadRecords, Places
<1>6. thread' = [thread EXCEPT ![t] = r] BY <1>2, <1>3
<1>7. lock' \in [Sessions -> Threads \cup {Nobody}] /\ lock'[t] = t BY <1>1, <1>3
<1>8. \A s \in Sessions : lock'[s] = lock[s] \/ lock[s] \notin Threads \/ lock[s] = t
  BY <1>1, <1>3 DEF GateAssumption
<1>9. Holds(t, r)' BY <1>1, <1>4, <1>5, <1>7 DEF Holds
<1>10. woken' \in [Sessions -> BOOLEAN]
  <2>1. woken \in [Sessions -> BOOLEAN] BY DEF GateInv, Typed
  <2>2. woken' = [woken EXCEPT ![t] = FALSE] OBVIOUS
  <2> QED BY <2>1, <2>2, Zenon
<1>11. "look" \in FreePlaces BY DEF FreePlaces
<1> QED BY <1>5, <1>6, <1>7, <1>8, <1>9, <1>10, <1>11, MutexStep

LEMMA EnterParentOK == ASSUME GateAssumption, GateInv, NEW t \in Threads, EnterParent(t) PROVE GateInv'
<1> USE DEF EnterParent
<1>1. thread[t].at = "nested" /\ lock["parent"] = Nobody BY DEF At
<1>2. PICK r : r = [thread[t] EXCEPT !.at = "look", !.s = "parent", !.nested = TRUE] OBVIOUS
<1>3. thread[t] \in ThreadRecords /\ lock \in [Sessions -> Threads \cup {Nobody}] BY DEF GateInv, Typed
<1>4. /\ thread[t].s = "child" /\ (t \in Sessions => lock[t] = t)
      /\ (t \in Sessions => t = "child")
  BY <1>1 DEF GateInv, Fits, Holds
<1>5. r \in ThreadRecords /\ r.at = "look" /\ r.s = "parent"
  BY <1>2, <1>3 DEF ThreadRecords, Places, Sessions
<1>a. r.nested = TRUE BY <1>2, <1>3 DEF ThreadRecords
<1>6. thread' = [thread EXCEPT ![t] = r] BY <1>2, <1>3
<1>7. /\ lock' \in [Sessions -> Threads \cup {Nobody}] /\ lock'["parent"] = t
      /\ \A s \in Sessions : s # "parent" => lock'[s] = lock[s]
  BY <1>3 DEF Sessions
<1>8. \A s \in Sessions : lock'[s] = lock[s] \/ lock[s] \notin Threads \/ lock[s] = t
  BY <1>1, <1>7 DEF GateAssumption
<1>9. Holds(t, r)'
  <2>1. t \in Sessions => lock'[t] = t BY <1>4, <1>7
  <2>2. t # "parent" BY <1>4 DEF Sessions
  <2>3. "parent" \in Sessions BY DEF Sessions
  <2> QED BY <1>5, <1>a, <1>7, <2>1, <2>2, <2>3 DEF Holds
<1>10. woken' \in [Sessions -> BOOLEAN] BY SideTyped
<1>11. "look" \in FreePlaces BY DEF FreePlaces
<1> QED BY <1>5, <1>6, <1>7, <1>8, <1>9, <1>10, <1>11, MutexStep

LEMMA LeaveOK == ASSUME GateAssumption, GateInv, NEW t \in Threads, Leave(t) PROVE GateInv'
<1> USE DEF Leave
<1>1. thread[t].at = "leave" /\ Of(t) \in Sessions /\ lock[Of(t)] = t
  BY HasMutex DEF At, LockedPlaces
<1>3. thread[t] \in ThreadRecords /\ lock \in [Sessions -> Threads \cup {Nobody}] BY DEF GateInv, Typed
<1>4. /\ thread[t].nested => Of(t) = "parent" /\ t # "parent"
      /\ t \in Sessions => lock[t] = t
  BY <1>1 DEF GateInv, Fits, Holds, Of
<1>7. lock' \in [Sessions -> Threads \cup {Nobody}] /\ \A s \in Sessions : s # Of(t) => lock'[s] = lock[s]
  BY <1>1, <1>3
<1>8. \A s \in Sessions : lock'[s] = lock[s] \/ lock[s] \notin Threads \/ lock[s] = t
  BY <1>1, <1>7
<1>9. woken' \in [Sessions -> BOOLEAN] BY SideTyped
<1>10. CASE thread[t].nested /\ t \in Sessions
  <2>1. PICK r : r = [NoThread EXCEPT !.at = "look", !.s = t] OBVIOUS
  <2>2. thread' = [thread EXCEPT ![t] = r] BY <1>10, <2>1
  <2>3. r \in ThreadRecords /\ r.at = "look" /\ r.s = t
    <3>1. PICK z : z = NoThread OBVIOUS
    <3>2. z \in ThreadRecords BY <3>1, NoThreadFits
    <3>3. r = [z EXCEPT !.at = "look", !.s = t] BY <2>1, <3>1
    <3> QED BY <1>10, <3>2, <3>3 DEF ThreadRecords, Places
  <2>4. r.nested = FALSE BY <2>1 DEF NoThread
  <2>5. lock'[t] = t BY <1>4, <1>7, <1>10
  <2>6. Holds(t, r)' BY <1>10, <2>3, <2>4, <2>5 DEF Holds
  <2>7. "look" \in FreePlaces BY DEF FreePlaces
  <2> QED BY <1>7, <1>8, <1>9, <2>2, <2>3, <2>6, <2>7, MutexStep
<1>11. CASE ~(thread[t].nested /\ t \in Sessions)
  <2>1. PICK r : r = NoThread OBVIOUS
  <2>2. thread' = [thread EXCEPT ![t] = r] BY <1>11, <2>1
  <2>3. r \in ThreadRecords /\ r.at = "idle" /\ r.nested = FALSE
    BY <2>1, NoThreadFits DEF NoThread
  <2>6. Holds(t, r)' BY <2>3 DEF Holds, LockedPlaces
  <2> QED BY <1>7, <1>8, <1>9, <2>2, <2>3, <2>6, MutexStep
<1> QED BY <1>10, <1>11

LEMMA AbandonOK == ASSUME GateAssumption, GateInv, NEW t \in Threads, Abandon(t) PROVE GateInv'
<1> USE DEF Abandon
<1>1. lock \in [Sessions -> Threads \cup {Nobody}] BY DEF GateInv, Typed
<1>2. PICK r : r = NoThread OBVIOUS
<1>3. thread' = [thread EXCEPT ![t] = r] BY <1>2 DEF Finish
<1>4. r \in ThreadRecords /\ r.at = "idle" /\ r.nested = FALSE
  BY <1>2, NoThreadFits DEF NoThread
<1>5. /\ lock' \in [Sessions -> Threads \cup {Nobody}]
      /\ \A s \in Sessions : lock'[s] = lock[s] \/ lock[s] = t
  BY <1>1 DEF Unlocked
<1>6. Holds(t, r)' BY <1>4 DEF Holds, LockedPlaces
<1>7. woken' \in [Sessions -> BOOLEAN] BY SideTyped
<1> QED BY <1>3, <1>4, <1>5, <1>6, <1>7, MutexStep

\* The record with which the top of the loop goes on to `at`.
LookRecord(t, at) ==
    [[thread[t] EXCEPT !.out = Nil,
                       !.permits = IF thread[t].nested /\ t \in Sessions THEN 1 ELSE 0] EXCEPT !.at = at]

LEMMA LookFits ==
    ASSUME GateInv, NEW t \in Threads, thread[t].at = "look",
           NEW at \in {"leave", "error", "look", "begin", "start"},
           at = "start" => Attempts(Of(t)) < MaxTurns
    PROVE  LookRecord(t, at) \in ThreadRecords /\ Fits(t, LookRecord(t, at))
<1>1. PICK a : a = thread[t] OBVIOUS
<1>2. a \in ThreadRecords BY <1>1 DEF GateInv, Typed
<1>3. PICK n \in 0..1 : n = IF thread[t].nested /\ t \in Sessions THEN 1 ELSE 0 OBVIOUS
<1>a. PICK b : b = [a EXCEPT !.out = Nil, !.permits = n] OBVIOUS
<1>b. b \in ThreadRecords /\ b.s = a.s /\ b.nested = a.nested /\ b.permits = n
  <2>1. n \in 0..2 OBVIOUS
  <2>2. PICK d : d = [a EXCEPT !.out = Nil] OBVIOUS
  <2>3. d \in ThreadRecords /\ d.s = a.s /\ d.nested = a.nested BY <1>2, <2>2 DEF ThreadRecords
  <2>4. b = [d EXCEPT !.permits = n] BY <1>2, <1>a, <2>2 DEF ThreadRecords
  <2> QED BY <2>1, <2>3, <2>4 DEF ThreadRecords
<1>4. PICK r : r = [b EXCEPT !.at = at] OBVIOUS
<1>5. /\ r \in ThreadRecords /\ r.at = at /\ r.s = a.s /\ r.nested = a.nested /\ r.permits = n
  <2>1. at \in Places BY DEF Places
  <2> QED BY <1>b, <1>4, <2>1 DEF ThreadRecords
<1>6. r = LookRecord(t, at) BY <1>1, <1>3, <1>4, <1>a, Zenon DEF LookRecord
<1>7. lock[Of(t)] = t BY HasMutex DEF LockedPlaces
<1>8. Fits(t, r)
  <2>1. CASE at # "start"
    <3>1. r.at \in FreePlaces \/ (r.at \in {"begin", "register", "permit"} /\ r.permits <= 1)
      BY <1>5, <2>1 DEF FreePlaces
    <3> QED BY <1>1, <1>5, <1>7, <3>1, GoesOn DEF Of
  <2>2. CASE at = "start"
    <3>1. Holds(t, a) BY <1>1 DEF GateInv, Fits
    <3>2. Holds(t, r) BY <1>1, <1>5, <1>7, <2>2, <3>1 DEF Holds, Of
    <3>3. Carries(t, r) BY <1>1, <1>5, <2>2 DEF Carries, CallPlaces, Of
    <3>4. Claims(t, r) BY <1>5, <2>2 DEF Claims
    <3> QED BY <3>2, <3>3, <3>4 DEF Fits
  <2> QED BY <2>1, <2>2
<1> QED BY <1>5, <1>6, <1>8

LEMMA LookOK == ASSUME GateAssumption, GateInv, NEW t \in Threads, Look(t) PROVE GateInv'
<1>1. thread[t].at = "look" BY DEF Look, At
<1>2. PICK s \in Sessions : s = Of(t) BY <1>1, HasMutex
<1>3. UNCHANGED <<fixed, linked, rules, lock, woken, token, executed>> BY DEF Look
<1>4. PICK ph \in Phases : ph = proj[s].phase BY DEF GateInv, Projected, GateProjections
<1>5. \/ thread' = [thread EXCEPT ![t] = LookRecord(t, "leave")] /\ UNCHANGED proj
      \/ AppendMany(t, s, <<RunEnded(Run, "failed")>>, LookRecord(t, "look"), LookRecord(t, "error"))
      \/ /\ RunOf(s).attempts < MaxTurns
         /\ AppendMany(t, s, <<QueueResumed>>, LookRecord(t, "start"), LookRecord(t, "error"))
      \/ thread' = [thread EXCEPT ![t] = LookRecord(t, "begin")] /\ UNCHANGED proj
      \/ AppendMany(t, s, <<PhaseChanged(ph, "running")>>, LookRecord(t, "begin"), LookRecord(t, "error"))
      \/ AppendMany(t, s, <<PhaseChanged("running", "finished")>>, LookRecord(t, "leave"),
                    LookRecord(t, "error"))
  BY <1>2, <1>4, Zenon DEF Look, LookRecord
<1>6. /\ woken' \in [Sessions -> BOOLEAN]
      /\ token' \in [Sessions -> {"none", "live", "cancelled"}]
  BY <1>3, SideTyped
<1>7. \A at \in {"leave", "error", "look", "begin"} :
         LookRecord(t, at) \in ThreadRecords /\ Fits(t, LookRecord(t, at))
  BY <1>1, LookFits
<1>8. PICK bad : bad = LookRecord(t, "error") OBVIOUS
<1>9. bad \in ThreadRecords /\ Fits(t, bad) BY <1>7, <1>8
<1>10. /\ RunEnded(Run, "failed") \in QuietEvents /\ QueueResumed \in QuietEvents
       /\ PhaseChanged(ph, "running") \in QuietEvents
       /\ PhaseChanged("running", "finished") \in QuietEvents
  BY QuietTypes DEF Terminal, Phases
<1>11. CASE thread' = [thread EXCEPT ![t] = LookRecord(t, "leave")] /\ UNCHANGED proj
  BY <1>3, <1>6, <1>7, <1>11, QuietGo
<1>12. CASE AppendMany(t, s, <<RunEnded(Run, "failed")>>, LookRecord(t, "look"), LookRecord(t, "error"))
  <2>1. PICK r : r = LookRecord(t, "look") OBVIOUS
  <2> QED BY <1>3, <1>6, <1>7, <1>8, <1>9, <1>10, <1>12, <2>1, QuietEvent
<1>13. CASE /\ RunOf(s).attempts < MaxTurns
            /\ AppendMany(t, s, <<QueueResumed>>, LookRecord(t, "start"), LookRecord(t, "error"))
  <2>1. PICK r : r = LookRecord(t, "start") OBVIOUS
  <2>2. r \in ThreadRecords /\ Fits(t, r) BY <1>1, <1>2, <1>13, <2>1, LookFits DEF Attempts
  <2> QED BY <1>3, <1>6, <1>8, <1>9, <1>10, <1>13, <2>1, <2>2, QuietEvent
<1>14. CASE thread' = [thread EXCEPT ![t] = LookRecord(t, "begin")] /\ UNCHANGED proj
  BY <1>3, <1>6, <1>7, <1>14, QuietGo
<1>15. CASE AppendMany(t, s, <<PhaseChanged(ph, "running")>>, LookRecord(t, "begin"),
                       LookRecord(t, "error"))
  <2>1. PICK r : r = LookRecord(t, "begin") OBVIOUS
  <2> QED BY <1>3, <1>6, <1>7, <1>8, <1>9, <1>10, <1>15, <2>1, QuietEvent
<1>16. CASE AppendMany(t, s, <<PhaseChanged("running", "finished")>>, LookRecord(t, "leave"),
                       LookRecord(t, "error"))
  <2>1. PICK r : r = LookRecord(t, "leave") OBVIOUS
  <2> QED BY <1>3, <1>6, <1>7, <1>8, <1>9, <1>10, <1>16, <2>1, QuietEvent
<1> QED BY <1>5, <1>11, <1>12, <1>13, <1>14, <1>15, <1>16

LEMMA GotoTo ==
    ASSUME GateInv, NEW t \in Threads, NEW at, Goto(t, at)
    PROVE  thread' = [thread EXCEPT ![t] = To(t, at)]
BY DEF Goto, To, GateInv, Typed

LEMMA PermitFits ==
    ASSUME GateInv, NEW t \in Threads, thread[t].at # "idle", thread[t].permits <= 1,
           NEW at \in {"begin", "register", "permit"}, lock[Of(t)] = t
    PROVE  To(t, at) \in ThreadRecords /\ Fits(t, To(t, at))
<1>1. at \in Places BY DEF Places
<1>2. PICK r : r = To(t, at) OBVIOUS
<1>3. /\ r \in ThreadRecords /\ r.at = at /\ r.s = Of(t) /\ r.nested = thread[t].nested
      /\ r.permits = thread[t].permits
  BY <1>1, <1>2, ToRecord
<1> QED BY <1>2, <1>3, GoesOn

LEMMA RegisterOK == ASSUME GateAssumption, GateInv, NEW t \in Threads, Register(t) PROVE GateInv'
<1> USE DEF Register
<1>1. thread[t].at = "register" BY DEF At
<1>2. PICK s \in Sessions : s = Of(t) /\ lock[s] = t BY <1>1, HasMutex DEF LockedPlaces
<1>3. thread[t].permits <= 1 BY <1>1 DEF GateInv, Fits, Carries
<1>4. PICK r : r = To(t, "permit") OBVIOUS
<1>5. r \in ThreadRecords /\ Fits(t, r) BY <1>1, <1>2, <1>3, <1>4, PermitFits
<1>6. thread' = [thread EXCEPT ![t] = r] BY <1>4, GotoTo
<1>7. /\ woken' \in [Sessions -> BOOLEAN]
      /\ token' \in [Sessions -> {"none", "live", "cancelled"}]
  BY <1>2, SideTyped
<1> QED BY <1>5, <1>6, <1>7, QuietGo

LEMMA AcquirePermitOK ==
    ASSUME GateAssumption, GateInv, NEW t \in Threads, AcquirePermit(t) PROVE GateInv'
<1> USE DEF AcquirePermit
<1>1. thread[t].at = "permit" BY DEF At
<1>2. PICK s \in Sessions : s = Of(t) /\ lock[s] = t BY <1>1, HasMutex DEF LockedPlaces
<1>3. thread[t].permits <= 1 BY <1>1 DEF GateInv, Fits, Carries
<1>4. PICK a : a = thread[t] OBVIOUS
<1>5. a \in ThreadRecords BY <1>4 DEF GateInv, Typed
<1>6. PICK n : n = a.permits + 1 OBVIOUS
<1>7. n \in 0..2
  <2>1. a.permits \in 0..2 BY <1>5 DEF ThreadRecords
  <2> QED BY <1>3, <1>4, <1>6, <2>1
<1>8. PICK r : r = [a EXCEPT !.at = "execute", !.permits = n] OBVIOUS
<1>9. r \in ThreadRecords /\ r.at = "execute" /\ r.s = a.s /\ r.nested = a.nested
  <2>1. PICK d : d = [a EXCEPT !.at = "execute"] OBVIOUS
  <2>2. d \in ThreadRecords /\ d.at = "execute" /\ d.s = a.s /\ d.nested = a.nested
    BY <1>5, <2>1 DEF ThreadRecords, Places
  <2>3. r = [d EXCEPT !.permits = n] BY <1>5, <1>8, <2>1 DEF ThreadRecords
  <2> QED BY <1>7, <2>2, <2>3 DEF ThreadRecords
<1>10. Fits(t, r) BY <1>1, <1>2, <1>4, <1>9, GoesOn DEF FreePlaces, Of
<1>11. thread' = [thread EXCEPT ![t] = r]
  <2>1. thread \in [Threads -> ThreadRecords] BY DEF GateInv, Typed
  <2>2. thread' = [thread EXCEPT ![t].at = "execute", ![t].permits = n] BY <1>4, <1>6, <2>1
  <2> QED BY <1>4, <1>8, <2>1, <2>2
<1>12. /\ woken' \in [Sessions -> BOOLEAN]
       /\ token' \in [Sessions -> {"none", "live", "cancelled"}]
  BY SideTyped
<1> QED BY <1>9, <1>10, <1>11, <1>12, QuietGo

LEMMA FinishRunOK ==
    ASSUME GateAssumption, GateInv, NEW t \in Threads, FinishRun(t) PROVE GateInv'
<1> USE DEF FinishRun
<1>1. thread[t].at = "finish" BY DEF At
<1>2. PICK s \in Sessions : s = Of(t) /\ lock[s] = t BY <1>1, HasMutex DEF LockedPlaces
<1>3. PICK out \in Outcomes : out = thread[t].out BY <1>1 DEF GateInv, Fits, Carries
<1>4. /\ woken' \in [Sessions -> BOOLEAN]
      /\ token' \in [Sessions -> {"none", "live", "cancelled"}]
  BY SideTyped
<1>5. \A at \in {"evaluate", "deliver", "phase", "error"} :
         To(t, at) \in ThreadRecords /\ Fits(t, To(t, at))
  BY <1>1, <1>2, ToFits DEF FreePlaces
<1>6. UNCHANGED <<fixed, linked, rules, lock, executed>> OBVIOUS
<1>7. CASE out = "calls"
  <2>1. PICK a : a = thread[t] OBVIOUS
  <2>2. PICK failed : failed = [a EXCEPT !.out = "failed"] OBVIOUS
  <2>3. a \in ThreadRecords BY <2>1 DEF GateInv, Typed
  <2>4. /\ failed \in ThreadRecords /\ failed.at = "finish" /\ failed.s = a.s
        /\ failed.nested = a.nested /\ failed.out \in Outcomes
    BY <1>1, <2>1, <2>2, <2>3 DEF ThreadRecords, Outcomes
  <2>5. Fits(t, failed) BY <1>1, <1>2, <2>1, <2>4, GoesOn DEF Of
  <2>6. PICK next : next = To(t, "evaluate") OBVIOUS
  <2>7. next \in ThreadRecords /\ Fits(t, next) BY <1>5, <2>6
  <2>8. AppendMany(t, s, <<RunRequiresAction(Run)>>, next, failed)
    BY <1>2, <1>3, <1>7, <2>1, <2>2, <2>6
  <2>9. RunRequiresAction(Run) \in QuietEvents BY QuietTypes
  <2> QED BY <1>4, <1>6, <2>4, <2>5, <2>7, <2>8, <2>9, QuietEvent
<1>8. CASE out # "calls"
  <2>1. PICK at \in {"deliver", "phase"} : at = IF out = "completed" THEN "deliver" ELSE "phase"
    OBVIOUS
  <2>2. PICK next : next = To(t, at) OBVIOUS
  <2>3. PICK bad : bad = To(t, "error") OBVIOUS
  <2>4. /\ next \in ThreadRecords /\ Fits(t, next)
        /\ bad \in ThreadRecords /\ Fits(t, bad)
    BY <1>5, <2>2, <2>3
  <2>5. AppendMany(t, s, <<RunEnded(Run, out)>>, next, bad)
    BY <1>2, <1>3, <1>8, <2>1, <2>2, <2>3
  <2>6. RunEnded(Run, out) \in QuietEvents BY <1>8, QuietTypes DEF Outcomes, Terminal
  <2> QED BY <1>4, <1>6, <2>4, <2>5, <2>6, QuietEvent
<1> QED BY <1>7, <1>8

LEMMA FinishPhaseOK ==
    ASSUME GateAssumption, GateInv, NEW t \in Threads, FinishPhase(t) PROVE GateInv'
<1> USE DEF FinishPhase
<1>1. thread[t].at = "phase" BY DEF At
<1>2. PICK s \in Sessions : s = Of(t) BY <1>1, HasMutex
<1>3. PICK to \in Phases : to = IF thread[t].out = "failed" THEN "failed" ELSE "interrupted"
  BY DEF Phases
<1>4. /\ woken' \in [Sessions -> BOOLEAN]
      /\ token' \in [Sessions -> {"none", "live", "cancelled"}]
  BY SideTyped
<1>5. PICK next : next = To(t, "deliver") OBVIOUS
<1>6. PICK bad : bad = To(t, "error") OBVIOUS
<1>7. /\ next \in ThreadRecords /\ Fits(t, next)
      /\ bad \in ThreadRecords /\ Fits(t, bad)
  BY <1>1, <1>5, <1>6, ToFits DEF FreePlaces, LockedPlaces
<1>8. PhaseChanged("running", to) \in QuietEvents BY QuietTypes DEF Phases
<1>9. AppendMany(t, s, <<PhaseChanged("running", to)>>, next, bad)
  BY <1>2, <1>3, <1>5, <1>6
<1> QED BY <1>4, <1>7, <1>8, <1>9, QuietEvent

LEMMA PickOK == ASSUME GateAssumption, GateInv, NEW t \in Threads, Pick(t) PROVE GateInv'
<1> USE DEF Pick
<1>1. thread[t].at = "pick" BY DEF At
<1>2. PICK s \in Sessions : s = Of(t) BY <1>1, HasMutex
<1>3. /\ woken' \in [Sessions -> BOOLEAN]
      /\ token' \in [Sessions -> {"none", "live", "cancelled"}]
  BY SideTyped
<1>4. UNCHANGED <<fixed, proj, linked, rules, lock, executed>> OBVIOUS
<1>5. CASE Goto(t, "resume")
  <2>1. PICK next : next = To(t, "resume") OBVIOUS
  <2>2. next \in ThreadRecords /\ Fits(t, next) BY <1>1, <2>1, ToFits DEF FreePlaces, LockedPlaces
  <2>3. thread' = [thread EXCEPT ![t] = next] BY <1>5, <2>1, GotoTo
  <2> QED BY <1>3, <1>4, <2>2, <2>3, QuietGo
<1>6. ASSUME NEW c \in Executable(s), thread' = [thread EXCEPT ![t].at = "claim", ![t].call = c]
      PROVE  GateInv'
  <2>1. /\ c \in Calls /\ Emitted(s, c) /\ Execution(s, c) = Nil /\ Decided(s, c) = "allow"
    BY <1>6 DEF Executable, Open, Emitted, Execution, Decided
  <2>2. calls[c].home = s BY <2>1 DEF GateInv, AtHome
  <2>3. PICK a : a = thread[t] OBVIOUS
  <2>4. a \in ThreadRecords BY <2>3 DEF GateInv, Typed
  <2>5. PICK r : r = [a EXCEPT !.at = "claim", !.call = c] OBVIOUS
  <2>6. /\ r \in ThreadRecords /\ r.at = "claim" /\ r.s = a.s /\ r.nested = a.nested
        /\ r.call = c
    BY <2>1, <2>4, <2>5 DEF ThreadRecords, Places
  <2>7. t # Nil BY DEF GateAssumption
  <2>8. Holds(t, a) BY <2>3 DEF GateInv, Fits
  <2>9. Holds(t, r) BY <1>1, <2>3, <2>6, <2>8 DEF Holds, LockedPlaces
  <2>10. r.s = s BY <1>2, <2>3, <2>6 DEF Of
  <2>11. Carries(t, r) BY <2>1, <2>2, <2>6, <2>10 DEF Carries, CallPlaces
  <2>12. Claims(t, r) BY <2>1, <2>6, <2>7, <2>10 DEF Claims
  <2>13. Fits(t, r) BY <2>9, <2>11, <2>12 DEF Fits
  <2>14. thread' = [thread EXCEPT ![t] = r]
    BY <1>6, <2>3, <2>5 DEF GateInv, Typed
  <2> QED BY <1>3, <1>4, <2>6, <2>13, <2>14, QuietGo
<1> QED BY <1>2, <1>5, <1>6

LEMMA CallOf ==
    ASSUME GateInv, NEW t \in Threads, thread[t].at \in CallPlaces
    PROVE  thread[t].call \in Calls /\ Of(t) \in Sessions /\ Of(t) = calls[thread[t].call].home
<1>1. thread[t].call \in Calls /\ thread[t].s = calls[thread[t].call].home
  BY DEF GateInv, Fits, Carries
<1>2. thread[t].s \in Sessions BY DEF GateInv, Fits, Holds, CallPlaces
<1> QED BY <1>1, <1>2 DEF Of

\* The call of a thread is answered, by its output or a refusal.
LEMMA AnswerOK ==
    ASSUME GateAssumption, GateInv, NEW t \in Threads, thread[t].at \in CallPlaces,
           NEW v \in {"output", "rejected"},
           AppendMany(t, Of(t), <<ToolResult(Run, thread[t].call, v)>>, To(t, "pick"), Broken(t)),
           UNCHANGED <<fixed, linked, rules, lock, woken, token, executed>>
    PROVE  GateInv'
<1>1. PICK c \in Calls : c = thread[t].call BY CallOf
<1>2. PICK s \in Sessions : s = Of(t) BY CallOf
<1>3. PICK next : next = To(t, "pick") OBVIOUS
<1>4. PICK bad : bad = Broken(t) OBVIOUS
<1>5. thread[t].at # "idle" BY DEF CallPlaces
<1>6. /\ next \in ThreadRecords /\ Fits(t, next)
      /\ bad \in ThreadRecords /\ Fits(t, bad)
  BY <1>3, <1>4, <1>5, ToFits, BrokenFits DEF FreePlaces, LockedPlaces
<1>7. v \in Values BY DEF GateAssumption
<1>8. ToolResult(Run, c, v) \in QuietEvents BY <1>7, QuietTypes
<1>9. /\ woken' \in [Sessions -> BOOLEAN]
      /\ token' \in [Sessions -> {"none", "live", "cancelled"}]
  BY SideTyped
<1>10. AppendMany(t, s, <<ToolResult(Run, c, v)>>, next, bad) BY <1>1, <1>2, <1>3, <1>4
<1> QED BY <1>6, <1>8, <1>9, <1>10, QuietEvent

LEMMA AppendOutputOK ==
    ASSUME GateAssumption, GateInv, NEW t \in Threads, AppendOutput(t) PROVE GateInv'
BY AnswerOK DEF AppendOutput, At, CallPlaces

LEMMA RejectDelegationOK ==
    ASSUME GateAssumption, GateInv, NEW t \in Threads, RejectDelegation(t) PROVE GateInv'
BY AnswerOK DEF RejectDelegation, At, CallPlaces

LEMMA ResumeOK == ASSUME GateAssumption, GateInv, NEW t \in Threads, Resume(t) PROVE GateInv'
<1> USE DEF Resume
<1>1. thread[t].at = "resume" BY DEF At
<1>2. PICK s \in Sessions : s = Of(t) BY <1>1, HasMutex
<1>3. PICK next : next = IF InProcess(t) THEN To(t, "paused") ELSE NoThread OBVIOUS
<1>4. next \in ThreadRecords /\ Fits(t, next)
  BY <1>1, <1>3, ToFits, NoThreadFits DEF InProcess, FreePlaces
<1>5. /\ woken' \in [Sessions -> BOOLEAN]
      /\ token' \in [Sessions -> {"none", "live", "cancelled"}]
  BY <1>2, SideTyped
<1>6. UNCHANGED <<fixed, linked, rules, lock, executed>> OBVIOUS
<1>7. \/ AppendMany(t, s, <<QueueResumed>>, next, next)
      \/ thread' = [thread EXCEPT ![t] = next] /\ UNCHANGED proj
  BY <1>2, <1>3
<1>8. QueueResumed \in QuietEvents BY QuietTypes
<1>9. CASE AppendMany(t, s, <<QueueResumed>>, next, next)
  BY <1>4, <1>5, <1>6, <1>8, <1>9, QuietEvent
<1>10. CASE thread' = [thread EXCEPT ![t] = next] /\ UNCHANGED proj
  BY <1>4, <1>5, <1>6, <1>10, QuietGo
<1> QED BY <1>7, <1>9, <1>10

LEMMA PauseOK == ASSUME GateAssumption, GateInv, NEW t \in Threads, Pause(t) PROVE GateInv'
<1> USE DEF Pause
<1>1. thread[t].at = "paused" BY DEF At
<1>2. PICK s \in Sessions : s = Of(t) BY <1>1, HasMutex
<1>3. PICK next : next = To(t, "deliver") OBVIOUS
<1>4. PICK bad : bad = To(t, "error") OBVIOUS
<1>5. /\ next \in ThreadRecords /\ Fits(t, next)
      /\ bad \in ThreadRecords /\ Fits(t, bad)
  BY <1>1, <1>3, <1>4, ToFits DEF FreePlaces, LockedPlaces
<1>6. PhaseChanged("running", "interrupted") \in QuietEvents BY QuietTypes DEF Phases
<1>7. /\ woken' \in [Sessions -> BOOLEAN]
      /\ token' \in [Sessions -> {"none", "live", "cancelled"}]
  BY SideTyped
<1>8. AppendMany(t, s, <<PhaseChanged("running", "interrupted")>>, next, bad) BY <1>2, <1>3, <1>4
<1> QED BY <1>5, <1>6, <1>7, <1>8, QuietEvent

-----------------------------------------------------------------------------
(* The result of a child.                                                   *)

LEMMA DeliveredFits ==
    ASSUME GateInv, NEW t \in Threads, thread[t].at # "idle"
    PROVE  Delivered(t) \in ThreadRecords /\ Fits(t, Delivered(t))
<1>1. CASE InProcess(t) BY <1>1, ToFits DEF InProcess, FreePlaces, Delivered
<1>2. CASE ~InProcess(t) BY <1>2, NoThreadFits DEF Delivered
<1> QED BY <1>1, <1>2

\* A thread of the child that is about to tell the parent.
LEMMA TellFits ==
    ASSUME GateInv, NEW t \in Threads, thread[t].at # "idle", Of(t) = "child", linked # Nil,
           NEW r \in ThreadRecords, r.s = Of(t), r.nested = thread[t].nested, r.at \in {"parent", "answer"}
    PROVE  Fits(t, r)
<1>1. Fits(t, thread[t]) BY DEF GateInv
<1>2. Holds(t, r) BY <1>1 DEF Fits, Holds, LockedPlaces, Of
<1>3. Carries(t, r) BY DEF Carries, CallPlaces
<1>4. Claims(t, r) BY DEF Claims
<1> QED BY <1>2, <1>3, <1>4 DEF Fits

LEMMA DeliverOK == ASSUME GateAssumption, GateInv, NEW t \in Threads, Deliver(t) PROVE GateInv'
<1> USE DEF Deliver
<1>1. thread[t].at = "deliver" BY DEF At
<1>2. Of(t) \in Sessions BY <1>1, HasMutex
<1>3. /\ woken' \in [Sessions -> BOOLEAN]
      /\ token' \in [Sessions -> {"none", "live", "cancelled"}]
  BY SideTyped
<1>4. UNCHANGED <<fixed, linked, rules, lock, executed>> OBVIOUS
<1>5. CASE Of(t) = "parent" \/ Status("child") \notin Terminal
  <2>1. PICK next : next = Delivered(t) OBVIOUS
  <2>2. next \in ThreadRecords /\ Fits(t, next) BY <1>1, <2>1, DeliveredFits
  <2>3. thread' = [thread EXCEPT ![t] = next] /\ UNCHANGED proj BY <1>5, <2>1
  <2> QED BY <1>3, <1>4, <2>2, <2>3, QuietGo
<1>6. CASE ~(Of(t) = "parent" \/ Status("child") \notin Terminal)
  <2>1. Of(t) = "child" BY <1>2, <1>6 DEF Sessions
  <2>2. linked # Nil BY <1>6 DEF GateInv, ChildLinked, Terminal
  <2>3. PICK next : next = To(t, "parent") OBVIOUS
  <2>4. "parent" \in Places BY DEF Places
  <2>5. next \in ThreadRecords /\ next.at = "parent" /\ next.s = Of(t) /\ next.nested = thread[t].nested
    BY <2>3, <2>4, ToRecord
  <2>6. Fits(t, next) BY <1>1, <2>1, <2>2, <2>5, TellFits
  <2>7. PICK bad : bad = To(t, "error") OBVIOUS
  <2>8. bad \in ThreadRecords /\ Fits(t, bad) BY <1>1, <2>7, ToFits DEF FreePlaces, LockedPlaces
  <2>9. AgentFinished(Agent, "result") \in QuietEvents BY QuietTypes
  <2>10. \/ AppendMany(t, "child", <<AgentFinished(Agent, "result")>>, next, bad)
         \/ Goto(t, "parent") /\ UNCHANGED proj
    BY <1>6, <2>3, <2>7
  <2>11. CASE AppendMany(t, "child", <<AgentFinished(Agent, "result")>>, next, bad)
    <3>1. "child" \in Sessions BY DEF Sessions
    <3> QED BY <1>3, <1>4, <2>5, <2>6, <2>8, <2>9, <2>11, <3>1, QuietEvent
  <2>12. CASE Goto(t, "parent") /\ UNCHANGED proj
    <3>1. thread' = [thread EXCEPT ![t] = next] BY <2>3, <2>12, GotoTo
    <3> QED BY <1>3, <1>4, <2>5, <2>6, <2>12, <3>1, QuietGo
  <2> QED BY <2>10, <2>11, <2>12
<1> QED BY <1>5, <1>6

LEMMA ReadParentOK == ASSUME GateAssumption, GateInv, NEW t \in Threads, ReadParent(t) PROVE GateInv'
<1> USE DEF ReadParent
<1>1. thread[t].at = "parent" BY DEF At
<1>2. Of(t) = "child" /\ linked # Nil BY <1>1 DEF GateInv, Fits, Holds, Carries, Of
<1>3. /\ woken' \in [Sessions -> BOOLEAN]
      /\ token' \in [Sessions -> {"none", "live", "cancelled"}]
  BY SideTyped
<1>4. CASE proj["parent"].agents[Agent].result # Nil
  <2>1. PICK next : next = Delivered(t) OBVIOUS
  <2>2. next \in ThreadRecords /\ Fits(t, next) BY <1>1, <2>1, DeliveredFits
  <2>3. thread' = [thread EXCEPT ![t] = next] BY <1>4, <2>1
  <2> QED BY <1>3, <2>2, <2>3, QuietGo
<1>5. CASE proj["parent"].agents[Agent].result = Nil
  <2>1. PICK a : a = thread[t] OBVIOUS
  <2>2. a \in ThreadRecords BY <2>1 DEF GateInv, Typed
  <2>3. PICK v \in BOOLEAN : v = (Open("parent") \subseteq {linked})
    <3>1. (Open("parent") \subseteq {linked}) \in BOOLEAN BY Zenon
    <3> QED BY <3>1
  <2>4. PICK d : d = [a EXCEPT !.at = "answer"] OBVIOUS
  <2>5. d \in ThreadRecords /\ d.at = "answer" /\ d.s = a.s /\ d.nested = a.nested
    BY <2>2, <2>4 DEF ThreadRecords, Places
  <2>6. PICK r : r = [d EXCEPT !.ready = v] OBVIOUS
  <2>7. r \in ThreadRecords /\ r.at = "answer" /\ r.s = a.s /\ r.nested = a.nested
    BY <2>5, <2>6 DEF ThreadRecords
  <2>8. [a EXCEPT !.at = "answer", !.ready = v] = r
    BY <2>2, <2>4, <2>6 DEF ThreadRecords
  <2>9. Fits(t, r) BY <1>1, <1>2, <2>1, <2>7, TellFits DEF Of
  <2>10. thread' = [thread EXCEPT ![t] = r]
    <3>1. thread \in [Threads -> ThreadRecords] BY DEF GateInv, Typed
    <3>2. thread' = [thread EXCEPT ![t] =
                        [thread[t] EXCEPT !.at = "answer", !.ready = Open("parent") \subseteq {linked}]]
      BY <1>5, <3>1
    <3>3. [thread[t] EXCEPT !.at = "answer", !.ready = Open("parent") \subseteq {linked}] = r
      BY <2>1, <2>3, <2>8, Zenon
    <3> QED BY <3>2, <3>3, Zenon
  <2> QED BY <1>3, <2>7, <2>9, <2>10, QuietGo
<1> QED BY <1>4, <1>5

LEMMA AnswerParentOK ==
    ASSUME GateAssumption, GateInv, NEW t \in Threads, AnswerParent(t) PROVE GateInv'
<1> USE DEF AnswerParent
<1>1. thread[t].at = "answer" BY DEF At
<1>2. Of(t) = "child" /\ linked # Nil BY <1>1 DEF GateInv, Fits, Holds, Carries, Of
<1>3. linked \in Calls BY <1>2 DEF GateInv, Typed
<1>4. /\ woken' \in [Sessions -> BOOLEAN]
      /\ token' \in [Sessions -> {"none", "live", "cancelled"}]
  BY SideTyped
<1>5. PICK next : next = IF thread[t].ready THEN To(t, "nested") ELSE Delivered(t) OBVIOUS
<1>6. next \in ThreadRecords /\ Fits(t, next)
  <2>1. CASE thread[t].ready
    <3>1. "nested" \in Places BY DEF Places
    <3>2. next = To(t, "nested") BY <1>5, <2>1
    <3>3. next \in ThreadRecords /\ next.at = "nested" /\ next.s = Of(t) /\ next.nested = thread[t].nested
      BY <3>1, <3>2, ToRecord
    <3>4. "nested" \notin LockedPlaces BY DEF LockedPlaces
    <3> QED BY <1>1, <1>2, <3>3, <3>4, GoesOn
  <2>2. CASE ~thread[t].ready BY <1>1, <1>5, <2>2, DeliveredFits
  <2> QED BY <2>1, <2>2
<1>7. PICK bad : bad = To(t, "error") OBVIOUS
<1>8. bad \in ThreadRecords /\ Fits(t, bad) BY <1>1, <1>7, ToFits DEF FreePlaces, LockedPlaces
<1>9. PICK x : x = AgentFinished(Agent, "result") OBVIOUS
<1>10. PICK y : y = AgentResultDelivered(Agent, "result") OBVIOUS
<1>11. PICK z : z = ToolResult(Run, linked, "result") OBVIOUS
<1>12. PICK resumed : resumed = IF thread[t].ready THEN <<QueueResumed>> ELSE <<>> OBVIOUS
<1>13. IsSeq(resumed) /\ Elements(resumed) \subseteq QuietEvents
  BY <1>12, ElementsOne, ElementsNone, QuietTypes
<1>14. {x, y, z} \subseteq QuietEvents
  <2>1. "result" \in Values BY DEF GateAssumption
  <2> QED BY <1>3, <1>9, <1>10, <1>11, <2>1, QuietTypes
<1>15. IsSeq(<<x, y, z>>) /\ Elements(<<x, y, z>>) = {x, y, z} BY ElementsThree
<1>16. PICK b : b = <<x, y, z>> \o resumed OBVIOUS
<1>17. IsSeq(b) /\ Elements(b) \subseteq QuietEvents
  BY <1>13, <1>14, <1>15, <1>16, ElementsConcat
<1>18. AppendMany(t, "parent", b, next, bad) BY <1>5, <1>7, <1>9, <1>10, <1>11, <1>12, <1>16
<1>19. "parent" \in Sessions BY DEF Sessions
<1> QED BY <1>4, <1>6, <1>8, <1>17, <1>18, <1>19, QuietAction

-----------------------------------------------------------------------------
(* Requests.                                                                *)

LEMMA BeginsIdle ==
    ASSUME GateAssumption, NEW h, MayBegin(h)
    PROVE  h \in Handlers /\ h \in Threads /\ h \notin Sessions /\ thread[h].at = "idle"
<1>1. h \in Handlers /\ At(h, "idle") BY DEF MayBegin
<1> QED BY <1>1 DEF GateAssumption, Threads, At

\* The record of a request that has begun.
Answers == {Nil, "allow", "deny"}
BeginRecord(at, s, c, out) == [NoThread EXCEPT !.at = at, !.s = s, !.call = c, !.out = out]

LEMMA BeginIs ==
    ASSUME NEW at \in Places, NEW s \in Sessions, NEW c \in Calls \cup {Nil},
           NEW out, out \in Answers, NEW r, r = BeginRecord(at, s, c, out)
    PROVE  /\ r \in ThreadRecords /\ r.at = at /\ r.s = s /\ r.call = c /\ r.out = out
           /\ ~r.nested
<1>1. PICK z : z = NoThread OBVIOUS
<1>2. z \in ThreadRecords /\ z.nested = FALSE BY <1>1, NoThreadFits DEF NoThread
<1>3. r = [z EXCEPT !.at = at, !.s = s, !.call = c, !.out = out] BY <1>1 DEF BeginRecord
<1>4. PICK a : a = [z EXCEPT !.at = at, !.s = s] OBVIOUS
<1>5. a \in ThreadRecords /\ a.at = at /\ a.s = s /\ a.nested = FALSE
  BY <1>2, <1>4 DEF ThreadRecords
<1>6. PICK b : b = [a EXCEPT !.call = c] OBVIOUS
<1>7. b \in ThreadRecords /\ b.at = at /\ b.s = s /\ b.nested = FALSE /\ b.call = c
  BY <1>5, <1>6 DEF ThreadRecords
<1>8. PICK d : d = [b EXCEPT !.out = out] OBVIOUS
<1>9. d \in ThreadRecords /\ d.at = at /\ d.s = s /\ d.nested = FALSE /\ d.call = c /\ d.out = out
  BY <1>7, <1>8 DEF ThreadRecords, Answers
<1>10. r = d BY <1>2, <1>3, <1>4, <1>6, <1>8 DEF ThreadRecords
<1> QED BY <1>9, <1>10

LEMMA ResolvePermissionOK ==
    ASSUME GateAssumption, GateInv, NEW h, NEW c \in Calls, NEW decision \in {"allow", "deny"},
           NEW always \in BOOLEAN, ResolvePermission(h, c, decision, always)
    PROVE  GateInv'
<1> USE DEF ResolvePermission
<1>1. h \in Threads /\ h \notin Sessions /\ thread[h].at = "idle" BY BeginsIdle
<1>2. PICK s \in Sessions : s = calls[c].home BY DEF GateInv, Typed, Demands
<1>3. PICK r : r = BeginRecord("resolve", s, c, decision) OBVIOUS
<1>4. PICK at \in Places, k \in Calls \cup {Nil}, o \in Answers :
         at = "resolve" /\ k = c /\ o = decision /\ r = BeginRecord(at, s, k, o)
  BY <1>3 DEF Places, Answers
<1>5. /\ r \in ThreadRecords /\ r.at = "resolve" /\ r.s = s /\ r.call = c /\ r.out = decision
      /\ ~r.nested
  BY <1>4, BeginIs
<1>6. Holds(h, r) BY <1>1, <1>5 DEF Holds, LockedPlaces
<1>7. Carries(h, r) BY <1>2, <1>5 DEF Carries
<1>8. Claims(h, r) BY <1>5 DEF Claims
<1>9. thread' = [thread EXCEPT ![h] = r] BY <1>2, <1>3 DEF Begin, BeginRecord
<1>10. rules' \subseteq {ToolName(d) : d \in Calls} BY DEF GateInv, Typed
<1>11. Projected' /\ Still BY Unlogged DEF GateInv
<1>12. /\ disturbances' \subseteq AllDisturbances /\ UNCHANGED <<calls, linked, executed, lock>>
  BY DEF GateInv, Typed, fixed
<1>13. /\ woken' \in [Sessions -> BOOLEAN]
       /\ token' \in [Sessions -> {"none", "live", "cancelled"}]
  BY SideTyped
<1>14. Fits(h, r) BY <1>6, <1>7, <1>8 DEF Fits
<1> QED BY <1>1, <1>5, <1>9, <1>10, <1>11, <1>12, <1>13, <1>14, QuietMove

\* A request that cancels the run of s.
LEMMA CancelFits ==
    ASSUME GateInv, NEW h \in Threads, h \notin Sessions, NEW s \in Sessions
    PROVE  LET r == BeginRecord("cancel", s, Nil, Nil) IN r \in ThreadRecords /\ Fits(h, r)
<1>1. PICK r : r = BeginRecord("cancel", s, Nil, Nil) OBVIOUS
<1>2. PICK at \in Places, c \in Calls \cup {Nil}, o \in Answers :
         at = "cancel" /\ r = BeginRecord(at, s, c, o)
  BY <1>1 DEF Places, Answers
<1>3. r \in ThreadRecords /\ r.at = "cancel" /\ r.s = s /\ ~r.nested
  BY <1>2, BeginIs
<1>4. Holds(h, r) BY <1>3 DEF Holds, LockedPlaces
<1>5. Carries(h, r) BY <1>3 DEF Carries, CallPlaces
<1>6. Claims(h, r) BY <1>3 DEF Claims
<1> QED BY <1>1, <1>3, <1>4, <1>5, <1>6 DEF Fits

LEMMA CancelOK ==
    ASSUME GateAssumption, GateInv, NEW h, NEW s \in Sessions, Cancel(h, s)
    PROVE  GateInv'
<1> USE DEF Cancel
<1>1. h \in Threads /\ h \notin Sessions BY BeginsIdle
<1>2. PICK r : r = BeginRecord("cancel", s, Nil, Nil) OBVIOUS
<1>3. r \in ThreadRecords /\ Fits(h, r) BY <1>1, <1>2, CancelFits
<1>4. thread' = [thread EXCEPT ![h] = r] BY <1>2 DEF Begin, BeginRecord
<1>5. /\ woken' \in [Sessions -> BOOLEAN]
      /\ token' \in [Sessions -> {"none", "live", "cancelled"}]
  BY SideTyped
<1> QED BY <1>1, <1>3, <1>4, <1>5, QuietGo

LEMMA CancelRunningOK ==
    ASSUME GateAssumption, GateInv, NEW h, NEW s \in Sessions, CancelRunning(h, s)
    PROVE  GateInv'
<1> USE DEF CancelRunning
<1>1. h \in Threads BY BeginsIdle
<1>2. PICK r : r = thread[h] OBVIOUS
<1>3. r \in ThreadRecords /\ Fits(h, r) BY <1>1, <1>2 DEF GateInv, Typed
<1>4. thread' = [thread EXCEPT ![h] = r] BY <1>2 DEF GateInv, Typed
<1>5. /\ woken' \in [Sessions -> BOOLEAN]
      /\ token' \in [Sessions -> {"none", "live", "cancelled"}]
  BY SideTyped
<1> QED BY <1>1, <1>3, <1>4, <1>5, QuietGo

LEMMA CancelWaitingOK ==
    ASSUME GateAssumption, GateInv, NEW h \in Threads, CancelWaiting(h) PROVE GateInv'
<1> USE DEF CancelWaiting
<1>1. thread[h].at = "cancel" BY DEF At
<1>2. PICK s \in Sessions : s = Of(h) BY <1>1, HasMutex
<1>3. Holds(h, thread[h]) /\ h \notin Sessions BY <1>1 DEF GateInv, Fits, Holds
<1>4. PICK at \in {"deliver", "cancel_child"} :
         at = IF s = "parent" /\ linked # Nil THEN "cancel_child" ELSE "deliver"
  OBVIOUS
<1>5. PICK next : next = To(h, at) OBVIOUS
<1>6. at \in Places BY DEF Places
<1>7. next \in ThreadRecords /\ next.at = at /\ next.s = s /\ next.nested = thread[h].nested
  BY <1>2, <1>5, <1>6, ToRecord
<1>8. Holds(h, next) BY <1>1, <1>2, <1>3, <1>7 DEF Holds, LockedPlaces, Of
<1>9. Carries(h, next) BY <1>7 DEF Carries, CallPlaces
<1>10. Claims(h, next) BY <1>7 DEF Claims
<1>11. Fits(h, next) BY <1>8, <1>9, <1>10 DEF Fits
<1>12. PICK none : none = NoThread OBVIOUS
<1>13. none \in ThreadRecords /\ Fits(h, none) BY <1>12, NoThreadFits
<1>14. RunEnded(Run, "cancelled") \in QuietEvents BY QuietTypes DEF Terminal
<1>15. /\ woken' \in [Sessions -> BOOLEAN]
       /\ token' \in [Sessions -> {"none", "live", "cancelled"}]
  BY SideTyped
<1>16. AppendMany(h, s, <<RunEnded(Run, "cancelled")>>, next, none)
  BY <1>2, <1>4, <1>5, <1>12
<1> QED BY <1>7, <1>11, <1>13, <1>14, <1>15, <1>16, QuietEvent

LEMMA CancelChildOK ==
    ASSUME GateAssumption, GateInv, NEW h \in Threads, CancelChild(h) PROVE GateInv'
<1> USE DEF CancelChild
<1>1. thread[h].at = "cancel_child" BY DEF At
<1>2. h \notin Sessions BY <1>1 DEF GateInv, Fits, Holds
<1>3. "child" \in Sessions BY DEF Sessions
<1>4. PICK r : /\ r \in {BeginRecord("cancel", "child", Nil, Nil), NoThread}
               /\ thread' = [thread EXCEPT ![h] = r]
  BY DEF Begin, Finish, BeginRecord
<1>5. r \in ThreadRecords /\ Fits(h, r) BY <1>2, <1>3, <1>4, CancelFits, NoThreadFits
<1>6. /\ woken' \in [Sessions -> BOOLEAN]
      /\ token' \in [Sessions -> {"none", "live", "cancelled"}]
  BY <1>3, SideTyped
<1> QED BY <1>4, <1>5, <1>6, QuietGo

LEMMA SubmitToolResultOK ==
    ASSUME GateAssumption, GateInv, NEW h, NEW c \in Calls, SubmitToolResult(h, c)
    PROVE  GateInv'
<1> USE DEF SubmitToolResult
<1>1. h \in Threads /\ h \notin Sessions /\ thread[h].at = "idle" BY BeginsIdle
<1>2. PICK s \in Sessions : s = calls[c].home BY DEF GateInv, Typed, Demands
<1>3. lock[s] = Nobody /\ lock' = [lock EXCEPT ![s] = h] BY <1>2
<1>4. PICK v \in BOOLEAN : v = (Open(s) \subseteq {c})
  <2>1. (Open(s) \subseteq {c}) \in BOOLEAN BY Zenon
  <2> QED BY <2>1
<1>5. PICK z : z = NoThread OBVIOUS
<1>6. z \in ThreadRecords /\ ~z.nested BY <1>5, NoThreadFits DEF NoThread
<1>7. PICK a : a = [z EXCEPT !.at = "submit", !.s = s, !.call = c] OBVIOUS
<1>8. a \in ThreadRecords /\ a.at = "submit" /\ a.s = s /\ a.call = c /\ ~a.nested
  BY <1>6, <1>7 DEF ThreadRecords, Places
<1>9. PICK r : r = [a EXCEPT !.ready = v] OBVIOUS
<1>10. r \in ThreadRecords /\ r.at = "submit" /\ r.s = s /\ r.call = c /\ ~r.nested
  BY <1>8, <1>9 DEF ThreadRecords
<1>11. thread' = [thread EXCEPT ![h] = r]
  <2>1. [z EXCEPT !.at = "submit", !.s = s, !.call = c, !.ready = v] = r
    BY <1>6, <1>7, <1>9 DEF ThreadRecords
  <2>2. thread' = [thread EXCEPT ![h] = [NoThread EXCEPT !.at = "submit", !.s = s, !.call = c,
                                                         !.ready = Open(s) \subseteq {c}]]
    BY <1>2, Zenon
  <2>3. [NoThread EXCEPT !.at = "submit", !.s = s, !.call = c, !.ready = Open(s) \subseteq {c}] = r
    BY <1>4, <1>5, <2>1, Zenon
  <2> QED BY <2>2, <2>3, Zenon
<1>12. /\ thread' \in [Threads -> ThreadRecords] /\ thread'[h] = r
       /\ \A u \in Threads : u # h => thread'[u] = thread[u]
  BY <1>1, <1>10, <1>11 DEF GateInv, Typed
<1>13. /\ lock' \in [Sessions -> Threads \cup {Nobody}] /\ lock'[s] = h
       /\ \A o \in Sessions : o # s => lock'[o] = lock[o]
  BY <1>1, <1>3 DEF GateInv, Typed
<1>14. {ToolName(d)' : d \in Calls} = {ToolName(d) : d \in Calls} BY DEF ToolName, fixed
<1>15. Typed' BY <1>12, <1>13, <1>14 DEF GateInv, Typed, fixed
<1>16. Projected' /\ Still BY Unlogged DEF GateInv
<1>17. \A u \in Threads, o \in Sessions : u # h /\ lock[o] = u => lock'[o] = u
  BY <1>3, <1>13 DEF GateAssumption
<1>18. calls' = calls BY DEF fixed
<1>19. Holds(h, r)' BY <1>1, <1>10, <1>13 DEF Holds
<1>20. Carries(h, r)' BY <1>2, <1>10, <1>18 DEF Carries
<1>21. Claims(h, r)' BY <1>10 DEF Claims
<1>22. Fits(h, r)' BY <1>19, <1>20, <1>21 DEF Fits
<1>23. Fits(h, thread[h])' BY <1>12, <1>22
<1>24. UNCHANGED <<calls, linked, executed>> BY DEF fixed
<1> QED BY <1>1, <1>12, <1>15, <1>16, <1>17, <1>23, <1>24, QuietStep

LEMMA SubmitOK == ASSUME GateAssumption, GateInv, NEW h \in Threads, Submit(h) PROVE GateInv'
<1> USE DEF Submit
<1>1. thread[h].at = "submit" BY DEF At
<1>2. PICK s \in Sessions : s = Of(h) /\ lock[s] = h BY <1>1, HasMutex DEF LockedPlaces
<1>3. PICK c \in Calls : c = thread[h].call BY <1>1, CallOf DEF CallPlaces
<1>4. PICK x : x = ToolResult(Run, c, "output") OBVIOUS
<1>5. PICK resumed : resumed = IF thread[h].ready THEN <<QueueResumed>> ELSE <<>> OBVIOUS
<1>6. x \in QuietEvents
  <2>1. "output" \in Values BY DEF GateAssumption
  <2> QED BY <1>4, <2>1, QuietTypes
<1>7. IsSeq(resumed) /\ Elements(resumed) \subseteq QuietEvents
  BY <1>5, ElementsOne, ElementsNone, QuietTypes
<1>8. PICK b : b = <<x>> \o resumed OBVIOUS
<1>9. IsSeq(b) /\ Elements(b) \subseteq QuietEvents
  BY <1>6, <1>7, <1>8, ElementsOne, ElementsConcat
<1>10. PICK r : r = NoThread OBVIOUS
<1>11. r \in ThreadRecords /\ r.at = "idle" /\ ~r.nested BY <1>10, NoThreadFits DEF NoThread
<1>12. AppendMany(h, s, b, r, r) BY <1>2, <1>3, <1>4, <1>5, <1>8, <1>10
<1>13. Projected BY DEF GateInv
<1>14. Projected' /\ Still /\ thread' = [thread EXCEPT ![h] = r]
  BY <1>9, <1>12, <1>13, QuietAppend
<1>15. /\ thread' \in [Threads -> ThreadRecords] /\ thread'[h] = r
       /\ \A u \in Threads : u # h => thread'[u] = thread[u]
  BY <1>11, <1>14 DEF GateInv, Typed
<1>16. /\ lock' \in [Sessions -> Threads \cup {Nobody}]
       /\ \A o \in Sessions : o # s => lock'[o] = lock[o]
  BY <1>2 DEF GateInv, Typed
<1>17. woken' \in [Sessions -> BOOLEAN]
  <2>1. woken' = [woken EXCEPT ![s] = TRUE] \/ woken' = woken BY <1>2
  <2> QED BY <2>1, SideTyped
<1>18. {ToolName(d)' : d \in Calls} = {ToolName(d) : d \in Calls} BY DEF ToolName, fixed
<1>19. Typed' BY <1>15, <1>16, <1>17, <1>18 DEF GateInv, Typed, fixed
<1>20. \A u \in Threads, o \in Sessions : u # h /\ lock[o] = u => lock'[o] = u
  BY <1>2, <1>16
<1>21. Fits(h, r)'
  <2>1. Holds(h, r)' BY <1>11 DEF Holds, LockedPlaces
  <2>2. Carries(h, r)' BY <1>11 DEF Carries, CallPlaces
  <2>3. Claims(h, r)' BY <1>11 DEF Claims
  <2> QED BY <2>1, <2>2, <2>3 DEF Fits
<1>22. Fits(h, thread[h])' BY <1>15, <1>21
<1>23. UNCHANGED <<calls, linked, executed>> BY DEF fixed
<1> QED BY <1>14, <1>15, <1>19, <1>20, <1>22, <1>23, QuietStep

-----------------------------------------------------------------------------
(* Steps that bring a run, a turn, a call, a claim or a decision.           *)

\* What the events of B may bring to the session s in a step of t.
Brings(t, s, B) ==
    /\ \A e \in B : e.type = "run_queued" => s = "child" /\ linked # Nil
    /\ \A e \in B : e.type = "run_started" =>
          lock[s] = t /\ e.attempt \in (0..MaxTurns) \cup {1}
    /\ \A e \in B : e.type = "call_emitted" => calls[e.call].home = s
    /\ \A e \in B : e.type = "execution_started" => e.value = t

LEMMA LogGlobals ==
    ASSUME GateAssumption, GateInv, NEW t \in Threads, NEW s \in Sessions, NEW B,
           Logged(s, B), Brings(t, s, B), UNCHANGED <<calls, linked, executed>>
    PROVE  Turns' /\ AtHome' /\ Accounted' /\ ChildLinked'
<1>0. Run \in Runs /\ Calls = Requests BY DEF GateAssumption
<1>1. /\ RunLeads(proj[s].runs[Run], proj'[s].runs[Run], B)
      /\ \A c \in Calls : RequestLeads(proj[s].requests[c], proj'[s].requests[c], B, c)
      /\ \A o \in Sessions : o # s => proj'[o] = proj[o]
  BY <1>0 DEF Logged, Leads
<1>2. Turns'
  <2> SUFFICES ASSUME NEW o \in Sessions PROVE Attempts(o)' \in (0..MaxTurns) \cup {1} BY DEF Turns
  <2>1. Attempts(o) \in (0..MaxTurns) \cup {1} BY DEF GateInv, Turns
  <2>2. CASE o # s BY <1>1, <2>1, <2>2 DEF Attempts, RunOf
  <2>3. CASE o = s
    <3>1. Attempts(s)' \in {Attempts(s), 0} \/ \E e \in B : e.type = "run_started" /\ e.attempt = Attempts(s)'
      BY <1>1 DEF RunLeads, Attempts, RunOf
    <3>2. 0 \in 0..MaxTurns BY DEF GateAssumption
    <3> QED BY <2>1, <2>3, <3>1, <3>2 DEF Brings
  <2> QED BY <2>2, <2>3
<1>3. AtHome'
  <2> SUFFICES ASSUME NEW o \in Sessions, NEW c \in Calls, Emitted(o, c)' PROVE calls[c].home = o
    BY DEF AtHome
  <2>1. Emitted(o, c) => calls[c].home = o BY DEF GateInv, AtHome
  <2>2. CASE o # s BY <1>1, <2>1, <2>2 DEF Emitted, RunOf
  <2>3. CASE o = s
    <3>1. Emitted(s, c) \/ \E e \in B : e.type = "call_emitted" /\ e.call = c
      BY <1>1, <2>3 DEF RunLeads, Emitted, RunOf
    <3> QED BY <2>1, <2>3, <3>1 DEF Brings
  <2> QED BY <2>2, <2>3
<1>4. Accounted'
  <2> SUFFICES ASSUME NEW c \in Calls, executed[c] > 0
               PROVE  /\ executed[c] = 1
                      /\ Execution(calls[c].home, c)' # Nil
                      /\ Decided(calls[c].home, c)' = "allow"
    BY DEF Accounted
  <2>1. PICK o \in Sessions : o = calls[c].home BY DEF GateInv, Typed, Demands
  <2>2. executed[c] = 1 /\ Execution(o, c) # Nil /\ Decided(o, c) = "allow"
    BY <2>1 DEF GateInv, Accounted
  <2>3. Execution(o, c)' = Execution(o, c) /\ Decided(o, c)' = "allow"
    <3>1. CASE o # s BY <1>1, <2>2, <3>1 DEF Execution, Decided, RunOf
    <3>2. CASE o = s
      <4>1. Execution(o, c)' = Execution(o, c) BY <1>1, <2>2, <3>2 DEF RunLeads, Execution, RunOf
      <4>2. Decided(o, c)' = "allow" BY <1>1, <2>2, <3>2 DEF RequestLeads, Decided
      <4> QED BY <4>1, <4>2
    <3> QED BY <3>1, <3>2
  <2>4. /\ Execution(calls[c].home, c)' = Execution(o, c)'
        /\ Decided(calls[c].home, c)' = Decided(o, c)'
    BY <2>1 DEF Execution, Decided, RunOf
  <2> QED BY <2>2, <2>3, <2>4
<1>5. ChildLinked'
  <2> SUFFICES ASSUME Status("child")' # "absent" PROVE linked # Nil BY DEF ChildLinked
  <2>1. Status("child") # "absent" => linked # Nil BY DEF GateInv, ChildLinked
  <2>2. "child" \in Sessions BY DEF Sessions
  <2>3. CASE s # "child" BY <1>1, <2>1, <2>2, <2>3 DEF Status, RunOf
  <2>4. CASE s = "child"
    <3>1. Status(s) # "absent" \/ \E e \in B : e.type = "run_queued"
      BY <1>1, <2>4 DEF RunLeads, Status, RunOf
    <3> QED BY <2>1, <2>4, <3>1 DEF Brings
  <2> QED BY <2>3, <2>4
<1> QED BY <1>2, <1>3, <1>4, <1>5

LEMMA LogAside ==
    ASSUME GateAssumption, GateInv, NEW t \in Threads, NEW s \in Sessions, NEW B,
           Logged(s, B), Brings(t, s, B), UNCHANGED <<calls, linked, executed, lock>>,
           NEW u \in Threads, u # t
    PROVE  Aside(u)
<1>0. Run \in Runs /\ Calls = Requests BY DEF GateAssumption
<1>1. /\ RunLeads(proj[s].runs[Run], proj'[s].runs[Run], B)
      /\ \A c \in Calls : RequestLeads(proj[s].requests[c], proj'[s].requests[c], B, c)
      /\ \A o \in Sessions : o # s => proj'[o] = proj[o]
  BY <1>0 DEF Logged, Leads
<1>2. ASSUME NEW o \in Sessions, NEW c \in Calls
      PROVE  /\ Execution(o, c) # Nil => Execution(o, c)' = Execution(o, c)
             /\ Execution(o, c)' = u => Execution(o, c) = u
             /\ Decided(o, c) = "allow" => Decided(o, c)' = "allow"
  <2>1. CASE o # s BY <1>1, <2>1 DEF Execution, Decided, RunOf
  <2>2. CASE o = s
    <3>1. Execution(o, c) # Nil => Execution(o, c)' = Execution(o, c)
      BY <1>1, <2>2 DEF RunLeads, Execution, RunOf
    <3>2. Execution(o, c)' # Execution(o, c) => Execution(o, c)' = t
      <4>1. Execution(o, c)' # Execution(o, c) =>
               \E e \in B : e.type = "execution_started" /\ e.value = Execution(o, c)'
        <5>1. PICK p : p = proj[s].runs[Run] OBVIOUS
        <5>2. PICK q : q = proj'[s].runs[Run] OBVIOUS
        <5>3. q.calls[c].execution # p.calls[c].execution =>
                 \E e \in B : e.type = "execution_started" /\ e.call = c
                              /\ e.value = q.calls[c].execution
          <6>1. RunLeads(p, q, B) BY <1>1, <5>1, <5>2
          <6> QED BY <6>1, Zenon DEF RunLeads
        <5>4. Execution(o, c) = p.calls[c].execution /\ Execution(o, c)' = q.calls[c].execution
          BY <2>2, <5>1, <5>2 DEF Execution, RunOf
        <5> QED BY <5>3, <5>4
      <4>2. \A e \in B : e.type = "execution_started" => e.value = t BY DEF Brings
      <4> QED BY <4>1, <4>2
    <3>3. Decided(o, c) = "allow" => Decided(o, c)' = "allow"
      BY <1>1, <2>2 DEF RequestLeads, Decided
    <3> QED BY <3>1, <3>2, <3>3
  <2> QED BY <2>1, <2>2
<1>3. ASSUME NEW o \in Sessions, lock[o] = u PROVE Attempts(o)' \in {Attempts(o), 0}
  <2>1. CASE o # s BY <1>1, <2>1 DEF Attempts, RunOf
  <2>2. CASE o = s
    <3>1. Attempts(s)' \in {Attempts(s), 0} \/ \E e \in B : e.type = "run_started"
      BY <1>1 DEF RunLeads, Attempts, RunOf
    <3> QED BY <1>3, <2>2, <3>1 DEF Brings
  <2> QED BY <2>1, <2>2
<1> QED BY <1>2, <1>3 DEF Aside

\* A step of t to the record r, for which the log of s takes the events of B.
LEMMA LogStep ==
    ASSUME GateAssumption, GateInv, NEW t \in Threads, NEW s \in Sessions, NEW B,
           Logged(s, B), Brings(t, s, B), Permitted',
           UNCHANGED <<fixed, linked, rules, lock, executed>>,
           woken' \in [Sessions -> BOOLEAN], token' \in [Sessions -> {"none", "live", "cancelled"}],
           NEW r \in ThreadRecords, thread' = [thread EXCEPT ![t] = r], Fits(t, r)'
    PROVE  GateInv'
<1>1. /\ thread' \in [Threads -> ThreadRecords] /\ thread'[t] = r
      /\ \A u \in Threads : u # t => thread'[u] = thread[u]
  BY DEF GateInv, Typed
<1>2. {ToolName(c)' : c \in Calls} = {ToolName(c) : c \in Calls} BY DEF ToolName, fixed
<1>3. Typed' BY <1>1, <1>2 DEF GateInv, Typed, fixed
<1>4. UNCHANGED <<calls, linked, executed, lock>> BY DEF fixed
<1>5. Turns' /\ AtHome' /\ Accounted' /\ ChildLinked' BY <1>4, LogGlobals
<1>6. \A u \in Threads : u # t => Aside(u) BY <1>4, LogAside
<1>7. Projected' BY DEF Logged
<1>8. Fits(t, thread[t])' BY <1>1
<1> QED BY <1>1, <1>3, <1>5, <1>6, <1>7, <1>8, OneStep

\* When nothing is requested or resolved.
LEMMA SamePermitted ==
    ASSUME GateAssumption, GateInv, NEW s \in Sessions, NEW B, Logged(s, B), calls' = calls,
           \A e \in B : e.type \notin {"permission_requested", "permission_resolved"}
    PROVE  Permitted'
<1>1. /\ \A c \in Calls : RequestLeads(proj[s].requests[c], proj'[s].requests[c], B, c)
      /\ \A o \in Sessions : o # s => proj'[o] = proj[o]
  BY DEF Logged, Leads, GateAssumption
<1>2. \A o \in Sessions, c \in Calls : Decided(o, c)' = Decided(o, c)
  BY <1>1 DEF RequestLeads, Decided
<1> QED BY <1>2 DEF GateInv, Permitted, NotDenied

\* A thread goes on to a place that asks for no more than the mutex, whatever
\* is logged.
LEMMA GoesOnLater ==
    ASSUME GateInv, NEW t \in Threads, thread[t].at # "idle", NEW r \in ThreadRecords,
           r.s = Of(t), r.nested = thread[t].nested,
           r.at \in FreePlaces \/ (r.at = "finish" /\ r.out \in Outcomes)
              \/ (r.at \in {"register", "permit"} /\ r.permits <= 1),
           r.at \in LockedPlaces => lock[Of(t)] = t, UNCHANGED lock
    PROVE  Fits(t, r)'
<1>1. Holds(t, thread[t]) BY DEF GateInv, Fits
<1>2. Holds(t, r)' BY <1>1 DEF Holds, FreePlaces, Of
<1>3. Carries(t, r)' BY DEF Carries, FreePlaces, CallPlaces
<1>4. Claims(t, r)' BY DEF Claims, FreePlaces
<1> QED BY <1>2, <1>3, <1>4 DEF Fits

LEMMA NewEvents ==
    ASSUME GateAssumption
    PROVE  /\ \A n \in Nat : RunStarted(Run, n) \in GateEvents
           /\ RunQueued(Run, FALSE) \in GateEvents
           /\ \A c \in Calls, v \in BOOLEAN : ToolCallEmitted(Run, c, v) \in GateEvents
           /\ \A c \in Calls, v \in Values : ToolExecutionStarted(Run, c, v) \in GateEvents
           /\ \A c \in Calls : PermissionRequested(c, Run, c) \in GateEvents
           /\ \A c \in Calls, d \in {"allow", "deny"} : PermissionResolved(c, d) \in GateEvents
           /\ QuietEvents \subseteq GateEvents
<1>0. Run \in Runs /\ Requests = Calls BY DEF GateAssumption
<1> USE <1>0 DEF GateEvents
<1>1. \A n \in Nat : RunStarted(Run, n) \in GateEvents BY DEF RunStarted, GateRunEvents
<1>2. RunQueued(Run, FALSE) \in GateEvents BY DEF RunQueued, GateRunEvents
<1>3. \A c \in Calls, v \in BOOLEAN : ToolCallEmitted(Run, c, v) \in GateEvents
  BY DEF ToolCallEmitted, GateRunEvents
<1>4. \A c \in Calls, v \in Values : ToolExecutionStarted(Run, c, v) \in GateEvents
  BY DEF ToolExecutionStarted, GateRunEvents
<1>5. \A c \in Calls : PermissionRequested(c, Run, c) \in GateEvents
  BY DEF PermissionRequested, RequestEvents
<1>6. \A c \in Calls, d \in {"allow", "deny"} : PermissionResolved(c, d) \in GateEvents
  BY DEF PermissionResolved, RequestEvents
<1>7. QuietEvents \subseteq GateEvents BY DEF QuietEvents
<1> QED BY <1>1, <1>2, <1>3, <1>4, <1>5, <1>6, <1>7

\* A turn is started with the mutex held.
LEMMA StartOK ==
    ASSUME GateAssumption, GateInv, NEW t \in Threads, thread[t].at # "idle", thread[t].permits <= 1,
           NEW s \in Sessions, s = Of(t), lock[s] = t,
           NEW n \in Nat, n \in (0..MaxTurns) \cup {1}, NEW at \in {"register", "permit"},
           AppendMany(t, s, <<RunStarted(Run, n)>>, To(t, at), To(t, "error")),
           UNCHANGED <<fixed, linked, rules, lock, executed>>,
           woken' \in [Sessions -> BOOLEAN], token' \in [Sessions -> {"none", "live", "cancelled"}]
    PROVE  GateInv'
<1>1. PICK e : e = RunStarted(Run, n) OBVIOUS
<1>2. e \in GateEvents /\ e.type = "run_started" /\ e.attempt = n BY <1>1, NewEvents DEF RunStarted
<1>3. PICK r : r = To(t, at) OBVIOUS
<1>4. at \in Places BY DEF Places
<1>5. /\ r \in ThreadRecords /\ r.at = at /\ r.s = s /\ r.nested = thread[t].nested
      /\ r.permits = thread[t].permits
  BY <1>3, <1>4, ToRecord
<1>6. PICK bad : bad = To(t, "error") OBVIOUS
<1>7. bad \in ThreadRecords /\ Fits(t, bad) BY <1>6, ToFits DEF FreePlaces, LockedPlaces
<1>8. PICK b : b = <<e>> OBVIOUS
<1>9. IsSeq(b) /\ Elements(b) = {e} BY <1>8, ElementsOne
<1>10. AppendMany(t, s, b, r, bad) BY <1>1, <1>3, <1>6, <1>8
<1>11. Projected BY DEF GateInv
<1>12. \/ Logged(s, Elements(b)) /\ thread' = [thread EXCEPT ![t] = r]
       \/ UNCHANGED proj /\ thread' = [thread EXCEPT ![t] = bad]
  <2>1. IsSeq(b) /\ Elements(b) \subseteq GateEvents BY <1>2, <1>9
  <2> QED BY <1>10, <1>11, <2>1, Appending
<1>13. CASE UNCHANGED proj /\ thread' = [thread EXCEPT ![t] = bad] BY <1>7, <1>13, QuietGo
<1>14. CASE Logged(s, Elements(b)) /\ thread' = [thread EXCEPT ![t] = r]
  <2>1. Logged(s, {e}) BY <1>9, <1>14
  <2>2. Brings(t, s, {e}) BY <1>2 DEF Brings
  <2>3. Permitted' BY <1>2, <2>1, SamePermitted DEF fixed
  <2>4. Fits(t, r)' BY <1>5, GoesOnLater
  <2> QED BY <1>5, <1>14, <2>1, <2>2, <2>3, <2>4, LogStep
<1> QED BY <1>12, <1>13, <1>14

LEMMA BeginRunOK == ASSUME GateAssumption, GateInv, NEW t \in Threads, BeginRun(t) PROVE GateInv'
<1> USE DEF BeginRun
<1>1. thread[t].at = "begin" BY DEF At
<1>2. PICK s \in Sessions : s = Of(t) /\ lock[s] = t BY <1>1, HasMutex DEF LockedPlaces
<1>3. thread[t].permits <= 1 BY <1>1 DEF GateInv, Fits, Carries
<1>4. PICK v \in {"none", "live", "cancelled"} : token' = [token EXCEPT ![s] = v] BY <1>2
<1>5. /\ woken' \in [Sessions -> BOOLEAN]
      /\ token' \in [Sessions -> {"none", "live", "cancelled"}]
  BY <1>4, SideTyped
<1>6. AppendMany(t, s, <<RunStarted(Run, 1)>>, To(t, "permit"), To(t, "error")) BY <1>2
<1> QED BY <1>1, <1>2, <1>3, <1>5, <1>6, StartOK

LEMMA StartAgainOK == ASSUME GateAssumption, GateInv, NEW t \in Threads, StartAgain(t) PROVE GateInv'
<1> USE DEF StartAgain
<1>1. thread[t].at = "start" BY DEF At
<1>2. PICK s \in Sessions : s = Of(t) /\ lock[s] = t BY <1>1, HasMutex DEF LockedPlaces
<1>3. thread[t].permits <= 1 BY <1>1 DEF GateInv, Fits, Carries
<1>4. Attempts(s) < MaxTurns BY <1>1, <1>2 DEF GateInv, Fits, Carries, Of
<1>5. Attempts(s) \in Nat /\ MaxTurns \in Nat
  BY DEF GateInv, Attempts, RunOf, Projected, GateProjections, RunRecords, GateAssumption
<1>6. PICK n : n = Attempts(s) + 1 OBVIOUS
<1>7. n \in Nat /\ n \in (0..MaxTurns) \cup {1} BY <1>4, <1>5, <1>6
<1>8. AppendMany(t, s, <<RunStarted(Run, n)>>, To(t, "register"), To(t, "error"))
  BY <1>2, <1>6 DEF Attempts
<1>9. /\ woken' \in [Sessions -> BOOLEAN]
      /\ token' \in [Sessions -> {"none", "live", "cancelled"}]
  BY SideTyped
<1> QED BY <1>1, <1>2, <1>3, <1>7, <1>8, <1>9, StartOK

LEMMA ExecuteOK ==
    ASSUME GateAssumption, GateInv, NEW t \in Threads, NEW asked \in SUBSET Calls,
           NEW out \in Outcomes, Execute(t, asked, out)
    PROVE  GateInv'
<1> USE DEF Execute
<1>1. thread[t].at = "execute" BY DEF At
<1>2. PICK s \in Sessions : s = Of(t) /\ lock[s] = t BY <1>1, HasMutex DEF LockedPlaces
<1>3. PICK next : next = [To(t, "finish") EXCEPT !.out = out] OBVIOUS
<1>4. PICK bad : bad = [To(t, "finish") EXCEPT !.out = "failed"] OBVIOUS
<1>5. /\ next \in ThreadRecords /\ next.at = "finish" /\ next.s = s /\ next.nested = thread[t].nested
      /\ next.out = out
  <2>1. PICK a : a = To(t, "finish") OBVIOUS
  <2>2. "finish" \in Places BY DEF Places
  <2>3. a \in ThreadRecords /\ a.at = "finish" /\ a.s = s /\ a.nested = thread[t].nested
    BY <1>2, <2>1, <2>2, ToRecord
  <2>4. next = [a EXCEPT !.out = out] BY <1>3, <2>1
  <2> QED BY <2>3, <2>4 DEF ThreadRecords
<1>6. bad \in ThreadRecords /\ Fits(t, bad)
  <2>1. "failed" \in Outcomes BY DEF Outcomes
  <2> QED BY <1>1, <1>2, <1>4, <2>1, FinishFits
<1>7. PICK batch : batch = [c \in asked |-> <<ToolCallEmitted(Run, c, IsNative(c))>>] OBVIOUS
<1>8. \A c \in asked : \E v \in BOOLEAN : batch[c] = <<ToolCallEmitted(Run, c, v)>>
  <2> SUFFICES ASSUME NEW c \in asked PROVE \E v \in BOOLEAN : batch[c] = <<ToolCallEmitted(Run, c, v)>>
    OBVIOUS
  <2>1. IsNative(c) \in BOOLEAN BY Zenon DEF IsNative
  <2>2. batch[c] = <<ToolCallEmitted(Run, c, IsNative(c))>> BY <1>7, Zenon
  <2> QED BY <2>1, <2>2
<1>9. ASSUME NEW c \in asked
      PROVE  /\ IsSeq(batch[c]) /\ Elements(batch[c]) \subseteq GateEvents
             /\ \A e \in Elements(batch[c]) : e.type = "call_emitted" /\ e.call = c
  <2>1. PICK v \in BOOLEAN : batch[c] = <<ToolCallEmitted(Run, c, v)>> BY <1>8
  <2>2. PICK e : e = ToolCallEmitted(Run, c, v) OBVIOUS
  <2>3. e \in GateEvents /\ e.type = "call_emitted" /\ e.call = c
    BY <2>2, NewEvents DEF ToolCallEmitted
  <2>4. IsSeq(batch[c]) /\ Elements(batch[c]) = {e} BY <2>1, <2>2, ElementsOne
  <2> QED BY <2>3, <2>4
<1>10. PICK b : b = OneByOne(asked, batch) OBVIOUS
<1>11. IsFiniteSet(asked) BY FS_Subset DEF GateAssumption
<1>12. IsSeq(b) /\ Elements(b) = UNION {Elements(batch[c]) : c \in asked}
  BY <1>9, <1>10, <1>11, OneByOneElements
<1>13. Elements(b) \subseteq GateEvents BY <1>9, <1>12
<1>14. \A e \in Elements(b) : e.type = "call_emitted" /\ calls[e.call].home = s
  BY <1>2, <1>9, <1>12
<1>15. AppendMany(t, s, b, next, bad) BY <1>2, <1>3, <1>4, <1>7, <1>10
<1>16. Projected BY DEF GateInv
<1>17. \/ Logged(s, Elements(b)) /\ thread' = [thread EXCEPT ![t] = next]
       \/ UNCHANGED proj /\ thread' = [thread EXCEPT ![t] = bad]
  <2>1. IsSeq(b) BY <1>12
  <2> HIDE DEF Execute
  <2> QED BY <1>13, <1>15, <1>16, <2>1, Appending
<1>18. /\ woken' \in [Sessions -> BOOLEAN]
       /\ token' \in [Sessions -> {"none", "live", "cancelled"}]
  BY <1>2, SideTyped
<1>19. CASE UNCHANGED proj /\ thread' = [thread EXCEPT ![t] = bad] BY <1>6, <1>18, <1>19, QuietGo
<1>20. CASE Logged(s, Elements(b)) /\ thread' = [thread EXCEPT ![t] = next]
  <2>1. PICK B : B = Elements(b) OBVIOUS
  <2>2. Brings(t, s, B) BY <1>14, <2>1 DEF Brings
  <2>3. Logged(s, B) BY <1>20, <2>1
  <2>4. \A e \in B : e.type \notin {"permission_requested", "permission_resolved"} BY <1>14, <2>1
  <2>5. Permitted' BY <2>3, <2>4, SamePermitted DEF fixed
  <2>6. Fits(t, next)' BY <1>1, <1>2, <1>5, GoesOnLater
  <2> QED BY <1>5, <1>18, <1>20, <2>2, <2>3, <2>5, <2>6, LogStep
<1> QED BY <1>17, <1>19, <1>20

LEMMA DecisionIs ==
    ASSUME GateInv, NEW c \in Calls
    PROVE  /\ Decision(c) \in {"allow", "ask", "deny"}
           /\ Decision(c) # "deny" => NotDenied(c)
<1>1. calls[c].setting \in Settings /\ calls[c].ceiling \in Settings BY DEF GateInv, Typed, Demands
<1>2. PICK x : x = MostRestrictive(calls[c].setting, calls[c].ceiling) OBVIOUS
<1>3. x \in {"allow", "ask", "deny"} /\ (x # "deny" => NotDenied(c))
  <2>1. PICK a : a = calls[c].setting OBVIOUS
  <2>2. PICK b : b = calls[c].ceiling OBVIOUS
  <2>3. x = MostRestrictive(a, b) BY <1>2, <2>1, <2>2
  <2>4. CASE "deny" \in {a, b}
    <3>1. x = "deny" BY <2>3, <2>4, Zenon DEF MostRestrictive
    <3> QED BY <3>1
  <2>5. CASE "deny" \notin {a, b}
    <3>1. NotDenied(c) BY <2>1, <2>2, <2>5, Zenon DEF NotDenied
    <3>2. "ask" \in {a, b} => x = "ask" BY <2>3, <2>5, Zenon DEF MostRestrictive
    <3>3. "ask" \notin {a, b} => x = "allow" BY <2>3, <2>5, Zenon DEF MostRestrictive
    <3> QED BY <3>1, <3>2, <3>3
  <2> QED BY <2>4, <2>5
<1>4. Decision(c) = x \/ (x = "ask" /\ Decision(c) = "allow") BY <1>2, Zenon DEF Decision
<1> QED BY <1>3, <1>4

\* The events with which an open call is evaluated.
LEMMA EvaluationIs ==
    ASSUME GateAssumption, GateInv, NEW c \in Calls
    PROVE  LET B == Elements(EvaluationOf(c)) IN
           /\ IsSeq(EvaluationOf(c)) /\ B \subseteq GateEvents
           /\ \A e \in B :
                 /\ e.type \in {"permission_requested", "permission_resolved", "tool_result"}
                 /\ e.type = "permission_requested" => e.request = c
                 /\ e.type = "permission_resolved" => e.request = c /\ e.decision = Decision(c)
           /\ Decision(c) # "ask" =>
                 \E e \in B : e.type = "permission_resolved" /\ e.request = c
<1>1. PICK d \in {"allow", "ask", "deny"} : d = Decision(c) BY DecisionIs
<1>2. PICK x : x = PermissionRequested(c, Run, c) OBVIOUS
<1>3. PICK y : y = PermissionResolved(c, d) OBVIOUS
<1>4. PICK z : z = ToolResult(Run, c, "denied") OBVIOUS
<1>5. x \in GateEvents /\ x.type = "permission_requested" /\ x.request = c
  BY <1>2, NewEvents DEF PermissionRequested
<1>6. /\ y.type = "permission_resolved" /\ y.request = c /\ y.decision = d
      /\ d # "ask" => y \in GateEvents
  BY <1>3, NewEvents DEF PermissionResolved
<1>7. z \in GateEvents /\ z.type = "tool_result"
  <2>1. "denied" \in Values BY DEF GateAssumption
  <2>2. z \in QuietEvents BY <1>4, <2>1, QuietTypes
  <2> QED BY <1>4, <2>2, NewEvents DEF ToolResult
<1>8. PICK r : r = IF d = "ask" THEN <<>> ELSE <<y>> OBVIOUS
<1>9. PICK q : q = IF d = "deny" THEN <<z>> ELSE <<>> OBVIOUS
<1>10. /\ IsSeq(r) /\ Elements(r) = IF d = "ask" THEN {} ELSE {y}
       /\ IsSeq(q) /\ Elements(q) = IF d = "deny" THEN {z} ELSE {}
  BY <1>8, <1>9, ElementsOne, ElementsNone
<1>11. PICK a : a = <<x>> \o r OBVIOUS
<1>12. IsSeq(a) /\ Elements(a) = {x} \cup Elements(r) BY <1>10, <1>11, ElementsOne, ElementsConcat
<1>13. PICK b : b = a \o q OBVIOUS
<1>14. IsSeq(b) /\ Elements(b) = {x} \cup Elements(r) \cup Elements(q)
  BY <1>10, <1>12, <1>13, ElementsConcat
<1>15. b = EvaluationOf(c)
  BY <1>1, <1>2, <1>3, <1>4, <1>8, <1>9, <1>11, <1>13 DEF EvaluationOf
<1>16. \A e \in Elements(b) : e = x \/ (e = y /\ d # "ask") \/ e = z BY <1>10, <1>14
<1>17. d # "ask" => y \in Elements(b) BY <1>10, <1>14
<1>18. Elements(b) \subseteq GateEvents BY <1>5, <1>6, <1>7, <1>16
<1>19. \A e \in Elements(b) :
          /\ e.type \in {"permission_requested", "permission_resolved", "tool_result"}
          /\ e.type = "permission_requested" => e.request = c
          /\ e.type = "permission_resolved" => e.request = c /\ e.decision = d
  BY <1>5, <1>6, <1>7, <1>16
<1>20. d # "ask" => \E e \in Elements(b) : e.type = "permission_resolved" /\ e.request = c
  BY <1>6, <1>17
<1> QED BY <1>1, <1>14, <1>15, <1>18, <1>19, <1>20

LEMMA EvaluateOK == ASSUME GateAssumption, GateInv, NEW t \in Threads, Evaluate(t) PROVE GateInv'
<1>1. thread[t].at = "evaluate" BY DEF Evaluate, At
<1>2. PICK s \in Sessions : s = Of(t) /\ lock[s] = t BY <1>1, HasMutex DEF LockedPlaces
<1>3. PICK open \in SUBSET Calls : open = Open(s) BY DEF Open
<1>4. PICK at \in {"paused", "pick"} :
         at = IF \E c \in open : Decision(c) = "ask" THEN "paused" ELSE "pick"
  OBVIOUS
<1>5. PICK next : next = To(t, at) OBVIOUS
<1>6. PICK bad : bad = [To(t, "finish") EXCEPT !.out = "failed"] OBVIOUS
<1>7. at \in Places /\ at \in FreePlaces BY DEF Places, FreePlaces
<1>8. next \in ThreadRecords /\ next.at = at /\ next.s = s /\ next.nested = thread[t].nested
  BY <1>2, <1>5, <1>7, ToRecord
<1>9. bad \in ThreadRecords /\ Fits(t, bad)
  <2>1. "failed" \in Outcomes BY DEF Outcomes
  <2> QED BY <1>1, <1>2, <1>6, <2>1, FinishFits
<1>10. PICK batch : batch = [c \in open |-> EvaluationOf(c)] OBVIOUS
<1>11. PICK b : b = OneByOne(open, batch) OBVIOUS
<1>12. AppendMany(t, s, b, next, bad) BY <1>2, <1>3, <1>4, <1>5, <1>6, <1>10, <1>11 DEF Evaluate, Evaluation
<1>13. UNCHANGED <<fixed, linked, rules, lock, woken, token, executed>> BY DEF Evaluate
<1>14. ASSUME NEW c \in open
       PROVE  /\ IsSeq(batch[c]) /\ Elements(batch[c]) \subseteq GateEvents
              /\ \A e \in Elements(batch[c]) :
                    /\ e.type \in {"permission_requested", "permission_resolved", "tool_result"}
                    /\ e.type = "permission_requested" => e.request = c
                    /\ e.type = "permission_resolved" => e.request = c /\ e.decision = Decision(c)
              /\ Decision(c) # "ask" =>
                    \E e \in Elements(batch[c]) : e.type = "permission_resolved" /\ e.request = c
  <2>1. c \in Calls /\ batch[c] = EvaluationOf(c) BY <1>10
  <2> QED BY <2>1, EvaluationIs
<1>15. IsFiniteSet(open) BY FS_Subset DEF GateAssumption
<1>16. IsSeq(b) /\ Elements(b) = UNION {Elements(batch[c]) : c \in open}
  BY <1>11, <1>14, <1>15, OneByOneElements
<1>17. PICK B : B = Elements(b) OBVIOUS
<1>18. IsSeq(b) /\ Elements(b) \subseteq GateEvents BY <1>14, <1>16
<1>19. Projected BY DEF GateInv
<1>20. \/ Logged(s, Elements(b)) /\ thread' = [thread EXCEPT ![t] = next]
       \/ UNCHANGED proj /\ thread' = [thread EXCEPT ![t] = bad]
  BY <1>12, <1>18, <1>19, Appending
<1>21. /\ woken' \in [Sessions -> BOOLEAN]
       /\ token' \in [Sessions -> {"none", "live", "cancelled"}]
  BY <1>13, SideTyped
<1>22. CASE UNCHANGED proj /\ thread' = [thread EXCEPT ![t] = bad]
  BY <1>9, <1>13, <1>21, <1>22, QuietGo
<1>23. CASE Logged(s, Elements(b)) /\ thread' = [thread EXCEPT ![t] = next]
  <2>1. Logged(s, B) BY <1>17, <1>23
  <2>2. \A e \in B : \E c \in open : e \in Elements(batch[c]) BY <1>16, <1>17
  <2>3. \A e \in B : e.type \in {"permission_requested", "permission_resolved", "tool_result"}
    BY <1>14, <2>2
  <2>4. Brings(t, s, B) BY <2>3 DEF Brings
  <2>5. \A e \in B : e.type \in {"permission_requested", "permission_resolved"} =>
           /\ e.request \in open
           /\ e.type = "permission_resolved" => e.decision = Decision(e.request)
    BY <1>14, <2>2
  <2>6. \A c \in open : Decision(c) # "ask" =>
           \E e \in B : e.type = "permission_resolved" /\ e.request = c
    BY <1>14, <1>16, <1>17
  <2>7. /\ \A c \in Calls : RequestLeads(proj[s].requests[c], proj'[s].requests[c], B, c)
        /\ \A o \in Sessions : o # s => proj'[o] = proj[o]
    BY <2>1 DEF Logged, Leads, GateAssumption
  <2>8. Permitted'
    <3> SUFFICES ASSUME NEW o \in Sessions, NEW c \in Calls, Decided(o, c)' \in {"pending", "allow"}
                 PROVE  NotDenied(c)'
      BY DEF Permitted
    <3>1. NotDenied(c)' <=> NotDenied(c) BY <1>13 DEF NotDenied, fixed
    <3>2. Decided(o, c)' = Decided(o, c) => NotDenied(c) BY DEF GateInv, Permitted
    <3>3. CASE o # s BY <2>7, <3>1, <3>2, <3>3 DEF Decided
    <3>4. CASE o = s /\ Decided(o, c)' # Decided(o, c)
      <4>1. PICK p : p = proj[s].requests[c] OBVIOUS
      <4>2. PICK q : q = proj'[s].requests[c] OBVIOUS
      <4>3. RequestLeads(p, q, B, c) BY <2>7, <4>1, <4>2
      <4>4. q.decision = Decided(o, c)' /\ p.decision = Decided(o, c) BY <3>4, <4>1, <4>2 DEF Decided
      <4>5. PICK e \in B : /\ e.type \in {"permission_requested", "permission_resolved"}
                           /\ e.request = c
                           /\ q.decision = IF e.type = "permission_requested" THEN "pending" ELSE e.decision
        BY <3>4, <4>3, <4>4 DEF RequestLeads
      <4>6. c \in open BY <2>5, <4>5
      <4>7. Decision(c) # "ask" => q.decision = Decision(c)
        <5>1. \A x \in B : x.type = "permission_resolved" /\ x.request = c => q.decision = x.decision
          BY <4>3 DEF RequestLeads
        <5> QED BY <2>5, <2>6, <4>6, <5>1
      <4>8. Decision(c) # "deny" BY <4>4, <4>7
      <4> QED BY <3>1, <4>8, DecisionIs
    <3> QED BY <3>1, <3>2, <3>3, <3>4
  <2>9. Fits(t, next)' BY <1>1, <1>2, <1>7, <1>8, <1>13, GoesOnLater
  <2> QED BY <1>8, <1>13, <1>21, <1>23, <2>1, <2>4, <2>8, <2>9, LogStep
<1> QED BY <1>20, <1>22, <1>23

LEMMA ResolveOK == ASSUME GateAssumption, GateInv, NEW t \in Threads, Resolve(t) PROVE GateInv'
<1>1. thread[t].at = "resolve" BY DEF Resolve, At
<1>2. PICK s \in Sessions : s = Of(t) BY <1>1, HasMutex
<1>3. PICK c \in Calls : c = thread[t].call BY <1>1, CallOf DEF CallPlaces
<1>4. PICK d \in {"allow", "deny"} : d = thread[t].out BY <1>1 DEF GateInv, Fits, Carries
<1>5. PICK at \in {"pick", "resume"} : at = IF d = "allow" THEN "pick" ELSE "resume" OBVIOUS
<1>6. PICK next : next = To(t, at) OBVIOUS
<1>7. at \in Places /\ at \in FreePlaces /\ at \notin LockedPlaces BY DEF Places, FreePlaces, LockedPlaces
<1>8. next \in ThreadRecords /\ next.at = at /\ next.s = s /\ next.nested = thread[t].nested
  BY <1>2, <1>6, <1>7, ToRecord
<1>9. PICK none : none = NoThread OBVIOUS
<1>10. none \in ThreadRecords /\ Fits(t, none) BY <1>9, NoThreadFits
<1>11. PICK x : x = PermissionResolved(c, d) OBVIOUS
<1>12. PICK y : y = ToolResult(Run, c, "denied") OBVIOUS
<1>13. PICK answer : answer = IF d = "deny" THEN <<y>> ELSE <<>> OBVIOUS
<1>14. PICK b : b = <<x>> \o answer OBVIOUS
<1>15. AppendMany(t, s, b, next, none)
  BY <1>2, <1>3, <1>4, <1>5, <1>6, <1>9, <1>11, <1>12, <1>13, <1>14 DEF Resolve
<1>16. UNCHANGED <<fixed, linked, rules, lock, woken, token, executed>> BY DEF Resolve
<1>17. x \in GateEvents /\ x.type = "permission_resolved" /\ x.request = c
  BY <1>11, NewEvents DEF PermissionResolved
<1>18. y \in GateEvents /\ y.type = "tool_result"
  <2>1. "denied" \in Values BY DEF GateAssumption
  <2>2. y \in QuietEvents BY <1>12, <2>1, QuietTypes
  <2> QED BY <1>12, <2>2, NewEvents DEF ToolResult
<1>19. IsSeq(answer) /\ Elements(answer) \subseteq {y} BY <1>13, ElementsOne, ElementsNone
<1>20. IsSeq(b) /\ Elements(b) = {x} \cup Elements(answer) BY <1>14, <1>19, ElementsOne, ElementsConcat
<1>21. IsSeq(b) /\ Elements(b) \subseteq GateEvents BY <1>17, <1>18, <1>19, <1>20
<1>22. Projected BY DEF GateInv
<1>23. \/ Logged(s, Elements(b)) /\ thread' = [thread EXCEPT ![t] = next]
       \/ UNCHANGED proj /\ thread' = [thread EXCEPT ![t] = none]
  BY <1>15, <1>21, <1>22, Appending
<1>24. /\ woken' \in [Sessions -> BOOLEAN]
       /\ token' \in [Sessions -> {"none", "live", "cancelled"}]
  BY <1>16, SideTyped
<1>25. CASE UNCHANGED proj /\ thread' = [thread EXCEPT ![t] = none]
  BY <1>10, <1>16, <1>24, <1>25, QuietGo
<1>26. CASE Logged(s, Elements(b)) /\ thread' = [thread EXCEPT ![t] = next]
  <2>1. PICK B : B = Elements(b) OBVIOUS
  <2>2. Logged(s, B) BY <1>26, <2>1
  <2>3. \A e \in B : e.type \in {"permission_resolved", "tool_result"}
    BY <1>17, <1>18, <1>19, <1>20, <2>1
  <2>4. Brings(t, s, B) BY <2>3 DEF Brings
  <2>5. /\ \A k \in Calls : RequestLeads(proj[s].requests[k], proj'[s].requests[k], B, k)
        /\ \A o \in Sessions : o # s => proj'[o] = proj[o]
    BY <2>2 DEF Logged, Leads, GateAssumption
  <2>6. Permitted'
    <3> SUFFICES ASSUME NEW o \in Sessions, NEW k \in Calls, Decided(o, k)' \in {"pending", "allow"}
                 PROVE  NotDenied(k)'
      BY DEF Permitted
    <3>1. NotDenied(k)' <=> NotDenied(k) BY <1>16 DEF NotDenied, fixed
    <3>2. Decided(o, k) \in {"pending", "allow"} => NotDenied(k) BY DEF GateInv, Permitted
    <3>3. CASE o # s BY <2>5, <3>1, <3>2, <3>3 DEF Decided
    <3>4. CASE o = s
      <4>1. PICK p : p = proj[s].requests[k] OBVIOUS
      <4>2. PICK q : q = proj'[s].requests[k] OBVIOUS
      <4>3. RequestLeads(p, q, B, k) BY <2>5, <4>1, <4>2
      <4>4. q.decision = Decided(o, k)' /\ p.decision = Decided(o, k) BY <3>4, <4>1, <4>2 DEF Decided
      <4>5. p.decision # "absent" BY <2>3, <4>3, <4>4 DEF RequestLeads
      <4>6. p.decision \in {"absent", "pending", "allow", "deny"}
        BY <4>1 DEF GateInv, Projected, GateProjections, RequestRecords, GateAssumption
      <4>7. p.decision # "deny" BY <4>3, <4>4 DEF RequestLeads
      <4> QED BY <3>1, <3>2, <4>4, <4>5, <4>6, <4>7
    <3> QED BY <3>3, <3>4
  <2>7. Fits(t, next)' BY <1>1, <1>2, <1>7, <1>8, <1>16, GoesOnLater
  <2> QED BY <1>8, <1>16, <1>24, <1>26, <2>2, <2>4, <2>6, <2>7, LogStep
<1> QED BY <1>23, <1>25, <1>26

LEMMA ClaimOK == ASSUME GateAssumption, GateInv, NEW t \in Threads, Claim(t) PROVE GateInv'
<1>1. thread[t].at = "claim" BY DEF Claim, At
<1>2. PICK s \in Sessions : s = Of(t) BY <1>1, HasMutex
<1>3. PICK c \in Calls : c = thread[t].call /\ s = calls[c].home BY <1>1, <1>2, CallOf DEF CallPlaces
<1>4. Execution(s, c) # t /\ Decided(s, c) = "allow"
  BY <1>1, <1>2, <1>3 DEF GateInv, Fits, Claims, Of
<1>5. PICK at \in {"spawn", "tool"} : at = IF calls[c].tool = "delegate" THEN "spawn" ELSE "tool" OBVIOUS
<1>6. PICK next : next = To(t, at) OBVIOUS
<1>7. at \in Places BY DEF Places
<1>8. /\ next \in ThreadRecords /\ next.at = at /\ next.s = s /\ next.nested = thread[t].nested
      /\ next.call = c
  BY <1>2, <1>3, <1>6, <1>7, ToRecord
<1>9. PICK bad : bad = Broken(t) OBVIOUS
<1>10. bad \in ThreadRecords /\ Fits(t, bad) BY <1>1, <1>9, BrokenFits
<1>11. PICK e : e = ToolExecutionStarted(Run, c, t) OBVIOUS
<1>12. e \in GateEvents /\ e.type = "execution_started" /\ e.call = c /\ e.value = t
  <2>1. t \in Values BY DEF GateAssumption
  <2> QED BY <1>11, <2>1, NewEvents DEF ToolExecutionStarted
<1>13. PICK b : b = <<e>> OBVIOUS
<1>14. IsSeq(b) /\ Elements(b) = {e} /\ Elements(b) \subseteq GateEvents BY <1>12, <1>13, ElementsOne
<1>15. AppendMany(t, s, b, next, bad) BY <1>2, <1>3, <1>5, <1>6, <1>9, <1>11, <1>13 DEF Claim
<1>16. UNCHANGED <<fixed, linked, rules, lock, woken, token, executed>> BY DEF Claim
<1>17. Projected BY DEF GateInv
<1>18. \/ Logged(s, Elements(b)) /\ thread' = [thread EXCEPT ![t] = next]
       \/ UNCHANGED proj /\ thread' = [thread EXCEPT ![t] = bad]
  <2>1. IsSeq(b) /\ Elements(b) \subseteq GateEvents BY <1>14
  <2> QED BY <1>15, <1>17, <2>1, Appending
<1>19. /\ woken' \in [Sessions -> BOOLEAN]
       /\ token' \in [Sessions -> {"none", "live", "cancelled"}]
  BY <1>16, SideTyped
<1>20. CASE UNCHANGED proj /\ thread' = [thread EXCEPT ![t] = bad]
  BY <1>10, <1>16, <1>19, <1>20, QuietGo
<1>21. CASE Logged(s, Elements(b)) /\ thread' = [thread EXCEPT ![t] = next]
  <2>1. Logged(s, {e}) BY <1>14, <1>21
  <2>2. Brings(t, s, {e}) BY <1>12 DEF Brings
  <2>3. Permitted' BY <1>12, <1>16, <2>1, SamePermitted DEF fixed
  <2>4. t # Nil BY DEF GateAssumption
  <2>5. PICK p : p = proj[s].runs[Run] OBVIOUS
  <2>6. PICK q : q = proj'[s].runs[Run] OBVIOUS
  <2>7. RunLeads(p, q, {e}) BY <2>1, <2>5, <2>6 DEF Logged, Leads, GateAssumption
  <2>8. /\ q.calls[c].execution = t
        /\ p.calls[c].execution # Nil => q.calls[c].execution = p.calls[c].execution
    BY <1>12, <2>4, <2>7 DEF RunLeads
  <2>9. Execution(s, c) = p.calls[c].execution /\ Execution(s, c)' = q.calls[c].execution
    BY <2>5, <2>6 DEF Execution, RunOf
  <2>10. Execution(s, c)' = t /\ Execution(s, c) = Nil BY <1>4, <2>8, <2>9
  <2>11. executed[c] = 0
    <3>1. ~(executed[c] > 0) BY <1>3, <2>10 DEF GateInv, Accounted
    <3>2. executed[c] \in Nat BY DEF GateInv, Typed
    <3> QED BY <3>1, <3>2
  <2>12. Decided(s, c)' = "allow"
    <3>1. RequestLeads(proj[s].requests[c], proj'[s].requests[c], {e}, c)
      BY <2>1 DEF Logged, Leads, GateAssumption
    <3> QED BY <1>4, <3>1 DEF RequestLeads, Decided
  <2>13. Holds(t, thread[t]) BY DEF GateInv, Fits
  <2>14. Holds(t, next)' BY <1>1, <1>2, <1>8, <1>16, <2>13 DEF Holds, LockedPlaces, Of
  <2>15. Carries(t, next)' BY <1>3, <1>8, <1>16 DEF Carries, fixed
  <2>16. Claims(t, next)' BY <1>8, <1>16, <2>10, <2>11, <2>12 DEF Claims
  <2>17. Fits(t, next)' BY <2>14, <2>15, <2>16 DEF Fits
  <2> QED BY <1>8, <1>16, <1>19, <1>21, <2>1, <2>2, <2>3, <2>17, LogStep
<1> QED BY <1>18, <1>20, <1>21

\* A claimed call c of the session s, that nobody has executed, is executed
\* by t, which may also make the child.
LEMMA ExecutesOnce ==
    ASSUME GateAssumption, GateInv, NEW t \in Threads, NEW s \in Sessions, NEW c \in Calls,
           s = calls[c].home, Execution(s, c) = t, Decided(s, c) = "allow", executed[c] = 0,
           executed' = [executed EXCEPT ![c] = @ + 1], Still, Projected',
           linked' = linked \/ (linked = Nil /\ linked' = c),
           UNCHANGED <<fixed, rules, lock, woken, token>>,
           NEW r \in ThreadRecords, thread' = [thread EXCEPT ![t] = r], Fits(t, r)'
    PROVE  GateInv'
<1>0. t # Nil /\ c # Nil BY DEF GateAssumption
<1>1. /\ thread' \in [Threads -> ThreadRecords] /\ thread'[t] = r
      /\ \A u \in Threads : u # t => thread'[u] = thread[u]
  BY DEF GateInv, Typed
<1>2. {ToolName(d)' : d \in Calls} = {ToolName(d) : d \in Calls} BY DEF ToolName, fixed
<1>3. /\ executed \in [Calls -> Nat] /\ executed' \in [Calls -> Nat] /\ executed'[c] = 1
      /\ \A d \in Calls : d # c => executed'[d] = executed[d]
  BY DEF GateInv, Typed
<1>4. linked' \in Calls \cup {Nil} BY DEF GateInv, Typed
<1>5. Typed' BY <1>1, <1>2, <1>3, <1>4 DEF GateInv, Typed, fixed
<1>6. calls' = calls BY DEF fixed
<1>7. Turns' BY DEF GateInv, Still, Turns, GateAssumption
<1>8. AtHome' BY <1>6 DEF GateInv, Still, AtHome
<1>9. Permitted' BY <1>6 DEF GateInv, Still, Permitted, NotDenied
<1>10. Accounted'
  <2> SUFFICES ASSUME NEW d \in Calls, executed'[d] > 0
               PROVE  /\ executed'[d] = 1
                      /\ Execution(calls[d].home, d)' # Nil
                      /\ Decided(calls[d].home, d)' = "allow"
    BY DEF Accounted
  <2>1. PICK o \in Sessions : o = calls[d].home BY DEF GateInv, Typed, Demands
  <2>2. executed'[d] = 1 /\ Execution(o, d) # Nil /\ Decided(o, d) = "allow"
    <3>1. CASE d = c BY <1>0, <1>3, <2>1, <3>1
    <3>2. CASE d # c BY <1>3, <2>1, <3>2 DEF GateInv, Accounted
    <3> QED BY <3>1, <3>2
  <2>3. Execution(o, d)' = Execution(o, d) /\ Decided(o, d)' = Decided(o, d) BY DEF Still
  <2>4. /\ Execution(calls[d].home, d)' = Execution(o, d)'
        /\ Decided(calls[d].home, d)' = Decided(o, d)'
    BY <1>6, <2>1 DEF Execution, Decided, RunOf
  <2> QED BY <2>2, <2>3, <2>4
<1>11. ChildLinked' BY <1>0 DEF GateInv, Still, ChildLinked, Sessions
<1>12. ASSUME NEW u \in Threads, u # t PROVE Aside(u)
  <2>1. \A d \in Calls : Execution(calls[d].home, d) = u => executed'[d] = executed[d]
    BY <1>3, <1>12
  <2> QED BY <1>0, <1>6, <2>1 DEF Aside, Still
<1>13. Fits(t, thread[t])' BY <1>1
<1> QED BY <1>1, <1>5, <1>7, <1>8, <1>9, <1>10, <1>11, <1>12, <1>13, OneStep

LEMMA RunToolOK == ASSUME GateAssumption, GateInv, NEW t \in Threads, RunTool(t) PROVE GateInv'
<1> USE DEF RunTool
<1>1. thread[t].at = "tool" BY DEF At
<1>2. PICK s \in Sessions : s = Of(t) BY <1>1, HasMutex
<1>3. PICK c \in Calls : c = thread[t].call /\ s = calls[c].home BY <1>1, <1>2, CallOf DEF CallPlaces
<1>4. Execution(s, c) = t /\ Decided(s, c) = "allow" /\ executed[c] = 0
  BY <1>1, <1>2, <1>3 DEF GateInv, Fits, Claims, Of
<1>5. PICK r : r = To(t, "output") OBVIOUS
<1>6. "output" \in Places BY DEF Places
<1>7. /\ r \in ThreadRecords /\ r.at = "output" /\ r.s = s /\ r.nested = thread[t].nested
      /\ r.call = c
  BY <1>2, <1>3, <1>5, <1>6, ToRecord
<1>8. thread' = [thread EXCEPT ![t] = r] BY <1>5, GotoTo
<1>9. executed' = [executed EXCEPT ![c] = @ + 1] BY <1>3
<1>10. Projected' /\ Still BY Unlogged DEF GateInv
<1>11. Holds(t, thread[t]) BY DEF GateInv, Fits
<1>12. Holds(t, r)' BY <1>1, <1>2, <1>7, <1>11 DEF Holds, LockedPlaces, Of
<1>13. Carries(t, r)' BY <1>3, <1>7 DEF Carries, fixed
<1>14. Claims(t, r)' BY <1>7 DEF Claims
<1>15. Fits(t, r)' BY <1>12, <1>13, <1>14 DEF Fits
<1>16. UNCHANGED <<fixed, rules, lock, woken, token>> /\ linked' = linked OBVIOUS
<1> HIDE DEF RunTool
<1> QED BY <1>3, <1>4, <1>7, <1>8, <1>9, <1>10, <1>15, <1>16, ExecutesOnce

\* A thread that has claimed a call and has a child in the making.
LEMMA SpawnFits ==
    ASSUME GateAssumption, GateInv, NEW t \in Threads, thread[t].at \in {"spawn", "queue"},
           NEW r \in ThreadRecords, r.at \in {"spawn", "queue"}, r.s = Of(t), r.call = thread[t].call,
           r.nested = thread[t].nested, Still, UNCHANGED <<lock, calls>>, linked' # Nil
    PROVE  Fits(t, r)'
<1>2. PICK s \in Sessions : s = Of(t) BY HasMutex
<1>3. PICK c \in Calls : c = thread[t].call /\ s = calls[c].home BY <1>2, CallOf DEF CallPlaces
<1>4. Execution(s, c) = t /\ Decided(s, c) = "allow"
  BY <1>2, <1>3 DEF GateInv, Fits, Claims, Of
<1>5. Execution(s, c)' = t /\ Decided(s, c)' = "allow" BY <1>4 DEF Still
<1>6. Holds(t, thread[t]) BY DEF GateInv, Fits
<1>7. Holds(t, r)' BY <1>6 DEF Holds, LockedPlaces, Of
<1>8. Carries(t, r)' BY <1>2, <1>3 DEF Carries
<1>9. Claims(t, r)' BY <1>2, <1>3, <1>5 DEF Claims
<1> QED BY <1>7, <1>8, <1>9 DEF Fits

LEMMA SpawnChildOK == ASSUME GateAssumption, GateInv, NEW t \in Threads, SpawnChild(t) PROVE GateInv'
<1> USE DEF SpawnChild
<1>1. thread[t].at = "spawn" /\ linked = Nil BY DEF At
<1>2. PICK s \in Sessions : s = Of(t) BY <1>1, HasMutex
<1>3. PICK c \in Calls : c = thread[t].call /\ s = calls[c].home BY <1>1, <1>2, CallOf DEF CallPlaces
<1>4. Execution(s, c) = t /\ Decided(s, c) = "allow" /\ executed[c] = 0
  BY <1>1, <1>2, <1>3 DEF GateInv, Fits, Claims, Of
<1>5. executed' = [executed EXCEPT ![c] = @ + 1] /\ linked' = c BY <1>3
<1>6. linked' # Nil BY <1>5 DEF GateAssumption
<1>7. PICK next : next = To(t, "queue") OBVIOUS
<1>8. "queue" \in Places BY DEF Places
<1>9. /\ next \in ThreadRecords /\ next.at = "queue" /\ next.s = Of(t) /\ next.nested = thread[t].nested
      /\ next.call = thread[t].call
  BY <1>7, <1>8, ToRecord
<1>10. PICK same : same = thread[t] OBVIOUS
<1>11. /\ same \in ThreadRecords /\ same.at = "spawn" /\ same.s = Of(t)
       /\ same.nested = thread[t].nested /\ same.call = thread[t].call
  BY <1>1, <1>10 DEF GateInv, Typed, Of
<1>12. PICK e : e = AgentSpawned(Agent) OBVIOUS
<1>13. PICK b : b = <<e>> OBVIOUS
<1>14. IsSeq(b) /\ Elements(b) \subseteq QuietEvents BY <1>12, <1>13, ElementsOne, QuietTypes
<1>15. AppendMany(t, "parent", b, next, same) BY <1>7, <1>10, <1>12, <1>13
<1>16. UNCHANGED <<fixed, rules, lock, woken, token>> OBVIOUS
<1> HIDE DEF SpawnChild
<1>17. "parent" \in Sessions /\ Projected BY DEF Sessions, GateInv
<1>18. /\ Projected' /\ Still
       /\ thread' = [thread EXCEPT ![t] = next] \/ thread' = [thread EXCEPT ![t] = same]
  BY <1>14, <1>15, <1>17, QuietAppend
<1>19. UNCHANGED <<lock, calls>> BY <1>16 DEF fixed
<1>20. Fits(t, next)' BY <1>1, <1>6, <1>9, <1>18, <1>19, SpawnFits
<1>21. Fits(t, same)' BY <1>1, <1>6, <1>11, <1>18, <1>19, SpawnFits
<1>22. CASE thread' = [thread EXCEPT ![t] = next]
  BY <1>1, <1>3, <1>4, <1>5, <1>9, <1>16, <1>18, <1>20, <1>22, ExecutesOnce
<1>23. CASE thread' = [thread EXCEPT ![t] = same]
  BY <1>1, <1>3, <1>4, <1>5, <1>11, <1>16, <1>18, <1>21, <1>23, ExecutesOnce
<1> QED BY <1>18, <1>22, <1>23

LEMMA QueueChildOK == ASSUME GateAssumption, GateInv, NEW t \in Threads, QueueChild(t) PROVE GateInv'
<1>1. thread[t].at = "queue" BY DEF QueueChild, At
<1>2. linked # Nil BY <1>1 DEF GateInv, Fits, Carries
<1>3. PICK s \in Sessions : s = "child" BY DEF Sessions
<1>4. PICK next : next = To(t, "pick") OBVIOUS
<1>5. "pick" \in Places /\ "spawn" \in Places BY DEF Places
<1>6. next \in ThreadRecords /\ next.at = "pick" /\ next.s = Of(t) /\ next.nested = thread[t].nested
  BY <1>4, <1>5, ToRecord
<1>7. PICK again : again = To(t, "spawn") OBVIOUS
<1>8. /\ again \in ThreadRecords /\ again.at = "spawn" /\ again.s = Of(t)
      /\ again.nested = thread[t].nested /\ again.call = thread[t].call
  BY <1>5, <1>7, ToRecord
<1>9. PICK x : x = SessionCreated OBVIOUS
<1>10. PICK y : y = AgentSpawned(Agent) OBVIOUS
<1>11. PICK z : z = RunQueued(Run, FALSE) OBVIOUS
<1>12. x \in GateEvents /\ y \in GateEvents /\ z \in GateEvents
  BY <1>9, <1>10, <1>11, QuietTypes, NewEvents
<1>13. x.type = "session_created" /\ y.type = "agent_spawned" /\ z.type = "run_queued"
  BY <1>9, <1>10, <1>11 DEF SessionCreated, AgentSpawned, RunQueued
<1>14. PICK b : b = <<x, y, z>> OBVIOUS
<1>15. IsSeq(b) /\ Elements(b) = {x, y, z} BY <1>14, ElementsThree
<1>16. IsSeq(b) /\ Elements(b) \subseteq GateEvents BY <1>12, <1>15
<1>17. AppendMany(t, s, b, next, again) BY <1>3, <1>4, <1>7, <1>9, <1>10, <1>11, <1>14 DEF QueueChild
<1>18. UNCHANGED <<fixed, linked, rules, lock, token, executed>> BY DEF QueueChild
<1>19. /\ woken' \in [Sessions -> BOOLEAN]
       /\ token' \in [Sessions -> {"none", "live", "cancelled"}]
  <2>1. woken' = [woken EXCEPT ![s] = TRUE] BY <1>3 DEF QueueChild
  <2> QED BY <1>18, <2>1, SideTyped
<1>20. Projected BY DEF GateInv
<1>21. \/ Logged(s, Elements(b)) /\ thread' = [thread EXCEPT ![t] = next]
       \/ UNCHANGED proj /\ thread' = [thread EXCEPT ![t] = again]
  BY <1>16, <1>17, <1>20, Appending
<1>22. CASE UNCHANGED proj /\ thread' = [thread EXCEPT ![t] = again]
  <2>1. Fits(t, again)
    <3>1. Holds(t, thread[t]) /\ Carries(t, thread[t]) /\ Claims(t, thread[t]) BY DEF GateInv, Fits
    <3>2. Holds(t, again) BY <1>1, <1>8, <3>1 DEF Holds, LockedPlaces, Of
    <3>3. Carries(t, again) BY <1>1, <1>8, <3>1 DEF Carries, CallPlaces, Of
    <3>4. Claims(t, again) BY <1>1, <1>2, <1>8, <3>1 DEF Claims, Of
    <3> QED BY <3>2, <3>3, <3>4 DEF Fits
  <2> QED BY <1>8, <1>18, <1>19, <1>22, <2>1, QuietGo
<1>23. CASE Logged(s, Elements(b)) /\ thread' = [thread EXCEPT ![t] = next]
  <2>1. PICK B : B = {x, y, z} OBVIOUS
  <2>2. Logged(s, B) BY <1>15, <1>23, <2>1
  <2>3. Brings(t, s, B) BY <1>2, <1>3, <1>13, <2>1 DEF Brings
  <2>4. \A e \in B : e.type \notin {"permission_requested", "permission_resolved"} BY <1>13, <2>1
  <2>5. Permitted' BY <1>18, <2>2, <2>4, SamePermitted DEF fixed
  <2>6. Fits(t, next)' BY <1>1, <1>6, <1>18, GoesOnLater DEF FreePlaces, LockedPlaces
  <2> QED BY <1>6, <1>18, <1>19, <1>23, <2>2, <2>3, <2>5, <2>6, LogStep
<1> QED BY <1>21, <1>22, <1>23

-----------------------------------------------------------------------------
(* Batches that no log refuses: at the start and after a crash.             *)

LEMMA SoundPhase == ASSUME NEW p, Sound(p) PROVE p.phase # "corrupt"
BY DEF Sound, GateProjections, Phases

LEMMA AcceptedLast ==
    ASSUME GateAssumption, NEW p, Sound(p), NEW e \in GateEvents, Accepts(p, e), NEW q,
           q = Apply(p, 0, e)
    PROVE  Sound(q) /\ q = Effect(p, 0, e) /\ [q EXCEPT !.revision = 0].phase # "corrupt"
<1>1. q = Effect(p, 0, e) BY SoundPhase DEF Apply
<1>2. Sound(q)
  <2>1. Sound(Effect(p, 0, e)) BY GateEffect
  <2> QED BY <1>1, <2>1
<1>3. [q EXCEPT !.revision = 0].phase = q.phase BY <1>2 DEF Sound, GateProjections
<1> QED BY <1>1, <1>2, <1>3, SoundPhase

LEMMA AfterOne ==
    ASSUME GateAssumption, NEW p, Sound(p), NEW b, IsSeq(b), Len(b) = 1,
           b[1] \in GateEvents, Accepts(p, b[1])
    PROVE  AfterEvents(p, b).phase # "corrupt"
<1>1. PICK f : IsRun(f, p, b) BY AfterSteps
<1>2. f[0] = p /\ f[1] = Apply(f[0], 0, b[1])
  <2>1. \A n, m \in Nat : m = n + 1 /\ m <= 1 => f[m] = Apply(f[n], 0, b[m]) BY <1>1 DEF IsRun
  <2>2. 0 \in Nat /\ 1 \in Nat /\ 1 = 0 + 1 /\ 1 <= 1 OBVIOUS
  <2>3. f[1] = Apply(f[0], 0, b[1]) BY <2>1, <2>2
  <2> QED BY <1>1, <2>3 DEF IsRun
<1>3. PICK q : q = f[1] OBVIOUS
<1>4. q = Apply(p, 0, b[1]) BY <1>2, <1>3
<1>5. AfterEvents(p, b) = [q EXCEPT !.revision = 0] BY <1>1, <1>3 DEF IsRun
<1> QED BY <1>4, <1>5, AcceptedLast

LEMMA AfterTwo ==
    ASSUME GateAssumption, NEW p, Sound(p), NEW b, IsSeq(b), Len(b) = 2,
           b[1] \in GateEvents, b[2] \in GateEvents, Accepts(p, b[1]),
           Accepts(Effect(p, 0, b[1]), b[2])
    PROVE  AfterEvents(p, b).phase # "corrupt"
<1>1. PICK f : IsRun(f, p, b) BY AfterSteps
<1>2. f[0] = p /\ f[1] = Apply(f[0], 0, b[1]) /\ f[2] = Apply(f[1], 0, b[2])
  <2>1. \A n, m \in Nat : m = n + 1 /\ m <= 2 => f[m] = Apply(f[n], 0, b[m]) BY <1>1 DEF IsRun
  <2>2. {0, 1, 2} \subseteq Nat /\ 1 = 0 + 1 /\ 1 <= 2 /\ 2 = 1 + 1 /\ 2 <= 2 OBVIOUS
  <2>3. f[1] = Apply(f[0], 0, b[1]) /\ f[2] = Apply(f[1], 0, b[2]) BY <2>1, <2>2
  <2> QED BY <1>1, <2>3 DEF IsRun
<1>3. PICK q : q = f[1] OBVIOUS
<1>4. PICK z : z = f[2] OBVIOUS
<1>5. q = Apply(p, 0, b[1]) /\ z = Apply(q, 0, b[2]) BY <1>2, <1>3, <1>4
<1>6. Sound(q) /\ q = Effect(p, 0, b[1]) BY <1>5, AcceptedLast
<1>7. AfterEvents(p, b) = [z EXCEPT !.revision = 0] BY <1>1, <1>4 DEF IsRun
<1> QED BY <1>5, <1>6, <1>7, AcceptedLast

LEMMA PhaseOnly ==
    ASSUME NEW p, Sound(p), NEW e \in GatePhaseEvents
    PROVE  Effect(p, 0, e).runs = p.runs
<1>1. e.type \notin {"message_started", "message_closed", "permission_requested",
                     "permission_resolved", "agent_spawned", "agent_finished", "agent_delivered"}
  BY DEF GatePhaseEvents, PhaseEvents
<1>2. "run" \notin DOMAIN e BY DEF GatePhaseEvents, PhaseEvents
<1>3. Effect(p, 0, e) = StateAfter(p, 0, e) BY <1>1, <1>2, Zenon DEF Effect, StateAfter
<1>4. e \in GateEvents BY DEF GateEvents
<1>5. StateAfter(p, 0, e).runs = p.runs BY <1>4, GateStateAfter DEF SameMaps, Sound
<1> QED BY <1>3, <1>5

\* What a session has after a step that brings it nothing new.
SessionStill(p, q) ==
    /\ q.runs[Run].status # "absent" => p.runs[Run].status # "absent"
    /\ q.runs[Run].attempts \in {p.runs[Run].attempts, 0}
    /\ \A c \in Calls : /\ q.runs[Run].calls[c].execution = p.runs[Run].calls[c].execution
                        /\ q.requests[c].decision = p.requests[c].decision
                        /\ q.runs[Run].calls[c].emitted => p.runs[Run].calls[c].emitted

LEMMA SessionStillTrans ==
    ASSUME NEW p, NEW q, NEW z, SessionStill(p, q), SessionStill(q, z)
    PROVE  SessionStill(p, z)
BY DEF SessionStill

LEMMA QuietLeads ==
    ASSUME GateAssumption, NEW p, NEW q, NEW B, Leads(p, q, B),
           \A e \in B : e.type \notin {"run_queued", "run_started", "call_emitted",
               "execution_started", "permission_requested", "permission_resolved"}
    PROVE  SessionStill(p, q)
<1>1. RunLeads(p.runs[Run], q.runs[Run], B) BY DEF Leads, GateAssumption
<1>2. \A c \in Calls : RequestLeads(p.requests[c], q.requests[c], B, c) BY DEF Leads, GateAssumption
<1>3. \A c \in Calls : q.requests[c].decision = p.requests[c].decision BY <1>2 DEF RequestLeads
<1>4. /\ q.runs[Run].status # "absent" => p.runs[Run].status # "absent"
      /\ q.runs[Run].attempts \in {p.runs[Run].attempts, 0}
      /\ \A c \in Calls : /\ q.runs[Run].calls[c].execution = p.runs[Run].calls[c].execution
                          /\ q.runs[Run].calls[c].emitted => p.runs[Run].calls[c].emitted
  BY <1>1 DEF RunLeads
<1> QED BY <1>3, <1>4 DEF SessionStill

LEMMA MayInterrupt ==
    ASSUME NEW p, p.phase = "running" PROVE Accepts(p, SessionInterrupted)
<1>1. PICK e : e = SessionInterrupted OBVIOUS
<1>2. e.type = "session_interrupted" BY <1>1 DEF SessionInterrupted
<1>3. StateAccepts(p, e) BY <1>2, Zenon DEF StateAccepts
<1> QED BY <1>1, <1>2, <1>3, Zenon DEF Accepts

LEMMA MayEndRun ==
    ASSUME NEW p, p.runs[Run].status \in {"running", "requires_action"}
    PROVE  Accepts(p, RunEnded(Run, "interrupted"))
<1>1. PICK e : e = RunEnded(Run, "interrupted") OBVIOUS
<1>2. e.type = "run_ended" /\ e.run = Run BY <1>1 DEF RunEnded
<1>3. StateAccepts(p, e) BY <1>2, Zenon DEF StateAccepts
<1>4. MayEnd(p.runs[e.run].status) BY <1>2 DEF MayEnd, Unfinished
<1> QED BY <1>1, <1>2, <1>3, <1>4, Zenon DEF Accepts

\* recover_running_sessions: the interruption is taken, and brings nothing new.
LEMMA RecoveredStill ==
    ASSUME GateAssumption, GateInv, NEW s \in Sessions
    PROVE  Sound(Recovered(s)) /\ SessionStill(proj[s], Recovered(s))
<1>1. PICK p : p = proj[s] OBVIOUS
<1>2. Sound(p) BY <1>1 DEF GateInv, Projected
<1>3. PICK x : x = SessionInterrupted OBVIOUS
<1>4. PICK y : y = RunEnded(Run, "interrupted") OBVIOUS
<1>5. x \in QuietEvents /\ y \in QuietEvents BY <1>3, <1>4, QuietTypes DEF Terminal
<1>6. x \in GateEvents /\ y \in GateEvents BY <1>5, NewEvents
<1>7. x \in GatePhaseEvents BY <1>3 DEF SessionInterrupted, GatePhaseEvents, PhaseEvents
<1>8. CASE p.phase # "running"
  <2>1. Recovered(s) = p BY <1>1, <1>8 DEF Recovered
  <2>2. SessionStill(p, p) BY DEF SessionStill
  <2> QED BY <1>1, <1>2, <2>1, <2>2
<1>9. CASE p.phase = "running"
  <2>1. PICK ended : ended = IF Status(s) = "running" THEN <<y>> ELSE <<>> OBVIOUS
  <2>2. PICK b : b = <<x>> \o ended OBVIOUS
  <2>3. Recovered(s) = AfterEvents(p, b)
    BY <1>1, <1>3, <1>4, <1>9, <2>1, <2>2 DEF Recovered, Appended
  <2>4. Accepts(p, x) BY <1>3, <1>9, MayInterrupt
  <2>5. IsSeq(ended) /\ Elements(ended) \subseteq QuietEvents
    BY <1>5, <2>1, ElementsOne, ElementsNone
  <2>6. IsSeq(b) /\ Elements(b) \subseteq QuietEvents BY <1>5, <2>2, <2>5, ElementsOne, ElementsConcat
  <2>7. AfterEvents(p, b).phase # "corrupt"
    <3>1. CASE Status(s) = "running"
      <4>2. Len(b) = 2 /\ b[1] = x /\ b[2] = y
        <5>1. PICK u : u = <<x>> OBVIOUS
        <5>2. PICK v : v = <<y>> OBVIOUS
        <5>3. /\ IsSeq(u) /\ Len(u) = 1 /\ u[1] = x
              /\ IsSeq(v) /\ Len(v) = 1 /\ v[1] = y
          BY <5>1, <5>2, ElementsOne
        <5>4. b = u \o v BY <2>1, <2>2, <3>1, <5>1, <5>2
        <5>5. IsSeq(u) /\ IsSeq(v) BY <5>3
        <5>6. /\ Len(b) = Len(u) + Len(v) /\ \A i \in 1..Len(u) : b[i] = u[i]
              /\ \A i \in 1..Len(v) : b[Len(u) + i] = v[i]
          BY <5>4, <5>5, ConcatIsSeq
        <5> QED BY <5>3, <5>6
      <4>3. PICK q : q = Effect(p, 0, x) OBVIOUS
      <4>4. q.runs[Run].status = "running" BY <1>1, <1>2, <1>7, <3>1, <4>3, PhaseOnly DEF Status, RunOf
      <4>5. Accepts(q, y) BY <1>4, <4>4, MayEndRun
      <4> QED BY <1>2, <1>6, <2>4, <2>6, <4>2, <4>3, <4>5, AfterTwo
    <3>2. CASE Status(s) # "running"
      <4>1. b = <<x>> BY <2>1, <2>2, <3>2
      <4>2. Len(b) = 1 /\ b[1] = x BY <4>1
      <4> QED BY <1>2, <1>6, <2>4, <2>6, <4>2, AfterOne
    <3> QED BY <3>1, <3>2
  <2>8. Elements(b) \subseteq GateEvents BY <2>6, NewEvents
  <2>9. Sound(AfterEvents(p, b)) /\ Leads(p, AfterEvents(p, b), Elements(b))
    BY <1>2, <2>6, <2>7, <2>8, GateBatch
  <2>10. \A e \in Elements(b) : e.type \notin {"run_queued", "run_started", "call_emitted",
            "execution_started", "permission_requested", "permission_resolved"}
    BY <2>6 DEF QuietEvents
  <2>11. SessionStill(p, AfterEvents(p, b)) BY <2>9, <2>10, QuietLeads
  <2> QED BY <1>1, <2>3, <2>9, <2>11
<1> QED BY <1>8, <1>9

\* The same for resume_ready_actions_after_restart.
LEMMA DoubtStill ==
    ASSUME GateAssumption, NEW p, Sound(p), InDoubt(p)
    PROVE  LET q == AfterEvents(p, <<RunEnded(Run, "interrupted")>>) IN Sound(q) /\ SessionStill(p, q)
<1>1. PICK y : y = RunEnded(Run, "interrupted") OBVIOUS
<1>2. y \in QuietEvents /\ y \in GateEvents BY <1>1, QuietTypes, NewEvents DEF Terminal
<1>3. PICK b : b = <<y>> OBVIOUS
<1>4. IsSeq(b) /\ Elements(b) = {y} /\ Len(b) = 1 /\ b[1] = y BY <1>3, ElementsOne
<1>5. Accepts(p, y) BY <1>1, MayEndRun DEF InDoubt
<1>6. AfterEvents(p, b).phase # "corrupt" BY <1>2, <1>4, <1>5, AfterOne
<1>7. IsSeq(b) /\ Elements(b) \subseteq GateEvents BY <1>2, <1>4
<1>8. PICK q : q = AfterEvents(p, b) OBVIOUS
<1>9. Sound(q) /\ Leads(p, q, Elements(b)) BY <1>6, <1>7, <1>8, GateBatch
<1>10. \A e \in Elements(b) : e.type \notin {"run_queued", "run_started", "call_emitted",
          "execution_started", "permission_requested", "permission_resolved"}
  BY <1>2, <1>4 DEF QuietEvents
<1>11. SessionStill(p, q) BY <1>9, <1>10, QuietLeads
<1> QED BY <1>1, <1>3, <1>8, <1>9, <1>11

LEMMA CrashOK == ASSUME GateAssumption, GateInv, Crash PROVE GateInv'
<1>1. ASSUME NEW s \in Sessions PROVE Sound(proj'[s]) /\ SessionStill(proj[s], proj'[s])
  <2>1. PICK p : p = Recovered(s) OBVIOUS
  <2>2. Sound(p) /\ SessionStill(proj[s], p) BY <2>1, RecoveredStill
  <2>3. proj'[s] = IF InDoubt(p) THEN AfterEvents(p, <<RunEnded(Run, "interrupted")>>) ELSE p
    BY <2>1 DEF Crash
  <2>4. CASE InDoubt(p)
    <3>1. PICK q : q = AfterEvents(p, <<RunEnded(Run, "interrupted")>>) OBVIOUS
    <3>2. Sound(q) /\ SessionStill(p, q) BY <2>2, <2>4, <3>1, DoubtStill
    <3>3. proj'[s] = q BY <2>3, <2>4, <3>1
    <3> QED BY <2>2, <3>2, <3>3, SessionStillTrans
  <2>5. CASE ~InDoubt(p) BY <2>2, <2>3, <2>5
  <2> QED BY <2>4, <2>5
<1>2. proj' = [s \in Sessions |-> proj'[s]] BY DEF Crash
<1>3. Projected' BY <1>1, <1>2 DEF Projected, Sound
<1>4. Still
  BY <1>1 DEF Still, SessionStill, Status, Attempts, Execution, Decided, Emitted, RunOf
<1>5. UNCHANGED <<calls, linked, rules, executed>> BY DEF Crash
<1>6. Turns' /\ AtHome' /\ Permitted' /\ Accounted' /\ ChildLinked' BY <1>4, <1>5, StillGlobals
<1>7. /\ thread' \in [Threads -> ThreadRecords]
      /\ \A t \in Threads : thread'[t] = NoThread
  BY NoThreadFits DEF Crash
<1>8. {ToolName(c)' : c \in Calls} = {ToolName(c) : c \in Calls} BY <1>5 DEF ToolName
<1>9. woken' \in [Sessions -> BOOLEAN]
  <2>1. woken' = [s \in Sessions |-> ~InDoubt(Recovered(s)) /\ Run \in ReadyActionRuns(Recovered(s))]
    BY DEF Crash
  <2> QED BY <2>1, Zenon
<1>10. /\ lock' \in [Sessions -> Threads \cup {Nobody}]
       /\ token' \in [Sessions -> {"none", "live", "cancelled"}]
       /\ disturbances' \subseteq AllDisturbances
  BY DEF Crash, GateInv, Typed
<1>11. Typed' BY <1>5, <1>7, <1>8, <1>9, <1>10 DEF GateInv, Typed
<1>12. ASSUME NEW t \in Threads PROVE Fits(t, thread[t])'
  <2>1. PICK r : r = NoThread OBVIOUS
  <2>2. r.at = "idle" /\ ~r.nested BY <2>1 DEF NoThread
  <2>3. thread'[t] = r BY <1>7, <2>1
  <2>4. Holds(t, r)' BY <2>2 DEF Holds, LockedPlaces
  <2>5. Carries(t, r)' BY <2>2 DEF Carries, CallPlaces
  <2>6. Claims(t, r)' BY <2>2 DEF Claims
  <2>7. Fits(t, r)' BY <2>4, <2>5, <2>6 DEF Fits
  <2> QED BY <2>3, <2>7
<1> QED BY <1>3, <1>6, <1>11, <1>12 DEF GateInv

LEMMA EmptySound == GateAssumption => Sound(Empty)
<1> SUFFICES ASSUME GateAssumption PROVE Sound(Empty) OBVIOUS
<1>1. NoCall \in CallRecords BY DEF NoCall, CallRecords
<1>2. NoRun \in RunRecords BY <1>1 DEF NoRun, RunRecords, RunStatuses
<1>3. NoMessage \in MessageRecords BY DEF NoMessage, MessageRecords
<1>4. NoRequest \in RequestRecords BY DEF NoRequest, RequestRecords
<1>5. NoAgent \in AgentRecords BY DEF NoAgent, AgentRecords
<1>6. Empty \in GateProjections BY <1>2, <1>3, <1>4, <1>5 DEF Empty, GateProjections, Phases
<1>7. RunSound(NoRun)
  <2>1. \A c \in Calls : NoRun.calls[c] = NoCall BY DEF NoRun
  <2>2. ~NoCall.emitted /\ NoCall.execution = Nil BY DEF NoCall
  <2> QED BY <2>1, <2>2 DEF RunSound
<1>8. \A r \in Runs : Empty.runs[r] = NoRun BY DEF Empty
<1> QED BY <1>6, <1>7, <1>8 DEF Sound

\* What is not there at the start.
LEMMA EmptyHas ==
    ASSUME GateAssumption
    PROVE  /\ Empty.runs[Run].status = "absent" /\ Empty.runs[Run].attempts = 0
           /\ \A c \in Calls : /\ Empty.runs[Run].calls[c].execution = Nil
                               /\ ~Empty.runs[Run].calls[c].emitted
                               /\ Empty.requests[c].decision = "absent"
<1>1. Empty.runs[Run] = NoRun /\ \A c \in Calls : Empty.requests[c] = NoRequest
  BY DEF Empty, GateAssumption
<1>2. /\ NoRun.status = "absent" /\ NoRun.attempts = 0
      /\ \A c \in Calls : NoRun.calls[c] = NoCall
  BY DEF NoRun
<1>3. NoCall.execution = Nil /\ ~NoCall.emitted BY DEF NoCall
<1>4. NoRequest.decision = "absent" BY DEF NoRequest
<1> QED BY <1>1, <1>2, <1>3, <1>4

\* The log of the parent at the start: its session and a queued run.
LEMMA ParentAtStart ==
    ASSUME GateAssumption, NEW q, q = AfterEvents(Empty, <<SessionCreated, RunQueued(Run, FALSE)>>)
    PROVE  /\ Sound(q) /\ q.runs[Run].attempts = 0
           /\ \A c \in Calls : /\ q.runs[Run].calls[c].execution = Nil
                               /\ ~q.runs[Run].calls[c].emitted
                               /\ q.requests[c].decision = "absent"
<1>1. PICK p : p = Empty OBVIOUS
<1>2. Sound(p) BY <1>1, EmptySound
<1>3. PICK x : x = SessionCreated OBVIOUS
<1>4. PICK y : y = RunQueued(Run, FALSE) OBVIOUS
<1>5. x \in GateEvents /\ y \in GateEvents BY <1>3, <1>4, QuietTypes, NewEvents
<1>6. /\ x.type = "session_created" /\ y.type = "run_queued" /\ y.run = Run
      /\ x \in GatePhaseEvents
  BY <1>3, <1>4 DEF SessionCreated, RunQueued, GatePhaseEvents
<1>7. PICK b : b = <<x, y>> OBVIOUS
<1>8. Len(b) = 2 /\ b[1] = x /\ b[2] = y BY <1>7
<1>9. IsSeq(b) BY <1>7 DEF IsSeq
<1>10. Elements(b) = {x, y}
  <2>1. 1..2 = {1, 2} OBVIOUS
  <2> QED BY <1>8, <2>1 DEF Elements
<1>11. Accepts(p, x)
  <2>1. p.revision = 0 /\ p.last = 0 BY <1>1 DEF Empty
  <2>2. StateAccepts(p, x) BY <1>6, <2>1, Zenon DEF StateAccepts
  <2> QED BY <1>6, <2>2, Zenon DEF Accepts
<1>12. Accepts(Effect(p, 0, x), y)
  <2>1. PICK z : z = Effect(p, 0, x) OBVIOUS
  <2>2. z.runs[y.run].status = "absent" BY <1>1, <1>2, <1>6, <2>1, PhaseOnly, EmptyHas
  <2>3. StateAccepts(z, y) BY <1>6, Zenon DEF StateAccepts
  <2>4. Accepts(z, y) BY <1>6, <2>2, <2>3, Zenon DEF Accepts
  <2> QED BY <2>1, <2>4
<1>13. q = AfterEvents(p, b) BY <1>1, <1>3, <1>4, <1>7
<1>14. AfterEvents(p, b).phase # "corrupt"
  BY <1>2, <1>5, <1>8, <1>9, <1>11, <1>12, AfterTwo
<1>15. Elements(b) \subseteq GateEvents BY <1>5, <1>10
<1>16. Sound(q) /\ Leads(p, q, Elements(b)) BY <1>2, <1>9, <1>13, <1>14, <1>15, GateBatch
<1>17. Leads(p, q, {x, y}) BY <1>10, <1>16
<1>18. /\ RunLeads(p.runs[Run], q.runs[Run], {x, y})
       /\ \A c \in Calls : RequestLeads(p.requests[c], q.requests[c], {x, y}, c)
  BY <1>17 DEF Leads, GateAssumption
<1>19. /\ q.runs[Run].attempts = 0
       /\ \A c \in Calls : q.runs[Run].calls[c].execution = Nil /\ ~q.runs[Run].calls[c].emitted
  BY <1>1, <1>6, <1>18, EmptyHas DEF RunLeads
<1>20. \A c \in Calls : q.requests[c].decision = "absent"
  BY <1>1, <1>6, <1>18, EmptyHas DEF RequestLeads
<1> QED BY <1>16, <1>19, <1>20

LEMMA InitOK == ASSUME GateAssumption, Init PROVE GateInv
<1>1. PICK q : q = AfterEvents(Empty, <<SessionCreated, RunQueued(Run, FALSE)>>) OBVIOUS
<1>2. /\ Sound(q) /\ q.runs[Run].attempts = 0
      /\ \A c \in Calls : /\ q.runs[Run].calls[c].execution = Nil
                          /\ ~q.runs[Run].calls[c].emitted
                          /\ q.requests[c].decision = "absent"
  BY <1>1, ParentAtStart
<1>3. PICK p : p = Empty OBVIOUS
<1>4. /\ Sound(p) /\ p.runs[Run].status = "absent" /\ p.runs[Run].attempts = 0
      /\ \A c \in Calls : /\ p.runs[Run].calls[c].execution = Nil
                          /\ ~p.runs[Run].calls[c].emitted
                          /\ p.requests[c].decision = "absent"
  BY <1>3, EmptySound, EmptyHas
<1>5. proj = [s \in Sessions |-> IF s = "child" THEN p ELSE q] BY <1>1, <1>3 DEF Init
<1>6. Projected BY <1>2, <1>4, <1>5 DEF Projected, Sound
<1>7. \A s \in Sessions :
         /\ Attempts(s) = 0
         /\ \A c \in Calls : Execution(s, c) = Nil /\ ~Emitted(s, c) /\ Decided(s, c) = "absent"
  BY <1>2, <1>4, <1>5 DEF Attempts, Execution, Emitted, Decided, RunOf
<1>8. Turns BY <1>7 DEF Turns, GateAssumption
<1>9. AtHome BY <1>7 DEF AtHome
<1>10. Permitted BY <1>7 DEF Permitted
<1>11. executed = [c \in Calls |-> 0] BY DEF Init
<1>12. Accounted BY <1>11 DEF Accounted
<1>13. ChildLinked BY <1>4, <1>5 DEF ChildLinked, Status, RunOf, Sessions
<1>14. disturbances \subseteq AllDisturbances /\ calls \in [Calls -> Demands]
  BY DEF Init, GateAssumption
<1>15. thread \in [Threads -> ThreadRecords] /\ \A t \in Threads : thread[t] = NoThread
  BY NoThreadFits DEF Init
<1>16. woken \in [Sessions -> BOOLEAN]
  <2>1. woken = [s \in Sessions |-> s = "parent"] BY DEF Init
  <2> QED BY <2>1, Zenon
<1>17. /\ linked \in Calls \cup {Nil} /\ rules \subseteq {ToolName(c) : c \in Calls}
       /\ lock \in [Sessions -> Threads \cup {Nobody}]
       /\ token \in [Sessions -> {"none", "live", "cancelled"}] /\ executed \in [Calls -> Nat]
  BY DEF Init
<1>18. Typed BY <1>14, <1>15, <1>16, <1>17 DEF Typed
<1>19. \A t \in Threads : Fits(t, thread[t]) BY <1>15, NoThreadFits
<1> QED BY <1>6, <1>8, <1>9, <1>10, <1>12, <1>13, <1>18, <1>19 DEF GateInv

-----------------------------------------------------------------------------
(* The invariant is inductive.                                              *)

LEMMA StepOK == ASSUME GateAssumption, GateInv, NEW t \in Threads, Step(t) PROVE GateInv'
<1>1. CASE Enter(t) BY <1>1, EnterOK
<1>2. CASE EnterParent(t) BY <1>2, EnterParentOK
<1>3. CASE Leave(t) BY <1>3, LeaveOK
<1>4. CASE Abandon(t) BY <1>4, AbandonOK
<1>5. CASE Look(t) BY <1>5, LookOK
<1>6. CASE BeginRun(t) BY <1>6, BeginRunOK
<1>7. CASE StartAgain(t) BY <1>7, StartAgainOK
<1>8. CASE Register(t) BY <1>8, RegisterOK
<1>9. CASE AcquirePermit(t) BY <1>9, AcquirePermitOK
<1>10. CASE \E asked \in SUBSET Calls, out \in Outcomes : Execute(t, asked, out) BY <1>10, ExecuteOK
<1>11. CASE FinishRun(t) BY <1>11, FinishRunOK
<1>12. CASE FinishPhase(t) BY <1>12, FinishPhaseOK
<1>13. CASE Evaluate(t) BY <1>13, EvaluateOK
<1>14. CASE Pick(t) BY <1>14, PickOK
<1>15. CASE Claim(t) BY <1>15, ClaimOK
<1>16. CASE RunTool(t) BY <1>16, RunToolOK
<1>17. CASE AppendOutput(t) BY <1>17, AppendOutputOK
<1>18. CASE Resume(t) BY <1>18, ResumeOK
<1>19. CASE Pause(t) BY <1>19, PauseOK
<1>20. CASE RejectDelegation(t) BY <1>20, RejectDelegationOK
<1>21. CASE SpawnChild(t) BY <1>21, SpawnChildOK
<1>22. CASE QueueChild(t) BY <1>22, QueueChildOK
<1>23. CASE Deliver(t) BY <1>23, DeliverOK
<1>24. CASE ReadParent(t) BY <1>24, ReadParentOK
<1>25. CASE AnswerParent(t) BY <1>25, AnswerParentOK
<1>26. CASE Resolve(t) BY <1>26, ResolveOK
<1>27. CASE Submit(t) BY <1>27, SubmitOK
<1>28. CASE CancelWaiting(t) BY <1>28, CancelWaitingOK
<1>29. CASE CancelChild(t) BY <1>29, CancelChildOK
<1> QED BY <1>1, <1>2, <1>3, <1>4, <1>5, <1>6, <1>7, <1>8, <1>9, <1>10, <1>11, <1>12, <1>13,
           <1>14, <1>15, <1>16, <1>17, <1>18, <1>19, <1>20, <1>21, <1>22, <1>23, <1>24, <1>25,
           <1>26, <1>27, <1>28, <1>29 DEF Step

LEMMA AskOK == ASSUME GateAssumption, GateInv, NEW h \in Handlers, Ask(h) PROVE GateInv'
<1>1. CASE \E c \in Calls, decision \in {"allow", "deny"}, always \in BOOLEAN :
              ResolvePermission(h, c, decision, always)
  BY <1>1, ResolvePermissionOK
<1>2. CASE \E c \in Calls : SubmitToolResult(h, c) BY <1>2, SubmitToolResultOK
<1>3. CASE \E s \in Sessions : CancelRunning(h, s) BY <1>3, CancelRunningOK
<1>4. CASE \E s \in Sessions : Cancel(h, s) BY <1>4, CancelOK
<1> QED BY <1>1, <1>2, <1>3, <1>4 DEF Ask

LEMMA StutterOK == GateInv /\ UNCHANGED vars => GateInv'
<1> SUFFICES ASSUME GateInv, UNCHANGED vars PROVE GateInv' OBVIOUS
<1> USE DEF vars
<1>1. Typed' BY DEF GateInv, Typed, ToolName
<1>2. Projected' BY DEF GateInv, Projected
<1>3. Turns' /\ AtHome' /\ Permitted' /\ Accounted' /\ ChildLinked'
  BY DEF GateInv, Turns, AtHome, Permitted, Accounted, ChildLinked, NotDenied, Status, Attempts,
         Execution, Decided, Emitted, RunOf
<1>4. ASSUME NEW t \in Threads PROVE Fits(t, thread[t])'
  <2>1. PICK r : r = thread[t] OBVIOUS
  <2>2. r \in ThreadRecords /\ Fits(t, r) /\ Projected BY <2>1 DEF GateInv, Typed
  <2>3. Aside(t) BY DEF Aside, Execution, Decided, Attempts, RunOf
  <2>4. Fits(t, r)' BY <2>2, <2>3, StaysFit, GateAssumption
  <2>5. thread'[t] = r BY <2>1
  <2> QED BY <2>4, <2>5
<1> QED BY <1>1, <1>2, <1>3, <1>4 DEF GateInv

LEMMA GateInductive == GateInv /\ [Next]_vars => GateInv'
<1> SUFFICES ASSUME GateInv, [Next]_vars PROVE GateInv' OBVIOUS
<1>1. ASSUME NEW t \in Threads, Step(t) PROVE GateInv' BY <1>1, StepOK, GateAssumption
<1>2. ASSUME NEW h \in Handlers, Ask(h) PROVE GateInv' BY <1>2, AskOK, GateAssumption
<1>3. CASE Crash BY <1>3, CrashOK, GateAssumption
<1>4. CASE UNCHANGED vars BY <1>4, StutterOK
<1> QED BY <1>1, <1>2, <1>3, <1>4 DEF Next

LEMMA GateTyped == GateInv => TypeOK
<1> SUFFICES ASSUME GateInv PROVE TypeOK OBVIOUS
<1>1. ASSUME NEW s \in Sessions
      PROVE  /\ proj[s].phase \in Phases /\ proj[s].paused \in BOOLEAN
             /\ Status(s) \in RunStatuses \cup {"absent"}
             /\ RunOf(s).attempts \in (0..MaxTurns) \cup {1}
  <2>1. proj[s] \in GateProjections BY DEF GateInv, Projected
  <2>2. proj[s].phase \in Phases /\ proj[s].paused \in BOOLEAN /\ proj[s].runs \in [Runs -> RunRecords]
    BY <2>1 DEF GateProjections
  <2>3. RunOf(s) \in RunRecords BY <2>2, GateAssumption DEF RunOf, GateAssumption
  <2>4. Status(s) \in RunStatuses \cup {"absent"} BY <2>3 DEF Status, RunRecords
  <2>5. RunOf(s).attempts \in (0..MaxTurns) \cup {1} BY DEF GateInv, Turns, Attempts
  <2> QED BY <2>2, <2>4, <2>5
<1>2. ASSUME NEW t \in Threads
      PROVE  /\ Of(t) \in Sessions \cup {Nil} /\ thread[t].call \in Calls \cup {Nil}
             /\ thread[t].permits \in 0..2
  <2>1. thread[t] \in ThreadRecords BY DEF GateInv, Typed
  <2> QED BY <2>1 DEF ThreadRecords, Of
<1> QED BY <1>1, <1>2 DEF GateInv, Typed, TypeOK

LEMMA GatePermits == GateInv => PermittedOnce
<1> SUFFICES ASSUME GateInv, NEW c \in Calls, executed[c] > 0
             PROVE  /\ executed[c] = 1
                    /\ proj[calls[c].home].requests[c].decision = "allow"
                    /\ "deny" \notin {calls[c].setting, calls[c].ceiling}
  BY DEF PermittedOnce
<1>1. PICK s \in Sessions : s = calls[c].home BY DEF GateInv, Typed, Demands
<1>2. executed[c] = 1 /\ Decided(s, c) = "allow" BY <1>1 DEF GateInv, Accounted
<1>3. NotDenied(c) BY <1>2 DEF GateInv, Permitted
<1> QED BY <1>1, <1>2, <1>3 DEF Decided, NotDenied

\* Type correctness of the gate, for any calls, requests in flight, limits
\* and scenarios: whatever the workers, the requests and a restart append, in
\* any order, every log stays one that the projection accepts, no run takes
\* more turns than max_model_turns allows (but the first), and no thread
\* holds more than two permits.
THEOREM GateTypes == Spec => []TypeOK
<1>1. Init => GateInv BY InitOK, GateAssumption
<1>2. GateInv /\ [Next]_vars => GateInv' BY GateInductive
<1>3. GateInv => TypeOK BY GateTyped
<1> QED BY <1>1, <1>2, <1>3, PTL DEF Spec

\* execute_approved_native_calls runs on a worker and on any number of
\* requests at once, without a lock, and again after a restart: a call is
\* executed at most once, and only if it was decided to allow it and neither
\* the agent nor, for a child, its parent denies the tool.
THEOREM CallsPermittedOnce == Spec => []PermittedOnce
<1>1. Init => GateInv BY InitOK, GateAssumption
<1>2. GateInv /\ [Next]_vars => GateInv' BY GateInductive
<1>3. GateInv => PermittedOnce BY GatePermits
<1> QED BY <1>1, <1>2, <1>3, PTL DEF Spec
=============================================================================
