----------------------------- MODULE McpProofs ------------------------------
(* Proofs about McpManager, for any number of servers, requests and          *)
(* restarts and in every scenario: the bound on restarts, the flag of a      *)
(* changed list of tools, and that requests in sequence leave no orphan.     *)
EXTENDS McpManager, NaturalsInduction, WellFoundedInduction, TLAPS

Starting == {"spawn", "handshake", "list", "healthy", "publish", "fail"}
Born == {"handshake", "list", "healthy", "publish"}
Using == {"relist", "waiting"}
Sweeping == {"stop", "waiting", "stopped"}
Ensuring == {"ensure", "attempts", "relist", "invoke"} \cup Starting

TaskStates ==
    {NoTask} \cup
    {r \in [kind : Kinds, at : Ensuring \cup Sweeping \cup {"read", "count"},
            todo : Seq(Entry), child : Children \cup {NoChild}] : r.todo # <<>>}

Shapes ==
    /\ generation \in 1..MaxGeneration
    /\ state \in [Entry -> States]
    /\ attempts \in [Entry -> Nat] /\ failures \in [Entry -> Nat]
    /\ connection \in [Entry -> Children \cup {NoChild}]
    /\ starter \in [Entry -> Tasks \cup {Nobody}] /\ user \in [Entry -> Tasks \cup {Nobody}]
    /\ tools \in [Entry -> BOOLEAN] /\ dirty \in [Entry -> BOOLEAN] /\ changed \in [Entry -> BOOLEAN]
    /\ alive \subseteq Children
    /\ task \in [Tasks -> TaskStates]

\* The mutexes of an entry are held by the task that starts it, and by the
\* one that lists its tools or stops it.
Owned ==
    \A t \in Tasks :
        /\ task[t].at \in Starting => starter[Of(t)] = t
        /\ task[t].at \in Using => user[Of(t)] = t
        /\ \A e \in Entry : starter[e] = t => task[t].at \in Starting /\ Of(t) = e
        /\ \A e \in Entry : user[e] = t => task[t].at \in Using /\ Of(t) = e

\* The counter is that of the failures in a row, and a start in progress may
\* still fail once.
Counted ==
    \A e \in Entry :
        /\ failures[e] = attempts[e]
        /\ attempts[e] = 0 \/ attempts[e] <= MaxAttempts \/ (MaxAttempts = 0 /\ attempts[e] = 1)
        /\ starter[e] # Nobody => attempts[e] = 0 \/ attempts[e] < MaxAttempts

Base == Shapes /\ Owned /\ Counted

\* No child exits by itself and no request is dropped.
Steady == disturbances \cap {"exit", "dropped"} = {} /\ ~stopping

\* A connection and a start have a child of their own that runs.
Living ==
    /\ \A e \in Entry : connection[e] # NoChild => connection[e] \in alive
    /\ \A e, f \in Entry : connection[e] = connection[f] /\ connection[e] # NoChild => e = f
    /\ \A t \in Tasks : task[t].at \in Born =>
          /\ task[t].child \in alive
          /\ \A e \in Entry : connection[e] # task[t].child
          /\ \A u \in Tasks : task[u].at \in Born /\ task[u].child = task[t].child => u = t
    /\ \A t \in Tasks : task[t].at = "relist" =>
          connection[Of(t)] = task[t].child /\ task[t].child # NoChild

Flagged ==
    \A e \in Entry : changed[e] => dirty[e] \/ \E t \in Tasks : At(t, "relist") /\ Of(t) = e

Noticed == Steady => Living /\ Flagged

-----------------------------------------------------------------------------
Elements(s) == {s[i] : i \in 1..Len(s)}

Single == \A t, u \in Tasks : task[t].at # "idle" /\ task[u].at # "idle" => t = u

\* Every child is that of a connection or of a start.
Accounted ==
    \A c \in alive : \/ \E e \in Entry : connection[e] = c
                     \/ \E t \in Tasks : task[t].at \in Born /\ task[t].child = c

\* A connection is that of an entry that is configured, or about to be
\* stopped by a reconcile or by the shutdown.
Sweeps(t, e) ==
    /\ task[t].kind \in {"reconcile", "shutdown"} /\ task[t].at \in Sweeping
    /\ e \in Elements(task[t].todo)
Placed ==
    \A e \in Entry : connection[e] # NoChild =>
        (e[1] = generation /\ ~stopping) \/ \E t \in Tasks : Sweeps(t, e)

\* What the request in flight has found or done.
Errands ==
    \A t \in Tasks :
        /\ task[t].at \in Ensuring => ~stopping /\ \A e \in Elements(task[t].todo) : e[1] = generation
        /\ stopping /\ task[t].at # "idle" => task[t].kind = "shutdown"
        /\ task[t].kind = "shutdown" => task[t].at \in Sweeping
        /\ task[t].at \in Starting \cup {"attempts", "waiting", "stopped"} => connection[Of(t)] = NoChild
        /\ task[t].at \in Born => task[t].child # NoChild
        /\ task[t].at = "publish" => state[Of(t)] = "healthy"

\* The state of an entry tells whether it has a connection.
Reported ==
    \A e \in Entry :
        \/ state[e] = "healthy" <=> connection[e] # NoChild
        \/ \E t \in Tasks : task[t].at \in {"publish", "waiting", "stopped"} /\ Of(t) = e

InSequence == Tidy => Single /\ Accounted /\ Placed /\ Errands /\ Reported

-----------------------------------------------------------------------------
(* The entries of a configuration, and the ones that are enabled.           *)

\* A set of naturals has a least element.
LEMMA NatLeast ==
  ASSUME NEW T, T \subseteq Nat, T # {}
  PROVE  \E x \in T : \A y \in T : x <= y
<1> DEFINE R == OpToRel(<, Nat)
<1>1. IsWellFoundedOn(R, Nat) BY NatLessThanWellFounded
<1> HIDE DEF R
<1>2. PICK x \in T : \A y \in T : ~(<<y, x>> \in R)
  BY <1>1, WFMin
<1>3. \A y \in T : <<y, x>> \in R <=> y < x
  BY DEF R, OpToRel
<1>4. \A y \in T : x <= y
  <2> SUFFICES ASSUME NEW y \in T PROVE x <= y
    OBVIOUS
  <2>1. ~(y < x)
    BY <1>2, <1>3
  <2>2. x \in Nat /\ y \in Nat
    OBVIOUS
  <2> QED BY <2>1, <2>2
<1> QED BY <1>4

\* Induction, stated for sets.
LEMMA NatSetInduction ==
  ASSUME NEW T, T \subseteq Nat, 0 \in T, \A n \in T : n + 1 \in T
  PROVE  T = Nat
<1> SUFFICES ASSUME T # Nat PROVE FALSE OBVIOUS
<1>1. PICK x \in Nat \ T : \A y \in Nat \ T : x <= y
  BY NatLeast
<1>2. x # 0 /\ x - 1 \in Nat /\ x - 1 \in T
  BY <1>1
<1> QED BY <1>1, <1>2

OfGeneration(g) == {g} \X (1..Servers)
Pick(g, on, s, i) == IF on[<<g, i>>] THEN Append(s, <<g, i>>) ELSE s
IsUpTo(f, g, on, n) == f = [i \in 0..n |-> IF i = 0 THEN <<>> ELSE Pick(g, on, f[i - 1], i)]

\* The filter is well defined ...
LEMMA UpToExists ==
    ASSUME NEW g, NEW on
    PROVE  \A n \in Nat : \E f : IsUpTo(f, g, on, n)
<1> DEFINE T == {n \in Nat : \E f : IsUpTo(f, g, on, n)}
<1>1. 0 \in T
  <2>1. IsUpTo([i \in 0..0 |-> <<>>], g, on, 0) BY DEF IsUpTo
  <2> QED BY <2>1
<1>2. ASSUME NEW n \in T PROVE n + 1 \in T
  <2>0. n \in Nat OBVIOUS
  <2>1. PICK f : IsUpTo(f, g, on, n) BY <1>2
  <2> DEFINE h == [i \in 0..(n + 1) |-> IF i <= n THEN f[i] ELSE Pick(g, on, f[n], n + 1)]
  <2>2. \A i \in 0..(n + 1) : h[i] = IF i = 0 THEN <<>> ELSE Pick(g, on, h[i - 1], i)
    <3> SUFFICES ASSUME NEW i \in 0..(n + 1)
                 PROVE  h[i] = IF i = 0 THEN <<>> ELSE Pick(g, on, h[i - 1], i)
      OBVIOUS
    <3>1. CASE i = n + 1
      <4>1. h[i] = Pick(g, on, f[n], i) BY <3>1, <2>0
      <4>2. i # 0 /\ i - 1 = n /\ h[n] = f[n] BY <3>1, <2>0
      <4> QED BY <4>1, <4>2
    <3>2. CASE i = 0 BY <3>2, <2>0, <2>1 DEF IsUpTo
    <3>3. CASE i \in 1..n
      <4>1. h[i] = f[i] /\ h[i - 1] = f[i - 1] /\ i # 0 BY <3>3, <2>0
      <4>2. f[i] = Pick(g, on, f[i - 1], i) BY <3>3, <2>0, <2>1 DEF IsUpTo
      <4> QED BY <4>1, <4>2
    <3> QED BY <3>1, <3>2, <3>3, <2>0
  <2>3. h = [i \in 0..(n + 1) |-> h[i]] OBVIOUS
  <2> HIDE DEF h
  <2>4. IsUpTo(h, g, on, n + 1) BY <2>2, <2>3 DEF IsUpTo
  <2> QED BY <2>4, <2>0
<1> HIDE DEF T
<1>3. T \subseteq Nat BY DEF T
<1>4. T = Nat BY <1>1, <1>2, <1>3, NatSetInduction
<1> QED BY <1>4 DEF T

\* ... and keeps entries of its generation.
LEMMA EnabledFiltered ==
    ASSUME NEW g, NEW on
    PROVE  EnabledEntries(g, on) \in Seq(OfGeneration(g))
<1>1. Servers \in Nat BY McpAssumption
<1>2. EnabledUpTo(g, on) = CHOOSE f : IsUpTo(f, g, on, Servers) BY DEF EnabledUpTo, IsUpTo, Pick
<1>3. PICK f : f = EnabledUpTo(g, on) /\ IsUpTo(f, g, on, Servers) BY <1>1, <1>2, UpToExists
<1> DEFINE T == {n \in Nat : n <= Servers => f[n] \in Seq(OfGeneration(g))}
<1>4. 0 \in T
  <2>1. 0 \in 0..Servers BY <1>1
  <2>2. f[0] = <<>> BY <1>3, <2>1, Zenon DEF IsUpTo
  <2>3. <<>> \in Seq(OfGeneration(g)) OBVIOUS
  <2>4. f[0] \in Seq(OfGeneration(g)) BY <2>2, <2>3, Zenon
  <2> QED BY <2>4
<1>5. ASSUME NEW n \in T PROVE n + 1 \in T
  <2> SUFFICES ASSUME n + 1 <= Servers PROVE f[n + 1] \in Seq(OfGeneration(g)) OBVIOUS
  <2>1. n \in Nat /\ f[n] \in Seq(OfGeneration(g)) BY <1>1
  <2>2. n + 1 \in 0..Servers /\ n + 1 # 0 /\ (n + 1) - 1 = n /\ n + 1 \in 1..Servers BY <1>1, <2>1
  <2>3. f[n + 1] = Pick(g, on, f[n], n + 1) BY <1>3, <2>2 DEF IsUpTo
  <2>4. <<g, n + 1>> \in OfGeneration(g) BY <2>2 DEF OfGeneration
  <2> QED BY <2>1, <2>3, <2>4 DEF Pick
<1> HIDE DEF T
<1>6. T \subseteq Nat BY DEF T
<1>7. T = Nat BY <1>4, <1>5, <1>6, NatSetInduction
<1>8. f[Servers] \in Seq(OfGeneration(g)) BY <1>1, <1>7 DEF T
<1> QED BY <1>3, <1>8 DEF EnabledEntries

LEMMA Generations ==
    ASSUME NEW g \in 1..MaxGeneration
    PROVE  /\ OfGeneration(g) \subseteq Entry
           /\ \A e \in OfGeneration(g) : e[1] = g
           /\ \A e \in Entry : e[1] = g => e \in OfGeneration(g)
BY DEF OfGeneration, Entry

\* What the loops over entries need to know of their lists.
Lists(s, g) == s \in Seq(Entry) /\ \A e \in Elements(s) : e[1] = g

LEMMA EnabledLists ==
    ASSUME NEW g \in 1..MaxGeneration, NEW on
    PROVE  Lists(EnabledEntries(g, on), g)
<1>1. PICK s : s = EnabledEntries(g, on) /\ s \in Seq(OfGeneration(g)) BY EnabledFiltered
<1>2. s \in Seq(Entry) BY <1>1, Generations
<1>3. \A i \in 1..Len(s) : s[i] \in OfGeneration(g) BY <1>1
<1> QED BY <1>1, <1>2, <1>3, Generations DEF Lists, Elements

LEMMA EntriesList ==
    ASSUME NEW g \in 1..MaxGeneration
    PROVE  /\ Lists(Entries(g), g) /\ Entries(g) # <<>>
           /\ \A e \in Entry : e[1] = g => e \in Elements(Entries(g))
<1>1. Servers \in Nat \ {0} BY McpAssumption
<1>2. PICK s : s = Entries(g) /\ s = [i \in 1..Servers |-> <<g, i>>] BY DEF Entries
<1>3. \A i \in 1..Servers : s[i] = <<g, i>> /\ <<g, i>> \in Entry BY <1>2 DEF Entry
<1>4. s \in Seq(Entry) /\ Len(s) = Servers BY <1>1, <1>2, <1>3
<1>5. s # <<>> BY <1>1, <1>4
<1>6. ASSUME NEW e \in Elements(s) PROVE e[1] = g
  <2>1. PICK i \in 1..Servers : e = s[i] BY <1>4 DEF Elements
  <2>2. e = <<g, i>> BY <1>3, <2>1
  <2> QED BY <2>2
<1>7. ASSUME NEW e \in Entry, e[1] = g PROVE e \in Elements(s)
  <2>1. PICK i \in 1..Servers : e = <<g, i>> BY <1>7 DEF Entry
  <2> QED BY <1>3, <1>4, <2>1 DEF Elements
<1> QED BY <1>2, <1>4, <1>5, <1>6, <1>7 DEF Lists

LEMMA TailElements ==
    ASSUME NEW s \in Seq(Entry), s # <<>>
    PROVE  /\ Head(s) \in Entry /\ Head(s) \in Elements(s)
           /\ Tail(s) \in Seq(Entry)
           /\ Elements(Tail(s)) \subseteq Elements(s)
           /\ \A e \in Elements(s) : e = Head(s) \/ e \in Elements(Tail(s))
<1>1. Len(s) \in Nat /\ Len(s) # 0 /\ Head(s) = s[1] /\ Head(s) \in Entry OBVIOUS
<1>2. /\ Tail(s) \in Seq(Entry) /\ Len(Tail(s)) = Len(s) - 1
      /\ \A i \in 1..(Len(s) - 1) : Tail(s)[i] = s[i + 1]
  BY <1>1
<1>3. Head(s) \in Elements(s) BY <1>1 DEF Elements
<1>4. ASSUME NEW e \in Elements(Tail(s)) PROVE e \in Elements(s)
  <2>1. PICK i \in 1..(Len(s) - 1) : e = Tail(s)[i] BY <1>2, <1>4 DEF Elements
  <2>2. i + 1 \in 1..Len(s) BY <1>1
  <2> QED BY <1>2, <2>1, <2>2 DEF Elements
<1>5. ASSUME NEW e \in Elements(s), e # Head(s) PROVE e \in Elements(Tail(s))
  <2>1. PICK i \in 1..Len(s) : e = s[i] BY DEF Elements
  <2>2. i # 1 BY <1>1, <1>5, <2>1
  <2>3. i - 1 \in 1..(Len(s) - 1) /\ (i - 1) + 1 = i BY <1>1, <2>2
  <2>4. Tail(s)[i - 1] = e BY <1>2, <2>1, <2>3
  <2> QED BY <1>2, <2>3, <2>4 DEF Elements
<1> QED BY <1>1, <1>2, <1>3, <1>4, <1>5

-----------------------------------------------------------------------------
(* How a step moves its task.                                               *)

Places == Ensuring \cup Sweeping \cup {"read", "count"}
Records == [kind : Kinds, at : Places, todo : Seq(Entry), child : Children \cup {NoChild}]

LEMMA Apart == "idle" \notin Places /\ NoTask.at = "idle" /\ NoTask.kind = "none" /\ NoTask \in TaskStates
               /\ NoChild \notin Children /\ Nobody \notin Tasks
BY McpAssumption DEF Places, Ensuring, Starting, Sweeping, NoTask, TaskStates, NoChild, Children, Nobody

LEMMA TaskFacts ==
    ASSUME Shapes, NEW t \in Tasks, task[t].at # "idle"
    PROVE  /\ task[t] \in Records /\ task[t].todo # <<>>
           /\ Of(t) \in Entry /\ Of(t) \in Elements(task[t].todo)
<1>1. task[t] \in TaskStates BY DEF Shapes
<1>2. task[t] \in Records /\ task[t].todo # <<>> BY <1>1, Apart DEF TaskStates, Records, Places
<1>3. task[t].todo \in Seq(Entry) BY <1>2 DEF Records
<1> QED BY <1>2, <1>3, TailElements DEF Of

Moves(t, u) == u \in TaskStates /\ task' = [task EXCEPT ![t] = u]
Same(t, u) == u.kind = task[t].kind /\ u.todo = task[t].todo

LEMMA Moved ==
    ASSUME Shapes, NEW t \in Tasks, NEW u, Moves(t, u)
    PROVE  /\ task' \in [Tasks -> TaskStates]
           /\ \A o \in Tasks : task'[o] = IF o = t THEN u ELSE task[o]
BY DEF Shapes, Moves

LEMMA FinishMoves ==
    ASSUME NEW t \in Tasks, Finish(t)
    PROVE  Moves(t, NoTask)
BY Apart DEF Finish, Moves

StepTo(t, a, c) == task' = [task EXCEPT ![t].at = a, ![t].child = c]

LEMMA StepMoves ==
    ASSUME Shapes, NEW t \in Tasks, task[t].at # "idle", NEW a \in Places,
           NEW c \in Children \cup {NoChild}, StepTo(t, a, c)
    PROVE  \E u : Moves(t, u) /\ Same(t, u) /\ u.at = a /\ u.child = c
<1> DEFINE k == task[t]
           u == [k EXCEPT !.at = a, !.child = c]
<1>1. k \in Records /\ k.todo # <<>> BY TaskFacts
<1>2. task' = [task EXCEPT ![t] = u] BY DEF Shapes, StepTo
<1> HIDE DEF k
<1>3. u \in Records /\ u.todo = k.todo /\ u.kind = k.kind /\ u.at = a /\ u.child = c
  BY <1>1 DEF Records
<1> HIDE DEF u
<1>4. u \in TaskStates BY <1>1, <1>3 DEF TaskStates, Records, Places
<1> QED BY <1>2, <1>3, <1>4 DEF Moves, Same, k

LEMMA GotoMoves ==
    ASSUME Shapes, NEW t \in Tasks, task[t].at # "idle", NEW a \in Places, Goto(t, a)
    PROVE  \E u : Moves(t, u) /\ Same(t, u) /\ u.at = a /\ u.child = task[t].child
<1> DEFINE k == task[t]
           u == [k EXCEPT !.at = a]
<1>1. k \in Records /\ k.todo # <<>> BY TaskFacts
<1>2. task' = [task EXCEPT ![t] = u] BY DEF Shapes, Goto
<1> HIDE DEF k
<1>3. u \in Records /\ u.todo = k.todo /\ u.kind = k.kind /\ u.at = a /\ u.child = k.child
  BY <1>1 DEF Records
<1> HIDE DEF u
<1>4. u \in TaskStates BY <1>1, <1>3 DEF TaskStates, Records, Places
<1> QED BY <1>2, <1>3, <1>4 DEF Moves, Same, k

\* The loop goes on, or ends; reconcile starts the servers that it has now.
Loops(t, u, kind, at, todo) ==
    \/ u = NoTask /\ todo = <<>>
    \/ u.kind = kind /\ u.at = at /\ u.todo = todo /\ todo # <<>> /\ u.child = NoChild
    \/ /\ kind = "reconcile" /\ at = "stop" /\ todo = <<>>
       /\ u.kind = kind /\ u.at = "ensure" /\ Lists(u.todo, generation) /\ u.child = NoChild

LEMMA VisitMoves ==
    ASSUME Shapes, NEW t \in Tasks, NEW kind \in Kinds, NEW at \in Places, NEW todo \in Seq(Entry),
           Visit(t, kind, at, todo)
    PROVE  \E u : Moves(t, u) /\ Loops(t, u, kind, at, todo)
<1> DEFINE again == kind = "reconcile" /\ at = "stop" /\ todo = <<>>
<1>1. PICK more : more = IF again THEN EnabledEntries(generation, enabled) ELSE todo OBVIOUS
<1>2. PICK next : next = IF todo = <<>> THEN "ensure" ELSE at OBVIOUS
<1>3. task' = [task EXCEPT ![t] = IF more = <<>> THEN NoTask
                 ELSE [kind |-> kind, at |-> next, todo |-> more, child |-> NoChild]]
  BY <1>1, <1>2, Zenon DEF Visit
<1>4. more \in Seq(Entry) /\ (again => Lists(more, generation))
  BY <1>1, EnabledLists DEF Shapes, Lists
<1>5. next \in Places BY <1>2 DEF Places, Ensuring
<1>6. CASE more = <<>>
  <2>1. Moves(t, NoTask) BY <1>3, <1>6, Apart DEF Moves
  <2>2. todo = <<>> BY <1>1, <1>6
  <2> QED BY <2>1, <2>2 DEF Loops
<1>7. CASE more # <<>>
  <2> DEFINE u == [kind |-> kind, at |-> next, todo |-> more, child |-> NoChild]
  <2>1. u \in TaskStates BY <1>4, <1>5, <1>7 DEF TaskStates, Places
  <2>2. u.kind = kind /\ u.at = next /\ u.todo = more /\ u.child = NoChild OBVIOUS
  <2>3. task' = [task EXCEPT ![t] = u] BY <1>3, <1>7
  <2> HIDE DEF u
  <2>4. CASE again BY <1>2, <1>4, <2>1, <2>2, <2>3, <2>4 DEF Moves, Loops
  <2>5. CASE ~again BY <1>1, <1>2, <1>7, <2>1, <2>2, <2>3, <2>5 DEF Moves, Loops
  <2> QED BY <2>4, <2>5
<1> QED BY <1>6, <1>7

LEMMA AdvanceMoves ==
    ASSUME Shapes, NEW t \in Tasks, task[t].at # "idle", NEW at \in Places, Advance(t, at)
    PROVE  \E u : Moves(t, u) /\ Loops(t, u, task[t].kind, at, Tail(task[t].todo))
<1>1. task[t] \in Records /\ task[t].todo # <<>> BY TaskFacts
<1>2. task[t].kind \in Kinds /\ task[t].todo \in Seq(Entry) BY <1>1 DEF Records
<1>3. Tail(task[t].todo) \in Seq(Entry) BY <1>1, <1>2, TailElements
<1> QED BY <1>2, <1>3, VisitMoves DEF Advance

\* ensure_entry returns.
Returns(t, u, child) ==
    \/ u = NoTask
    \/ u.kind = task[t].kind /\ u.at = "ensure" /\ u.todo = Tail(task[t].todo) /\ u.child = NoChild
    \/ Same(t, u) /\ u.kind = "call" /\ u.at = "invoke" /\ u.child = child /\ child # NoChild

LEMMA ReturnMoves ==
    ASSUME Shapes, NEW t \in Tasks, task[t].at # "idle", NEW child \in Children \cup {NoChild},
           Return(t, child)
    PROVE  \E u : Moves(t, u) /\ Returns(t, u, child)
<1>1. CASE task[t].kind # "call"
  <2>1. Advance(t, "ensure") BY <1>1 DEF Return
  <2>2. "ensure" \in Places BY DEF Places, Ensuring
  <2>3. PICK u : Moves(t, u) /\ Loops(t, u, task[t].kind, "ensure", Tail(task[t].todo))
    BY <2>1, <2>2, AdvanceMoves
  <2> QED BY <2>3 DEF Loops, Returns
<1>2. CASE task[t].kind = "call" /\ child = NoChild
  BY <1>2, FinishMoves DEF Return, Returns
<1>3. CASE task[t].kind = "call" /\ child # NoChild
  <2>1. "invoke" \in Places BY DEF Places, Ensuring
  <2>2. StepTo(t, "invoke", child) BY <1>3 DEF Return, StepTo
  <2>3. PICK u : Moves(t, u) /\ Same(t, u) /\ u.at = "invoke" /\ u.child = child
    BY <2>1, <2>2, StepMoves
  <2> QED BY <1>3, <2>3 DEF Returns, Same
<1> QED BY <1>1, <1>2, <1>3

-----------------------------------------------------------------------------
(* Types, mutexes and the counter.                                          *)

\* How a task at entry e takes, keeps and gives back the mutexes.
Hands(t, u, e) ==
    /\ \A f \in Entry \ {e} : starter'[f] = starter[f] /\ user'[f] = user[f]
    /\ u.at \in Starting \cup Using => Same(t, u) /\ Of(t) = e
    /\ u.at \in Starting => starter'[e] = t /\ starter[e] \in {t, Nobody}
    /\ u.at \notin Starting => starter'[e] = IF task[t].at \in Starting THEN Nobody ELSE starter[e]
    /\ u.at \in Using => user'[e] = t /\ user[e] \in {t, Nobody}
    /\ u.at \notin Using => user'[e] = IF task[t].at \in Using THEN Nobody ELSE user[e]

LEMMA HandsOwned ==
    ASSUME Base, NEW t \in Tasks, NEW u, Moves(t, u), NEW e \in Entry,
           task[t].at \in Starting \cup Using => Of(t) = e, Hands(t, u, e)
    PROVE  Owned'
<1>1. \A o \in Tasks : task'[o] = IF o = t THEN u ELSE task[o] BY Moved DEF Base
<1>2. \A o \in Tasks \ {t} : Of(o)' = Of(o) BY <1>1 DEF Of
<1>3. u.at \in Starting \cup Using => Of(t)' = e BY <1>1 DEF Hands, Same, Of
<1> SUFFICES ASSUME NEW o \in Tasks
             PROVE  /\ (task[o].at \in Starting)' => (starter[Of(o)])' = o
                    /\ (task[o].at \in Using)' => (user[Of(o)])' = o
                    /\ \A f \in Entry : starter'[f] = o => (task[o].at \in Starting)' /\ (Of(o))' = f
                    /\ \A f \in Entry : user'[f] = o => (task[o].at \in Using)' /\ (Of(o))' = f
  BY DEF Owned, Starting, Using
<1>4. Nobody \notin Tasks BY Apart
<1>5. CASE o = t
  <2>1. task'[o] = u BY <1>1, <1>5
  <2>2. \A f \in Entry \ {e} : starter[f] # t /\ user[f] # t BY DEF Base, Owned
  <2>3. \A f \in Entry \ {e} : starter'[f] # t /\ user'[f] # t BY <2>2 DEF Hands
  <2>4. starter'[e] = t => u.at \in Starting BY <1>4 DEF Hands, Base, Owned
  <2>5. user'[e] = t => u.at \in Using BY <1>4 DEF Hands, Base, Owned
  <2>6. (u.at \in Starting => starter'[e] = t) /\ (u.at \in Using => user'[e] = t) BY DEF Hands
  <2> QED BY <1>3, <1>5, <2>1, <2>3, <2>4, <2>5, <2>6
<1>6. CASE o # t
  <2>1. task'[o] = task[o] /\ Of(o)' = Of(o) BY <1>1, <1>2, <1>6
  <2>2. task[o].at \in Starting \cup Using => Of(o) \in Entry
    BY TaskFacts, Apart DEF Base, Places, Ensuring, Sweeping, Using
  <2>3. ASSUME task[o].at \in Starting PROVE starter'[Of(o)] = o
    <3>1. starter[Of(o)] = o /\ Of(o) \in Entry BY <2>2, <2>3 DEF Base, Owned
    <3>2. CASE Of(o) # e BY <3>1, <3>2 DEF Hands
    <3>3. CASE Of(o) = e
      <4>1. starter[e] = o /\ starter[e] # t /\ starter[e] # Nobody BY <3>1, <3>3, <1>4, <1>6
      <4>2. u.at \notin Starting /\ task[t].at \notin Starting
        BY <4>1 DEF Hands, Base, Owned
      <4> QED BY <3>3, <4>1, <4>2 DEF Hands
    <3> QED BY <3>2, <3>3
  <2>4. ASSUME task[o].at \in Using PROVE user'[Of(o)] = o
    <3>1. user[Of(o)] = o /\ Of(o) \in Entry BY <2>2, <2>4 DEF Base, Owned
    <3>2. CASE Of(o) # e BY <3>1, <3>2 DEF Hands
    <3>3. CASE Of(o) = e
      <4>1. user[e] = o /\ user[e] # t /\ user[e] # Nobody BY <3>1, <3>3, <1>4, <1>6
      <4>2. u.at \notin Using /\ task[t].at \notin Using
        BY <4>1 DEF Hands, Base, Owned
      <4> QED BY <3>3, <4>1, <4>2 DEF Hands
    <3> QED BY <3>2, <3>3
  <2>5. ASSUME NEW f \in Entry
        PROVE  (starter'[f] = o => starter[f] = o) /\ (user'[f] = o => user[f] = o)
    <3>1. CASE f # e BY <3>1 DEF Hands
    <3>2. CASE f = e BY <3>2, <1>4, <1>6 DEF Hands
    <3> QED BY <3>1, <3>2
  <2> QED BY <2>1, <2>3, <2>4, <2>5 DEF Base, Owned
<1> QED BY <1>5, <1>6

\* A step that leaves the counter of its entry alone.
LEMMA Ordinary ==
    ASSUME Base, NEW t \in Tasks, NEW u, Moves(t, u), NEW e \in Entry,
           task[t].at \in Starting \cup Using => Of(t) = e, Hands(t, u, e),
           u.at \in Starting => task[t].at \in Starting,
           UNCHANGED <<attempts, failures>>, generation' \in 1..MaxGeneration,
           state' \in [Entry -> States], connection' \in [Entry -> Children \cup {NoChild}],
           starter' \in [Entry -> Tasks \cup {Nobody}], user' \in [Entry -> Tasks \cup {Nobody}],
           tools' \in [Entry -> BOOLEAN], dirty' \in [Entry -> BOOLEAN], changed' \in [Entry -> BOOLEAN],
           alive' \subseteq Children
    PROVE  Base'
<1>1. Shapes' BY Moved DEF Base, Shapes
<1>2. Owned' BY HandsOwned
<1>3. \A f \in Entry : starter'[f] # Nobody => starter[f] # Nobody
  <2>1. u.at \in Starting => starter[e] = t BY DEF Base, Owned
  <2> QED BY <2>1, Apart DEF Hands
<1>4. Counted' BY <1>3 DEF Base, Counted
<1> QED BY <1>1, <1>2, <1>4 DEF Base

\* A step that keeps the mutexes as they are.
LEMMA HandsKept ==
    ASSUME Base, NEW t \in Tasks, NEW u, NEW e \in Entry, UNCHANGED locks,
           u.at \in Starting \cup Using => Same(t, u) /\ Of(t) = e,
           u.at \in Starting <=> task[t].at \in Starting,
           u.at \in Using <=> task[t].at \in Using
    PROVE  Hands(t, u, e)
<1>1. (task[t].at \in Starting => starter[Of(t)] = t) /\ (task[t].at \in Using => user[Of(t)] = t)
  BY DEF Base, Owned
<1> QED BY <1>1 DEF Hands, locks

Inv == Base /\ Noticed /\ InSequence

\* A step that touches neither children nor flags, and no relisting.
LEMMA NoticedKept ==
    ASSUME Inv, NEW t \in Tasks, NEW u, Moves(t, u), Steady' => Steady,
           UNCHANGED <<connection, alive, dirty, changed>>,
           u.at \in Born => task[t].at \in Born /\ u.child = task[t].child,
           u.at # "relist", task[t].at # "relist"
    PROVE  Noticed'
<1> SUFFICES ASSUME Steady PROVE Living' /\ Flagged' BY DEF Noticed
<1>1. Living /\ Flagged BY DEF Inv, Noticed
<1>2. \A o \in Tasks : task'[o] = IF o = t THEN u ELSE task[o] BY Moved DEF Inv, Base
<1>3. \A o \in Tasks \ {t} : Of(o)' = Of(o) BY <1>2 DEF Of
<1>4. Living' BY <1>1, <1>2, <1>3 DEF Living
<1>5. Flagged' BY <1>1, <1>2, <1>3 DEF Flagged, At
<1> QED BY <1>4, <1>5

\* With one request in flight, what InSequence says of it.
Reserved(k, conn, gen, stop, st, al) ==
    /\ \A c \in al : (\E e \in Entry : conn[e] = c) \/ (k.at \in Born /\ k.child = c)
    /\ \A e \in Entry : conn[e] # NoChild =>
          \/ e[1] = gen /\ ~stop
          \/ k.kind \in {"reconcile", "shutdown"} /\ k.at \in Sweeping /\ e \in Elements(k.todo)
    /\ k.at \in Ensuring => ~stop /\ \A e \in Elements(k.todo) : e[1] = gen
    /\ stop /\ k.at # "idle" => k.kind = "shutdown"
    /\ k.kind = "shutdown" => k.at \in Sweeping
    /\ k.at \in Starting \cup {"attempts", "waiting", "stopped"} => conn[Head(k.todo)] = NoChild
    /\ k.at \in Born => k.child # NoChild
    /\ k.at = "publish" => st[Head(k.todo)] = "healthy"
    /\ \A e \in Entry :
          \/ st[e] = "healthy" <=> conn[e] # NoChild
          \/ k.at \in {"publish", "waiting", "stopped"} /\ Head(k.todo) = e

Before(t) == Reserved(task[t], connection, generation, stopping, state, alive)
After(u) == Reserved(u, connection', generation', stopping', state', alive')

LEMMA IdlePlaces == "idle" \notin Born \cup Sweeping \cup Ensuring \cup Starting \cup Using
BY DEF Born, Sweeping, Ensuring, Starting, Using

LEMMA OneRequest ==
    ASSUME Inv, Tidy, NEW t \in Tasks, task[t].at # "idle" \/ Quiet
    PROVE  Before(t) /\ \A o \in Tasks \ {t} : task[o].at = "idle"
<1>1. Single /\ Accounted /\ Placed /\ Errands /\ Reported BY DEF Inv, InSequence
<1>2. \A o \in Tasks \ {t} : task[o].at = "idle" BY <1>1 DEF Single, Quiet
<1>3. \A c \in alive : (\E e \in Entry : connection[e] = c) \/ (task[t].at \in Born /\ task[t].child = c)
  BY <1>1, <1>2, IdlePlaces DEF Accounted
<1>4. \A e \in Entry : connection[e] # NoChild => (e[1] = generation /\ ~stopping) \/ Sweeps(t, e)
  BY <1>1, <1>2, IdlePlaces DEF Placed, Sweeps
<1>5. \A e \in Entry :
         \/ state[e] = "healthy" <=> connection[e] # NoChild
         \/ task[t].at \in {"publish", "waiting", "stopped"} /\ Head(task[t].todo) = e
  BY <1>1, <1>2 DEF Reported, Of
<1> QED BY <1>1, <1>2, <1>3, <1>4, <1>5 DEF Before, Reserved, Errands, Sweeps, Of

LEMMA SequenceMoves ==
    ASSUME Inv, NEW t \in Tasks, NEW u, Moves(t, u), UNCHANGED disturbances,
           Tidy => task[t].at # "idle" \/ Quiet,
           Tidy /\ Before(t) => After(u)
    PROVE  InSequence'
<1> SUFFICES ASSUME Tidy PROVE Single' /\ Accounted' /\ Placed' /\ Errands' /\ Reported'
  BY DEF InSequence, Tidy
<1>1. After(u) /\ \A o \in Tasks \ {t} : task[o].at = "idle" BY OneRequest
<1>2. \A o \in Tasks : task'[o] = IF o = t THEN u ELSE task[o] BY Moved DEF Inv, Base
<1>3. \A o \in Tasks \ {t} : task'[o].at = "idle" /\ task'[o].kind = "none"
  <2>1. \A o \in Tasks : task[o] \in TaskStates BY DEF Inv, Base, Shapes
  <2>2. \A k \in TaskStates : k.at = "idle" => k.kind = "none" BY Apart DEF TaskStates, Places
  <2> QED BY <1>1, <1>2, <2>1, <2>2
<1>4. task'[t] = u BY <1>2
<1>5. Single' BY <1>3 DEF Single
<1>6. Accounted' BY <1>1, <1>4 DEF Accounted, After, Reserved
<1>7. Placed' BY <1>1, <1>4 DEF Placed, After, Reserved, Sweeps
<1>8. Errands' BY <1>1, <1>3, <1>4, IdlePlaces DEF Errands, After, Reserved, Of
<1>9. Reported' BY <1>1, <1>4 DEF Reported, After, Reserved, Of
<1> QED BY <1>5, <1>6, <1>7, <1>8, <1>9

\* A task that returns from ensure_entry holds nothing ...
LEMMA ReturnPlaces ==
    ASSUME NEW t \in Tasks, NEW u, NEW child, Returns(t, u, child)
    PROVE  u.at \notin Starting \cup Using \cup Born \cup Sweeping /\ u.at \in {"idle", "ensure", "invoke"}
BY Apart DEF Returns, Starting, Using, Born, Sweeping

\* ... and leaves everything in its place.
LEMMA ReturnReserved ==
    ASSUME Inv, NEW t \in Tasks, task[t].at \in Ensuring, Before(t),
           NEW child, NEW u, Returns(t, u, child), NEW conn, NEW st, NEW al,
           \A c \in al : \E e \in Entry : conn[e] = c,
           \A e \in Entry : conn[e] # NoChild => e[1] = generation,
           \A e \in Entry : st[e] = "healthy" <=> conn[e] # NoChild
    PROVE  Reserved(u, conn, generation, stopping, st, al)
<1>1. task[t].at # "idle" BY IdlePlaces
<1>2. /\ ~stopping /\ \A e \in Elements(task[t].todo) : e[1] = generation
      /\ task[t].kind # "shutdown"
  BY DEF Before, Reserved, Ensuring, Starting, Sweeping
<1>3. Elements(Tail(task[t].todo)) \subseteq Elements(task[t].todo)
  <2>1. task[t].todo \in Seq(Entry) /\ task[t].todo # <<>>
    BY <1>1, TaskFacts DEF Inv, Base, Records
  <2> QED BY <2>1, TailElements
<1>4. u.at \notin Starting \cup Born \cup Sweeping \cup {"attempts", "waiting", "stopped", "publish"}
  BY ReturnPlaces DEF Starting, Born, Sweeping
<1>5. u.at \in Ensuring => \A e \in Elements(u.todo) : e[1] = generation
  BY <1>2, <1>3, Apart, IdlePlaces DEF Returns, Same
<1>6. u.kind # "shutdown" BY <1>2, Apart DEF Returns, Same
<1> QED BY <1>2, <1>4, <1>5, <1>6 DEF Reserved

\* With a request that starts or uses a server, and has not stopped or
\* published it, everything is in its place.
LEMMA EnsureReserved ==
    ASSUME Inv, NEW t \in Tasks, task[t].at \in Ensuring \ {"publish"}, Before(t)
    PROVE  /\ \A e \in Entry : connection[e] # NoChild => e[1] = generation
           /\ \A e \in Entry : state[e] = "healthy" <=> connection[e] # NoChild
           /\ task[t].at \notin Born => \A c \in alive : \E e \in Entry : connection[e] = c
BY DEF Before, Reserved, Ensuring, Starting, Sweeping

-----------------------------------------------------------------------------
(* The actions: ensure_entry.                                               *)

LEMMA FindConnectionGood == ASSUME Inv, NEW t \in Tasks, FindConnection(t) PROVE Inv'
<1>0. task[t].at = "ensure" /\ Base /\ Shapes BY DEF FindConnection, At, Inv, Base
<1>1. PICK e \in Entry : e = Of(t) BY <1>0, TaskFacts
<1>2. task[t].at \notin Starting \cup Using \cup Born /\ task[t].at \in Ensuring \ {"publish"}
  BY <1>0 DEF Starting, Using, Born, Ensuring
<1>3. /\ UNCHANGED <<disturbances, stopping, generation, starter, state, attempts, connection,
                     tools, failures, changed, alive>>
      /\ user[e] = Nobody /\ connection[e] # NoChild /\ connection[e] \in Children
  BY <1>0, <1>1 DEF FindConnection, Shapes
<1>4. CASE dirty[e]
  <2>1. StepTo(t, "relist", connection[e]) BY <1>1, <1>4 DEF FindConnection, StepTo
  <2>2. "relist" \in Places BY DEF Places, Ensuring
  <2>3. PICK u : Moves(t, u) /\ Same(t, u) /\ u.at = "relist" /\ u.child = connection[e]
    BY <1>0, <1>3, <2>1, <2>2, StepMoves
  <2>4. dirty' = [dirty EXCEPT ![e] = FALSE] /\ user' = [user EXCEPT ![e] = t]
    BY <1>1, <1>4 DEF FindConnection
  <2>5. /\ dirty' \in [Entry -> BOOLEAN] /\ user' \in [Entry -> Tasks \cup {Nobody}]
        /\ \A f \in Entry : user'[f] = IF f = e THEN t ELSE user[f]
        /\ \A f \in Entry \ {e} : dirty'[f] = dirty[f]
    BY <1>0, <2>4 DEF Shapes
  <2>6. u.at \in Using \ Starting /\ u.at \notin Born BY <2>3 DEF Using, Starting, Born
  <2>7. Hands(t, u, e) BY <1>1, <1>2, <1>3, <2>3, <2>5, <2>6 DEF Hands
  <2>8. Base' BY <1>0, <1>2, <1>3, <2>3, <2>5, <2>6, <2>7, Ordinary DEF Shapes
  <2>9. \A o \in Tasks : task'[o] = IF o = t THEN u ELSE task[o] BY <1>0, <2>3, Moved
  <2>10. Of(t)' = e /\ \A o \in Tasks \ {t} : Of(o)' = Of(o) BY <1>1, <2>3, <2>9 DEF Of, Same
  <2>11. Noticed'
    <3> SUFFICES ASSUME Steady PROVE Living' /\ Flagged' BY <1>3 DEF Noticed, Steady
    <3>1. Living /\ Flagged BY DEF Inv, Noticed
    <3>2. Living' BY <1>3, <2>3, <2>6, <2>9, <2>10, <3>1 DEF Living
    <3>3. \A f \in Entry : changed'[f] => dirty'[f] \/ \E o \in Tasks : (At(o, "relist") /\ Of(o) = f)'
      <4> SUFFICES ASSUME NEW f \in Entry, changed[f]
                   PROVE  dirty'[f] \/ \E o \in Tasks : (At(o, "relist") /\ Of(o) = f)'
        BY <1>3
      <4>1. CASE f = e BY <4>1, <2>3, <2>9, <2>10 DEF At
      <4>2. CASE f # e /\ dirty[f] BY <4>2, <2>5
      <4>3. CASE \E o \in Tasks : At(o, "relist") /\ Of(o) = f BY <4>3, <1>0, <2>9, <2>10 DEF At
      <4> QED BY <3>1, <4>1, <4>2, <4>3 DEF Flagged
    <3> QED BY <3>2, <3>3 DEF Flagged
  <2>12. Before(t) => After(u)
    BY <1>2, <1>3, <2>3, <2>6 DEF Before, After, Reserved, Same, Ensuring, Starting, Sweeping
  <2>13. InSequence' BY <1>0, <1>3, <2>3, <2>12, SequenceMoves
  <2> QED BY <2>8, <2>11, <2>13 DEF Inv
<1>5. CASE ~dirty[e]
  <2>1. Return(t, connection[e]) /\ UNCHANGED <<dirty, user>> BY <1>1, <1>5 DEF FindConnection
  <2>2. PICK u : Moves(t, u) /\ Returns(t, u, connection[e])
    BY <1>0, <1>3, <2>1, ReturnMoves
  <2>3. u.at \notin Starting \cup Using \cup Born /\ u.at # "relist" BY <2>2, ReturnPlaces
  <2>4. Hands(t, u, e) BY <1>0, <1>2, <1>3, <2>1, <2>3, HandsKept DEF locks
  <2>5. Base' BY <1>0, <1>2, <1>3, <2>1, <2>2, <2>3, <2>4, Ordinary DEF Shapes
  <2>6. Noticed' BY <1>0, <1>3, <2>1, <2>2, <2>3, NoticedKept DEF Steady
  <2>7. Before(t) => After(u)
    BY <1>2, <1>3, <2>2, EnsureReserved, ReturnReserved DEF After
  <2>8. InSequence' BY <1>0, <1>3, <2>2, <2>7, SequenceMoves
  <2> QED BY <2>5, <2>6, <2>8 DEF Inv
<1> QED BY <1>4, <1>5

LEMMA NoConnectionGood == ASSUME Inv, NEW t \in Tasks, NoConnection(t) PROVE Inv'
<1>0. task[t].at = "ensure" /\ Base /\ Shapes BY DEF NoConnection, At, Inv, Base
<1>1. PICK e \in Entry : e = Of(t) BY <1>0, TaskFacts
<1>2. task[t].at \notin Starting \cup Using \cup Born /\ task[t].at \in Ensuring \ {"publish"}
  BY <1>0 DEF Starting, Using, Born, Ensuring
<1>3. UNCHANGED <<disturbances, stopping, generation, locks, entry, alive>> /\ connection[e] = NoChild
  BY <1>1 DEF NoConnection
<1>4. "attempts" \in Places BY DEF Places, Ensuring
<1>5. PICK u : Moves(t, u) /\ Same(t, u) /\ u.at = "attempts" /\ u.child = task[t].child
  BY <1>0, <1>4, GotoMoves DEF NoConnection
<1>6. u.at \notin Starting \cup Using \cup Born BY <1>5 DEF Starting, Using, Born
<1>7. Hands(t, u, e) BY <1>0, <1>2, <1>3, <1>6, HandsKept
<1>8. Base' BY <1>0, <1>2, <1>3, <1>5, <1>6, <1>7, Ordinary DEF Shapes, locks, entry
<1>9. Noticed' BY <1>0, <1>3, <1>5, <1>6, NoticedKept DEF Steady, entry
<1>10. Before(t) => After(u)
  BY <1>1, <1>2, <1>3, <1>5, <1>6
     DEF Before, After, Reserved, Same, Ensuring, Starting, Sweeping, entry, Of
<1>11. InSequence' BY <1>0, <1>3, <1>5, <1>10, SequenceMoves
<1> QED BY <1>8, <1>9, <1>11 DEF Inv

LEMMA RelistGood == ASSUME Inv, NEW t \in Tasks, NEW ok \in BOOLEAN, Relist(t, ok) PROVE Inv'
<1>0. task[t].at = "relist" /\ Base /\ Shapes BY DEF Relist, At, Inv, Base
<1>1. PICK e \in Entry : e = Of(t) BY <1>0, TaskFacts
<1>2. /\ task[t].at \in Using /\ task[t].at \notin Starting \cup Born
      /\ task[t].at \in Ensuring \ {"publish"}
  BY <1>0 DEF Starting, Using, Born, Ensuring
<1>3. /\ UNCHANGED <<disturbances, stopping, generation, starter, state, attempts, connection,
                     dirty, failures, alive>>
      /\ user' = [user EXCEPT ![e] = Nobody]
      /\ tools' = IF ok THEN [tools EXCEPT ![e] = TRUE] ELSE tools
      /\ changed' = IF ok THEN [changed EXCEPT ![e] = dirty[e]] ELSE changed
  BY <1>1 DEF Relist
<1>4. /\ user' \in [Entry -> Tasks \cup {Nobody}]
      /\ \A f \in Entry : user'[f] = IF f = e THEN Nobody ELSE user[f]
      /\ tools' \in [Entry -> BOOLEAN] /\ changed' \in [Entry -> BOOLEAN]
  BY <1>0, <1>3 DEF Shapes
<1>5. PICK c \in Children \cup {NoChild} : c = IF ok THEN task[t].child ELSE NoChild
  <2>1. task[t].child \in Children \cup {NoChild} BY <1>0, TaskFacts DEF Records
  <2> QED BY <2>1
<1>6. Return(t, c) BY <1>5 DEF Relist
<1>7. PICK u : Moves(t, u) /\ Returns(t, u, c) BY <1>0, <1>6, ReturnMoves
<1>8. u.at \notin Starting \cup Using \cup Born /\ u.at # "relist" BY <1>7, ReturnPlaces DEF Using
<1>9. Hands(t, u, e) BY <1>2, <1>3, <1>4, <1>8 DEF Hands
<1>10. Base' BY <1>0, <1>1, <1>2, <1>3, <1>4, <1>7, <1>8, <1>9, Ordinary DEF Shapes
<1>11. \A o \in Tasks : task'[o] = IF o = t THEN u ELSE task[o] BY <1>0, <1>7, Moved
<1>12. \A o \in Tasks \ {t} : Of(o)' = Of(o) BY <1>11 DEF Of
<1>13. Noticed'
  <2> SUFFICES ASSUME Steady PROVE Living' /\ Flagged' BY <1>3 DEF Noticed, Steady
  <2>1. Living /\ Flagged BY DEF Inv, Noticed
  <2>2. Living' BY <1>3, <1>8, <1>11, <1>12, <2>1 DEF Living
  <2>3. ok
    <3>1. connection[e] = task[t].child /\ task[t].child # NoChild BY <1>0, <1>1, <2>1 DEF Living
    <3>2. task[t].child \in alive BY <3>1, <2>1 DEF Living
    <3> QED BY <3>2 DEF Relist, Answers, Steady
  <2>4. \A f \in Entry : changed'[f] = IF f = e THEN dirty[e] ELSE changed[f]
    BY <1>0, <1>3, <2>3 DEF Shapes
  <2>5. ASSUME NEW f \in Entry, changed'[f]
        PROVE  dirty'[f] \/ \E o \in Tasks : (At(o, "relist") /\ Of(o) = f)'
    <3>1. CASE f = e BY <3>1, <2>4, <2>5, <1>3
    <3>2. CASE f # e
      <4>1. dirty[f] \/ \E o \in Tasks \ {t} : At(o, "relist") /\ Of(o) = f
        BY <1>1, <2>1, <2>4, <2>5, <3>2 DEF Flagged
      <4> QED BY <4>1, <1>3, <1>11, <1>12 DEF At
    <3> QED BY <3>1, <3>2
  <2> QED BY <2>2, <2>5 DEF Flagged
<1>14. Before(t) => After(u)
  BY <1>2, <1>3, <1>7, EnsureReserved, ReturnReserved DEF After
<1>15. InSequence' BY <1>0, <1>3, <1>7, <1>14, SequenceMoves
<1> QED BY <1>10, <1>13, <1>15 DEF Inv

LEMMA LockAttemptsGood == ASSUME Inv, NEW t \in Tasks, LockAttempts(t) PROVE Inv'
<1>0. task[t].at = "attempts" /\ Base /\ Shapes BY DEF LockAttempts, At, Inv, Base
<1>1. PICK e \in Entry : e = Of(t) BY <1>0, TaskFacts
<1>2. task[t].at \notin Starting \cup Using \cup Born /\ task[t].at \in Ensuring \ {"publish"}
  BY <1>0 DEF Starting, Using, Born, Ensuring
<1>3. UNCHANGED <<disturbances, stopping, generation, user, entry, alive>> /\ starter[e] = Nobody
  BY <1>1 DEF LockAttempts
<1>4. CASE attempts[e] >= MaxAttempts /\ attempts[e] # 0
  <2>1. Return(t, NoChild) /\ UNCHANGED starter BY <1>1, <1>4 DEF LockAttempts
  <2>2. PICK u : Moves(t, u) /\ Returns(t, u, NoChild) BY <1>0, <2>1, ReturnMoves
  <2>3. u.at \notin Starting \cup Using \cup Born /\ u.at # "relist" BY <2>2, ReturnPlaces DEF Using
  <2>4. Hands(t, u, e) BY <1>0, <1>2, <1>3, <2>1, <2>3, HandsKept DEF locks
  <2>5. Base' BY <1>0, <1>2, <1>3, <2>1, <2>2, <2>3, <2>4, Ordinary DEF Shapes, entry
  <2>6. Noticed' BY <1>0, <1>3, <2>2, <2>3, NoticedKept DEF Steady, entry
  <2>7. Before(t) => After(u)
    BY <1>2, <1>3, <2>2, EnsureReserved, ReturnReserved DEF After, entry
  <2>8. InSequence' BY <1>0, <1>3, <2>2, <2>7, SequenceMoves
  <2> QED BY <2>5, <2>6, <2>8 DEF Inv
<1>5. CASE ~(attempts[e] >= MaxAttempts /\ attempts[e] # 0)
  <2>1. Goto(t, "spawn") /\ starter' = [starter EXCEPT ![e] = t] BY <1>1, <1>5 DEF LockAttempts
  <2>2. "spawn" \in Places BY DEF Places, Ensuring, Starting
  <2>3. PICK u : Moves(t, u) /\ Same(t, u) /\ u.at = "spawn" /\ u.child = task[t].child
    BY <1>0, <2>1, <2>2, GotoMoves
  <2>4. u.at \in Starting /\ u.at \notin Using \cup Born BY <2>3 DEF Starting, Using, Born
  <2>5. /\ starter' \in [Entry -> Tasks \cup {Nobody}]
        /\ \A f \in Entry : starter'[f] = IF f = e THEN t ELSE starter[f]
    BY <1>0, <2>1 DEF Shapes
  <2>6. Hands(t, u, e) BY <1>1, <1>2, <1>3, <2>3, <2>4, <2>5 DEF Hands
  <2>7. Owned' BY <1>0, <1>2, <2>3, <2>6, HandsOwned
  <2>8. Shapes' BY <1>0, <1>3, <2>3, <2>5, Moved DEF Shapes, entry
  <2>9. attempts[e] = 0 \/ attempts[e] < MaxAttempts BY <1>0, <1>5, McpAssumption DEF Shapes
  <2>10. Counted' BY <1>0, <1>3, <2>5, <2>9 DEF Base, Counted, entry
  <2>11. Noticed' BY <1>0, <1>3, <2>3, <2>4, NoticedKept DEF Steady, entry
  <2>12. Before(t) => After(u)
    BY <1>0, <1>2, <1>3, <2>3, <2>4
       DEF Before, After, Reserved, Same, Ensuring, Starting, Sweeping, entry
  <2>13. InSequence' BY <1>0, <1>3, <2>3, <2>12, SequenceMoves
  <2> QED BY <2>7, <2>8, <2>10, <2>11, <2>13 DEF Inv, Base
<1> QED BY <1>4, <1>5

LEMMA SpawnGood == ASSUME Inv, NEW t \in Tasks, NEW ok \in BOOLEAN, Spawn(t, ok) PROVE Inv'
<1>0. task[t].at = "spawn" /\ Base /\ Shapes BY DEF Spawn, At, Inv, Base
<1>1. PICK e \in Entry : e = Of(t) BY <1>0, TaskFacts
<1>2. task[t].at \in Starting /\ task[t].at \notin Using \cup Born /\ task[t].at \in Ensuring \ {"publish"}
  BY <1>0 DEF Starting, Using, Born, Ensuring
<1>3. /\ UNCHANGED <<disturbances, stopping, generation, locks, attempts, connection, tools, dirty,
                     failures, changed>>
      /\ state' = [state EXCEPT ![e] = "starting"]
  BY <1>1 DEF Spawn
<1>4. state' \in [Entry -> States] /\ \A f \in Entry : state'[f] = IF f = e THEN "starting" ELSE state[f]
  BY <1>0, <1>3 DEF Shapes, States
<1>5. ASSUME NEW u, Moves(t, u), Same(t, u), u.at \in {"handshake", "fail"}, alive' \subseteq Children
      PROVE  Base'
  <2>1. u.at \in Starting /\ u.at \notin Using BY <1>5 DEF Starting, Using
  <2>2. Hands(t, u, e) BY <1>0, <1>1, <1>2, <1>3, <1>5, <2>1, HandsKept
  <2> QED BY <1>0, <1>1, <1>2, <1>3, <1>4, <1>5, <2>1, <2>2, Ordinary DEF Shapes, locks
<1>6. CASE ok
  <2>1. PICK c : /\ c \in Children \ (alive \cup InUse)
                 /\ alive' = alive \cup {c} /\ StepTo(t, "handshake", c)
    BY <1>6 DEF Spawn, StepTo
  <2>2. "handshake" \in Places BY DEF Places, Ensuring, Starting
  <2>3. PICK u : Moves(t, u) /\ Same(t, u) /\ u.at = "handshake" /\ u.child = c
    BY <1>0, <2>1, <2>2, StepMoves
  <2>4. Base' BY <1>0, <1>5, <2>1, <2>3 DEF Shapes
  <2>5. \A o \in Tasks : task'[o] = IF o = t THEN u ELSE task[o] BY <1>0, <2>3, Moved
  <2>6. \A o \in Tasks : Of(o)' = Of(o) BY <2>3, <2>5 DEF Of, Same
  <2>7. (\A f \in Entry : connection[f] # c) /\ (\A o \in Tasks : task[o].child # c) /\ c # NoChild
    BY <2>1, Apart DEF InUse
  <2>8. Noticed'
    <3> SUFFICES ASSUME Steady PROVE Living' /\ Flagged' BY <1>3 DEF Noticed, Steady
    <3>1. Living /\ Flagged BY DEF Inv, Noticed
    <3>2. u.at # "relist" BY <2>3
    <3>3. Living' BY <1>3, <2>1, <2>3, <2>5, <2>6, <2>7, <3>1 DEF Living
    <3>4. Flagged' BY <1>0, <1>3, <2>3, <2>5, <2>6, <3>1 DEF Flagged, At
    <3> QED BY <3>3, <3>4
  <2>9. Before(t) => After(u)
    <3> SUFFICES ASSUME Before(t) PROVE After(u) OBVIOUS
    <3>1. u.at \in Born \cap Starting /\ u.at \notin Sweeping \cup {"publish"}
      BY <2>3 DEF Born, Starting, Sweeping
    <3>2. connection[e] = NoChild BY <1>0, <1>1, <1>2 DEF Before, Reserved, Of
    <3>3. \A f \in Entry : state'[f] = "healthy" <=> connection'[f] # NoChild
      BY <1>2, <1>3, <1>4, <3>2, EnsureReserved
    <3>4. \A f \in Entry : connection'[f] # NoChild => f[1] = generation
      BY <1>2, <1>3, EnsureReserved
    <3>5. \A d \in alive' : (\E f \in Entry : connection'[f] = d) \/ (u.at \in Born /\ u.child = d)
      BY <1>2, <1>3, <2>1, <2>3, <3>1, EnsureReserved
    <3>6. ~stopping /\ task[t].kind # "shutdown" /\ \A f \in Elements(task[t].todo) : f[1] = generation
      BY <1>0, <1>2 DEF Before, Reserved, Sweeping
    <3> QED BY <1>1, <1>3, <2>3, <2>7, <3>1, <3>2, <3>3, <3>4, <3>5, <3>6 DEF After, Reserved, Same, Of
  <2>10. InSequence' BY <1>0, <1>3, <2>3, <2>9, SequenceMoves
  <2> QED BY <2>4, <2>8, <2>10 DEF Inv
<1>7. CASE ~ok
  <2>1. Goto(t, "fail") /\ UNCHANGED alive /\ "exit" \in disturbances BY <1>7 DEF Spawn
  <2>2. "fail" \in Places BY DEF Places, Ensuring, Starting
  <2>3. PICK u : Moves(t, u) /\ Same(t, u) /\ u.at = "fail" /\ u.child = task[t].child
    BY <1>0, <2>1, <2>2, GotoMoves
  <2>4. Base' BY <1>0, <1>5, <2>1, <2>3 DEF Shapes
  <2>5. Noticed' BY <1>3, <2>1 DEF Noticed, Steady
  <2>6. Before(t) => After(u)
    <3> SUFFICES ASSUME Before(t) PROVE After(u) OBVIOUS
    <3>1. u.at \in Starting /\ u.at \notin Sweeping \cup Born \cup {"publish"}
      BY <2>3 DEF Born, Starting, Sweeping
    <3>2. connection[e] = NoChild BY <1>0, <1>1, <1>2 DEF Before, Reserved, Of
    <3>3. \A f \in Entry : state'[f] = "healthy" <=> connection'[f] # NoChild
      BY <1>2, <1>3, <1>4, <3>2, EnsureReserved
    <3>4. \A f \in Entry : connection'[f] # NoChild => f[1] = generation
      BY <1>2, <1>3, EnsureReserved
    <3>5. \A d \in alive' : \E f \in Entry : connection'[f] = d
      BY <1>2, <1>3, <2>1, EnsureReserved
    <3>6. ~stopping /\ task[t].kind # "shutdown" /\ \A f \in Elements(task[t].todo) : f[1] = generation
      BY <1>0, <1>2 DEF Before, Reserved, Sweeping
    <3> QED BY <1>1, <1>3, <2>3, <3>1, <3>2, <3>3, <3>4, <3>5, <3>6 DEF After, Reserved, Same, Of
  <2>7. InSequence' BY <1>0, <1>3, <2>3, <2>6, SequenceMoves
  <2> QED BY <2>4, <2>5, <2>7 DEF Inv
<1> QED BY <1>6, <1>7

\* The handshake and the first list: the child goes on, or is killed.
LEMMA BirthGood ==
    ASSUME Inv, NEW t \in Tasks, NEW ok \in BOOLEAN, Handshake(t, ok) \/ FirstList(t, ok)
    PROVE  Inv'
<1>0. task[t].at \in {"handshake", "list"} /\ Base /\ Shapes BY DEF Handshake, FirstList, At, Inv, Base
<1>1. PICK e \in Entry : e = Of(t) BY <1>0, TaskFacts
<1>2. task[t].at \in Starting \cap Born /\ task[t].at \notin Using /\ task[t].at \in Ensuring \ {"publish"}
  BY <1>0 DEF Starting, Using, Born, Ensuring
<1>3. /\ UNCHANGED <<disturbances, stopping, generation, locks, state, attempts, connection, dirty, failures>>
      /\ alive' = IF ok THEN alive ELSE alive \ {task[t].child}
      /\ Answers(task[t].child, ok)
  BY DEF Handshake, FirstList, entry
<1>4. /\ tools' \in [Entry -> BOOLEAN] /\ changed' \in [Entry -> BOOLEAN]
      /\ \A f \in Entry : changed'[f] => changed[f] \/ dirty[f]
  <2>1. CASE Handshake(t, ok) BY <2>1, <1>0 DEF Handshake, entry, Shapes
  <2>2. CASE FirstList(t, ok) /\ ok BY <2>2, <1>0, <1>1 DEF FirstList, Shapes
  <2>3. CASE FirstList(t, ok) /\ ~ok BY <2>3, <1>0 DEF FirstList, Shapes
  <2> QED BY <2>1, <2>2, <2>3
<1>5. PICK a \in {"list", "healthy", "fail"} : Goto(t, a) /\ (a = "fail" <=> ~ok)
  BY DEF Handshake, FirstList
<1>6. a \in Places /\ a \in Starting /\ a \notin Using \cup Sweeping \cup {"publish"} /\ (a \in Born <=> ok)
  BY <1>5 DEF Places, Ensuring, Starting, Using, Sweeping, Born
<1>7. PICK u : Moves(t, u) /\ Same(t, u) /\ u.at = a /\ u.child = task[t].child
  BY <1>0, <1>5, <1>6, GotoMoves
<1>8. Hands(t, u, e) BY <1>0, <1>1, <1>2, <1>3, <1>6, <1>7, HandsKept
<1>9. Base' BY <1>0, <1>1, <1>2, <1>3, <1>4, <1>6, <1>7, <1>8, Ordinary DEF Shapes, locks
<1>10. \A o \in Tasks : task'[o] = IF o = t THEN u ELSE task[o] BY <1>0, <1>7, Moved
<1>11. \A o \in Tasks : Of(o)' = Of(o) BY <1>7, <1>10 DEF Of, Same
<1>12. Noticed'
  <2> SUFFICES ASSUME Steady PROVE Living' /\ Flagged' BY <1>3 DEF Noticed, Steady
  <2>1. Living /\ Flagged BY DEF Inv, Noticed
  <2>2. task[t].child \in alive BY <1>2, <2>1 DEF Living
  <2>3. ok BY <1>3, <2>2 DEF Answers, Steady
  <2>4. u.at # "relist" /\ task[t].at # "relist" BY <1>0, <1>5, <1>7
  <2>5. Living' BY <1>2, <1>3, <1>7, <1>10, <1>11, <2>1, <2>3, <2>4 DEF Living
  <2>6. Flagged' BY <1>3, <1>4, <1>10, <1>11, <2>1, <2>4 DEF Flagged, At
  <2> QED BY <2>5, <2>6
<1>13. Before(t) => After(u)
  <2> SUFFICES ASSUME Before(t) PROVE After(u) OBVIOUS
  <2>1. connection[e] = NoChild BY <1>1, <1>2 DEF Before, Reserved, Of
  <2>2. \A f \in Entry : state'[f] = "healthy" <=> connection'[f] # NoChild
    BY <1>2, <1>3, EnsureReserved
  <2>3. \A f \in Entry : connection'[f] # NoChild => f[1] = generation
    BY <1>2, <1>3, EnsureReserved
  <2>4. \A d \in alive' : (\E f \in Entry : connection'[f] = d) \/ (u.at \in Born /\ u.child = d)
    BY <1>2, <1>3, <1>6, <1>7 DEF Before, Reserved
  <2>5. /\ ~stopping /\ task[t].kind # "shutdown" /\ task[t].child # NoChild
        /\ \A f \in Elements(task[t].todo) : f[1] = generation
    BY <1>0, <1>2 DEF Before, Reserved, Sweeping
  <2> QED BY <1>1, <1>3, <1>6, <1>7, <2>1, <2>2, <2>3, <2>4, <2>5 DEF After, Reserved, Same, Of
<1>14. InSequence' BY <1>0, <1>3, <1>7, <1>13, SequenceMoves
<1> QED BY <1>9, <1>12, <1>14 DEF Inv

LEMMA HealthyGood == ASSUME Inv, NEW t \in Tasks, Healthy(t) PROVE Inv'
<1>0. task[t].at = "healthy" /\ Base /\ Shapes BY DEF Healthy, At, Inv, Base
<1>1. PICK e \in Entry : e = Of(t) BY <1>0, TaskFacts
<1>2. task[t].at \in Starting \cap Born /\ task[t].at \notin Using /\ task[t].at \in Ensuring \ {"publish"}
  BY <1>0 DEF Starting, Using, Born, Ensuring
<1>3. /\ UNCHANGED <<disturbances, stopping, generation, locks, attempts, connection, tools, dirty,
                     failures, changed, alive>>
      /\ state' = [state EXCEPT ![e] = "healthy"]
  BY <1>1 DEF Healthy
<1>4. state' \in [Entry -> States] /\ \A f \in Entry : state'[f] = IF f = e THEN "healthy" ELSE state[f]
  BY <1>0, <1>3 DEF Shapes, States
<1>5. "publish" \in Places \cap Starting \cap Born /\ "publish" \notin Using \cup Sweeping
  BY DEF Places, Ensuring, Starting, Born, Using, Sweeping
<1>6. PICK u : Moves(t, u) /\ Same(t, u) /\ u.at = "publish" /\ u.child = task[t].child
  BY <1>0, <1>5, GotoMoves DEF Healthy
<1>7. Hands(t, u, e) BY <1>0, <1>1, <1>2, <1>3, <1>5, <1>6, HandsKept
<1>8. Base' BY <1>0, <1>1, <1>2, <1>3, <1>4, <1>6, <1>7, Ordinary DEF Shapes, locks
<1>9. Noticed' BY <1>0, <1>2, <1>3, <1>6, NoticedKept DEF Steady
<1>10. Before(t) => After(u)
  <2> SUFFICES ASSUME Before(t) PROVE After(u) OBVIOUS
  <2>1. connection[e] = NoChild BY <1>1, <1>2 DEF Before, Reserved, Of
  <2>2. Head(u.todo) = e BY <1>1, <1>6 DEF Same, Of
  <2>3. \A f \in Entry \ {e} : state'[f] = "healthy" <=> connection'[f] # NoChild
    BY <1>2, <1>3, <1>4, EnsureReserved
  <2>4. \A f \in Entry : connection'[f] # NoChild => f[1] = generation
    BY <1>2, <1>3, EnsureReserved
  <2>5. \A d \in alive' : (\E f \in Entry : connection'[f] = d) \/ (u.at \in Born /\ u.child = d)
    BY <1>2, <1>3, <1>5, <1>6 DEF Before, Reserved
  <2>6. /\ ~stopping /\ task[t].kind # "shutdown" /\ task[t].child # NoChild
        /\ \A f \in Elements(task[t].todo) : f[1] = generation
    BY <1>0, <1>2 DEF Before, Reserved, Sweeping
  <2> QED BY <1>3, <1>4, <1>5, <1>6, <2>1, <2>2, <2>3, <2>4, <2>5, <2>6 DEF After, Reserved, Same
<1>11. InSequence' BY <1>0, <1>3, <1>6, <1>10, SequenceMoves
<1> QED BY <1>8, <1>9, <1>11 DEF Inv

LEMMA PublishConnectionGood == ASSUME Inv, NEW t \in Tasks, PublishConnection(t) PROVE Inv'
<1>0. task[t].at = "publish" /\ Base /\ Shapes BY DEF PublishConnection, At, Inv, Base
<1>1. PICK e \in Entry : e = Of(t) BY <1>0, TaskFacts
<1>2. task[t].at \in Starting \cap Born \cap Ensuring /\ task[t].at \notin Using
  BY <1>0 DEF Starting, Using, Born, Ensuring
<1>3. PICK c \in Children \cup {NoChild} : c = task[t].child
  BY <1>0, TaskFacts DEF Records
<1>4. /\ UNCHANGED <<disturbances, stopping, generation, user, state, tools, dirty, changed, alive>>
      /\ user[e] = Nobody
      /\ connection' = [connection EXCEPT ![e] = c] /\ starter' = [starter EXCEPT ![e] = Nobody]
      /\ attempts' = [attempts EXCEPT ![e] = 0] /\ failures' = [failures EXCEPT ![e] = 0]
      /\ Return(t, c)
  BY <1>1, <1>3 DEF PublishConnection
<1>5. PICK u : Moves(t, u) /\ Returns(t, u, c) BY <1>0, <1>4, ReturnMoves
<1>6. u.at \notin Starting \cup Using \cup Born /\ u.at # "relist" BY <1>5, ReturnPlaces DEF Using
<1>7. /\ connection' \in [Entry -> Children \cup {NoChild}]
      /\ starter' \in [Entry -> Tasks \cup {Nobody}] /\ attempts' \in [Entry -> Nat]
      /\ failures' \in [Entry -> Nat]
      /\ \A f \in Entry : connection'[f] = IF f = e THEN c ELSE connection[f]
      /\ \A f \in Entry : starter'[f] = IF f = e THEN Nobody ELSE starter[f]
      /\ \A f \in Entry : attempts'[f] = IF f = e THEN 0 ELSE attempts[f]
      /\ \A f \in Entry : failures'[f] = IF f = e THEN 0 ELSE failures[f]
  BY <1>0, <1>4 DEF Shapes
<1>8. Hands(t, u, e) BY <1>2, <1>4, <1>6, <1>7 DEF Hands
<1>9. Owned' BY <1>0, <1>1, <1>5, <1>8, HandsOwned
<1>10. Shapes' BY <1>0, <1>4, <1>5, <1>7, Moved DEF Shapes
<1>11. Counted' BY <1>0, <1>7 DEF Base, Counted
<1>12. \A o \in Tasks : task'[o] = IF o = t THEN u ELSE task[o] BY <1>0, <1>5, Moved
<1>13. \A o \in Tasks \ {t} : Of(o)' = Of(o) BY <1>12 DEF Of
<1>14. Noticed'
  <2> SUFFICES ASSUME Steady PROVE Living' /\ Flagged' BY <1>4 DEF Noticed, Steady
  <2>1. Living /\ Flagged BY DEF Inv, Noticed
  <2>2. c \in alive /\ (\A f \in Entry : connection[f] # c) BY <1>2, <1>3, <2>1 DEF Living
  <2>3. \A o \in Tasks : task[o].at = "relist" => Of(o) # e /\ Of(o) \in Entry
    <3> SUFFICES ASSUME NEW o \in Tasks, task[o].at = "relist" PROVE Of(o) # e /\ Of(o) \in Entry OBVIOUS
    <3>1. user[Of(o)] = o BY <1>0 DEF Base, Owned, Using
    <3> QED BY <1>0, <1>4, <3>1, Apart, TaskFacts
  <2>4. \A o \in Tasks \ {t} : task[o].at \in Born => task[o].child # c
    BY <1>2, <1>3, <2>1 DEF Living
  <2>5. Living' BY <1>4, <1>6, <1>7, <1>12, <1>13, <2>1, <2>2, <2>3, <2>4 DEF Living
  <2>6. Flagged' BY <1>0, <1>4, <1>6, <1>12, <1>13, <2>1 DEF Flagged, At
  <2> QED BY <2>5, <2>6
<1>15. Before(t) => After(u)
  <2> SUFFICES ASSUME Before(t) PROVE After(u) OBVIOUS
  <2>1. connection[e] = NoChild /\ state[e] = "healthy" /\ c # NoChild /\ e[1] = generation /\ ~stopping
    BY <1>0, <1>1, <1>2, <1>3, TaskFacts DEF Before, Reserved, Of
  <2>2. \A f \in Entry : connection[f] # NoChild => f[1] = generation
    BY <1>0 DEF Before, Reserved, Sweeping
  <2>3. \A f \in Entry \ {e} : state[f] = "healthy" <=> connection[f] # NoChild
    BY <1>1 DEF Before, Reserved, Of
  <2>4. \A d \in alive : d = c \/ \E f \in Entry : connection[f] = d /\ d # NoChild
    BY <1>0, <1>3, Apart DEF Before, Reserved, Shapes
  <2>5. \A d \in alive' : \E f \in Entry : connection'[f] = d
    BY <1>4, <1>7, <2>1, <2>4
  <2>6. \A f \in Entry : connection'[f] # NoChild => f[1] = generation
    BY <1>7, <2>1, <2>2
  <2>7. \A f \in Entry : state'[f] = "healthy" <=> connection'[f] # NoChild
    BY <1>4, <1>7, <2>1, <2>3
  <2> QED BY <1>2, <1>4, <1>5, <2>5, <2>6, <2>7, ReturnReserved DEF After
<1>16. InSequence' BY <1>0, <1>4, <1>5, <1>15, SequenceMoves
<1> QED BY <1>9, <1>10, <1>11, <1>14, <1>16 DEF Inv, Base
LEMMA FailGood == ASSUME Inv, NEW t \in Tasks, Fail(t) PROVE Inv'
<1>0. task[t].at = "fail" /\ Base /\ Shapes BY DEF Fail, At, Inv, Base
<1>1. PICK e \in Entry : e = Of(t) BY <1>0, TaskFacts
<1>2. /\ task[t].at \in Starting /\ task[t].at \notin Using \cup Born
      /\ task[t].at \in Ensuring \ {"publish"}
  BY <1>0 DEF Starting, Using, Born, Ensuring
<1>3. /\ UNCHANGED <<disturbances, stopping, generation, user, connection, tools, dirty, changed, alive>>
      /\ state' = [state EXCEPT ![e] = "failed"] /\ starter' = [starter EXCEPT ![e] = Nobody]
      /\ attempts' = [attempts EXCEPT ![e] = @ + 1] /\ failures' = [failures EXCEPT ![e] = @ + 1]
      /\ Return(t, NoChild)
  BY <1>1 DEF Fail
<1>4. PICK u : Moves(t, u) /\ Returns(t, u, NoChild) BY <1>0, <1>3, ReturnMoves
<1>5. u.at \notin Starting \cup Using \cup Born /\ u.at # "relist" BY <1>4, ReturnPlaces DEF Using
<1>6. /\ state' \in [Entry -> States] /\ starter' \in [Entry -> Tasks \cup {Nobody}]
      /\ attempts' \in [Entry -> Nat] /\ failures' \in [Entry -> Nat]
      /\ \A f \in Entry : state'[f] = IF f = e THEN "failed" ELSE state[f]
      /\ \A f \in Entry : starter'[f] = IF f = e THEN Nobody ELSE starter[f]
      /\ \A f \in Entry : attempts'[f] = IF f = e THEN attempts[e] + 1 ELSE attempts[f]
      /\ \A f \in Entry : failures'[f] = IF f = e THEN failures[e] + 1 ELSE failures[f]
  BY <1>0, <1>3 DEF Shapes, States
<1>7. Hands(t, u, e) BY <1>2, <1>3, <1>5, <1>6 DEF Hands
<1>8. Owned' BY <1>0, <1>1, <1>4, <1>7, HandsOwned
<1>9. Shapes' BY <1>0, <1>3, <1>4, <1>6, Moved DEF Shapes
<1>10. Counted'
  <2>1. starter[e] = t /\ t # Nobody BY <1>0, <1>1, <1>2, Apart DEF Base, Owned
  <2>2. /\ attempts[e] \in Nat /\ MaxAttempts \in Nat /\ failures[e] = attempts[e]
        /\ attempts[e] = 0 \/ attempts[e] < MaxAttempts
    BY <1>0, <2>1, McpAssumption DEF Base, Shapes, Counted
  <2>3. attempts[e] + 1 <= MaxAttempts \/ (MaxAttempts = 0 /\ attempts[e] + 1 = 1) BY <2>2
  <2> QED BY <1>0, <1>6, <2>2, <2>3 DEF Base, Counted
<1>11. Noticed' BY <1>0, <1>2, <1>3, <1>4, <1>5, NoticedKept DEF Steady
<1>12. Before(t) => After(u)
  <2> SUFFICES ASSUME Before(t) PROVE After(u) OBVIOUS
  <2>1. connection[e] = NoChild BY <1>1, <1>2 DEF Before, Reserved, Of
  <2>2. \A f \in Entry : state'[f] = "healthy" <=> connection'[f] # NoChild
    BY <1>2, <1>3, <1>6, <2>1, EnsureReserved
  <2> QED BY <1>2, <1>3, <1>4, <2>2, EnsureReserved, ReturnReserved DEF After
<1>13. InSequence' BY <1>0, <1>3, <1>4, <1>12, SequenceMoves
<1> QED BY <1>8, <1>9, <1>10, <1>11, <1>13 DEF Inv, Base

-----------------------------------------------------------------------------
(* The actions: call, stop_entry and diagnostics.                           *)

\* A step between places where no mutex is held and no child is new.
Aside == {"idle", "ensure", "invoke", "stop", "stopped", "read", "count"}

LEMMA AsideGood ==
    ASSUME Inv, NEW t \in Tasks, NEW u, Moves(t, u), task[t].at \in Aside, u.at \in Aside,
           generation' \in 1..MaxGeneration,
           UNCHANGED <<disturbances, locks, attempts, connection, tools, dirty, failures,
                       changed, alive>>,
           state' \in [Entry -> States], stopping => stopping',
           Tidy => task[t].at # "idle" \/ Quiet, Tidy /\ Before(t) => After(u)
    PROVE  Inv'
<1>1. /\ task[t].at \notin Starting \cup Using \cup Born /\ task[t].at # "relist"
      /\ u.at \notin Starting \cup Using \cup Born /\ u.at # "relist"
  BY DEF Aside, Starting, Using, Born
<1>2. PICK e \in Entry : TRUE
  <2>1. 1 \in 1..MaxGeneration /\ 1 \in 1..Servers BY McpAssumption
  <2>2. <<1, 1>> \in Entry BY <2>1 DEF Entry
  <2> QED BY <2>2
<1>3. Base /\ Shapes BY DEF Inv, Base
<1>4. Hands(t, u, e) BY <1>1, <1>3, HandsKept
<1>5. Base' BY <1>1, <1>3, <1>4, Ordinary DEF Shapes, locks
<1>6. Noticed' BY <1>1, NoticedKept DEF Steady
<1>7. InSequence' BY SequenceMoves
<1> QED BY <1>5, <1>6, <1>7 DEF Inv

LEMMA AnsweredGood == ASSUME Inv, NEW t \in Tasks, Answered(t) PROVE Inv'
<1>1. /\ task[t].at = "invoke" /\ Shapes /\ Moves(t, NoTask)
      /\ UNCHANGED <<disturbances, stopping, generation, locks, entry, alive>>
  BY FinishMoves DEF Answered, At, Inv, Base
<1>2. task[t].at \in Ensuring \ {"publish"} /\ task[t].at \notin Born BY <1>1 DEF Ensuring, Starting, Born
<1>3. Returns(t, NoTask, NoChild) BY DEF Returns
<1>4. Before(t) => After(NoTask)
  BY <1>1, <1>2, <1>3, EnsureReserved, ReturnReserved DEF After, entry
<1>5. task[t].at \in Aside /\ NoTask.at \in Aside BY <1>1, Apart DEF Aside
<1> QED BY <1>1, <1>4, <1>5, AsideGood DEF entry, Shapes

LEMMA UncertainGood == ASSUME Inv, NEW t \in Tasks, Uncertain(t) PROVE Inv'
<1>1. /\ task[t].at = "invoke" /\ Shapes /\ StepTo(t, "stop", NoChild)
      /\ UNCHANGED <<disturbances, stopping, generation, locks, entry, alive>>
  BY DEF Uncertain, StepTo, At, Inv, Base
<1>2. task[t].at \in Ensuring \ {"publish"} /\ task[t].at \notin Born BY <1>1 DEF Ensuring, Starting, Born
<1>3. "stop" \in Places BY DEF Places, Sweeping
<1>4. PICK u : Moves(t, u) /\ Same(t, u) /\ u.at = "stop" /\ u.child = NoChild
  BY <1>1, <1>3, StepMoves
<1>5. Before(t) => After(u)
  <2> SUFFICES ASSUME Before(t) PROVE After(u) OBVIOUS
  <2>1. ~stopping /\ task[t].kind # "shutdown"
    BY <1>1, <1>2 DEF Before, Reserved, Sweeping
  <2>2. u.at \in Sweeping /\ u.at \notin Ensuring \cup Starting \cup Born \cup {"attempts", "waiting", "stopped"}
    BY <1>4 DEF Sweeping, Ensuring, Starting, Born
  <2> QED BY <1>1, <1>2, <1>4, <2>1, <2>2, EnsureReserved DEF After, Reserved, Same, entry
<1>6. task[t].at \in Aside /\ u.at \in Aside BY <1>1, <1>4 DEF Aside
<1> QED BY <1>1, <1>4, <1>5, <1>6, AsideGood DEF entry, Shapes

LEMMA TakeConnectionGood == ASSUME Inv, NEW t \in Tasks, TakeConnection(t) PROVE Inv'
<1>0. task[t].at = "stop" /\ Base /\ Shapes BY DEF TakeConnection, At, Inv, Base
<1>1. PICK e \in Entry : e = Of(t) BY <1>0, TaskFacts
<1>2. task[t].at \notin Starting \cup Using \cup Born \cup Ensuring /\ task[t].at \in Sweeping
  BY <1>0 DEF Starting, Using, Born, Ensuring, Sweeping
<1>3. /\ UNCHANGED <<disturbances, stopping, generation, starter, state, attempts, tools, dirty,
                     failures, changed>>
      /\ user[e] = Nobody
  BY <1>1 DEF TakeConnection
<1>4. CASE connection[e] = NoChild
  <2>1. Goto(t, "stopped") /\ UNCHANGED <<user, connection, alive>> BY <1>1, <1>4 DEF TakeConnection
  <2>2. "stopped" \in Places BY DEF Places, Sweeping
  <2>3. PICK u : Moves(t, u) /\ Same(t, u) /\ u.at = "stopped" /\ u.child = task[t].child
    BY <1>0, <2>1, <2>2, GotoMoves
  <2>4. u.at \in Sweeping /\ u.at \notin Ensuring \cup Starting \cup Born
    BY <2>3 DEF Sweeping, Ensuring, Starting, Born
  <2>5. Before(t) => After(u)
    BY <1>0, <1>1, <1>2, <1>3, <1>4, <2>1, <2>3, <2>4 DEF Before, After, Reserved, Same, Of
  <2>6. task[t].at \in Aside /\ u.at \in Aside BY <1>0, <2>3 DEF Aside
  <2> QED BY <1>0, <1>3, <2>1, <2>3, <2>5, <2>6, AsideGood DEF locks, Shapes
<1>5. CASE connection[e] # NoChild
  <2>1. /\ Goto(t, "waiting") /\ user' = [user EXCEPT ![e] = t]
        /\ connection' = [connection EXCEPT ![e] = NoChild] /\ alive' = alive \ {connection[e]}
    BY <1>1, <1>5 DEF TakeConnection
  <2>2. "waiting" \in Places BY DEF Places, Sweeping
  <2>3. PICK u : Moves(t, u) /\ Same(t, u) /\ u.at = "waiting" /\ u.child = task[t].child
    BY <1>0, <2>1, <2>2, GotoMoves
  <2>4. u.at \in Sweeping \cap Using /\ u.at \notin Ensuring \cup Starting \cup Born
    BY <2>3 DEF Sweeping, Using, Ensuring, Starting, Born
  <2>5. /\ connection' \in [Entry -> Children \cup {NoChild}] /\ user' \in [Entry -> Tasks \cup {Nobody}]
        /\ \A f \in Entry : connection'[f] = IF f = e THEN NoChild ELSE connection[f]
        /\ \A f \in Entry : user'[f] = IF f = e THEN t ELSE user[f]
        /\ alive' \subseteq Children
    BY <1>0, <2>1 DEF Shapes
  <2>6. Hands(t, u, e) BY <1>1, <1>2, <1>3, <2>3, <2>4, <2>5 DEF Hands
  <2>7. Base' BY <1>0, <1>2, <1>3, <2>3, <2>4, <2>5, <2>6, Ordinary DEF Shapes
  <2>8. \A o \in Tasks : task'[o] = IF o = t THEN u ELSE task[o] BY <1>0, <2>3, Moved
  <2>9. \A o \in Tasks : Of(o)' = Of(o) BY <2>3, <2>8 DEF Of, Same
  <2>10. Noticed'
    <3> SUFFICES ASSUME Steady PROVE Living' /\ Flagged' BY <1>3 DEF Noticed, Steady
    <3>1. Living /\ Flagged BY DEF Inv, Noticed
    <3>2. \A o \in Tasks : task[o].at = "relist" => Of(o) # e /\ Of(o) \in Entry
      <4> SUFFICES ASSUME NEW o \in Tasks, task[o].at = "relist" PROVE Of(o) # e /\ Of(o) \in Entry OBVIOUS
      <4>1. user[Of(o)] = o BY <1>0 DEF Base, Owned, Using
      <4> QED BY <1>0, <1>3, <4>1, Apart, TaskFacts
    <3>3. \A f \in Entry \ {e} : connection[f] # connection[e] BY <1>5, <3>1 DEF Living
    <3>4. \A f \in Entry : connection'[f] # NoChild => connection'[f] \in alive'
      BY <2>1, <2>5, <3>1, <3>3 DEF Living
    <3>5. \A f, g \in Entry : connection'[f] = connection'[g] /\ connection'[f] # NoChild => f = g
      BY <2>5, <3>1 DEF Living
    <3>6. \A o \in Tasks : task'[o].at \in Born =>
             o # t /\ task'[o] = task[o] /\ task[o].at \in Born /\ task[o].child # connection[e]
      BY <2>4, <2>8, <3>1 DEF Living
    <3>7. \A o \in Tasks : task'[o].at \in Born =>
             /\ task'[o].child \in alive'
             /\ \A f \in Entry : connection'[f] # task'[o].child
      BY <2>1, <2>5, <3>1, <3>6, Apart DEF Living, Inv, Base, Shapes
    <3>8. \A o, p \in Tasks : task'[o].at \in Born /\ task'[p].at \in Born /\ task'[p].child = task'[o].child
             => p = o
      BY <3>1, <3>6 DEF Living
    <3>9. \A o \in Tasks : task'[o].at = "relist" =>
             connection'[Of(o)'] = task'[o].child /\ task'[o].child # NoChild
      BY <2>3, <2>5, <2>8, <2>9, <3>1, <3>2 DEF Living
    <3>10. Living' BY <3>4, <3>5, <3>7, <3>8, <3>9 DEF Living
    <3>11. Flagged' BY <1>0, <1>3, <2>3, <2>8, <2>9, <3>1 DEF Flagged, At
    <3> QED BY <3>10, <3>11
  <2>11. Before(t) => After(u)
    <3> SUFFICES ASSUME Before(t) PROVE After(u) OBVIOUS
    <3>1. \A d \in alive' : \E f \in Entry : connection'[f] = d
      BY <1>2, <2>1, <2>5 DEF Before, Reserved
    <3>2. \A f \in Entry : connection'[f] # NoChild => connection[f] # NoChild BY <2>5
    <3>3. Head(u.todo) = e /\ connection'[e] = NoChild BY <1>1, <2>3, <2>5 DEF Same, Of
    <3>4. \A f \in Entry \ {e} : state'[f] = "healthy" <=> connection'[f] # NoChild
      BY <1>0, <1>3, <2>5 DEF Before, Reserved
    <3> QED BY <1>0, <1>2, <1>3, <2>3, <2>4, <3>1, <3>2, <3>3, <3>4 DEF Before, After, Reserved, Same
  <2>12. InSequence' BY <1>0, <1>3, <2>3, <2>11, SequenceMoves
  <2> QED BY <2>7, <2>10, <2>12 DEF Inv
<1> QED BY <1>4, <1>5
LEMMA WaitedGood == ASSUME Inv, NEW t \in Tasks, Waited(t) PROVE Inv'
<1>0. task[t].at = "waiting" /\ Base /\ Shapes BY DEF Waited, At, Inv, Base
<1>1. PICK e \in Entry : e = Of(t) BY <1>0, TaskFacts
<1>2. /\ task[t].at \in Using \cap Sweeping /\ task[t].at \notin Starting \cup Born \cup Ensuring
      /\ task[t].at # "relist"
  BY <1>0 DEF Starting, Using, Born, Ensuring, Sweeping
<1>3. /\ UNCHANGED <<disturbances, stopping, generation, starter, entry, alive>>
      /\ user' = [user EXCEPT ![e] = Nobody]
  BY <1>1 DEF Waited
<1>4. "stopped" \in Places BY DEF Places, Sweeping
<1>5. PICK u : Moves(t, u) /\ Same(t, u) /\ u.at = "stopped" /\ u.child = task[t].child
  BY <1>0, <1>4, GotoMoves DEF Waited
<1>6. u.at \in Sweeping /\ u.at \notin Ensuring \cup Starting \cup Born \cup Using
  BY <1>5 DEF Sweeping, Using, Ensuring, Starting, Born
<1>7. /\ user' \in [Entry -> Tasks \cup {Nobody}]
      /\ \A f \in Entry : user'[f] = IF f = e THEN Nobody ELSE user[f]
  BY <1>0, <1>3 DEF Shapes
<1>8. Hands(t, u, e) BY <1>2, <1>3, <1>6, <1>7 DEF Hands
<1>9. Base' BY <1>0, <1>1, <1>2, <1>3, <1>5, <1>6, <1>7, <1>8, Ordinary DEF Shapes, entry
<1>10. Noticed' BY <1>2, <1>3, <1>5, <1>6, NoticedKept DEF Steady, entry
<1>11. Before(t) => After(u)
  BY <1>0, <1>2, <1>3, <1>5, <1>6 DEF Before, After, Reserved, Same, entry
<1>12. InSequence' BY <1>0, <1>3, <1>5, <1>11, SequenceMoves
<1> QED BY <1>9, <1>10, <1>12 DEF Inv

LEMMA StoppedGood == ASSUME Inv, NEW t \in Tasks, Stopped(t) PROVE Inv'
<1>0. task[t].at = "stopped" /\ Base /\ Shapes BY DEF Stopped, At, Inv, Base
<1>1. PICK e \in Entry : e = Of(t) BY <1>0, TaskFacts
<1>2. /\ UNCHANGED <<disturbances, stopping, generation, locks, attempts, connection, tools, dirty,
                     failures, changed, alive>>
      /\ state' = [state EXCEPT ![e] = "stopped"]
  BY <1>1 DEF Stopped
<1>3. state' \in [Entry -> States] /\ \A f \in Entry : state'[f] = IF f = e THEN "stopped" ELSE state[f]
  BY <1>0, <1>2 DEF Shapes, States
<1>4. PICK s \in Seq(Entry) : s = task[t].todo /\ s # <<>> BY <1>0, TaskFacts DEF Records
<1>5. /\ Tail(s) \in Seq(Entry) /\ \A f \in Elements(s) : f = e \/ f \in Elements(Tail(s))
  BY <1>1, <1>4, TailElements DEF Of
<1>6. PICK u : /\ Moves(t, u)
               /\ \/ u = NoTask /\ task[t].kind = "call"
                  \/ Loops(t, u, task[t].kind, "stop", Tail(s))
  <2>1. CASE task[t].kind = "call" BY <2>1, FinishMoves DEF Stopped
  <2>2. CASE task[t].kind # "call"
    <3>1. Advance(t, "stop") BY <2>2 DEF Stopped
    <3>2. "stop" \in Places BY DEF Places, Sweeping
    <3> QED BY <1>0, <1>4, <3>1, <3>2, AdvanceMoves
  <2> QED BY <2>1, <2>2
<1>7. u.at \in {"idle", "stop", "ensure"} BY <1>6, Apart DEF Loops
<1>8. Before(t) => After(u)
  <2> SUFFICES ASSUME Before(t) PROVE After(u) OBVIOUS
  <2>1. connection[e] = NoChild BY <1>0, <1>1 DEF Before, Reserved, Of
  <2>2. \A f \in Entry : state'[f] = "healthy" <=> connection'[f] # NoChild
    BY <1>0, <1>1, <1>2, <1>3, <2>1 DEF Before, Reserved, Of
  <2>3. \A d \in alive' : \E f \in Entry : connection'[f] = d
    BY <1>0, <1>2 DEF Before, Reserved, Born
  <2>4. \A f \in Entry : connection[f] # NoChild =>
           \/ f[1] = generation /\ ~stopping
           \/ task[t].kind \in {"reconcile", "shutdown"} /\ f \in Elements(Tail(s))
    BY <1>4, <1>5, <2>1 DEF Before, Reserved
  <2>5. stopping => task[t].kind = "shutdown" BY <1>0 DEF Before, Reserved
  <2>6. Elements(<<>>) = {} BY DEF Elements
  <2>7. u.at \notin Starting \cup Born \cup {"attempts", "waiting", "stopped", "publish"}
    BY <1>7 DEF Starting, Born
  <2>8. CASE u = NoTask
    <3>1. u.at = "idle" /\ u.kind = "none" BY <2>8, Apart
    <3>2. task[t].kind = "call" \/ Tail(s) = <<>> \/ NoTask.kind = task[t].kind
      BY <1>6, <2>8, <3>1 DEF Loops
    <3>3. \A f \in Entry : connection[f] # NoChild => f[1] = generation /\ ~stopping
      BY <2>4, <2>6, <3>2, Apart
    <3> QED BY <1>2, <2>2, <2>3, <2>7, <3>1, <3>3, IdlePlaces DEF After, Reserved
  <2>9. CASE u.kind = task[t].kind /\ u.at = "stop" /\ u.todo = Tail(s)
    <3>1. u.at \in Sweeping /\ u.at \notin Ensuring BY <2>9 DEF Sweeping, Ensuring, Starting
    <3> QED BY <1>2, <2>2, <2>3, <2>4, <2>5, <2>7, <2>9, <3>1 DEF After, Reserved
  <2>10. CASE /\ task[t].kind = "reconcile" /\ Tail(s) = <<>>
              /\ u.kind = task[t].kind /\ u.at = "ensure" /\ Lists(u.todo, generation)
    <3>1. \A f \in Entry : connection[f] # NoChild => f[1] = generation /\ ~stopping
      BY <2>4, <2>6, <2>10
    <3>2. ~stopping /\ u.kind # "shutdown" BY <2>5, <2>10
    <3> QED BY <1>2, <2>2, <2>3, <2>7, <2>10, <3>1, <3>2 DEF After, Reserved, Lists
  <2> QED BY <1>6, <2>8, <2>9, <2>10 DEF Loops
<1>9. task[t].at \in Aside /\ u.at \in Aside BY <1>0, <1>7 DEF Aside
<1> QED BY <1>0, <1>2, <1>3, <1>6, <1>8, <1>9, AsideGood DEF Shapes

\* diagnostics change nothing.
LEMMA DiagnosticsGood ==
    ASSUME Inv, NEW t \in Tasks, ReadEntry(t) \/ CountAttempts(t)
    PROVE  Inv'
<1>1. /\ task[t].at \in {"read", "count"} /\ Shapes
      /\ UNCHANGED <<disturbances, stopping, generation, locks, entry, alive>>
  BY DEF ReadEntry, CountAttempts, At, Inv, Base
<1>2. PICK u : Moves(t, u) /\ (u = NoTask \/ (u.at \in {"read", "count"} /\ u.kind = task[t].kind))
  <2>1. "read" \in Places /\ "count" \in Places BY DEF Places
  <2>2. CASE ReadEntry(t)
    <3>1. PICK u : Moves(t, u) /\ Same(t, u) /\ u.at = "count" /\ u.child = task[t].child
      BY <1>1, <2>1, <2>2, GotoMoves DEF ReadEntry
    <3> QED BY <3>1 DEF Same
  <2>3. CASE CountAttempts(t)
    <3>1. PICK u : Moves(t, u) /\ Loops(t, u, task[t].kind, "read", Tail(task[t].todo))
      BY <1>1, <2>1, <2>3, AdvanceMoves DEF CountAttempts
    <3> QED BY <3>1 DEF Loops
  <2> QED BY <2>2, <2>3
<1>3. Before(t) => After(u)
  <2> SUFFICES ASSUME Before(t) PROVE After(u) OBVIOUS
  <2>1. task[t].at \notin Born \cup Sweeping \cup {"publish", "waiting", "stopped"} /\ task[t].at # "idle"
    BY <1>1 DEF Born, Sweeping
  <2>2. u.at \notin Born \cup Sweeping \cup Ensuring \cup Starting
              \cup {"attempts", "publish", "waiting", "stopped"}
    BY <1>2, Apart, IdlePlaces DEF Born, Sweeping, Ensuring, Starting
  <2>3. ~stopping /\ task[t].kind # "shutdown" BY <2>1 DEF Before, Reserved
  <2>4. u.kind # "shutdown" BY <1>2, <2>3, Apart
  <2> QED BY <1>1, <2>1, <2>2, <2>3, <2>4 DEF Before, After, Reserved, entry
<1>4. task[t].at \in Aside /\ u.at \in Aside BY <1>1, <1>2, Apart DEF Aside
<1>5. task[t].at # "idle" BY <1>1
<1> QED BY <1>1, <1>2, <1>3, <1>4, <1>5, AsideGood DEF entry, Shapes

-----------------------------------------------------------------------------
(* The actions: new requests, the environment and a restart.                *)

\* A request begins: with others only if that is a disturbance.
LEMMA Begun ==
    ASSUME Inv, NEW t \in Tasks, NEW kind, MayBegin(t, kind)
    PROVE  /\ task[t].at = "idle" /\ task[t].at \in Aside /\ ~stopping
           /\ Tidy => Quiet
           /\ Before(t) =>
                /\ \A c \in alive : \E e \in Entry : connection[e] = c
                /\ \A e \in Entry : connection[e] # NoChild => e[1] = generation
                /\ \A e \in Entry : state[e] = "healthy" <=> connection[e] # NoChild
<1>1. task[t].at = "idle" /\ ~stopping BY DEF MayBegin, At
<1>2. Tidy => Quiet BY DEF MayBegin, Tidy
<1>3. Before(t) =>
        /\ \A c \in alive : \E e \in Entry : connection[e] = c
        /\ \A e \in Entry : connection[e] # NoChild => e[1] = generation
        /\ \A e \in Entry : state[e] = "healthy" <=> connection[e] # NoChild
  BY <1>1, IdlePlaces DEF Before, Reserved
<1> QED BY <1>1, <1>2, <1>3 DEF Aside
LEMMA BeginGood == ASSUME Inv, NEW t \in Tasks, NEW kind \in Kinds, Begin(t, kind) PROVE Inv'
<1>0. Shapes BY DEF Inv, Base
<1>1. /\ kind \in {"catalog", "diagnose", "shutdown"} /\ MayBegin(t, kind)
      /\ stopping' = (kind = "shutdown")
      /\ UNCHANGED <<disturbances, generation, locks, entry, alive>>
  BY DEF Begin
<1>2. PICK g : g = generation /\ g \in 1..MaxGeneration BY <1>0 DEF Shapes
<1>3. PICK at \in {"ensure", "read", "stop"}, todo \in Seq(Entry) :
          /\ Visit(t, kind, at, todo) /\ Lists(todo, g)
          /\ kind = "catalog" => at = "ensure"
          /\ kind = "diagnose" => at = "read"
          /\ kind = "shutdown" => at = "stop" /\ todo = Entries(g)
  <2>1. Lists(Entries(g), g) /\ Entries(g) \in Seq(Entry) BY <1>2, EntriesList DEF Lists
  <2>2. CASE kind = "catalog"
    <3>1. PICK s : s = EnabledEntries(g, enabled) /\ Lists(s, g) BY <1>2, EnabledLists
    <3>2. Visit(t, kind, "ensure", s) BY <1>2, <2>2, <3>1 DEF Begin
    <3> QED BY <2>2, <3>1, <3>2 DEF Lists
  <2>3. CASE kind = "diagnose"
    <3>1. Visit(t, kind, "read", Entries(g)) BY <1>2, <2>3 DEF Begin
    <3> QED BY <2>1, <2>3, <3>1
  <2>4. CASE kind = "shutdown"
    <3>1. Visit(t, kind, "stop", Entries(g)) BY <1>2, <2>4 DEF Begin
    <3> QED BY <2>1, <2>4, <3>1
  <2> QED BY <1>1, <2>2, <2>3, <2>4
<1>4. at \in Places BY DEF Places, Ensuring, Sweeping
<1>5. PICK u : Moves(t, u) /\ Loops(t, u, kind, at, todo) BY <1>0, <1>3, <1>4, VisitMoves
<1>6. \/ u = NoTask /\ todo = <<>>
      \/ u.kind = kind /\ u.at = at /\ u.todo = todo /\ u.child = NoChild
  BY <1>1, <1>5 DEF Loops
<1>7. u.at \in Aside BY <1>6, Apart DEF Aside
<1>8. Before(t) => After(u)
  <2> SUFFICES ASSUME Before(t) PROVE After(u) OBVIOUS
  <2>1. /\ \A c \in alive : \E e \in Entry : connection[e] = c
        /\ \A e \in Entry : connection[e] # NoChild => e[1] = g
        /\ \A e \in Entry : state[e] = "healthy" <=> connection[e] # NoChild
    BY <1>1, <1>2, Begun
  <2>2. CASE u = NoTask
    <3>1. kind # "shutdown" BY <1>2, <1>3, <1>6, <2>2, EntriesList, Apart
    <3>2. u.at = "idle" /\ u.kind = "none" BY <2>2, Apart
    <3>3. u.at \notin {"publish", "waiting", "stopped", "attempts"} BY <3>2
    <3> QED BY <1>1, <1>2, <2>1, <3>1, <3>2, <3>3, IdlePlaces DEF After, Reserved, entry
  <2>3. CASE u # NoTask /\ kind = "shutdown"
    <3>1. u.kind = "shutdown" /\ u.at = "stop" /\ u.todo = Entries(g) BY <1>3, <1>6, <2>3
    <3>2. u.at \in Sweeping /\ u.at \notin Ensuring \cup Starting \cup Born
      BY <3>1 DEF Sweeping, Ensuring, Starting, Born
    <3>3. \A e \in Entry : connection[e] # NoChild => e \in Elements(u.todo)
      BY <1>2, <2>1, <3>1, EntriesList
    <3> QED BY <1>1, <2>1, <3>1, <3>2, <3>3 DEF After, Reserved, entry
  <2>4. CASE u # NoTask /\ kind # "shutdown"
    <3>1. u.kind = kind /\ u.at \in {"ensure", "read"} /\ u.todo = todo BY <1>1, <1>3, <1>6, <2>4
    <3>2. u.at \notin Sweeping \cup Starting \cup Born
      BY <3>1 DEF Sweeping, Starting, Born
    <3> QED BY <1>1, <1>2, <1>3, <2>1, <2>4, <3>1, <3>2 DEF After, Reserved, Lists, entry
  <2> QED BY <2>2, <2>3, <2>4
<1>9. stopping => stopping' BY <1>1, Begun
<1> QED BY <1>0, <1>1, <1>5, <1>7, <1>8, <1>9, Begun, AsideGood DEF entry, Shapes

LEMMA BeginCallGood == ASSUME Inv, NEW t \in Tasks, NEW e \in Entry, BeginCall(t, e) PROVE Inv'
<1>0. Shapes BY DEF Inv, Base
<1>1. /\ MayBegin(t, "call") /\ e[1] = generation
      /\ UNCHANGED <<disturbances, stopping, generation, locks, entry, alive>>
  BY DEF BeginCall
<1>2. PICK todo \in Seq(Entry) : todo = <<e>>
  <2>1. <<e>> \in Seq(Entry) OBVIOUS
  <2> QED BY <2>1, Zenon
<1>3. Visit(t, "call", "ensure", todo) BY <1>2 DEF BeginCall
<1>4. "ensure" \in Places /\ "call" \in Kinds BY DEF Places, Ensuring, Kinds
<1>5. PICK u : Moves(t, u) /\ Loops(t, u, "call", "ensure", todo) BY <1>0, <1>3, <1>4, VisitMoves
<1>6. todo # <<>> /\ Elements(todo) = {e} BY <1>2 DEF Elements
<1>7. u.kind = "call" /\ u.at = "ensure" /\ u.todo = todo BY <1>5, <1>6 DEF Loops
<1>8. u.at \in Aside /\ u.at \notin Sweeping \cup Starting \cup Born
  BY <1>7 DEF Aside, Sweeping, Starting, Born
<1>9. Before(t) => After(u)
  BY <1>1, <1>6, <1>7, <1>8, Begun DEF After, Reserved, entry
<1> QED BY <1>0, <1>1, <1>5, <1>8, <1>9, Begun, AsideGood DEF entry, Shapes

LEMMA ReconcileGood == ASSUME Inv, NEW t \in Tasks, NEW on, Reconcile(t, on) PROVE Inv'
<1>0. Shapes BY DEF Inv, Base
<1>1. /\ MayBegin(t, "reconcile") /\ generation < MaxGeneration /\ generation' = generation + 1
      /\ UNCHANGED <<disturbances, stopping, locks, entry, alive>>
  BY DEF Reconcile, Fresh
<1>2. PICK g \in 1..MaxGeneration : g = generation BY <1>0 DEF Shapes
<1>3. generation' \in 1..MaxGeneration BY <1>1, <1>2, McpAssumption
<1>4. PICK todo \in Seq(Entry) : todo = Entries(g) BY EntriesList DEF Lists
<1>5. Visit(t, "reconcile", "stop", todo) BY <1>2, <1>4 DEF Reconcile
<1>6. "stop" \in Places /\ "reconcile" \in Kinds BY DEF Places, Sweeping, Kinds
<1>7. PICK u : Moves(t, u) /\ Loops(t, u, "reconcile", "stop", todo) BY <1>0, <1>5, <1>6, VisitMoves
<1>8. u.kind = "reconcile" /\ u.at = "stop" /\ u.todo = todo BY <1>4, <1>7, EntriesList DEF Loops
<1>9. u.at \in Aside \cap Sweeping /\ u.at \notin Ensuring \cup Starting \cup Born
  BY <1>8 DEF Aside, Sweeping, Ensuring, Starting, Born
<1>10. Before(t) => After(u)
  <2> SUFFICES ASSUME Before(t) PROVE After(u) OBVIOUS
  <2>1. \A e \in Entry : connection[e] # NoChild => e \in Elements(u.todo)
    BY <1>1, <1>2, <1>4, <1>8, Begun, EntriesList
  <2> QED BY <1>1, <1>8, <1>9, <2>1, Begun DEF After, Reserved, entry
<1> QED BY <1>0, <1>1, <1>3, <1>7, <1>9, <1>10, Begun, AsideGood DEF entry, Shapes

LEMMA ListChangedGood == ASSUME Inv, NEW e \in Entry, ListChanged(e) PROVE Inv'
<1>1. /\ UNCHANGED <<disturbances, stopping, generation, locks, state, attempts, connection, tools,
                     failures, alive, task>>
      /\ dirty' = [dirty EXCEPT ![e] = TRUE] /\ changed' = [changed EXCEPT ![e] = TRUE]
  BY DEF ListChanged
<1>2. /\ dirty' \in [Entry -> BOOLEAN] /\ changed' \in [Entry -> BOOLEAN] /\ dirty'[e]
      /\ \A f \in Entry \ {e} : dirty'[f] = dirty[f] /\ changed'[f] = changed[f]
  BY <1>1 DEF Inv, Base, Shapes
<1>3. Shapes' BY <1>1, <1>2 DEF Inv, Base, Shapes, locks
<1>4. Owned' BY <1>1 DEF Inv, Base, Owned, locks, Of
<1>5. Counted' BY <1>1 DEF Inv, Base, Counted, locks
<1>6. Noticed' BY <1>1, <1>2 DEF Inv, Noticed, Steady, Living, Flagged, At, Of
<1>7. InSequence'
  BY <1>1 DEF Inv, InSequence, Tidy, Single, Accounted, Placed, Sweeps, Errands, Reported, Of
<1> QED BY <1>3, <1>4, <1>5, <1>6, <1>7 DEF Inv, Base

LEMMA ChildExitsGood == ASSUME Inv, NEW c \in Children, ChildExits(c) PROVE Inv'
<1>1. /\ UNCHANGED <<disturbances, stopping, generation, locks, entry, task>>
      /\ alive' = alive \ {c} /\ (Steady => c \notin InUse)
  BY DEF ChildExits, Steady
<1>2. Shapes' BY <1>1 DEF Inv, Base, Shapes, locks, entry
<1>3. Owned' BY <1>1 DEF Inv, Base, Owned, locks, Of
<1>4. Counted' BY <1>1 DEF Inv, Base, Counted, locks, entry
<1>5. Noticed'
  <2> SUFFICES ASSUME Steady PROVE Living' /\ Flagged' BY <1>1 DEF Noticed, Steady
  <2>1. Living /\ Flagged BY DEF Inv, Noticed
  <2>2. (\A e \in Entry : connection[e] # c) /\ (\A t \in Tasks : task[t].child # c)
    BY <1>1, Apart DEF InUse
  <2>3. Living' BY <1>1, <2>1, <2>2 DEF Living, entry, Of
  <2>4. Flagged' BY <1>1, <2>1 DEF Flagged, At, Of, entry
  <2> QED BY <2>3, <2>4
<1>6. InSequence'
  BY <1>1 DEF Inv, InSequence, Tidy, Single, Accounted, Placed, Sweeps, Errands, Reported, Of, entry
<1> QED BY <1>2, <1>3, <1>4, <1>5, <1>6 DEF Inv, Base

LEMMA DroppedGood == ASSUME Inv, NEW t \in Tasks, Dropped(t) PROVE Inv'
<1>1. /\ task[t].at # "idle" /\ Moves(t, NoTask) /\ Shapes /\ Base
      /\ UNCHANGED <<disturbances, stopping, generation, entry, alive>>
      /\ "dropped" \in disturbances \/ (stopping /\ task[t].kind = "boot")
  BY FinishMoves DEF Dropped, At, Inv, Base
<1>2. /\ starter' \in [Entry -> Tasks \cup {Nobody}] /\ user' \in [Entry -> Tasks \cup {Nobody}]
      /\ \A e \in Entry : starter'[e] = IF starter[e] = t THEN Nobody ELSE starter[e]
      /\ \A e \in Entry : user'[e] = IF user[e] = t THEN Nobody ELSE user[e]
  BY <1>1 DEF Dropped, Shapes
<1>3. \A o \in Tasks : task'[o] = IF o = t THEN NoTask ELSE task[o] BY <1>1, Moved
<1>4. \A o \in Tasks \ {t} : Of(o)' = Of(o) BY <1>3 DEF Of
<1>5. Shapes' BY <1>1, <1>2, Moved DEF Shapes, entry
<1>6. Owned'
  <2> SUFFICES ASSUME NEW o \in Tasks
               PROVE  /\ (task[o].at \in Starting)' => (starter[Of(o)])' = o
                      /\ (task[o].at \in Using)' => (user[Of(o)])' = o
                      /\ \A f \in Entry : starter'[f] = o => (task[o].at \in Starting)' /\ (Of(o))' = f
                      /\ \A f \in Entry : user'[f] = o => (task[o].at \in Using)' /\ (Of(o))' = f
    BY DEF Owned, Starting, Using
  <2>1. CASE o = t
    <3>1. task'[o].at \notin Starting \cup Using BY <1>3, <2>1, Apart, IdlePlaces
    <3>2. \A f \in Entry : starter'[f] # o /\ user'[f] # o BY <1>2, <2>1, Apart
    <3> QED BY <3>1, <3>2
  <2>2. CASE o # t
    <3>1. task'[o] = task[o] /\ Of(o)' = Of(o) BY <1>3, <1>4, <2>2
    <3>2. task[o].at \in Starting \cup Using => Of(o) \in Entry BY <1>1, TaskFacts, IdlePlaces
    <3> QED BY <1>1, <1>2, <2>2, <3>1, <3>2, Apart DEF Base, Owned
  <2> QED BY <2>1, <2>2
<1>7. Counted' BY <1>1, <1>2 DEF Base, Counted, entry
<1>8. Noticed' BY <1>1 DEF Noticed, Steady
<1>9. ~Tidy
  <2> SUFFICES ASSUME Tidy PROVE FALSE OBVIOUS
  <2>1. Errands BY DEF Inv, InSequence
  <2>2. stopping /\ task[t].kind = "boot" BY <1>1 DEF Tidy
  <2> QED BY <1>1, <2>1, <2>2 DEF Errands
<1>10. InSequence' BY <1>1, <1>9 DEF InSequence, Tidy
<1> QED BY <1>5, <1>6, <1>7, <1>8, <1>10 DEF Inv, Base
\* The task that starts the configured servers.
LEMMA BootFacts ==
    ASSUME NEW on, NEW u, u = BootTask(on)
    PROVE  /\ u \in TaskStates /\ u.at \in {"idle", "ensure"} /\ u.kind \in {"none", "boot"}
           /\ u.at = "ensure" => \A e \in Elements(u.todo) : e[1] = 1
<1>1. 1 \in 1..MaxGeneration BY McpAssumption
<1>2. PICK s : s = EnabledEntries(1, on) /\ Lists(s, 1) BY <1>1, EnabledLists
<1>3. u = IF s = <<>> THEN NoTask ELSE [kind |-> "boot", at |-> "ensure", todo |-> s, child |-> NoChild]
  BY <1>2, Zenon DEF BootTask
<1>4. CASE s = <<>> BY <1>3, <1>4, Apart
<1>5. CASE s # <<>>
  <2>1. u = [kind |-> "boot", at |-> "ensure", todo |-> s, child |-> NoChild] BY <1>3, <1>5
  <2>2. u.kind = "boot" /\ u.at = "ensure" /\ u.todo = s BY <2>1
  <2>3. u \in TaskStates BY <1>2, <1>5, <2>1 DEF TaskStates, Kinds, Ensuring, Lists
  <2> QED BY <1>2, <2>2, <2>3 DEF Lists
<1> QED BY <1>4, <1>5

LEMMA RestartGood == ASSUME Inv, Restart PROVE Inv'
<1>0. Base /\ Shapes BY DEF Inv, Base
<1>1. /\ stopping /\ Quiet /\ ~stopping' /\ generation' = 1
      /\ state' = [e \in Entry |-> "stopped"]
      /\ attempts' = [e \in Entry |-> 0] /\ failures' = attempts'
      /\ connection' = [e \in Entry |-> NoChild]
      /\ tools' = [e \in Entry |-> FALSE] /\ dirty' = tools' /\ changed' = tools'
      /\ UNCHANGED <<disturbances, locks, alive>>
  BY DEF Restart, Fresh
<1>2. PICK b \in Tasks : \E u : task' = [task EXCEPT ![b] = u] /\ u = BootTask(enabled') BY DEF Restart
<1> PICK u : task' = [task EXCEPT ![b] = u] /\ u = BootTask(enabled') BY <1>2
<1>3. /\ u \in TaskStates /\ u.at \in {"idle", "ensure"} /\ u.kind \in {"none", "boot"}
      /\ u.at = "ensure" => \A e \in Elements(u.todo) : e[1] = 1
  BY <1>2, BootFacts
<1>4. Moves(b, u) BY <1>2, <1>3 DEF Moves
<1>5. u.at \notin Starting \cup Using \cup Born \cup Sweeping /\ u.at # "relist"
  BY <1>3 DEF Starting, Using, Born, Sweeping
<1>6. \A t \in Tasks : task[t].at = "idle" BY <1>1 DEF Quiet
<1>7. \A t \in Tasks : task'[t].at \notin Starting \cup Using \cup Born \cup {"relist"}
  BY <1>0, <1>4, <1>5, <1>6, Moved, IdlePlaces
<1>8. \A e \in Entry : starter'[e] = Nobody /\ user'[e] = Nobody
  BY <1>0, <1>1, <1>6, IdlePlaces DEF Base, Owned, Shapes, locks
<1>9. Shapes'
  <2>1. 1 \in 1..MaxGeneration BY McpAssumption
  <2> QED BY <1>0, <1>1, <1>4, <2>1, Moved DEF Shapes, States, locks
<1>10. Owned' BY <1>7, <1>8, Apart DEF Owned
<1>11. Counted' BY <1>1 DEF Counted
<1>12. Noticed'
  <2>1. Living' BY <1>1, <1>7 DEF Living
  <2>2. Flagged' BY <1>1 DEF Flagged
  <2> QED BY <2>1, <2>2 DEF Noticed
<1>13. Before(b) => After(u)
  <2> SUFFICES ASSUME Before(b) PROVE After(u) OBVIOUS
  <2>1. \A e \in Entry : connection[e] = NoChild
    BY <1>1, <1>6, IdlePlaces DEF Before, Reserved
  <2>2. alive = {}
    BY <1>0, <1>6, <2>1, IdlePlaces, Apart DEF Before, Reserved, Shapes
  <2>3. u.at \in Ensuring => u.at = "ensure" BY <1>3, IdlePlaces
  <2>4. u.at \notin {"attempts", "waiting", "stopped", "publish"} /\ u.kind # "shutdown" BY <1>3
  <2> QED BY <1>1, <1>3, <1>5, <2>2, <2>3, <2>4 DEF After, Reserved
<1>14. InSequence' BY <1>1, <1>4, <1>13, SequenceMoves
<1> QED BY <1>9, <1>10, <1>11, <1>12, <1>14 DEF Inv, Base

-----------------------------------------------------------------------------
(* The invariant.                                                           *)

LEMMA InitGood == ASSUME Init PROVE Inv
<1>1. /\ ~stopping /\ generation = 1 /\ alive = {}
      /\ state = [e \in Entry |-> "stopped"]
      /\ attempts = [e \in Entry |-> 0] /\ failures = attempts
      /\ connection = [e \in Entry |-> NoChild]
      /\ tools = [e \in Entry |-> FALSE] /\ dirty = tools /\ changed = tools
      /\ starter = [e \in Entry |-> Nobody] /\ user = starter
  BY DEF Init
<1>2. PICK b \in Tasks : \E u : task = [t \in Tasks |-> IF t = b THEN u ELSE NoTask] /\ u = BootTask(enabled)
  BY DEF Init
<1> PICK u : task = [t \in Tasks |-> IF t = b THEN u ELSE NoTask] /\ u = BootTask(enabled)
  BY <1>2
<1>3. /\ u \in TaskStates /\ u.at \in {"idle", "ensure"} /\ u.kind \in {"none", "boot"}
      /\ u.at = "ensure" => \A e \in Elements(u.todo) : e[1] = 1
  BY <1>2, BootFacts
<1>4. \A t \in Tasks : task[t] = IF t = b THEN u ELSE NoTask BY <1>2
<1>5. \A t \in Tasks : task[t].at \in {"idle", "ensure"} /\ task[t].kind \in {"none", "boot"}
  BY <1>3, <1>4, Apart
<1>6. "idle" \notin Places /\ "ensure" \notin Starting \cup Using \cup Born \cup Sweeping
  BY Apart DEF Starting, Using, Born, Sweeping
<1>7. \A t \in Tasks : task[t].at \notin Starting \cup Using \cup Born \cup Sweeping
  BY <1>5, <1>6, IdlePlaces
<1>8. Shapes
  <2>1. 1 \in 1..MaxGeneration BY McpAssumption
  <2>2. task \in [Tasks -> TaskStates] BY <1>2, <1>3, Apart
  <2> QED BY <1>1, <2>1, <2>2 DEF Shapes, States
<1>9. Owned BY <1>1, <1>7, Apart DEF Owned
<1>10. Counted BY <1>1 DEF Counted
<1>11. Noticed
  <2>1. \A t \in Tasks : task[t].at # "relist" BY <1>5
  <2> QED BY <1>1, <1>7, <2>1 DEF Noticed, Living, Flagged
<1>12. InSequence
  <2>1. Single BY <1>4, Apart DEF Single
  <2>2. Accounted BY <1>1 DEF Accounted
  <2>3. Placed BY <1>1 DEF Placed
  <2>4. Errands
    <3>1. \A t \in Tasks : task[t].at \in Ensuring => t = b /\ u.at = "ensure"
      BY <1>4, <1>5, Apart, IdlePlaces
    <3>2. \A t \in Tasks : task[t].at \notin {"attempts", "waiting", "stopped", "publish"} BY <1>5
    <3> QED BY <1>1, <1>3, <1>4, <1>5, <1>7, <3>1, <3>2 DEF Errands
  <2>5. Reported BY <1>1 DEF Reported
  <2> QED BY <2>1, <2>2, <2>3, <2>4, <2>5 DEF InSequence
<1> QED BY <1>8, <1>9, <1>10, <1>11, <1>12 DEF Inv, Base

LEMMA StutterGood == ASSUME Inv, UNCHANGED vars PROVE Inv'
<1>1. UNCHANGED <<disturbances, stopping, generation, locks, entry, alive, task>> BY DEF vars
<1>2. Shapes' BY <1>1 DEF Inv, Base, Shapes, locks, entry
<1>3. Owned' BY <1>1 DEF Inv, Base, Owned, locks, Of
<1>4. Counted' BY <1>1 DEF Inv, Base, Counted, locks, entry
<1>5. Noticed' BY <1>1 DEF Inv, Noticed, Steady, Living, Flagged, At, Of, entry
<1>6. InSequence'
  BY <1>1 DEF Inv, InSequence, Tidy, Single, Accounted, Placed, Sweeps, Errands, Reported, Of, entry
<1> QED BY <1>2, <1>3, <1>4, <1>5, <1>6 DEF Inv, Base

LEMMA StepGood == ASSUME Inv, [Next]_vars PROVE Inv'
<1>1. ASSUME NEW t \in Tasks, NewRequest(t) PROVE Inv'
  BY <1>1, BeginGood, BeginCallGood, ReconcileGood DEF NewRequest
<1>2. ASSUME NEW t \in Tasks, TaskStep(t) PROVE Inv'
  BY <1>2, FindConnectionGood, NoConnectionGood, LockAttemptsGood, RelistGood, SpawnGood, BirthGood,
     HealthyGood, PublishConnectionGood, FailGood, AnsweredGood, UncertainGood, TakeConnectionGood,
     WaitedGood, StoppedGood, DiagnosticsGood
     DEF TaskStep
<1> QED
  BY <1>1, <1>2, DroppedGood, ListChangedGood, ChildExitsGood, RestartGood, StutterGood DEF Next

LEMMA Invariant == Spec => []Inv
<1>1. Init => Inv BY InitGood
<1>2. Inv /\ [Next]_vars => Inv' BY StepGood
<1> QED BY <1>1, <1>2, PTL DEF Spec

\* The entries, mutexes, counters and children of every generation keep
\* their types, whatever requests are in flight at once, dropped or repeated.
THEOREM McpTypes == Spec => []TypeOK
<1>1. Inv => TypeOK
  <2> SUFFICES ASSUME Inv PROVE TypeOK OBVIOUS
  <2>1. Shapes BY DEF Inv, Base
  <2>2. ASSUME NEW t \in Tasks PROVE task[t].kind \in Kinds \cup {"none"} /\ task[t].todo \in Seq(Entry)
    <3>1. task[t] \in TaskStates BY <2>1 DEF Shapes
    <3>2. CASE task[t] = NoTask
      <4>1. NoTask.kind = "none" /\ NoTask.todo = <<>> BY Zenon DEF NoTask
      <4>2. <<>> \in Seq(Entry) OBVIOUS
      <4> QED BY <3>2, <4>1, <4>2, Zenon
    <3>3. CASE task[t] # NoTask BY <3>1, <3>3 DEF TaskStates
    <3> QED BY <3>2, <3>3
  <2> QED BY <2>1, <2>2 DEF TypeOK, Shapes
<1> QED BY <1>1, Invariant, PTL

\* ensure_entry and fail: however many requests ask for a server at once, a
\* command that does not start is tried at most max_restart_attempts times in
\* a row, and once if that is 0, because the mutex of the counter is held for
\* the whole of a start.
THEOREM RestartsAreBounded == Spec => []RestartsBounded
<1>1. Inv => RestartsBounded
  <2> SUFFICES ASSUME Inv, NEW e \in Entry
               PROVE  failures[e] <= IF MaxAttempts = 0 THEN 1 ELSE MaxAttempts
    BY DEF RestartsBounded
  <2>1. /\ attempts[e] \in Nat /\ MaxAttempts \in Nat /\ failures[e] = attempts[e]
        /\ attempts[e] = 0 \/ attempts[e] <= MaxAttempts \/ (MaxAttempts = 0 /\ attempts[e] = 1)
    BY McpAssumption DEF Inv, Base, Shapes, Counted
  <2> QED BY <2>1
<1> QED BY <1>1, Invariant, PTL

\* on_tool_list_changed and refresh_catalog: a change of the list of tools is
\* still flagged, or the list is being read since, as long as no child fails
\* and no request is dropped: the flag is cleared before the list is read.
THEOREM ChangesNoticed == Spec => []ChangeNoticed
<1>1. Inv => ChangeNoticed BY DEF Inv, Noticed, Steady, Flagged, ChangeNoticed
<1> QED BY <1>1, Invariant, PTL

\* When requests come one after another, through any sequence of starts,
\* calls, failures, reloads, shutdowns and restarts, every child that is left
\* is the connection of an entry of the current configuration, none is left
\* after a shutdown, and the reported state is that of the connection.
THEOREM NoOrphans == Spec => []NoOrphan
<1>1. Inv => NoOrphan
  <2> SUFFICES ASSUME Inv, Tidy, Quiet
               PROVE  /\ alive \subseteq {connection[e] : e \in {f \in Entry : f[1] = generation}}
                      /\ stopping => alive = {}
                      /\ \A e \in Entry : state[e] = "healthy" <=> connection[e] # NoChild
    BY DEF NoOrphan
  <2>1. Accounted /\ Placed /\ Reported BY DEF Inv, InSequence
  <2>2. \A t \in Tasks : task[t].at = "idle" BY DEF Quiet
  <2>3. \A c \in alive : c # NoChild /\ \E e \in Entry : connection[e] = c
    BY <2>1, <2>2, IdlePlaces, Apart DEF Accounted, Inv, Base, Shapes
  <2>4. \A e \in Entry : connection[e] # NoChild => e[1] = generation /\ ~stopping
    BY <2>1, <2>2, IdlePlaces DEF Placed, Sweeps
  <2>5. \A e \in Entry : state[e] = "healthy" <=> connection[e] # NoChild
    BY <2>1, <2>2 DEF Reported
  <2> QED BY <2>3, <2>4, <2>5
<1> QED BY <1>1, Invariant, PTL
=============================================================================
