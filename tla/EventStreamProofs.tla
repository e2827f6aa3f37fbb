--------------------------- MODULE EventStreamProofs ---------------------------
(***************************************************************************)
(* Proofs about EventStream, for any appenders, clients, capacities and    *)
(* bounds: its type invariant, SentOnceInOrder and NoGap.                  *)
(*                                                                         *)
(* The inductive invariant has two parts.  Ordered holds whatever order    *)
(* the ids are published in: what is on a wire lies strictly between the   *)
(* checkpoint of the client and the last id its stream has sent.           *)
(* Gapless holds of an orderly session: there is a frontier p, the id up   *)
(* to which the log has been published, the channel ends with it, and no   *)
(* receiver has consumed messages past what its stream has sent or is      *)
(* about to replay.                                                        *)
(***************************************************************************)
EXTENDS EventStream, TLAPS

States == {"off", "query", "replay", "live", "closed"}
StreamStates == [at : States, last : Nat, pos : Nat, upto : Nat]

\* The shape of the variables.
Shape ==
    /\ log \in Nat /\ log <= MaxEvents
    /\ outbox \in [Appenders -> Seq(Nat)]
    /\ sent \in Seq(Nat)
    /\ closing \in BOOLEAN
    /\ stream \in [Clients -> StreamStates]
    /\ wire \in [Clients -> Seq(Nat)]
    /\ seen \in [Clients -> SUBSET Nat]
    /\ orderly \in BOOLEAN

\* Only committed ids are published, sent and queried.
Committed ==
    /\ \A a \in Appenders : \A i \in 1..Len(outbox[a]) : outbox[a][i] \in 1..log
    /\ \A i \in 1..Len(sent) : sent[i] \in 1..log
    /\ \A c \in Clients : stream[c].last <= log /\ stream[c].upto <= log
    /\ \A c \in Clients : seen[c] \subseteq 1..log

\* Max(seen[c] \cup {0}) really is a greatest element.
IsCheckpoint(c) ==
    /\ Checkpoint(c) \in seen[c] \cup {0}
    /\ \A id \in seen[c] : id <= Checkpoint(c)

\* What is on the wire of a client.
WireOrdered(c) ==
    /\ stream[c].at = "off" => wire[c] = <<>>
    /\ stream[c].at # "off" => Checkpoint(c) <= stream[c].last
    /\ \A i \in 1..Len(wire[c]) :
          /\ Checkpoint(c) < wire[c][i]
          /\ wire[c][i] <= stream[c].last
          /\ \A j \in 1..Len(wire[c]) : i < j => wire[c][i] < wire[c][j]

Ordered == \A c \in Clients : IsCheckpoint(c) /\ WireOrdered(c)

\* The log is published up to p, and what is left is in one outbox.
PublishedTo(p) ==
    /\ p \in Nat /\ p <= log
    /\ \A a, b \in Appenders : outbox[a] # <<>> /\ outbox[b] # <<>> => a = b
    /\ (\A a \in Appenders : outbox[a] = <<>>) => p = log
    /\ \A a \in Appenders :
          outbox[a] # <<>> =>
             /\ log = p + Len(outbox[a])
             /\ \A i \in 1..Len(outbox[a]) : outbox[a][i] = p + i
    /\ \A i \in 1..Len(sent) : sent[i] + Len(sent) = p + i

\* The receiver of an open stream has consumed the channel up to the id
\* p - (Len(sent) - pos), and all of that is sent or to be replayed.
ReceiverAt(c, p) ==
    stream[c].at \in {"query", "replay", "live"} =>
        /\ stream[c].pos <= Len(sent)
        /\ stream[c].at = "live" => p + stream[c].pos <= stream[c].last + Len(sent)
        /\ stream[c].at = "replay" =>
              \/ p + stream[c].pos <= stream[c].last + Len(sent)
              \/ p + stream[c].pos <= stream[c].upto + Len(sent)

\* What a client has read and what is on its wire are without a gap.
Contiguous(c) ==
    /\ seen[c] = 1..Checkpoint(c)
    /\ \A i \in 1..Len(wire[c]) : wire[c][i] = Checkpoint(c) + i
    /\ stream[c].at # "off" => stream[c].last = Checkpoint(c) + Len(wire[c])

Gapless ==
    orderly =>
        /\ \E p \in 0..log : PublishedTo(p) /\ \A c \in Clients : ReceiverAt(c, p)
        /\ \A c \in Clients : Contiguous(c)

Inv == Shape /\ Committed /\ Ordered /\ Gapless
-----------------------------------------------------------------------------
(* The checkpoint.                                                          *)

\* A bound that is in the set is its maximum.
LEMMA MaxIs ==
    ASSUME NEW S \in SUBSET Nat, NEW m \in S, \A x \in S : x <= m
    PROVE  Max(S) = m
<1>1. \A x \in S : (\A y \in S : x >= y) => x = m OBVIOUS
<1>2. \A y \in S : m >= y OBVIOUS
<1> QED BY <1>1, <1>2 DEF Max

LEMMA CheckpointNat ==
    ASSUME Inv, NEW c \in Clients
    PROVE  Checkpoint(c) \in Nat /\ Checkpoint(c) <= log
<1>1. log \in Nat /\ seen[c] \subseteq 1..log BY DEF Inv, Shape, Committed
<1>2. Checkpoint(c) \in seen[c] \cup {0} BY DEF Inv, Ordered, IsCheckpoint
<1> QED BY <1>1, <1>2

\* Nothing of a client changes but what its receiver has consumed.
LEMMA SameClient ==
    ASSUME NEW c \in Clients,
           seen'[c] = seen[c], wire'[c] = wire[c],
           stream'[c].last = stream[c].last,
           (stream'[c].at = "off") <=> (stream[c].at = "off")
    PROVE  /\ Checkpoint(c)' = Checkpoint(c)
           /\ IsCheckpoint(c)' <=> IsCheckpoint(c)
           /\ WireOrdered(c)' <=> WireOrdered(c)
           /\ Contiguous(c)' <=> Contiguous(c)
<1>1. Checkpoint(c)' = Checkpoint(c) BY DEF Checkpoint
<1>2. IsCheckpoint(c)' <=> IsCheckpoint(c) BY <1>1 DEF IsCheckpoint
<1>3. WireOrdered(c)' <=> WireOrdered(c) BY <1>1 DEF WireOrdered
<1>4. Contiguous(c)' <=> Contiguous(c) BY <1>1 DEF Contiguous
<1> QED BY <1>1, <1>2, <1>3, <1>4

-----------------------------------------------------------------------------
LEMMA InitInv == Init => Inv
<1> SUFFICES ASSUME Init PROVE Inv OBVIOUS
<1> USE EventStreamAssumption DEF Init
<1>1. Shape
  <2>1. outbox \in [Appenders -> Seq(Nat)] /\ wire \in [Clients -> Seq(Nat)] /\ sent \in Seq(Nat)
    OBVIOUS
  <2>2. stream \in [Clients -> StreamStates] BY DEF Off, States, StreamStates
  <2>3. seen \in [Clients -> SUBSET Nat] OBVIOUS
  <2>4. log \in Nat /\ log <= MaxEvents OBVIOUS
  <2>5. orderly \in BOOLEAN OBVIOUS
  <2> QED BY <2>1, <2>2, <2>3, <2>4, <2>5 DEF Shape
<1>2. Committed BY DEF Committed, Off
<1>3. \A c \in Clients : Checkpoint(c) = 0
  <2> TAKE c \in Clients
  <2>1. seen[c] \cup {0} = {0} OBVIOUS
  <2> QED BY <2>1, MaxIs DEF Checkpoint
<1>4. Ordered BY <1>3 DEF Ordered, IsCheckpoint, WireOrdered, Off
<1>5. Gapless
  <2>1. \A c \in Clients : Contiguous(c) BY <1>3 DEF Contiguous, Off
  <2>2. PublishedTo(0) BY DEF PublishedTo
  <2>3. \A c \in Clients : ReceiverAt(c, 0) BY DEF ReceiverAt, Off
  <2>4. 0 \in 0..log OBVIOUS
  <2> QED BY <2>1, <2>2, <2>3, <2>4 DEF Gapless
<1> QED BY <1>1, <1>2, <1>4, <1>5 DEF Inv

-----------------------------------------------------------------------------
(* Steps of the appenders: the clients' side stays as it is.                *)

LEMMA AppendersMove ==
    ASSUME Inv, UNCHANGED <<stream, wire, seen, orderly>>
    PROVE  /\ Ordered'
           /\ orderly => \A c \in Clients : Contiguous(c)'
<1>1. \A c \in Clients :
        /\ IsCheckpoint(c)' <=> IsCheckpoint(c)
        /\ WireOrdered(c)' <=> WireOrdered(c)
        /\ Contiguous(c)' <=> Contiguous(c)
  BY SameClient
<1> QED BY <1>1 DEF Inv, Ordered, Gapless

LEMMA CommitStep ==
    ASSUME Inv, NEW a \in Appenders, NEW n \in 1..2, Commit(a, n)
    PROVE  Inv'
<1> DEFINE batch == [i \in 1..n |-> log + i]
<1>1. log \in Nat /\ n \in Nat /\ log + n <= MaxEvents /\ log' = log + n
  BY DEF Inv, Shape, Commit
<1>2. batch \in Seq(Nat) /\ Len(batch) = n /\ \A i \in 1..n : batch[i] = log + i
  <2>1. batch \in [1..n -> Nat] BY <1>1
  <2> QED BY <2>1, <1>1
<1>3. outbox' = [outbox EXCEPT ![a] = batch] BY DEF Commit
<1> HIDE DEF batch
<1>4. \A o \in Appenders : outbox'[o] = IF o = a THEN batch ELSE outbox[o]
  BY <1>3 DEF Inv, Shape
<1>5. Shape' BY <1>1, <1>2, <1>3 DEF Inv, Shape, Commit
<1>6. Committed'
  <2>1. \A o \in Appenders : \A i \in 1..Len(outbox'[o]) : outbox'[o][i] \in 1..log'
    <3> TAKE o \in Appenders
    <3>1. CASE o = a BY <3>1, <1>1, <1>2, <1>4
    <3>2. CASE o # a BY <3>2, <1>1, <1>4 DEF Inv, Committed
    <3> QED BY <3>1, <3>2
  <2>2. \A i \in 1..Len(sent) : sent[i] \in 1..log' BY <1>1 DEF Inv, Committed
  <2>3. \A c \in Clients : stream[c].last <= log' /\ stream[c].upto <= log'
    <3>1. \A c \in Clients : stream[c].last \in Nat /\ stream[c].upto \in Nat
      BY DEF Inv, Shape, StreamStates
    <3> QED BY <3>1, <1>1 DEF Inv, Committed
  <2>4. \A c \in Clients : seen[c] \subseteq 1..log' BY <1>1 DEF Inv, Committed
  <2> QED BY <2>1, <2>2, <2>3, <2>4 DEF Committed, Commit
<1>7. Ordered' /\ (orderly => \A c \in Clients : Contiguous(c)')
  BY AppendersMove DEF Commit
<1>8. Gapless'
  <2> SUFFICES ASSUME orderly
               PROVE \E p \in 0..log' : PublishedTo(p)' /\ \A c \in Clients : ReceiverAt(c, p)'
    BY <1>7 DEF Gapless, Commit
  <2>1. PICK p \in 0..log : PublishedTo(p) /\ \A c \in Clients : ReceiverAt(c, p)
    BY DEF Inv, Gapless
  <2>2. \A o \in Appenders : outbox[o] = <<>> BY DEF Commit
  <2>3. p = log BY <2>1, <2>2 DEF PublishedTo
  <2>4. PublishedTo(p)'
    <3>1. \A o \in Appenders : outbox'[o] # <<>> => o = a BY <1>4, <2>2
    <3>2. outbox'[a] # <<>> BY <1>1, <1>2, <1>4
    <3>3. log' = p + Len(outbox'[a]) BY <1>1, <1>2, <1>4, <2>3
    <3>4. \A i \in 1..Len(outbox'[a]) : outbox'[a][i] = p + i BY <1>2, <1>4, <2>3
    <3>5. \A i \in 1..Len(sent') : sent'[i] + Len(sent') = p + i
      BY <2>1 DEF PublishedTo, Commit
    <3> QED BY <1>1, <2>3, <3>1, <3>2, <3>3, <3>4, <3>5 DEF PublishedTo
  <2>5. \A c \in Clients : ReceiverAt(c, p)' BY <2>1 DEF ReceiverAt, Commit
  <2>6. p \in 0..log' BY <1>1, <2>3
  <2> QED BY <2>4, <2>5, <2>6
<1> QED BY <1>5, <1>6, <1>7, <1>8 DEF Inv

LEMMA PublishStep ==
    ASSUME Inv, NEW a \in Appenders, Publish(a)
    PROVE  Inv'
<1> DEFINE id == Head(outbox[a])
<1>0. /\ log \in Nat /\ sent \in Seq(Nat) /\ outbox \in [Appenders -> Seq(Nat)]
      /\ outbox[a] \in Seq(Nat) /\ outbox[a] # <<>>
  BY DEF Inv, Shape, Publish
<1>1. /\ id = outbox[a][1] /\ id \in Nat /\ id \in 1..log
      /\ Tail(outbox[a]) \in Seq(Nat) /\ Len(outbox[a]) \in Nat \ {0}
      /\ Len(Tail(outbox[a])) = Len(outbox[a]) - 1
      /\ \A i \in 1..Len(Tail(outbox[a])) : Tail(outbox[a])[i] = outbox[a][i + 1]
  <2>1. Len(outbox[a]) \in Nat \ {0} BY <1>0
  <2>2. id = outbox[a][1] /\ id \in Nat BY <1>0
  <2>3. 1 \in 1..Len(outbox[a]) BY <2>1
  <2>4. id \in 1..log BY <2>2, <2>3 DEF Inv, Committed
  <2>5. /\ Tail(outbox[a]) \in Seq(Nat)
        /\ Len(Tail(outbox[a])) = Len(outbox[a]) - 1
        /\ \A i \in 1..Len(Tail(outbox[a])) : Tail(outbox[a])[i] = outbox[a][i + 1]
    BY <1>0
  <2> QED BY <2>1, <2>2, <2>4, <2>5
<1>2. sent' = IF Open = {} THEN <<>> ELSE Append(sent, id) BY DEF Publish
<1> HIDE DEF id
<1>3. \A o \in Appenders : outbox'[o] = IF o = a THEN Tail(outbox[a]) ELSE outbox[o]
  BY <1>0 DEF Publish
<1>4. outbox' \in [Appenders -> Seq(Nat)]
  <2>1. outbox' = [outbox EXCEPT ![a] = Tail(outbox[a])] BY DEF Publish
  <2> QED BY <1>0, <1>1, <2>1
<1>5. /\ Append(sent, id) \in Seq(Nat) /\ Len(Append(sent, id)) = Len(sent) + 1
      /\ \A i \in 1..Len(sent) : Append(sent, id)[i] = sent[i]
      /\ Append(sent, id)[Len(sent) + 1] = id
      /\ Len(sent) \in Nat
  BY <1>0, <1>1
<1>6. sent' \in Seq(Nat) BY <1>2, <1>5
<1>7. Shape' BY <1>4, <1>6 DEF Inv, Shape, Publish
<1>8. Committed'
  <2>1. \A o \in Appenders : \A i \in 1..Len(outbox'[o]) : outbox'[o][i] \in 1..log
    <3> SUFFICES ASSUME NEW o \in Appenders, NEW i \in 1..Len(outbox'[o])
                 PROVE outbox'[o][i] \in 1..log
      OBVIOUS
    <3>1. CASE o = a
      <4>1. outbox'[o] = Tail(outbox[a]) BY <3>1, <1>3
      <4>2. i \in 1..(Len(outbox[a]) - 1) BY <4>1, <1>1
      <4>3. i + 1 \in 1..Len(outbox[a]) BY <4>2, <1>1
      <4> QED BY <4>1, <4>3, <1>1 DEF Inv, Committed
    <3>2. CASE o # a BY <3>2, <1>3 DEF Inv, Committed
    <3> QED BY <3>1, <3>2
  <2>2. \A i \in 1..Len(sent') : sent'[i] \in 1..log
    <3>1. CASE Open = {} BY <3>1, <1>2
    <3>2. CASE Open # {}
      <4> SUFFICES ASSUME NEW i \in 1..(Len(sent) + 1) PROVE Append(sent, id)[i] \in 1..log
        BY <3>2, <1>2, <1>5
      <4>1. CASE i = Len(sent) + 1 BY <4>1, <1>1, <1>5
      <4>2. CASE i \in 1..Len(sent) BY <4>2, <1>5 DEF Inv, Committed
      <4> QED BY <4>1, <4>2, <1>5
    <3> QED BY <3>1, <3>2
  <2> QED BY <2>1, <2>2 DEF Inv, Committed, Publish
<1>9. Ordered' /\ (orderly => \A c \in Clients : Contiguous(c)')
  BY AppendersMove DEF Publish
<1>10. Gapless'
  <2> SUFFICES ASSUME orderly
               PROVE \E p \in 0..log : PublishedTo(p)' /\ \A c \in Clients : ReceiverAt(c, p)'
    BY <1>9 DEF Gapless, Publish
  <2>1. PICK p \in 0..log : PublishedTo(p) /\ \A c \in Clients : ReceiverAt(c, p)
    BY DEF Inv, Gapless
  <2>2. /\ \A o \in Appenders : outbox[o] # <<>> => o = a
        /\ log = p + Len(outbox[a]) /\ \A i \in 1..Len(outbox[a]) : outbox[a][i] = p + i
        /\ \A i \in 1..Len(sent) : sent[i] + Len(sent) = p + i
    BY <2>1, <1>0 DEF PublishedTo
  <2>3. p + 1 \in 0..log /\ id = p + 1
    <3>1. 1 \in 1..Len(outbox[a]) BY <1>1
    <3> QED BY <3>1, <2>2, <1>0, <1>1
  <2>4. PublishedTo(p + 1)'
    <3>1. \A o \in Appenders : outbox'[o] # <<>> => o = a BY <1>3, <2>2
    <3>2. outbox'[a] = Tail(outbox[a]) BY <1>3
    <3>3. log = p + 1 + Len(outbox'[a]) BY <3>2, <2>2, <1>1, <1>0
    <3>4. \A i \in 1..Len(outbox'[a]) : outbox'[a][i] = p + 1 + i
      <4> SUFFICES ASSUME NEW i \in 1..Len(Tail(outbox[a]))
                   PROVE Tail(outbox[a])[i] = p + 1 + i
        BY <3>2
      <4>1. i + 1 \in 1..Len(outbox[a]) BY <1>1
      <4>2. outbox[a][i + 1] = p + (i + 1) BY <4>1, <2>2
      <4> QED BY <4>2, <1>1
    <3>5. outbox'[a] = <<>> => log = p + 1
      <4> SUFFICES ASSUME outbox'[a] = <<>> PROVE log = p + 1 OBVIOUS
      <4>1. Len(outbox'[a]) = 0 OBVIOUS
      <4> QED BY <4>1, <3>3
    <3>6. \A i \in 1..Len(sent') : sent'[i] + Len(sent') = p + 1 + i
      <4>1. CASE Open = {} BY <4>1, <1>2
      <4>2. CASE Open # {}
        <5> SUFFICES ASSUME NEW i \in 1..(Len(sent) + 1)
                     PROVE Append(sent, id)[i] + (Len(sent) + 1) = p + 1 + i
          BY <4>2, <1>2, <1>5
        <5>1. CASE i = Len(sent) + 1 BY <5>1, <1>5, <2>3
        <5>2. CASE i \in 1..Len(sent)
          <6>1. sent[i] + Len(sent) = p + i /\ sent[i] \in Nat BY <5>2, <2>2, <1>0
          <6> QED BY <6>1, <5>2, <1>5
        <5> QED BY <5>1, <5>2, <1>5
      <4> QED BY <4>1, <4>2
    <3>7. log' = log BY DEF Publish
    <3>8. p + 1 \in Nat /\ p + 1 <= log BY <2>3
    <3>9. \A o \in Appenders :
            outbox'[o] # <<>> =>
               /\ log = p + 1 + Len(outbox'[o])
               /\ \A i \in 1..Len(outbox'[o]) : outbox'[o][i] = p + 1 + i
      BY <3>1, <3>3, <3>4
    <3> QED BY <3>1, <3>5, <3>6, <3>7, <3>8, <3>9 DEF PublishedTo
  <2>5. \A c \in Clients : ReceiverAt(c, p + 1)'
    <3> SUFFICES ASSUME NEW c \in Clients, stream[c].at \in {"query", "replay", "live"}
                 PROVE ReceiverAt(c, p + 1)'
      BY DEF ReceiverAt, Publish
    <3>1. Open # {} BY DEF Open
    <3>2. Len(sent') = Len(sent) + 1 BY <3>1, <1>2, <1>5
    <3>3. stream[c] \in StreamStates BY DEF Inv, Shape
    <3>4. stream' = stream BY DEF Publish
    <3> QED BY <2>1, <3>2, <3>3, <3>4, <1>5 DEF ReceiverAt, StreamStates
  <2> QED BY <2>3, <2>4, <2>5
<1> QED BY <1>7, <1>8, <1>9, <1>10 DEF Inv

LEMMA DropAppenderStep ==
    ASSUME Inv, NEW a \in Appenders, DropAppender(a)
    PROVE  Inv'
<1>1. outbox' \in [Appenders -> Seq(Nat)]
  <2>1. <<>> \in Seq(Nat) OBVIOUS
  <2> QED BY <2>1 DEF Inv, Shape, DropAppender
<1>2. \A o \in Appenders : outbox'[o] = IF o = a THEN <<>> ELSE outbox[o]
  BY DEF Inv, Shape, DropAppender
<1>3. Shape' BY <1>1 DEF Inv, Shape, DropAppender
<1>4. Committed' BY <1>2 DEF Inv, Committed, DropAppender
<1>5. Ordered' BY AppendersMove DEF DropAppender
<1>6. Gapless' BY DEF Gapless, DropAppender
<1> QED BY <1>3, <1>4, <1>5, <1>6 DEF Inv

-----------------------------------------------------------------------------
(* Steps of a stream.                                                       *)

\* The published part of an orderly session is not the stream's business.
LEMMA SameChannel ==
    ASSUME NEW p, UNCHANGED <<log, outbox, sent>>
    PROVE  PublishedTo(p)' <=> PublishedTo(p)
BY DEF PublishedTo

\* The stream of c goes on without sending anything.
LEMMA StreamMoves ==
    ASSUME Inv, NEW c \in Clients, NEW u \in StreamStates,
           stream' = [stream EXCEPT ![c] = u],
           u.last = stream[c].last, u.upto <= log,
           u.at # "off", stream[c].at # "off",
           \A p \in 0..log : PublishedTo(p) /\ ReceiverAt(c, p) => ReceiverAt(c, p)',
           UNCHANGED <<log, outbox, sent, closing, wire, seen, orderly>>
    PROVE  Inv'
<1>1. Shape' BY DEF Inv, Shape
<1>2. \A d \in Clients : stream'[d] = IF d = c THEN u ELSE stream[d] BY DEF Inv, Shape
<1>3. Committed' BY <1>2 DEF Inv, Committed
<1>4. \A d \in Clients :
        /\ IsCheckpoint(d)' <=> IsCheckpoint(d)
        /\ WireOrdered(d)' <=> WireOrdered(d)
        /\ Contiguous(d)' <=> Contiguous(d)
  BY <1>2, SameClient
<1>5. Ordered' BY <1>4 DEF Inv, Ordered
<1>6. Gapless'
  <2> SUFFICES ASSUME orderly
               PROVE \E p \in 0..log : PublishedTo(p)' /\ \A d \in Clients : ReceiverAt(d, p)'
    BY <1>4 DEF Inv, Gapless
  <2>1. PICK p \in 0..log : PublishedTo(p) /\ \A d \in Clients : ReceiverAt(d, p)
    BY DEF Inv, Gapless
  <2>2. \A d \in Clients : ReceiverAt(d, p)'
    <3> TAKE d \in Clients
    <3>1. CASE d = c BY <3>1, <2>1
    <3>2. CASE d # c BY <3>2, <2>1, <1>2 DEF ReceiverAt
    <3> QED BY <3>1, <3>2
  <2> QED BY <2>1, <2>2, SameChannel
<1> QED BY <1>1, <1>3, <1>5, <1>6 DEF Inv

\* The stream of c sends an id that is larger than the last one and, in an
\* orderly session, the next one.
LEMMA Delivers ==
    ASSUME Inv, NEW c \in Clients, NEW id \in Nat, NEW at \in {"replay", "live"}, NEW pos \in Nat,
           Deliver(c, id, at, pos),
           stream[c].at # "off",
           stream[c].last < id, id <= log, orderly => id = stream[c].last + 1,
           \A p \in 0..log : PublishedTo(p) /\ ReceiverAt(c, p) => ReceiverAt(c, p)',
           UNCHANGED <<log, outbox, sent, closing, seen, orderly>>
    PROVE  Inv'
<1>0. /\ log \in Nat /\ stream \in [Clients -> StreamStates] /\ stream[c] \in StreamStates
      /\ wire \in [Clients -> Seq(Nat)] /\ wire[c] \in Seq(Nat) /\ Len(wire[c]) \in Nat
      /\ stream[c].last \in Nat
  BY DEF Inv, Shape, StreamStates
<1> DEFINE u == [stream[c] EXCEPT !.at = at, !.pos = pos, !.last = id]
           w == Append(wire[c], id)
<1>1. u \in StreamStates /\ u.at = at /\ u.pos = pos /\ u.last = id /\ u.upto = stream[c].upto
  BY <1>0 DEF StreamStates, States
<1>2. stream' = [stream EXCEPT ![c] = u] BY <1>0 DEF Deliver
<1>3. wire' = [wire EXCEPT ![c] = w] BY DEF Deliver
<1>4. /\ w \in Seq(Nat) /\ Len(w) = Len(wire[c]) + 1
      /\ w[Len(wire[c]) + 1] = id /\ \A i \in 1..Len(wire[c]) : w[i] = wire[c][i]
  BY <1>0
<1> HIDE DEF u, w
<1>5. \A d \in Clients : /\ stream'[d] = IF d = c THEN u ELSE stream[d]
                         /\ wire'[d] = IF d = c THEN w ELSE wire[d]
  BY <1>0, <1>2, <1>3
<1>6. Shape' BY <1>1, <1>2, <1>3, <1>4 DEF Inv, Shape
<1>7. Committed' BY <1>1, <1>5 DEF Inv, Committed
<1>8. \A d \in Clients \ {c} :
        /\ IsCheckpoint(d)' <=> IsCheckpoint(d)
        /\ WireOrdered(d)' <=> WireOrdered(d)
        /\ Contiguous(d)' <=> Contiguous(d)
  BY <1>5, SameClient
<1>9. Checkpoint(c)' = Checkpoint(c) BY DEF Checkpoint
<1>10. IsCheckpoint(c)' /\ Checkpoint(c) \in Nat
  BY <1>9, CheckpointNat DEF Inv, Ordered, IsCheckpoint
<1>11. WireOrdered(c)'
  <2>1. Checkpoint(c) <= stream[c].last BY DEF Inv, Ordered, WireOrdered
  <2>2. Checkpoint(c) < id BY <2>1, <1>0, <1>10
  <2>3. \A i \in 1..Len(wire[c]) :
          /\ wire[c][i] \in Nat /\ wire[c][i] < id /\ Checkpoint(c) < wire[c][i]
          /\ \A j \in 1..Len(wire[c]) : i < j => wire[c][i] < wire[c][j]
    BY <1>0 DEF Inv, Ordered, WireOrdered
  <2>4. \A i \in 1..Len(w) :
          /\ Checkpoint(c) < w[i] /\ w[i] <= id
          /\ \A j \in 1..Len(w) : i < j => w[i] < w[j]
    <3> TAKE i \in 1..Len(w)
    <3>1. CASE i = Len(wire[c]) + 1 BY <3>1, <2>2, <1>0, <1>4
    <3>2. CASE i \in 1..Len(wire[c])
      <4>1. w[i] = wire[c][i] BY <3>2, <1>4
      <4>2. ASSUME NEW j \in 1..Len(w), i < j PROVE w[i] < w[j]
        <5>1. j \in 1..Len(wire[c]) \/ j = Len(wire[c]) + 1 BY <1>4
        <5> QED BY <5>1, <4>1, <4>2, <3>2, <2>3, <1>4
      <4>3. Checkpoint(c) < w[i] /\ w[i] <= id BY <4>1, <3>2, <2>3
      <4> QED BY <4>2, <4>3
    <3> QED BY <3>1, <3>2, <1>4
  <2> QED BY <2>2, <2>4, <1>1, <1>5, <1>9, <1>10 DEF WireOrdered
<1>12. orderly => Contiguous(c)'
  <2> SUFFICES ASSUME orderly PROVE Contiguous(c)' OBVIOUS
  <2>1. Contiguous(c) BY DEF Inv, Gapless
  <2>2. id = Checkpoint(c) + Len(w) BY <2>1, <1>0, <1>4, <1>10 DEF Contiguous
  <2>3. \A i \in 1..Len(w) : w[i] = Checkpoint(c) + i
    <3> TAKE i \in 1..Len(w)
    <3>1. CASE i = Len(wire[c]) + 1 BY <3>1, <2>2, <1>4
    <3>2. CASE i \in 1..Len(wire[c]) BY <3>2, <2>1, <1>4 DEF Contiguous
    <3> QED BY <3>1, <3>2, <1>4
  <2> QED BY <2>1, <2>2, <2>3, <1>1, <1>5, <1>9 DEF Contiguous
<1>13. Ordered' BY <1>8, <1>10, <1>11 DEF Inv, Ordered
<1>14. Gapless'
  <2> SUFFICES ASSUME orderly
               PROVE \E p \in 0..log : PublishedTo(p)' /\ \A d \in Clients : ReceiverAt(d, p)'
    BY <1>8, <1>12 DEF Inv, Gapless
  <2>1. PICK p \in 0..log : PublishedTo(p) /\ \A d \in Clients : ReceiverAt(d, p)
    BY DEF Inv, Gapless
  <2>2. \A d \in Clients : ReceiverAt(d, p)'
    <3> TAKE d \in Clients
    <3>1. CASE d = c BY <3>1, <2>1
    <3>2. CASE d # c BY <3>2, <2>1, <1>5 DEF ReceiverAt
    <3> QED BY <3>1, <3>2
  <2> QED BY <2>1, <2>2, SameChannel
<1> QED BY <1>6, <1>7, <1>13, <1>14 DEF Inv

LEMMA QueryStep == ASSUME Inv, NEW c \in Clients, Query(c) PROVE Inv'
<1> DEFINE u == [stream[c] EXCEPT !.at = "replay", !.upto = log]
<1>0. stream \in [Clients -> StreamStates] /\ stream[c] \in StreamStates /\ log \in Nat
  BY DEF Inv, Shape
<1>1. /\ u \in StreamStates /\ u.at = "replay" /\ u.last = stream[c].last
      /\ u.pos = stream[c].pos /\ u.upto = log
  BY <1>0 DEF StreamStates, States
<1>2. stream' = [stream EXCEPT ![c] = u] BY <1>0 DEF Query
<1> HIDE DEF u
<1>3. stream'[c] = u BY <1>0, <1>2
<1>4. ASSUME NEW p \in 0..log, ReceiverAt(c, p) PROVE ReceiverAt(c, p)'
  <2>1. stream[c].pos <= Len(sent) BY <1>4 DEF ReceiverAt, Query
  <2>2. sent' = sent /\ Len(sent) \in Nat BY DEF Inv, Shape, Query
  <2>3. p + u.pos <= u.upto + Len(sent) BY <2>1, <2>2, <1>0, <1>1 DEF StreamStates
  <2> QED BY <2>1, <2>2, <2>3, <1>1, <1>3 DEF ReceiverAt
<1>5. u.upto <= log /\ u.at # "off" /\ stream[c].at # "off" BY <1>0, <1>1 DEF Query
<1> QED BY <1>1, <1>2, <1>4, <1>5, StreamMoves DEF Query

LEMMA ReplayStep == ASSUME Inv, NEW c \in Clients, Replay(c) PROVE Inv'
<1>0. stream \in [Clients -> StreamStates] /\ stream[c] \in StreamStates /\ log \in Nat
  BY DEF Inv, Shape
<1> DEFINE id == stream[c].last + 1
<1>1. Deliver(c, id, "replay", stream[c].pos) BY DEF Replay
<1>2. id \in Nat /\ stream[c].last < id /\ stream[c].pos \in Nat /\ stream[c].last \in Nat
      /\ stream[c].upto \in Nat
  BY <1>0 DEF StreamStates
<1>3. id <= log /\ id <= stream[c].upto
  BY <1>0, <1>2 DEF Inv, Committed, Replay
<1>4. ASSUME NEW p \in 0..log, ReceiverAt(c, p) PROVE ReceiverAt(c, p)'
  <2>1. /\ stream'[c].at = "replay" /\ stream'[c].pos = stream[c].pos
        /\ stream'[c].upto = stream[c].upto /\ stream'[c].last = id
    BY <1>0, <1>1 DEF Deliver, StreamStates
  <2>2. sent' = sent /\ Len(sent) \in Nat BY DEF Inv, Shape, Replay
  <2> QED BY <2>1, <2>2, <1>2, <1>4 DEF ReceiverAt, Replay
<1>5. stream[c].at # "off" BY DEF Replay
<1> HIDE DEF id
<1>6. orderly => id = stream[c].last + 1 BY DEF id
<1> QED BY <1>1, <1>2, <1>3, <1>4, <1>5, <1>6, Delivers DEF Replay

LEMMA GoLiveStep == ASSUME Inv, NEW c \in Clients, GoLive(c) PROVE Inv'
<1> DEFINE u == [stream[c] EXCEPT !.at = "live"]
<1>0. stream \in [Clients -> StreamStates] /\ stream[c] \in StreamStates /\ log \in Nat
  BY DEF Inv, Shape
<1>1. /\ u \in StreamStates /\ u.at = "live" /\ u.last = stream[c].last
      /\ u.pos = stream[c].pos /\ u.upto = stream[c].upto
  BY <1>0 DEF StreamStates, States
<1>2. stream' = [stream EXCEPT ![c] = u] BY <1>0 DEF GoLive
<1> HIDE DEF u
<1>3. stream'[c] = u BY <1>0, <1>2
<1>4. ASSUME NEW p \in 0..log, ReceiverAt(c, p) PROVE ReceiverAt(c, p)'
  <2>1. sent' = sent /\ Len(sent) \in Nat BY DEF Inv, Shape, GoLive
  <2>2. stream[c].at = "replay" /\ stream[c].last >= stream[c].upto BY DEF GoLive
  <2>3. p + u.pos <= u.last + Len(sent)
    BY <1>0, <1>1, <1>4, <2>1, <2>2 DEF ReceiverAt, StreamStates
  <2> QED BY <2>1, <2>2, <2>3, <1>1, <1>3, <1>4 DEF ReceiverAt
<1>5. u.upto <= log BY <1>1 DEF Inv, Committed
<1> QED BY <1>1, <1>2, <1>4, <1>5, StreamMoves DEF GoLive

LEMMA ReceiveStep == ASSUME Inv, NEW c \in Clients, Receive(c) PROVE Inv'
<1>0. /\ stream \in [Clients -> StreamStates] /\ stream[c] \in StreamStates /\ log \in Nat
      /\ sent \in Seq(Nat) /\ Len(sent) \in Nat
      /\ stream[c].pos \in Nat /\ stream[c].last \in Nat /\ stream[c].upto <= log
  BY DEF Inv, Shape, Committed, StreamStates
<1> DEFINE pos == stream[c].pos + 1
<1>1. pos \in Nat /\ pos \in 1..Len(sent) BY <1>0 DEF Receive, Behind
<1>2. sent[pos] \in Nat /\ sent[pos] <= log BY <1>0, <1>1 DEF Inv, Committed
<1>3. ASSUME NEW p \in 0..log, PublishedTo(p), ReceiverAt(c, p)
      PROVE  /\ sent[pos] + Len(sent) = p + pos
             /\ p + stream[c].pos <= stream[c].last + Len(sent)
  BY <1>1, <1>3 DEF PublishedTo, ReceiverAt, Receive
<1>4. CASE sent[pos] > stream[c].last
  <2>1. Deliver(c, sent[pos], "live", pos) BY <1>4 DEF Receive
  <2>2. ASSUME NEW p \in 0..log, PublishedTo(p), ReceiverAt(c, p) PROVE ReceiverAt(c, p)'
    <3>1. stream'[c].at = "live" /\ stream'[c].pos = pos /\ stream'[c].last = sent[pos]
      BY <1>0, <2>1 DEF Deliver, StreamStates
    <3>2. sent' = sent BY DEF Receive
    <3>3. p + pos <= sent[pos] + Len(sent) BY <1>0, <1>1, <1>2, <1>3, <2>2
    <3> QED BY <3>1, <3>2, <3>3, <1>1 DEF ReceiverAt
  <2>3. orderly => sent[pos] = stream[c].last + 1
    <3> SUFFICES ASSUME orderly PROVE sent[pos] = stream[c].last + 1 OBVIOUS
    <3>1. PICK p \in 0..log : PublishedTo(p) /\ ReceiverAt(c, p) BY DEF Inv, Gapless
    <3>2. /\ sent[pos] + Len(sent) = p + pos
          /\ p + stream[c].pos <= stream[c].last + Len(sent)
      BY <3>1, <1>3
    <3>3. sent[pos] \in Nat /\ sent[pos] > stream[c].last BY <1>2, <1>4
    <3>4. pos = stream[c].pos + 1 /\ p \in Nat BY <1>0
    <3>5. \A x, l, n, k, q \in Nat : x + n = q + (k + 1) /\ q + k <= l + n /\ x > l => x = l + 1
      OBVIOUS
    <3> QED BY <3>2, <3>3, <3>4, <3>5, <1>0
  <2>4. stream[c].last < sent[pos] /\ stream[c].at # "off" BY <1>0, <1>2, <1>4 DEF Receive
  <2> HIDE DEF pos
  <2> QED BY <1>1, <1>2, <2>1, <2>2, <2>3, <2>4, Delivers DEF Receive
<1>5. CASE ~(sent[pos] > stream[c].last)
  <2> DEFINE u == [stream[c] EXCEPT !.pos = pos]
  <2>1. /\ u \in StreamStates /\ u.at = "live" /\ u.last = stream[c].last
        /\ u.pos = pos /\ u.upto = stream[c].upto
    BY <1>0, <1>1 DEF StreamStates, Receive
  <2>2. stream' = [stream EXCEPT ![c] = u] BY <1>0, <1>5 DEF Receive
  <2> HIDE DEF u
  <2>3. stream'[c] = u BY <1>0, <2>2
  <2>4. ASSUME NEW p \in 0..log, PublishedTo(p), ReceiverAt(c, p) PROVE ReceiverAt(c, p)'
    <3>1. p + pos <= stream[c].last + Len(sent) BY <1>0, <1>1, <1>2, <1>3, <1>5, <2>4
    <3>2. sent' = sent BY DEF Receive
    <3> QED BY <3>1, <3>2, <2>1, <2>3, <1>1 DEF ReceiverAt
  <2>5. wire' = wire BY <1>5 DEF Receive
  <2> QED BY <1>0, <2>1, <2>2, <2>4, <2>5, StreamMoves DEF Receive
<1> QED BY <1>4, <1>5

LEMMA FallBehindStep == ASSUME Inv, NEW c \in Clients, FallBehind(c) PROVE Inv'
<1> DEFINE u == [stream[c] EXCEPT !.at = "query", !.pos = Len(sent) - Capacity]
<1>0. /\ stream \in [Clients -> StreamStates] /\ stream[c] \in StreamStates /\ log \in Nat
      /\ Len(sent) \in Nat /\ stream[c].pos \in Nat /\ Capacity \in Nat
  BY EventStreamAssumption DEF Inv, Shape, StreamStates
<1>1. Len(sent) - Capacity \in Nat /\ Len(sent) - Capacity <= Len(sent)
  BY <1>0 DEF FallBehind, Lagged, Behind
<1>2. /\ u \in StreamStates /\ u.at = "query" /\ u.last = stream[c].last
      /\ u.pos = Len(sent) - Capacity /\ u.upto = stream[c].upto
  BY <1>0, <1>1 DEF StreamStates, States
<1>3. stream' = [stream EXCEPT ![c] = u] BY <1>0 DEF FallBehind
<1> HIDE DEF u
<1>4. stream'[c] = u BY <1>0, <1>3
<1>5. ASSUME NEW p \in 0..log PROVE ReceiverAt(c, p)'
  BY <1>1, <1>2, <1>4 DEF ReceiverAt, FallBehind
<1>6. u.upto <= log BY <1>2 DEF Inv, Committed
<1> QED BY <1>2, <1>3, <1>5, <1>6, StreamMoves DEF FallBehind

LEMMA EndStreamStep == ASSUME Inv, NEW c \in Clients, EndStream(c) PROVE Inv'
<1> DEFINE u == [stream[c] EXCEPT !.at = "closed"]
<1>0. stream \in [Clients -> StreamStates] /\ stream[c] \in StreamStates BY DEF Inv, Shape
<1>1. /\ u \in StreamStates /\ u.at = "closed" /\ u.last = stream[c].last
      /\ u.upto = stream[c].upto
  BY <1>0 DEF StreamStates, States
<1>2. stream' = [stream EXCEPT ![c] = u] BY <1>0 DEF EndStream
<1> HIDE DEF u
<1>3. stream'[c] = u BY <1>0, <1>2
<1>4. \A p \in 0..log : ReceiverAt(c, p)' BY <1>1, <1>3 DEF ReceiverAt
<1>5. u.upto <= log BY <1>1 DEF Inv, Committed
<1> QED BY <1>1, <1>2, <1>4, <1>5, StreamMoves DEF EndStream

-----------------------------------------------------------------------------
(* A client connects, reads, and loses its connection.                      *)

LEMMA SubscribeStep == ASSUME Inv, NEW c \in Clients, Subscribe(c) PROVE Inv'
<1> DEFINE channel == IF Open = {} THEN <<>> ELSE sent
           u == [at |-> "query", last |-> Checkpoint(c), pos |-> Len(channel), upto |-> 0]
<1>0. /\ stream \in [Clients -> StreamStates] /\ log \in Nat /\ sent \in Seq(Nat)
      /\ Checkpoint(c) \in Nat /\ Checkpoint(c) <= log
      /\ stream[c].at = "off" /\ wire[c] = <<>>
  BY CheckpointNat DEF Inv, Shape, Ordered, WireOrdered, Subscribe
<1>1. channel \in Seq(Nat) /\ Len(channel) \in Nat BY <1>0
<1>2. u \in StreamStates BY <1>0, <1>1 DEF StreamStates, States
<1>3. sent' = channel /\ stream' = [stream EXCEPT ![c] = u] BY DEF Subscribe
<1>4. u.at = "query" /\ u.last = Checkpoint(c) /\ u.pos = Len(channel) /\ u.upto = 0 OBVIOUS
<1>5. channel = <<>> \/ channel = sent OBVIOUS
<1>6. Open # {} => channel = sent OBVIOUS
<1> HIDE DEF u, channel
<1>7. \A d \in Clients : stream'[d] = IF d = c THEN u ELSE stream[d] BY <1>0, <1>3
<1>8. UNCHANGED <<log, outbox, closing, wire, seen, orderly>> BY DEF Subscribe
<1>9. Shape' BY <1>1, <1>2, <1>3, <1>8 DEF Inv, Shape
<1>10. Committed'
  <2>1. \A i \in 1..Len(channel) : channel[i] \in 1..log BY <1>5 DEF Inv, Committed
  <2> QED BY <2>1, <1>0, <1>3, <1>4, <1>7, <1>8 DEF Inv, Committed
<1>11. \A d \in Clients \ {c} :
        /\ IsCheckpoint(d)' <=> IsCheckpoint(d)
        /\ WireOrdered(d)' <=> WireOrdered(d)
        /\ Contiguous(d)' <=> Contiguous(d)
  BY <1>7, <1>8, SameClient
<1>12. Checkpoint(c)' = Checkpoint(c) BY <1>8 DEF Checkpoint
<1>13. IsCheckpoint(c)' BY <1>8, <1>12 DEF Inv, Ordered, IsCheckpoint
<1>14. WireOrdered(c)' BY <1>0, <1>4, <1>7, <1>8, <1>12 DEF WireOrdered
<1>15. orderly => Contiguous(c)'
  BY <1>0, <1>4, <1>7, <1>8, <1>12 DEF Inv, Gapless, Contiguous
<1>16. Ordered' BY <1>11, <1>13, <1>14 DEF Inv, Ordered
<1>17. Gapless'
  <2> SUFFICES ASSUME orderly
               PROVE \E p \in 0..log : PublishedTo(p)' /\ \A d \in Clients : ReceiverAt(d, p)'
    BY <1>8, <1>11, <1>15 DEF Inv, Gapless
  <2>1. PICK p \in 0..log : PublishedTo(p) /\ \A d \in Clients : ReceiverAt(d, p)
    BY DEF Inv, Gapless
  <2>2. \A i \in 1..Len(channel) : channel[i] + Len(channel) = p + i
    BY <2>1, <1>5 DEF PublishedTo
  <2>3. PublishedTo(p)' BY <2>1, <2>2, <1>3, <1>8 DEF PublishedTo
  <2>4. \A d \in Clients : ReceiverAt(d, p)'
    <3> TAKE d \in Clients
    <3>1. CASE d = c BY <3>1, <1>1, <1>3, <1>4, <1>7 DEF ReceiverAt
    <3>2. CASE d # c /\ d \in Open BY <3>2, <2>1, <1>3, <1>6, <1>7 DEF ReceiverAt
    <3>3. CASE d # c /\ d \notin Open BY <3>3, <1>7 DEF ReceiverAt, Open
    <3> QED BY <3>1, <3>2, <3>3
  <2> QED BY <2>3, <2>4
<1> QED BY <1>9, <1>10, <1>16, <1>17 DEF Inv

LEMMA ReadFrameStep == ASSUME Inv, NEW c \in Clients, ReadFrame(c) PROVE Inv'
<1> DEFINE id == Head(wire[c])
           w == Tail(wire[c])
<1>0. /\ log \in Nat /\ wire \in [Clients -> Seq(Nat)] /\ wire[c] \in Seq(Nat) /\ wire[c] # <<>>
      /\ seen \in [Clients -> SUBSET Nat] /\ seen[c] \subseteq 1..log
      /\ Checkpoint(c) \in Nat /\ stream[c].last \in Nat /\ stream[c].last <= log
  BY CheckpointNat DEF Inv, Shape, Committed, StreamStates, ReadFrame
<1>1. /\ id = wire[c][1] /\ id \in Nat /\ w \in Seq(Nat)
      /\ Len(wire[c]) \in Nat \ {0} /\ Len(w) + 1 = Len(wire[c]) /\ Len(w) \in Nat
      /\ 1 \in 1..Len(wire[c])
      /\ \A i \in 1..Len(w) : i + 1 \in 1..Len(wire[c]) /\ w[i] = wire[c][i + 1]
  BY <1>0
<1>2. wire' = [wire EXCEPT ![c] = w] /\ seen' = [seen EXCEPT ![c] = seen[c] \cup {id}]
  BY DEF ReadFrame
<1> HIDE DEF id, w
<1>3. \A d \in Clients : /\ wire'[d] = IF d = c THEN w ELSE wire[d]
                         /\ seen'[d] = IF d = c THEN seen[c] \cup {id} ELSE seen[d]
  BY <1>0, <1>2
<1>4. UNCHANGED <<log, outbox, sent, closing, stream, orderly>> BY DEF ReadFrame
<1>5. stream[c].at # "off" BY <1>0 DEF Inv, Ordered, WireOrdered
<1>6. Checkpoint(c) < id /\ id <= stream[c].last
  BY <1>1 DEF Inv, Ordered, WireOrdered
<1>7. id \in 1..log BY <1>0, <1>1, <1>6
<1>8. Shape' BY <1>0, <1>1, <1>2, <1>4 DEF Inv, Shape
<1>9. Committed' BY <1>3, <1>4, <1>7 DEF Inv, Committed
<1>10. Checkpoint(c)' = id
  <2>1. \A x \in seen[c] : x <= Checkpoint(c) BY DEF Inv, Ordered, IsCheckpoint
  <2>2. \A x \in seen[c] \cup {id} \cup {0} : x \in Nat /\ x <= id
    BY <2>1, <1>0, <1>1, <1>6
  <2>3. Max(seen[c] \cup {id} \cup {0}) = id BY <2>2, MaxIs
  <2> QED BY <2>3, <1>3 DEF Checkpoint
<1>11. \A d \in Clients \ {c} :
        /\ IsCheckpoint(d)' <=> IsCheckpoint(d)
        /\ WireOrdered(d)' <=> WireOrdered(d)
        /\ Contiguous(d)' <=> Contiguous(d)
  BY <1>3, <1>4, SameClient
<1>12. IsCheckpoint(c)'
  <2>1. \A x \in seen[c] : x <= Checkpoint(c) BY DEF Inv, Ordered, IsCheckpoint
  <2>2. \A x \in seen[c] \cup {id} : x <= id BY <2>1, <1>0, <1>1, <1>6
  <2> QED BY <2>2, <1>3, <1>10 DEF IsCheckpoint
<1>13. WireOrdered(c)'
  <2>1. \A i, j \in 1..Len(wire[c]) : i < j => wire[c][i] < wire[c][j]
    BY DEF Inv, Ordered, WireOrdered
  <2>2. \A i \in 1..Len(wire[c]) : wire[c][i] <= stream[c].last
    BY DEF Inv, Ordered, WireOrdered
  <2>3. \A i \in 1..Len(w) :
          /\ id < w[i] /\ w[i] <= stream[c].last
          /\ \A j \in 1..Len(w) : i < j => w[i] < w[j]
    <3> TAKE i \in 1..Len(w)
    <3>1. i + 1 \in 1..Len(wire[c]) /\ w[i] = wire[c][i + 1] /\ 1 < i + 1 BY <1>1
    <3>2. id < w[i] /\ w[i] <= stream[c].last BY <3>1, <2>1, <2>2, <1>1
    <3>3. ASSUME NEW j \in 1..Len(w), i < j PROVE w[i] < w[j]
      <4>1. j + 1 \in 1..Len(wire[c]) /\ w[j] = wire[c][j + 1] /\ i + 1 < j + 1 BY <1>1, <3>3
      <4> QED BY <4>1, <3>1, <2>1
    <3> QED BY <3>2, <3>3
  <2> QED BY <2>3, <1>3, <1>4, <1>5, <1>6, <1>10 DEF WireOrdered
<1>14. orderly => Contiguous(c)'
  <2> SUFFICES ASSUME orderly PROVE Contiguous(c)' OBVIOUS
  <2>1. Contiguous(c) BY DEF Inv, Gapless
  <2>2. id = Checkpoint(c) + 1 BY <2>1, <1>1 DEF Contiguous
  <2>3. seen[c] \cup {id} = 1..id BY <2>1, <2>2, <1>0 DEF Contiguous
  <2>4. \A i \in 1..Len(w) : w[i] = id + i
    <3> TAKE i \in 1..Len(w)
    <3>1. w[i] = Checkpoint(c) + (i + 1) BY <2>1, <1>1 DEF Contiguous
    <3> QED BY <3>1, <2>2, <1>0
  <2>5. stream[c].last = Checkpoint(c) + Len(wire[c]) BY <2>1, <1>5 DEF Contiguous
  <2>6. stream[c].last = id + Len(w)
    <3>1. Len(w) \in Nat /\ Len(wire[c]) = Len(w) + 1 BY <1>1
    <3>2. \A k, n \in Nat : k + (n + 1) = (k + 1) + n OBVIOUS
    <3> QED BY <3>1, <3>2, <2>2, <2>5, <1>0
  <2> QED BY <2>3, <2>4, <2>6, <1>3, <1>4, <1>10 DEF Contiguous
<1>15. Ordered' BY <1>11, <1>12, <1>13 DEF Inv, Ordered
<1>16. Gapless'
  <2> SUFFICES ASSUME orderly
               PROVE \E p \in 0..log : PublishedTo(p)' /\ \A d \in Clients : ReceiverAt(d, p)'
    BY <1>4, <1>11, <1>14 DEF Inv, Gapless
  <2>1. PICK p \in 0..log : PublishedTo(p) /\ \A d \in Clients : ReceiverAt(d, p)
    BY DEF Inv, Gapless
  <2> QED BY <2>1, <1>4, SameChannel DEF ReceiverAt
<1> QED BY <1>8, <1>9, <1>15, <1>16 DEF Inv

LEMMA DisconnectStep == ASSUME Inv, NEW c \in Clients, Disconnect(c) PROVE Inv'
<1>0. stream \in [Clients -> StreamStates] /\ log \in Nat /\ wire \in [Clients -> Seq(Nat)]
  BY DEF Inv, Shape
<1>1. UNCHANGED <<log, outbox, sent, closing, seen, orderly>> BY DEF Disconnect
<1>2. \A d \in Clients : /\ stream'[d] = IF d = c THEN Off ELSE stream[d]
                         /\ wire'[d] = IF d = c THEN <<>> ELSE wire[d]
  BY <1>0 DEF Disconnect
<1>3. Shape'
  <2>1. Off \in StreamStates /\ <<>> \in Seq(Nat) BY DEF Off, StreamStates, States
  <2>2. stream' \in [Clients -> StreamStates] /\ wire' \in [Clients -> Seq(Nat)]
    BY <2>1, <1>0 DEF Disconnect
  <2> QED BY <2>2, <1>1 DEF Inv, Shape
<1>4. Committed' BY <1>0, <1>1, <1>2 DEF Inv, Committed, Off
<1>5. Checkpoint(c)' = Checkpoint(c) BY <1>1 DEF Checkpoint
<1>6. \A d \in Clients \ {c} :
        /\ IsCheckpoint(d)' <=> IsCheckpoint(d)
        /\ WireOrdered(d)' <=> WireOrdered(d)
        /\ Contiguous(d)' <=> Contiguous(d)
  BY <1>1, <1>2, SameClient
<1>7. IsCheckpoint(c)' BY <1>1, <1>5 DEF Inv, Ordered, IsCheckpoint
<1>8. WireOrdered(c)' BY <1>2, <1>5 DEF WireOrdered, Off
<1>9. orderly => Contiguous(c)' BY <1>1, <1>2, <1>5 DEF Inv, Gapless, Contiguous, Off
<1>10. Ordered' BY <1>6, <1>7, <1>8 DEF Inv, Ordered
<1>11. Gapless'
  <2> SUFFICES ASSUME orderly
               PROVE \E p \in 0..log : PublishedTo(p)' /\ \A d \in Clients : ReceiverAt(d, p)'
    BY <1>1, <1>6, <1>9 DEF Inv, Gapless
  <2>1. PICK p \in 0..log : PublishedTo(p) /\ \A d \in Clients : ReceiverAt(d, p)
    BY DEF Inv, Gapless
  <2>2. \A d \in Clients : ReceiverAt(d, p)' BY <2>1, <1>1, <1>2 DEF ReceiverAt, Off
  <2> QED BY <2>1, <2>2, <1>1, SameChannel
<1> QED BY <1>3, <1>4, <1>10, <1>11 DEF Inv

\* Steps that leave the session, its channel and its clients alone.
LEMMA Untouched ==
    ASSUME Inv, closing' \in BOOLEAN, UNCHANGED <<log, outbox, sent, stream, wire, seen, orderly>>
    PROVE  Inv'
<1>1. Shape' BY DEF Inv, Shape
<1>2. Committed' BY DEF Inv, Committed
<1>3. Ordered' /\ (orderly => \A c \in Clients : Contiguous(c)') BY AppendersMove
<1>4. Gapless'
  <2>1. \A p : PublishedTo(p)' <=> PublishedTo(p) BY SameChannel
  <2>2. \A p : \A c \in Clients : ReceiverAt(c, p)' <=> ReceiverAt(c, p) BY DEF ReceiverAt
  <2> QED BY <1>3, <2>1, <2>2 DEF Inv, Gapless
<1> QED BY <1>1, <1>2, <1>3, <1>4 DEF Inv

-----------------------------------------------------------------------------
\* Every step of the specification keeps the invariant.
LEMMA NextInv == Inv /\ [Next]_vars => Inv'
<1> SUFFICES ASSUME Inv, [Next]_vars PROVE Inv' OBVIOUS
<1>1. ASSUME NEW a \in Appenders, NEW n \in 1..2, Commit(a, n) PROVE Inv'
  BY <1>1, CommitStep
<1>2. ASSUME NEW a \in Appenders, AppenderStep(a) PROVE Inv'
  BY <1>2, PublishStep, DropAppenderStep DEF AppenderStep
<1>3. ASSUME NEW c \in Clients, Subscribe(c) PROVE Inv' BY <1>3, SubscribeStep
<1>4. ASSUME NEW c \in Clients, StreamStep(c) PROVE Inv'
  BY <1>4, QueryStep, ReplayStep, GoLiveStep, ReceiveStep, FallBehindStep DEF StreamStep
<1>5. ASSUME NEW c \in Clients, ReadFrame(c) PROVE Inv' BY <1>5, ReadFrameStep
<1>6. ASSUME NEW c \in Clients, Disconnect(c) PROVE Inv' BY <1>6, DisconnectStep
<1>7. ASSUME NEW c \in Clients, EndStream(c) PROVE Inv' BY <1>7, EndStreamStep
<1>8. CASE CloseStreams BY <1>8, Untouched DEF CloseStreams
<1>9. CASE UNCHANGED vars BY <1>9, Untouched DEF vars, Inv, Shape
<1> QED BY <1>1, <1>2, <1>3, <1>4, <1>5, <1>6, <1>7, <1>8, <1>9 DEF Next

LEMMA InvHolds == Spec => []Inv
BY InitInv, NextInv, PTL DEF Spec

\* The channel, the queries and the streams only ever name committed events.
THEOREM StreamTypes == Spec => []TypeOK
<1>1. Inv => TypeOK
  <2> SUFFICES ASSUME Inv PROVE TypeOK OBVIOUS
  <2>1. log \in 0..MaxEvents /\ closing \in BOOLEAN
    BY EventStreamAssumption DEF Inv, Shape
  <2>2. \A i \in DOMAIN sent : sent[i] \in 1..log
    BY DEF Inv, Shape, Committed
  <2>3. \A c \in Clients : stream[c] \in StreamStates BY DEF Inv, Shape
  <2>4. \A c \in Clients : stream[c].last \in 0..log /\ stream[c].upto \in 0..log
    BY <2>1, <2>3 DEF Inv, Shape, Committed, StreamStates
  <2> QED BY <2>1, <2>2, <2>3, <2>4 DEF TypeOK, StreamStates, States
<1> QED BY <1>1, InvHolds, PTL

\* Whatever order the ids are published in, whatever is lost to lags and to
\* broken connections: stream_events sends a client nothing twice and nothing
\* out of order.
THEOREM StreamSendsOnceInOrder == Spec => []SentOnceInOrder
<1>1. Inv => SentOnceInOrder
  <2> SUFFICES ASSUME Inv, NEW c \in Clients, NEW i \in DOMAIN wire[c]
               PROVE  /\ wire[c][i] <= log
                      /\ wire[c][i] > IF i = 1 THEN Checkpoint(c) ELSE wire[c][i - 1]
    BY DEF SentOnceInOrder
  <2>1. /\ wire[c] \in Seq(Nat) /\ log \in Nat /\ Checkpoint(c) \in Nat
        /\ stream[c].last \in Nat /\ stream[c].last <= log
    BY CheckpointNat DEF Inv, Shape, Committed, StreamStates
  <2>2. i \in 1..Len(wire[c]) /\ wire[c][i] \in Nat BY <2>1
  <2>3. WireOrdered(c) BY DEF Inv, Ordered
  <2>4. wire[c][i] <= log BY <2>1, <2>2, <2>3 DEF WireOrdered
  <2>5. CASE i = 1 BY <2>1, <2>2, <2>3, <2>4, <2>5 DEF WireOrdered
  <2>6. CASE i # 1
    <3>1. i - 1 \in 1..Len(wire[c]) /\ i - 1 < i /\ wire[c][i - 1] \in Nat BY <2>1, <2>2, <2>6
    <3>2. wire[c][i - 1] < wire[c][i] BY <3>1, <2>2, <2>3 DEF WireOrdered
    <3> QED BY <3>1, <3>2, <2>2, <2>4, <2>6
  <2> QED BY <2>5, <2>6
<1> QED BY <1>1, InvHolds, PTL

\* The hand-off from the replay to the channel loses nothing: a client of a
\* session whose appends are published in order has read every event up to
\* its checkpoint, through any number of lags, lost frames and reconnections
\* and for every channel capacity.
THEOREM StreamHasNoGap == Spec => []NoGap
<1>1. Inv => NoGap BY DEF Inv, Gapless, Contiguous, NoGap
<1> QED BY <1>1, InvHolds, PTL
=============================================================================
