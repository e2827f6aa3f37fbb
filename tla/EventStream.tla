----------------------------- MODULE EventStream -----------------------------
(***************************************************************************)
(* The live events of one session: EventHub (supervisor.rs) and            *)
(* stream_events (lib.rs).                                                 *)
(*                                                                         *)
(* An appender commits a batch of events and then publishes them one by    *)
(* one on the session's broadcast channel.  A stream subscribes first,     *)
(* replays the log after its Last-Event-ID, then forwards what the channel *)
(* brings unless it has sent it already; a receiver that fell behind the   *)
(* channel's capacity is told so and reads the log again.                  *)
(*                                                                         *)
(* A client (follow_events of piqo-cli) reads what is on the wire, keeps   *)
(* the largest id it has read as its checkpoint and, when the connection   *)
(* ends, comes back with it; what was on the wire then is lost.            *)
(***************************************************************************)
EXTENDS Naturals, Sequences, FiniteSets, FiniteSetsExt

CONSTANTS
    Appenders,      \* tasks that append to the session
    Clients,        \* SSE clients of the session
    Capacity,       \* sse_channel_capacity
    MaxStreams,     \* max_sse_connections(_per_session)
    MaxWire,        \* events between a stream and its client: the next one is
                    \* only taken from the stream when the socket has room
    MaxEvents,      \* bound: events committed in a behaviour
    Orderly         \* the values `orderly` may have

ASSUME EventStreamAssumption ==
    /\ Capacity \in Nat \ {0}
    /\ MaxStreams \in Nat /\ MaxEvents \in Nat
    /\ MaxWire \in Nat \ {0}
    /\ Orderly \subseteq BOOLEAN

VARIABLES
    log,        \* number of committed events; their ids are 1..log
    outbox,     \* appender -> ids it has committed and still has to publish
    sent,       \* what was sent on the channel since it was created
    closing,    \* LifecycleState.streams_closed
    stream,     \* client -> the server's side of its connection
    wire,       \* client -> ids that were sent to it and it has not read
    seen,       \* client -> ids of the events it has read, in all connections
    orderly     \* whether appends come one after the other, each published
                \* before the next: a session with its worker and no other task

vars == <<log, outbox, sent, closing, stream, wire, seen, orderly>>

\* `pos` counts the messages of the channel this receiver has consumed,
\* `upto` is the end of the log as the last query saw it.
Off == [at |-> "off", last |-> 0, pos |-> 0, upto |-> 0]

Init ==
    /\ log = 0
    /\ outbox = [a \in Appenders |-> <<>>]
    /\ sent = <<>>
    /\ closing = FALSE
    /\ stream = [c \in Clients |-> Off]
    /\ wire = [c \in Clients |-> <<>>]
    /\ seen = [c \in Clients |-> {}]
    /\ orderly \in Orderly

Open == {c \in Clients : stream[c].at \notin {"off", "closed"}}

-----------------------------------------------------------------------------
\* append / append_many: the transaction.
Commit(a, n) ==
    /\ ~closing /\ outbox[a] = <<>>
    /\ orderly => \A o \in Appenders : outbox[o] = <<>>
    /\ log + n <= MaxEvents
    /\ log' = log + n
    /\ outbox' = [outbox EXCEPT ![a] = [i \in 1..n |-> log + i]]
    /\ UNCHANGED <<sent, closing, stream, wire, seen, orderly>>

\* Mutant: of a batch only the first event is published.
PublishFirst(a) ==
    /\ outbox[a] # <<>>
    /\ outbox' = [outbox EXCEPT ![a] = <<>>]
    /\ sent' = IF Open = {} THEN <<>> ELSE Append(sent, Head(outbox[a]))
    /\ UNCHANGED <<log, closing, stream, wire, seen, orderly>>

\* EventHub::publish: without a receiver the channel is removed.
Publish(a) ==
    /\ outbox[a] # <<>>
    /\ outbox' = [outbox EXCEPT ![a] = Tail(@)]
    /\ sent' = IF Open = {} THEN <<>> ELSE Append(sent, Head(outbox[a]))
    /\ UNCHANGED <<log, closing, stream, wire, seen, orderly>>

\* The appender's future is dropped after its commit.
DropAppender(a) ==
    /\ ~orderly /\ outbox[a] # <<>>
    /\ outbox' = [outbox EXCEPT ![a] = <<>>]
    /\ UNCHANGED <<log, sent, closing, stream, wire, seen, orderly>>

-----------------------------------------------------------------------------
\* acquire_sse_connection; its permits are held as long as the stream.
AcquireSseConnection == Cardinality(Open) < MaxStreams

\* last_seen of follow_events, which is sent as Last-Event-ID.
Checkpoint(c) == Max(seen[c] \cup {0})

\* EventHub::subscribe: a receiver starts at the end of the channel, and a
\* channel nobody listens to is made anew.
Subscribe(c) ==
    LET channel == IF Open = {} THEN <<>> ELSE sent IN
    /\ ~closing /\ stream[c].at = "off"
    /\ AcquireSseConnection
    /\ sent' = channel
    /\ stream' = [stream EXCEPT ![c] = [at |-> "query", last |-> Checkpoint(c),
                                        pos |-> Len(channel), upto |-> 0]]
    /\ UNCHANGED <<log, outbox, closing, wire, seen, orderly>>

\* Mutant: the replay goes one event too far.
QueryBeyond(c) ==
    /\ stream[c].at = "query"
    /\ stream' = [stream EXCEPT ![c].at = "replay", ![c].upto = log + 1]
    /\ UNCHANGED <<log, outbox, sent, closing, wire, seen, orderly>>

\* store.events(after): at the start, and after a lag.
Query(c) ==
    /\ stream[c].at = "query"
    /\ stream' = [stream EXCEPT ![c].at = "replay", ![c].upto = log]
    /\ UNCHANGED <<log, outbox, sent, closing, wire, seen, orderly>>

Deliver(c, id, at, pos) ==
    /\ Len(wire[c]) < MaxWire
    /\ stream' = [stream EXCEPT ![c].at = at, ![c].pos = pos, ![c].last = id]
    /\ wire' = [wire EXCEPT ![c] = Append(@, id)]

\* One event of the query is sent.
Replay(c) ==
    /\ stream[c].at = "replay" /\ stream[c].last < stream[c].upto
    /\ Deliver(c, stream[c].last + 1, "replay", stream[c].pos)
    /\ UNCHANGED <<log, outbox, sent, closing, seen, orderly>>

\* Mutant: the stream listens to the channel only once the replay is over.
SubscribeLate(c) ==
    /\ stream[c].at = "replay" /\ stream[c].last >= stream[c].upto
    /\ stream' = [stream EXCEPT ![c].at = "live", ![c].pos = Len(sent)]
    /\ UNCHANGED <<log, outbox, sent, closing, wire, seen, orderly>>

GoLive(c) ==
    /\ stream[c].at = "replay" /\ stream[c].last >= stream[c].upto
    /\ stream' = [stream EXCEPT ![c].at = "live"]
    /\ UNCHANGED <<log, outbox, sent, closing, wire, seen, orderly>>

\* broadcast::Receiver::recv
Behind(c) == Len(sent) - stream[c].pos
Lagged(c) == Behind(c) > Capacity

\* Mutant: what the replay has sent already is sent again.
ReceiveAll(c) ==
    /\ stream[c].at = "live" /\ Behind(c) > 0 /\ ~Lagged(c)
    /\ Deliver(c, sent[stream[c].pos + 1], "live", stream[c].pos + 1)
    /\ UNCHANGED <<log, outbox, sent, closing, seen, orderly>>

Receive(c) ==
    /\ stream[c].at = "live" /\ Behind(c) > 0 /\ ~Lagged(c)
    /\ LET pos == stream[c].pos + 1 IN
       IF sent[pos] > stream[c].last
       THEN Deliver(c, sent[pos], "live", pos)
       ELSE stream' = [stream EXCEPT ![c].pos = pos] /\ UNCHANGED wire
    /\ UNCHANGED <<log, outbox, sent, closing, seen, orderly>>

\* RecvError::Lagged: the receiver skips to the oldest message still held.
FallBehind(c) ==
    /\ stream[c].at = "live" /\ Lagged(c)
    /\ stream' = [stream EXCEPT ![c].at = "query", ![c].pos = Len(sent) - Capacity]
    /\ UNCHANGED <<log, outbox, sent, closing, wire, seen, orderly>>

-----------------------------------------------------------------------------
\* follow_events: a frame is parsed and its id becomes the checkpoint.
ReadFrame(c) ==
    /\ wire[c] # <<>>
    /\ wire' = [wire EXCEPT ![c] = Tail(@)]
    /\ seen' = [seen EXCEPT ![c] = @ \cup {Head(wire[c])}]
    /\ UNCHANGED <<log, outbox, sent, closing, stream, orderly>>

\* The connection breaks, with what is on the wire.
Disconnect(c) ==
    /\ c \in Open
    /\ stream' = [stream EXCEPT ![c] = Off]
    /\ wire' = [wire EXCEPT ![c] = <<>>]
    /\ UNCHANGED <<log, outbox, sent, closing, seen, orderly>>

\* PreparedServer::run: the supervisor has stopped, its last events are
\* committed and published.
CloseStreams ==
    /\ ~closing
    /\ \A a \in Appenders : outbox[a] = <<>>
    /\ closing' = TRUE
    /\ UNCHANGED <<log, outbox, sent, stream, wire, seen, orderly>>

\* The select! may take the closing branch although messages are waiting.
EndStream(c) ==
    /\ closing /\ stream[c].at = "live"
    /\ stream' = [stream EXCEPT ![c].at = "closed"]
    /\ UNCHANGED <<log, outbox, sent, closing, wire, seen, orderly>>

AppenderStep(a) == Publish(a) \/ DropAppender(a)
StreamStep(c) == Query(c) \/ Replay(c) \/ GoLive(c) \/ Receive(c) \/ FallBehind(c)

Next ==
    \/ \E a \in Appenders : (\E n \in 1..2 : Commit(a, n)) \/ AppenderStep(a)
    \/ \E c \in Clients :
          Subscribe(c) \/ StreamStep(c) \/ ReadFrame(c) \/ Disconnect(c) \/ EndStream(c)
    \/ CloseStreams

Spec == Init /\ [][Next]_vars

\* Tasks that can go on are polled; a client that stops reading is one that
\* disconnects.
FairSpec ==
    /\ Spec
    /\ \A a \in Appenders : WF_vars(AppenderStep(a))
    /\ \A c \in Clients : WF_vars(StreamStep(c)) /\ WF_vars(ReadFrame(c))

-----------------------------------------------------------------------------
\* Type correctness: the channel and the streams only know committed ids.
TypeOK ==
    /\ log \in 0..MaxEvents
    /\ closing \in BOOLEAN
    /\ \A i \in DOMAIN sent : sent[i] \in 1..log
    /\ \A c \in Clients :
          /\ stream[c].at \in {"off", "query", "replay", "live", "closed"}
          /\ stream[c].last \in 0..log /\ stream[c].upto \in 0..log
          /\ stream[c].pos \in Nat

\* docs/CLIENT_PROTOCOL.md: "a race-free, at-least-once handoff".  A client
\* has read every event up to its checkpoint, which is all that it tells the
\* server when it comes back: stream_events skips none between the
\* subscription and the replay, nor after a lag, nor what was lost on the
\* wire.  This is so when appends are published in the order of their
\* commits (with two appenders that overtake each other, see the README).
NoGap == orderly => \A c \in Clients : seen[c] = 1..Checkpoint(c)

\* Whatever order the ids are published in, what is on the wire is new to the
\* client and in the order of the ids: nothing is sent twice, neither by a
\* replay that overlaps the channel nor after a lag or a reconnection.
SentOnceInOrder ==
    \A c \in Clients : \A i \in DOMAIN wire[c] :
        /\ wire[c][i] <= log
        /\ wire[c][i] > IF i = 1 THEN Checkpoint(c) ELSE wire[c][i - 1]

\* A client of such a session that stays connected catches up with the log:
\* it also reads the events that its receiver lost to a lag and the ones that
\* were committed between the subscription and the replay.
EventuallySent ==
    \A c \in Clients : orderly /\ c \in Open ~> (c \notin Open \/ Checkpoint(c) = log)
=============================================================================
