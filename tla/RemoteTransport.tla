--------------------------- MODULE RemoteTransport ---------------------------
(***************************************************************************)
(* A GraphQL subscription executed on another server: the two              *)
(* RemoteTransports of it (openland-module-pubsub/RemoteTransport.ts), the *)
(* executor that sends the events (openland-spacex/remoteExecutor.ts) and  *)
(* the caller that reads them (callRemoteSubscription).                    *)
(*                                                                         *)
(* The executor only sends messages and the caller only acknowledges them, *)
(* so one end is the sender half of the class and the other its receiver   *)
(* half.  The body of message n is n.  Keep-alives carry nothing: a        *)
(* watchdog may fire whenever it is armed (the interval of the keep-alives *)
(* is the timeout of the watchdog, 5000 ms each), and is only sure to when *)
(* the other end is silent.                                                *)
(***************************************************************************)
EXTENDS Integers, FiniteSets, Sequences, SequencesExt

CONSTANTS
    ExecutorStarts,  \* the executor's transport was started: in the code nobody
                     \* calls start(), so that its connect() throws
    MaxSent,         \* bound on the messages
    MaxLost          \* bound on the messages and signals NATS loses

ASSUME ConstantsAssumption ==
    ExecutorStarts \in BOOLEAN /\ MaxSent \in Nat /\ MaxLost \in Nat

VARIABLES
    ordered,    \* NATS hands the messages over in the order of their publishing
    call,       \* Broker.call of the caller
    client,     \* the caller's transport
    asks,       \* nack requests of the client without an answer yet
    replies,    \* their answers on the way
    server,     \* the executor's transport
    loop,       \* the executor's loop over the events of the subscription
    toClient,   \* what the server published to the client
    acks,       \* acknowledgements on the way to the server
    stopping,   \* a stop signal is on the way to the server
    delivered,  \* history: what the iterator was given
    completed,  \* how the stream was closed for the reader
    lost        \* history: how many messages were lost

netVars == <<toClient, acks, stopping, lost>>
clientVars == <<call, client, asks, replies, delivered, completed>>
serverVars == <<server, loop>>
transportVars == <<ordered, clientVars, serverVars, netVars>>

Seqs == 0..MaxSent
Asked == 0..MaxSent+1         \* a nack may ask for a message not sent yet
Stop == -1                   \* the stop signal among the messages
NoTimer == [seq |-> -1, running |-> FALSE]

TransportTypeOK ==
    /\ ordered \in BOOLEAN
    /\ call \in {"waiting", "answered", "failed"}
    /\ client \in [status : {"started", "connected", "stopped"},
                   received : SUBSET Seqs, processed : Seqs \cup {-1},
                   receivedSeq : Seqs \cup {-1}, armed : BOOLEAN,
                   retryTimer : [seq : Asked, running : BOOLEAN] \cup {NoTimer}]
    /\ asks \subseteq Asked /\ replies \subseteq Seqs
    /\ server \in [status : {"init", "connected", "stopped"},
                   sentSeq : Seqs \cup {-1}, sent : SUBSET Seqs]
    /\ loop \in {"waiting", "executing", "ended"}
    /\ toClient \in Seq(Seqs \cup {Stop})
    /\ acks \subseteq Seqs /\ stopping \in BOOLEAN
    /\ delivered \in Seq(Seqs)
    /\ completed \in {"no", "error", "signal", "exit"}
    /\ lost \in 0..MaxLost

\* callRemoteSubscription has started its transport and called subscribe.
TransportInit ==
    /\ ordered \in BOOLEAN
    /\ call = "waiting"
    /\ client = [status |-> "started", received |-> {}, processed |-> -1,
                 receivedSeq |-> -1, armed |-> FALSE, retryTimer |-> NoTimer]
    /\ asks = {} /\ replies = {}
    /\ server = [status |-> "init", sentSeq |-> -1, sent |-> {}]
    /\ loop = "waiting"
    /\ toClient = <<>> /\ acks = {} /\ stopping = FALSE
    /\ delivered = <<>> /\ completed = "no"
    /\ lost = 0

----------------------------------------------------------------------------
(* The receiver's half, on the record of a transport *)

Greatest(S) == CHOOSE x \in S : \A y \in S : x >= y

\* startRetryTimerIfNeeded.  A timer that has fired is still there.
StartRetryTimerIfNeeded(c) ==
    IF c.retryTimer = NoTimer /\ c.processed # c.receivedSeq
    THEN [c EXCEPT !.retryTimer = [seq |-> c.receivedSeq + 1, running |-> TRUE]]
    ELSE c

OnAllPendingProcessed(c) ==
    StartRetryTimerIfNeeded([c EXCEPT !.retryTimer = NoTimer])

OnReceivedSeq(c, seq) ==
    StartRetryTimerIfNeeded([c EXCEPT !.receivedSeq = Greatest({@, seq})])

\* Mutant: what waits in the buffer stays there.
FlushIfNeeded_Never(c) == c

\* Mutant: everything in the buffer is flushed, gaps or not.
FlushIfNeeded_Skips(c) ==
    [c EXCEPT !.processed = Greatest({@} \cup c.received)]

FlushIfNeeded(c) ==
    [c EXCEPT !.processed =
        Greatest({@} \cup {n \in c.received : @ + 1..n \subseteq c.received})]

HandleMessage(c, seq) ==
    IF seq = c.processed + 1
    THEN OnAllPendingProcessed(FlushIfNeeded([c EXCEPT !.processed = seq]))
    ELSE IF seq > c.processed + 1 THEN [c EXCEPT !.received = @ \cup {seq}]
    ELSE c

\* onReceived of each number the step processed: to the reader, and an ack.
Emitted(c, d, buffer) ==
    LET new == buffer \cap (c.processed + 1 .. d.processed)
    IN [i \in 1..Cardinality(new) |->
          CHOOSE n \in new : Cardinality({m \in new : m < n}) = i - 1]

Receive(c, d, buffer) ==
    /\ client' = d
    /\ delivered' = delivered \o Emitted(c, d, buffer)
    /\ acks' = acks \cup ToSet(Emitted(c, d, buffer))

\* notifyOnClosed and stop().  What a request that is still open brings is
\* ignored.  The signal of the other end has cleared remoteId before.
StopClient(reason) ==
    /\ client' = [client EXCEPT !.status = "stopped", !.retryTimer = NoTimer]
    /\ completed' = reason
    /\ asks' = {} /\ replies' = {}
    /\ stopping' = (stopping \/ (client.status = "connected" /\ reason # "signal"))

----------------------------------------------------------------------------
(* The caller: callRemoteSubscription *)

Subscribed == client.status \in {"started", "connected"}

\* connect(): the messages that came before the answer are in the buffer.
Connect ==
    LET c == [client EXCEPT !.status = "connected", !.armed = TRUE,
                            !.receivedSeq = Greatest({@} \cup client.received)]
    IN Receive(client, OnAllPendingProcessed(FlushIfNeeded(c)), client.received)

\* The answer of Broker.call: connect() throws when the transport has stopped.
BrokerAnswers ==
    /\ call = "waiting" /\ server.status # "init"
    /\ \/ /\ client.status = "started"
          /\ call' = "answered"
          /\ Connect
       \/ /\ client.status = "stopped"
          /\ call' = "failed"
          /\ UNCHANGED <<client, delivered, acks>>
    /\ UNCHANGED <<ordered, asks, replies, completed, serverVars, toClient,
                   stopping, lost>>

\* Ten seconds without an answer, or the executor threw: callRemoteSubscription
\* throws and its transport stays as it is.
BrokerFails ==
    /\ call = "waiting"
    /\ call' = "failed"
    /\ UNCHANGED <<ordered, client, asks, replies, delivered, completed,
                   serverVars, netVars>>

\* The reader leaves its loop: onExit.
Exit ==
    /\ call = "answered" /\ client.status = "connected"
    /\ StopClient("exit")
    /\ UNCHANGED <<ordered, call, delivered, serverVars, toClient, acks, lost>>

----------------------------------------------------------------------------
(* What reaches the caller's transport *)

\* The messages that may be the next to arrive.
Arriving == IF ordered THEN {1} \cap DOMAIN toClient ELSE DOMAIN toClient

\* Mutant: a message acknowledged while it only waits in the buffer.
ReceiveMessage_AcksBuffered(seq) ==
    LET c == [client EXCEPT !.armed = TRUE]
        d == OnReceivedSeq(HandleMessage(c, seq), seq)
    IN /\ client.status = "connected"
       /\ client' = d
       /\ delivered' = delivered \o Emitted(c, d, client.received \cup {seq})
       /\ acks' = acks \cup {seq}
       /\ UNCHANGED <<asks, replies, completed, stopping>>

\* A 'msg': buffered while the transport is not connected.
ReceiveMessage(seq) ==
    /\ Subscribed
    /\ \/ /\ client.status = "connected"
          /\ LET c == [client EXCEPT !.armed = TRUE]
                 d == OnReceivedSeq(HandleMessage(c, seq), seq)
             IN Receive(client, d, client.received \cup {seq})
       \/ /\ client.status = "started"
          /\ client' = [client EXCEPT !.received = @ \cup {seq}, !.armed = TRUE]
          /\ UNCHANGED <<delivered, acks>>
    /\ UNCHANGED <<asks, replies, completed, stopping>>

\* A 'stop': the iterator completes with what it was given so far.
ReceiveStop ==
    /\ Subscribed
    /\ StopClient("signal")
    /\ UNCHANGED <<delivered, acks>>

\* A transport that has stopped has no subscription: nothing reaches it.
Arrives(i) ==
    /\ i \in Arriving
    /\ toClient' = RemoveAt(toClient, i)
    /\ \/ toClient[i] \in Seqs /\ ReceiveMessage(toClient[i])
       \/ toClient[i] = Stop /\ ReceiveStop
    /\ UNCHANGED <<ordered, call, serverVars, lost>>

Lose(i) ==
    /\ lost < MaxLost /\ i \in DOMAIN toClient
    /\ toClient' = RemoveAt(toClient, i)
    /\ lost' = lost + 1
    /\ UNCHANGED <<ordered, clientVars, serverVars, acks, stopping>>

\* A 'ka' of the executor's transport arms the watchdog, connected or not.
KeepAliveArrives ==
    /\ Subscribed /\ server.status = "connected" /\ ~client.armed
    /\ client' = [client EXCEPT !.armed = TRUE]
    /\ UNCHANGED <<ordered, call, asks, replies, delivered, completed,
                   serverVars, netVars>>

\* Five seconds without a message: 'Connection died'.
ClientDies ==
    /\ client.armed /\ client.status # "stopped"
    /\ StopClient("error")
    /\ UNCHANGED <<ordered, call, delivered, serverVars, toClient, acks, lost>>

----------------------------------------------------------------------------
(* The retry of the caller's transport *)

RetryTimerFires ==
    /\ client.retryTimer.running
    /\ client' = [client EXCEPT !.retryTimer.running = FALSE]
    /\ asks' = asks \cup {client.retryTimer.seq}
    /\ UNCHANGED <<ordered, call, replies, delivered, completed, serverVars, netVars>>

\* A 'nack': the executor's transport answers if it still has the message.
AnswerNack(seq) ==
    /\ seq \in asks
    /\ server.status = "connected" /\ seq \in server.sent
    /\ asks' = asks \ {seq} /\ replies' = replies \cup {seq}
    /\ UNCHANGED <<ordered, call, client, delivered, completed, serverVars, netVars>>

\* The answer is handled, but its number is not noted as received.
NackAnswered(seq) ==
    /\ seq \in replies
    /\ replies' = replies \ {seq}
    /\ Receive(client, HandleMessage(client, seq), client.received \cup {seq})
    /\ UNCHANGED <<ordered, call, asks, completed, serverVars, toClient, stopping, lost>>

\* No answer in five seconds: the stream is given up if nothing was received
\* since the timer was set.
NackFails(seq) ==
    /\ seq \in asks \cup replies
    /\ \/ /\ client.receivedSeq + 1 = seq
          /\ StopClient("error")
       \/ /\ client.receivedSeq + 1 # seq
          /\ asks' = asks \ {seq} /\ replies' = replies \ {seq}
          /\ UNCHANGED <<client, completed, stopping>>
    /\ UNCHANGED <<ordered, call, delivered, serverVars, toClient, acks, lost>>

----------------------------------------------------------------------------
(* The executor *)

\* The subscribe action.  connect() throws on a transport nobody started.
ServeSubscribe ==
    /\ ExecutorStarts /\ server.status = "init"
    /\ server' = [server EXCEPT !.status = "connected"]
    /\ UNCHANGED <<ordered, clientVars, loop, netVars>>

\* stop(), which publishes the signal.
StopServer ==
    /\ server' = [server EXCEPT !.status = "stopped"]
    /\ toClient' = Append(toClient, Stop)

\* The event stream has an event.  `closed` is looked at before it is resolved.
TakeEvent ==
    /\ loop = "waiting" /\ server.status # "init" /\ server.sentSeq < MaxSent
    /\ loop' = IF server.status = "stopped" THEN "ended" ELSE "executing"
    /\ UNCHANGED <<ordered, clientVars, server, netVars>>

Send ==
    /\ server' = [server EXCEPT !.sentSeq = @ + 1, !.sent = @ \cup {server.sentSeq + 1}]
    /\ toClient' = Append(toClient, server.sentSeq + 1)

\* The event was resolved: its data is sent, or its errors and then the stop.
\* send() throws out of the loop if the transport was closed meanwhile.
SendEvent ==
    /\ loop = "executing"
    /\ \/ /\ server.status = "connected"
          /\ Send
          /\ loop' = "waiting"
       \/ /\ server.status = "connected"
          /\ server' = [server EXCEPT !.status = "stopped", !.sentSeq = @ + 1,
                                      !.sent = @ \cup {server.sentSeq + 1}]
          /\ toClient' = Append(Append(toClient, server.sentSeq + 1), Stop)
          /\ loop' = "ended"
       \/ /\ server.status = "stopped"
          /\ loop' = "ended"
          /\ UNCHANGED <<server, toClient>>
    /\ UNCHANGED <<ordered, clientVars, acks, stopping, lost>>

\* The event stream is over.
StreamEnds ==
    /\ loop = "waiting" /\ server.status = "connected"
    /\ loop' = "ended"
    /\ StopServer
    /\ UNCHANGED <<ordered, clientVars, acks, stopping, lost>>

AckArrives(seq) ==
    /\ seq \in acks /\ server.status = "connected"
    /\ acks' = acks \ {seq}
    /\ server' = [server EXCEPT !.sent = @ \ {seq}]
    /\ UNCHANGED <<ordered, clientVars, loop, toClient, stopping, lost>>

\* Mutant: the executor's transport has no watchdog.
ServerCloses_NoWatchdog ==
    /\ server.status = "connected" /\ stopping
    /\ server' = [server EXCEPT !.status = "stopped"]
    /\ stopping' = FALSE
    /\ UNCHANGED <<ordered, clientVars, loop, toClient, acks, lost>>

\* The client's stop, after which remoteId is null, or the watchdog.
ServerCloses ==
    /\ server.status = "connected"
    /\ \/ stopping /\ server' = [server EXCEPT !.status = "stopped"] /\ UNCHANGED toClient
       \/ StopServer
    /\ stopping' = FALSE
    /\ UNCHANGED <<ordered, clientVars, loop, acks, lost>>

----------------------------------------------------------------------------

TransportNext ==
    \/ BrokerAnswers \/ BrokerFails \/ Exit
    \/ \E i \in DOMAIN toClient : Arrives(i) \/ Lose(i)
    \/ KeepAliveArrives \/ ClientDies
    \/ RetryTimerFires
    \/ \E seq \in Asked : AnswerNack(seq) \/ NackAnswered(seq) \/ NackFails(seq)
    \/ \E seq \in Seqs : AckArrives(seq)
    \/ ServeSubscribe \/ TakeEvent \/ SendEvent \/ StreamEnds \/ ServerCloses

TransportSpec == TransportInit /\ [][TransportNext]_transportVars

\* NATS hands over what it does not lose, timers fire, and a watchdog fires
\* when the other end has stopped or never connected.
TransportFairSpec ==
    /\ TransportSpec
    /\ WF_transportVars(\E i \in DOMAIN toClient : Arrives(i))
    /\ WF_transportVars(BrokerAnswers) /\ WF_transportVars(BrokerFails)
    /\ WF_transportVars(RetryTimerFires) /\ WF_transportVars(KeepAliveArrives)
    /\ WF_transportVars(\E seq \in Asked : NackAnswered(seq) \/ NackFails(seq))
    /\ WF_transportVars(server.status = "stopped" /\ ClientDies)
    /\ WF_transportVars(client.status # "connected" /\ ServerCloses)

----------------------------------------------------------------------------
(* Properties *)

\* Whatever is lost, reordered or asked for again, the reader gets the messages
\* in order, each once and none skipped, and nothing after the end.
Stream == INSTANCE MessageStream WITH
    sent <- server.sentSeq + 1, got <- delivered, closed <- client.status = "stopped"
StreamSpec == Stream!Spec

\* The executor keeps a message until the reader has been given it, so that it
\* can be sent again; an acknowledgement never runs ahead of the reader.  And when
\* nothing is lost or reordered, a connected reader that is told the stream is
\* over has been given everything: nothing waits in a buffer behind the signal.
KeptUntilDelivered ==
    /\ TransportTypeOK
    /\ \A n \in 0..server.sentSeq : n \in server.sent \/ n \in ToSet(delivered)
    /\ acks \subseteq ToSet(delivered)
    /\ Len(delivered) = client.processed + 1
    /\ (ordered /\ lost = 0 /\ call = "answered" /\ completed = "signal")
           => Len(delivered) = server.sentSeq + 1

\* One end does not outlive the other: after the caller's transport has stopped,
\* or its call has failed, the executor's stops; and after the executor's has
\* stopped, the caller's does if it ever heard of it.  (One that never did, of a
\* call that failed, is left started for good.)
EndsTogether ==
    /\ (server.status = "connected" /\ (client.status = "stopped" \/ call = "failed"))
           ~> server.status = "stopped"
    /\ (client.armed /\ server.status = "stopped") ~> client.status = "stopped"

\* While nothing is lost, every message that was sent to a connected reader is
\* delivered, in whatever order they arrive, unless the stream is closed.
EventuallyDelivered ==
    [](lost = 0) =>
        \A n \in Seqs : (call = "answered" /\ server.sentSeq >= n)
                            ~> (Len(delivered) > n \/ client.status = "stopped")
==============================================================================
