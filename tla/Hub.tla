--------------------------------- MODULE Hub ---------------------------------
(***************************************************************************)
(* The event hub of api/ws.go: goroutines that broadcast, the goroutine    *)
(* Run that owns the set of clients, and for every client a bounded        *)
(* channel Send, a readPump, a writePump and a socket.  broadcast,         *)
(* register and unregister are unbuffered: their senders block until Run   *)
(* receives, and Run must therefore never block on a client.               *)
(***************************************************************************)
EXTENDS Naturals, Sequences

CONSTANTS
    Clients,    \* WebSocket connections (a reconnection is another one)
    Envs,       \* environments
    Senders,    \* goroutines that call BroadcastToProjectMembers
    Cap,        \* capacity of a client's Send channel (256 in the code)
    MaxEvents,  \* bound: broadcasts
    Nil

ASSUME HubAssumption == Cap \in Nat \ {0} /\ MaxEvents \in Nat /\ Nil \notin Envs \cup Nat

\* What a message says does not matter here, which one it is does.
Events   == 1..MaxEvents
Messages == [env : Envs, data : Events]

VARIABLES
    sender,     \* the message a goroutine is blocked on, Nil otherwise
    clients,    \* Hub.clients
    env,        \* WsClient.EnvID
    send,       \* WsClient.Send, a buffered channel
    closed,     \* clients whose Send is closed
    reader,     \* readPump
    writer,     \* writePump
    held,       \* the message writePump is writing
    socket,     \* the connection: "stalled" when the peer has stopped reading,
                \* "dead" when it is lost, "closed" by the server
    sent, log, joined, taken, received   \* history: see below

\* sent: broadcasts begun; log: those that Run has received, by environment;
\* joined: the length of the log when the client was registered; taken: messages
\* that writePump received from Send; received: those the peer got.
history == <<sent, log, joined, taken, received>>
vars == <<sender, clients, env, send, closed, reader, writer, held, socket, history>>

ReaderPcs == {"none", "registering", "reading", "leaving", "ended"}
WriterPcs == {"none", "waiting", "writing", "ended"}
Sockets   == {"none", "open", "stalled", "dead", "closed"}

TypeOK ==
    /\ sender \in [Senders -> Messages \cup {Nil}]
    /\ clients \subseteq Clients
    /\ env \in [Clients -> Envs \cup {Nil}]
    /\ send \in [Clients -> Seq(Events)]
    /\ closed \subseteq Clients
    /\ reader \in [Clients -> ReaderPcs]
    /\ writer \in [Clients -> WriterPcs]
    /\ held \in [Clients -> Events \cup {Nil}]
    /\ socket \in [Clients -> Sockets]
    /\ sent \in Nat
    /\ log \in [Envs -> Seq(Events)]
    /\ joined \in [Clients -> Nat]
    /\ taken \in [Clients -> Nat]
    /\ received \in [Clients -> Seq(Events)]

Init ==
    /\ sender = [s \in Senders |-> Nil]
    /\ clients = {}
    /\ env = [c \in Clients |-> Nil]
    /\ send = [c \in Clients |-> <<>>]
    /\ closed = {}
    /\ reader = [c \in Clients |-> "none"]
    /\ writer = [c \in Clients |-> "none"]
    /\ held = [c \in Clients |-> Nil]
    /\ socket = [c \in Clients |-> "none"]
    /\ sent = 0
    /\ log = [e \in Envs |-> <<>>]
    /\ joined = [c \in Clients |-> 0]
    /\ taken = [c \in Clients |-> 0]
    /\ received = [c \in Clients |-> <<>>]

-----------------------------------------------------------------------------
(* Connections and senders arrive.                                         *)

\* A request that is let in and upgraded; it blocks until Run registers it.
ServeWS(c, e) ==
    /\ reader[c] = "none"
    /\ reader' = [reader EXCEPT ![c] = "registering"]
    /\ env' = [env EXCEPT ![c] = e]
    /\ socket' = [socket EXCEPT ![c] = "open"]
    /\ UNCHANGED <<sender, clients, send, closed, writer, held, history>>

BroadcastToProjectMembers(s, e) ==
    /\ sender[s] = Nil
    /\ sent < MaxEvents
    /\ sent' = sent + 1
    /\ sender' = [sender EXCEPT ![s] = [env |-> e, data |-> sent']]
    /\ UNCHANGED <<clients, env, send, closed, reader, writer, held, socket,
                   log, joined, taken, received>>

-----------------------------------------------------------------------------
(* The three cases of Run.                                                 *)

\* ServeWS returns, and both pumps start.
Register(c) ==
    /\ reader[c] = "registering"
    /\ clients' = clients \cup {c}
    /\ reader' = [reader EXCEPT ![c] = "reading"]
    /\ writer' = [writer EXCEPT ![c] = "waiting"]
    /\ joined' = [joined EXCEPT ![c] = Len(log[env[c]])]
    /\ UNCHANGED <<sender, env, send, closed, held, socket, sent, log, taken, received>>

\* The readPump that sent the client ends; the connection it closes is lost already.
Unregister(c) ==
    /\ reader[c] = "leaving"
    /\ clients' = clients \ {c}
    /\ closed' = IF c \in clients THEN closed \cup {c} ELSE closed
    /\ reader' = [reader EXCEPT ![c] = "ended"]
    /\ UNCHANGED <<sender, env, send, writer, held, socket, history>>

Audience(e) == {c \in clients : env[c] = e}

\* Mutation: off by one.
AlmostFull(c) == Len(send[c]) >= Cap - 1

Full(c) == Len(send[c]) = Cap

\* The message reaches the channels of the given clients, and its sender goes on.
Hand(s, to) ==
    LET m == sender[s] IN
    /\ m # Nil
    /\ send' = [c \in Clients |-> IF c \in to THEN Append(send[c], m.data) ELSE send[c]]
    /\ log' = [log EXCEPT ![m.env] = Append(@, m.data)]
    /\ sender' = [sender EXCEPT ![s] = Nil]
    /\ UNCHANGED <<env, reader, writer, held, socket, sent, joined, taken, received>>

\* Mutations: a select without default; a default that does nothing; a default
\* that closes the channel and leaves the client in the map.
SendBlocking(s) ==
    /\ sender[s] # Nil
    /\ \A c \in Audience(sender[s].env) : ~Full(c)
    /\ Hand(s, Audience(sender[s].env))
    /\ UNCHANGED <<clients, closed>>
SkipFull(s) ==
    /\ Hand(s, {c \in Audience(sender[s].env) : ~Full(c)})
    /\ UNCHANGED <<clients, closed>>
KeepClosed(s) ==
    LET audience == Audience(sender[s].env)
        dropped  == {c \in audience : Full(c)}
    IN /\ Hand(s, audience \ dropped)
       /\ closed' = closed \cup dropped
       /\ UNCHANGED clients

\* A client whose channel is full is dropped in the same step.
Broadcast(s) ==
    LET audience == Audience(sender[s].env)
        dropped  == {c \in audience : Full(c)}
    IN /\ Hand(s, audience \ dropped)
       /\ closed' = closed \cup dropped
       /\ clients' = clients \ dropped

-----------------------------------------------------------------------------
(* The pumps of a client.                                                  *)

Lost(c) == socket[c] \in {"dead", "closed"}

Receive(c) ==
    /\ writer[c] = "waiting"
    /\ send[c] # <<>>
    /\ held' = [held EXCEPT ![c] = Head(send[c])]
    /\ send' = [send EXCEPT ![c] = Tail(send[c])]
    /\ taken' = [taken EXCEPT ![c] = @ + 1]
    /\ writer' = [writer EXCEPT ![c] = "writing"]
    /\ UNCHANGED <<sender, clients, env, closed, reader, socket, sent, log, joined,
                   received>>

\* Mutation: the message is dropped before it is written.
ClearThenWrite(c) ==
    /\ writer[c] = "writing"
    /\ socket[c] = "open" \/ Lost(c)
    /\ held' = [held EXCEPT ![c] = Nil]
    /\ received' = IF socket[c] = "open"
                     THEN [received EXCEPT ![c] = Append(@, held'[c])] ELSE received
    /\ writer' = [writer EXCEPT ![c] = "waiting"]
    /\ UNCHANGED <<sender, clients, env, send, closed, reader, socket, sent, log, joined,
                   taken>>

\* WriteJSON blocks on a stalled peer, without a deadline; its error is ignored.
WriteJSON(c) ==
    /\ writer[c] = "writing"
    /\ socket[c] = "open" \/ Lost(c)
    /\ received' = IF socket[c] = "open"
                     THEN [received EXCEPT ![c] = Append(@, held[c])] ELSE received
    /\ held' = [held EXCEPT ![c] = Nil]
    /\ writer' = [writer EXCEPT ![c] = "waiting"]
    /\ UNCHANGED <<sender, clients, env, send, closed, reader, socket, sent, log, joined,
                   taken>>

\* Mutation: writePump watches for the close instead of draining the channel.
CloseAtOnce(c) ==
    /\ writer[c] = "waiting"
    /\ c \in closed
    /\ socket[c] # "stalled"
    /\ writer' = [writer EXCEPT ![c] = "ended"]
    /\ socket' = [socket EXCEPT ![c] = IF @ = "open" THEN "closed" ELSE @]
    /\ UNCHANGED <<sender, clients, env, send, closed, reader, held, history>>

\* A closed channel still yields what it holds; then writePump says goodbye.
WriteClose(c) ==
    /\ writer[c] = "waiting"
    /\ c \in closed /\ send[c] = <<>>
    /\ socket[c] # "stalled"
    /\ writer' = [writer EXCEPT ![c] = "ended"]
    /\ socket' = [socket EXCEPT ![c] = IF @ = "open" THEN "closed" ELSE @]
    /\ UNCHANGED <<sender, clients, env, send, closed, reader, held, history>>

\* The ping of every 54 seconds ends a writePump whose connection is dead.
PingFails(c) ==
    /\ writer[c] = "waiting"
    /\ Lost(c)
    /\ writer' = [writer EXCEPT ![c] = "ended"]
    /\ UNCHANGED <<sender, clients, env, send, closed, reader, held, socket, history>>

\* Mutation: readPump returns without sending to unregister.
ReturnEarly(c) ==
    /\ reader[c] = "reading"
    /\ Lost(c)
    /\ reader' = [reader EXCEPT ![c] = "ended"]
    /\ UNCHANGED <<sender, clients, env, send, closed, writer, held, socket, history>>

ReadFails(c) ==
    /\ reader[c] = "reading"
    /\ Lost(c)
    /\ reader' = [reader EXCEPT ![c] = "leaving"]
    /\ UNCHANGED <<sender, clients, env, send, closed, writer, held, socket, history>>

-----------------------------------------------------------------------------
(* The peer stops reading, reads again, or goes away.                      *)

Connection(c, from, to) ==
    /\ socket[c] \in from
    /\ socket' = [socket EXCEPT ![c] = to]
    /\ UNCHANGED <<sender, clients, env, send, closed, reader, writer, held, history>>

Stall(c)      == Connection(c, {"open"}, "stalled")
Resume(c)     == Connection(c, {"stalled"}, "open")
Disconnect(c) == Connection(c, {"open", "stalled"}, "dead")

Run == \/ \E c \in Clients : Register(c) \/ Unregister(c)
       \/ \E s \in Senders : Broadcast(s)

WritePump(c) == Receive(c) \/ WriteJSON(c) \/ WriteClose(c) \/ PingFails(c)
ReadPump(c)  == ReadFails(c)
Peer(c)      == Stall(c) \/ Resume(c) \/ Disconnect(c)

Next ==
    \/ \E c \in Clients, e \in Envs : ServeWS(c, e)
    \/ \E s \in Senders, e \in Envs : BroadcastToProjectMembers(s, e)
    \/ Run
    \/ \E c \in Clients : WritePump(c) \/ ReadPump(c) \/ Peer(c)

\* Go schedules every goroutine that can run, and select picks among the cases
\* that are ready at random.  Nothing is assumed of the peers.
Fairness ==
    /\ \A c \in Clients : /\ WF_vars(Register(c)) /\ WF_vars(Unregister(c))
                          /\ WF_vars(WritePump(c)) /\ WF_vars(ReadPump(c))
    /\ \A s \in Senders : WF_vars(Broadcast(s))

Spec     == Init /\ [][Next]_vars
FairSpec == Spec /\ Fairness

-----------------------------------------------------------------------------
(* Properties.                                                             *)

\* Run never sends to a closed channel and never closes one twice: Go would
\* panic in the goroutine that serves every environment (ws.go, Hub.Run).
NoPanic == clients \cap closed = {}

\* What is due to a client, written or still queued, continues what it has.
Queued(c) == taken[c] + Len(send[c])

\* A registered client misses nothing: what it has been handed and what waits
\* for it is the whole log since it joined, although broadcasts of other
\* environments and other clients' departures come in between.
NothingMissed ==
    \A c \in clients : joined[c] + Queued(c) = Len(log[env[c]])

\* What the peer has received is a run of consecutive events of its own
\* environment, in the order in which Run received them (EventFeed).
Feed == INSTANCE EventFeed WITH
          Kinds <- Events,
          following <- clients,
          topic <- [c \in Clients |-> IF reader[c] \in {"none", "registering"}
                                        THEN Nil ELSE env[c]],
          start <- joined,
          due <- [c \in Clients |-> Queued(c)],
          seen <- received

FeedSpec == Feed!Spec

\* A broadcast never waits for a client for good, stalled ones included: a save,
\* a commit and the file watcher all sit behind one.
BroadcastsReturn == \A s \in Senders : sender[s] # Nil ~> sender[s] = Nil

\* A connection that is lost ends both of its goroutines and is forgotten.
LostIsForgotten ==
    \A c \in Clients :
      (reader[c] # "none" /\ Lost(c))
        ~> (c \notin clients /\ reader[c] = "ended" /\ writer[c] = "ended")

\* What is queued for a peer that goes on reading reaches it, also when the
\* client has been dropped in the meantime.
QueuedIsDelivered ==
    \A c \in Clients :
      Len(received[c]) < Queued(c)
        ~> (Len(received[c]) = Queued(c) \/ socket[c] \in {"stalled", "dead"})
=============================================================================
