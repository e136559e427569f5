------------------------------ MODULE EventFeed ------------------------------
(***************************************************************************)
(* What the event hub promises, without its channels and goroutines: every *)
(* environment has one log of events, and a client that follows it sees a  *)
(* run of consecutive events of that log, from the moment it joined on.    *)
(* Only a client that leaves, or that is Cap events or more behind, stops  *)
(* being owed the events that come after.                                  *)
(***************************************************************************)
EXTENDS Naturals, Sequences

CONSTANTS Clients, Envs, Kinds, Cap, Nil

VARIABLES
    log,        \* the events of each environment, in the order of the hub
    following,  \* clients that are owed what is published next
    topic,      \* the environment a client has joined, Nil before
    start,      \* how long the log was when the client joined
    due,        \* how many events after that the client is owed
    seen        \* the events that reached the client

vars == <<log, following, topic, start, due, seen>>

Init ==
    /\ log = [e \in Envs |-> <<>>]
    /\ following = {}
    /\ topic = [c \in Clients |-> Nil]
    /\ start = [c \in Clients |-> 0]
    /\ due = [c \in Clients |-> 0]
    /\ seen = [c \in Clients |-> <<>>]

Join(c, e) ==
    /\ topic[c] = Nil
    /\ topic' = [topic EXCEPT ![c] = e]
    /\ start' = [start EXCEPT ![c] = Len(log[e])]
    /\ following' = following \cup {c}
    /\ UNCHANGED <<log, due, seen>>

Followers(e) == {c \in following : topic[c] = e}

Late(c) == due[c] >= Len(seen[c]) + Cap

Publish(e, k) ==
    \E dropped \in SUBSET {c \in Followers(e) : Late(c)} :
      /\ log' = [log EXCEPT ![e] = Append(@, k)]
      /\ following' = following \ dropped
      /\ due' = [c \in Clients |-> IF c \in Followers(e) \ dropped THEN due[c] + 1
                                                                   ELSE due[c]]
      /\ UNCHANGED <<topic, start, seen>>

See(c) ==
    /\ Len(seen[c]) < due[c]
    /\ seen' = [seen EXCEPT ![c] = Append(@, log[topic[c]][start[c] + Len(@) + 1])]
    /\ UNCHANGED <<log, following, topic, start, due>>

Leave(c) ==
    /\ following' = following \ {c}
    /\ UNCHANGED <<log, topic, start, due, seen>>

Next ==
    \/ \E c \in Clients, e \in Envs : Join(c, e)
    \/ \E e \in Envs, k \in Kinds : Publish(e, k)
    \/ \E c \in Clients : See(c) \/ Leave(c)

Spec == Init /\ [][Next]_vars
=============================================================================
