------------------------------ MODULE HubProofs ------------------------------
(***************************************************************************)
(* The hub is safe and implements EventFeed, for any number of clients,    *)
(* environments, senders and events and any capacity.                      *)
(*                                                                         *)
(* HubInv adds to the two safety properties of Hub where the pumps of a    *)
(* client stand (Stages) and where its messages are: what is in Send, and  *)
(* what writePump holds, are the events of the log that come next          *)
(* (InFlight), and as long as the connection lives nothing was lost        *)
(* between writePump and the peer (NothingLost).                           *)
(***************************************************************************)
EXTENDS Hub, SequenceTheorems, TLAPS

Joined(c) == reader[c] \in {"reading", "leaving", "ended"}

Stages ==
    \A c \in Clients :
      /\ reader[c] # "none" => env[c] \in Envs
      /\ c \in clients => reader[c] \in {"reading", "leaving"}
      /\ ~Joined(c) => /\ c \notin closed /\ writer[c] = "none"
                       /\ send[c] = <<>> /\ taken[c] = 0 /\ received[c] = <<>>

Placed(c) ==
    /\ Len(send[c]) <= Cap
    /\ Joined(c) => /\ joined[c] + taken[c] + Len(send[c]) <= Len(log[env[c]])
                    /\ \A i \in 1..Len(send[c]) :
                         send[c][i] = log[env[c]][joined[c] + taken[c] + i]
    /\ writer[c] = "writing" => held[c] = log[env[c]][joined[c] + taken[c]]

InFlight == \A c \in Clients : Placed(c)

Written(c) ==
    /\ Len(received[c]) <= taken[c]
    /\ writer[c] = "writing" => Len(received[c]) < taken[c]
    /\ ~Lost(c) =>
         taken[c] = IF writer[c] = "writing" THEN Len(received[c]) + 1 ELSE Len(received[c])

NothingLost == \A c \in Clients : Written(c)

\* writePump has a message in hand exactly while it writes.
Holding == \A c \in Clients : writer[c] = "writing" => held[c] \in Events

HubInv == TypeOK /\ Holding /\ Stages /\ NoPanic /\ NothingMissed /\ InFlight /\ NothingLost

\* The places in a log of n messages of those a client has taken (t) and has
\* queued (q) since it joined after j.
LEMMA Positions ==
  ASSUME NEW j \in Nat, NEW t \in Nat, NEW q \in Nat, NEW n \in Nat, j + t + q <= n
  PROVE  /\ \A i \in 1..q : j + t + i \in 1..n
         /\ t >= 1 => j + t \in 1..n
OBVIOUS

\* A message that is taken moves the queue by one.
LEMMA Shift ==
  ASSUME NEW j \in Nat, NEW t \in Nat, NEW i \in Nat
  PROVE  j + t + (i + 1) = j + (t + 1) + i /\ j + t + 1 = j + (t + 1)
OBVIOUS

\* A log that grows keeps the places it had.
LEMMA LessTransitive ==
  ASSUME NEW j \in Nat, NEW t \in Nat, NEW q \in Nat, NEW n \in Nat, NEW k \in Nat,
         j + t + q <= n, n <= k
  PROVE  j + t + q <= k
OBVIOUS

\* The types hold initially and after every step of the hub, its clients and its peers.
LEMMA TypeStep == TypeOK /\ Holding /\ [Next]_vars => TypeOK' /\ Holding'
<1> SUFFICES ASSUME TypeOK, Holding, [Next]_vars PROVE TypeOK' /\ Holding'
  OBVIOUS
<1> USE HubAssumption DEF TypeOK, Holding, history
<1>1. ASSUME NEW c \in Clients, NEW e \in Envs, ServeWS(c, e) PROVE TypeOK' /\ Holding'
  BY <1>1 DEF ServeWS, ReaderPcs, Sockets
<1>2. ASSUME NEW s \in Senders, NEW e \in Envs, BroadcastToProjectMembers(s, e) PROVE TypeOK' /\ Holding'
  BY <1>2 DEF BroadcastToProjectMembers, Messages, Events
<1>3. ASSUME NEW c \in Clients, Register(c) PROVE TypeOK' /\ Holding'
  BY <1>3 DEF Register, ReaderPcs, WriterPcs
<1>4. ASSUME NEW c \in Clients, Unregister(c) PROVE TypeOK' /\ Holding'
  BY <1>4 DEF Unregister, ReaderPcs, Sockets
<1>5. ASSUME NEW s \in Senders, Broadcast(s) PROVE TypeOK' /\ Holding'
  BY <1>5 DEF Broadcast, Hand, Audience, Messages
<1>6. ASSUME NEW c \in Clients, Receive(c) PROVE TypeOK' /\ Holding'
  BY <1>6 DEF Receive, WriterPcs
<1>7. ASSUME NEW c \in Clients, WriteJSON(c) PROVE TypeOK' /\ Holding'
  BY <1>7 DEF WriteJSON, WriterPcs
<1>8. ASSUME NEW c \in Clients, WriteClose(c) \/ PingFails(c) \/ ReadFails(c) PROVE TypeOK' /\ Holding'
  BY <1>8 DEF WriteClose, PingFails, ReadFails, WriterPcs, ReaderPcs, Sockets
<1>9. ASSUME NEW c \in Clients, Peer(c) PROVE TypeOK' /\ Holding'
  BY <1>9 DEF Peer, Stall, Resume, Disconnect, Connection, Sockets
<1>10. CASE UNCHANGED vars
  BY <1>10 DEF vars
<1> QED BY <1>1, <1>2, <1>3, <1>4, <1>5, <1>6, <1>7, <1>8, <1>9, <1>10
        DEF Next, Run, WritePump, ReadPump

\* Run may register, forget and drop clients, and each keeps its place in the log.
LEMMA InvStep == HubInv /\ [Next]_vars => HubInv'
<1> SUFFICES ASSUME HubInv, [Next]_vars PROVE HubInv'
  OBVIOUS
<1>t. TypeOK' /\ Holding'
  BY TypeStep DEF HubInv
<1> USE <1>t, HubAssumption DEF HubInv, history, Joined, Queued
<1>1. ASSUME NEW c \in Clients, NEW e \in Envs, ServeWS(c, e) PROVE HubInv'
  <2>1. Stages'
    BY <1>1 DEF ServeWS, Stages, TypeOK
  <2>2. NoPanic' /\ NothingMissed'
    BY <1>1 DEF ServeWS, Stages, NoPanic, NothingMissed, TypeOK
  <2>3. InFlight'
    BY <1>1 DEF ServeWS, Stages, InFlight, Placed, TypeOK
  <2>4. NothingLost'
    BY <1>1, EmptySeq DEF ServeWS, Stages, NothingLost, Written, Lost, TypeOK
  <2> QED BY <2>1, <2>2, <2>3, <2>4
<1>2. ASSUME NEW s \in Senders, NEW e \in Envs, BroadcastToProjectMembers(s, e) PROVE HubInv'
  BY <1>2 DEF BroadcastToProjectMembers, Stages, NoPanic, NothingMissed, InFlight,
              Placed, NothingLost, Written, Lost
<1>3. ASSUME NEW c \in Clients, Register(c) PROVE HubInv'
  <2>1. Stages'
    BY <1>3 DEF Register, Stages, TypeOK
  <2>2. NoPanic' /\ NothingMissed'
    <3>1. NoPanic'
      BY <1>3 DEF Register, Stages, NoPanic, TypeOK
    <3>2. ASSUME NEW d \in clients' PROVE (joined[d] + Queued(d) = Len(log[env[d]]))'
      <4>1. CASE d # c
        BY <1>3, <4>1 DEF Register, NothingMissed, TypeOK
      <4>2. CASE d = c
        <5>1. taken[c] = 0 /\ Len(send[c]) = 0 /\ Len(log[env[c]]) \in Nat
          BY <1>3, EmptySeq DEF Register, Stages, TypeOK
        <5> QED BY <1>3, <4>2, <5>1 DEF Register, TypeOK
      <4> QED BY <4>1, <4>2
    <3> QED BY <3>1, <3>2 DEF NothingMissed
  <2>3. InFlight'
    BY <1>3, EmptySeq DEF Register, Stages, InFlight, Placed, TypeOK
  <2>4. NothingLost'
    BY <1>3 DEF Register, Stages, NothingLost, Written, Lost, TypeOK
  <2> QED BY <2>1, <2>2, <2>3, <2>4
<1>4. ASSUME NEW c \in Clients, Unregister(c) PROVE HubInv'
  <2>1. Stages'
    BY <1>4 DEF Unregister, Stages, TypeOK
  <2>2. NoPanic' /\ NothingMissed'
    BY <1>4 DEF Unregister, Stages, NoPanic, NothingMissed, TypeOK
  <2>3. InFlight'
    BY <1>4 DEF Unregister, Stages, InFlight, Placed, TypeOK
  <2>4. NothingLost'
    BY <1>4 DEF Unregister, Stages, NothingLost, Written, Lost, TypeOK
  <2> QED BY <2>1, <2>2, <2>3, <2>4
<1>5. ASSUME NEW s \in Senders, Broadcast(s) PROVE HubInv'
  <2>1. Stages'
    BY <1>5 DEF Broadcast, Hand, Audience, Stages, TypeOK
  <2>2. NoPanic'
    BY <1>5 DEF Broadcast, Hand, Audience, NoPanic, TypeOK
  <2>3. NothingMissed'
    BY <1>5 DEF Broadcast, Hand, Audience, Stages, NothingMissed, TypeOK, Messages
  <2>4. InFlight'
    <3> SUFFICES ASSUME NEW c \in Clients PROVE Placed(c)'
      BY DEF InFlight
    <3> DEFINE m == sender[s]
    <3>1. /\ m \in Messages
          /\ \A e \in Envs : /\ Len(log[e])' >= Len(log[e])
                            /\ \A i \in 1..Len(log[e]) : log[e][i]' = log[e][i]
      BY <1>5, AppendProperties DEF Broadcast, Hand, TypeOK, Messages
    <3>2. CASE send'[c] = send[c]
      <4>1. CASE Joined(c)
        <5>1. /\ env[c] \in Envs /\ joined[c] \in Nat /\ taken[c] \in Nat
              /\ Len(send[c]) \in Nat /\ Len(log[env[c]]) \in Nat
              /\ Len(received[c]) \in Nat /\ Len(log'[env[c]]) \in Nat
          BY <1>t, <4>1 DEF Stages, TypeOK
        <5>2. writer[c] = "writing" => taken[c] >= 1
          BY <5>1 DEF NothingLost, Written, Lost
        <5>8. joined[c] + taken[c] + Len(send[c]) <= Len(log[env[c]]) /\ Len(send[c]) <= Cap
          BY <4>1 DEF InFlight, Placed
        <5>3. /\ Len(log'[env[c]]) >= Len(log[env[c]])
              /\ \A i \in 1..Len(log[env[c]]) : log'[env[c]][i] = log[env[c]][i]
          BY <3>1, <5>1
        <5>4. \A i \in 1..Len(send[c]) :
                log'[env[c]][joined[c] + taken[c] + i] = send[c][i]
          <6> TAKE i \in 1..Len(send[c])
          <6>1. send[c][i] = log[env[c]][joined[c] + taken[c] + i]
            BY <4>1 DEF InFlight, Placed
          <6>2. joined[c] + taken[c] + i \in 1..Len(log[env[c]])
            BY <5>1, <5>8, Positions
          <6> HIDE DEF Joined
          <6> QED BY <5>3, <6>1, <6>2
        <5>5. writer[c] = "writing" => log'[env[c]][joined[c] + taken[c]] = held[c]
          <6> SUFFICES ASSUME writer[c] = "writing"
                       PROVE log'[env[c]][joined[c] + taken[c]] = held[c]
            OBVIOUS
          <6>1. joined[c] + taken[c] \in 1..Len(log[env[c]])
            BY <5>1, <5>2, <5>8, Positions
          <6>2. held[c] = log[env[c]][joined[c] + taken[c]]
            BY DEF InFlight, Placed
          <6> QED BY <5>3, <6>1, <6>2
        <5>6. /\ joined[c] + taken[c] + Len(send[c]) <= Len(log'[env[c]])
              /\ Len(send[c]) <= Cap
          BY <5>1, <5>3, <5>8, LessTransitive
        <5>7. UNCHANGED <<env, joined, taken, writer, held, reader>>
          BY <1>5 DEF Broadcast, Hand
        <5> QED BY <3>2, <5>4, <5>5, <5>6, <5>7 DEF Placed
      <4>2. CASE ~Joined(c)
        BY <1>5, <3>2, <4>2 DEF Broadcast, Hand, Stages, InFlight, Placed
      <4> QED BY <4>1, <4>2
    <3>3. CASE c \in Audience(m.env) /\ ~Full(c)
      <4>1. /\ send'[c] = Append(send[c], m.data) /\ Joined(c) /\ env[c] = m.env
            /\ log'[m.env] = Append(log[m.env], m.data)
            /\ joined[c] + Queued(c) = Len(log[m.env])
        BY <1>5, <3>1, <3>3 DEF Broadcast, Hand, Audience, Stages, NothingMissed, TypeOK, Messages
      <4>2. /\ Len(send'[c]) = Len(send[c]) + 1
            /\ \A i \in 1..Len(send[c]) : send'[c][i] = send[c][i]
            /\ send'[c][Len(send[c]) + 1] = m.data
            /\ Len(log'[m.env]) = Len(log[m.env]) + 1
            /\ log'[m.env][Len(log[m.env]) + 1] = m.data
            /\ Len(send[c]) \in Nat /\ Len(log[m.env]) \in Nat
        BY <4>1, <3>1, AppendProperties DEF TypeOK, Messages
      <4>3. /\ joined[c] \in Nat /\ taken[c] \in Nat /\ Len(received[c]) \in Nat
            /\ joined[c] + taken[c] + Len(send[c]) = Len(log[m.env])
            /\ writer[c] = "writing" => taken[c] >= 1
        <5>1. joined[c] \in Nat /\ taken[c] \in Nat /\ Len(received[c]) \in Nat
          BY DEF TypeOK
        <5>2. writer[c] = "writing" => taken[c] >= 1
          BY <5>1 DEF NothingLost, Written, Lost
        <5>3. joined[c] + taken[c] + Len(send[c]) = Len(log[m.env])
          <6>1. joined[c] + (taken[c] + Len(send[c])) = Len(log[m.env])
            BY <4>1
          <6> QED BY <4>2, <5>1, <6>1
        <5> QED BY <5>1, <5>2, <5>3
      <4>4. /\ joined[c] + taken[c] + (Len(send[c]) + 1) = Len(log[m.env]) + 1
            /\ joined[c] + taken[c] + (Len(send[c]) + 1) <= Len(log[m.env]) + 1
            /\ joined[c] + taken[c] + Len(send[c]) <= Len(log[m.env])
        <5> DEFINE j == joined[c]
                   t == taken[c]
                   q == Len(send[c])
                   n == Len(log[m.env])
        <5>1. j \in Nat /\ t \in Nat /\ q \in Nat /\ n \in Nat /\ j + t + q = n
          BY <4>2, <4>3
        <5> HIDE DEF j, t, q, n
        <5>2. j + t + (q + 1) = n + 1 /\ j + t + (q + 1) <= n + 1 /\ j + t + q <= n
          BY <5>1
        <5> QED BY <5>2 DEF j, t, q, n
      <4>5. \A i \in 1..Len(send'[c]) :
              send'[c][i] = log'[m.env][joined[c] + taken[c] + i]
        <5> TAKE i \in 1..Len(send'[c])
        <5>1. CASE i = Len(send[c]) + 1
          <6>1. joined[c] + taken[c] + i = Len(log[m.env]) + 1
            BY <4>4, <5>1
          <6> QED BY <4>2, <5>1, <6>1
        <5>2. CASE i \in 1..Len(send[c])
          <6>1. joined[c] + taken[c] + i \in 1..Len(log[m.env])
            BY <4>2, <4>3, <4>4, <5>2, Positions
          <6> QED BY <3>1, <4>1, <4>2, <5>2, <6>1 DEF InFlight, Placed, Messages
        <5> QED BY <4>2, <5>1, <5>2
      <4>6. writer[c] = "writing" => held[c] = log'[m.env][joined[c] + taken[c]]
        <5> SUFFICES ASSUME writer[c] = "writing"
                     PROVE held[c] = log'[m.env][joined[c] + taken[c]]
          OBVIOUS
        <5>1. joined[c] + taken[c] \in 1..Len(log[m.env])
          BY <4>2, <4>3, <4>4, Positions
        <5>2. held[c] = log[m.env][joined[c] + taken[c]]
          BY <4>1 DEF InFlight, Placed
        <5> QED BY <3>1, <5>1, <5>2 DEF Messages
      <4>7. Len(send'[c]) <= Cap
        BY <3>3, <4>2 DEF Full, InFlight, Placed
      <4>8. joined[c] + taken[c] + Len(send'[c]) <= Len(log'[m.env])
        BY <4>2, <4>4
      <4>9. UNCHANGED <<env, joined, taken, writer, held, reader>>
        BY <1>5 DEF Broadcast, Hand
      <4> QED BY <4>1, <4>5, <4>6, <4>7, <4>8, <4>9 DEF Placed
    <3> QED BY <1>5, <3>2, <3>3 DEF Broadcast, Hand
  <2>5. NothingLost'
    BY <1>5 DEF Broadcast, Hand, Stages, NothingLost, Written, Lost, TypeOK
  <2> QED BY <2>1, <2>2, <2>3, <2>4, <2>5
<1>6. ASSUME NEW c \in Clients, Receive(c) PROVE HubInv'
  <2>0. /\ Head(send[c]) = send[c][1]
        /\ Tail(send[c]) \in Seq(Events)
        /\ Len(Tail(send[c])) = Len(send[c]) - 1
        /\ \A i \in 1..Len(Tail(send[c])) : Tail(send[c])[i] = send[c][i + 1]
        /\ Len(send[c]) \in Nat \ {0}
    BY <1>6, HeadTailProperties, EmptySeq DEF Receive, TypeOK
  <2>1. Stages' /\ NoPanic'
    BY <1>6 DEF Receive, Stages, NoPanic, TypeOK
  <2>2. NothingMissed'
    <3> SUFFICES ASSUME NEW d \in clients PROVE (joined[d] + Queued(d) = Len(log[env[d]]))'
      BY <1>6 DEF Receive, NothingMissed
    <3>1. CASE d # c
      BY <1>6, <3>1 DEF Receive, NothingMissed, TypeOK
    <3>2. CASE d = c
      BY <1>6, <2>0, <3>2 DEF Receive, NothingMissed, TypeOK
    <3> QED BY <3>1, <3>2
  <2>3. InFlight'
    <3> SUFFICES ASSUME NEW d \in Clients PROVE Placed(d)'
      BY DEF InFlight
    <3>1. CASE d # c
      BY <1>6, <3>1 DEF Receive, InFlight, Placed, TypeOK
    <3>2. CASE d = c
      <4>1. /\ Joined(c) /\ joined[c] \in Nat /\ taken[c] \in Nat
            /\ send'[c] = Tail(send[c]) /\ held'[c] = send[c][1]
            /\ taken'[c] = taken[c] + 1
            /\ UNCHANGED <<reader, env, log, joined>>
        BY <1>6, <2>0 DEF Receive, Stages, TypeOK
      <4>2. \A i \in 1..Len(send'[c]) :
              send'[c][i] = log[env[c]][joined[c] + taken'[c] + i]
        <5> TAKE i \in 1..Len(send'[c])
        <5>1. send'[c][i] = send[c][i + 1] /\ i + 1 \in 1..Len(send[c])
          BY <2>0, <4>1
        <5>2. send[c][i + 1] = log[env[c]][joined[c] + taken[c] + (i + 1)]
          BY <4>1, <5>1 DEF InFlight, Placed
        <5>3. joined[c] + taken[c] + (i + 1) = joined[c] + taken'[c] + i
          <6>1. joined[c] \in Nat /\ taken[c] \in Nat /\ taken'[c] = taken[c] + 1
            BY <4>1
          <6>2. i \in Nat
            BY <2>0, <4>1
          <6> QED BY <6>1, <6>2, Shift
        <5> QED BY <5>1, <5>2, <5>3
      <4>3. held'[c] = log[env[c]][joined[c] + taken'[c]]
        <5>1. send[c][1] = log[env[c]][joined[c] + taken[c] + 1]
          BY <2>0, <4>1 DEF InFlight, Placed
        <5>2. joined[c] + taken[c] + 1 = joined[c] + taken'[c]
          BY <4>1
        <5> QED BY <4>1, <5>1, <5>2
      <4>4. /\ joined[c] + taken'[c] + Len(send'[c]) <= Len(log[env[c]])
            /\ Len(send'[c]) <= Cap
        <5> DEFINE j == joined[c]
                   t == taken[c]
                   q == Len(send[c])
                   n == Len(log[env[c]])
        <5>1. /\ j \in Nat /\ t \in Nat /\ q \in Nat /\ Cap \in Nat
              /\ taken'[c] = t + 1 /\ Len(send'[c]) = q - 1
          BY <2>0, <4>1, HubAssumption
        <5>2. n \in Nat /\ j + t + q <= n /\ q <= Cap
          <6>1. n \in Nat
            BY <1>t, <4>1 DEF Stages, TypeOK
          <6>2. j + t + q <= n /\ q <= Cap
            BY <4>1 DEF InFlight, Placed
          <6> QED BY <6>1, <6>2
        <5> HIDE DEF j, t, q, n
        <5>3. j + (t + 1) + (q - 1) <= n /\ q - 1 <= Cap
          BY <5>1, <5>2
        <5> QED BY <5>1, <5>3 DEF j, n
      <4> QED BY <3>2, <4>1, <4>2, <4>3, <4>4 DEF Placed
    <3> QED BY <3>1, <3>2
  <2>4. NothingLost'
    <3> SUFFICES ASSUME NEW d \in Clients PROVE Written(d)'
      BY DEF NothingLost
    <3>1. CASE d # c
      BY <1>6, <3>1 DEF Receive, NothingLost, Written, Lost, TypeOK
    <3>2. CASE d = c
      BY <1>6, <3>2 DEF Receive, NothingLost, Written, Lost, TypeOK
    <3> QED BY <3>1, <3>2
  <2> QED BY <2>1, <2>2, <2>3, <2>4
<1>7. ASSUME NEW c \in Clients, WriteJSON(c) PROVE HubInv'
  <2>1. Stages' /\ NoPanic' /\ NothingMissed' /\ InFlight'
    BY <1>7 DEF WriteJSON, Stages, NoPanic, NothingMissed, InFlight, Placed,
                TypeOK
  <2>2. NothingLost'
    <3> SUFFICES ASSUME NEW d \in Clients PROVE Written(d)'
      BY DEF NothingLost
    <3>1. CASE d # c
      BY <1>7, <3>1 DEF WriteJSON, NothingLost, Written, Lost, TypeOK
    <3>2. CASE d = c
      <4>1. /\ Len(received[c]) \in Nat
            /\ Len(Append(received[c], held[c])) = Len(received[c]) + 1
        BY <1>7, AppendProperties DEF WriteJSON, Holding, TypeOK
      <4> QED BY <1>7, <3>2, <4>1 DEF WriteJSON, NothingLost, Written, Lost, TypeOK
    <3> QED BY <3>1, <3>2
  <2> QED BY <2>1, <2>2
<1>8. ASSUME NEW c \in Clients, WriteClose(c) \/ PingFails(c) \/ ReadFails(c) PROVE HubInv'
  <2>1. Stages' /\ NoPanic' /\ NothingMissed'
    BY <1>8 DEF WriteClose, PingFails, ReadFails, Stages, NoPanic, NothingMissed, TypeOK
  <2>2. InFlight'
    <3>1. /\ UNCHANGED <<send, log, env, joined, taken, held>>
          /\ \A d \in Clients : writer'[d] = "writing" => writer[d] = "writing"
          /\ \A d \in Clients : Joined(d)' => Joined(d)
      BY <1>8 DEF WriteClose, PingFails, ReadFails, TypeOK
    <3> QED BY <3>1 DEF InFlight, Placed
  <2>3. NothingLost'
    BY <1>8 DEF WriteClose, PingFails, ReadFails, NothingLost, Written, Lost, TypeOK
  <2> QED BY <2>1, <2>2, <2>3
<1>9. ASSUME NEW c \in Clients, Peer(c) PROVE HubInv'
  <2>1. Stages' /\ NoPanic' /\ NothingMissed' /\ InFlight'
    BY <1>9 DEF Peer, Stall, Resume, Disconnect, Connection, Stages, NoPanic, NothingMissed,
                InFlight, Placed, TypeOK
  <2>2. NothingLost'
    BY <1>9 DEF Peer, Stall, Resume, Disconnect, Connection, NothingLost, Written, Lost, TypeOK
  <2> QED BY <2>1, <2>2
<1>10. CASE UNCHANGED vars
  BY <1>10 DEF vars, Stages, NoPanic, NothingMissed, InFlight, Placed, NothingLost, Written, Lost
<1> QED BY <1>1, <1>2, <1>3, <1>4, <1>5, <1>6, <1>7, <1>8, <1>9, <1>10
        DEF Next, Run, WritePump, ReadPump

LEMMA InvHolds == Spec => []HubInv
<1>1. Init => HubInv
  BY HubAssumption DEF Init, HubInv, TypeOK, Holding, Stages, NoPanic, NothingMissed, InFlight,
        NothingLost, Joined, Placed, Written, Lost, Queued, ReaderPcs, WriterPcs, Sockets, Events
<1> QED BY <1>1, InvStep, PTL DEF Spec

\* Every variable of the hub keeps its type, and no Send channel holds more than its
\* capacity, so that Run, which asks before it sends (ws.go:82-87), never blocks.
THEOREM HubTypes == Spec => [](TypeOK /\ \A c \in Clients : Len(send[c]) <= Cap)
<1>1. HubInv => TypeOK /\ \A c \in Clients : Len(send[c]) <= Cap
  BY DEF HubInv, InFlight, Placed
<1> QED BY <1>1, InvHolds, PTL

\* No registered client has a closed Send channel: Run neither sends on a closed
\* channel nor closes one twice (ws.go:65-93), however clients register, leave and
\* fall behind.
THEOREM HubNeverPanics == Spec => []NoPanic
<1>1. HubInv => NoPanic
  BY DEF HubInv
<1> QED BY <1>1, InvHolds, PTL

\* A registered client misses no message of its environment (Hub.Run in ws.go).
THEOREM ClientsMissNothing == Spec => []NothingMissed
<1>1. HubInv => NothingMissed
  BY DEF HubInv
<1> QED BY <1>1, InvHolds, PTL

-----------------------------------------------------------------------------
(* The refinement.                                                         *)

Topic(c) == IF reader[c] \in {"none", "registering"} THEN Nil ELSE env[c]

\* The readers of EventFeed see no difference between two states of the hub in
\* which its clients have the same messages due and received.
LEMMA Stutter ==
  ASSUME UNCHANGED <<log, clients, joined, received>>,
         \A c \in Clients : Topic(c)' = Topic(c) /\ Queued(c)' = Queued(c)
  PROVE  UNCHANGED Feed!vars
BY DEF Feed!vars, Topic

\* Every step of the hub is a step of EventFeed or leaves it unchanged.
LEMMA FeedStep == HubInv /\ [Next]_vars => [Feed!Next]_(Feed!vars)
<1> SUFFICES ASSUME HubInv, [Next]_vars PROVE [Feed!Next]_(Feed!vars)
  OBVIOUS
<1> USE HubAssumption DEF HubInv, history
<1>1. ASSUME NEW c \in Clients, NEW e \in Envs, ServeWS(c, e) PROVE UNCHANGED Feed!vars
  BY <1>1, Stutter DEF ServeWS, Topic, Queued, TypeOK
<1>2. ASSUME NEW s \in Senders, NEW e \in Envs, BroadcastToProjectMembers(s, e)
      PROVE UNCHANGED Feed!vars
  BY <1>2, Stutter DEF BroadcastToProjectMembers, Topic, Queued
<1>3. ASSUME NEW c \in Clients, Register(c) PROVE \E e \in Envs : Feed!Join(c, e)
  <2>1. PICK e \in Envs : e = env[c]
    BY <1>3 DEF Register, Stages
  <2>2. Feed!Join(c, e)
    BY <1>3, <2>1 DEF Register, Feed!Join, Queued, TypeOK
  <2> QED BY <2>2
<1>4. ASSUME NEW c \in Clients, Unregister(c) PROVE Feed!Leave(c)
  BY <1>4 DEF Unregister, Feed!Leave, Queued, TypeOK
<1>5. ASSUME NEW s \in Senders, Broadcast(s)
      PROVE sender[s] \in Messages /\ Feed!Publish(sender[s].env, sender[s].data)
  <2> DEFINE m       == sender[s]
             dropped == {c \in Audience(m.env) : Full(c)}
  <2>1. m \in Messages
    BY <1>5 DEF Broadcast, Hand, TypeOK
  <2>2. Feed!Followers(m.env) = Audience(m.env)
    BY DEF Feed!Followers, Audience, Stages, TypeOK
  <2>3. dropped \in SUBSET {c \in Feed!Followers(m.env) : Feed!Late(c)}
    <3> SUFFICES ASSUME NEW c \in dropped PROVE c \in Feed!Followers(m.env) /\ Feed!Late(c)
      OBVIOUS
    <3>1. c \in Clients /\ Len(received[c]) <= taken[c] /\ Len(send[c]) = Cap
      BY DEF Audience, Full, NothingLost, Written, Lost, TypeOK
    <3>2. Len(received[c]) \in Nat /\ taken[c] \in Nat
      BY <3>1 DEF TypeOK
    <3> QED BY <2>2, <3>1, <3>2 DEF Feed!Late, Queued
  <2>4. [c \in Clients |-> Queued(c)]' =
          [c \in Clients |-> IF c \in Feed!Followers(m.env) \ dropped
                               THEN [d \in Clients |-> Queued(d)][c] + 1
                               ELSE [d \in Clients |-> Queued(d)][c]]
    <3> SUFFICES ASSUME NEW c \in Clients
                 PROVE Queued(c)' = IF c \in Audience(m.env) \ dropped THEN Queued(c) + 1
                                                                        ELSE Queued(c)
      BY <2>2
    <3>1. CASE c \in Audience(m.env) \ dropped
      <4>1. taken[c] \in Nat /\ Len(send[c]) \in Nat /\ taken'[c] = taken[c]
            /\ Len(send'[c]) = Len(send[c]) + 1
        BY <1>5, <2>1, <3>1, AppendProperties DEF Broadcast, Hand, TypeOK, Messages
      <4> QED BY <3>1, <4>1 DEF Queued
    <3>2. CASE c \notin Audience(m.env) \ dropped
      BY <1>5, <3>2 DEF Broadcast, Hand, Queued, TypeOK
    <3> QED BY <3>1, <3>2
  <2>5. /\ log' = [log EXCEPT ![m.env] = Append(@, m.data)]
        /\ clients' = clients \ dropped
        /\ UNCHANGED <<env, reader, joined, received>>
    BY <1>5 DEF Broadcast, Hand
  <2> HIDE DEF dropped
  <2> QED BY <2>1, <2>3, <2>4, <2>5 DEF Feed!Publish
<1>6. ASSUME NEW c \in Clients, Receive(c) PROVE UNCHANGED Feed!vars
  <2>1. Len(send'[c]) = Len(send[c]) - 1 /\ Len(send[c]) \in Nat /\ taken[c] \in Nat
    BY <1>6, HeadTailProperties DEF Receive, TypeOK
  <2>2. \A d \in Clients : Queued(d)' = Queued(d)
    BY <1>6, <2>1 DEF Receive, Queued, TypeOK
  <2> QED BY <1>6, <2>2, Stutter DEF Receive, Topic
<1>7. ASSUME NEW c \in Clients, WriteJSON(c)
      PROVE Feed!See(c) \/ UNCHANGED Feed!vars
  <2>1. CASE socket[c] # "open"
    BY <1>7, <2>1, Stutter DEF WriteJSON, Topic, Queued
  <2>2. CASE socket[c] = "open"
    <3>0. /\ Len(received[c]) \in Nat /\ Len(send[c]) \in Nat
          /\ joined[c] \in Nat /\ taken[c] \in Nat
      BY DEF TypeOK
    <3>1. /\ taken[c] = Len(received[c]) + 1
          /\ Topic(c) = env[c]
          /\ held[c] = log[env[c]][joined[c] + taken[c]]
      <4>1. taken[c] = Len(received[c]) + 1
        BY <1>7, <2>2 DEF WriteJSON, NothingLost, Written, Lost
      <4>2. held[c] = log[env[c]][joined[c] + taken[c]]
        BY <1>7 DEF WriteJSON, InFlight, Placed
      <4>3. Topic(c) = env[c]
        BY <1>7 DEF WriteJSON, Stages, Joined, Topic
      <4> QED BY <4>1, <4>2, <4>3
    <3>2. joined[c] + taken[c] = joined[c] + Len(received[c]) + 1
      BY <3>0, <3>1
    <3>3. Len(received[c]) < Queued(c)
      <4>1. Len(received[c]) < taken[c]
        BY <3>0, <3>1
      <4>2. taken[c] <= Queued(c) /\ Queued(c) \in Nat
        BY <3>0 DEF Queued
      <4> QED BY <3>0, <4>1, <4>2
    <3>4. received' = [received EXCEPT ![c] =
                         Append(@, log[Topic(c)][joined[c] + Len(@) + 1])]
      BY <1>7, <2>2, <3>1, <3>2 DEF WriteJSON
    <3>5. UNCHANGED <<log, clients, reader, env, joined, taken, send>>
      BY <1>7 DEF WriteJSON
    <3> QED BY <3>3, <3>4, <3>5 DEF Feed!See, Topic, Queued
  <2> QED BY <2>1, <2>2
<1>8. ASSUME NEW c \in Clients, WriteClose(c) \/ PingFails(c) \/ ReadFails(c)
      PROVE UNCHANGED Feed!vars
  BY <1>8, Stutter DEF WriteClose, PingFails, ReadFails, Topic, Queued, TypeOK
<1>9. ASSUME NEW c \in Clients, Peer(c) PROVE UNCHANGED Feed!vars
  BY <1>9, Stutter DEF Peer, Stall, Resume, Disconnect, Connection, Topic, Queued
<1>10. CASE UNCHANGED vars
  BY <1>10, Stutter DEF vars, Topic, Queued
<1>11. CASE Run
  <2>1. ASSUME NEW c \in Clients, Register(c) \/ Unregister(c) PROVE Feed!Next
    <3>1. CASE Register(c)
      BY <1>3, <3>1 DEF Feed!Next
    <3>2. CASE Unregister(c)
      BY <1>4, <3>2 DEF Feed!Next
    <3> QED BY <2>1, <3>1, <3>2
  <2>2. ASSUME NEW s \in Senders, Broadcast(s) PROVE Feed!Next
    <3>1. sender[s].env \in Envs /\ sender[s].data \in Events
      BY <1>5, <2>2 DEF Messages
    <3> QED BY <1>5, <2>2, <3>1 DEF Feed!Next
  <2> QED BY <1>11, <2>1, <2>2 DEF Run
<1>12. ASSUME NEW c \in Clients, WritePump(c) \/ ReadPump(c)
       PROVE Feed!See(c) \/ UNCHANGED Feed!vars
  BY <1>6, <1>7, <1>8, <1>12 DEF WritePump, ReadPump
<1> HIDE DEF HubInv
<1> QED BY <1>1, <1>2, <1>9, <1>10, <1>11, <1>12 DEF Next, Feed!Next

\* The hub implements EventFeed: channels, pumps and dropped clients are invisible,
\* except that a dropped client stops being owed what comes next (ws.go).
THEOREM FeedImplemented == Spec => FeedSpec
<1>1. Init => Feed!Init
  BY EmptySeq DEF Init, Feed!Init, Queued
<1> QED BY <1>1, FeedStep, InvHolds, PTL DEF Spec, FeedSpec, Feed!Spec
=============================================================================
