------------------------- MODULE WsConnectionsProofs -------------------------
(***************************************************************************)
(* Theorems about WsConnections, for any sets of connections, users,       *)
(* topics, notifications and broadcasts and any bound on the queues.       *)
(***************************************************************************)
EXTENDS WsConnections, TLAPS

\* A disconnect keeps the types of the manager's dictionaries.
LEMMA DisconnectType ==
  ASSUME RegistryTypeOK, NEW S, Disconnect(S)
  PROVE  RegistryTypeOK'
BY DEF RegistryTypeOK, Disconnect, UserMapWithout

\* The ids that a send disconnects are connections whose peer is gone.
LEMMA DroppedAreClosed ==
  ASSUME NEW c
  PROVE  DroppedBySend(c) \subseteq Closed /\ Closed \subseteq Conns
BY DEF DroppedBySend, Closed

\* The end of a send keeps the types of the dictionaries and of the sockets.
LEMMA SendEndsType ==
  ASSUME RegistryTypeOK, EndpointTypeOK, NEW c, SendEnds(c)
  PROVE  /\ RegistryTypeOK'
         /\ socket' \in [Conns -> {"open", "closed", "broken"}]
BY DisconnectType DEF SendEnds, SocketsAfterSend, EndpointTypeOK

\* A full queue loses one message before another is added.
LEMMA EnqueueType ==
  ASSUME NEW q \in Seq(Notifiers), Len(q) <= MaxQueue, NEW m \in Notifiers
  PROVE  Enqueue(q, m) \in Seq(Notifiers) /\ Len(Enqueue(q, m)) <= MaxQueue
<1>1. MaxQueue \in Nat \ {0}
  BY ConfigAssumption
<1>2. CASE Len(q) = MaxQueue
  <2>1. Tail(q) \in Seq(Notifiers) /\ Len(Tail(q)) = Len(q) - 1
    BY <1>1, <1>2
  <2>2. QED
    BY <2>1, <1>1, <1>2 DEF Enqueue
<1>3. CASE Len(q) # MaxQueue
  BY <1>1, <1>3 DEF Enqueue
<1>4. QED
  BY <1>2, <1>3

\* What a resumed sender leaves: the types of everything but its loop position.
LEMMA SenderResumesType ==
  ASSUME TypeOK, NEW x \in Senders, SenderResumes(x)
  PROVE  /\ RegistryTypeOK'
         /\ socket' \in [Conns -> {"open", "closed", "broken"}]
         /\ successful_sends' \in [Senders -> Nat]
         /\ delivered' \in [Conns -> [Senders -> Nat]]
<1>1. RegistryTypeOK' /\ socket' \in [Conns -> {"open", "closed", "broken"}]
  BY SendEndsType DEF SenderResumes, TypeOK
<1>2. successful_sends' \in [Senders -> Nat]
  BY DEF SenderResumes, TypeOK, LoopsTypeOK
<1>3. delivered' \in [Conns -> [Senders -> Nat]]
  BY DEF SenderResumes, Succeeded, TypeOK, LoopsTypeOK
<1>4. QED
  BY <1>1, <1>2, <1>3

\* Every step keeps the type invariant.
LEMMA TypeStep == TypeOK /\ [Next]_vars => TypeOK'
<1> SUFFICES ASSUME TypeOK, [Next]_vars
             PROVE  TypeOK'
  OBVIOUS
<1> USE DEF TypeOK
<1>1. ASSUME NEW c \in Conns, PeerLeaves(c)
      PROVE  TypeOK'
  BY <1>1 DEF PeerLeaves, registry, mailbox, loops, RegistryTypeOK,
              MailboxTypeOK, EndpointTypeOK, LoopsTypeOK
<1>2. ASSUME NEW c \in Conns, PingAges(c)
      PROVE  TypeOK'
  BY <1>2 DEF PingAges, mailbox, endpoint, loops, RegistryTypeOK,
              MailboxTypeOK, EndpointTypeOK, LoopsTypeOK
<1>3. ASSUME NEW c \in Conns, ClientStep(c)
      PROVE  TypeOK'
  <2> USE DEF mailbox, loops, MailboxTypeOK, LoopsTypeOK
  <2>1. CASE Connect(c)
    <3>1. RegistryTypeOK'
      BY <2>1, ConfigAssumption, ZenonT(40) DEF Connect, RegistryTypeOK
    <3>2. QED
      BY <2>1, <3>1 DEF Connect, EndpointTypeOK, Goto
  <2>2. CASE Ping(c)
    BY <2>2 DEF Ping, Reads, Reply, Receive, Goto, RegistryTypeOK, EndpointTypeOK
  <2>3. CASE OtherFrame(c)
    BY <2>3 DEF OtherFrame, Reads, Reply, Receive, Goto, registry, RegistryTypeOK,
                EndpointTypeOK
  <2>4. CASE MalformedFrame(c)
    BY <2>4 DEF MalformedFrame, Reads, EndpointFails, Goto, registry,
                RegistryTypeOK, EndpointTypeOK
  <2>5. ASSUME ReplyWithTopics(c)
        PROVE  EndpointTypeOK'
    BY <2>5 DEF ReplyWithTopics, Reply, Receive, EndpointFails, Goto, EndpointTypeOK
  <2>6. ASSUME NEW T \in SUBSET Topics, Subscribe(c, T)
        PROVE  TypeOK'
    <3>1. RegistryTypeOK'
      BY <2>6, ZenonT(40) DEF Subscribe, RegistryTypeOK
    <3>2. QED
      BY <2>5, <2>6, <3>1 DEF Subscribe
  <2>7. ASSUME NEW T \in SUBSET Topics, Unsubscribe(c, T)
        PROVE  TypeOK'
    <3>1. RegistryTypeOK'
      BY <2>7, ZenonT(40) DEF Unsubscribe, RegistryTypeOK
    <3>2. QED
      BY <2>5, <2>7, <3>1 DEF Unsubscribe
  <2>8. QED
    BY <1>3, <2>1, <2>2, <2>3, <2>4, <2>6, <2>7 DEF ClientStep
<1>4. ASSUME NEW c \in Conns, EndpointStep(c)
      PROVE  TypeOK'
  <2>1. CASE Confirmed(c)
    <3>1. RegistryTypeOK' /\ socket' \in [Conns -> {"open", "closed", "broken"}]
      BY <2>1, SendEndsType DEF Confirmed
    <3>2. pc' \in [Conns -> {"new", "confirming", "flushing", "serving",
                              "replying", "failed", "done"}]
      BY <2>1 DEF Confirmed, Goto, Receive, EndpointTypeOK
    <3>3. MailboxTypeOK'
      <4> DEFINE u == UserOf[c]
                 batch == IF u = NoUser THEN <<>> ELSE queues[u]
      <4>1. /\ queues' = [v \in Users |-> IF v = u THEN <<>> ELSE queues[v]]
            /\ queued_messages' = [queued_messages EXCEPT ![c] = batch]
            /\ evicted' = evicted
        BY <2>1 DEF Confirmed, AfterGet
      <4>2. batch \in Seq(Notifiers)
        BY ConfigAssumption DEF MailboxTypeOK
      <4>3. <<>> \in Seq(Notifiers) /\ Len(<<>>) <= MaxQueue
        BY ConfigAssumption
      <4> HIDE DEF u, batch
      <4>4. QED
        BY <4>1, <4>2, <4>3 DEF MailboxTypeOK
    <3>4. QED
      BY <2>1, <3>1, <3>2, <3>3 DEF Confirmed, loops, LoopsTypeOK, EndpointTypeOK
  <2>2. CASE Flushed(c)
    <3>1. RegistryTypeOK' /\ socket' \in [Conns -> {"open", "closed", "broken"}]
      BY <2>2, SendEndsType DEF Flushed
    <3>2. delivered' \in [Conns -> [Senders -> Nat]]
      BY <2>2 DEF Flushed, LoopsTypeOK
    <3>3. QED
      BY <2>2, <3>1, <3>2 DEF Flushed, Goto, Receive, mailbox, loops,
            MailboxTypeOK, LoopsTypeOK, EndpointTypeOK
  <2>3. CASE Replied(c)
    <3>1. RegistryTypeOK' /\ socket' \in [Conns -> {"open", "closed", "broken"}]
      BY <2>3, SendEndsType DEF Replied
    <3>2. QED
      BY <2>3, <3>1 DEF Replied, Goto, Receive, mailbox, loops,
            MailboxTypeOK, LoopsTypeOK, EndpointTypeOK
  <2>4. CASE Hangup(c)
    <3>1. RegistryTypeOK'
      BY <2>4, DisconnectType DEF Hangup
    <3>2. QED
      BY <2>4, <3>1 DEF Hangup, Goto, mailbox, loops,
            MailboxTypeOK, LoopsTypeOK, EndpointTypeOK
  <2>5. CASE Refuse(c)
    BY <2>5 DEF Refuse, Goto, registry, mailbox, loops, RegistryTypeOK,
                MailboxTypeOK, LoopsTypeOK, EndpointTypeOK
  <2>6. QED
    BY <1>4, <2>1, <2>2, <2>3, <2>4, <2>5 DEF EndpointStep
<1>5. ASSUME NEW x \in Senders, SenderStep(x)
      PROVE  TypeOK'
  <2>1. CASE SendNext(x)
    <3>1. SenderResumes(x)
      BY <2>1 DEF SendNext
    <3>2. Unvisited(x) \subseteq Conns
      BY DEF Unvisited, StillActive, RegistryTypeOK
    <3>3. QED
      BY <2>1, <3>1, <3>2, SenderResumesType DEF SendNext, SendTo, mailbox,
            MailboxTypeOK, LoopsTypeOK, EndpointTypeOK, Loops
  <2>2. CASE SendToAudience(x)
    <3>1. SenderResumes(x)
      BY <2>2 DEF SendToAudience
    <3>2. \A j \in Nat : Audience(x, j) \subseteq Conns
      BY DEF Audience, StillActive, RegistryTypeOK
    <3>3. leg[x] \in Nat /\ Legs(x) \in Nat
      BY ConfigAssumption DEF LoopsTypeOK, Loops, Legs, Senders
    <3>4. PICK j \in leg[x] + 1 .. Legs(x) :
            /\ leg' = [leg EXCEPT ![x] = j]
            /\ connection_ids' = [connection_ids EXCEPT ![x] = Audience(x, j)]
            /\ \E c \in Audience(x, j) :
                 /\ sending' = [sending EXCEPT ![x] = c]
                 /\ visited' = [visited EXCEPT ![x] = {c}]
      BY <2>2 DEF SendToAudience
    <3>5. j \in Nat
      BY <3>3
    <3>6. LoopsTypeOK'
      BY <2>2, <3>1, <3>2, <3>4, <3>5, SenderResumesType
         DEF SendToAudience, LoopsTypeOK, Loops
    <3>7. QED
      BY <2>2, <3>1, <3>6, SenderResumesType
         DEF SendToAudience, mailbox, MailboxTypeOK, EndpointTypeOK
  <2>3. CASE SendingDone(x)
    <3>1. SenderResumes(x)
      BY <2>3 DEF SendingDone
    <3>2. Legs(x) \in Nat
      BY ConfigAssumption DEF Legs, Senders
    <3>3. MailboxTypeOK'
      <4>1. CASE MustQueue(x)
        <5>1. x \in Notifiers /\ Recipient[x] \in Users
          BY <4>1, ConfigAssumption DEF MustQueue
        <5>2. /\ queues' = [queues EXCEPT ![Recipient[x]] = Enqueue(@, x)]
              /\ evicted' = evicted \cup (Range(queues[Recipient[x]]) \
                                            Range(queues'[Recipient[x]]))
              /\ UNCHANGED queued_messages
          BY <2>3, <4>1 DEF SendingDone
        <5>3. /\ Enqueue(queues[Recipient[x]], x) \in Seq(Notifiers)
              /\ Len(Enqueue(queues[Recipient[x]], x)) <= MaxQueue
          BY <5>1, EnqueueType DEF MailboxTypeOK
        <5>4. Range(queues[Recipient[x]]) \subseteq Notifiers
          BY <5>1 DEF MailboxTypeOK, Range
        <5>5. QED
          BY <5>1, <5>2, <5>3, <5>4 DEF MailboxTypeOK
      <4>2. CASE ~MustQueue(x)
        BY <2>3, <4>2 DEF SendingDone, MailboxTypeOK
      <4>3. QED
        BY <4>1, <4>2
    <3>4. LoopsTypeOK'
      BY <2>3, <3>1, <3>2, SenderResumesType DEF SendingDone, LoopsTypeOK, Loops
    <3>5. QED
      BY <2>3, <3>1, <3>3, <3>4, SenderResumesType DEF SendingDone, EndpointTypeOK
  <2>4. QED
    BY <1>5, <2>1, <2>2, <2>3 DEF SenderStep
<1>6. ASSUME HealthStep
      PROVE  TypeOK'
  <2> USE DEF Loops, mailbox, MailboxTypeOK
  <2>1. CASE HealthWakes
    BY <2>1 DEF HealthWakes, SendTo, Stale, registry, endpoint, RegistryTypeOK,
                EndpointTypeOK, LoopsTypeOK
  <2>2. CASE HealthFindsNobody
    <3>1. RegistryTypeOK'
      BY <2>2, DisconnectType DEF HealthFindsNobody
    <3>2. QED
      BY <2>2, <3>1 DEF HealthFindsNobody, endpoint, loops, EndpointTypeOK,
                        LoopsTypeOK
  <2>3. CASE HealthPingsNext
    <3>1. RegistryTypeOK' /\ socket' \in [Conns -> {"open", "closed", "broken"}]
      BY <2>3, SendEndsType DEF HealthPingsNext
    <3>2. Unvisited(Health) \subseteq Conns
      BY DEF Unvisited, StillActive, RegistryTypeOK
    <3>3. QED
      BY <2>3, <3>1, <3>2 DEF HealthPingsNext, SendTo, LoopsTypeOK, EndpointTypeOK
  <2>4. CASE HealthCleansUp
    <3>1. RegistryTypeOK'
      BY <2>4, DisconnectType DEF HealthCleansUp
    <3>2. EndpointTypeOK'
      BY <2>4 DEF HealthCleansUp, SocketsAfterSend, EndpointTypeOK
    <3>3. QED
      BY <2>4, <3>1, <3>2 DEF HealthCleansUp, LoopsTypeOK
  <2>5. QED
    BY <1>6, <2>1, <2>2, <2>3, <2>4 DEF HealthStep
<1>7. CASE UNCHANGED vars
  BY <1>7 DEF vars, registry, mailbox, endpoint, loops, RegistryTypeOK,
              MailboxTypeOK, EndpointTypeOK, LoopsTypeOK
<1>8. QED
  BY <1>1, <1>2, <1>3, <1>4, <1>5, <1>6, <1>7 DEF Next

\* Initially the types hold.
LEMMA TypeInit == Init => TypeOK
BY ConfigAssumption DEF Init, TypeOK, RegistryTypeOK, MailboxTypeOK,
   EndpointTypeOK, LoopsTypeOK, Loops

\* The type invariant holds throughout, and with it the bound of every queue.
THEOREM TypeCorrect == Spec => []TypeOK
BY TypeInit, TypeStep, PTL DEF Spec
-----------------------------------------------------------------------------
(* The registry *)

\* Until its endpoint has registered it, the manager does not know an id.
NewUnknown ==
  \A c \in Conns : pc[c] = "new" =>
    c \notin active_connections /\ \A t \in Topics : c \notin topic_subscriptions[t]

\* The inductive invariant behind RegistryConsistent: connect may assume that
\* no dictionary holds anything of the id it registers.
RegistryInv == TypeOK /\ RegistryConsistent /\ NewUnknown

\* Forgetting any set of ids keeps the dictionaries consistent.
LEMMA DisconnectConsistent ==
  ASSUME RegistryTypeOK, RegistryConsistent, NEW S, Disconnect(S)
  PROVE  RegistryConsistent'
<1> USE DEF RegistryTypeOK
<1>1. \A c \in Conns : c \in active_connections' <=> connection_info'[c] # NoInfo
  BY DEF Disconnect, RegistryConsistent
<1>2. \A u \in Users : user_connections'[u] =
        {c \in active_connections' : connection_info'[c].user = u}
  <2> TAKE u \in Users
  <2>1. user_connections'[u] = user_connections[u] \
          {c \in S : connection_info[c] # NoInfo /\ connection_info[c].user = u}
    BY DEF Disconnect, UserMapWithout
  <2>2. user_connections[u] = {c \in active_connections : connection_info[c].user = u}
    BY DEF RegistryConsistent
  <2>3. \A c \in active_connections : connection_info[c] # NoInfo
    BY DEF RegistryConsistent
  <2>4. \A c \in active_connections \ S : connection_info'[c] = connection_info[c]
    BY DEF Disconnect
  <2>5. active_connections' = active_connections \ S
    BY DEF Disconnect
  <2>6. QED
    BY <2>1, <2>2, <2>3, <2>4, <2>5
<1>3. \A t \in Topics, c \in active_connections' :
        c \in topic_subscriptions'[t] <=> t \in connection_info'[c].topics
  BY DEF Disconnect, RegistryConsistent
<1>4. QED
  BY <1>1, <1>2, <1>3 DEF RegistryConsistent

\* Forgetting ids makes none of them known again.
LEMMA DisconnectShrinks ==
  ASSUME RegistryTypeOK, NEW S, Disconnect(S)
  PROVE  /\ active_connections' \subseteq active_connections
         /\ \A t \in Topics : topic_subscriptions'[t] \subseteq topic_subscriptions[t]
BY DEF Disconnect, RegistryTypeOK

\* A step that forgets ids and sends no endpoint back to its start keeps the
\* registry invariant.
LEMMA DisconnectKeepsRegistry ==
  ASSUME RegistryInv, TypeOK', NEW S, Disconnect(S),
         \A c \in Conns : pc'[c] = "new" => pc[c] = "new"
  PROVE  RegistryInv'
BY DisconnectConsistent, DisconnectShrinks DEF RegistryInv, NewUnknown, TypeOK

\* So does a step that leaves the registry alone.
LEMMA RegistryUnchanged ==
  ASSUME RegistryInv, TypeOK', UNCHANGED registry,
         \A c \in Conns : pc'[c] = "new" => pc[c] = "new"
  PROVE  RegistryInv'
BY DEF RegistryInv, NewUnknown, RegistryConsistent, registry

\* Every step keeps the registry invariant.
LEMMA RegistryStep == RegistryInv /\ [Next]_vars => RegistryInv'
<1> SUFFICES ASSUME RegistryInv, [Next]_vars
             PROVE  RegistryInv'
  OBVIOUS
<1>0. /\ TypeOK /\ TypeOK'
      /\ RegistryTypeOK /\ pc \in [Conns -> {"new", "confirming", "flushing",
                             "serving", "replying", "failed", "done"}]
  BY TypeStep DEF RegistryInv, TypeOK, EndpointTypeOK
<1>1. ASSUME NEW c \in Conns, PeerLeaves(c)
      PROVE  RegistryInv'
  BY <1>0, <1>1, RegistryUnchanged DEF PeerLeaves
<1>2. ASSUME NEW c \in Conns, PingAges(c)
      PROVE  RegistryInv'
  BY <1>0, <1>2 DEF PingAges, endpoint, RegistryInv, NewUnknown, RegistryConsistent
<1>3. ASSUME NEW c \in Conns, ClientStep(c)
      PROVE  RegistryInv'
  <2>1. CASE Connect(c)
    <3>1. /\ c \notin active_connections
          /\ \A t \in Topics : c \notin topic_subscriptions[t]
      BY <2>1 DEF Connect, RegistryInv, NewUnknown
    <3>2. NewUnknown'
      BY <1>0, <2>1 DEF Connect, Goto, RegistryInv, NewUnknown, RegistryTypeOK
    <3>3. /\ connection_info'[c] = [user |-> UserOf[c], topics |-> InitialTopics[c]]
          /\ \A d \in Conns \ {c} : connection_info'[d] = connection_info[d]
          /\ active_connections' = active_connections \cup {c}
      BY <1>0, <2>1 DEF Connect, RegistryTypeOK
    <3>4. connection_info'[c] # NoInfo
      BY <3>3, ConfigAssumption
    <3>5. \A d \in Conns : d \in active_connections' <=> connection_info'[d] # NoInfo
      BY <3>3, <3>4 DEF RegistryInv, RegistryConsistent
    <3>6. \A u \in Users : user_connections'[u] =
            {d \in active_connections' : connection_info'[d].user = u}
      <4> TAKE u \in Users
      <4>1. user_connections'[u] =
              user_connections[u] \cup (IF u = UserOf[c] THEN {c} ELSE {})
        BY <2>1 DEF Connect
      <4>2. user_connections[u] = {d \in active_connections : connection_info[d].user = u}
        BY DEF RegistryInv, RegistryConsistent
      <4>3. connection_info'[c].user = UserOf[c]
        BY <3>3
      <4>4. QED
        BY <1>0, <3>1, <3>3, <4>1, <4>2, <4>3 DEF RegistryTypeOK
    <3>7. \A t \in Topics, d \in active_connections' :
            d \in topic_subscriptions'[t] <=> t \in connection_info'[d].topics
      <4> TAKE t \in Topics, d \in active_connections'
      <4>1. topic_subscriptions'[t] = topic_subscriptions[t] \cup
              (IF t \in InitialTopics[c] THEN {c} ELSE {})
        BY <2>1 DEF Connect
      <4>2. CASE d = c
        BY <3>1, <3>3, <4>1, <4>2
      <4>3. CASE d # c
        <5>1. d \in active_connections /\ d \in Conns
          BY <1>0, <3>3, <4>3 DEF RegistryTypeOK
        <5>2. QED
          BY <3>3, <4>1, <4>3, <5>1 DEF RegistryInv, RegistryConsistent
      <4>4. QED
        BY <4>2, <4>3
    <3>8. QED
      BY <1>0, <3>2, <3>5, <3>6, <3>7 DEF RegistryInv, RegistryConsistent
  <2>2. CASE Ping(c)
    BY <1>0, <2>2 DEF Ping, Reads, Reply, Receive, Goto, RegistryInv, NewUnknown,
          RegistryConsistent
  <2>3. CASE OtherFrame(c)
    BY <1>0, <2>3, RegistryUnchanged DEF OtherFrame, Reads, Reply, Receive, Goto
  <2>4. CASE MalformedFrame(c)
    BY <1>0, <2>4, RegistryUnchanged DEF MalformedFrame, Reads, EndpointFails, Goto
  <2>5. ASSUME pc[c] = "serving", ReplyWithTopics(c)
        PROVE  \A d \in Conns : pc'[d] = "new" => pc[d] = "new" /\ d # c
    BY <1>0, <2>5 DEF ReplyWithTopics, Reply, Receive, EndpointFails, Goto
  <2>6. ASSUME NEW T \in SUBSET Topics, Subscribe(c, T)
        PROVE  RegistryInv'
    <3>1. \A d \in Conns : pc'[d] = "new" => pc[d] = "new" /\ d # c
      BY <2>5, <2>6 DEF Subscribe, Reads
    <3>2. NewUnknown'
      BY <1>0, <2>6, <3>1 DEF Subscribe, RegistryInv, NewUnknown, RegistryTypeOK
    <3>3. RegistryConsistent'
      BY <1>0, <2>6, ConfigAssumption
         DEF Subscribe, RegistryInv, RegistryConsistent, RegistryTypeOK
    <3>4. QED
      BY <1>0, <3>2, <3>3 DEF RegistryInv
  <2>7. ASSUME NEW T \in SUBSET Topics, Unsubscribe(c, T)
        PROVE  RegistryInv'
    <3>1. \A d \in Conns : pc'[d] = "new" => pc[d] = "new" /\ d # c
      BY <2>5, <2>7 DEF Unsubscribe, Reads
    <3>2. NewUnknown'
      BY <1>0, <2>7, <3>1 DEF Unsubscribe, RegistryInv, NewUnknown, RegistryTypeOK
    <3>3. RegistryConsistent'
      BY <1>0, <2>7, ConfigAssumption
         DEF Unsubscribe, RegistryInv, RegistryConsistent, RegistryTypeOK
    <3>4. QED
      BY <1>0, <3>2, <3>3 DEF RegistryInv
  <2>8. QED
    BY <1>3, <2>1, <2>2, <2>3, <2>4, <2>6, <2>7 DEF ClientStep
<1>4. ASSUME NEW c \in Conns, EndpointStep(c)
      PROVE  RegistryInv'
  <2>1. CASE Confirmed(c)
    BY <1>0, <2>1, DisconnectKeepsRegistry DEF Confirmed, SendEnds, Goto, Receive
  <2>2. CASE Flushed(c)
    BY <1>0, <2>2, DisconnectKeepsRegistry DEF Flushed, SendEnds, Goto, Receive
  <2>3. CASE Replied(c)
    BY <1>0, <2>3, DisconnectKeepsRegistry DEF Replied, SendEnds, Goto, Receive
  <2>4. CASE Hangup(c)
    BY <1>0, <2>4, DisconnectKeepsRegistry DEF Hangup, Goto
  <2>5. CASE Refuse(c)
    BY <1>0, <2>5, RegistryUnchanged DEF Refuse, Goto
  <2>6. QED
    BY <1>4, <2>1, <2>2, <2>3, <2>4, <2>5 DEF EndpointStep
<1>5. ASSUME NEW x \in Senders, SenderStep(x)
      PROVE  RegistryInv'
  BY <1>0, <1>5, DisconnectKeepsRegistry
     DEF SenderStep, SendNext, SendToAudience, SendingDone, SenderResumes, SendEnds
<1>6. ASSUME HealthStep
      PROVE  RegistryInv'
  <2>1. CASE HealthWakes
    BY <1>0, <2>1, RegistryUnchanged DEF HealthWakes, endpoint
  <2>2. CASE HealthFindsNobody \/ HealthPingsNext \/ HealthCleansUp
    BY <1>0, <2>2, DisconnectKeepsRegistry
       DEF HealthFindsNobody, HealthPingsNext, HealthCleansUp, SendEnds, endpoint
  <2>3. QED
    BY <1>6, <2>1, <2>2 DEF HealthStep
<1>7. CASE UNCHANGED vars
  BY <1>0, <1>7, RegistryUnchanged DEF vars, endpoint
<1>8. QED
  BY <1>1, <1>2, <1>3, <1>4, <1>5, <1>6, <1>7 DEF Next

\* Whatever coroutines interleave, the manager's dictionaries never disagree
\* about a connection (connect, disconnect, subscribe and unsubscribe).
THEOREM RegistryStaysConsistent == Spec => []RegistryConsistent
<1>1. Init => RegistryInv
  BY TypeInit DEF Init, RegistryInv, RegistryConsistent, NewUnknown
<1>2. RegistryInv => RegistryConsistent
  BY DEF RegistryInv
<1>3. QED
  BY <1>1, <1>2, RegistryStep, PTL DEF Spec

-----------------------------------------------------------------------------
(* Who is disconnected *)

\* One step removes a connection whose peer is there only if it was found stale.
LEMMA OnlyClosedOrStaleRemoved ==
  ASSUME TypeOK, [Next]_vars,
         NEW c \in active_connections \ active_connections'
  PROVE  c \in Closed \/ c \in stale_connections
<1>1. ASSUME NEW S, Disconnect(S)
      PROVE  c \in S
  BY <1>1 DEF Disconnect
<1>2. ASSUME NEW d, SendEnds(d)
      PROVE  c \in Closed
  BY <1>1, <1>2, DroppedAreClosed DEF SendEnds
<1>3. ASSUME NEW d \in Conns, PeerLeaves(d) \/ PingAges(d) \/ ClientStep(d)
      PROVE  FALSE
  BY <1>3 DEF PeerLeaves, PingAges, ClientStep, Connect, Ping, OtherFrame,
       MalformedFrame, Subscribe, Unsubscribe, registry
<1>4. ASSUME NEW d \in Conns, EndpointStep(d)
      PROVE  c \in Closed
  BY <1>1, <1>2, <1>4
     DEF EndpointStep, Confirmed, Flushed, Replied, Hangup, Refuse, registry
<1>5. ASSUME NEW x \in Senders, SenderStep(x)
      PROVE  c \in Closed
  BY <1>2, <1>5 DEF SenderStep, SendNext, SendToAudience, SendingDone, SenderResumes
<1>6. ASSUME HealthStep
      PROVE  c \in Closed \/ c \in stale_connections
  <2>1. CASE HealthWakes
    BY <2>1 DEF HealthWakes, registry
  <2>2. CASE HealthFindsNobody
    BY <2>2 DEF HealthFindsNobody
  <2>3. CASE HealthPingsNext
    BY <1>2, <2>3 DEF HealthPingsNext
  <2>4. CASE HealthCleansUp
    BY <1>1, <2>4, DroppedAreClosed DEF HealthCleansUp
  <2>5. QED
    BY <1>6, <2>1, <2>2, <2>3, <2>4 DEF HealthStep
<1>7. CASE UNCHANGED vars
  BY <1>7 DEF vars, registry
<1>8. QED
  BY <1>3, <1>4, <1>5, <1>6, <1>7 DEF Next

\* No coroutine and no client makes the manager forget a connection whose peer
\* is still there; only the health check does, for the ids it found stale.
THEOREM OpenConnectionsAreKept == Spec => OpenConnectionKept
<1>1. TypeOK /\ [Next]_vars =>
        [\A c \in active_connections \ active_connections' :
           c \in Closed \/ c \in stale_connections]_vars
  BY OnlyClosedOrStaleRemoved
<1>2. QED
  BY <1>1, TypeCorrect, PTL DEF Spec, OpenConnectionKept

-----------------------------------------------------------------------------
(* What a step leaves alone *)

\* The loop of sender x is where it was.
LoopKept(x) ==
  /\ leg'[x] = leg[x] /\ connection_ids'[x] = connection_ids[x]
  /\ visited'[x] = visited[x] /\ sending'[x] = sending[x]
  /\ successful_sends'[x] = successful_sends[x]

\* Only the clients that the loop of x or a flush reaches get message x.
NotSentTo(x, c) == delivered'[c][x] = delivered[c][x]

\* A sender moves only its own loop, and delivers only its own message.
LEMMA SenderMovesItself ==
  ASSUME TypeOK, NEW x \in Senders, NEW y \in Senders \ {x}, SenderStep(y)
  PROVE  LoopKept(x) /\ \A c \in Conns : NotSentTo(x, c)
<1> USE DEF TypeOK, LoopsTypeOK, Loops
<1>1. SenderResumes(y)
  BY DEF SenderStep, SendNext, SendToAudience, SendingDone
<1>2. \A c \in Conns : NotSentTo(x, c)
  BY <1>1 DEF SenderResumes, Succeeded, NotSentTo
<1>3. successful_sends'[x] = successful_sends[x]
  BY <1>1 DEF SenderResumes
<1>4. CASE SendNext(y)
  BY <1>2, <1>3, <1>4 DEF SendNext, SendTo, LoopKept
<1>5. CASE SendToAudience(y)
  BY <1>2, <1>3, <1>5 DEF SendToAudience, LoopKept
<1>6. CASE SendingDone(y)
  BY <1>2, <1>3, <1>6 DEF SendingDone, LoopKept
<1>7. QED
  BY <1>4, <1>5, <1>6 DEF SenderStep

\* The health check moves its own loop and delivers no message.
LEMMA HealthMovesItself ==
  ASSUME TypeOK, NEW x \in Senders, HealthStep
  PROVE  LoopKept(x) /\ \A c \in Conns : NotSentTo(x, c)
<1> USE DEF TypeOK, LoopsTypeOK, Loops
<1>1. x # Health
  BY ConfigAssumption
<1>2. CASE HealthWakes
  BY <1>1, <1>2 DEF HealthWakes, SendTo, LoopKept, NotSentTo
<1>3. CASE HealthFindsNobody
  BY <1>1, <1>3 DEF HealthFindsNobody, loops, LoopKept, NotSentTo
<1>4. CASE HealthPingsNext
  BY <1>1, <1>4 DEF HealthPingsNext, SendTo, LoopKept, NotSentTo
<1>5. CASE HealthCleansUp
  BY <1>1, <1>5 DEF HealthCleansUp, LoopKept, NotSentTo
<1>6. QED
  BY <1>2, <1>3, <1>4, <1>5 DEF HealthStep

\* What the flush of a connection delivers: its batch, once, to its client only.
LEMMA FlushDelivers ==
  ASSUME TypeOK, NEW x \in Senders, NEW d \in Conns, Flushed(d)
  PROVE  \A c \in Conns : delivered'[c][x] = delivered[c][x] +
           (IF c = d /\ d \notin Closed /\ x \in Range(queued_messages[d])
            THEN 1 ELSE 0)
<1>1. \A c \in Conns : delivered[c] \in [Senders -> Nat]
  BY DEF TypeOK, LoopsTypeOK
<1>2. delivered' = [delivered EXCEPT ![d] = [m \in Senders |->
        delivered[d][m] + (IF d \notin Closed /\ m \in Range(queued_messages[d])
                           THEN 1 ELSE 0)]]
  BY DEF Flushed
<1>3. TAKE c \in Conns
<1>4. CASE c = d
  BY <1>1, <1>2, <1>4 DEF TypeOK, LoopsTypeOK
<1>5. CASE c # d
  BY <1>1, <1>2, <1>5 DEF TypeOK, LoopsTypeOK
<1>6. QED
  BY <1>4, <1>5

\* Every step but its own leaves the loop of a sender alone, and only a flush
\* then delivers its message.
LEMMA LoopsOfOthers ==
  ASSUME TypeOK, [Next]_vars, NEW x \in Senders, ~SenderStep(x)
  PROVE  /\ LoopKept(x)
         /\ \A c \in Conns : NotSentTo(x, c) \/ Flushed(c)
<1>1. ASSUME UNCHANGED <<loops, delivered>>
      PROVE  LoopKept(x) /\ \A c \in Conns : NotSentTo(x, c)
  BY <1>1 DEF loops, LoopKept, NotSentTo
<1>2. ASSUME NEW d \in Conns, PeerLeaves(d) \/ PingAges(d)
      PROVE  UNCHANGED <<loops, delivered>>
  BY <1>2 DEF PeerLeaves, PingAges
<1>3. ASSUME NEW d \in Conns, ClientStep(d)
      PROVE  UNCHANGED <<loops, delivered>>
  BY <1>3 DEF ClientStep, Connect, Ping, OtherFrame, MalformedFrame, Subscribe,
              Unsubscribe
<1>4. ASSUME NEW d \in Conns, EndpointStep(d), ~Flushed(d)
      PROVE  UNCHANGED <<loops, delivered>>
  BY <1>4 DEF EndpointStep, Confirmed, Replied, Hangup, Refuse
<1>5. ASSUME NEW d \in Conns, Flushed(d)
      PROVE  LoopKept(x) /\ \A c \in Conns : NotSentTo(x, c) \/ Flushed(c)
  <2>1. LoopKept(x)
    BY <1>5 DEF Flushed, loops, LoopKept
  <2>2. \A c \in Conns \ {d} : delivered'[c][x] = delivered[c][x]
    BY <1>5 DEF Flushed, TypeOK, LoopsTypeOK
  <2>3. QED
    BY <1>5, <2>1, <2>2 DEF NotSentTo
<1>6. CASE UNCHANGED vars
  BY <1>1, <1>6 DEF vars
<1>7. QED
  BY <1>1, <1>2, <1>3, <1>4, <1>5, <1>6, SenderMovesItself, HealthMovesItself
     DEF Next

\* A socket that closes stays closed.
LEMMA ClosedStays ==
  ASSUME TypeOK, [Next]_vars
  PROVE  Closed \subseteq Closed'
<1> USE DEF Closed, TypeOK, EndpointTypeOK
<1>1. ASSUME NEW d, SendEnds(d)
      PROVE  Closed \subseteq Closed'
  BY <1>1 DEF SendEnds, SocketsAfterSend, DroppedBySend
<1>2. ASSUME NEW d \in Conns, PeerLeaves(d) \/ PingAges(d) \/ ClientStep(d)
      PROVE  Closed \subseteq Closed'
  BY <1>2 DEF PeerLeaves, PingAges, ClientStep, Connect, Ping, OtherFrame,
       MalformedFrame, Subscribe, Unsubscribe, Reply, ReplyWithTopics,
       EndpointFails, endpoint
<1>3. ASSUME NEW d \in Conns, EndpointStep(d)
      PROVE  Closed \subseteq Closed'
  BY <1>1, <1>3 DEF EndpointStep, Confirmed, Flushed, Replied, Hangup, Refuse
<1>4. ASSUME NEW x \in Senders, SenderStep(x)
      PROVE  Closed \subseteq Closed'
  BY <1>1, <1>4 DEF SenderStep, SendNext, SendToAudience, SendingDone, SenderResumes
<1>5. ASSUME HealthStep
      PROVE  Closed \subseteq Closed'
  BY <1>1, <1>5 DEF HealthStep, HealthWakes, HealthFindsNobody, HealthPingsNext,
       HealthCleansUp, SocketsAfterSend, DroppedBySend, endpoint
<1>6. CASE UNCHANGED vars
  BY <1>6 DEF vars, endpoint
<1>7. QED
  BY <1>2, <1>3, <1>4, <1>5, <1>6 DEF Next

\* An endpoint leaves its start only by registering its connection or by ending,
\* and no id is registered otherwise.
LEMMA NewStep ==
  ASSUME TypeOK, [Next]_vars, NEW c \in Conns
  PROVE  /\ pc'[c] = "new" => pc[c] = "new"
         /\ pc'[c] = "confirming" => pc[c] = "confirming" \/ Connect(c)
         /\ c \in active_connections' => c \in active_connections \/ pc[c] = "new"
<1> USE DEF TypeOK, EndpointTypeOK, Goto, Receive
<1>1. ASSUME NEW S, Disconnect(S)
      PROVE  active_connections' \subseteq active_connections
  BY <1>1 DEF Disconnect
<1>2. ASSUME NEW d, SendEnds(d)
      PROVE  active_connections' \subseteq active_connections
  BY <1>1, <1>2 DEF SendEnds
<1>3. ASSUME NEW d \in Conns, PeerLeaves(d) \/ PingAges(d)
      PROVE  UNCHANGED <<pc, active_connections>>
  BY <1>3 DEF PeerLeaves, PingAges, registry, endpoint
<1>4. ASSUME NEW d \in Conns, Connect(d)
      PROVE  /\ \A e \in Conns \ {d} : pc'[e] = pc[e]
             /\ pc[d] = "new" /\ pc'[d] = "confirming"
             /\ active_connections' = active_connections \cup {d}
  BY <1>4 DEF Connect
<1>5. ASSUME NEW d \in Conns, ClientStep(d), ~Connect(d)
      PROVE  /\ \A e \in Conns \ {d} : pc'[e] = pc[e]
             /\ pc'[d] \notin {"new", "confirming"}
             /\ UNCHANGED active_connections
  BY <1>5 DEF ClientStep, Ping, OtherFrame, MalformedFrame, Subscribe, Unsubscribe,
       Reply, ReplyWithTopics, EndpointFails, registry
<1>6. ASSUME NEW d \in Conns, EndpointStep(d)
      PROVE  /\ \A e \in Conns \ {d} : pc'[e] = pc[e]
             /\ pc'[d] \notin {"new", "confirming"}
             /\ active_connections' \subseteq active_connections
  BY <1>1, <1>2, <1>6 DEF EndpointStep, Confirmed, Flushed, Replied, Hangup, Refuse,
       registry
<1>7. ASSUME NEW x \in Senders, SenderStep(x)
      PROVE  UNCHANGED pc /\ active_connections' \subseteq active_connections
  BY <1>2, <1>7 DEF SenderStep, SendNext, SendToAudience, SendingDone, SenderResumes
<1>8. ASSUME HealthStep
      PROVE  UNCHANGED pc /\ active_connections' \subseteq active_connections
  BY <1>1, <1>2, <1>8 DEF HealthStep, HealthWakes, HealthFindsNobody,
       HealthPingsNext, HealthCleansUp, endpoint, registry
<1>9. CASE UNCHANGED vars
  BY <1>9 DEF vars, endpoint, registry
<1>10. QED
  BY <1>3, <1>4, <1>5, <1>6, <1>7, <1>8, <1>9 DEF Next

-----------------------------------------------------------------------------
(* Broadcasts *)

\* Every id a loop has turned to, but for the one it is sending to, has the
\* message if it is still registered; and none of them can be registered again.
VisitedInv ==
  \A x \in Senders :
    /\ \A c \in visited[x] : pc[c] # "new"
    /\ \A c \in (visited[x] \ {sending[x]}) \cap active_connections :
         delivered[c][x] > 0

\* The end of a send in flight: its client has the message or is forgotten, and
\* nobody loses what it had.
LEMMA ResumedSend ==
  ASSUME TypeOK, NEW x \in Senders, SenderResumes(x)
  PROVE  /\ active_connections' = StillActive(x)
         /\ \A c \in Conns : delivered'[c][x] =
              delivered[c][x] + (IF c = sending[x] /\ c \notin Closed THEN 1 ELSE 0)
         /\ sending[x] \in active_connections' => sending[x] \in Conns \ Closed
<1>1. active_connections' = StillActive(x)
  BY DEF SenderResumes, SendEnds, Disconnect, StillActive
<1>2. sending[x] \in active_connections' => sending[x] \in Conns \ Closed
  BY <1>1 DEF StillActive, DroppedBySend, TypeOK, RegistryTypeOK
<1>3. \A c \in Conns : delivered'[c][x] =
        delivered[c][x] + (IF c = sending[x] /\ c \notin Closed THEN 1 ELSE 0)
  <2>1. delivered \in [Conns -> [Senders -> Nat]]
    BY DEF TypeOK, LoopsTypeOK
  <2>2. CASE Succeeded(x)
    BY <2>1, <2>2 DEF SenderResumes, Succeeded
  <2>3. CASE ~Succeeded(x)
    BY <2>1, <2>3 DEF SenderResumes, Succeeded
  <2>4. QED
    BY <2>2, <2>3
<1>4. QED
  BY <1>1, <1>2, <1>3

\* After the end of a send everybody the loop has turned to has the message or
\* is forgotten.
LEMMA ResumedVisited ==
  ASSUME TypeOK, VisitedInv, NEW x \in Senders, SenderResumes(x)
  PROVE  \A c \in visited[x] \cap active_connections' : delivered'[c][x] > 0
<1> TAKE c \in visited[x] \cap active_connections'
<1>1. /\ c \in Conns /\ delivered[c][x] \in Nat
      /\ c \in active_connections
  BY ResumedSend DEF StillActive, TypeOK, RegistryTypeOK, LoopsTypeOK
<1>2. CASE c = sending[x]
  BY <1>1, <1>2, ResumedSend
<1>3. CASE c # sending[x]
  BY <1>1, <1>3, ResumedSend DEF VisitedInv
<1>4. QED
  BY <1>2, <1>3

\* When a loop turns to another audience or ends, everybody it copied has the
\* message or is forgotten.
LEMMA LegComplete ==
  ASSUME TypeOK, VisitedInv, [Next]_vars, NEW x \in Senders, leg'[x] # leg[x]
  PROVE  \A c \in connection_ids[x] \cap active_connections' : delivered'[c][x] > 0
<1>1. SenderStep(x)
  BY LoopsOfOthers DEF LoopKept
<1>2. ~SendNext(x)
  BY DEF SendNext
<1>3. SenderResumes(x) /\ Unvisited(x) = {}
  BY <1>1, <1>2 DEF SenderStep, SendToAudience, SendingDone
<1>4. connection_ids[x] \cap active_connections' \subseteq visited[x]
  BY <1>3, ResumedSend DEF Unvisited
<1>5. QED
  BY <1>3, <1>4, ResumedVisited

\* Every step keeps the invariant of the visited ids.
LEMMA VisitedStep ==
  ASSUME TypeOK, TypeOK', NewUnknown, VisitedInv, [Next]_vars
  PROVE  VisitedInv'
<1> SUFFICES ASSUME NEW x \in Senders
             PROVE  /\ \A c \in visited'[x] : pc'[c] # "new"
                    /\ \A c \in (visited'[x] \ {sending'[x]}) \cap active_connections' :
                         delivered'[c][x] > 0
  BY DEF VisitedInv
<1>0. /\ visited[x] \subseteq Conns /\ active_connections \subseteq Conns
      /\ active_connections' \subseteq Conns
      /\ visited \in [Loops -> SUBSET Conns] /\ sending \in [Loops -> Conns \cup {NoConn}]
      /\ x \in Loops
      /\ \A c \in Conns : delivered[c][x] \in Nat /\ delivered'[c][x] \in Nat
  BY DEF TypeOK, RegistryTypeOK, LoopsTypeOK, Loops
<1>1. CASE ~SenderStep(x)
  <2>1. visited'[x] = visited[x] /\ sending'[x] = sending[x]
    BY <1>1, LoopsOfOthers DEF LoopKept
  <2>2. \A c \in Conns : delivered'[c][x] >= delivered[c][x]
    BY <1>0, <1>1, LoopsOfOthers, FlushDelivers DEF NotSentTo
  <2>3. \A c \in visited[x] : pc[c] # "new"
    BY DEF VisitedInv
  <2>4. \A c \in visited'[x] : pc'[c] # "new"
    BY <1>0, <2>1, <2>3, NewStep
  <2>5. \A c \in visited[x] \cap active_connections' : c \in active_connections
    BY <1>0, <2>3, NewStep
  <2>6. ASSUME NEW c \in (visited'[x] \ {sending'[x]}) \cap active_connections'
        PROVE  delivered'[c][x] > 0
    <3>1. c \in (visited[x] \ {sending[x]}) \cap active_connections /\ c \in Conns
      BY <1>0, <2>1, <2>5, <2>6
    <3>2. delivered[c][x] > 0
      BY <3>1 DEF VisitedInv
    <3>3. QED
      BY <1>0, <2>2, <3>1, <3>2
  <2>7. QED
    BY <2>4, <2>6
<1>2. CASE SendNext(x)
  <2>1. SenderResumes(x) /\ UNCHANGED pc
    BY <1>2 DEF SendNext
  <2>2. PICK d \in Unvisited(x) : visited'[x] = visited[x] \cup {d} /\ sending'[x] = d
    BY <1>0, <1>2 DEF SendNext, SendTo
  <2>3. pc[d] # "new"
    BY <2>2 DEF Unvisited, StillActive, NewUnknown, TypeOK, RegistryTypeOK
  <2>4. QED
    BY <2>1, <2>2, <2>3, ResumedVisited DEF VisitedInv
<1>3. CASE SendToAudience(x)
  <2>1. PICK d \in StillActive(x) : visited'[x] = {d} /\ sending'[x] = d
    BY <1>0, <1>3 DEF SendToAudience, Audience
  <2>2. pc'[d] # "new"
    BY <1>3, <2>1 DEF SendToAudience, StillActive, NewUnknown, TypeOK, RegistryTypeOK
  <2>3. QED
    BY <2>1, <2>2
<1>4. CASE SendingDone(x)
  <2>1. SenderResumes(x) /\ UNCHANGED <<pc, visited>>
    BY <1>4 DEF SendingDone
  <2>2. QED
    BY <2>1, ResumedVisited DEF VisitedInv
<1>5. QED
  BY <1>1, <1>2, <1>3, <1>4 DEF SenderStep

\* Whoever a broadcast has copied has its message, or is forgotten, when the
\* broadcast turns to its next audience or ends: no failed send to one client
\* and no connection that comes or goes meanwhile makes it skip another.
THEOREM BroadcastsReachAll == Spec => BroadcastReachesAll
<1>1. Init => RegistryInv /\ VisitedInv
  BY TypeInit DEF Init, RegistryInv, RegistryConsistent, NewUnknown, VisitedInv, Loops
<1>2. RegistryInv /\ VisitedInv /\ [Next]_vars => (RegistryInv /\ VisitedInv)'
  BY RegistryStep, VisitedStep DEF RegistryInv
<1>3. RegistryInv /\ VisitedInv /\ [Next]_vars =>
        [\A b \in Broadcasters : leg'[b] # leg[b] =>
           \A c \in connection_ids[b] \cap active_connections' :
             delivered'[c][b] > 0]_vars
  BY LegComplete DEF RegistryInv, Senders
<1>4. QED
  BY <1>1, <1>2, <1>3, PTL DEF Spec, BroadcastReachesAll

-----------------------------------------------------------------------------
(* Notifications: endpoints that have not taken their queue *)

\* An endpoint that has not sent its confirmation yet has taken no message, has
\* not been pinged, so no health check can find it stale, and stays registered
\* unless its peer has left.
PendingInv ==
  \A c \in Conns : pc[c] \in {"new", "confirming"} =>
    /\ queued_messages[c] = <<>>
    /\ last_ping[c] = "none" /\ c \notin stale_connections
    /\ pc[c] = "confirming" => c \in active_connections \cup Closed

\* Only the confirmation of a connection takes messages for it.
LEMMA TakenByConfirmed ==
  ASSUME TypeOK, [Next]_vars, NEW c \in Conns, ~Confirmed(c)
  PROVE  queued_messages'[c] = queued_messages[c]
<1> USE DEF TypeOK, MailboxTypeOK, mailbox
<1>1. ASSUME NEW d \in Conns, PeerLeaves(d) \/ PingAges(d) \/ ClientStep(d)
      PROVE  UNCHANGED queued_messages
  BY <1>1 DEF PeerLeaves, PingAges, ClientStep, Connect, Ping, OtherFrame,
       MalformedFrame, Subscribe, Unsubscribe
<1>2. ASSUME NEW d \in Conns, EndpointStep(d)
      PROVE  queued_messages'[c] = queued_messages[c]
  BY <1>2 DEF EndpointStep, Confirmed, Flushed, Replied, Hangup, Refuse
<1>3. ASSUME NEW x \in Senders, SenderStep(x)
      PROVE  UNCHANGED queued_messages
  BY <1>3 DEF SenderStep, SendNext, SendToAudience, SendingDone
<1>4. ASSUME HealthStep
      PROVE  UNCHANGED queued_messages
  BY <1>4 DEF HealthStep, HealthWakes, HealthFindsNobody, HealthPingsNext,
       HealthCleansUp
<1>5. CASE UNCHANGED vars
  BY <1>5 DEF vars
<1>6. QED
  BY <1>1, <1>2, <1>3, <1>4, <1>5 DEF Next

\* Only a frame of the client makes its ping known, and only an old ping makes
\* an id stale.
LEMMA PingStep ==
  ASSUME TypeOK, [Next]_vars, NEW c \in Conns, last_ping[c] = "none",
         c \notin stale_connections
  PROVE  /\ last_ping'[c] = "none" \/ Ping(c)
         /\ c \notin stale_connections'
<1> USE DEF TypeOK, RegistryTypeOK, loops, registry
<1>1. ASSUME NEW S, Disconnect(S)
      PROVE  last_ping'[c] = "none"
  BY <1>1 DEF Disconnect
<1>2. ASSUME NEW d, SendEnds(d)
      PROVE  last_ping'[c] = "none"
  BY <1>1, <1>2 DEF SendEnds
<1>3. ASSUME NEW d \in Conns, PeerLeaves(d) \/ PingAges(d)
      PROVE  last_ping'[c] = "none" /\ UNCHANGED stale_connections
  BY <1>3 DEF PeerLeaves, PingAges
<1>4. ASSUME NEW d \in Conns, ClientStep(d)
      PROVE  (last_ping'[c] = "none" \/ Ping(c)) /\ UNCHANGED stale_connections
  BY <1>4 DEF ClientStep, Connect, Ping, OtherFrame, MalformedFrame, Subscribe,
       Unsubscribe
<1>5. ASSUME NEW d \in Conns, EndpointStep(d)
      PROVE  last_ping'[c] = "none" /\ UNCHANGED stale_connections
  BY <1>1, <1>2, <1>5 DEF EndpointStep, Confirmed, Flushed, Replied, Hangup, Refuse
<1>6. ASSUME NEW x \in Senders, SenderStep(x)
      PROVE  last_ping'[c] = "none" /\ UNCHANGED stale_connections
  BY <1>2, <1>6 DEF SenderStep, SendNext, SendToAudience, SendingDone, SenderResumes
<1>7. ASSUME HealthStep
      PROVE  last_ping'[c] = "none" /\ c \notin stale_connections'
  BY <1>1, <1>2, <1>7 DEF HealthStep, HealthWakes, HealthFindsNobody,
       HealthPingsNext, HealthCleansUp, Stale
<1>8. CASE UNCHANGED vars
  BY <1>8 DEF vars
<1>9. QED
  BY <1>3, <1>4, <1>5, <1>6, <1>7, <1>8 DEF Next

\* Every step keeps the invariant of the endpoints before their confirmation.
LEMMA PendingStep ==
  ASSUME TypeOK, TypeOK', PendingInv, [Next]_vars
  PROVE  PendingInv'
<1> SUFFICES ASSUME NEW c \in Conns, pc'[c] \in {"new", "confirming"}
             PROVE  /\ queued_messages'[c] = <<>>
                    /\ last_ping'[c] = "none" /\ c \notin stale_connections'
                    /\ pc'[c] = "confirming" => c \in active_connections' \cup Closed'
  BY DEF PendingInv
<1>1. pc[c] \in {"new", "confirming"} /\ ~Confirmed(c) /\ ~Ping(c)
  BY NewStep
     DEF Connect, Confirmed, Ping, Reads, Goto, Receive, TypeOK, EndpointTypeOK
<1>2. queued_messages'[c] = <<>>
  BY <1>1, TakenByConfirmed DEF PendingInv
<1>3. last_ping'[c] = "none" /\ c \notin stale_connections'
  BY <1>1, PingStep DEF PendingInv
<1>4. ASSUME pc'[c] = "confirming"
      PROVE  c \in active_connections' \cup Closed'
  <2>1. CASE Connect(c)
    BY <2>1 DEF Connect
  <2>2. CASE ~Connect(c)
    <3>1. pc[c] = "confirming"
      BY <1>4, <2>2, NewStep
    <3>2. c \in active_connections \cup Closed /\ c \notin stale_connections
      BY <3>1 DEF PendingInv
    <3>3. QED
      BY <3>2, ClosedStays, OnlyClosedOrStaleRemoved
  <2>3. QED
    BY <2>1, <2>2
<1>5. QED
  BY <1>2, <1>3, <1>4

-----------------------------------------------------------------------------
(* Notifications: the queues *)

\* Notification n is in no queue and no connect has taken it.
NotQueued(n) ==
  /\ \A u \in Users : n \notin Range(queues[u])
  /\ \A c \in Conns : n \notin Range(queued_messages[c])

\* No client has got notification n.
Unheard(n) == \A c \in Conns : delivered[c][n] = 0

\* While its call runs, a notification is nowhere but with the clients its loop
\* has done with, and the count of successful sends tells if there are any.
RunningInv(n) ==
  leg[n] <= 1 =>
    /\ NotQueued(n)
    /\ sending[n] \in visited[n] \cup {NoConn}
    /\ \A c \in Conns : delivered[c][n] > 0 => c \in visited[n] \ {sending[n]}
    /\ successful_sends[n] = 0 <=> Unheard(n)
    /\ leg[n] = 0 => Unheard(n) /\ sending[n] = NoConn /\ connection_ids[n] = {}

\* A queued notification has reached nobody, and one taken by a connect has
\* reached nobody else, and not its client before the flush.
HeldInv(n) ==
  /\ \A c \in Conns : delivered[c][n] <= 1
  /\ \A u \in Users : n \in Range(queues[u]) =>
       /\ u = Recipient[n] /\ Unheard(n)
       /\ \A c \in Conns : n \notin Range(queued_messages[c])
  /\ \A c \in Conns : n \in Range(queued_messages[c]) =>
       /\ \A d \in Conns \ {c} :
            delivered[d][n] = 0 /\ n \notin Range(queued_messages[d])
       /\ pc[c] = "flushing" => delivered[c][n] = 0

\* The disjuncts of NotificationAccountedFor, for one notification.
Accounted(n) ==
  \/ \E c \in Conns : delivered[c][n] > 0
  \/ n \in Range(queues[Recipient[n]])
  \/ n \in evicted
  \/ \E c \in Conns : /\ n \in Range(queued_messages[c])
                      /\ pc[c] = "flushing" \/ c \in Closed

\* The inductive invariant behind NotifiedOnce and NotificationAccountedFor.
OneNotificationInv(n) ==
  RunningInv(n) /\ HeldInv(n) /\ (leg[n] > 1 => Accounted(n))
NotificationInv == \A n \in Notifiers : OneNotificationInv(n)

\* What a queue holds after a message was added: that message, nothing new, and
\* all of the others but the one pushed out.
LEMMA EnqueueRange ==
  ASSUME NEW q \in Seq(Notifiers), Len(q) <= MaxQueue, NEW m \in Notifiers
  PROVE  /\ m \in Range(Enqueue(q, m))
         /\ Range(Enqueue(q, m)) \subseteq Range(q) \cup {m}
<1>1. ASSUME NEW r \in Seq(Notifiers)
      PROVE  /\ m \in Range(Append(r, m))
             /\ Range(Append(r, m)) \subseteq Range(r) \cup {m}
  <2>1. /\ Append(r, m) \in Seq(Notifiers) /\ Len(Append(r, m)) = Len(r) + 1
        /\ Append(r, m)[Len(r) + 1] = m
        /\ \A i \in 1 .. Len(r) : Append(r, m)[i] = r[i]
        /\ Len(r) \in Nat /\ DOMAIN r = 1 .. Len(r)
        /\ DOMAIN Append(r, m) = 1 .. Len(r) + 1
    BY <1>1
  <2>2. QED
    BY <2>1 DEF Range
<1>2. MaxQueue \in Nat \ {0}
  BY ConfigAssumption
<1>3. CASE Len(q) = MaxQueue
  <2>1. Tail(q) \in Seq(Notifiers) /\ Range(Tail(q)) \subseteq Range(q)
    BY <1>2, <1>3 DEF Range
  <2>2. QED
    BY <1>1, <1>3, <2>1 DEF Enqueue
<1>4. CASE Len(q) # MaxQueue
  BY <1>1, <1>4 DEF Enqueue
<1>5. QED
  BY <1>3, <1>4

\* Only its own call and the confirmation of a connection move a notification
\* into or out of a queue, unless a newer one pushes it out.
LEMMA QueuedElsewhere ==
  ASSUME TypeOK, [Next]_vars, NEW n \in Notifiers, ~SenderStep(n),
         \A c \in Conns : ~Confirmed(c)
  PROVE  /\ \A u \in Users : n \in Range(queues'[u]) => n \in Range(queues[u])
         /\ \A u \in Users :
              n \in Range(queues[u]) => n \in Range(queues'[u]) \/ n \in evicted'
         /\ evicted \subseteq evicted'
<1>1. ASSUME UNCHANGED <<queues, evicted>>
      PROVE  /\ \A u \in Users : n \in Range(queues'[u]) => n \in Range(queues[u])
             /\ \A u \in Users :
                  n \in Range(queues[u]) => n \in Range(queues'[u]) \/ n \in evicted'
             /\ evicted \subseteq evicted'
  BY <1>1
<1>2. ASSUME NEW d \in Conns,
             PeerLeaves(d) \/ PingAges(d) \/ ClientStep(d) \/ EndpointStep(d)
      PROVE  UNCHANGED <<queues, evicted>>
  BY <1>2 DEF PeerLeaves, PingAges, ClientStep, Connect, Ping, OtherFrame,
       MalformedFrame, Subscribe, Unsubscribe, EndpointStep, Flushed, Replied, Hangup,
       Refuse, mailbox
<1>3. ASSUME HealthStep \/ UNCHANGED vars
      PROVE  UNCHANGED <<queues, evicted>>
  BY <1>3 DEF HealthStep, HealthWakes, HealthFindsNobody, HealthPingsNext,
       HealthCleansUp, mailbox, vars
<1>4. ASSUME NEW x \in Senders, SendNext(x) \/ SendToAudience(x)
      PROVE  UNCHANGED <<queues, evicted>>
  BY <1>4 DEF SendNext, SendToAudience, mailbox
<1>5. ASSUME NEW x \in Senders, SendingDone(x)
      PROVE  /\ \A u \in Users : n \in Range(queues'[u]) => n \in Range(queues[u])
             /\ \A u \in Users :
                  n \in Range(queues[u]) => n \in Range(queues'[u]) \/ n \in evicted'
             /\ evicted \subseteq evicted'
  <2>1. CASE ~MustQueue(x)
    BY <1>1, <1>5, <2>1 DEF SendingDone
  <2>2. CASE MustQueue(x)
    <3> DEFINE v == Recipient[x]
    <3>1. x \in Notifiers /\ v \in Users /\ x # n
      BY <1>5, <2>2, ConfigAssumption DEF MustQueue, SenderStep
    <3>2. /\ queues' = [queues EXCEPT ![v] = Enqueue(queues[v], x)]
          /\ evicted' = evicted \cup (Range(queues[v]) \ Range(queues'[v]))
      BY <1>5, <2>2 DEF SendingDone
    <3>3. queues[v] \in Seq(Notifiers) /\ Len(queues[v]) <= MaxQueue
      BY <3>1 DEF TypeOK, MailboxTypeOK
    <3>4. queues \in [Users -> Seq(Notifiers)]
      BY DEF TypeOK, MailboxTypeOK
    <3>5. queues'[v] = Enqueue(queues[v], x)
      BY <3>1, <3>2, <3>4
    <3>6. Range(queues'[v]) \subseteq Range(queues[v]) \cup {x}
      BY <3>1, <3>3, <3>5, EnqueueRange
    <3>7. \A u \in Users \ {v} : queues'[u] = queues[u]
      BY <3>2, <3>4
    <3> HIDE DEF v
    <3>8. QED
      BY <3>1, <3>2, <3>6, <3>7
  <2>3. QED
    BY <2>1, <2>2
<1>6. QED
  BY <1>1, <1>2, <1>3, <1>4, <1>5 DEF Next, SenderStep

\* Only its confirmation makes an endpoint flush, and only the flush ends that.
LEMMA FlushingStep ==
  ASSUME TypeOK, [Next]_vars, NEW c \in Conns, ~Confirmed(c)
  PROVE  /\ pc'[c] = "flushing" => pc[c] = "flushing" /\ ~Flushed(c)
         /\ pc[c] = "flushing" => pc'[c] = "flushing" \/ Flushed(c)
<1> USE DEF TypeOK, EndpointTypeOK, Goto, Receive
<1>1. ASSUME NEW d \in Conns, PeerLeaves(d) \/ PingAges(d)
      PROVE  UNCHANGED pc
  BY <1>1 DEF PeerLeaves, PingAges, endpoint
<1>2. ASSUME NEW d \in Conns, ClientStep(d)
      PROVE  /\ \A e \in Conns \ {d} : pc'[e] = pc[e]
             /\ pc[d] # "flushing" /\ pc'[d] # "flushing"
  BY <1>2 DEF ClientStep, Connect, Ping, OtherFrame, MalformedFrame, Subscribe,
       Unsubscribe, Reads, Reply, ReplyWithTopics, EndpointFails
<1>3. ASSUME NEW d \in Conns, EndpointStep(d), ~Flushed(d), ~Confirmed(d)
      PROVE  /\ \A e \in Conns \ {d} : pc'[e] = pc[e]
             /\ pc[d] # "flushing" /\ pc'[d] # "flushing"
  BY <1>3 DEF EndpointStep, Replied, Hangup, Refuse
<1>4. ASSUME NEW d \in Conns, Flushed(d) \/ Confirmed(d)
      PROVE  /\ \A e \in Conns \ {d} : pc'[e] = pc[e]
             /\ Flushed(d) => pc'[d] # "flushing"
  BY <1>4 DEF Flushed, Confirmed
<1>5. ASSUME NEW x \in Senders, SenderStep(x)
      PROVE  UNCHANGED pc
  BY <1>5 DEF SenderStep, SendNext, SendToAudience, SendingDone
<1>6. ASSUME HealthStep \/ UNCHANGED vars
      PROVE  UNCHANGED pc
  BY <1>6 DEF HealthStep, HealthWakes, HealthFindsNobody, HealthPingsNext,
       HealthCleansUp, endpoint, vars
<1>7. ASSUME UNCHANGED pc
      PROVE  ~Flushed(c)
  BY <1>7 DEF Flushed
<1>8. QED
  BY <1>1, <1>2, <1>3, <1>4, <1>5, <1>6, <1>7 DEF Next, EndpointStep

-----------------------------------------------------------------------------
(* Notifications: the steps *)

\* The end of a send of a notification: who has it now, once at most.
LEMMA ResumedNotification ==
  ASSUME TypeOK, NEW n \in Notifiers, RunningInv(n), HeldInv(n), SenderResumes(n)
  PROVE  /\ leg[n] <= 1 /\ n \in Senders
         /\ \A c \in Conns : /\ delivered'[c][n] \in Nat /\ delivered'[c][n] <= 1
                             /\ delivered'[c][n] > 0 => c \in visited[n]
         /\ successful_sends'[n] = 0 <=> Unheard(n)'
<1>1. leg[n] <= 1 /\ n \in Senders
  BY ConfigAssumption DEF SenderResumes, Legs, Senders
<1>2. /\ \A c \in Conns : delivered[c][n] \in Nat
      /\ successful_sends[n] \in Nat /\ n \in DOMAIN successful_sends
  BY <1>1 DEF TypeOK, LoopsTypeOK
<1>3. \A c \in Conns : delivered'[c][n] =
        delivered[c][n] + (IF c = sending[n] /\ c \notin Closed THEN 1 ELSE 0)
  BY <1>1, ResumedSend
<1>4. successful_sends'[n] = successful_sends[n] + (IF Succeeded(n) THEN 1 ELSE 0)
  BY <1>2 DEF SenderResumes
<1>5. \A c \in Conns : /\ delivered'[c][n] \in Nat /\ delivered'[c][n] <= 1
                       /\ delivered'[c][n] > 0 => c \in visited[n]
  <2> TAKE c \in Conns
  <2>1. /\ delivered[c][n] <= 1
        /\ delivered[c][n] > 0 => c \in visited[n] \ {sending[n]}
        /\ sending[n] \in visited[n] \cup {NoConn}
    BY <1>1 DEF HeldInv, RunningInv
  <2>2. c # NoConn
    BY ConfigAssumption
  <2>3. QED
    BY <1>2, <1>3, <2>1, <2>2
<1>6. successful_sends'[n] = 0 <=> Unheard(n)'
  <2>1. successful_sends[n] = 0 <=> Unheard(n)
    BY <1>1 DEF RunningInv
  <2>2. CASE Succeeded(n)
    <3>1. sending[n] \in Conns /\ delivered'[sending[n]][n] = delivered[sending[n]][n] + 1
      BY <1>3, <2>2 DEF Succeeded
    <3>2. QED
      BY <1>2, <1>4, <2>2, <3>1 DEF Unheard
  <2>3. CASE ~Succeeded(n)
    <3>1. \A c \in Conns : delivered'[c][n] = delivered[c][n]
      BY <1>2, <1>3, <2>3 DEF Succeeded
    <3>2. QED
      BY <1>2, <1>4, <2>1, <2>3, <3>1 DEF Unheard
  <2>4. QED
    BY <2>2, <2>3
<1>7. QED
  BY <1>1, <1>5, <1>6

\* A notification's own call keeps its invariant.
LEMMA NotifierStep ==
  ASSUME TypeOK, NEW n \in Notifiers, OneNotificationInv(n), SenderStep(n)
  PROVE  OneNotificationInv(n)'
<1>0. SenderResumes(n)
  BY DEF SenderStep, SendNext, SendToAudience, SendingDone
<1>1. /\ leg[n] <= 1 /\ n \in Senders
      /\ \A c \in Conns : /\ delivered'[c][n] \in Nat /\ delivered'[c][n] <= 1
                          /\ delivered'[c][n] > 0 => c \in visited[n]
      /\ successful_sends'[n] = 0 <=> Unheard(n)'
  BY <1>0, ResumedNotification DEF OneNotificationInv
<1>2. NotQueued(n) /\ (leg[n] = 0 => connection_ids[n] = {})
  BY <1>1 DEF OneNotificationInv, RunningInv
<1>3. /\ n \in Loops /\ leg \in [Loops -> Nat] /\ leg[n] \in {0, 1}
      /\ visited \in [Loops -> SUBSET Conns] /\ sending \in [Loops -> Conns \cup {NoConn}]
  <2>1. /\ leg \in [Loops -> Nat]
        /\ visited \in [Loops -> SUBSET Conns] /\ sending \in [Loops -> Conns \cup {NoConn}]
    BY DEF TypeOK, LoopsTypeOK
  <2>2. n \in Loops
    BY <1>1 DEF Loops
  <2>3. leg[n] \in Nat
    BY <2>1, <2>2
  <2>4. QED
    BY <1>1, <2>1, <2>2, <2>3
<1>4. Legs(n) = 1
  BY DEF Legs
<1>5. ASSUME NotQueued(n)'
      PROVE  HeldInv(n)'
  BY <1>1, <1>5 DEF HeldInv, NotQueued
<1>6. CASE SendNext(n)
  <2>1. PICK d \in Unvisited(n) : visited'[n] = visited[n] \cup {d} /\ sending'[n] = d
    BY <1>3, <1>6 DEF SendNext, SendTo
  <2>2. d \in connection_ids[n] /\ d \notin visited[n]
    BY <2>1 DEF Unvisited
  <2>3. leg[n] = 1 /\ UNCHANGED leg
    BY <1>2, <1>3, <1>6, <2>2 DEF SendNext
  <2>4. NotQueued(n)'
    BY <1>2, <1>6 DEF SendNext, mailbox, NotQueued
  <2>5. RunningInv(n)'
    BY <1>1, <2>1, <2>2, <2>3, <2>4 DEF RunningInv
  <2>6. QED
    BY <1>5, <2>3, <2>4, <2>5 DEF OneNotificationInv
<1>7. CASE SendToAudience(n)
  <2>1. leg[n] = 0 /\ leg'[n] = 1
    BY <1>3, <1>4, <1>7 DEF SendToAudience
  <2>2. Unheard(n) /\ sending[n] = NoConn /\ NoConn \notin Conns
    BY <1>1, <2>1, ConfigAssumption DEF OneNotificationInv, RunningInv
  <2>3. PICK d \in Conns : visited'[n] = {d} /\ sending'[n] = d
    BY <1>3, <1>7 DEF SendToAudience, Audience, StillActive, TypeOK, RegistryTypeOK
  <2>4. NotQueued(n)'
    BY <1>2, <1>7 DEF SendToAudience, mailbox, NotQueued
  <2>5. Unheard(n)'
    BY <1>0, <1>1, <2>2, ResumedSend DEF Unheard
  <2>6. RunningInv(n)'
    BY <1>1, <2>1, <2>3, <2>4, <2>5 DEF RunningInv, Unheard
  <2>7. QED
    BY <1>5, <2>1, <2>4, <2>6 DEF OneNotificationInv
<1>8. CASE SendingDone(n)
  <2>1. leg'[n] = 2
    BY <1>3, <1>4, <1>8 DEF SendingDone
  <2>2. UNCHANGED queued_messages
    BY <1>8 DEF SendingDone
  <2>3. CASE MustQueue(n)
    <3> DEFINE v == Recipient[n]
    <3>1. v \in Users /\ Unheard(n)'
      BY <1>1, <2>3, ConfigAssumption DEF MustQueue
    <3>2. /\ queues[v] \in Seq(Notifiers) /\ Len(queues[v]) <= MaxQueue
          /\ queues \in [Users -> Seq(Notifiers)]
      BY <3>1 DEF TypeOK, MailboxTypeOK
    <3>3. queues' = [queues EXCEPT ![v] = Enqueue(queues[v], n)]
      BY <1>8, <2>3 DEF SendingDone
    <3>4. queues'[v] = Enqueue(queues[v], n) /\ \A u \in Users \ {v} : queues'[u] = queues[u]
      BY <3>1, <3>2, <3>3
    <3>5. n \in Range(queues'[v])
      BY <3>2, <3>4, EnqueueRange
    <3>6. \A u \in Users : n \in Range(queues'[u]) => u = v
      BY <1>2, <3>4 DEF NotQueued
    <3>7. HeldInv(n)'
      BY <1>1, <1>2, <2>2, <3>1, <3>6 DEF HeldInv, NotQueued
    <3>8. Accounted(n)'
      BY <3>5 DEF Accounted
    <3>9. QED
      BY <2>1, <3>7, <3>8 DEF OneNotificationInv, RunningInv
  <2>4. CASE ~MustQueue(n)
    <3>1. UNCHANGED <<queues, evicted>>
      BY <1>8, <2>4 DEF SendingDone
    <3>2. NotQueued(n)'
      BY <1>2, <2>2, <3>1 DEF NotQueued
    <3>3. Accounted(n)'
      BY <1>1, <2>4 DEF MustQueue, Accounted, Unheard
    <3>4. QED
      BY <1>5, <2>1, <3>2, <3>3 DEF OneNotificationInv, RunningInv
  <2>5. QED
    BY <2>3, <2>4
<1>9. QED
  BY <1>6, <1>7, <1>8 DEF SenderStep

\* The confirmation of a connection takes the queue of its user.
LEMMA ConfirmedKeeps ==
  ASSUME TypeOK, TypeOK', PendingInv, NEW n \in Notifiers, OneNotificationInv(n),
         [Next]_vars, NEW c \in Conns, Confirmed(c)
  PROVE  OneNotificationInv(n)'
<1> DEFINE u == UserOf[c]
           batch == IF u = NoUser THEN <<>> ELSE queues[u]
<1>0. /\ queues \in [Users -> Seq(Notifiers)]
      /\ queued_messages \in [Conns -> Seq(Notifiers)]
      /\ pc \in [Conns -> {"new", "confirming", "flushing", "serving", "replying",
                           "failed", "done"}]
      /\ u \in Users \cup {NoUser} /\ NoUser \notin Users
  BY ConfigAssumption DEF TypeOK, MailboxTypeOK, EndpointTypeOK
<1>1. /\ queues' = [v \in Users |-> IF v = u THEN <<>> ELSE queues[v]]
      /\ queued_messages' = [queued_messages EXCEPT ![c] = batch]
      /\ UNCHANGED <<evicted, leg, connection_ids, visited, sending, successful_sends,
                     delivered>>
  BY DEF Confirmed, AfterGet, loops
<1>2. /\ pc[c] = "confirming" /\ queued_messages[c] = <<>>
      /\ queued_messages'[c] = batch
      /\ \A d \in Conns \ {c} : /\ queued_messages'[d] = queued_messages[d]
                                /\ pc'[d] = pc[d]
  BY <1>0, <1>1 DEF Confirmed, PendingInv, Goto, Receive
<1>3. batch # <<>> => pc'[c] = "flushing" \/ c \in Closed'
  <2>1. CASE c \in active_connections'
    BY <1>0, <2>1 DEF Confirmed, Goto
  <2>2. CASE c \notin active_connections'
    BY <1>2, <2>2, ClosedStays, OnlyClosedOrStaleRemoved DEF PendingInv
  <2>3. QED
    BY <2>1, <2>2
<1>4. Range(<<>>) = {}
  BY DEF Range
<1>5. CASE n \in Range(batch)
  <2>1. u \in Users /\ n \in Range(queues[u])
    BY <1>0, <1>4, <1>5
  <2>2. /\ u = Recipient[n] /\ Unheard(n)
        /\ \A d \in Conns : n \notin Range(queued_messages[d])
    BY <2>1 DEF OneNotificationInv, HeldInv
  <2>3. /\ \A v \in Users : n \notin Range(queues'[v])
        /\ \A d \in Conns \ {c} : n \notin Range(queued_messages'[d])
        /\ n \in Range(queued_messages'[c])
        /\ Unheard(n)' /\ batch # <<>>
    <3>1. \A v \in Users : n \in Range(queues[v]) => v = u
      BY <2>2 DEF OneNotificationInv, HeldInv
    <3>2. \A v \in Users : n \notin Range(queues'[v])
      BY <1>1, <1>4, <3>1
    <3>3. Unheard(n)'
      BY <1>1, <2>2 DEF Unheard
    <3>4. QED
      BY <1>2, <1>4, <1>5, <2>2, <3>2, <3>3
  <2>4. leg'[n] = leg[n] /\ ~(leg[n] <= 1)
    BY <1>1, <2>1 DEF OneNotificationInv, RunningInv, NotQueued
  <2>5. HeldInv(n)'
    BY <2>3 DEF HeldInv, Unheard
  <2>6. Accounted(n)'
    BY <1>3, <2>3 DEF Accounted
  <2>7. QED
    BY <2>4, <2>5, <2>6 DEF OneNotificationInv, RunningInv
<1>6. CASE n \notin Range(batch)
  <2>1. \A v \in Users : n \in Range(queues'[v]) <=> n \in Range(queues[v])
    BY <1>0, <1>1, <1>4, <1>6
  <2>2. \A d \in Conns :
          n \in Range(queued_messages'[d]) <=> n \in Range(queued_messages[d])
    BY <1>2, <1>4, <1>6
  <2>3. \A d \in Conns : n \in Range(queued_messages[d]) => d # c /\ pc'[d] = pc[d]
    BY <1>2, <1>4
  <2>4. RunningInv(n)'
    BY <1>1, <2>1, <2>2 DEF OneNotificationInv, RunningInv, NotQueued, Unheard
  <2>5. HeldInv(n)'
    BY <1>1, <2>1, <2>2, <2>3 DEF OneNotificationInv, HeldInv, Unheard
  <2>6. leg'[n] > 1 => Accounted(n)'
    <3>1. Recipient[n] \in Users
      BY ConfigAssumption
    <3>2. Closed \subseteq Closed'
      BY ClosedStays
    <3>3. QED
      BY <1>1, <2>1, <2>2, <2>3, <3>1, <3>2 DEF OneNotificationInv, Accounted
  <2>7. QED
    BY <2>4, <2>5, <2>6 DEF OneNotificationInv
<1>7. QED
  BY <1>5, <1>6

\* A flush delivers its batch to one client, or its client has left.
LEMMA FlushedKeeps ==
  ASSUME TypeOK, NEW n \in Notifiers, OneNotificationInv(n), [Next]_vars,
         NEW c \in Conns, Flushed(c)
  PROVE  OneNotificationInv(n)'
<1>1. /\ UNCHANGED <<queues, evicted, queued_messages, leg, connection_ids, visited,
                     sending, successful_sends>>
      /\ pc[c] = "flushing"
  BY DEF Flushed, mailbox, loops
<1>2. /\ pc'[c] # "flushing"
      /\ \A d \in Conns \ {c} : pc'[d] = pc[d]
  BY DEF Flushed, Goto, Receive, TypeOK, EndpointTypeOK
<1>3. /\ \A d \in Conns : delivered[d][n] \in Nat
      /\ \A d \in Conns : delivered'[d][n] = delivered[d][n] +
           (IF d = c /\ c \notin Closed /\ n \in Range(queued_messages[c])
            THEN 1 ELSE 0)
  BY FlushDelivers DEF TypeOK, LoopsTypeOK, Senders
<1>4. Closed \subseteq Closed'
  BY ClosedStays
<1>5. CASE n \in Range(queued_messages[c])
  <2>1. /\ ~(leg[n] <= 1)
        /\ \A u \in Users : n \notin Range(queues[u])
        /\ \A d \in Conns \ {c} :
             delivered[d][n] = 0 /\ n \notin Range(queued_messages[d])
        /\ delivered[c][n] = 0
    BY <1>1, <1>5 DEF OneNotificationInv, RunningInv, HeldInv, NotQueued
  <2>2. HeldInv(n)'
    BY <1>1, <1>2, <1>3, <2>1 DEF HeldInv
  <2>3. Accounted(n)'
    BY <1>1, <1>3, <1>4, <1>5, <2>1 DEF Accounted
  <2>4. QED
    BY <1>1, <2>1, <2>2, <2>3 DEF OneNotificationInv, RunningInv
<1>6. CASE n \notin Range(queued_messages[c])
  <2>1. \A d \in Conns : delivered'[d][n] = delivered[d][n]
    BY <1>3, <1>6
  <2>2. RunningInv(n)'
    BY <1>1, <2>1 DEF OneNotificationInv, RunningInv, NotQueued, Unheard
  <2>3. HeldInv(n)'
    BY <1>1, <1>2, <1>6, <2>1 DEF OneNotificationInv, HeldInv, Unheard
  <2>4. leg'[n] > 1 => Accounted(n)'
    BY <1>1, <1>2, <1>4, <1>6, <2>1 DEF OneNotificationInv, Accounted
  <2>5. QED
    BY <2>2, <2>3, <2>4 DEF OneNotificationInv
<1>7. QED
  BY <1>5, <1>6

\* Every step keeps the invariant of the notifications.
LEMMA NotificationStep ==
  ASSUME TypeOK, TypeOK', PendingInv, NotificationInv, [Next]_vars
  PROVE  NotificationInv'
<1> SUFFICES ASSUME NEW n \in Notifiers
             PROVE  OneNotificationInv(n)'
  BY DEF NotificationInv
<1>1. OneNotificationInv(n) /\ n \in Senders /\ Recipient[n] \in Users
  BY ConfigAssumption DEF NotificationInv, Senders
<1>2. CASE SenderStep(n)
  BY <1>1, <1>2, NotifierStep
<1>3. CASE \E c \in Conns : Confirmed(c) \/ Flushed(c)
  BY <1>1, <1>3, ConfirmedKeeps, FlushedKeeps
<1>4. ASSUME ~SenderStep(n), \A c \in Conns : ~Confirmed(c) /\ ~Flushed(c)
      PROVE  OneNotificationInv(n)'
  <2>1. LoopKept(n) /\ \A c \in Conns : delivered'[c][n] = delivered[c][n]
    BY <1>1, <1>4, LoopsOfOthers DEF NotSentTo
  <2>2. /\ \A u \in Users : n \in Range(queues'[u]) => n \in Range(queues[u])
        /\ \A u \in Users :
             n \in Range(queues[u]) => n \in Range(queues'[u]) \/ n \in evicted'
        /\ evicted \subseteq evicted'
    BY <1>4, QueuedElsewhere
  <2>3. \A c \in Conns : queued_messages'[c] = queued_messages[c]
    BY <1>4, TakenByConfirmed
  <2>4. \A c \in Conns : pc'[c] = "flushing" <=> pc[c] = "flushing"
    BY <1>4, FlushingStep
  <2>5. Closed \subseteq Closed'
    BY ClosedStays
  <2>6. RunningInv(n)'
    BY <1>1, <2>1, <2>2, <2>3
       DEF OneNotificationInv, RunningInv, NotQueued, Unheard, LoopKept
  <2>7. HeldInv(n)'
    BY <1>1, <2>1, <2>2, <2>3, <2>4 DEF OneNotificationInv, HeldInv, Unheard
  <2>8. leg'[n] > 1 => Accounted(n)'
    BY <1>1, <2>1, <2>2, <2>3, <2>4, <2>5 DEF OneNotificationInv, Accounted, LoopKept
  <2>9. QED
    BY <2>6, <2>7, <2>8 DEF OneNotificationInv
<1>5. QED
  BY <1>2, <1>3, <1>4

\* Initially there is no notification anywhere.
LEMMA NotificationInit == Init => PendingInv /\ NotificationInv
<1> SUFFICES ASSUME Init
             PROVE  PendingInv /\ NotificationInv
  OBVIOUS
<1>1. PendingInv
  BY DEF Init, PendingInv
<1>2. ASSUME NEW n \in Notifiers
      PROVE  OneNotificationInv(n)
  <2>1. /\ leg[n] = 0 /\ sending[n] = NoConn /\ connection_ids[n] = {}
        /\ successful_sends[n] = 0 /\ \A c \in Conns : delivered[c][n] = 0
    BY DEF Init, Senders, Loops
  <2>2. NotQueued(n)
    BY DEF Init, NotQueued, Range
  <2>3. QED
    BY <2>1, <2>2 DEF OneNotificationInv, RunningInv, HeldInv, NotQueued, Unheard
<1>3. QED
  BY <1>1, <1>2 DEF NotificationInv

\* The two invariants that the theorems about notifications need.
LEMMA NotificationsKept == Spec => [](PendingInv /\ NotificationInv)
<1>1. TypeOK /\ TypeOK' /\ (PendingInv /\ NotificationInv) /\ [Next]_vars =>
        (PendingInv /\ NotificationInv)'
  BY PendingStep, NotificationStep
<1>2. QED
  BY <1>1, NotificationInit, TypeCorrect, PTL DEF Spec

\* Whatever connects, sends and failures interleave, a notification reaches a
\* connection at most once, directly or through the queue, and a queued one that
\* two connections of its user could take is taken by one (notify_user, connect).
THEOREM NotificationsReachOnce == Spec => []NotifiedOnce
<1>1. NotificationInv => NotifiedOnce
  <2> SUFFICES ASSUME NotificationInv, NEW n \in Notifiers, NEW c \in Conns
               PROVE  /\ delivered[c][n] <= 1
                      /\ n \in Range(queues[Recipient[n]]) => delivered[c][n] = 0
                      /\ n \in Range(queued_messages[c]) =>
                           \A d \in Conns \ {c} :
                             delivered[d][n] = 0 /\ n \notin Range(queued_messages[d])
    BY DEF NotifiedOnce
  <2>1. HeldInv(n) /\ Recipient[n] \in Users
    BY ConfigAssumption DEF NotificationInv, OneNotificationInv
  <2>2. QED
    BY <2>1 DEF HeldInv, Unheard
<1>2. QED
  BY <1>1, NotificationsKept, PTL

\* A notification whose call has returned was delivered, is queued, was pushed
\* out by newer ones, or is with a connect whose flush is on its way or whose
\* client has left; there is no other way to lose it (notify_user, MessageQueue).
THEOREM NotificationsAccountedFor == Spec => []NotificationAccountedFor
<1>1. NotificationInv => NotificationAccountedFor
  BY DEF NotificationInv, OneNotificationInv, NotificationAccountedFor, Accounted
<1>2. QED
  BY <1>1, NotificationsKept, PTL
=============================================================================
