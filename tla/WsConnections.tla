---------------------------- MODULE WsConnections ----------------------------
(***************************************************************************)
(* The WebSocket connection manager of backend/app/api/websockets.py: the  *)
(* registry of live connections (WebSocketConnectionManager), the endpoint *)
(* coroutine of each connection, the queue of notifications of users who   *)
(* are away (MessageQueue), the broadcasts started by domain events and by *)
(* the REST routes, and the periodic health check.                         *)
(*                                                                         *)
(* All of it runs on one asyncio event loop: a coroutine is interrupted    *)
(* only at an await that really waits, so an action of this module is what *)
(* one coroutine does from such an await to the next.  The awaits that     *)
(* wait are accept, receive_text and send_text; pc (of an endpoint) and    *)
(* sending (of a broadcast loop) say which one a coroutine is in.          *)
(*                                                                         *)
(* A connection id is a path and a timestamp, so an element of Conns is    *)
(* one connection attempt and is never used twice.                         *)
(***************************************************************************)
EXTENDS Naturals, Sequences, Functions

CONSTANTS
  Conns,          \* connection ids
  Users,          \* ids of the users that can authenticate
  NoUser,         \* what authenticate_websocket returns without a valid token
  Topics,         \* topic names
  UserOf,         \* the user each connection authenticates as, or NoUser
  InitialTopics,  \* the topics the endpoint of a connection subscribes it to
  Dashboards,     \* the connections to /dashboard, which need a user
  Notifiers,      \* notify_user calls; each is also its message
  Recipient,      \* the user a notification is for
  Broadcasters,   \* _handle_async and broadcast_message calls, and their message
  Audiences,      \* the audiences a broadcaster sends to, in order
  Health,         \* the _periodic_health_check task
  NoConn,         \* no send in progress
  NoInfo,         \* no ConnectionInfo under this id
  MaxQueue,       \* max_size of the message queue (1000 in the code)
  Frames          \* the kinds of frame the client of each connection sends

Senders == Notifiers \cup Broadcasters
Loops == Senders \cup {Health}

ASSUME ConfigAssumption ==
  /\ NoUser \notin Users /\ NoConn \notin Conns
  /\ UserOf \in [Conns -> Users \cup {NoUser}]
  /\ InitialTopics \in [Conns -> SUBSET Topics]
  /\ Dashboards \subseteq Conns
  /\ Notifiers \cap Broadcasters = {} /\ Health \notin Senders
  /\ Recipient \in [Notifiers -> Users]
  /\ Audiences \in [Broadcasters -> Seq(Topics \cup {"everyone", "authenticated"})]
  /\ Topics \cap {"everyone", "authenticated"} = {}
  /\ MaxQueue \in Nat \ {0}
  /\ Frames \in [Conns -> SUBSET {"ping", "subscribe", "unsubscribe", "other", "malformed"}]
  /\ NoInfo \notin [user : Users \cup {NoUser}, topics : SUBSET Topics]

VARIABLES
  active_connections,   \* ids with a WebSocket object
  connection_info,      \* user and topics of a connection, or NoInfo
  topic_subscriptions,  \* the ids subscribed to each topic
  user_connections,     \* the ids of each user
  last_ping,            \* "none", or is the last ping under two minutes old?
  queues,               \* queued notifications of each user
  evicted,              \* notifications a full queue dropped (history)
  socket,               \* "open", "closed" for good, "broken": a send raised
  pc,                   \* where the endpoint coroutine of a connection waits
  queued_messages,      \* what connect took from the queue; kept as history
  leg,                  \* the audience a loop is sending to; 0 before the first
  connection_ids,       \* the copy of the ids a loop iterates over
  visited,              \* the ids the loop has started to send to
  sending,              \* the id whose send_text the loop awaits, or NoConn
  successful_sends,     \* sends of the current broadcast that succeeded
  stale_connections,    \* ids the health check found without a recent ping
  delivered             \* copies of each message each client got (history)

registry == <<active_connections, connection_info, topic_subscriptions,
              user_connections, last_ping>>
mailbox  == <<queues, evicted, queued_messages>>
endpoint == <<socket, pc>>
loops    == <<leg, connection_ids, visited, sending, successful_sends,
              stale_connections>>
vars     == <<registry, mailbox, endpoint, loops, delivered>>

Closed == {c \in Conns : socket[c] # "open"}

(***************************************************************************)
(* A definition with _Bug in its name is a plausible slip of the one that  *)
(* follows it, and no action uses it: the properties must tell the two     *)
(* apart.                                                                  *)
(***************************************************************************)
-----------------------------------------------------------------------------
(* The manager's synchronous operations *)

\* The live connections of each user, once those in S are forgotten.
\* Bug: the map of the users is not cleaned.
UserMapWithout_Bug(S) == user_connections
UserMapWithout(S) ==
  [u \in Users |-> user_connections[u] \
     {c \in S : connection_info[c] # NoInfo /\ connection_info[c].user = u}]

\* disconnect(c) for every c in S; nothing happens when S is empty.
Disconnect(S) ==
  /\ active_connections' = active_connections \ S
  /\ connection_info' =
       [c \in Conns |-> IF c \in S THEN NoInfo ELSE connection_info[c]]
  /\ topic_subscriptions' = [t \in Topics |-> topic_subscriptions[t] \ S]
  /\ user_connections' = UserMapWithout(S)
  /\ last_ping' = [c \in Conns |-> IF c \in S THEN "none" ELSE last_ping[c]]

\* A message appended to a deque of bounded length pushes the oldest one out.
\* Bugs: no bound; a deque extended at its left, which drops the newest.
Enqueue_BugUnbounded(q, m) == Append(q, m)
Enqueue(q, m) == Append(IF Len(q) = MaxQueue THEN Tail(q) ELSE q, m)

\* get_messages: what is left in a queue after its messages were taken.
\* Bug: the messages are read and not cleared.
AfterGet_Bug(q) == q
AfterGet(q) == <<>>

\* The ids that the end of a send to c disconnects: send_text raises when the
\* peer is gone, and send_personal_message then forgets the connection.
\* Bugs: a failed send is only logged; every send disconnects.
DroppedBySend_BugKept(c) == {}
DroppedBySend_BugAlways(c) == {c} \cap Conns
DroppedBySend(c) == {c} \cap Closed

\* Starlette marks a socket whose send raised as disconnected.
SocketsAfterSend(c) ==
  [d \in Conns |-> IF d \in DroppedBySend(c) THEN "broken" ELSE socket[d]]

\* The send_text awaited by a send to c ends.
SendEnds(c) ==
  /\ Disconnect(DroppedBySend(c))
  /\ socket' = SocketsAfterSend(c)

-----------------------------------------------------------------------------
(* The environment *)

\* The peer goes away, or the network does.
PeerLeaves(c) ==
  /\ socket[c] = "open"
  /\ socket' = [socket EXCEPT ![c] = "closed"]
  /\ UNCHANGED <<registry, mailbox, pc, loops, delivered>>

\* Two minutes pass without another ping.
PingAges(c) ==
  /\ last_ping[c] = "fresh"
  /\ last_ping' = [last_ping EXCEPT ![c] = "old"]
  /\ UNCHANGED <<active_connections, connection_info, topic_subscriptions,
                 user_connections, mailbox, endpoint, loops, delivered>>

-----------------------------------------------------------------------------
(* The endpoint coroutine of a connection *)

Goto(c, label) == pc' = [pc EXCEPT ![c] = label]

\* Call receive_text, which raises RuntimeError on a broken socket: the endpoint
\* then ends without a disconnect.
Receive(c) == Goto(c, IF socket'[c] = "broken" THEN "failed" ELSE "serving")

\* accept returns: connect registers the connection and sends its confirmation.
Connect(c) ==
  /\ pc[c] = "new" /\ socket[c] = "open"
  /\ c \in Dashboards => UserOf[c] # NoUser
  /\ active_connections' = active_connections \cup {c}
  /\ connection_info' = [connection_info EXCEPT
       ![c] = [user |-> UserOf[c], topics |-> InitialTopics[c]]]
  /\ user_connections' = [u \in Users |->
       user_connections[u] \cup (IF u = UserOf[c] THEN {c} ELSE {})]
  /\ topic_subscriptions' = [t \in Topics |->
       topic_subscriptions[t] \cup (IF t \in InitialTopics[c] THEN {c} ELSE {})]
  /\ Goto(c, "confirming")
  /\ UNCHANGED <<last_ping, mailbox, socket, loops, delivered>>

\* A dashboard without a user is closed, and accept raises on a closed socket.
Refuse(c) ==
  /\ pc[c] = "new"
  /\ socket[c] = "closed" \/ (c \in Dashboards /\ UserOf[c] = NoUser)
  /\ Goto(c, "done")
  /\ socket' = [socket EXCEPT ![c] = "closed"]
  /\ UNCHANGED <<registry, mailbox, loops, delivered>>

\* The confirmation was sent or has failed, which connect does not look at; it
\* takes the queued messages of the user and starts to send them as one batch.
Confirmed(c) ==
  LET u == UserOf[c]
      batch == IF u = NoUser THEN <<>> ELSE queues[u]
  IN /\ pc[c] = "confirming"
     /\ SendEnds(c)
     /\ queues' = [v \in Users |-> IF v = u THEN AfterGet(queues[v]) ELSE queues[v]]
     /\ queued_messages' = [queued_messages EXCEPT ![c] = batch]
     /\ IF batch # <<>> /\ c \in active_connections' THEN Goto(c, "flushing")
                                                     ELSE Receive(c)
     /\ UNCHANGED <<evicted, loops, delivered>>

\* The batch of queued messages was sent, or its send has failed.
Flushed(c) ==
  /\ pc[c] = "flushing"
  /\ SendEnds(c)
  /\ delivered' = [delivered EXCEPT ![c] = [m \in Senders |->
       delivered[c][m] + (IF c \notin Closed /\ m \in Range(queued_messages[c])
                          THEN 1 ELSE 0)]]
  /\ Receive(c)
  /\ UNCHANGED <<mailbox, loops>>

\* send_personal_message with a reply: it returns at once for an unknown id.
Reply(c) ==
  /\ UNCHANGED socket
  /\ IF c \in active_connections THEN Goto(c, "replying") ELSE Receive(c)

\* A frame of a kind the clients send is read; the last one to arrive before the
\* peer left may be read after another coroutine's send has failed.
Reads(c, kind) == pc[c] = "serving" /\ kind \in Frames[c]

Ping(c) ==
  /\ Reads(c, "ping")
  /\ last_ping' = [last_ping EXCEPT ![c] = "fresh"]
  /\ Reply(c)
  /\ UNCHANGED <<active_connections, connection_info, topic_subscriptions,
                 user_connections, mailbox, loops, delivered>>

\* Every exception but WebSocketDisconnect leaves the endpoint without a
\* disconnect, and the server then closes the socket.
EndpointFails(c) ==
  /\ Goto(c, "failed")
  /\ socket' = [socket EXCEPT ![c] = IF @ = "open" THEN "closed" ELSE @]

\* Building the reply to a subscription looks the connection up, and raises
\* KeyError after the manager has forgotten it.
ReplyWithTopics(c) ==
  IF connection_info[c] # NoInfo THEN Reply(c) ELSE EndpointFails(c)

Subscribe(c, T) ==
  /\ Reads(c, "subscribe")
  /\ topic_subscriptions' = [t \in Topics |->
       topic_subscriptions[t] \cup (IF t \in T THEN {c} ELSE {})]
  /\ connection_info' = IF connection_info[c] = NoInfo THEN connection_info
                        ELSE [connection_info EXCEPT ![c].topics = @ \cup T]
  /\ ReplyWithTopics(c)
  /\ UNCHANGED <<active_connections, user_connections, last_ping, mailbox,
                 loops, delivered>>

Unsubscribe(c, T) ==
  /\ Reads(c, "unsubscribe")
  /\ topic_subscriptions' = [t \in Topics |->
       topic_subscriptions[t] \ (IF t \in T THEN {c} ELSE {})]
  /\ connection_info' = IF connection_info[c] = NoInfo THEN connection_info
                        ELSE [connection_info EXCEPT ![c].topics = @ \ T]
  /\ ReplyWithTopics(c)
  /\ UNCHANGED <<active_connections, user_connections, last_ping, mailbox,
                 loops, delivered>>

\* Statistics, metrics, an unknown type, text that is not JSON, or any frame
\* above the rate limit: the frame is only answered.
OtherFrame(c) ==
  /\ Reads(c, "other")
  /\ Reply(c)
  /\ UNCHANGED <<registry, mailbox, loops, delivered>>

\* A frame that is not text, or JSON that is not an object.
MalformedFrame(c) ==
  /\ Reads(c, "malformed")
  /\ EndpointFails(c)
  /\ UNCHANGED <<registry, mailbox, loops, delivered>>

Replied(c) ==
  /\ pc[c] = "replying"
  /\ SendEnds(c)
  /\ Receive(c)
  /\ UNCHANGED <<mailbox, loops, delivered>>

\* receive_text raises WebSocketDisconnect: the only path to disconnect.
Hangup(c) ==
  /\ pc[c] = "serving" /\ c \in Closed
  /\ Disconnect({c})
  /\ Goto(c, "done")
  /\ UNCHANGED <<mailbox, socket, loops, delivered>>

-----------------------------------------------------------------------------
(* The loops that send to several connections *)

\* The registered ids, once the send in flight of loop x has ended.
StillActive(x) == active_connections \ DroppedBySend(sending[x])

\* The ids loop x has still to send to; sending to an unknown id does nothing.
\* Bugs: ids are sent to again; one failed send ends the loop.
Unvisited_BugAborts(x) ==
  IF DroppedBySend(sending[x]) # {} THEN {}
  ELSE (connection_ids[x] \ visited[x]) \cap StillActive(x)
Unvisited(x) == (connection_ids[x] \ visited[x]) \cap StillActive(x)

Legs(x) == IF x \in Notifiers THEN 1 ELSE Len(Audiences[x])

\* Who the j-th audience of sender x is now.  Only registered ids matter.
Audience(x, j) == StillActive(x) \cap
  IF x \in Notifiers THEN user_connections[Recipient[x]]
  ELSE IF Audiences[x][j] = "everyone" THEN Conns
  ELSE IF Audiences[x][j] = "authenticated" THEN {c \in Conns : UserOf[c] # NoUser}
  ELSE topic_subscriptions[Audiences[x][j]]

\* The audiences of x from its next one up to the j-th have nobody in them.
\* Bug: off by one, the current audience is looked at again.
NobodyUpTo(x, j) == \A k \in leg[x] + 1 .. j : Audience(x, k) = {}

Succeeded(x) == sending[x] \in Conns \ Closed

SendTo(x, c) ==
  /\ sending' = [sending EXCEPT ![x] = c]
  /\ visited' = [visited EXCEPT ![x] = @ \cup {c}]

\* The send in flight of sender x, if any, has ended.
SenderResumes(x) ==
  /\ leg[x] <= Legs(x)
  /\ SendEnds(sending[x])
  /\ delivered' = IF Succeeded(x) THEN [delivered EXCEPT ![sending[x]][x] = @ + 1]
                                  ELSE delivered
  /\ successful_sends' =
       [successful_sends EXCEPT ![x] = @ + (IF Succeeded(x) THEN 1 ELSE 0)]

\* Go on to another id of the same audience.
SendNext(x) ==
  /\ SenderResumes(x)
  /\ \E c \in Unvisited(x) : SendTo(x, c)
  /\ UNCHANGED <<mailbox, pc, leg, connection_ids, stale_connections>>

\* Copy the ids of the next audience and start to send to one of them.
SendToAudience(x) ==
  /\ SenderResumes(x)
  /\ Unvisited(x) = {}
  /\ \E j \in leg[x] + 1 .. Legs(x) :
       /\ NobodyUpTo(x, j - 1)
       /\ leg' = [leg EXCEPT ![x] = j]
       /\ connection_ids' = [connection_ids EXCEPT ![x] = Audience(x, j)]
       /\ \E c \in Audience(x, j) :
            /\ sending' = [sending EXCEPT ![x] = c]
            /\ visited' = [visited EXCEPT ![x] = {c}]
  /\ UNCHANGED <<mailbox, pc, stale_connections>>

\* Nobody is left; a notification that reached nobody is queued for its user.
\* Bug: it is queued only if there was no connection to try.
MustQueue_Bug(x) == x \in Notifiers /\ connection_ids[x] = {}
MustQueue(x) == x \in Notifiers /\ successful_sends'[x] = 0

SendingDone(x) ==
  /\ SenderResumes(x)
  /\ Unvisited(x) = {} /\ NobodyUpTo(x, Legs(x))
  /\ leg' = [leg EXCEPT ![x] = Legs(x) + 1]
  /\ sending' = [sending EXCEPT ![x] = NoConn]
  /\ LET u == Recipient[x]
     IN IF MustQueue(x)
        THEN /\ queues' = [queues EXCEPT ![u] = Enqueue(@, x)]
             /\ evicted' = evicted \cup (Range(queues[u]) \ Range(queues'[u]))
        ELSE UNCHANGED <<queues, evicted>>
  /\ UNCHANGED <<queued_messages, pc, connection_ids, visited,
                 stale_connections>>

\* The health check notes who is stale, then pings every connection in turn.
Stale(c) == last_ping[c] = "old"

HealthWakes ==
  /\ leg[Health] = 0 /\ active_connections # {}
  /\ leg' = [leg EXCEPT ![Health] = 1]
  /\ stale_connections' = {c \in Conns : Stale(c)}
  /\ connection_ids' = [connection_ids EXCEPT ![Health] = active_connections]
  /\ \E c \in active_connections : SendTo(Health, c)
  /\ UNCHANGED <<registry, mailbox, endpoint, successful_sends, delivered>>

\* With nobody to ping it disconnects the stale ids without waiting.
HealthFindsNobody ==
  /\ leg[Health] = 0 /\ active_connections = {}
  /\ Disconnect({c \in Conns : Stale(c)})
  /\ UNCHANGED <<mailbox, endpoint, loops, delivered>>

HealthPingsNext ==
  /\ leg[Health] = 1
  /\ SendEnds(sending[Health])
  /\ \E c \in Unvisited(Health) : SendTo(Health, c)
  /\ UNCHANGED <<mailbox, pc, leg, connection_ids, successful_sends,
                 stale_connections, delivered>>

\* The ids found stale before the pings are disconnected after them.
HealthCleansUp ==
  /\ leg[Health] = 1 /\ Unvisited(Health) = {}
  /\ Disconnect(DroppedBySend(sending[Health]) \cup stale_connections)
  /\ socket' = SocketsAfterSend(sending[Health])
  /\ leg' = [leg EXCEPT ![Health] = 0]
  /\ sending' = [sending EXCEPT ![Health] = NoConn]
  /\ connection_ids' = [connection_ids EXCEPT ![Health] = {}]
  /\ visited' = [visited EXCEPT ![Health] = {}]
  /\ stale_connections' = {}
  /\ UNCHANGED <<mailbox, pc, successful_sends, delivered>>

-----------------------------------------------------------------------------
Init ==
  /\ active_connections = {}
  /\ connection_info = [c \in Conns |-> NoInfo]
  /\ topic_subscriptions = [t \in Topics |-> {}]
  /\ user_connections = [u \in Users |-> {}]
  /\ last_ping = [c \in Conns |-> "none"]
  /\ queues = [u \in Users |-> <<>>]
  /\ evicted = {}
  /\ queued_messages = [c \in Conns |-> <<>>]
  /\ socket = [c \in Conns |-> "open"]
  /\ pc = [c \in Conns |-> "new"]
  /\ leg = [x \in Loops |-> 0]
  /\ connection_ids = [x \in Loops |-> {}]
  /\ visited = [x \in Loops |-> {}]
  /\ sending = [x \in Loops |-> NoConn]
  /\ successful_sends = [x \in Senders |-> 0]
  /\ stale_connections = {}
  /\ delivered = [c \in Conns |-> [m \in Senders |-> 0]]

\* What an endpoint does without its client.
EndpointStep(c) ==
  Confirmed(c) \/ Flushed(c) \/ Replied(c) \/ Hangup(c) \/ Refuse(c)

ClientStep(c) ==
  \/ Connect(c) \/ Ping(c) \/ OtherFrame(c) \/ MalformedFrame(c)
  \/ \E T \in SUBSET Topics : Subscribe(c, T) \/ Unsubscribe(c, T)

SenderStep(x) == SendNext(x) \/ SendToAudience(x) \/ SendingDone(x)

HealthStep ==
  HealthWakes \/ HealthFindsNobody \/ HealthPingsNext \/ HealthCleansUp

Next ==
  \/ \E c \in Conns :
       PeerLeaves(c) \/ PingAges(c) \/ ClientStep(c) \/ EndpointStep(c)
  \/ \E x \in Senders : SenderStep(x)
  \/ HealthStep

\* The event loop runs every coroutine whose await has ended, an await of a
\* send ends (the peer reads or is gone), and the health check sleeps 30 s.
Fairness ==
  /\ \A c \in Conns : WF_vars(EndpointStep(c))
  /\ \A x \in Senders : WF_vars(leg[x] > 0 /\ SenderStep(x))
  /\ WF_vars(HealthStep)

Spec == Init /\ [][Next]_vars /\ Fairness
-----------------------------------------------------------------------------
(* Properties *)

RegistryTypeOK ==
  /\ active_connections \subseteq Conns
  /\ connection_info \in
       [Conns -> [user : Users \cup {NoUser}, topics : SUBSET Topics] \cup {NoInfo}]
  /\ topic_subscriptions \in [Topics -> SUBSET Conns]
  /\ user_connections \in [Users -> SUBSET Conns]
  /\ last_ping \in [Conns -> {"none", "fresh", "old"}]

MailboxTypeOK ==
  /\ queues \in [Users -> Seq(Notifiers)]
  /\ \A u \in Users : Len(queues[u]) <= MaxQueue
  /\ evicted \subseteq Notifiers
  /\ queued_messages \in [Conns -> Seq(Notifiers)]

EndpointTypeOK ==
  /\ socket \in [Conns -> {"open", "closed", "broken"}]
  /\ pc \in [Conns -> {"new", "confirming", "flushing", "serving", "replying",
                       "failed", "done"}]

LoopsTypeOK ==
  /\ leg \in [Loops -> Nat]
  /\ connection_ids \in [Loops -> SUBSET Conns]
  /\ visited \in [Loops -> SUBSET Conns]
  /\ sending \in [Loops -> Conns \cup {NoConn}]
  /\ successful_sends \in [Senders -> Nat]
  /\ stale_connections \subseteq Conns
  /\ delivered \in [Conns -> [Senders -> Nat]]

\* Every variable holds what its declaration says, and no queue exceeds its
\* bound.
TypeOK == RegistryTypeOK /\ MailboxTypeOK /\ EndpointTypeOK /\ LoopsTypeOK

\* The four dictionaries of the manager agree whatever sends, failures and
\* disconnects interleave: an id has an info exactly when it is active, the map
\* of a user holds exactly the active connections of that user, and an active
\* connection is in the set of a topic exactly when the topic is in its info
\* (connect, disconnect, subscribe_to_topic and unsubscribe_from_topic each
\* update several of them).
RegistryConsistent ==
  /\ \A c \in Conns : c \in active_connections <=> connection_info[c] # NoInfo
  /\ \A u \in Users : user_connections[u] =
       {c \in active_connections : connection_info[c].user = u}
  /\ \A t \in Topics, c \in active_connections :
       c \in topic_subscriptions[t] <=> t \in connection_info[c].topics

\* A client that is still there loses its registration only to the health
\* check, and only when its ping was old at the start of the round: no send of
\* another coroutine and no other client's frame removes it.
OpenConnectionKept ==
  [][\A c \in active_connections \ active_connections' :
       c \in Closed \/ c \in stale_connections]_vars

\* A notification reaches a connection at most once, and either directly or
\* through the queue: one still queued or taken by a connect was delivered to
\* nobody else, so two connections opened at once never share a queued message.
NotifiedOnce ==
  \A n \in Notifiers, c \in Conns :
    /\ delivered[c][n] <= 1
    /\ n \in Range(queues[Recipient[n]]) => delivered[c][n] = 0
    /\ n \in Range(queued_messages[c]) =>
         \A d \in Conns \ {c} :
           delivered[d][n] = 0 /\ n \notin Range(queued_messages[d])

\* A notification whose call has returned is not forgotten while it can still
\* be delivered: it was delivered, is queued, was pushed out of a full queue, is
\* being sent by a connect, or was taken by a connect whose client left.
NotificationAccountedFor ==
  \A n \in Notifiers : leg[n] > 1 =>
    \/ \E c \in Conns : delivered[c][n] > 0
    \/ n \in Range(queues[Recipient[n]])
    \/ n \in evicted
    \/ \E c \in Conns : /\ n \in Range(queued_messages[c])
                        /\ pc[c] = "flushing" \/ c \in Closed

\* A broadcast reaches, before it turns to its next audience or ends, every
\* connection of the copied set that is still registered, although sends to
\* others fail and connections come and go while it waits.
BroadcastReachesAll ==
  [][\A b \in Broadcasters : leg'[b] # leg[b] =>
       \A c \in connection_ids[b] \cap active_connections' :
         delivered'[c][b] > 0]_vars

\* A connection whose peer is gone is forgotten in the end, even if its endpoint
\* died of an exception that skips disconnect: the health check's ping fails.
DeadConnectionForgotten ==
  \A c \in Conns : (c \in Closed) ~> (c \notin active_connections)

-----------------------------------------------------------------------------
(* What the comments of the code say and the code does not do *)

\* "Message will be queued if user is offline" (notify_user), in a queue "for
\* storing messages when clients are offline or disconnected" (MessageQueue): a
\* notification that has reached nobody stays queued.
NotificationNotLost ==
  \A n \in Notifiers : leg[n] > 1 /\ n \notin evicted =>
    \/ \E c \in Conns : delivered[c][n] > 0 \/ pc[c] = "flushing"
    \/ n \in Range(queues[Recipient[n]])
=============================================================================
