--------------------------- MODULE MCWsConnections ---------------------------
(***************************************************************************)
(* Small instances of WsConnections.  One user has both connections, or    *)
(* one connection is anonymous; every broadcast has at most two audiences. *)
(***************************************************************************)
EXTENDS WsConnections, TLC

CONSTANTS c1, c2, u1, t1, n1, n2, n3, b1

\* Both connections belong to the only user.
OneUser == [c \in Conns |-> u1]

\* The first connection has no token.
OneAnonymous == [c \in Conns |-> IF c = c1 THEN NoUser ELSE u1]

OnFirstTopic == [c \in Conns |-> {t1}]

ForTheUser == [n \in Notifiers |-> u1]

\* A REST broadcast to everyone; a JobDelayed event, which goes to subscribers
\* of topics and then to all users.
ToEveryone == [b \in Broadcasters |-> <<"everyone">>]
TopicThenUsers == [b \in Broadcasters |-> <<t1, "authenticated">>]

\* What the clients send: nothing; or the second pings and changes its topics,
\* and the first sends frames that are only answered, until one is malformed.
Silent == [c \in Conns |-> {}]
OneMalformed ==
  [c \in Conns |-> IF c = c1 THEN {"other", "malformed"}
                            ELSE {"ping", "subscribe", "unsubscribe"}]

\* Notifications for one user are alike, and so are that user's connections.
Alike == Permutations(Notifiers) \cup Permutations(Conns)
=============================================================================
