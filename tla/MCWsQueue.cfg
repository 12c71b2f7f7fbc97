SPECIFICATION Spec
CONSTANTS
  c1 = c1
  c2 = c2
  u1 = u1
  t1 = t1
  n1 = n1
  n2 = n2
  n3 = n3
  b1 = b1
  NoUser = NoUser
  NoConn = NoConn
  NoInfo = NoInfo
  Health = Health
  Conns = {c1, c2}
  Users = {u1}
  Topics = {t1}
  UserOf <- OneUser
  InitialTopics <- OnFirstTopic
  Dashboards = {}
  Notifiers = {n1, n2, n3}
  Recipient <- ForTheUser
  Broadcasters = {}
  Audiences <- ToEveryone
  MaxQueue = 2
  Frames <- Silent
SYMMETRY Alike
INVARIANTS TypeOK NotifiedOnce NotificationAccountedFor
