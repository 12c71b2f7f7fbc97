SPECIFICATION Spec
CONSTANTS
  u1 = u1
  u2 = u2
  u3 = u3
  h1 = h1
  h2 = h2
  a = a
  Nobody = Nobody
  Uows = {u1, u2}
  MaxEvents = 3
  OneShot = {h2}
  MaxHistory = 2
  Types = {a}
  TypeOf <- OneType
  Handlers = {h1, h2}
  Subscribers <- OneShotFirst
SYMMETRY Alike
CHECK_DEADLOCK FALSE
INVARIANTS OnlyCommittedHandled HandledOnce NoEventForgotten UnitOrderKept EveryHandlerNotified
PROPERTIES ImplementsEventDelivery
