SPECIFICATION Spec
CONSTANTS
  m1 = m1
  m2 = m2
  scheduled = scheduled
  running = running
  Mutations = {m1, m2}
  Statuses = {scheduled, running}
  Lists <- MCLists
  Detail = Detail
  Gone = Gone
  Idle = Idle
  Asked = Asked
  None = None
  MaxOthers = 1
SYMMETRY Symmetry
INVARIANTS GuessesAreTemporary DetailReadsOwnWrites ListsReadOwnWrites DeletedJobNotServed
CHECK_DEADLOCK FALSE
