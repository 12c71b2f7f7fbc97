SPECIFICATION Spec
CONSTANTS
  database_credentials = database_credentials
  api_keys = api_keys
  w1 = w1
  w2 = w2
  w3 = w3
  c1 = c1
  None = None
  Types = {database_credentials, api_keys}
  Configured = {database_credentials}
  Database = database_credentials
  Threads = {w1, w2}
  Callers = {c1}
  Interval = 2
  Warning = 1
  MaxHistory = 2
  MaxEngines = 3
  MaxCalls = 3
  MaxTime = 1
INVARIANTS NoStrayThread ActiveEngineKept ReplacedEnginesClosed
PROPERTIES EarlyOnlyWhenCrowdedOut CallsReturn
CHECK_DEADLOCK FALSE
