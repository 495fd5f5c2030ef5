\* Tasks that are answered and a task that was sent leave nothing to do.
CHECK_DEADLOCK FALSE
SPECIFICATION MCSpec
CONSTANTS
  Tasks = {t1, t2}
  Messages <- MCMessages
  Me = "me"
  MaxTracked = 1
  MaxSessions = 2
  Withheld = {"plain"}
  Admitted = {"human"}
  NoDid = NoDid
  NoBinding = NoBinding
  Malformed = Malformed
  NoUrl = NoUrl
  Procs <- MCProcs
  Name <- MCName
  Did <- MCDid
  Url <- MCUrl
  Announces = {"r"}
  Strict = {"s"}
  Published = {"p", "q"}
  Requests <- MCRequests
  Policies <- MCPolicies
  MaxAttempts = 2
  MaxRetries = 1
  SlimFallback = TRUE
INVARIANTS
  SessionsArePrivate
  KillReachesTracked
  DeliveredToTheNamed
PROPERTIES
  TasksEnd
  EveryDispatchEnds
