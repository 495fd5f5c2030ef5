\* The session ends with its process.
CHECK_DEADLOCK FALSE
SPECIFICATION Spec
CONSTANTS
  operator = operator  workload = workload
  p = p  q = q  host = host  HostUrl = HostUrl  agent = agent  token = token
  Clients = {operator, workload}
  Trusted = {operator}
  NoClient = NoClient
  Paths = {p, q}
  Dests = {host, HostUrl}
  Normal <- MCNormal
  Commands = {agent}
  RunCommand = agent
  Launch <- MCLaunch
  LaunchRules <- MCRules
  Patches <- MCPatches
  Secrets = {token}
  MaxRequests = 3
INVARIANTS
  ProxyGuardsTheChild
