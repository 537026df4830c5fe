CONSTANTS
  n1 = n1
  n2 = n2
  n3 = n3
  Names = {"a", "b", "c", "api", "site"}
  Refused = {"a_0"}
  Nodes <- MCNodes
  Proxies <- MCProxies
  Exist = Exist
  Routed <- MCRouted
  LocalServers <- MCLocalServers
  Wishes <- MCWishes
  OtherHosts <- MCOtherHosts
  Ports = {"80", "443", "8080"}
  NoPort = NoPort
SPECIFICATION Spec
PROPERTIES
  RequestEnds
CHECK_DEADLOCK FALSE
INVARIANTS
  RouteFollowed
  HostAtEnd
