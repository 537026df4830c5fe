SPECIFICATION Spec
CONSTANTS
  Bases = {"", "index", "a", "b", "old"}
  Dirs <- MCDirs
  MaxPacks = 2
  Requests = {r1, r2}
  Hosts = {"ad", "ip", "site"}
  Paths <- MCPaths
  Redirect <- MCRedirect
  Proxies = {"DIRECT", "far"}
  Configs <- MCConfigs
  EtcHosts <- MCEtcHosts
  Disabled = {"off"}
  Nil = "nil"
INVARIANTS
  OpenedIsWhole
  
  
  BlockedStays
  BlockedIsRuled
SYMMETRY Symmetry
CHECK_DEADLOCK FALSE
