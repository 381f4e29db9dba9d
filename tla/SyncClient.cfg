SPECIFICATION Spec
CONSTANTS
    Ips <- MCIps
    Dns <- MCDns
    Texts <- MCTexts
    Hosts <- MCHosts
    Paths <- MCPaths
    Proxies <- MCProxies
    MaxPools = 2
    ConnsPerIp = 2
    MaxConns = 3
    MaxCalls = 6
INVARIANTS Routed RunComplete
PROPERTIES EveryRunEnds
CHECK_DEADLOCK FALSE
