CONSTANTS
    Null = Null
    NaN = NaN
    Never = 7
    Second = 2
    VarintLimit = 4
    Instants = {3, 4}
    Sessions = {s1}
    Configs <- MCConfigs
    Served <- MCServed
    Authorities <- MCAuthorities
    Paths <- MCPaths
    Clients <- MCClients
    SetupParams <- MCSetupParams
    Requests <- MCRequests
SPECIFICATION Spec
INVARIANTS
    RoutedAsDocumented
    AcceptedCanRun
    AnswersFollowGrants
CHECK_DEADLOCK FALSE
