SPECIFICATION Spec
CONSTANTS
    NWheels = 2
    Clients = {"httpd"}
    Commands = {"balance on", "balance off"}
    MaxCommands = 2
    Starts = {"exp motors"}
INVARIANT BalancerLetsGo
CHECK_DEADLOCK FALSE
