SPECIFICATION FairSpec
CONSTANTS
    NWheels = 1
    Clients = {"httpd", "button"}
    Commands = {"est off", "ctrl off", "speedseq", "motor", "stop", "motorseq",
                "deadband", "button", "control stop", "control start"}
    MaxCommands = 2
    Starts = {"exp motors", "exp balance"}
INVARIANTS TypeOK CutKeepsClean
PROPERTIES FallenIsParked BalanceTakesOver OpenLoopObeys
CHECK_DEADLOCK FALSE
