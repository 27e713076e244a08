CONSTANTS
    p1 = p1  p2 = p2  p3 = p3
    NPools = 1
    Pids <- TwoPids
    pm <- Static
    pm_max_children <- Two
    pm_start_servers <- One
    pm_min_spare_servers <- One
    pm_max_spare_servers <- One
    process_max = 0
    EmergencyRestart = FALSE
    RequestTerminate = FALSE
    MaxRequests = FALSE
    MaxConn = 0
    MaxFault = 0
    MaxForkFail = 0
    MaxAdmin = 2
SPECIFICATION FairSpec
PROPERTY TerminateCompletes
CHECK_DEADLOCK FALSE
