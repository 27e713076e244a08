CONSTANTS
    p1 = p1  p2 = p2  p3 = p3
    NPools = 1
    Pids <- TwoPids
    pm <- Dynamic
    pm_max_children <- Two
    pm_start_servers <- One
    pm_min_spare_servers <- One
    pm_max_spare_servers <- One
    process_max = 0
    EmergencyRestart = FALSE
    RequestTerminate = FALSE
    MaxRequests = FALSE
    MaxConn = 0
    MaxFault = 1
    MaxForkFail = 0
    MaxAdmin = 1
SPECIFICATION ServingSpec
PROPERTY GracefulCompletes
CHECK_DEADLOCK FALSE
