CONSTANTS
    p1 = p1  p2 = p2  p3 = p3
    NPools = 2
    Pids <- ThreePids
    pm <- DynamicOndemand
    pm_max_children <- TwoOne
    pm_start_servers <- OneZero
    pm_min_spare_servers <- OneZero
    pm_max_spare_servers <- OneZero
    process_max = 2
    EmergencyRestart = FALSE
    RequestTerminate = TRUE
    MaxRequests = TRUE
    MaxConn = 1
    MaxFault = 0
    MaxForkFail = 0
    MaxAdmin = 0
SPECIFICATION ServingSpec
INVARIANT Capacity
PROPERTIES SpareConverges ReapCompletes OndemandReaped
CHECK_DEADLOCK FALSE
