CONSTANTS
    p1 = p1  p2 = p2  p3 = p3
    NPools = 1
    Pids <- TwoPids
    pm <- Dynamic
    pm_max_children <- Two
    pm_start_servers <- One
    pm_min_spare_servers <- One
    pm_max_spare_servers <- One
    process_max = 0
    EmergencyRestart = TRUE
    RequestTerminate = TRUE
    MaxRequests = TRUE
    MaxConn = 1
    MaxFault = 1
    MaxForkFail = 1
    MaxAdmin = 1
SPECIFICATION Spec
SYMMETRY Symmetry
INVARIANTS SlotsOwned NoUnknownChild
PROPERTY Supervises
CHECK_DEADLOCK FALSE
