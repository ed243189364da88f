CONSTANTS
    None = None
    pve0 = pve0
    pve1 = pve1
    pve10 = pve10
    fleet = fleet
    lab = lab
    Nodes = {pve0, pve1, pve10}
    Founder = pve0
    Within <- MCWithin
    ClusterNames = {fleet, lab}
    Fleet = fleet
    MaxClusters = 2
    MaxEvents = 3
    MaxJobs = 2
SPECIFICATION Spec
INVARIANTS TypeOK ConvergeTrue PlayTrue
CHECK_DEADLOCK FALSE
