SPECIFICATION Spec
CONSTANTS
    Controls = {}
    Drives = {}
    Devices = {"con"}
    SkipDirs = {"build"}
    Binary <- MCBinary
    MaxRead = 8
    Numbers <- MCNumbers
    Tree <- MCTree
    UserJobs <- MCUserJobs
    AgentJobs <- MCAgentJobs
    PlanPath <- MCPlan
    TodosPath <- MCTodos
    LogPath <- MCLog
    MaxJobs = 2
    MaxStops = 1
INVARIANTS OutsideUntouched  PanelShowsThePlan
PROPERTIES ImplementsAtomicFiles
CHECK_DEADLOCK FALSE
