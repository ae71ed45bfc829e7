SPECIFICATION ProgramsSpec
CONSTANTS
    I32Max = 2
    MAX_LEN = 2
    Calls <- MCCalls
    Size = 3
    MaxJobs = 4
    MaxTasks = 4
    Threads = 3
    MaxNum = 5
    Values = {1, 2}
    Boxes = {1, 2, 3}
    Places = {a, b}
    Tasks = {"join", "single", "none"}
    Sleeps = {"a", "b", "c", "d"}
    Awaits <- MCAwaits
    NoTask = NoTask
INVARIANTS TypeOK NoLostWakeup RunCompletes LockDiscipline ExactlyOnce DropCompletesJobs Computed PowSound PointsToSelf
PROPERTIES TasksComplete RunReturns DropReturns JobsRun ListIsStack PipelineIsFifo PipelineDrains PowReports
