SPECIFICATION FairSpec
CONSTANTS
    Boot = Boot
    Dpc = Dpc
    None = None
    t1 = t1
    t2 = t2
    t3 = t3
    auto = auto
    manual = manual
    dpcEvent = dpcEvent
    mutex = mutex
    Apps = {t1, t2}
    InitialApps = {t1}
    AppPriority <- PrioritiesOf2
    HighestPriority = 3
    Events = {dpcEvent}
    Mutexes = {}
    DpcEvent = dpcEvent
    AutoEvents = {}
    IrqEvents = {}
    Calls = {"thread_create", "thread_resume", "thread_exit", "thread_sleep", "thread_yield"}
    CountBound = 3
INVARIANTS QueuesAgree
PROPERTIES DeadAreReaped SleepersWake
