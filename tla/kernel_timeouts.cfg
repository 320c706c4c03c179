SPECIFICATION Spec
CONSTANTS
    Boot = Boot
    Dpc = Dpc
    None = None
    t1 = t1
    t2 = t2
    t3 = t3
    auto = auto
    manual = manual
    dpcEvent = dpcEvent
    mutex = mutex
    Apps = {t1, t2}
    InitialApps = {t1, t2}
    AppPriority <- PrioritiesOf2
    HighestPriority = 3
    Events = {dpcEvent, auto, manual}
    Mutexes = {mutex}
    DpcEvent = dpcEvent
    AutoEvents = {auto}
    IrqEvents = {auto}
    Calls = {"thread_yield", "event_wait", "event_wait_timeout", "event_signal", "event_unsignal", "mutex_acquire", "mutex_acquire_timeout", "mutex_release", "destroy"}
    CountBound = 3
INVARIANTS QueuesAgree NoSignalMissed MutexCountsContenders
PROPERTIES HolderKeepsMutex
