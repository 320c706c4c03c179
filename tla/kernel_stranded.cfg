SPECIFICATION Spec
CONSTANTS
    Boot = Boot
    Dpc = Dpc
    None = None
    t1 = t1
    t2 = t2
    t3 = t3
    auto = auto
    manual = manual
    dpcEvent = dpcEvent
    mutex = mutex
    Apps = {t1, t2}
    InitialApps = {t1, t2}
    AppPriority <- PrioritiesOf2Ranked
    HighestPriority = 3
    Events = {dpcEvent}
    Mutexes = {mutex}
    DpcEvent = dpcEvent
    AutoEvents = {}
    IrqEvents = {}
    Calls = {"mutex_acquire", "mutex_acquire_timeout", "mutex_release", "thread_sleep"}
    CountBound = 3
INVARIANTS WaitsOnlyForOwned
