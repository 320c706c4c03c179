SPECIFICATION Spec
CONSTANTS
    Boot = Boot
    Dpc = Dpc
    None = None
    t1 = t1
    t2 = t2
    t3 = t3
    auto = auto
    manual = manual
    dpcEvent = dpcEvent
    mutex = mutex
    Apps = {t1, t2, t3}
    InitialApps = {t1, t2, t3}
    AppPriority <- PrioritiesOf3
    HighestPriority = 3
    Events = {dpcEvent, auto}
    Mutexes = {mutex}
    DpcEvent = dpcEvent
    AutoEvents = {auto}
    IrqEvents = {auto}
    Calls = {"thread_yield", "event_wait", "event_signal", "event_signal_noresched", "mutex_acquire", "mutex_release"}
    CountBound = 3
INVARIANTS QueuesAgree SectionsHold MutualExclusion WaitsOnlyForOwned
PROPERTIES SwitchesToHighest
