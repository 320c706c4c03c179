SPECIFICATION Spec
CONSTANTS
    Boot = Boot
    Dpc = Dpc
    None = None
    t1 = t1
    t2 = t2
    t3 = t3
    auto = auto
    manual = manual
    dpcEvent = dpcEvent
    mutex = mutex
    Apps = {t1, t2}
    InitialApps = {t1, t2}
    AppPriority <- PrioritiesOf2
    HighestPriority = 3
    Events = {dpcEvent, auto}
    Mutexes = {}
    DpcEvent = dpcEvent
    AutoEvents = {auto}
    IrqEvents = {auto}
    Calls = {"event_wait_timeout", "event_signal_noresched"}
    CountBound = 3
INVARIANTS NoAssertFails
