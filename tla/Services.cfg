CONSTANTS
    PirDebounce = 2
    PirMinActive = 3
    PirWarmup = 2
    PirErrorLimit = 2
    PirReopen = 3
    PirLate = 2
    SupCheck = 3
    SupPing = 12
    SupRestartAfter = 18
    SupMinGap = 24
    SupProbe = 2
    SupRestart = 6
    SupWatchdog = 24
    LimClient = {c1, c2}
    LimLimit = 2
    LimWindow = 3
    LimTable = 1
    LimThreads = 2
    FilWriter = {w1, w2}
    FilMaxVersion = 4
    NetCheck = 4
    NetInitial = 1
    NetMaximum = 8
    NetProbe = 2
    NetInterval = 5
    NetScan = 2
    RetSweep = {s1, s2}
    RetLast = 3
    RetSizes = {1}
    RetAged = 1
    RetLimit = 1
    RetBuffer = 0
    ClipDelays <- MCClipDelays
    ClipLongest = 5
    ClipRetain = 29
    ClipSlack = 24
    ClipMargin = 12
    ClipInterval = 12
    ClipCall = 2
    ClipQueue = 2
    HeaThread = monitor
    HeaCaller = {request}
    HeaAsked <- MCHealthAsked
    HeaReadings <- MCHealthReadings
    TreeEvent = {e1, e2}
    TreeWriter = {w1, w2}
    TreeDeleter = {d1}
    CoolThreads = {t1, t2, t3}
    CoolTime = 3
SPECIFICATION ServicesSpec
INVARIANTS
    ServicesTypeOK
    PirSteadyLineIsBelieved
    SupWatchdogFed
    FilConfirmedSurvives
    NetChangeIsNoticed
    NetReturnIsNotSleptOn
    RetSweepSuffices
    
    TreeRecordsSurvive
PROPERTIES
    PirEdgesAreDebounced
    SupRestartIsEarned
    SupStalledIsRestarted
    RetDeletionIsDue
    ClipGivenUpLate
    HeaCatchesUp
    
    LimAnswersAsIdeal
