CONSTANTS
    m1 = m1
    m2 = m2
    e1 = e1
    Users = {u1}
    Background = {b1}
    Streams = {}
    Threshold = 2
    MaxRetries = 1
    MaxClients = 2
    Messages = {m1, m2}
    Absent = nothing
    Capacity = 1
    CatchUp = 2
    MaxEvents = 1
    KeptDiffs = 3
    Batch = 2
    Hints = 2
    MaxDrafts = 4
    MaxOutages = 1
    Things = {m1, e1}
    KindOf <- SomeKinds
    NumberOf <- SomeNumbers
    Confirms = {c1, c2}
    MaxPlans = 1
    MaxTurns = 1
    MaxCards = 2
    MaxMessages = 2
    Ops = {o1}
    Others = {p1}
    MailFolders = {inbox, work}
    InboxFolder = inbox
    Runs = {r1, r2}
    MaxSends = 2
    Synced = {m1}
    Draft = m2
    Names = {"n"}
    Contents = {1, 2}
    Torn = torn
    Letters <- SomeLetters
    MaxCrashes = 1
    Readers = {r1}
    Ttl = 0
    MaxEntries = 1
    MaxChanges = 2
    Filed = {m1}
    TreePaths <- SomePaths
    TrashPlaces <- SomeTrash
    Nowhere = goneFolder
    MaxRequests = 2
    Uids = {1, 2, 3}
    Local = local
    Events = {e1}
    Ticker = r1
    MaxVersion = 2
    MaxSwitches = 2
    MaxErrors = 1
    Entries = {p1}
    MaxBooks = 1
    MaxEdits = 3
    Todos = {t1, t2}
    Syncs = {r1}
    Changers = {q1}
    MaxTasks = 3
    Memos = {f1}
    Scans = {r1, r2}
    MaxMemos = 3
    Attempts = 2
    MaxCalls = 1
    MaxStops = 0
    People = {p1, p2}
    Me = me
    MaxMails = 2
    MaxStarts = 2
    MaxMigrations = 2
    Own = own
    GivenUids = {1}
    Limit = 1
    MaxResets = 1
    Box <- SomeBox
    Anonymous = {m2}
    Importers = {r1, r2}
SPECIFICATION Spec
INVARIANTS
    TypeOK
    OnlyLostProbesLatch
    OnceUnlessOverlapping
    RightFolderUndisturbed
    TwiceOnlyDisturbed
    DraftsKeepContents
    OwnChangesShown
    FoldersNotMails
    MovesFollow
    MovedNotLost
    CoveredIsShown
    ChangesReachProvider
    OneRunPerIdea
    StatusAsAnswered
    OneSignIn
    
    NoSecondCopy
PROPERTIES
    NothingLost
\* every part has bounded events
CHECK_DEADLOCK FALSE
