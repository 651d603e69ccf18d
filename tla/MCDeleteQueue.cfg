SPECIFICATION FairSpec
CONSTANTS
    m1 = m1
    Mails <- MCMails
    Setups <- MCSetups
    MaxAttempts = 2
    MaxRequests = 2
    MaxRestores = 1
    MaxCrashes = 1
INVARIANTS
    TypeOK
    KeepsACopy
    DeletedMeansGone
    Untouched
PROPERTIES
    KeepsThePromiseButForTheFallback
    EveryDeletionEnds
