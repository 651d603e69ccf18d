SPECIFICATION FairSpec
CONSTANTS
    a1 = a1
    a2 = a2
    Accounts <- MCAccounts
    KeptLocal <- MCKeptLocal
    Every <- MCEvery
    FetchRetries = 1
    DiffBatch = 1
    MailBatch = 1
    MaxRaw = 1
    MaxEvents = 2
PROPERTY EveryRoundEnds
