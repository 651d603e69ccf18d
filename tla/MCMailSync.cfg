SPECIFICATION FairSpec
CONSTANTS
    m1 = m1
    m2 = m2
    None = None
    Mails <- MCMails
    Accounts <- MCAccounts
    MaxAttempts = 2
INVARIANTS
    TypeOK
    ConfirmedNumbers
    Kept
PROPERTIES
    EverythingShown
    NoGhosts
