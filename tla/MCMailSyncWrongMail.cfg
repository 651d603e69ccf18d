SPECIFICATION Spec
CONSTANTS
    m1 = m1
    m2 = m2
    None = None
    Mails <- MCMails
    Accounts <- MCArchives
    MaxAttempts = 2
INVARIANTS
    KeptInArchive
