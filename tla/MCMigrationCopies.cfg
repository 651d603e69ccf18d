CONSTANTS
    inbox = inbox
    work = work
    Folders = {inbox, work}
    Numbers = {1}
    None = none
    Own = own
    Limit = 1
    MaxStarts = 1
    MaxErrors = 0
    MaxChanges = 0
SPECIFICATION Spec
INVARIANT CopiesHold
\* The bounds end the behaviours.
CHECK_DEADLOCK FALSE
