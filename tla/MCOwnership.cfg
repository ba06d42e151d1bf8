SPECIFICATION OwnershipSpec
CONSTANTS
    Infos = {domain, mailbox}
    Mailboxes = {mailbox}
    Checks = {d1, d2}
    Modes <- MCModes
    MaxTries = 2
    NoInfo = NoInfo
    MaxRenewals = 1
SYMMETRY MCSymmetry
CHECK_DEADLOCK FALSE
INVARIANTS
    VerifiedWasProved
    TriesAreLimited

