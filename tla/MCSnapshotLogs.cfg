CONSTANTS
    h1 = h1  h2 = h2  h3 = h3
    b1 = b1  b2 = b2
    n1 = n1  n2 = n2
    Handlers = {h1, h2, h3}
    Backups = {b1, b2}
    Names = {n1, n2}
    NameOf <- MCNameOf
    BackupOf <- MCBackupOf
SPECIFICATION Spec
INVARIANT TypeOK
INVARIANT ServesOwnBackup
PROPERTY EveryCallReturns
CHECK_DEADLOCK FALSE
