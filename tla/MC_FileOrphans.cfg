\* Chunks against what the comment in _delete_file says of them.
SPECIFICATION Spec
CONSTANTS
    f1 = f1
    f2 = f2
    d1 = d1
    d2 = d2
    Files <- MCFiles
    Deleters <- MCDeleters
    FailClosed = FALSE
INVARIANT NoOrphanChunks
