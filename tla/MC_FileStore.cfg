\* Safety, up to the names of files and requests.
SPECIFICATION Spec
CONSTANTS
    f1 = f1
    f2 = f2
    d1 = d1
    d2 = d2
    Files <- MCFiles
    Deleters <- MCDeleters
    FailClosed = FALSE
INVARIANT TypeOK
INVARIANT RowsHaveBytes
INVARIANT CompletedHasChunks
INVARIANT BytesHaveOwners
INVARIANT ProcessingIsInFlight
SYMMETRY Symmetry
