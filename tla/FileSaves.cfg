\* Writes and loads that may fail, crashes, shutdowns and a Close at any time.
CONSTANTS
    Changes = {c1, c2, c3}
    WritesFail = TRUE
    LoadsFail = TRUE
SPECIFICATION StoreFileSpec
INVARIANT StoreFileTypeOK
INVARIANT CloseSaves
PROPERTY ImplementsDurableSet
INVARIANT DirtyCoversChanges
PROPERTY SavedUnlessFailed
