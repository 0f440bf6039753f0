\* Two requests at a time, two contents, three failures, deletions or restarts.
SPECIFICATION Spec
CONSTANTS
    w1 = w1
    w2 = w2
    Workers = {w1, w2}
    Contents = {1, 2}
    MaxVersions = 4
    MaxEvents = 3
SYMMETRY Symmetry
INVARIANTS
    FilesBackVersions
    EntryMatchesRows
    PreviewsAreGenuine
    PublishedAsRequested
CHECK_DEADLOCK FALSE
