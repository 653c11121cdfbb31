\* One comment with a file.
CONSTANTS
    Comments = {1}
    WithFile = {1}
SPECIFICATION Spec
INVARIANT FileIsSaved
CHECK_DEADLOCK FALSE
