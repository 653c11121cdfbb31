\* One client that makes two requests one after the other.
CONSTANTS
    Clients = {c1}
    Contents = {"a", "b"}
    MaxEdits = 2
SPECIFICATION Spec
INVARIANT SaidIsDone
CHECK_DEADLOCK FALSE
