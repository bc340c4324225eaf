SPECIFICATION Spec
CONSTANTS
    None = None
    feature = feature
    task = task
    subtask = subtask
    Given <- GivenTree
    Tasks = {task, subtask}
    Tickets = {feature, task, subtask}
    Requests = {r1, r2}
    Files = {f1}
    Days = {1, 2}
    Levels = 5
    MaxOps = 3
SYMMETRY Symmetry
INVARIANTS ParentsEnclose ArchivedSubtrees StoresAgree ReactionParity
CHECK_DEADLOCK FALSE
