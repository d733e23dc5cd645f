\* A project used for its memories, and one used for its tasks.
SPECIFICATION Spec
CONSTANTS
    c1 = c1
    c2 = c2
    Clients = {c1, c2}
    Projects <- Used
    Tasks = {t1, t2}
    Memories = {m1}
    Sessions = {s1}
    Values = {v1, v2}
    Pinned = {}
    NewStatuses = {"open"}
    Reasons = {1}
    None = None
    Dead = Dead
    Go = Go
SYMMETRY Symmetry
INVARIANTS
    AckedSurvives
    RemovedStaysGone
    SearchHonest
    IndexesFollowLog
