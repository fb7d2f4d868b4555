SPECIFICATION Spec
CONSTANTS
    Nodes = {1, 2, 3}
    Early = {1, 3}
    Requests = {r1, r2}
    Studied = {1, 3}
    Sizes = {1}
    Kinds = {"module", "lesson", "question"}
    Parking = 10
    MaxPosition = 4
SYMMETRY Interchangeable
INVARIANTS
    TypeOK
    OnlyTheseDeadlock
    NoReorderIsLost
