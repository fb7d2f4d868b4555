SPECIFICATION LearningSpec
CONSTANTS
    clip = clip
    test = test
    mixed = mixed
    v = v
    z = z
    None = None
    Lessons = {clip, test, mixed}
    Videos = {v}
    LessonOf <- MCLessonOf
    Quizzes = {z}
    QuizzesOf <- MCQuizzesOf
    Explicit = {mixed}
    Bare = {}
    Length <- MCLength
    Duration <- MCDuration
    Window = 1
    Mutations <- MCMutations
    Requests = {r1, r2}
    MaxTime = 2
    MaxPending = 2
    MaxBatch = 2
    Outdated = {test, mixed}
    Reports = {2, 3}
SYMMETRY Slots
INVARIANTS
    TypeOK
    NoUnearnedCompletion
    WatchedTimeIsReal
    NothingRecordedIsLost
    OnlyLinksDeadlock
    StagedMutationsAreNew
PROPERTIES
    ProgressOnlyGrows
