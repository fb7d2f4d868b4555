SPECIFICATION AuthoringSpec
CONSTANTS
    Items = {k1, k2}
    Videos = {v1, v2}
    Assessments = {a1}
    Requests = {m1, m2}
    Statuses = {"draft", "published"}
    Nothing = Nothing
    Curricula = {c1, c2}
    Standards = {d1, d2}
    Streams = {t1}
    Subjects = {j1}
    Edited = {d2, t1}
    Slots = {m1, m2}
    None = None
    MaxVersion = 2
    Course = Course
    Module = Module
    Lesson = Lesson
    Assessment = Assessment
    Policies = {"inherit", "unavailable"}
    Sources = {"admin_grant", "purchase"}
    Given = {"lesson"}
    Grants = {k1, k2}
    Switch = Switch
    Admins = {m1, m2}
    Nil = Nil
    MaxTime = 1
    MaxChanges = 3
SYMMETRY Interchangeable
INVARIANTS
    AuthoringTypeOK
    VideosAreBound
    SelectionsAreConsistent
PROPERTIES
    AttemptsAreKept
    ChangesAreInformed
