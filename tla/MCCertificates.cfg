SPECIFICATION CertSpec
CONSTANTS
    first = first
    second = second
    final = final
    l1 = l1
    pass = pass
    fail = fail
    k1 = k1
    k2 = k2
    Quizzes = {first, second, final}
    Lessons = {l1}
    QuizzesOf <- MCQuizzesOf
    Required = {final}
    MaxAttempts <- MCMaxAttempts
    TimeLimit <- MCTimeLimit
    Answers = {pass, fail}
    NoAnswers = NoAnswers
    Passing <- MCPassing
    Keys = {k1, k2}
    NoKey = NoKey
    Submissions <- MCSubmissions
    Requests = {r1, r2}
    Claims = {c1, c2}
    MaxTime = 3
PROPERTIES
    ImplementsTranscript
CHECK_DEADLOCK FALSE
