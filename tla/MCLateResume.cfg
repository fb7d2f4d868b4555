SPECIFICATION Spec
CONSTANTS
    timed = timed
    untimed = untimed
    both = both
    pass = pass
    fail = fail
    k1 = k1
    k2 = k2
    Quizzes = {timed, untimed}
    Lessons = {both}
    QuizzesOf <- MCQuizzesOf
    MaxAttempts <- MCMaxAttempts
    TimeLimit <- MCTimeLimit
    Answers = {pass, fail}
    NoAnswers = NoAnswers
    Passing <- MCPassing
    Keys = {k1, k2}
    NoKey = NoKey
    Submissions <- MCSubmissions
    Requests = {r1, r2}
    MaxTime = 3
PROPERTIES
    SubmittedStaysSubmitted
CHECK_DEADLOCK FALSE
