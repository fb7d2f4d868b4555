----------------------------- MODULE MCLearning -----------------------------
(***************************************************************************)
(* A lesson that is a video, one that is a quiz and one that is that quiz  *)
(* and a note; two requests at a time, an outbox of two. All writers meet  *)
(* while the app records two mutations, or it records three while nobody   *)
(* watches: two positions of the lesson that is a quiz by now, of which    *)
(* the second may overtake the first, and both are past what its author    *)
(* gives as its duration.                                                  *)
(***************************************************************************)
EXTENDS LearningProps, TLC

CONSTANTS clip, test, mixed, v, z

VARIABLE watching       \* whether the learner watches in this behaviour

MCLessonOf == [x \in Videos |-> clip]
MCQuizzesOf == [l \in Lessons |-> IF l = clip THEN {} ELSE {z}]
MCLength == [x \in Videos |-> 2]
MCDuration == [l \in Lessons |-> IF l = clip THEN 2 ELSE 0]
Slots == Permutations(Requests)
MCMutations ==
    {[id |-> 1, lesson |-> clip, kind |-> "position", pos |-> 2],
     [id |-> 2, lesson |-> test, kind |-> "position", pos |-> 2],
     [id |-> 3, lesson |-> test, kind |-> "position", pos |-> 1],
     [id |-> 4, lesson |-> mixed, kind |-> "completion", pos |-> 0]}

InScope ==
    IF watching THEN \A m \in made' : m.lesson # test
    ELSE /\ \A m \in made' : m.lesson # clip
         /\ \A r \in Requests : req'[r].kind \notin {"watch", "link"}

LearningInit == Init /\ watching \in BOOLEAN

LearningNext == Next /\ InScope /\ UNCHANGED watching

LearningSpec == LearningInit /\ [][LearningNext]_<<vars, watching>>
=============================================================================
