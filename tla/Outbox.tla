------------------------------- MODULE Outbox -------------------------------
(***************************************************************************)
(* The learner app's progress: a durable outbox of mutations and a durable *)
(* copy of the course's progress (LearningRepositoryImpl), with the back   *)
(* end that they are synchronised with.                                    *)
(*                                                                         *)
(* Writes of the store are serialised; between asking the back end and     *)
(* storing its answer the app goes on recording. A request or an answer    *)
(* may be lost, and the app may stop at any time: both leave the store as  *)
(* it was, and the back end may still be working.                          *)
(***************************************************************************)
EXTENDS LessonProgress

CONSTANTS
    MaxPending,     \* mutations the outbox holds (500)
    MaxBatch,       \* mutations that one synchronisation sends (100)
    Outdated,       \* lessons whose quizzes and videos the app's copy of the course may lack
    Reports         \* positions that players report

ASSUME OutboxAssumption ==
    /\ MaxPending \in Nat /\ MaxBatch \in Nat \ {0} /\ None \notin Requests
    /\ Reports \subseteq Nat

VARIABLES
    made,       \* every mutation recorded so far (history)
    pending,    \* the outbox
    cache,      \* the stored progress, which screens show: the completed lessons
    sending,    \* the synchronisation in flight: its slot, its batch and its answer
    fetching    \* the progress fetch in flight

vars == <<serverVars, made, pending, cache, sending, fetching>>

NotSending == [pc |-> "idle", slot |-> None, batch |-> {}, answer |-> {}]
NotFetching == [pc |-> "idle", answer |-> {}]

TypeOK ==
    /\ ServerTypeOK
    /\ pending \subseteq made /\ made \subseteq Mutations /\ Cardinality(pending) <= MaxPending
    /\ cache \subseteq Lessons
    /\ sending \in [pc: {"idle", "sent", "answered"}, slot: Requests \cup {None},
                    batch: SUBSET Mutations, answer: SUBSET Lessons]
    /\ fetching \in [pc: {"idle", "answered"}, answer: SUBSET Lessons]

Init ==
    /\ ServerInit
    /\ made = {} /\ pending = {}
    /\ cache = {}
    /\ sending = NotSending
    /\ fetching = NotFetching

StoreUnchanged == UNCHANGED <<made, pending, cache>>
AppUnchanged == UNCHANGED <<made, pending, cache, sending, fetching>>

----------------------------------------------------------------------------
(* Recording                                                               *)

\* The newest position of each lesson, and every completion.
LatestOf(P) == {m \in P : m.kind = "completion"
    \/ \A n \in P : n.kind = "position" /\ n.lesson = m.lesson => n.id <= m.id}

\* Mutant: the capacity is checked before the mutation is added.
FitsBefore(P) == Cardinality(P) <= MaxPending + 1
Fits(P) == Cardinality(P) <= MaxPending

\* What the outbox keeps of P.
Kept(P) == IF Fits(P) THEN P ELSE LatestOf(P)

\* ProgressReconciler: what the server says, and over it the mutations in order. The
\* position shown is the last one's, and abstracted.
Reconcile(server, P) == server \cup {m.lesson : m \in {n \in P : n.kind = "completion"}}

\* Without room the mutation is refused: reconnect to save more progress.
Record(m) ==
    /\ m \notin made
    /\ \A n \in made : n.id < m.id
    /\ Fits(Kept(pending \cup {m}))
    /\ made' = made \cup {m}
    /\ pending' = Kept(pending \cup {m})
    /\ cache' = Reconcile(cache, {m})
    /\ UNCHANGED <<serverVars, sending, fetching>>

\* The position of a player that works offline, of which nobody asks whether the lesson
\* still has the video. With the back end at hand a player sends checkpoints instead.
RecordPosition(m) == m.kind = "position" /\ Record(m)

ShowsParts(l) == l \notin Outdated /\ (QuizzesOf[l] # {} \/ \E v \in Videos : LessonOf[v] = l)

\* The button asks the back end first if it knows a reason to (completion_readiness) ...
MayMark(l) == l \notin cache /\ (ShowsParts(l) => RequiredDone(l, passed, Watched))

\* ... and a lesson of videos alone, or a quiz without items, has no button.
HasButton(l) == l \in Explicit \/ (l \notin Bare /\ \A v \in Videos : LessonOf[v] # l)

\* What the back end has answered stays true until the mutation is recorded: nothing
\* watched or passed is taken back. An author may have added a part to a lesson since the
\* app read the course.
RecordCompletion(m) ==
    /\ m.kind = "completion"
    /\ HasButton(m.lesson) /\ MayMark(m.lesson)
    /\ Record(m)

----------------------------------------------------------------------------
(* Synchronising: one at a time                                            *)

Oldest(P) == {m \in P : Cardinality({n \in P : n.id < m.id}) < MaxBatch}

Synchronize(r) ==
    /\ sending.pc = "idle"
    /\ pending # {}
    /\ StartSync(r, Oldest(pending))
    /\ sending' = [NotSending EXCEPT !.pc = "sent", !.slot = r, !.batch = Oldest(pending)]
    /\ StoreUnchanged /\ UNCHANGED fetching

Progress == {l \in Lessons : row[l].done}

\* The back end commits and reads its answer, which reaches the app only if that still
\* waits for it.
Answer(r) ==
    /\ CommitSync(r)
    /\ sending' = IF sending.slot = r
                  THEN [sending EXCEPT !.pc = "answered", !.slot = None, !.answer = Progress']
                  ELSE sending
    /\ StoreUnchanged /\ UNCHANGED fetching

\* Mutant: the outbox is cleared.
RemainingNone == {}

\* What has been recorded meanwhile stays.
Remaining == pending \ sending.batch

StoreSync ==
    /\ sending.pc = "answered"
    /\ pending' = Remaining
    /\ cache' = Reconcile(sending.answer, Remaining)
    /\ sending' = NotSending
    /\ UNCHANGED <<serverVars, made, fetching>>

\* An error, a timeout, or the app stops: whatever becomes of the request, it has no
\* answer for the app.
LoseSync ==
    /\ sending.pc # "idle"
    /\ sending' = NotSending
    /\ StoreUnchanged /\ UNCHANGED <<serverVars, fetching>>

----------------------------------------------------------------------------
(* Loading                                                                 *)

\* What matters of a fetch is when the back end reads its answer.
Fetch ==
    /\ fetching.pc = "idle"
    /\ fetching' = [pc |-> "answered", answer |-> Progress]
    /\ StoreUnchanged /\ UNCHANGED <<serverVars, sending>>

StoreFetch ==
    /\ fetching.pc = "answered"
    /\ cache' = Reconcile(fetching.answer, pending)
    /\ fetching' = NotFetching
    /\ UNCHANGED <<serverVars, made, pending, sending>>

LoseFetch ==
    /\ fetching.pc # "idle"
    /\ fetching' = NotFetching
    /\ StoreUnchanged /\ UNCHANGED <<serverVars, sending>>

----------------------------------------------------------------------------
ServerStep ==
    /\ \/ \E r \in Requests :
            \/ RequestStep(r) \/ Fail(r)
            \/ \E v \in Videos : OpenWindow(r, v) \/ StartLink(r, v)
            \/ \E v \in Videos, to \in Reports : StartWatch(r, v, to)
            \/ \E z \in Quizzes : StartGrade(r, z)
       \/ Tick
    /\ AppUnchanged

AppStep ==
    \/ \E m \in Mutations : RecordPosition(m) \/ RecordCompletion(m)
    \/ \E r \in Requests : Synchronize(r) \/ Answer(r)
    \/ StoreSync \/ LoseSync
    \/ Fetch \/ StoreFetch \/ LoseFetch

Next == ServerStep \/ AppStep

Spec == Init /\ [][Next]_vars
=============================================================================
