---------------------------- MODULE ContentProps ----------------------------
(***************************************************************************)
(* What the content of a lesson promises.                                  *)
(***************************************************************************)
EXTENDS LessonContent

\* A video that an item shows is bound to that item, and one that is bound is shown by the
\* item: whatever authors do at once, no item shows a video that plays under the progress
\* and the availability of another (save_content, ensure_asset_published).
VideosAreBound ==
    /\ \A i \in There(item) : item[i].type = "video" => video[item[i].of].item = i
    /\ \A v \in There(video) : video[v].item # Nothing => item[video[v].item].of = v

\* A deletion of an assessment takes no attempt with it: an attempt is counted before the
\* assessment is deleted, or its insertion waits and fails (admin_delete_assessment).
AttemptsAreKept == [][attempts \subseteq attempts']_vars
=============================================================================
