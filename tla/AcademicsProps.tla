--------------------------- MODULE AcademicsProps ---------------------------
(***************************************************************************)
(* What the academic hierarchy promises.                                   *)
(***************************************************************************)
EXTENDS Academics

OnPath(c) ==
    /\ c.standard # None => record[c.standard].parent = c.curriculum
    /\ c.stream # None => record[c.stream].parent = c.standard

\* What a learner has selected, and what a course is classified as, is a path of the
\* hierarchy: although it is validated before it is written, and a request writes only the
\* levels that it changes, no interleaving leaves a standard of another curriculum or a
\* stream of another standard (validate_selection, put_profile, admin_update_course).
SelectionsAreConsistent ==
    /\ profile # None => OnPath(profile.selection)
    /\ class # None => OnPath(class)
=============================================================================
