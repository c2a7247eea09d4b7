-------------------------- MODULE MCGenieProvision --------------------------
(* GenieProvision, searched as long as something is promised. *)
EXTENDS GenieProvision

\* A lapse is never forgotten.  After one of each kind neither Durable nor
\* NodeResetDone says anything, so the search stops there.
Promised ==
    \/ lapses \cap {"wipe", "save", "race", "overwrite"} = {}
    \/ lapses \cap {"reset", "flag"} = {}
=============================================================================
