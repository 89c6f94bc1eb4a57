------------------------- MODULE BroadcastLifecycle -------------------------
(***************************************************************************)
(* What the row of a one-off broadcast promises its readers, whichever     *)
(* handler writes it: how its status moves, when its dispatch epoch does,  *)
(* what deletion is allowed to meet, and that a broadcast which is sending *)
(* has an audience that never changes again.                               *)
(***************************************************************************)
EXTENDS Naturals

VARIABLES
    phase,     \* the status of the broadcast
    epoch,     \* its dispatch epoch
    prepared,  \* its audience is fixed
    deletion   \* "none", "soft" or "hard"

vars == <<phase, epoch, prepared, deletion>>

Init ==
    /\ phase \in {"draft", "scheduled"}
    /\ epoch = 0 /\ ~prepared /\ deletion = "none"

Moves(from, to) == phase = from /\ phase' = to /\ UNCHANGED deletion
Stays == UNCHANGED <<epoch, prepared>>

Schedule == deletion = "none" /\ Moves("draft", "scheduled") /\ Stays

\* A new epoch makes whatever the old schedule still has running stale.
Unschedule ==
    /\ deletion = "none" /\ Moves("scheduled", "draft")
    /\ epoch' = epoch + 1 /\ UNCHANGED prepared

Promote ==
    /\ deletion = "none"
    /\ Moves("scheduled", "sending") \/ Moves("scheduled", "sent")
    /\ prepared' = TRUE /\ UNCHANGED epoch

\* By its user, or with the workspace, which may reach a deleted broadcast too.
Cancel ==
    /\ \/ Moves("sending", "cancelled")
       \/ deletion # "hard" /\ Moves("scheduled", "cancelled")
    /\ Stays

\* Only a prepared broadcast is resumed, and under a new epoch.
Resume ==
    /\ deletion = "none" /\ prepared
    /\ Moves("cancelled", "sending")
    /\ epoch' = epoch + 1 /\ UNCHANGED prepared

Finish ==
    /\ prepared /\ deletion = "none"
    /\ Moves("sending", "sent") \/ Moves("sending", "failed")
    /\ Stays

Delete ==
    /\ phase # "sending"
    /\ <<deletion, deletion'>> \in {<<"none", "soft">>, <<"soft", "hard">>}
    /\ UNCHANGED <<phase, epoch, prepared>>

Next ==
    Schedule \/ Unschedule \/ Promote \/ Cancel \/ Resume \/ Finish \/ Delete

Spec == Init /\ [][Next]_vars
=============================================================================
