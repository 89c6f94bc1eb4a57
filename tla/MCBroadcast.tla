---------------------------- MODULE MCBroadcast -----------------------------
(* A small instance of the whole broadcast pipeline. *)
EXTENDS Broadcast

CONSTANTS c1, u1

OneContact == {c1}
OneUser == {u1}
Nobody == {}
OneAtATime == [e \in Epochs |-> 1]

-----------------------------------------------------------------------------
(* What of a state decides what may happen next in Pipeline.cfg: states that *)
(* differ in nothing else have the same behaviours.                          *)

\* How often a contact was told, and how many attempts were cut short, decides
\* nothing; a failure is recorded of one that was told as a receipt would be.
Told == {c \in Contacts : outcome[c].sends > 0}
ErroredUntold == {c \in Contacts \ Told : outcome[c].errored}

\* A draft is given its audience and its time when it is scheduled, and nothing
\* reads either before; the time is not read again afterwards.
AudienceThatCounts == IF status = "draft" /\ Told = {} THEN {} ELSE audience
DueThatCounts == status = "scheduled" /\ due

\* A job that is over only keeps its id, however it ended.
JobThatCounts ==
    [c \in Contacts |-> [e \in Epochs |->
        IF job[c][e] \in Dispatch!Unfinished \cup {"none"} THEN job[c][e] ELSE "over"]]

\* A resume clears handoff and grace; until then only the finalizer of a
\* broadcast that is sending reads them, and the receipts.
HandoffThatCounts == status = "sending" /\ handoff
GraceThatCounts == status = "sending" /\ grace
DeliveredThatCounts == IF status \in {"sent", "failed"} THEN {} ELSE delivered

\* resumedOver records the past only.
WhatCounts ==
    <<status, epoch, contactCount, deletion, recipient, driverJob, blocked, faults,
      AudienceThatCounts, DueThatCounts, listed, prep, purgeJobs, check, purger,
      driver, window, JobThatCounts, Told, ErroredUntold, DeliveredThatCounts,
      HandoffThatCounts, GraceThatCounts, finalizer>>
=============================================================================
