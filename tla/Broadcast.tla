----------------------------- MODULE Broadcast ------------------------------
(***************************************************************************)
(* The broadcast pipeline as a whole: preparation, dispatch and purge at   *)
(* work on one broadcast row, in any order the queues and crons allow.     *)
(***************************************************************************)
EXTENDS BroadcastRow

CONSTANTS Users, StaleUsers, PrepareAttempts,
          BatchSize, Undeliverable, RedisFailsOpen

ASSUME StaleUsersAssumption == StaleUsers \subseteq Users
ASSUME AttemptsAssumption == PrepareAttempts \in Nat \ {0}
ASSUME BatchAssumption == BatchSize \in [Epochs -> Nat \ {0}]
ASSUME UndeliverableAssumption == Undeliverable \subseteq Contacts
ASSUME RedisAssumption == RedisFailsOpen \in BOOLEAN

VARIABLES audience, due, listed, prep, purgeJobs, check,
          driver, window, job, outcome, delivered, grace, finalizer, resumedOver,
          purger

Prepare == INSTANCE BroadcastPrepare
Dispatch == INSTANCE BroadcastDispatch
Purge == INSTANCE BroadcastPurge

prepareVars == <<audience, due, listed, prep, purgeJobs, check>>
dispatchVars == <<driver, window, job, outcome, delivered, grace, finalizer,
                 resumedOver>>
vars == <<sharedVars, prepareVars, dispatchVars, purger>>

TypeOK == Prepare!TypeOK /\ Dispatch!TypeOK /\ Purge!TypeOK

Init == Prepare!Init /\ Dispatch!DispatchLocalInit /\ Purge!PurgeLocalInit

PrepareNext == Prepare!PrepareLocalNext /\ UNCHANGED <<dispatchVars, purger>>
DispatchNext == Dispatch!DispatchLocalNext /\ UNCHANGED <<prepareVars, purger>>
PurgeNext == Purge!PurgeLocalNext /\ UNCHANGED <<prepareVars, dispatchVars>>
EnvironmentNext == RowNext /\ UNCHANGED <<prepareVars, dispatchVars, purger>>

Next == PrepareNext \/ DispatchNext \/ PurgeNext \/ EnvironmentNext

Spec == Init /\ [][Next]_vars

FairSpec == Spec /\ Prepare!Fairness /\ Dispatch!Fairness /\ Purge!PurgeFairness

-----------------------------------------------------------------------------
(* Properties *)

\* The whole pipeline implements the lifecycle its readers rely on.
Lifecycle == INSTANCE BroadcastLifecycle
                 WITH phase <- status, prepared <- contactCount # NoCount
ImplementsLifecycle == Lifecycle!Spec

\* The channel is never asked to send to a contact outside the audience the
\* broadcast was last scheduled with, whatever prepares, resumes or purges ran.
SendsOnlyToTheAudience == \A c \in Contacts : outcome[c].sends > 0 => c \in audience

\* A deleted broadcast is erased in the end, whatever was still running on it.
DeletedIsErased == deletion = "soft" ~> deletion = "hard"

\* A scheduled broadcast that is due reaches its end or its user's hands.
DueReachesTheEnd ==
    (status = "scheduled" /\ due) ~>
        (status \in {"sent", "failed", "cancelled", "draft"} \/ deletion # "none")
=============================================================================
