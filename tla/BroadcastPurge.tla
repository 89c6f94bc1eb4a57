--------------------------- MODULE BroadcastPurge ---------------------------
(***************************************************************************)
(* The five-minute purge tick: drain the recipient rows of a soft-deleted  *)
(* broadcast chunk by chunk, probe that none is left, and erase its row.   *)
(***************************************************************************)
EXTENDS BroadcastRow

VARIABLE purger   \* where purgeOne stands, "idle" between ticks

purgeVars == <<purger>>
vars == <<sharedVars, purgeVars>>

TypeOK == RowTypeOK /\ purger \in {"idle", "drain", "probe", "erase"}

PurgeableScope == deletion = "soft" /\ status # "sending"

PurgeList ==
    /\ purger = "idle" /\ PurgeableScope
    /\ purger' = "drain"
    /\ UNCHANGED sharedVars

PurgeChunk ==
    /\ purger = "drain"
    /\ \E c \in Rows : recipient' = [recipient EXCEPT ![c] = "absent"]
    /\ UNCHANGED <<rowVars, driverJob, blocked, faults, purger>>

\* A short chunk: no row left, or the rows left are locked (SKIP LOCKED).
PurgeDrained ==
    /\ purger = "drain"
    /\ purger' = "probe"
    /\ UNCHANGED sharedVars

\* The deadline passes, the chunk cap is reached or the worker dies.
PurgeStops ==
    /\ purger # "idle"
    /\ Fault
    /\ purger' = "idle"
    /\ UNCHANGED <<rowVars, recipient, driverJob, blocked>>

\* hasBroadcastRecipients
PurgeProbe ==
    /\ purger = "probe"
    /\ purger' = IF Rows # {} THEN "idle" ELSE "erase"
    /\ UNCHANGED sharedVars

\* hardDeleteBroadcast; rows written since the probe go with it (cascade).
PurgeErase ==
    /\ purger = "erase"
    /\ IF PurgeableScope
         THEN deletion' = "hard" /\ recipient' = NoRows
         ELSE UNCHANGED <<deletion, recipient>>
    /\ purger' = "idle"
    /\ UNCHANGED <<status, epoch, contactCount, handoff, driverJob, blocked, faults>>

PurgeLocalInit == purger = "idle"

PurgeLocalNext ==
    PurgeList \/ PurgeChunk \/ PurgeDrained \/ PurgeStops \/ PurgeProbe \/ PurgeErase

\* A row is locked only for the length of a statement, so a chunk that meets
\* locked rows again and again meets them unlocked in the end (SF).
PurgeFairness ==
    /\ WF_vars(PurgeList) /\ WF_vars(PurgeDrained) /\ WF_vars(PurgeProbe)
    /\ WF_vars(PurgeErase)
    /\ SF_vars(PurgeChunk)
=============================================================================
