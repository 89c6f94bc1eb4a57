---------------------------- MODULE MCSmartDelay ----------------------------
(* A small instance of SmartDelay. *)
EXTENDS SmartDelay

\* Each type armed once, with failures; a follow-up armed twice.
Some ==
    [type : {"waitNode"}, arms : {1}, faults : {2}, interruptions : {2}]
        \cup [type : {"followUp", "quickReplyFollowUp"}, arms : {1}, faults : {1}, interruptions : {2}]
        \cup [type : {"followUp"}, arms : {2}, faults : {0}, interruptions : {1}]
=============================================================================
