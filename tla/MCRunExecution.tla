--------------------------- MODULE MCRunExecution ---------------------------
(* Instances of RunExecution for TLC. *)
EXTENDS RunExecution

CONSTANTS r1, r2, plan, build

OneRun == {r1}
TwoRuns == {r1, r2}
OneNode == {plan}
TwoNodes == {plan, build}
Alone == [n \in {plan} |-> {}]
Chain == [n \in {plan, build} |-> IF n = plan THEN {build} ELSE {}]
First == {plan}
Last == {build}
None == {}

EveryOperation == {"pause", "cancel", "retry", "continue", "guide", "crash", "stop"}
StopAndControls == {"pause", "cancel", "guide", "stop"}
CancelAndCrash == {"cancel", "crash"}
CrashOnly == {"crash"}
RetryOnly == {"retry"}
PauseOnly == {"pause"}
CancelOnly == {"cancel"}
=============================================================================
