----------------------------- MODULE FencedLock -----------------------------
(***************************************************************************)
(* What the lease store promises its callers, without rows, capabilities,  *)
(* daemons, queues or recovery: a lock per scope that hands out the        *)
(* fencing tokens 1, 2, 3, ... one at a time, the next one only after the  *)
(* one before has been given back.                                         *)
(***************************************************************************)
EXTENDS Naturals

CONSTANT Scopes

VARIABLES
    holding,  \* scope -> tokens that are out
    last      \* scope -> last token handed out

Init ==
    /\ holding = [s \in Scopes |-> {}]
    /\ last = [s \in Scopes |-> 0]

Grant(s) ==
    /\ holding[s] = {}
    /\ holding' = [holding EXCEPT ![s] = {last[s] + 1}]
    /\ last' = [last EXCEPT ![s] = @ + 1]

GiveBack(s) ==
    /\ holding[s] = {last[s]}
    /\ holding' = [holding EXCEPT ![s] = {}]
    /\ UNCHANGED last

Next == \E s \in Scopes : Grant(s) \/ GiveBack(s)

Spec == Init /\ [][Next]_<<holding, last>>
=============================================================================
