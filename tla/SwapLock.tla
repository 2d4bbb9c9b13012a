------------------------------ MODULE SwapLock ------------------------------
(***************************************************************************)
(* What swapsInProgress promises: of the autonomous actions of a swap one   *)
(* runs at a time, and the next begins only after it has ended.             *)
(***************************************************************************)
CONSTANTS Swaps, Tasks

VARIABLE holders  \* the tasks inside an autonomous action, per swap

Init == holders = [s \in Swaps |-> {}]

Acquire(s, t) ==
    /\ holders[s] = {}
    /\ holders' = [holders EXCEPT ![s] = {t}]

Release(s, t) ==
    /\ holders[s] = {t}
    /\ holders' = [holders EXCEPT ![s] = {}]

\* The process dies.
Reset == holders' = [s \in Swaps |-> {}]

Next ==
    \/ \E s \in Swaps, t \in Tasks : Acquire(s, t) \/ Release(s, t)
    \/ Reset

Spec == Init /\ [][Next]_holders
=============================================================================
