------------------------------ MODULE WarmupCap ------------------------------
(***************************************************************************)
(* What the IP warm-up gate promises, without saying how: a ramp starts    *)
(* once, and on every UTC date at most the cap of the ramp's latest day on *)
(* that date is allowed to leave, per mailbox provider and in total.       *)
(* WarmupGate is shown to implement this specification while the shared    *)
(* store answers (WarmupGateProofs).                                       *)
(***************************************************************************)
EXTENDS WarmupRamp

VARIABLES
  start,       \* when the ramp began, Unset until it does
  granted      \* granted[d][k]: sends allowed on date d under key k

Init ==
  /\ start = Configured
  /\ granted = [d \in Dates |-> [k \in Keys |-> 0]]

Begin ==
  /\ start = Unset
  /\ start' \in Time
  /\ UNCHANGED granted

Allow(d, i) ==
  /\ granted[d][i] < CapOn(d, i, start)
  /\ granted[d][Total] < CapOn(d, Total, start)
  /\ granted' = [granted EXCEPT ![d][i] = @ + 1, ![d][Total] = @ + 1]
  /\ UNCHANGED start

Next == Begin \/ \E d \in Dates, i \in Isps : Allow(d, i)

Spec == Init /\ [][Next]_<<start, granted>>
=============================================================================
