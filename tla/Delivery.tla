------------------------------ MODULE Delivery ------------------------------
(***************************************************************************)
(* What an asynchronous sender promises about the messages it has accepted *)
(* (i_sender.h: send returns before the message is delivered).  Every      *)
(* accepted message is settled once, acknowledged or given up, and a       *)
(* message is accepted only when the one Window places before it is        *)
(* settled: the server sees the messages out of order by less than Window. *)
(***************************************************************************)
EXTENDS Naturals

CONSTANTS Window,     \* how many messages may be outstanding
          MaxAccept   \* bound: messages accepted

VARIABLE fate         \* message number -> what is known of its delivery

vars == <<fate>>

Messages == 1 .. MaxAccept

Init == fate = [m \in Messages |-> "new"]

Accept(m) ==
    /\ fate[m] = "new"
    /\ \A k \in Messages : k < m => fate[k] # "new"
    /\ \A k \in Messages : k + Window <= m => fate[k] # "pending"
    /\ fate' = [fate EXCEPT ![m] = "pending"]

Settle(m) ==
    /\ fate[m] = "pending"
    /\ \E f \in {"acknowledged", "given up"} : fate' = [fate EXCEPT ![m] = f]

Next == \E m \in Messages : Accept(m) \/ Settle(m)

Spec == Init /\ [][Next]_vars
=============================================================================
