----------------------------- MODULE ModelRegister -----------------------------
(***************************************************************************)
(* What a pool of versioned objects promises to the threads that rank with *)
(* a model: each takes the model that is current at the moment it asks,    *)
(* and keeps it until it gives it back, whatever replaces it meanwhile.    *)
(***************************************************************************)
CONSTANTS Users, Models, InitialModel

VARIABLES
  current,   \* the model in force
  using      \* per user: {}, or the set of the one model it holds

register == <<current, using>>

Init ==
  /\ current = InitialModel
  /\ using = [u \in Users |-> {}]

Take(u) ==
  /\ using[u] = {}
  /\ using' = [using EXCEPT ![u] = {current}]
  /\ UNCHANGED current

Release(u) ==
  /\ using[u] # {}
  /\ using' = [using EXCEPT ![u] = {}]
  /\ UNCHANGED current

Replace(m) ==
  /\ current' = m
  /\ UNCHANGED using

Next ==
  \/ \E u \in Users : Take(u) \/ Release(u)
  \/ \E m \in Models : Replace(m)

Spec == Init /\ [][Next]_register
=============================================================================
