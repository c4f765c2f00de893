---------------------------- MODULE EventChannel ----------------------------
(***************************************************************************)
(* What a logger's batcher promises to the code that appends events to it: *)
(* a channel that accepts events, numbers them in the order it accepts     *)
(* them, and delivers them in that order, in batches, each event at most   *)
(* once.  A lossy channel may discard events it has not delivered.  When   *)
(* the channel is closed nothing is left in it.                            *)
(*   i_async_batcher (logger/async_batcher.h)                              *)
(***************************************************************************)
EXTENDS Naturals, Sequences

CONSTANT Lossy   \* may accepted events be discarded?

VARIABLES
  accepted,    \* number of events accepted so far
  pending,     \* events accepted, and neither delivered nor discarded
  delivered,   \* the batches delivered, in order
  open         \* the channel accepts events

chan == <<accepted, pending, delivered, open>>

Init ==
  /\ accepted = 0
  /\ pending = {}
  /\ delivered = <<>>
  /\ open = TRUE

Accept ==
  /\ open
  /\ accepted' = accepted + 1
  /\ pending' = pending \cup {accepted + 1}
  /\ UNCHANGED <<delivered, open>>

\* The oldest pending events leave together.
Deliver(events) ==
  /\ events # {}
  /\ \A e \in events, p \in pending \ events : e < p
  /\ pending' = pending \ events
  /\ delivered' = Append(delivered, events)
  /\ UNCHANGED <<accepted, open>>

Discard(events) ==
  /\ Lossy
  /\ pending' = pending \ events
  /\ UNCHANGED <<accepted, delivered, open>>

Close ==
  /\ open
  /\ pending = {}
  /\ open' = FALSE
  /\ UNCHANGED <<accepted, pending, delivered>>

Next ==
  \/ Accept
  \/ \E events \in SUBSET pending : Deliver(events)
  \/ \E events \in SUBSET pending : Discard(events)
  \/ Close

Spec == Init /\ [][Next]_chan

=============================================================================
