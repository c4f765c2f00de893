------------------------ MODULE AsyncBatcherInvariant ------------------------
(***************************************************************************)
(* The inductive invariant of AsyncBatcher, in named parts: what has to be *)
(* known of the control state for the properties of AsyncBatcher to be     *)
(* preserved by every step.                                                *)
(***************************************************************************)
EXTENDS AsyncBatcher

\* One thread flushes at a time, and no append runs once the destructor has
\* started.
ThreadsApart ==
  /\ fl # "idle" => bg = "running" \/ dtor = "flushing"
  /\ dtor \notin {"alive", "stopping"} => bg \in {"none", "exited"}
  /\ dtor # "alive" => \A p \in Producers : pc[p] = "idle"

\* The modes of the queue: a thread that blocks never prunes.
ModesApart ==
  \A p \in Producers :
    /\ QueueMode = "BLOCK" => pc[p] \notin {"prune", "pruning"}
    /\ QueueMode = "DROP" => pc[p] \notin {"wait", "drowsy", "sleeping"}

\* One prune at a time examines the queue.
PruneAlone == QueueUnlocked => unexamined = {}

\* What the locals of flush and fill_buffer hold at each location.
FlushLocals ==
  /\ fl = "idle" => batch = {}
  /\ fl \in {"idle", "fill", "send"} => inflight = {}
  /\ fl \in {"notify", "serialize"} => remaining > 0 /\ \E t \in Tickets : inflight = {t}
  /\ fl = "send" => batch # {}
  /\ fl = "sendUnfinished" =>
       /\ inflight = {} \/ ("event" \in Faults /\ \E t \in Tickets : inflight = {t})
       /\ Faults # {}

\* Every event is in one place: inside, sent, pruned or lost.
Partition ==
  /\ Tickets = Pending \cup Delivered \cup pruned \cup lost
  /\ Pending \cap (Delivered \cup pruned \cup lost) = {}
  /\ Delivered \cap (pruned \cup lost) = {}
  /\ QueueMode = "BLOCK" /\ Faults = {} => pruned \cup lost = {}

\* The destructor's flush takes the whole queue: nobody pushes any more.
Draining ==
  /\ dtor = "flushing" /\ fl # "idle" =>
       Cardinality(queue) + Cardinality(inflight) <= remaining
  /\ dtor \in {"flushed", "destroyed"} => Pending = {}

Control == ThreadsApart /\ ModesApart /\ PruneAlone /\ FlushLocals

BatcherInv == TypeOK /\ Control /\ SentInOrder /\ Partition /\ Draining

\* The counter: where the next batch's range starts.
Counted == IF sent = <<>> THEN 0 ELSE sent[Len(sent)].counted[2]

CountsInv ==
  CountEvents /\ Faults \cap {"finalize", "send"} = {} =>
    /\ CountsAreContiguous
    /\ fl = "send" =>
         /\ range = <<Counted, endIndex>>
         /\ endIndex \in batch
         /\ \A t \in batch : t <= endIndex
    /\ fl # "send" => endIndex = Counted

\* The draws of a ticket: a prune gives each entry it has examined its own
\* pass, later than all the entry's draws before; the draw of append and push
\* is one and the same, and both multiply _pass_prob.
DrawsInv ==
  /\ \A t \in Tickets :
       /\ event[t].draws \subseteq SubsamplePass..dropPass
       /\ event[t].factors = Cardinality(event[t].draws) + (IF Subsample THEN 1 ELSE 0)
  /\ \A t \in queue : QueueUnlocked \/ t \in unexamined => dropPass \notin event[t].draws
=============================================================================
