----------------------------- MODULE MCWatchdog -----------------------------
(* The instance of Watchdog for TLC: two procedures of different periods. *)
EXTENDS Watchdog

TwoProcs  == {"downloader", "batcher"}
Intervals == [p \in TwoProcs |-> IF p = "batcher" THEN 1 ELSE 2]
=============================================================================
