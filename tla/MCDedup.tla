------------------------------- MODULE MCDedup -------------------------------
(* The instance of Dedup for TLC: events with no, one and several actions,    *)
(* the same action twice among them, and contents without hash collisions.    *)
EXTENDS Dedup

MCHash == [o \in Objects |-> o]
MCContexts == {<<>>} \cup {<<o>> : o \in Objects} \cup {<<"a", "b">>, <<"c", "a">>, <<"b", "b">>}
=============================================================================
