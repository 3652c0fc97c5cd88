------------------------------- MODULE MCSession -------------------------------
(***************************************************************************)
(* A small instance of SessionProperties: the runtime and one other        *)
(* subsystem in either order of registration, and start orders of up to    *)
(* three entries, which may repeat the runtime or leave it out.            *)
(***************************************************************************)
EXTENDS SessionProperties

MCRegistrations == {<<"runtime">>, <<"runtime", "bus">>, <<"bus", "runtime">>}
MCStartOrders == UNION {[1..n -> Names] : n \in 0..3}
=============================================================================
