------------------------------ MODULE MCKernel ------------------------------
(***************************************************************************)
(* Small instances of KernelProperties: every order of registration of two *)
(* or three subsystems, every start order of up to three entries, with     *)
(* names that repeat or are not registered.                                *)
(***************************************************************************)
EXTENDS KernelProperties

MCRegistrations ==
  {s \in UNION {[1..n -> Names \ {"ghost"}] : n \in 2..3} : IsInjective(s)}
MCStartOrders == UNION {[1..n -> Names] : n \in 0..3}
=============================================================================
