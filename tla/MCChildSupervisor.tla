------------------------- MODULE MCChildSupervisor -------------------------
(* Small instances of ChildSupervisor.                                     *)
EXTENDS ChildSupervisor

\* The first child to take the only slot may hold it for ever.
ManagedChildren == {1}
=============================================================================
