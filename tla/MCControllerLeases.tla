------------------------ MODULE MCControllerLeases ------------------------
(* A small instance of the lease reducer: two Conversations, so that one    *)
(* bearer could open the wrong lease, and two clients, each of which can    *)
(* take the Conversation from the other, lose its connection and come back. *)
EXTENDS ControllerLeases, TLC

\* Clients and Conversations are interchangeable: every run is a safety run.
Symmetry == Permutations(Clients) \cup Permutations(Conversations)
===========================================================================
