---------------------------- MODULE MCLocalHost ----------------------------
(* A loopback host with two connections: a controller and either the        *)
(* connection it comes back on or a competing client, in any order.         *)
EXTENDS LocalHost, TLC

\* Connections and operations are interchangeable, in safety runs only.
Symmetry == Permutations(Clients) \cup Permutations(Operations)
=============================================================================
