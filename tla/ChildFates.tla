----------------------------- MODULE ChildFates -----------------------------
(***************************************************************************)
(* What the child supervisor promises about a child agent, whatever fails: *)
(* an admitted child has one fate, which never changes once it is known,   *)
(* and everyone who is ever told of the child is told that fate.           *)
(***************************************************************************)
CONSTANTS Children, Terminal

VARIABLES
    fate,  \* Child -> "none", "pending" or its terminal status
    told   \* Child -> the statuses handed to whoever awaited it

Init ==
    /\ fate = [c \in Children |-> "none"]
    /\ told = [c \in Children |-> {}]

Admit ==
    \E cs \in SUBSET {c \in Children : fate[c] = "none"} :
        /\ fate' = [c \in Children |-> IF c \in cs THEN "pending" ELSE fate[c]]
        /\ UNCHANGED told

\* A crash settles every pending child at once.
Settle ==
    \E f \in [{c \in Children : fate[c] = "pending"} -> Terminal \cup {"pending"}] :
        /\ fate' = [c \in Children |-> IF c \in DOMAIN f THEN f[c] ELSE fate[c]]
        /\ UNCHANGED told

Tell(c) ==
    /\ fate[c] \in Terminal
    /\ told' = [told EXCEPT ![c] = @ \cup {fate[c]}]
    /\ UNCHANGED fate

Next == Admit \/ Settle \/ \E c \in Children : Tell(c)

Spec == Init /\ [][Next]_<<fate, told>>
=============================================================================
