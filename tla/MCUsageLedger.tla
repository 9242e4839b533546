--------------------------- MODULE MCUsageLedger ---------------------------
(* A small budget: the hard ceilings bind before the generous policy does,  *)
(* and after the strict one.                                                *)
EXTENDS UsageLedger, TLC

Symmetry == Permutations(Operations)

Generous == [daily_requests |-> 3, root_requests |-> 3, foreground_request_reserve |-> 1,
             daily_tokens |-> None, root_tokens |-> None,
             background_daily_tokens |-> 9, background_job_tokens |-> 9]
Strict == [daily_requests |-> 2, root_requests |-> 2, foreground_request_reserve |-> 0,
           daily_tokens |-> 4, root_tokens |-> 5,
           background_daily_tokens |-> 3, background_job_tokens |-> 2]
SmallPolicies == {Generous, Strict}
=============================================================================
