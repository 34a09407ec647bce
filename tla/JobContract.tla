---------------------------- MODULE JobContract ----------------------------
(* What the queue promises whoever enqueues a job (the docstrings of          *)
(* automation/worker.py): it is settled once, as completed or needsAttention, *)
(* with its bell entry and its feed event in the same step, and every job is  *)
(* settled in the end.  Workers, leases, attempts and crashes are not seen.   *)
CONSTANTS Jobs, Requested

VARIABLES state, bell, feed

vars == <<state, bell, feed>>

Terminal == {"completed", "needsAttention"}
Kind(s) == IF s = "completed" THEN "jobCompleted" ELSE "jobFailed"
Waiting == {j \in Jobs : state[j] = "waiting"}

Init ==
    /\ state = [j \in Jobs |-> "absent"]
    /\ bell = [j \in Jobs |-> "none"]
    /\ feed = [j \in Jobs |-> 0]

Enqueue(j) ==
    /\ state[j] = "absent"
    /\ state' = [state EXCEPT ![j] = "waiting"]
    /\ UNCHANGED <<bell, feed>>

\* One commit settles the jobs S of a worker pass.
Settle(S) ==
    /\ S \subseteq Waiting
    /\ \E r \in [S -> Terminal] :
          /\ state' = [j \in Jobs |-> IF j \in S THEN r[j] ELSE state[j]]
          /\ bell' = [j \in Jobs |-> IF j \in S \cap Requested THEN Kind(r[j]) ELSE bell[j]]
          /\ feed' = [j \in Jobs |-> IF j \in S THEN 1 ELSE feed[j]]

Next == (\E j \in Jobs : Enqueue(j)) \/ (\E S \in SUBSET Jobs : Settle(S))

Spec == Init /\ [][Next]_vars

\* Every job gets its turn.
FairSpec == Spec /\ \A j \in Jobs : WF_vars(\E S \in SUBSET Jobs : j \in S /\ Settle(S))
=============================================================================
