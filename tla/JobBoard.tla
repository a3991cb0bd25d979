------------------------------- MODULE JobBoard -------------------------------
(***************************************************************************)
(* What the dispatch queue promises about its jobs, whoever runs them: a   *)
(* job is taken up once, by one worker; only that worker ends it; an ended *)
(* job is never taken up again; and a job whose worker is lost stays where *)
(* it is (nothing returns it to the queue).                                *)
(***************************************************************************)
CONSTANTS Job, Worker, NoWorker

VARIABLES state, owner

vars == <<state, owner>>

JobState == {"none", "QUEUED", "RUNNING", "COMPLETED", "FAILED", "deleted"}

Init ==
  /\ state = [j \in Job |-> "none"]
  /\ owner = [j \in Job |-> NoWorker]

Post(j) ==
  /\ state[j] = "none"
  /\ state' = [state EXCEPT ![j] = "QUEUED"]
  /\ UNCHANGED owner

Take(j, w) ==
  /\ state[j] = "QUEUED"
  /\ \A k \in Job : owner[k] # w
  /\ state' = [state EXCEPT ![j] = "RUNNING"]
  /\ owner' = [owner EXCEPT ![j] = w]

(* The owner ends the job, unless somebody has deleted it meanwhile. *)
End(j, outcome) ==
  /\ owner[j] # NoWorker
  /\ state' = [state EXCEPT ![j] = IF @ = "deleted" THEN @ ELSE outcome]
  /\ owner' = [owner EXCEPT ![j] = NoWorker]

Lose(j) ==
  /\ owner[j] # NoWorker
  /\ owner' = [owner EXCEPT ![j] = NoWorker]
  /\ UNCHANGED state

Delete ==
  /\ state' = [j \in Job |-> IF state[j] = "none" THEN "none" ELSE "deleted"]
  /\ UNCHANGED owner

Next ==
  \/ \E j \in Job : Post(j) \/ Lose(j)
  \/ \E j \in Job, w \in Worker : Take(j, w)
  \/ \E j \in Job, outcome \in {"COMPLETED", "FAILED"} : End(j, outcome)
  \/ Delete

Spec == Init /\ [][Next]_vars
==============================================================================
