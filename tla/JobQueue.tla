------------------------------ MODULE JobQueue ------------------------------
(***************************************************************************)
(* What the ingestion_jobs table promises as a queue, without documents,   *)
(* transactions or statuses: a job is leased to one worker at a time,      *)
(* fails a bounded number of times, and ends at most once. A lease that    *)
(* is broken either returns the job or, once the job had really begun,     *)
(* loses it: nothing takes it up again.                                    *)
(***************************************************************************)
EXTENDS Naturals

CONSTANTS Jobs, Workers, MaxRetries, Nobody

VARIABLES
  state,    \* of each job
  holder,   \* the worker that has leased it
  failures  \* attempts that have failed

vars == <<state, holder, failures>>

States == {"absent", "waiting", "leased", "done", "dead", "lost"}

TypeOK ==
  /\ state \in [Jobs -> States]
  /\ holder \in [Jobs -> Workers \cup {Nobody}]
  /\ failures \in [Jobs -> 0..MaxRetries]

Init ==
  /\ state = [j \in Jobs |-> "absent"]
  /\ holder = [j \in Jobs |-> Nobody]
  /\ failures = [j \in Jobs |-> 0]

Submit(j) ==
  /\ state[j] = "absent"
  /\ state' = [state EXCEPT ![j] = "waiting"]
  /\ UNCHANGED <<holder, failures>>

\* A free worker takes a waiting job.
Lease(j, w) ==
  /\ state[j] = "waiting"
  /\ \A k \in Jobs : holder[k] # w
  /\ state' = [state EXCEPT ![j] = "leased"]
  /\ holder' = [holder EXCEPT ![j] = w]
  /\ UNCHANGED failures

\* The lease ends with the job in another state.
EndLease(j, to) ==
  /\ state[j] = "leased"
  /\ state' = [state EXCEPT ![j] = to]
  /\ holder' = [holder EXCEPT ![j] = Nobody]

Succeed(j) == EndLease(j, "done") /\ UNCHANGED failures

Fail(j) ==
  /\ failures' = [failures EXCEPT ![j] = @ + 1]
  /\ EndLease(j, IF failures'[j] = MaxRetries THEN "dead" ELSE "waiting")

\* Some workers are interrupted at once. A lost job is lost for good.
Interrupt(ws) ==
  LET broken == {j \in Jobs : holder[j] \in ws}
  IN  /\ broken # {}
      /\ \E lost \in SUBSET broken :
           state' = [j \in Jobs |-> CASE j \in lost -> "lost"
                                      [] j \in broken \ lost -> "waiting"
                                      [] OTHER -> state[j]]
      /\ holder' = [j \in Jobs |-> IF j \in broken THEN Nobody ELSE holder[j]]
      /\ UNCHANGED failures

Next ==
  \/ \E j \in Jobs : Submit(j) \/ Succeed(j) \/ Fail(j)
  \/ \E j \in Jobs, w \in Workers : Lease(j, w)
  \/ \E ws \in SUBSET Workers : Interrupt(ws)

Spec == Init /\ [][Next]_vars

=============================================================================
