---- MODULE MCJobRunner ----
(* JobRunner for TLC: with a supply of jobs that does not end.             *)
EXTENDS JobRunner

(* The number of a job that is over is used again, for another job: a job  *)
(* id is fresh, and what is over is read by no step of the runner.  So the *)
(* jobs on hand are bounded, and not those dispatched altogether.          *)
Recycle(j) ==
    LET w == job[j].ws
        others(entry) == entry.job # j
    IN  /\ job[j].status = "ended"
        /\ j \notin running /\ ~Contains(index[w], j)
        /\ job' = [job EXCEPT ![j] = NoJob]
        /\ ledger' = [ledger EXCEPT ![w] = SelectSeq(@, others)]
        /\ UNCHANGED <<cap, index, memory, crashes>>

EndlessSpec == Init /\ [][Next \/ \E j \in Jobs : Recycle(j)]_vars /\ Fairness
====
