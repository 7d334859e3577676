----------------------------- MODULE WorkQueue -----------------------------
(***************************************************************************)
(* What the worker pool of runtime/platform/jobs.h promises its callers:   *)
(* an accepted job is started in the order it was accepted, runs exactly   *)
(* once, and is never lost.  JobPool.tla, the lock, the ring and the two   *)
(* condition variables, implements it.                                     *)
(***************************************************************************)
EXTENDS Sequences

CONSTANT Jobs

VARIABLES pending,   \* accepted jobs nobody has started, oldest first
          running,   \* jobs some worker is inside
          finished   \* jobs that have run, on a worker or inline

vars == <<pending, running, finished>>

Fresh(j) == /\ j \notin running \cup finished
            /\ \A i \in DOMAIN pending : pending[i] # j

Init == pending = <<>> /\ running = {} /\ finished = {}

Accept(j) == /\ Fresh(j)
             /\ pending' = Append(pending, j)
             /\ UNCHANGED <<running, finished>>

\* A refused job is run by the caller before the call that tried it returns.
RunInline(j) == /\ Fresh(j)
                /\ finished' = finished \cup {j}
                /\ UNCHANGED <<pending, running>>

Start == /\ pending # <<>>
         /\ running' = running \cup {Head(pending)}
         /\ pending' = Tail(pending)
         /\ UNCHANGED finished

Complete(j) == /\ j \in running
               /\ running' = running \ {j}
               /\ finished' = finished \cup {j}
               /\ UNCHANGED pending

Next == Start \/ \E j \in Jobs : Accept(j) \/ RunInline(j) \/ Complete(j)

Spec == Init /\ [][Next]_vars
=============================================================================
