------------------------------ MODULE JobPool ------------------------------
(***************************************************************************)
(* The host worker pool, runtime/platform/jobs.c.                          *)
(*                                                                         *)
(* One mutex protects the ring and its counters; a critical section is one *)
(* action here, because nothing inside it blocks except a condition wait,  *)
(* which gives the lock up as the thread goes to sleep.  The game's thread *)
(* (disc reads) and the render thread (raster bands) both call the pool,   *)
(* so Clients has more than one member.  A job is one submission, so every *)
(* member of Jobs is submitted at most once.                               *)
(***************************************************************************)
EXTENDS Naturals, FiniteSets

CONSTANTS Workers,   \* the threads mgs_jobs_create managed to start
          Clients,   \* the threads that submit and wait
          Jobs,      \* one member per call of mgs_jobs_submit
          Cap,       \* MGS_JOB_QUEUE_CAP
          NoJob

ASSUME WorkersAssumption == IsFiniteSet(Workers) /\ Workers # {}
ASSUME CapAssumption == Cap \in Nat \ {0}
ASSUME NoJobAssumption == NoJob \notin Jobs \cup Clients

VARIABLES queue, head, tail, count, inFlight, stopping,
          wpc,       \* where each worker is in worker_main
          wjob,      \* the job each worker copied out of the ring
          cpc,       \* what each client is doing with the pool
          status,    \* history: how far each job has come
          awaited,   \* history: what a client had submitted when it began to wait
          submitter, \* history: who submitted a job
          freed      \* mgs_jobs_destroy has joined everyone and freed the pool

ring == <<queue, head, tail, count>>
vars == <<queue, head, tail, count, inFlight, stopping, wpc, wjob, cpc,
          status, awaited, submitter, freed>>

WorkerPlaces == {"top", "asleep", "run", "ran", "exited"}
ClientPlaces == {"idle", "wait", "asleep", "gone"}
Statuses == {"new", "queued", "running", "done"}

Submitted(c) == {j \in Jobs : submitter[j] = c}
Busy == {w \in Workers : wpc[w] \in {"run", "ran"}}
Sleeping == {w \in Workers : wpc[w] = "asleep"}

Init ==
  /\ queue = [i \in 0..Cap-1 |-> NoJob]
  /\ head = 0 /\ tail = 0 /\ count = 0 /\ inFlight = 0
  /\ stopping = FALSE
  /\ wpc = [w \in Workers |-> "top"]
  /\ wjob = [w \in Workers |-> NoJob]
  /\ cpc = [c \in Clients |-> "idle"]
  /\ status = [j \in Jobs |-> "new"]
  /\ awaited = [c \in Clients |-> {}]
  /\ submitter = [j \in Jobs |-> NoJob]
  /\ freed = FALSE

-----------------------------------------------------------------------------
(* worker_main *)

WorkerSleep(w) ==
  /\ wpc[w] = "top" /\ count = 0 /\ ~stopping
  /\ wpc' = [wpc EXCEPT ![w] = "asleep"]
  /\ UNCHANGED <<ring, inFlight, stopping, wjob, cpc, status, awaited, submitter, freed>>

\* Mutant: a stopping worker leaves without draining the ring.
WorkerExitUndrained(w) ==
  /\ wpc[w] = "top" /\ stopping
  /\ wpc' = [wpc EXCEPT ![w] = "exited"]
  /\ UNCHANGED <<ring, inFlight, stopping, wjob, cpc, status, awaited, submitter, freed>>

WorkerExit(w) ==
  /\ wpc[w] = "top" /\ count = 0 /\ stopping
  /\ wpc' = [wpc EXCEPT ![w] = "exited"]
  /\ UNCHANGED <<ring, inFlight, stopping, wjob, cpc, status, awaited, submitter, freed>>

\* Mutant: the job in a worker's hands is not counted.
WorkerTakeUncounted(w) ==
  /\ wpc[w] = "top" /\ count > 0
  /\ wjob' = [wjob EXCEPT ![w] = queue[head]]
  /\ status' = [status EXCEPT ![queue[head]] = "running"]
  /\ head' = (head + 1) % Cap
  /\ count' = count - 1
  /\ wpc' = [wpc EXCEPT ![w] = "run"]
  /\ UNCHANGED <<queue, tail, inFlight, stopping, cpc, awaited, submitter, freed>>

WorkerTake(w) ==
  /\ wpc[w] = "top" /\ count > 0
  /\ wjob' = [wjob EXCEPT ![w] = queue[head]]
  /\ status' = [status EXCEPT ![queue[head]] = "running"]
  /\ head' = (head + 1) % Cap
  /\ count' = count - 1
  /\ inFlight' = inFlight + 1
  /\ wpc' = [wpc EXCEPT ![w] = "run"]
  /\ UNCHANGED <<queue, tail, stopping, cpc, awaited, submitter, freed>>

\* job.fn(job.user), outside the lock.
WorkerRun(w) ==
  /\ wpc[w] = "run"
  /\ status' = [status EXCEPT ![wjob[w]] = "done"]
  /\ wpc' = [wpc EXCEPT ![w] = "ran"]
  /\ UNCHANGED <<ring, inFlight, stopping, wjob, cpc, awaited, submitter, freed>>

\* Mutant: a signal where a broadcast is needed.
WakeOneClient ==
  LET first == CHOOSE c \in Clients : cpc[c] = "asleep" \/ \A d \in Clients : cpc[d] # "asleep"
  IN  IF cpc[first] = "asleep" THEN [cpc EXCEPT ![first] = "wait"] ELSE cpc

\* Every client asleep on all_done leaves pthread_cond_wait.
WakeClients == [c \in Clients |-> IF cpc[c] = "asleep" THEN "wait" ELSE cpc[c]]

WorkerFinish(w) ==
  /\ wpc[w] = "ran"
  /\ inFlight' = inFlight - 1
  /\ cpc' = IF count = 0 /\ inFlight' = 0 THEN WakeClients ELSE cpc
  /\ wpc' = [wpc EXCEPT ![w] = "top"]
  /\ wjob' = [wjob EXCEPT ![w] = NoJob]
  /\ UNCHANGED <<ring, stopping, status, awaited, submitter, freed>>

-----------------------------------------------------------------------------
(* mgs_jobs_submit, mgs_jobs_wait, mgs_jobs_destroy *)

\* Mutant: the full test is one late.
RefusesLate == stopping \/ count > Cap

Refuses == stopping \/ count = Cap

\* Mutant: submit forgets to signal.
SignalNobody == UNCHANGED wpc

\* pthread_cond_signal wakes one sleeper if there is any.
SignalWorker ==
  IF Sleeping = {} THEN UNCHANGED wpc
  ELSE \E w \in Sleeping : wpc' = [wpc EXCEPT ![w] = "top"]

Submit(c, j) ==
  /\ cpc[c] = "idle" /\ status[j] = "new"
  /\ ~Refuses
  /\ queue' = [queue EXCEPT ![tail] = j]
  /\ tail' = (tail + 1) % Cap
  /\ count' = count + 1
  /\ status' = [status EXCEPT ![j] = "queued"]
  /\ submitter' = [submitter EXCEPT ![j] = c]
  /\ SignalWorker
  /\ UNCHANGED <<head, inFlight, stopping, wjob, cpc, awaited, freed>>

\* The pool refused, so the caller runs the job itself.
SubmitInline(c, j) ==
  /\ cpc[c] = "idle" /\ status[j] = "new"
  /\ Refuses
  /\ status' = [status EXCEPT ![j] = "done"]
  /\ submitter' = [submitter EXCEPT ![j] = c]
  /\ UNCHANGED <<ring, inFlight, stopping, wpc, wjob, cpc, awaited, freed>>

WaitBegin(c) ==
  /\ cpc[c] = "idle"
  /\ cpc' = [cpc EXCEPT ![c] = "wait"]
  /\ awaited' = [awaited EXCEPT ![c] = Submitted(c)]
  /\ UNCHANGED <<ring, inFlight, stopping, wpc, wjob, status, submitter, freed>>

\* Mutant: an empty ring is taken for a finished pool.
MustWaitForRing == count # 0

MustWait == count # 0 \/ inFlight # 0

WaitSleep(c) ==
  /\ cpc[c] = "wait" /\ MustWait
  /\ cpc' = [cpc EXCEPT ![c] = "asleep"]
  /\ UNCHANGED <<ring, inFlight, stopping, wpc, wjob, status, awaited, submitter, freed>>

WaitReturn(c) ==
  /\ cpc[c] = "wait" /\ ~MustWait
  /\ cpc' = [cpc EXCEPT ![c] = "idle"]
  /\ UNCHANGED <<ring, inFlight, stopping, wpc, wjob, status, awaited, submitter, freed>>

\* A client makes its last call; main destroys the pool only afterwards.
Leave(c) ==
  /\ cpc[c] = "idle"
  /\ cpc' = [cpc EXCEPT ![c] = "gone"]
  /\ UNCHANGED <<ring, inFlight, stopping, wpc, wjob, status, awaited, submitter, freed>>

WakeWorkers == [w \in Workers |-> IF wpc[w] = "asleep" THEN "top" ELSE wpc[w]]

DestroyBegin ==
  /\ ~stopping /\ \A c \in Clients : cpc[c] = "gone"
  /\ stopping' = TRUE
  /\ wpc' = WakeWorkers
  /\ UNCHANGED <<ring, inFlight, wjob, cpc, status, awaited, submitter, freed>>

\* The joins return, and the pool's memory goes back to the host.
DestroyEnd ==
  /\ stopping /\ ~freed
  /\ \A w \in Workers : wpc[w] = "exited"
  /\ freed' = TRUE
  /\ UNCHANGED <<ring, inFlight, stopping, wpc, wjob, cpc, status, awaited, submitter>>

\* POSIX lets a condition wait return with nothing signalled.
SpuriousWake ==
  \/ \E w \in Sleeping : /\ wpc' = [wpc EXCEPT ![w] = "top"]
                         /\ UNCHANGED cpc
  \/ \E c \in Clients : /\ cpc[c] = "asleep"
                        /\ cpc' = [cpc EXCEPT ![c] = "wait"]
                        /\ UNCHANGED wpc

Spurious ==
  /\ SpuriousWake
  /\ UNCHANGED <<ring, inFlight, stopping, wjob, status, awaited, submitter, freed>>

-----------------------------------------------------------------------------
Worker(w) == WorkerSleep(w) \/ WorkerExit(w) \/ WorkerTake(w) \/ WorkerRun(w) \/ WorkerFinish(w)
Waiting(c) == WaitSleep(c) \/ WaitReturn(c)
Client(c) == Waiting(c) \/ WaitBegin(c) \/ Leave(c)
             \/ \E j \in Jobs : Submit(c, j) \/ SubmitInline(c, j)

Next == \/ \E w \in Workers : Worker(w)
        \/ \E c \in Clients : Client(c)
        \/ DestroyBegin \/ DestroyEnd \/ Spurious

\* The host schedules every thread that can run; nothing makes a client call.
Fairness == /\ \A w \in Workers : WF_vars(Worker(w))
            /\ \A c \in Clients : WF_vars(Waiting(c))
            /\ WF_vars(DestroyEnd)

Spec == Init /\ [][Next]_vars
FairSpec == Spec /\ Fairness

-----------------------------------------------------------------------------
(* Properties *)

\* Every variable stays in the range its C declaration and the ring allow.
TypeOK ==
  /\ queue \in [0..Cap-1 -> Jobs \cup {NoJob}]
  /\ head \in 0..Cap-1 /\ tail \in 0..Cap-1 /\ count \in 0..Cap
  /\ inFlight \in Nat /\ stopping \in BOOLEAN /\ freed \in BOOLEAN
  /\ wpc \in [Workers -> WorkerPlaces]
  /\ wjob \in [Workers -> Jobs \cup {NoJob}]
  /\ cpc \in [Clients -> ClientPlaces]
  /\ status \in [Jobs -> Statuses]
  /\ awaited \in [Clients -> SUBSET Jobs]
  /\ submitter \in [Jobs -> Clients \cup {NoJob}]

\* in_flight counts exactly the workers between their two critical sections,
\* and the ring's three numbers agree.
Accounting == /\ inFlight = Cardinality(Busy)
              /\ tail = (head + count) % Cap

\* A job a worker has started is in that worker's hands, and a queued one is
\* in an occupied slot of the ring: the two places a job can be.
RunningHeld == \A j \in Jobs :
  status[j] = "running" => \E w \in Workers : wpc[w] = "run" /\ wjob[w] = j
QueuedHeld == \A j \in Jobs :
  status[j] = "queued" => \E i \in 0..count-1 : queue[(head + i) % Cap] = j

\* What a client awaits has been submitted.
AwaitedSubmitted ==
  /\ \A j \in Jobs : status[j] = "new" => submitter[j] = NoJob
  /\ \A c \in Clients : \A j \in awaited[c] : status[j] # "new"

\* A worker leaves only a stopping pool with an empty ring, which no client
\* will fill again.
ShutdownOrder ==
  /\ stopping => \A c \in Clients : cpc[c] = "gone"
  /\ \A w \in Workers : wpc[w] = "exited" => stopping /\ count = 0
  /\ freed => \A w \in Workers : wpc[w] = "exited"

\* The inductive invariant of the pool: every job not yet done is in exactly
\* the place the counters say.
IInv == TypeOK /\ Accounting /\ RunningHeld /\ QueuedHeld /\ AwaitedSubmitted /\ ShutdownOrder

\* mgs_jobs_wait returns only when every job its caller had submitted before
\* the call has run to its end, whoever ran it (jobs.h: "Block until every
\* queued job has finished").
WaitMeansDone ==
  [][\A c \in Clients : cpc[c] = "wait" /\ cpc'[c] = "idle"
       => \A j \in awaited[c] : status[j] = "done"]_vars

\* mgs_jobs_destroy abandons nothing: a stopping pool drains its ring before
\* the last worker leaves it.
DestroyDrains == freed => \A j \in Jobs : status[j] \in {"new", "done"}

\* An accepted job is run and a waiting caller comes back, whoever sleeps and
\* whoever is woken meanwhile: submit wakes one worker, the last job to finish
\* every waiter.
NoneWaitsForEver ==
  /\ \A j \in Jobs : status[j] = "queued" ~> status[j] = "done"
  /\ \A c \in Clients : cpc[c] \in {"wait", "asleep"} ~> cpc[c] = "idle"

\* The pool is a FIFO of jobs, each run once.
Abstract == INSTANCE WorkQueue WITH
  pending <- [i \in 1..count |-> queue[(head + i - 1) % Cap]],
  running <- {j \in Jobs : status[j] = "running"},
  finished <- {j \in Jobs : status[j] = "done"}

ImplementsWorkQueue == Abstract!Spec
=============================================================================
