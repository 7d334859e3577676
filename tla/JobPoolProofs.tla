--------------------------- MODULE JobPoolProofs ---------------------------
(***************************************************************************)
(* Proofs about JobPool for any number of workers, clients and jobs and    *)
(* any ring size.                                                          *)
(***************************************************************************)
EXTENDS JobPool, Sequences, FiniteSetTheorems, TLAPS

USE CapAssumption

-----------------------------------------------------------------------------
(* Ring arithmetic *)

\* An index that has gone at most once round the ring (jobs.c:54 and 139).
LEMMA RingSum ==
  ASSUME NEW h \in 0..Cap-1, NEW k \in 0..Cap
  PROVE  /\ (h + k) % Cap = IF h + k < Cap THEN h + k ELSE h + k - Cap
         /\ (h + k) % Cap \in 0..Cap-1
  OBVIOUS

LEMMA RingHere ==
  ASSUME NEW h \in 0..Cap-1
  PROVE  (h + 0) % Cap = h
  OBVIOUS

\* Taking the oldest entry renames the slots of the others by one.
LEMMA SlotAfterTake ==
  ASSUME NEW h \in 0..Cap-1, NEW i \in 1..Cap
  PROVE  (((h + 1) % Cap) + (i - 1)) % Cap = (h + i) % Cap
<1>1. /\ (h + 1) % Cap = IF h + 1 < Cap THEN h + 1 ELSE h + 1 - Cap
      /\ (h + 1) % Cap \in 0..Cap-1
  OBVIOUS
<1>2. (h + i) % Cap = IF h + i < Cap THEN h + i ELSE h + i - Cap
  OBVIOUS
<1> DEFINE g == (h + 1) % Cap
<1>3. (g + (i - 1)) % Cap = IF g + (i - 1) < Cap THEN g + (i - 1) ELSE g + (i - 1) - Cap
  <2> DEFINE k == i - 1
  <2>1. g \in 0..Cap-1 /\ k \in 0..Cap
    BY <1>1
  <2> HIDE DEF g, k
  <2>2. (g + k) % Cap = IF g + k < Cap THEN g + k ELSE g + k - Cap
    BY <2>1, RingSum
  <2> QED BY <2>2 DEF k
<1> QED BY <1>1, <1>2, <1>3

\* Two offsets within one lap are two slots.
LEMMA SlotsDistinct ==
  ASSUME NEW h \in 0..Cap-1, NEW i \in 0..Cap-1, NEW k \in 0..Cap-1, i # k
  PROVE  (h + i) % Cap # (h + k) % Cap
<1>1. (h + i) % Cap = IF h + i < Cap THEN h + i ELSE h + i - Cap
  BY RingSum
<1>2. (h + k) % Cap = IF h + k < Cap THEN h + k ELSE h + k - Cap
  BY RingSum
<1> QED BY <1>1, <1>2

\* The set in_flight counts is finite, and empty exactly when the count is 0.
LEMMA BusyFinite == IsFiniteSet(Busy) /\ Cardinality(Busy) \in Nat
<1>1. Busy \subseteq Workers BY DEF Busy
<1> QED BY <1>1, WorkersAssumption, FS_Subset, FS_CardinalityType

-----------------------------------------------------------------------------
(* The invariant holds initially and is kept by every action *)

LEMMA InitIInv == Init => IInv
<1> SUFFICES ASSUME Init PROVE IInv OBVIOUS
<1>1. TypeOK
  <2>1. head \in 0..Cap-1 /\ tail \in 0..Cap-1 /\ count \in 0..Cap
    BY DEF Init
  <2>2. queue \in [0..Cap-1 -> Jobs \cup {NoJob}]
    BY DEF Init
  <2> QED BY <2>1, <2>2 DEF Init, TypeOK, WorkerPlaces, ClientPlaces, Statuses
<1>2. Accounting
  <2>1. Busy = {} BY DEF Init, Busy
  <2>2. inFlight = Cardinality(Busy) BY <2>1, FS_EmptySet DEF Init
  <2>3. tail = (head + count) % Cap BY RingSum DEF Init
  <2> QED BY <2>2, <2>3 DEF Accounting
<1>3. RunningHeld /\ QueuedHeld BY DEF Init, RunningHeld, QueuedHeld
<1>4. AwaitedSubmitted BY DEF Init, AwaitedSubmitted
<1>5. ShutdownOrder BY WorkersAssumption DEF Init, ShutdownOrder
<1> QED BY <1>1, <1>2, <1>3, <1>4, <1>5 DEF IInv

LEMMA TakeIInv ==
  ASSUME IInv, NEW w \in Workers, WorkerTake(w)
  PROVE  IInv'
<1> USE DEF WorkerTake
<1>t. TypeOK BY DEF IInv
<1>1. TypeOK'
  <2>1. head' \in 0..Cap-1 BY <1>t, RingSum DEF TypeOK
  <2>2. count' \in 0..Cap /\ inFlight' \in Nat BY <1>t DEF TypeOK
  <2>3. status' \in [Jobs -> Statuses] BY <1>t DEF TypeOK, Statuses
  <2>4. wjob' \in [Workers -> Jobs \cup {NoJob}] BY <1>t DEF TypeOK
  <2>5. wpc' \in [Workers -> WorkerPlaces] BY <1>t DEF TypeOK, WorkerPlaces
  <2> QED BY <1>t, <2>1, <2>2, <2>3, <2>4, <2>5 DEF TypeOK
<1>2. Accounting'
  <2>1. Busy' = Busy \cup {w} /\ w \notin Busy
    BY <1>t DEF Busy, TypeOK
  <2>2. Cardinality(Busy') = Cardinality(Busy) + 1
    BY <2>1, BusyFinite, FS_AddElement
  <2>3. inFlight' = Cardinality(Busy')
    BY <2>2 DEF IInv, Accounting
  <2>4. tail' = (head' + count') % Cap
    <3>1. head \in 0..Cap-1 /\ count \in 1..Cap BY <1>t DEF TypeOK
    <3>2. (((head + 1) % Cap) + (count - 1)) % Cap = (head + count) % Cap
      BY <3>1, SlotAfterTake
    <3>3. tail = (head + count) % Cap BY DEF IInv, Accounting
    <3> QED BY <3>2, <3>3
  <2> QED BY <2>3, <2>4 DEF Accounting
<1>3. RunningHeld'
  <2> SUFFICES ASSUME NEW j \in Jobs, status'[j] = "running"
               PROVE  \E v \in Workers : wpc'[v] = "run" /\ wjob'[v] = j
    BY DEF RunningHeld
  <2>f. wpc' = [wpc EXCEPT ![w] = "run"] /\ wjob' = [wjob EXCEPT ![w] = queue[head]]
        /\ wpc \in [Workers -> WorkerPlaces] /\ wjob \in [Workers -> Jobs \cup {NoJob}]
        /\ wpc[w] = "top"
    BY <1>t DEF TypeOK
  <2>1. CASE j = queue[head]
    BY <2>f, <2>1
  <2>2. CASE j # queue[head]
    <3>1. status[j] = "running" BY <1>t, <2>2 DEF TypeOK
    <3>2. PICK v \in Workers : wpc[v] = "run" /\ wjob[v] = j
      BY <3>1 DEF IInv, RunningHeld
    <3> QED BY <2>f, <3>2
  <2> QED BY <2>1, <2>2
<1>4. QueuedHeld'
  <2> SUFFICES ASSUME NEW j \in Jobs, status'[j] = "queued"
               PROVE  \E i \in 0..count'-1 : queue'[(head' + i) % Cap] = j
    BY DEF QueuedHeld
  <2>1. status[j] = "queued" /\ j # queue[head]
    BY <1>t DEF TypeOK
  <2>2. PICK i \in 0..count-1 : queue[(head + i) % Cap] = j
    BY <2>1 DEF IInv, QueuedHeld
  <2>3. i # 0
    <3>1. head \in 0..Cap-1
      BY <1>t DEF TypeOK
    <3>2. (head + 0) % Cap = head
      BY <3>1, RingHere
    <3> QED BY <2>1, <2>2, <3>2
  <2>4. (head' + (i - 1)) % Cap = (head + i) % Cap
    <3>1. head \in 0..Cap-1 /\ i \in 1..Cap
      BY <1>t, <2>3 DEF TypeOK
    <3> QED BY <3>1, SlotAfterTake
  <2>5. i - 1 \in 0..count'-1
    BY <1>t, <2>3 DEF TypeOK
  <2> QED BY <2>2, <2>4, <2>5
<1>5. AwaitedSubmitted'
  BY <1>t DEF IInv, AwaitedSubmitted, TypeOK
<1>6. ShutdownOrder'
  BY <1>t DEF IInv, ShutdownOrder, TypeOK
<1> QED BY <1>1, <1>2, <1>3, <1>4, <1>5, <1>6 DEF IInv

LEMMA RunIInv ==
  ASSUME IInv, NEW w \in Workers, WorkerRun(w)
  PROVE  IInv'
<1> USE DEF WorkerRun, ring
<1>t. TypeOK BY DEF IInv
<1>1. TypeOK'
  BY <1>t DEF TypeOK, Statuses, WorkerPlaces
<1>2. Accounting'
  <2>1. Busy' = Busy BY <1>t DEF Busy, TypeOK
  <2> QED BY <2>1 DEF IInv, Accounting
<1>3. RunningHeld' BY <1>t DEF IInv, RunningHeld, TypeOK
<1>4. QueuedHeld' BY <1>t DEF IInv, QueuedHeld, TypeOK
<1>5. AwaitedSubmitted' BY <1>t DEF IInv, AwaitedSubmitted, TypeOK
<1>6. ShutdownOrder' BY <1>t DEF IInv, ShutdownOrder, TypeOK
<1> QED BY <1>1, <1>2, <1>3, <1>4, <1>5, <1>6 DEF IInv

LEMMA FinishIInv ==
  ASSUME IInv, NEW w \in Workers, WorkerFinish(w)
  PROVE  IInv'
<1> USE DEF WorkerFinish, ring
<1>t. TypeOK BY DEF IInv
<1>0. w \in Busy /\ Busy' = Busy \ {w}
  BY <1>t DEF Busy, TypeOK
<1>a. Cardinality(Busy') = Cardinality(Busy) - 1
  BY <1>0, BusyFinite, FS_RemoveElement
<1>b. inFlight' = Cardinality(Busy') /\ inFlight' \in Nat
  <2>1. IsFiniteSet(Busy') BY <1>0, BusyFinite, FS_RemoveElement
  <2>2. Cardinality(Busy') \in Nat BY <2>1, FS_CardinalityType
  <2> QED BY <1>a, <2>2 DEF IInv, Accounting
<1>1. TypeOK'
  <2>1. cpc' \in [Clients -> ClientPlaces]
    BY <1>t DEF TypeOK, WakeClients, ClientPlaces
  <2> QED BY <1>t, <1>b, <2>1 DEF TypeOK, WorkerPlaces
<1>2. Accounting' BY <1>b DEF IInv, Accounting
<1>3. RunningHeld' BY <1>t DEF IInv, RunningHeld, TypeOK
<1>4. QueuedHeld' BY <1>t DEF IInv, QueuedHeld, TypeOK
<1>5. AwaitedSubmitted' BY <1>t DEF IInv, AwaitedSubmitted, TypeOK
<1>6. ShutdownOrder' BY <1>t DEF IInv, ShutdownOrder, TypeOK, WakeClients
<1> QED BY <1>1, <1>2, <1>3, <1>4, <1>5, <1>6 DEF IInv

LEMMA SubmitIInv ==
  ASSUME IInv, NEW c \in Clients, NEW j \in Jobs, Submit(c, j)
  PROVE  IInv'
<1> USE DEF Submit, Refuses
<1>t. TypeOK BY DEF IInv
<1>r. head \in 0..Cap-1 /\ count \in 0..Cap-1 /\ tail = (head + count) % Cap
  BY <1>t DEF IInv, Accounting, TypeOK
<1>w. \/ wpc' = wpc
      \/ \E w \in Sleeping : wpc' = [wpc EXCEPT ![w] = "top"]
  BY DEF SignalWorker
<1>1. TypeOK'
  <2>1. tail' \in 0..Cap-1 /\ count' \in 0..Cap
    <3>1. tail \in 0..Cap-1 BY <1>t DEF TypeOK
    <3>2. (tail + 1) % Cap \in 0..Cap-1 BY <3>1, RingSum
    <3> QED BY <1>r, <3>2
  <2>2. wpc' \in [Workers -> WorkerPlaces]
    BY <1>t, <1>w DEF TypeOK, WorkerPlaces, Sleeping
  <2>3. queue' \in [0..Cap-1 -> Jobs \cup {NoJob}] BY <1>t DEF TypeOK
  <2>4. status' \in [Jobs -> Statuses] BY <1>t DEF TypeOK, Statuses
  <2>5. submitter' \in [Jobs -> Clients \cup {NoJob}] BY <1>t DEF TypeOK
  <2> QED BY <1>t, <2>1, <2>2, <2>3, <2>4, <2>5 DEF TypeOK
<1>2. Accounting'
  <2>1. Busy' = Busy BY <1>t, <1>w DEF Busy, TypeOK, Sleeping
  <2>2. tail' = (head' + count') % Cap
    <3>1. tail = IF head + count < Cap THEN head + count ELSE head + count - Cap
      BY <1>r, RingSum
    <3>2. tail \in 0..Cap-1 BY <1>t DEF TypeOK
    <3>3. (tail + 1) % Cap = IF tail + 1 < Cap THEN tail + 1 ELSE tail + 1 - Cap
      BY <3>2, RingSum
    <3>4. count + 1 \in 0..Cap BY <1>r
    <3>5. (head + (count + 1)) % Cap =
            IF head + (count + 1) < Cap THEN head + (count + 1) ELSE head + (count + 1) - Cap
      <4> DEFINE k == count + 1
      <4>1. k \in 0..Cap BY <3>4
      <4> HIDE DEF k
      <4>2. (head + k) % Cap = IF head + k < Cap THEN head + k ELSE head + k - Cap
        BY <1>r, <4>1, RingSum
      <4> QED BY <4>2 DEF k
    <3> QED BY <1>r, <3>1, <3>2, <3>3, <3>5
  <2> QED BY <2>1, <2>2 DEF IInv, Accounting
<1>3. RunningHeld'
  BY <1>t, <1>w DEF IInv, RunningHeld, TypeOK, Sleeping
<1>4. QueuedHeld'
  <2> SUFFICES ASSUME NEW k \in Jobs, status'[k] = "queued"
               PROVE  \E i \in 0..count'-1 : queue'[(head' + i) % Cap] = k
    BY DEF QueuedHeld
  <2>1. CASE k = j
    <3>1. count \in 0..count'-1 BY <1>r
    <3>2. (head + count) % Cap \in 0..Cap-1 BY <1>r, RingSum
    <3>3. queue'[(head' + count) % Cap] = j BY <1>t, <1>r, <3>2 DEF TypeOK
    <3> QED BY <2>1, <3>1, <3>3
  <2>2. CASE k # j
    <3>1. status[k] = "queued" BY <1>t, <2>2 DEF TypeOK
    <3>2. PICK i \in 0..count-1 : queue[(head + i) % Cap] = k
      BY <3>1 DEF IInv, QueuedHeld
    <3>3. i \in 0..Cap-1 /\ i # count /\ i \in 0..count'-1 BY <1>r
    <3>4. (head + i) % Cap # tail BY <1>r, <3>3, SlotsDistinct
    <3>5. (head + i) % Cap \in 0..Cap-1 BY <1>r, <3>3, RingSum
    <3>6. queue'[(head + i) % Cap] = k BY <1>t, <3>2, <3>4, <3>5 DEF TypeOK
    <3> QED BY <3>3, <3>6
  <2> QED BY <2>1, <2>2
<1>5. AwaitedSubmitted' BY <1>t DEF IInv, AwaitedSubmitted, TypeOK
<1>6. ShutdownOrder' BY <1>t, <1>w DEF IInv, ShutdownOrder, TypeOK, Sleeping
<1> QED BY <1>1, <1>2, <1>3, <1>4, <1>5, <1>6 DEF IInv

\* The actions that move only a worker's or a client's place in the code, or a
\* flag: the ring, the count of busy workers and the jobs stay put.
LEMMA PlaceChangeIInv ==
  ASSUME IInv, TypeOK', ShutdownOrder', AwaitedSubmitted',
         UNCHANGED <<queue, head, tail, count, inFlight, wjob>>,
         \A w \in Workers : wpc[w] \in {"run", "ran"} \/ wpc'[w] \in {"run", "ran"}
                             => wpc'[w] = wpc[w],
         \A j \in Jobs : status'[j] \in {"running", "queued"} => status'[j] = status[j]
  PROVE  IInv'
<1>t. TypeOK BY DEF IInv
<1>1. Busy' = Busy BY <1>t DEF Busy, TypeOK
<1>2. Accounting' BY <1>1 DEF IInv, Accounting
<1>3. RunningHeld' BY <1>t DEF IInv, RunningHeld
<1>4. QueuedHeld' BY DEF IInv, QueuedHeld
<1> QED BY <1>2, <1>3, <1>4 DEF IInv

LEMMA WorkerIdleIInv ==
  ASSUME IInv, NEW w \in Workers, WorkerSleep(w) \/ WorkerExit(w)
  PROVE  IInv'
<1> USE DEF WorkerSleep, WorkerExit, ring
<1>t. TypeOK BY DEF IInv
<1>1. TypeOK' BY <1>t DEF TypeOK, WorkerPlaces
<1>2. AwaitedSubmitted' BY <1>t DEF IInv, AwaitedSubmitted
<1>3. ShutdownOrder' BY <1>t DEF IInv, ShutdownOrder, TypeOK
<1>4. \A v \in Workers : wpc[v] \in {"run", "ran"} \/ wpc'[v] \in {"run", "ran"}
                           => wpc'[v] = wpc[v]
  BY <1>t DEF TypeOK
<1> QED BY <1>1, <1>2, <1>3, <1>4, PlaceChangeIInv

LEMMA ClientCallIInv ==
  ASSUME IInv, NEW c \in Clients,
         WaitBegin(c) \/ WaitSleep(c) \/ WaitReturn(c) \/ Leave(c)
  PROVE  IInv'
<1> USE DEF WaitBegin, WaitSleep, WaitReturn, Leave, ring
<1>t. TypeOK BY DEF IInv
<1>1. TypeOK' BY <1>t DEF TypeOK, ClientPlaces, Submitted
<1>2. AwaitedSubmitted'
  <2>1. \A j \in Submitted(c) : status[j] # "new"
    BY NoJobAssumption DEF IInv, AwaitedSubmitted, Submitted
  <2> QED BY <1>t, <2>1 DEF IInv, AwaitedSubmitted, TypeOK
<1>3. ShutdownOrder' BY <1>t DEF IInv, ShutdownOrder, TypeOK
<1> QED BY <1>1, <1>2, <1>3, PlaceChangeIInv

LEMMA SubmitInlineIInv ==
  ASSUME IInv, NEW c \in Clients, NEW j \in Jobs, SubmitInline(c, j)
  PROVE  IInv'
<1> USE DEF SubmitInline, ring
<1>t. TypeOK BY DEF IInv
<1>1. TypeOK' BY <1>t DEF TypeOK, Statuses
<1>2. AwaitedSubmitted' BY <1>t DEF IInv, AwaitedSubmitted, TypeOK
<1>3. ShutdownOrder' BY DEF IInv, ShutdownOrder
<1>4. \A k \in Jobs : status'[k] \in {"running", "queued"} => status'[k] = status[k]
  BY <1>t DEF TypeOK
<1> QED BY <1>1, <1>2, <1>3, <1>4, PlaceChangeIInv

LEMMA DestroyIInv ==
  ASSUME IInv, DestroyBegin \/ DestroyEnd
  PROVE  IInv'
<1> USE DEF DestroyBegin, DestroyEnd, ring
<1>t. TypeOK BY DEF IInv
<1>1. TypeOK' BY <1>t DEF TypeOK, WakeWorkers, WorkerPlaces
<1>2. AwaitedSubmitted' BY DEF IInv, AwaitedSubmitted
<1>3. ShutdownOrder' BY <1>t DEF IInv, ShutdownOrder, TypeOK, WakeWorkers
<1>4. \A v \in Workers : wpc[v] \in {"run", "ran"} \/ wpc'[v] \in {"run", "ran"}
                           => wpc'[v] = wpc[v]
  BY <1>t DEF TypeOK, WakeWorkers
<1> QED BY <1>1, <1>2, <1>3, <1>4, PlaceChangeIInv

LEMMA SpuriousIInv ==
  ASSUME IInv, Spurious
  PROVE  IInv'
<1> USE DEF Spurious, SpuriousWake, ring
<1>t. TypeOK BY DEF IInv
<1>1. TypeOK' BY <1>t DEF TypeOK, WorkerPlaces, ClientPlaces, Sleeping
<1>2. AwaitedSubmitted' BY DEF IInv, AwaitedSubmitted
<1>3. ShutdownOrder' BY <1>t DEF IInv, ShutdownOrder, TypeOK, Sleeping
<1>4. \A v \in Workers : wpc[v] \in {"run", "ran"} \/ wpc'[v] \in {"run", "ran"}
                           => wpc'[v] = wpc[v]
  BY <1>t DEF TypeOK, Sleeping
<1> QED BY <1>1, <1>2, <1>3, <1>4, PlaceChangeIInv

LEMMA StepIInv == IInv /\ [Next]_vars => IInv'
<1> SUFFICES ASSUME IInv, [Next]_vars PROVE IInv' OBVIOUS
<1>1. ASSUME NEW w \in Workers, Worker(w) PROVE IInv'
  BY <1>1, WorkerIdleIInv, TakeIInv, RunIInv, FinishIInv DEF Worker
<1>2. ASSUME NEW c \in Clients, Client(c) PROVE IInv'
  BY <1>2, ClientCallIInv, SubmitIInv, SubmitInlineIInv DEF Client, Waiting
<1>3. CASE DestroyBegin \/ DestroyEnd BY <1>3, DestroyIInv
<1>4. CASE Spurious BY <1>4, SpuriousIInv
<1>5. CASE UNCHANGED vars
  BY <1>5 DEF vars, IInv, TypeOK, Accounting, Busy, RunningHeld, QueuedHeld,
              AwaitedSubmitted, ShutdownOrder
<1> QED BY <1>1, <1>2, <1>3, <1>4, <1>5 DEF Next

-----------------------------------------------------------------------------
(* Theorems *)

\* Every reachable state of the pool satisfies the inductive invariant: the
\* counters, the ring and the workers' hands account for every job not done.
THEOREM PoolInvariant == Spec => []IInv
<1>1. Init => IInv BY InitIInv
<1>2. IInv /\ [Next]_vars => IInv' BY StepIInv
<1> QED BY <1>1, <1>2, PTL DEF Spec

\* An idle pool holds no job: with nothing queued and nothing in flight, what
\* was submitted is done.  This is the fact mgs_jobs_wait relies on.
LEMMA IdleMeansDone ==
  ASSUME IInv, ~MustWait, NEW j \in Jobs, status[j] # "new"
  PROVE  status[j] = "done"
<1>1. Busy = {}
  <2>1. Cardinality(Busy) = 0 BY DEF IInv, Accounting, MustWait
  <2> QED BY <2>1, BusyFinite, FS_EmptySet
<1>2. status[j] # "running"
  BY <1>1 DEF IInv, RunningHeld, Busy
<1>3. status[j] # "queued"
  <2>1. 0..count-1 = {} BY DEF MustWait
  <2> QED BY <2>1 DEF IInv, QueuedHeld
<1> QED BY <1>2, <1>3 DEF IInv, TypeOK, Statuses

\* mgs_jobs_wait returns only when every job its caller had submitted is done,
\* for any number of workers, callers and jobs (jobs.c:146).
THEOREM WaitTheorem == Spec => WaitMeansDone
<1>1. IInv /\ [Next]_vars =>
        [\A c \in Clients : cpc[c] = "wait" /\ cpc'[c] = "idle"
           => \A j \in awaited[c] : status[j] = "done"]_vars
  <2> SUFFICES ASSUME IInv, Next, NEW c \in Clients, cpc[c] = "wait", cpc'[c] = "idle",
                      NEW j \in awaited[c]
               PROVE  status[j] = "done"
    OBVIOUS
  <2>t. TypeOK BY DEF IInv
  <2>1. ~MustWait
    <3>1. ASSUME NEW w \in Workers, Worker(w) PROVE FALSE
      BY <3>1, <2>t DEF Worker, WorkerSleep, WorkerExit, WorkerTake, WorkerRun,
                       WorkerFinish, WakeClients, TypeOK
    <3>2. ASSUME NEW d \in Clients, Client(d) PROVE ~MustWait
      BY <3>2, <2>t DEF Client, Waiting, WaitSleep, WaitReturn, WaitBegin, Leave,
                       Submit, SubmitInline, TypeOK
    <3>3. ASSUME DestroyBegin \/ DestroyEnd \/ Spurious PROVE FALSE
      BY <3>3, <2>t DEF DestroyBegin, DestroyEnd, Spurious, SpuriousWake, TypeOK
    <3> QED BY <3>1, <3>2, <3>3 DEF Next
  <2>2. j \in Jobs /\ status[j] # "new"
    BY <2>t DEF IInv, AwaitedSubmitted, TypeOK
  <2> QED BY <2>1, <2>2, IdleMeansDone
<1> QED BY <1>1, PoolInvariant, PTL DEF Spec, WaitMeansDone

\* Destroying the pool abandons no accepted job (jobs.c:108).
THEOREM DestroyTheorem == Spec => []DestroyDrains
<1>1. IInv => DestroyDrains
  <2> SUFFICES ASSUME IInv, freed, NEW j \in Jobs PROVE status[j] \in {"new", "done"}
    BY DEF DestroyDrains
  <2>1. Busy = {} BY DEF IInv, ShutdownOrder, Busy
  <2>2. count = 0 BY WorkersAssumption DEF IInv, ShutdownOrder
  <2>3. inFlight = 0 BY <2>1, FS_EmptySet DEF IInv, Accounting
  <2> QED BY <2>2, <2>3, IdleMeansDone DEF MustWait
<1> QED BY <1>1, PoolInvariant, PTL

-----------------------------------------------------------------------------
(* The pool implements WorkQueue *)

\* Nothing is in the ring twice, in two hands, or both: with QueuedHeld and
\* RunningHeld, a job that is not done is in exactly one place.
EachOnce ==
  /\ \A i \in 0..count-1 : /\ queue[(head + i) % Cap] \in Jobs
                           /\ status[queue[(head + i) % Cap]] = "queued"
  /\ \A i, k \in 0..count-1 : queue[(head + i) % Cap] = queue[(head + k) % Cap] => i = k
  /\ \A w \in Workers : wpc[w] = "run" => wjob[w] \in Jobs /\ status[wjob[w]] = "running"
  /\ \A v, w \in Workers : wpc[v] = "run" /\ wpc[w] = "run" /\ wjob[v] = wjob[w] => v = w

\* A new entry goes behind the others, which stay where they are (jobs.c:137-140).
LEMMA RingAfterSubmit ==
  ASSUME IInv, NEW c \in Clients, NEW j \in Jobs, Submit(c, j)
  PROVE  /\ count' = count + 1 /\ count \in Nat
         /\ queue'[(head' + count) % Cap] = j
         /\ \A i \in 0..count-1 : queue'[(head' + i) % Cap] = queue[(head + i) % Cap]
<1> USE DEF Submit, Refuses
<1>t. TypeOK BY DEF IInv
<1>r. head \in 0..Cap-1 /\ count \in 0..Cap-1 /\ tail = (head + count) % Cap /\ head' = head
  BY <1>t DEF IInv, Accounting, TypeOK
<1>1. queue'[(head' + count) % Cap] = j
  <2>1. (head + count) % Cap \in 0..Cap-1 BY <1>r, RingSum
  <2> QED BY <1>t, <1>r, <2>1 DEF TypeOK
<1>2. ASSUME NEW i \in 0..count-1
      PROVE  queue'[(head' + i) % Cap] = queue[(head + i) % Cap]
  <2>1. i \in 0..Cap-1 /\ i # count BY <1>r
  <2>2. (head + i) % Cap # tail BY <1>r, <2>1, SlotsDistinct
  <2>3. (head + i) % Cap \in 0..Cap-1 BY <1>r, <2>1, RingSum
  <2> QED BY <1>t, <1>r, <2>2, <2>3 DEF TypeOK
<1> QED BY <1>r, <1>1, <1>2

\* The oldest entry goes, and the others move up by one (jobs.c:53-55).
LEMMA RingAfterTake ==
  ASSUME IInv, NEW w \in Workers, WorkerTake(w)
  PROVE  /\ count \in Nat \ {0} /\ count' = count - 1
         /\ queue[head] = queue[(head + 0) % Cap]
         /\ \A i \in 1..count-1 : queue'[(head' + (i - 1)) % Cap] = queue[(head + i) % Cap]
         /\ \A i \in 0..count'-1 : queue'[(head' + i) % Cap] = queue[(head + (i + 1)) % Cap]
<1> USE DEF WorkerTake
<1>t. TypeOK BY DEF IInv
<1>r. head \in 0..Cap-1 /\ count \in 1..Cap /\ count' = count - 1 /\ queue' = queue
  BY <1>t DEF TypeOK
<1>1. queue[head] = queue[(head + 0) % Cap] BY <1>r, RingHere
<1>2. ASSUME NEW i \in 1..count-1
      PROVE  (head' + (i - 1)) % Cap = (head + i) % Cap
  <2>1. i \in 1..Cap BY <1>r
  <2> QED BY <1>r, <2>1, SlotAfterTake
<1>3. ASSUME NEW i \in 0..count'-1
      PROVE  (head' + i) % Cap = (head + (i + 1)) % Cap
  <2> DEFINE k == i + 1
  <2>1. k \in 1..count-1 /\ k - 1 = i BY <1>r
  <2> HIDE DEF k
  <2>2. (head' + (k - 1)) % Cap = (head + k) % Cap BY <1>2, <2>1
  <2> QED BY <2>1, <2>2 DEF k
<1>4. \A i \in 1..count-1 : queue'[(head' + (i - 1)) % Cap] = queue[(head + i) % Cap]
  BY <1>r, <1>2
<1>5. \A i \in 0..count'-1 : queue'[(head' + i) % Cap] = queue[(head + (i + 1)) % Cap]
  BY <1>r, <1>3
<1>6. count \in Nat \ {0} /\ count' = count - 1 BY <1>r
<1> QED BY <1>1, <1>4, <1>5, <1>6

\* A step that leaves ring and hands alone, and starts no job, keeps EachOnce.
LEMMA SameHandsOnce ==
  ASSUME IInv, EachOnce, UNCHANGED <<queue, head, count>>,
         \A w \in Workers : wpc'[w] = "run" => wpc[w] = "run" /\ wjob'[w] = wjob[w],
         \A j \in Jobs : status[j] \in {"running", "queued"} => status'[j] = status[j]
  PROVE  EachOnce'
BY DEF EachOnce

LEMMA SubmitOnce ==
  ASSUME IInv, EachOnce, NEW c \in Clients, NEW j \in Jobs, Submit(c, j)
  PROVE  EachOnce'
<1>t. TypeOK BY DEF IInv
<1>r. /\ count' = count + 1 /\ count \in Nat
      /\ queue'[(head' + count) % Cap] = j
      /\ \A i \in 0..count-1 : queue'[(head' + i) % Cap] = queue[(head + i) % Cap]
  BY RingAfterSubmit
<1>s. status[j] = "new" /\ status' = [status EXCEPT ![j] = "queued"] /\ wjob' = wjob
  BY DEF Submit
<1>w. \A w \in Workers : wpc'[w] = "run" => wpc[w] = "run"
  BY <1>t DEF Submit, SignalWorker, Sleeping, TypeOK
<1>1. \A i \in 0..count'-1 : i = count \/ i \in 0..count-1
  BY <1>r
<1>2. \A i \in 0..count'-1 : /\ queue'[(head' + i) % Cap] \in Jobs
                             /\ status'[queue'[(head' + i) % Cap]] = "queued"
  BY <1>t, <1>r, <1>s, <1>1 DEF EachOnce, TypeOK
<1>3. \A i \in 0..count-1 : queue'[(head' + i) % Cap] # j
  BY <1>r, <1>s DEF EachOnce
<1>4. \A i, k \in 0..count'-1 : queue'[(head' + i) % Cap] = queue'[(head' + k) % Cap] => i = k
  <2> SUFFICES ASSUME NEW i \in 0..count'-1, NEW k \in 0..count'-1,
                      queue'[(head' + i) % Cap] = queue'[(head' + k) % Cap]
               PROVE  i = k
    OBVIOUS
  <2>1. CASE i = count \/ k = count BY <1>1, <1>3, <1>r, <2>1
  <2>2. CASE i \in 0..count-1 /\ k \in 0..count-1
    BY <1>r, <2>2 DEF EachOnce
  <2> QED BY <1>1, <2>1, <2>2
<1>5. \A w \in Workers : wpc'[w] = "run" => wjob'[w] \in Jobs /\ status'[wjob'[w]] = "running"
  BY <1>t, <1>s, <1>w DEF EachOnce, TypeOK
<1>6. \A v, w \in Workers : wpc'[v] = "run" /\ wpc'[w] = "run" /\ wjob'[v] = wjob'[w] => v = w
  BY <1>s, <1>w DEF EachOnce
<1> QED BY <1>2, <1>4, <1>5, <1>6 DEF EachOnce

LEMMA TakeOnce ==
  ASSUME IInv, EachOnce, NEW w \in Workers, WorkerTake(w)
  PROVE  EachOnce'
<1>t. TypeOK BY DEF IInv
<1> DEFINE oldest == queue[head]
<1>r. /\ count \in Nat \ {0} /\ count' = count - 1
      /\ oldest = queue[(head + 0) % Cap]
      /\ \A i \in 0..count'-1 : queue'[(head' + i) % Cap] = queue[(head + (i + 1)) % Cap]
  BY RingAfterTake
<1>s. /\ status' = [status EXCEPT ![oldest] = "running"]
      /\ wjob' = [wjob EXCEPT ![w] = oldest] /\ wpc' = [wpc EXCEPT ![w] = "run"]
  BY DEF WorkerTake
<1>o. oldest \in Jobs /\ status[oldest] = "queued"
  <2>1. 0 \in 0..count-1 BY <1>r
  <2> HIDE DEF oldest
  <2> QED BY <1>r, <2>1 DEF EachOnce
<1>0. \A i \in 1..count-1 : queue[(head + i) % Cap] # oldest
  <2>1. 0 \in 0..count-1 /\ \A i \in 1..count-1 : i \in 0..count-1 /\ i # 0 BY <1>r
  <2> HIDE DEF oldest
  <2> QED BY <1>r, <2>1 DEF EachOnce
<1>1. \A i \in 0..count'-1 : (i + 1) \in 1..count-1 /\ (i + 1) \in 0..count-1
  BY <1>r
<1> HIDE DEF oldest
<1>2. \A i \in 0..count'-1 : /\ queue'[(head' + i) % Cap] \in Jobs
                             /\ status'[queue'[(head' + i) % Cap]] = "queued"
  <2> SUFFICES ASSUME NEW i \in 0..count'-1
               PROVE  /\ queue'[(head' + i) % Cap] \in Jobs
                      /\ status'[queue'[(head' + i) % Cap]] = "queued"
    OBVIOUS
  <2>1. PICK k \in 1..count-1 : k = i + 1 /\ k \in 0..count-1 BY <1>1
  <2>2. PICK j \in Jobs : j = queue[(head + k) % Cap] /\ status[j] = "queued"
    BY <2>1 DEF EachOnce
  <2>3. queue'[(head' + i) % Cap] = j BY <1>r, <2>1, <2>2
  <2>4. j # oldest BY <1>0, <2>2
  <2>5. status'[j] = "queued" BY <1>t, <1>s, <2>2, <2>4 DEF TypeOK
  <2> QED BY <2>3, <2>5
<1>4. \A i, k \in 0..count'-1 : queue'[(head' + i) % Cap] = queue'[(head' + k) % Cap] => i = k
  <2> SUFFICES ASSUME NEW i \in 0..count'-1, NEW k \in 0..count'-1,
                      queue'[(head' + i) % Cap] = queue'[(head' + k) % Cap]
               PROVE  i = k
    OBVIOUS
  <2>1. i + 1 = k + 1 BY <1>r, <1>1 DEF EachOnce
  <2> QED BY <2>1
<1>5. \A v \in Workers : wpc'[v] = "run" => wjob'[v] \in Jobs /\ status'[wjob'[v]] = "running"
  BY <1>t, <1>s, <1>o DEF EachOnce, TypeOK
<1>6. \A u, v \in Workers : wpc'[u] = "run" /\ wpc'[v] = "run" /\ wjob'[u] = wjob'[v] => u = v
  BY <1>t, <1>s, <1>o DEF EachOnce, TypeOK
<1> QED BY <1>2, <1>4, <1>5, <1>6 DEF EachOnce

LEMMA RunOnce ==
  ASSUME IInv, EachOnce, NEW w \in Workers, WorkerRun(w)
  PROVE  EachOnce'
<1>t. TypeOK BY DEF IInv
<1>s. /\ status' = [status EXCEPT ![wjob[w]] = "done"] /\ wpc' = [wpc EXCEPT ![w] = "ran"]
      /\ wpc[w] = "run" /\ wjob' = wjob /\ UNCHANGED <<queue, head, count>>
  BY DEF WorkerRun, ring
<1>1. wjob[w] \in Jobs /\ status[wjob[w]] = "running" BY <1>s DEF EachOnce
<1>2. \A v \in Workers : wpc'[v] = "run" => v # w /\ wpc[v] = "run" /\ wjob[v] # wjob[w]
  BY <1>t, <1>s DEF EachOnce, TypeOK
<1>3. \A j \in Jobs : j # wjob[w] => status'[j] = status[j]
  BY <1>t, <1>s DEF TypeOK
<1> QED BY <1>s, <1>1, <1>2, <1>3 DEF EachOnce

LEMMA InitOnce == Init => EachOnce
BY DEF Init, EachOnce

LEMMA StepOnce == IInv /\ EachOnce /\ [Next]_vars => EachOnce'
<1> SUFFICES ASSUME IInv, EachOnce, [Next]_vars PROVE EachOnce' OBVIOUS
<1>t. TypeOK BY DEF IInv
<1>1. ASSUME NEW w \in Workers, Worker(w) PROVE EachOnce'
  <2>1. CASE WorkerSleep(w) \/ WorkerExit(w)
    BY <1>t, <2>1, SameHandsOnce DEF WorkerSleep, WorkerExit, ring, TypeOK
  <2>2. CASE WorkerFinish(w)
    BY <1>t, <2>2, SameHandsOnce DEF WorkerFinish, ring, TypeOK
  <2> QED BY <1>1, <2>1, <2>2, TakeOnce, RunOnce DEF Worker
<1>2. ASSUME NEW c \in Clients, Client(c) PROVE EachOnce'
  <2>1. CASE Waiting(c) \/ WaitBegin(c) \/ Leave(c)
    BY <2>1, SameHandsOnce DEF Waiting, WaitSleep, WaitReturn, WaitBegin, Leave, ring
  <2>2. ASSUME NEW j \in Jobs, SubmitInline(c, j) PROVE EachOnce'
    BY <1>t, <2>2, SameHandsOnce DEF SubmitInline, ring, TypeOK
  <2> QED BY <1>2, <2>1, <2>2, SubmitOnce DEF Client
<1>3. CASE DestroyBegin \/ DestroyEnd
  BY <1>t, <1>3, SameHandsOnce DEF DestroyBegin, DestroyEnd, WakeWorkers, ring, TypeOK
<1>4. CASE Spurious
  BY <1>t, <1>4, SameHandsOnce DEF Spurious, SpuriousWake, Sleeping, ring, TypeOK
<1>5. CASE UNCHANGED vars
  BY <1>5 DEF vars, EachOnce
<1> QED BY <1>1, <1>2, <1>3, <1>4, <1>5 DEF Next

\* The refinement mapping, by name.
pendingBar == [i \in 1..count |-> queue[(head + i - 1) % Cap]]
runningBar == {j \in Jobs : status[j] = "running"}
finishedBar == {j \in Jobs : status[j] = "done"}

\* A stretch of the ring, read from its oldest entry, is a sequence.
LEMMA Offsets ==
  ASSUME NEW n \in Nat, NEW h \in Nat
  PROVE  \A i \in 1..n : i - 1 \in 0..n-1 /\ h + i - 1 = h + (i - 1)
OBVIOUS

LEMMA AsSequence ==
  ASSUME NEW n \in Nat, NEW s \in [1..n -> Jobs]
  PROVE  s \in Seq(Jobs) /\ Len(s) = n
OBVIOUS

LEMMA PendingIs ==
  ASSUME IInv, EachOnce
  PROVE  /\ pendingBar \in Seq(Jobs) /\ Len(pendingBar) = count
         /\ \A i \in 1..count : /\ i - 1 \in 0..count-1
                                /\ pendingBar[i] = queue[(head + (i - 1)) % Cap]
<1>1. count \in Nat /\ head \in Nat BY DEF IInv, TypeOK
<1>2. \A i \in 1..count : i - 1 \in 0..count-1 /\ head + i - 1 = head + (i - 1)
  BY <1>1, Offsets
<1>3. \A i \in 1..count : pendingBar[i] = queue[(head + (i - 1)) % Cap]
  BY <1>2 DEF pendingBar
<1>4. pendingBar \in [1..count -> Jobs]
  BY <1>2 DEF pendingBar, EachOnce
<1>5. pendingBar \in Seq(Jobs) /\ Len(pendingBar) = count
  BY <1>1, <1>4, AsSequence
<1> QED BY <1>2, <1>3, <1>5

LEMMA PendingIsNext ==
  ASSUME IInv', EachOnce'
  PROVE  /\ pendingBar' \in Seq(Jobs) /\ Len(pendingBar') = count'
         /\ \A i \in 1..count' : /\ i - 1 \in 0..count'-1
                                 /\ pendingBar'[i] = queue'[(head' + (i - 1)) % Cap]
<1>1. count' \in Nat /\ head' \in Nat BY DEF IInv, TypeOK
<1>2. \A i \in 1..count' : i - 1 \in 0..count'-1 /\ head' + i - 1 = head' + (i - 1)
  BY <1>1, Offsets
<1>3. \A i \in 1..count' : pendingBar'[i] = queue'[(head' + (i - 1)) % Cap]
  BY <1>2 DEF pendingBar
<1>4. pendingBar' \in [1..count' -> Jobs]
  BY <1>2 DEF pendingBar, EachOnce
<1>5. pendingBar' \in Seq(Jobs) /\ Len(pendingBar') = count'
  BY <1>1, <1>4, AsSequence
<1> QED BY <1>2, <1>3, <1>5

\* A submission is an acceptance.
LEMMA SubmitAccepts ==
  ASSUME IInv, EachOnce, IInv', EachOnce', NEW c \in Clients, NEW j \in Jobs, Submit(c, j)
  PROVE  Abstract!Accept(j)
<1>t. TypeOK BY DEF IInv
<1>r. /\ count' = count + 1 /\ count \in Nat
      /\ queue'[(head' + count) % Cap] = j
      /\ \A i \in 0..count-1 : queue'[(head' + i) % Cap] = queue[(head + i) % Cap]
  BY RingAfterSubmit
<1>s. status[j] = "new" /\ status' = [status EXCEPT ![j] = "queued"]
  BY DEF Submit
<1>p. /\ pendingBar \in Seq(Jobs) /\ Len(pendingBar) = count
      /\ \A i \in 1..count : i - 1 \in 0..count-1 /\ pendingBar[i] = queue[(head + (i - 1)) % Cap]
  BY PendingIs
<1>q. /\ pendingBar' \in Seq(Jobs) /\ Len(pendingBar') = count'
      /\ \A i \in 1..count' : pendingBar'[i] = queue'[(head' + (i - 1)) % Cap]
  BY PendingIsNext
<1>1. j \notin runningBar \cup finishedBar /\ \A i \in DOMAIN pendingBar : pendingBar[i] # j
  <2>1. DOMAIN pendingBar = 1..count BY DEF pendingBar
  <2> QED BY <1>s, <1>p, <2>1 DEF runningBar, finishedBar, EachOnce
<1>2. pendingBar' = Append(pendingBar, j)
  <2>1. \A i \in 1..count : pendingBar'[i] = pendingBar[i]
    <3> SUFFICES ASSUME NEW i \in 1..count PROVE pendingBar'[i] = pendingBar[i] OBVIOUS
    <3>1. PICK k \in 0..count-1 : k = i - 1 BY <1>p
    <3>2. i \in 1..count' BY <1>r
    <3> QED BY <1>p, <1>q, <1>r, <3>1, <3>2
  <2>2. pendingBar'[count + 1] = j
    <3>1. count + 1 \in 1..count' /\ (count + 1) - 1 = count BY <1>r
    <3> QED BY <3>1, <1>q, <1>r
  <2> HIDE DEF pendingBar
  <2> QED BY <2>1, <2>2, <1>p, <1>q, <1>r
<1>3. runningBar' = runningBar /\ finishedBar' = finishedBar
  BY <1>t, <1>s DEF runningBar, finishedBar, TypeOK
<1> QED BY <1>1, <1>2, <1>3 DEF Abstract!Accept, Abstract!Fresh, pendingBar, runningBar, finishedBar

\* A worker that takes a job starts the oldest one.
LEMMA TakeStarts ==
  ASSUME IInv, EachOnce, IInv', EachOnce', NEW w \in Workers, WorkerTake(w)
  PROVE  Abstract!Start
<1>t. TypeOK BY DEF IInv
<1>r. /\ count \in Nat \ {0} /\ count' = count - 1
      /\ queue[head] = queue[(head + 0) % Cap]
      /\ \A i \in 0..count'-1 : queue'[(head' + i) % Cap] = queue[(head + (i + 1)) % Cap]
  BY RingAfterTake
<1>p. /\ pendingBar \in Seq(Jobs) /\ Len(pendingBar) = count
      /\ \A i \in 1..count : i - 1 \in 0..count-1 /\ pendingBar[i] = queue[(head + (i - 1)) % Cap]
  BY PendingIs
<1>q. /\ pendingBar' \in Seq(Jobs) /\ Len(pendingBar') = count'
      /\ \A i \in 1..count' : i - 1 \in 0..count'-1 /\ pendingBar'[i] = queue'[(head' + (i - 1)) % Cap]
  BY PendingIsNext
<1>1. pendingBar # <<>> /\ Head(pendingBar) = queue[head]
  <2>1. 1 \in 1..count /\ 1 - 1 = 0 BY <1>r
  <2>2. pendingBar[1] = queue[head] BY <1>p, <1>r, <2>1
  <2> HIDE DEF pendingBar
  <2> QED BY <1>p, <1>r, <2>2
<1>2. pendingBar' = Tail(pendingBar)
  <2>1. \A i \in 1..count' : pendingBar'[i] = pendingBar[i + 1]
    <3> SUFFICES ASSUME NEW i \in 1..count' PROVE pendingBar'[i] = pendingBar[i + 1] OBVIOUS
    <3>1. i - 1 \in 0..count'-1 /\ i + 1 \in 1..count /\ (i - 1) + 1 = (i + 1) - 1 BY <1>r
    <3>2. pendingBar'[i] = queue[(head + ((i - 1) + 1)) % Cap] BY <1>q, <1>r, <3>1
    <3> QED BY <1>p, <3>1, <3>2
  <2> HIDE DEF pendingBar
  <2> QED BY <2>1, <1>p, <1>q, <1>r
<1>3. queue[head] \in Jobs /\ status[queue[head]] = "queued"
  <2>1. 0 \in 0..count-1 BY <1>r
  <2> QED BY <1>r, <2>1 DEF EachOnce
<1>4. runningBar' = runningBar \cup {queue[head]} /\ finishedBar' = finishedBar
  BY <1>t, <1>3 DEF WorkerTake, runningBar, finishedBar, TypeOK
<1> QED BY <1>1, <1>2, <1>4 DEF Abstract!Start, pendingBar, runningBar, finishedBar

\* Steps that neither touch the ring nor start or finish a job.
LEMMA OtherStutters ==
  ASSUME UNCHANGED <<queue, head, count, status>>
  PROVE  UNCHANGED Abstract!vars
BY DEF Abstract!vars

LEMMA RunCompletes ==
  ASSUME IInv, EachOnce, NEW w \in Workers, WorkerRun(w)
  PROVE  \E j \in Jobs : Abstract!Complete(j)
<1>t. TypeOK BY DEF IInv
<1>1. PICK j \in Jobs : j = wjob[w] /\ status[j] = "running" BY DEF WorkerRun, EachOnce
<1>2. pendingBar' = pendingBar BY DEF WorkerRun, ring, pendingBar
<1>3. /\ j \in runningBar
      /\ runningBar' = runningBar \ {j} /\ finishedBar' = finishedBar \cup {j}
  BY <1>t, <1>1 DEF WorkerRun, runningBar, finishedBar, TypeOK
<1>4. Abstract!Complete(j)
  BY <1>2, <1>3 DEF Abstract!Complete, pendingBar, runningBar, finishedBar
<1> QED BY <1>1, <1>4

LEMMA InlineRuns ==
  ASSUME IInv, EachOnce, NEW c \in Clients, NEW j \in Jobs, SubmitInline(c, j)
  PROVE  Abstract!RunInline(j)
<1>t. TypeOK BY DEF IInv
<1>1. pendingBar' = pendingBar BY DEF SubmitInline, ring, pendingBar
<1>2. runningBar' = runningBar /\ finishedBar' = finishedBar \cup {j}
  BY <1>t DEF SubmitInline, runningBar, finishedBar, TypeOK
<1>3. j \notin runningBar \cup finishedBar
  BY DEF SubmitInline, runningBar, finishedBar
<1>4. \A i \in DOMAIN pendingBar : pendingBar[i] # j
  <2>1. DOMAIN pendingBar = 1..count BY DEF pendingBar
  <2> QED BY <2>1, PendingIs DEF SubmitInline, EachOnce
<1> QED BY <1>1, <1>2, <1>3, <1>4
  DEF Abstract!RunInline, Abstract!Fresh, pendingBar, runningBar, finishedBar

\* Mutex, ring and condition variables implement the queue of WorkQueue: jobs are
\* started in the order in which they were accepted, each runs once, none is lost
\* (jobs.c:41-156).
THEOREM QueueTheorem == Spec => ImplementsWorkQueue
<1>1. Init => Abstract!Init
  <2> SUFFICES ASSUME Init PROVE Abstract!Init OBVIOUS
  <2>1. pendingBar = <<>> BY DEF Init, pendingBar
  <2>2. runningBar = {} /\ finishedBar = {} BY DEF Init, runningBar, finishedBar
  <2> QED BY <2>1, <2>2 DEF Abstract!Init, pendingBar, runningBar, finishedBar
<1>2. /\ IInv /\ EachOnce /\ IInv' /\ EachOnce' /\ [Next]_vars
      => [Abstract!Next]_(Abstract!vars)
  <2> SUFFICES ASSUME IInv, EachOnce, IInv', EachOnce', [Next]_vars
               PROVE  Abstract!Next \/ UNCHANGED Abstract!vars
    OBVIOUS
  <2>1. ASSUME NEW w \in Workers, Worker(w) PROVE Abstract!Next \/ UNCHANGED Abstract!vars
    <3>1. CASE WorkerSleep(w) \/ WorkerExit(w) \/ WorkerFinish(w)
      BY <3>1, OtherStutters DEF WorkerSleep, WorkerExit, WorkerFinish, ring
    <3>2. CASE WorkerTake(w) BY <3>2, TakeStarts DEF Abstract!Next
    <3>3. CASE WorkerRun(w) BY <3>3, RunCompletes DEF Abstract!Next
    <3> QED BY <2>1, <3>1, <3>2, <3>3 DEF Worker
  <2>2. ASSUME NEW c \in Clients, Client(c) PROVE Abstract!Next \/ UNCHANGED Abstract!vars
    <3>1. CASE Waiting(c) \/ WaitBegin(c) \/ Leave(c)
      BY <3>1, OtherStutters DEF Waiting, WaitSleep, WaitReturn, WaitBegin, Leave, ring
    <3>2. ASSUME NEW j \in Jobs, Submit(c, j) PROVE Abstract!Next
      BY <3>2, SubmitAccepts DEF Abstract!Next
    <3>3. ASSUME NEW j \in Jobs, SubmitInline(c, j) PROVE Abstract!Next
      BY <3>3, InlineRuns DEF Abstract!Next
    <3> QED BY <2>2, <3>1, <3>2, <3>3 DEF Client
  <2>3. CASE DestroyBegin \/ DestroyEnd \/ Spurious
    BY <2>3, OtherStutters DEF DestroyBegin, DestroyEnd, Spurious, ring
  <2>4. CASE UNCHANGED vars BY <2>4, OtherStutters DEF vars
  <2> QED BY <2>1, <2>2, <2>3, <2>4 DEF Next
<1>3. Spec => []EachOnce
  <2>1. Init => EachOnce BY InitOnce
  <2>2. IInv /\ EachOnce /\ [Next]_vars => EachOnce' BY StepOnce
  <2> QED BY <2>1, <2>2, PoolInvariant, PTL DEF Spec
<1> QED BY <1>1, <1>2, <1>3, PoolInvariant, PTL DEF Spec, ImplementsWorkQueue, Abstract!Spec
=============================================================================
