\* Two workers, two clients, three submissions through a ring of two.
SPECIFICATION FairSpec
CONSTANTS
  w1 = w1  w2 = w2
  guest = guest  render = render
  j1 = j1  j2 = j2  j3 = j3
  NoJob = NoJob
  Workers <- MCWorkers
  Clients <- MCClients
  Jobs <- MCJobs
  Cap = 2
INVARIANTS IInv DestroyDrains
PROPERTIES WaitMeansDone ImplementsWorkQueue NoneWaitsForEver
\* The pool stops once it has been destroyed.
CHECK_DEADLOCK FALSE
