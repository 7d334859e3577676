----------------------------- MODULE GuestClock -----------------------------
(***************************************************************************)
(* The guest's clock and the periodic hooks of the run loop,               *)
(* mgs_module_run in host/module.c.                                        *)
(*                                                                         *)
(* One iteration of the loop is three actions: read the host's clock if it *)
(* is time to, advance guest time, run the hooks whose deadline guest time *)
(* has reached.  Under the wall clock, real time goes into a pool and is   *)
(* paid out no further than the earliest deadline; under the step clock    *)
(* every iteration is worth Rate ticks.                                    *)
(***************************************************************************)
EXTENDS Integers

CONSTANTS Others,      \* the hooks with a fixed period: DSP, pending, ARAM, AID, pump, display
          Period,      \* their periods in ticks, and the draw-done's and the audio pace's
          Fields,      \* the field periods the game may programme (PAL, NTSC)
          Rate,        \* MGS_TICK_RATE
          Clamp,       \* the most one reading of the clock is worth, 81000
          StrideDry,   \* steps between readings while the pool is empty, 4
          StrideFull,  \* and while it is not, 32
          Batch,       \* steps between flushes of the step clock, 16
          MaxTime      \* bound: ticks of guest and host time

Hooks == {"vi", "pe", "pace"} \cup Others

ASSUME PeriodAssumption == Period \in [Hooks \ {"vi"} -> Nat \ {0}]
ASSUME FieldsAssumption == Fields \subseteq Nat \ {0} /\ \A f \in Fields : f > 2 * Rate
ASSUME NumberAssumption ==
  /\ Rate \in Nat \ {0} /\ Clamp \in Nat \ {0} /\ Batch \in Nat \ {0}
  /\ StrideDry \in Nat \ {0, 1} /\ StrideFull \in Nat \ {0}
  /\ MaxTime \in Nat

VARIABLES wallMode,      \* mgs_clock_is_wall()
          wall,          \* mgs_wall_ticks(): the host's clock
          gtWall,        \* gt_wall: the host time already taken into account
          pool,          \* tick_pool: host time read and not yet paid out
          gt,            \* guest time
          batch,         \* tick_batch
          pendingTicks,  \* step clock: ticks not yet passed on
          ticks,         \* what the time base and the devices have been given
          due,           \* due_vi, due_pe, ...
          nextDue,       \* next_due
          loop           \* where the iteration is

clockVars == <<wallMode, wall, gtWall, pool, gt, batch, pendingTicks, ticks, due, nextDue, loop>>

ClockInit ==
  /\ wallMode \in BOOLEAN
  /\ wall = 0 /\ gtWall = 0 /\ pool = 0 /\ gt = 0 /\ batch = 0
  /\ pendingTicks = 0 /\ ticks = 0
  /\ due = [h \in Hooks |-> 0] /\ nextDue = 0
  /\ loop = "clock"

Least(a, b) == IF a <= b THEN a ELSE b

\* The host's clock runs on by itself.
HostTime ==
  /\ wallMode /\ wall < MaxTime
  /\ \E t \in wall+1..MaxTime : wall' = t
  /\ UNCHANGED <<wallMode, gtWall, pool, gt, batch, pendingTicks, ticks, due, nextDue, loop>>

-----------------------------------------------------------------------------
(* Reading the clock. *)

TimeToRead == batch + 1 >= IF pool = 0 THEN StrideDry ELSE StrideFull
Elapsed == wall - gtWall

\* Mutant: the reading is not remembered, and is paid twice.
ReadClockAgain ==
  /\ loop = "clock" /\ wallMode /\ TimeToRead
  /\ pool' = pool + Least(Elapsed, Clamp)
  /\ UNCHANGED gtWall
  /\ batch' = 0 /\ loop' = "time"
  /\ UNCHANGED <<wallMode, wall, gt, pendingTicks, ticks, due, nextDue>>

\* At most Clamp ticks go into the pool; a longer gap is dropped.
ReadClock ==
  /\ loop = "clock" /\ wallMode /\ TimeToRead
  /\ pool' = pool + Least(Elapsed, Clamp)
  /\ gtWall' = wall
  /\ batch' = 0 /\ loop' = "time"
  /\ UNCHANGED <<wallMode, wall, gt, pendingTicks, ticks, due, nextDue>>

SkipClock ==
  /\ loop = "clock" /\ (wallMode => ~TimeToRead)
  /\ batch' = IF wallMode THEN batch + 1 ELSE batch
  /\ loop' = "time"
  /\ UNCHANGED <<wallMode, wall, gtWall, pool, gt, pendingTicks, ticks, due, nextDue>>

-----------------------------------------------------------------------------
(* Advancing guest time. *)

\* Mutant: a fixed payout instead of the distance to the next deadline.
RoomFixed == 2
\* How far guest time may go: to the next deadline, or one tick past a late one.
Room == IF nextDue > gt THEN nextDue - gt ELSE 1

PayOut ==
  /\ loop = "time" /\ wallMode
  /\ LET pay == Least(pool, Room)
     IN  pool' = pool - pay /\ gt' = gt + pay /\ ticks' = ticks + pay
  /\ loop' = "hooks"
  /\ UNCHANGED <<wallMode, wall, gtWall, batch, pendingTicks, due, nextDue>>

StepTick ==
  /\ loop = "time" /\ ~wallMode /\ gt + Rate <= MaxTime
  /\ gt' = gt + Rate
  /\ IF batch + 1 >= Batch
     THEN /\ ticks' = ticks + pendingTicks + Rate
          /\ pendingTicks' = 0 /\ batch' = 0
     ELSE /\ pendingTicks' = pendingTicks + Rate
          /\ batch' = batch + 1
          /\ UNCHANGED ticks
  /\ loop' = "hooks"
  /\ UNCHANGED <<wallMode, wall, gtWall, pool, due, nextDue>>

-----------------------------------------------------------------------------
(* The hooks. *)

\* The audio pace is not consulted under the wall clock.
Active == IF wallMode THEN Hooks \ {"pace"} ELSE Hooks

\* The draw-done hook is the retrace's else branch.
Fires(h) == h \in Active /\ due[h] <= gt /\ (h = "pe" => due["vi"] > gt)

\* The earliest deadline of d.
Earliest(d, t) == /\ \E h \in Active : d[h] = t
                  /\ \A h \in Active : t <= d[h]

\* Mutant: periods are one tick short.
RearmEarly(field) == [h \in Hooks |->
  IF ~Fires(h) THEN due[h] ELSE gt + (IF h = "vi" THEN field ELSE Period[h] - 1)]
\* A hook that fires is due again its period after now.
Rearm(field) == [h \in Hooks |->
  IF ~Fires(h) THEN due[h] ELSE gt + (IF h = "vi" THEN field ELSE Period[h])]

RunHooks ==
  /\ loop = "hooks" /\ gt >= nextDue
  /\ \E field \in Fields : due' = Rearm(field)
  /\ \E h \in Active : nextDue' = due'[h] /\ Earliest(due', nextDue')
  /\ loop' = "clock"
  /\ UNCHANGED <<wallMode, wall, gtWall, pool, gt, batch, pendingTicks, ticks>>

NoHooks ==
  /\ loop = "hooks" /\ gt < nextDue
  /\ loop' = "clock"
  /\ UNCHANGED <<wallMode, wall, gtWall, pool, gt, batch, pendingTicks, ticks, due, nextDue>>

ClockNext == HostTime \/ ReadClock \/ SkipClock \/ PayOut \/ StepTick \/ RunHooks \/ NoHooks

ClockSpec == ClockInit /\ [][ClockNext]_clockVars

-----------------------------------------------------------------------------
(* Properties *)

ClockTypes ==
  /\ wallMode \in BOOLEAN /\ loop \in {"clock", "time", "hooks"}
  /\ wall \in Nat /\ gtWall \in Nat /\ pool \in Nat /\ gt \in Nat /\ batch \in Nat
  /\ pendingTicks \in Nat /\ ticks \in Nat
  /\ due \in [Hooks -> Nat] /\ nextDue \in Nat

\* next_due is what the run loop takes it for: the earliest deadline.
NextDueEarliest == Earliest(due, nextDue)

\* How late a hook may run.  Under the wall clock guest time "lands on that
\* deadline" (module.c:1826), except that the draw-done waits out a retrace;
\* under the step clock time comes in steps of Rate.
Lag == IF wallMode THEN 0 ELSE Rate
Coin == IF wallMode THEN 1 ELSE Rate
Late(h) == IF h = "pe" THEN Lag + Coin ELSE Lag

\* Guest time never steps over a deadline: no hook is later than that.
OnTime == \A h \in Active : gt <= due[h] + Late(h)

\* The run loop has not reached its hooks yet.
Beginning == /\ gt = 0 /\ pool = 0 /\ (loop = "clock" => batch = 0)
             /\ \A h \in Hooks : due[h] = 0

\* Why: between two runs of the hooks no deadline has passed, but for a
\* draw-done passed over for a retrace, which is then more than a step away.
Ahead(h) == \/ due[h] > gt
            \/ h = "pe" /\ gt <= due["pe"] + Lag /\ due["vi"] > gt + Coin
Reached(h) == \/ gt <= due[h] + Lag
              \/ h = "pe" /\ gt <= due["pe"] + Lag + Coin /\ due["vi"] > gt
Punctual == IF loop = "hooks" THEN \A h \in Active : Reached(h)
                              ELSE Beginning \/ \A h \in Active : Ahead(h)

\* Under the wall clock the guest is never ahead of the host.
BehindHost == wallMode => gt + pool <= gtWall /\ gtWall <= wall

\* The time base and the devices are given every tick of the schedule the
\* hooks run on, at most one batch later.
TicksAgree ==
  /\ ticks + pendingTicks = gt
  /\ wallMode => pendingTicks = 0
  /\ ~wallMode => pendingTicks = batch * Rate /\ batch < Batch

\* Between two runs of a hook lies its period and no more than it may be late:
\* no run is lost, and none comes early.
Cadence ==
  [][\A h \in Active : due'[h] # due[h] =>
       LET periods == IF h = "vi" THEN Fields ELSE {Period[h]}
       IN  \E p \in periods : due'[h] \in due[h] + p .. due[h] + p + Late(h)]_clockVars

\* The clock's invariant.
ClockInv == ClockTypes /\ NextDueEarliest /\ Punctual /\ BehindHost /\ TicksAgree

\* A late host is not made up for: "CLAMP AND DISCARD THE EXCESS. NEVER
\* ACCUMULATE DEBT." (module.c:1790).
\* The code does not keep it, and no run checks it: README, section 6.
NoDebt == pool <= 2 * Clamp
=============================================================================
