--------------------------- MODULE RunnerSupervisor ---------------------------
(***************************************************************************)
(* The runner supervisor (apps/runner-supervisor): a run is put into the   *)
(* map with three timers that move its status on; cancel may come at any   *)
(* time; a crash loses all runs.                                           *)
(*                                                                         *)
(* Node keeps one list of timers for each delay.  In the timers phase of   *)
(* the event loop it takes the list whose first timer expires first, fires *)
(* all of that list that is due, and goes on to the next list.  Handlers   *)
(* of requests run between two such phases.  The loop may be late with its *)
(* timers by any time.                                                     *)
(***************************************************************************)
EXTENDS Naturals, FiniteSets

CONSTANTS
  Runs,           \* ids a run may be given
  PrepareDelay, RunDelay, FinishDelay,   \* 250, 800 and 1800 ms in the code
  MaxTime,        \* bound on the model's clock
  MaxCrashes      \* bound on the crashes of the process

Delays == {PrepareDelay, RunDelay, FinishDelay}

ASSUME RunnerAssumption ==
  /\ PrepareDelay \in Nat /\ RunDelay \in Nat /\ FinishDelay \in Nat
  /\ PrepareDelay < RunDelay /\ RunDelay < FinishDelay
  /\ MaxTime \in Nat /\ MaxCrashes \in Nat

VARIABLES
  status,     \* of every run; "unused" ids are not given out yet
  started,    \* when it was dispatched
  pending,    \* its timers that have not fired, by their delay
  firing,     \* whether the loop is between two lists of one timers phase
  overtaken,  \* history: runs with two timers due at once, as the loop was so late
  now,
  crashes

vars == <<status, started, pending, firing, overtaken, now, crashes>>

\* "lost": the id was given out by a process that died.
Statuses == {"unused", "queued", "preparing", "running", "succeeded", "cancelled", "lost"}

InMap(r) == status[r] \notin {"unused", "lost"}

TypeOK ==
  /\ status \in [Runs -> Statuses]
  /\ started \in [Runs -> Nat]
  /\ pending \subseteq Runs \X Delays
  /\ firing \in BOOLEAN /\ overtaken \subseteq Runs
  /\ now \in 0 .. MaxTime
  /\ crashes \in 0 .. MaxCrashes

Init ==
  /\ status = [r \in Runs |-> "unused"]
  /\ started = [r \in Runs |-> 0]
  /\ pending = {}
  /\ firing = FALSE /\ overtaken = {}
  /\ now = 0
  /\ crashes = 0

Expiry(timer) == started[timer[1]] + timer[2]

\* The bound on `now` leaves room for the timers of the run.
Dispatch(r) ==
  /\ ~firing
  /\ status[r] = "unused"
  /\ now + FinishDelay <= MaxTime
  /\ status' = [status EXCEPT ![r] = "queued"]
  /\ started' = [started EXCEPT ![r] = now]
  /\ pending' = pending \cup ({r} \X Delays)
  /\ UNCHANGED <<firing, overtaken, now, crashes>>

\* Mutant: 1800 and 800 are swapped.
Mutant_Target(d) ==
  CASE d = PrepareDelay -> "preparing"
    [] d = RunDelay -> "succeeded"
    [] d = FinishDelay -> "running"

\* Mutant: the last status is given the name its log line has.
Mutant_TargetName(d) ==
  CASE d = PrepareDelay -> "preparing"
    [] d = RunDelay -> "running"
    [] d = FinishDelay -> "completed"

\* What the timer with delay d sets.
Target(d) ==
  CASE d = PrepareDelay -> "preparing"
    [] d = RunDelay -> "running"
    [] d = FinishDelay -> "succeeded"

\* Mutant: a timer moves a cancelled run on.
Mutant_Fired(due, d) ==
  [r \in Runs |-> IF r \in due /\ InMap(r) THEN Target(d) ELSE status[r]]

\* Every callback looks first whether its run is still there and not cancelled.
Fired(due, d) ==
  [r \in Runs |-> IF r \in due /\ InMap(r) /\ status[r] # "cancelled"
                  THEN Target(d) ELSE status[r]]

Due(d) == {r \in Runs : <<r, d>> \in pending /\ Expiry(<<r, d>>) <= now}

\* Mutant: only the first of the due timers fires, the list is dropped with it.
Mutant_FireList(d) ==
  \E r \in Due(d) :
    /\ \A timer \in pending : Expiry(<<r, d>>) <= Expiry(timer)
    /\ status' = Fired({r}, d)
    /\ pending' = pending \ (Runs \X {d})
    /\ firing' = FALSE
    /\ UNCHANGED <<started, overtaken, now, crashes>>

\* The list with the earliest timer of all fires what is due in it.
FireList(d) ==
  /\ \E r \in Due(d) : \A timer \in pending : Expiry(<<r, d>>) <= Expiry(timer)
  /\ status' = Fired(Due(d), d)
  /\ pending' = pending \ (Due(d) \X {d})
  /\ firing' = (\E timer \in pending' : Expiry(timer) <= now)
  /\ UNCHANGED <<started, overtaken, now, crashes>>

\* Cancel looks at nothing but that the run is in the map.
Cancel(r) ==
  /\ ~firing
  /\ InMap(r)
  /\ status' = [status EXCEPT ![r] = "cancelled"]
  /\ UNCHANGED <<started, pending, firing, overtaken, now, crashes>>

\* Two timers of the run wait, and by the given time both are due.
Overtaken(r, time) ==
  \E d, e \in Delays :
    /\ d < e /\ {<<r, d>>, <<r, e>>} \subseteq pending
    /\ Expiry(<<r, e>>) <= time

\* Time passes, whether or not the loop comes to its timers.
Tick ==
  /\ ~firing
  /\ now < MaxTime
  /\ now' = now + 1
  /\ overtaken' = overtaken \cup {r \in Runs : Overtaken(r, now')}
  /\ UNCHANGED <<status, started, pending, firing, crashes>>

\* The process dies; its runs and timers were in memory only.
Crash ==
  /\ crashes < MaxCrashes
  /\ crashes' = crashes + 1
  /\ status' = [r \in Runs |-> IF InMap(r) THEN "lost" ELSE status[r]]
  /\ pending' = {}
  /\ firing' = FALSE
  /\ UNCHANGED <<started, overtaken, now>>

Timers == \E d \in Delays : FireList(d)

Next ==
  \/ \E r \in Runs : Dispatch(r) \/ Cancel(r)
  \/ Timers
  \/ Tick
  \/ Crash

\* Time goes on, and the event loop comes round to its timers.
Spec == Init /\ [][Next]_vars /\ WF_vars(Timers) /\ WF_vars(Tick)

------------------------------------------------------------------------------
\* Properties

\* The order of a run's life.  Cancel may come after success.
Rank(s) ==
  CASE s = "unused" -> 0 [] s = "queued" -> 1 [] s = "preparing" -> 2
    [] s = "running" -> 3 [] s = "succeeded" -> 4 [] s = "cancelled" -> 5
    [] s = "lost" -> 6

\* The status of a run never goes back, except that of a run of which two timers were
\* due at once: timers of many runs fire in order for each of them, as long as the
\* loop is not as late as a run's own delays are apart.  However late it is, none
\* revives a run that was cancelled.
LifecycleAdvances ==
  [][\A r \in Runs :
       /\ r \notin overtaken => Rank(status[r]) <= Rank(status'[r])
       /\ status[r] = "cancelled" => status'[r] \in {"cancelled", "lost"}]_vars

\* A run that was dispatched ends, and stays, succeeded, cancelled or lost, again but
\* for one of which two timers were due at once.
RunSettles ==
  \A r \in Runs :
    status[r] = "queued"
      ~> [](r \in overtaken \/ status[r] \in {"succeeded", "cancelled", "lost"})
==============================================================================
