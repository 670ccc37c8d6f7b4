------------------------ MODULE RunnerSupervisor_proofs ------------------------
(***************************************************************************)
(* When the status of a run may go back, for any number of runs, any       *)
(* ordered delays and an event loop that may be late by any time.          *)
(***************************************************************************)
EXTENDS RunnerSupervisor, TLAPS

\* A timer that waits belongs to a run in the map.  Unless two timers of the run were
\* due at once, the later ones are not due yet, and it would move the run forward.
TimersAhead ==
  \A r \in Runs, d \in Delays :
    <<r, d>> \in pending =>
      /\ InMap(r)
      /\ r \notin overtaken =>
           /\ \A e \in Delays : d < e /\ <<r, e>> \in pending => now < started[r] + e
           /\ status[r] = "cancelled" \/ Rank(status[r]) < Rank(Target(d))

Inv == TypeOK /\ TimersAhead

\* The statuses the timers set follow the order of their delays.
LEMMA TargetOrder ==
  /\ \A d \in Delays : d \in Nat /\ Target(d) \in {"preparing", "running", "succeeded"}
  /\ \A d, e \in Delays : d < e => Rank(Target(d)) < Rank(Target(e))
<1>1. /\ PrepareDelay \in Nat /\ RunDelay \in Nat /\ FinishDelay \in Nat
      /\ PrepareDelay < RunDelay /\ RunDelay < FinishDelay
  BY RunnerAssumption
<1>2. PrepareDelay # RunDelay /\ RunDelay # FinishDelay /\ PrepareDelay # FinishDelay
  BY <1>1
<1>3. /\ Target(PrepareDelay) = "preparing"
      /\ Target(RunDelay) = "running"
      /\ Target(FinishDelay) = "succeeded"
  BY <1>2 DEF Target
<1>4. /\ Rank("preparing") = 2 /\ Rank("running") = 3 /\ Rank("succeeded") = 4
  BY DEF Rank
<1> QED BY <1>1, <1>3, <1>4 DEF Delays

\* Every status has a rank, and those of runs in the map lie below cancelled.
LEMMA Ranks ==
  /\ \A s \in Statuses : Rank(s) \in 0 .. 6
  /\ \A s \in Statuses \ {"unused", "lost"} : Rank(s) \in 1 .. 5
  /\ Rank("unused") = 0 /\ Rank("queued") = 1 /\ Rank("cancelled") = 5 /\ Rank("lost") = 6
<1>1. /\ Rank("unused") = 0 /\ Rank("queued") = 1 /\ Rank("preparing") = 2
      /\ Rank("running") = 3
  BY DEF Rank
<1>2. Rank("succeeded") = 4 /\ Rank("cancelled") = 5 /\ Rank("lost") = 6
  BY DEF Rank
<1>3. \A n \in {0, 1, 2, 3, 4, 5, 6} : n \in 0 .. 6
  OBVIOUS
<1>4. \A n \in {1, 2, 3, 4, 5} : n \in 1 .. 5
  OBVIOUS
<1>5. ASSUME NEW s \in Statuses PROVE Rank(s) \in 0 .. 6
  <2>1. Rank(s) \in {0, 1, 2, 3, 4, 5, 6}
    BY <1>1, <1>2, <1>5, Zenon DEF Statuses
  <2> QED BY <2>1, <1>3
<1>6. ASSUME NEW s \in Statuses \ {"unused", "lost"} PROVE Rank(s) \in 1 .. 5
  <2>1. s \in {"queued", "preparing", "running", "succeeded", "cancelled"}
    BY <1>6 DEF Statuses
  <2>2. Rank(s) \in {1, 2, 3, 4, 5}
    BY <1>1, <1>2, <2>1, Zenon
  <2> QED BY <2>2, <1>4
<1> QED BY <1>1, <1>2, <1>5, <1>6

\* Nothing waits in the initial state.
LEMMA Start == Init => Inv
<1> SUFFICES ASSUME Init PROVE Inv
  OBVIOUS
<1>1. "unused" \in Statuses
  BY DEF Statuses
<1>2. status \in [Runs -> Statuses] /\ started \in [Runs -> Nat]
  BY <1>1 DEF Init
<1>3. now \in 0 .. MaxTime /\ crashes \in 0 .. MaxCrashes
  BY RunnerAssumption DEF Init
<1>4. pending \subseteq Runs \X Delays /\ firing \in BOOLEAN /\ overtaken \subseteq Runs
  BY DEF Init
<1>5. TimersAhead
  BY DEF Init, TimersAhead
<1> QED BY <1>2, <1>3, <1>4, <1>5 DEF Inv, TypeOK

\* Every step keeps the types.
LEMMA TypeStep == TypeOK /\ [Next]_vars => TypeOK'
<1> SUFFICES ASSUME TypeOK, [Next]_vars PROVE TypeOK'
  OBVIOUS
<1> USE RunnerAssumption DEF TypeOK
<1>1. ASSUME NEW r \in Runs, Dispatch(r) PROVE TypeOK'
  BY <1>1 DEF Dispatch, Statuses
<1>2. ASSUME NEW r \in Runs, Cancel(r) PROVE TypeOK'
  BY <1>2 DEF Cancel, Statuses
<1>3. ASSUME NEW d \in Delays, FireList(d) PROVE TypeOK'
  <2>1. Target(d) \in Statuses
    BY TargetOrder DEF Statuses
  <2>2. status' \in [Runs -> Statuses]
    BY <1>3, <2>1 DEF FireList, Fired
  <2> QED BY <1>3, <2>2 DEF FireList
<1>4. CASE Tick
  BY <1>4 DEF Tick
<1>5. CASE Crash
  <2>1. status' \in [Runs -> Statuses]
    BY <1>5 DEF Crash, Statuses
  <2>2. pending' \subseteq Runs \X Delays /\ firing' \in BOOLEAN
    BY <1>5 DEF Crash
  <2>3. started' \in [Runs -> Nat] /\ now' \in 0 .. MaxTime /\ crashes' \in 0 .. MaxCrashes
       /\ overtaken' \subseteq Runs
    BY <1>5 DEF Crash
  <2> QED BY <2>1, <2>2, <2>3
<1>6. CASE UNCHANGED vars
  BY <1>6 DEF vars
<1> QED BY <1>1, <1>2, <1>3, <1>4, <1>5, <1>6 DEF Next, Timers

\* No list fires a run while an earlier timer of that run still waits: both would be
\* due at once.
LEMMA FiresInOrder ==
  ASSUME Inv, NEW d \in Delays, FireList(d), NEW r \in Due(d), r \notin overtaken,
         NEW e \in Delays, <<r, e>> \in pending, e # d
  PROVE  Rank(Target(d)) < Rank(Target(e))
<1>1. /\ r \in Runs /\ <<r, d>> \in pending /\ started[r] + d <= now
      /\ started[r] \in Nat /\ now \in Nat
  BY RunnerAssumption DEF Due, Expiry, Inv, TypeOK
<1>2. e < d => now < started[r] + d
  BY <1>1 DEF Inv, TimersAhead
<1>3. d < e
  BY <1>1, <1>2, TargetOrder
<1> QED BY <1>3, TargetOrder

\* Every step keeps the timers ahead of their runs: a new run has all of its
\* life before it, a list that fires leaves only later timers, and when the clock
\* makes two of a run's timers due, it is overtaken.
LEMMA AheadStep == Inv /\ [Next]_vars => TimersAhead'
<1> DEFINE Ahead(r, d) ==
      /\ InMap(r)
      /\ r \notin overtaken =>
           /\ \A e \in Delays : d < e /\ <<r, e>> \in pending => now < started[r] + e
           /\ status[r] = "cancelled" \/ Rank(status[r]) < Rank(Target(d))
<1> SUFFICES ASSUME Inv, [Next]_vars, NEW r \in Runs, NEW d \in Delays,
                    <<r, d>> \in pending'
             PROVE  Ahead(r, d)'
  BY DEF TimersAhead
<1>0. /\ status \in [Runs -> Statuses] /\ started \in [Runs -> Nat]
      /\ now \in Nat /\ d \in Nat
      /\ Target(d) \in {"preparing", "running", "succeeded"}
  BY RunnerAssumption, TargetOrder DEF Inv, TypeOK
<1>1. <<r, d>> \in pending => Ahead(r, d)
  BY DEF Inv, TimersAhead
<1>2. ASSUME NEW s \in Runs, Dispatch(s) PROVE Ahead(r, d)'
  <2>1. CASE r = s
    <3>1. status'[r] = "queued" /\ started'[r] = now /\ now' = now
      BY <1>0, <1>2, <2>1 DEF Dispatch
    <3>2. Rank("queued") < Rank(Target(d))
      BY <1>0, Ranks DEF Rank
    <3>3. \A e \in Delays : d < e => now' < started'[r] + e
      <4> TAKE e \in Delays
      <4>1. e \in Nat /\ d \in Nat /\ now \in Nat
        BY <1>0, TargetOrder
      <4> QED BY <3>1, <4>1
    <3> QED BY <1>0, <3>1, <3>2, <3>3 DEF InMap
  <2>2. CASE r # s
    <3>1. /\ status'[r] = status[r] /\ started'[r] = started[r] /\ now' = now
          /\ overtaken' = overtaken
      BY <1>0, <1>2, <2>2 DEF Dispatch
    <3>2. \A e \in Delays : <<r, e>> \in pending' <=> <<r, e>> \in pending
      BY <1>2, <2>2 DEF Dispatch
    <3> QED BY <1>1, <3>1, <3>2 DEF InMap
  <2> QED BY <2>1, <2>2
<1>3. ASSUME NEW s \in Runs, Cancel(s) PROVE Ahead(r, d)'
  BY <1>0, <1>1, <1>3 DEF Cancel, InMap
<1>4. ASSUME NEW f \in Delays, FireList(f) PROVE Ahead(r, d)'
  <2>1. /\ <<r, d>> \in pending /\ pending' \subseteq pending
        /\ started' = started /\ now' = now /\ overtaken' = overtaken
    BY <1>4 DEF FireList
  <2>2. CASE r \in Due(f) /\ status[r] # "cancelled"
    <3>1. status'[r] = Target(f)
      BY <1>1, <1>4, <2>1, <2>2 DEF FireList, Fired
    <3>2. d # f
      BY <1>4, <2>2 DEF FireList
    <3>3. r \notin overtaken => Rank(Target(f)) < Rank(Target(d))
      BY <1>4, <2>1, <2>2, <3>2, FiresInOrder
    <3>4. Target(f) \in {"preparing", "running", "succeeded"}
      BY TargetOrder
    <3> QED BY <1>1, <2>1, <3>1, <3>3, <3>4 DEF InMap
  <2>3. CASE ~(r \in Due(f) /\ status[r] # "cancelled")
    <3>1. status'[r] = status[r]
      BY <1>4, <2>3 DEF FireList, Fired
    <3> QED BY <1>1, <2>1, <3>1 DEF InMap
  <2> QED BY <2>2, <2>3
<1>5. CASE Tick
  <2>1. /\ pending' = pending /\ started' = started /\ status' = status /\ now' = now + 1
        /\ overtaken' = overtaken \cup {s \in Runs : Overtaken(s, now')}
    BY <1>5 DEF Tick
  <2>2. ASSUME r \notin overtaken', NEW e \in Delays, d < e, <<r, e>> \in pending
        PROVE  now' < started[r] + e
    <3>1. ~Overtaken(r, now')
      BY <2>1, <2>2
    <3>2. ~(started[r] + e <= now')
      BY <2>1, <2>2, <3>1 DEF Overtaken, Expiry
    <3>3. started[r] \in Nat /\ e \in Nat /\ now' \in Nat
      BY <1>0, <2>1, TargetOrder
    <3> QED BY <3>2, <3>3
  <2> QED BY <1>1, <2>1, <2>2 DEF InMap
<1>6. CASE Crash
  BY <1>6 DEF Crash
<1>7. CASE UNCHANGED vars
  BY <1>1, <1>7 DEF vars, InMap
<1> QED BY <1>2, <1>3, <1>4, <1>5, <1>6, <1>7 DEF Next, Timers

\* One step moves no run back that was not overtaken, and none that was cancelled.
LEMMA StepAdvances ==
  Inv /\ [Next]_vars =>
    \A r \in Runs :
      /\ r \notin overtaken => Rank(status[r]) <= Rank(status'[r])
      /\ status[r] = "cancelled" => status'[r] \in {"cancelled", "lost"}
<1> DEFINE Advances(r) ==
      /\ r \notin overtaken => Rank(status[r]) <= Rank(status'[r])
      /\ status[r] = "cancelled" => status'[r] \in {"cancelled", "lost"}
<1> SUFFICES ASSUME Inv, [Next]_vars, NEW r \in Runs PROVE Advances(r)
  OBVIOUS
<1>0. /\ status \in [Runs -> Statuses] /\ status[r] \in Statuses
      /\ Rank(status[r]) \in 0 .. 6
  BY Ranks DEF Inv, TypeOK
<1>1. ASSUME NEW s \in Runs, Dispatch(s) PROVE Advances(r)
  BY <1>0, <1>1, Ranks DEF Dispatch
<1>2. ASSUME NEW s \in Runs, Cancel(s) PROVE Advances(r)
  BY <1>0, <1>2, Ranks DEF Cancel, InMap
<1>3. ASSUME NEW d \in Delays, FireList(d) PROVE Advances(r)
  <2>1. CASE r \in Due(d) /\ InMap(r) /\ status[r] # "cancelled"
    <3>1. status'[r] = Target(d)
      BY <1>3, <2>1 DEF FireList, Fired
    <3>2. <<r, d>> \in pending
      BY <2>1 DEF Due
    <3>3. r \notin overtaken => Rank(status[r]) < Rank(Target(d))
      BY <2>1, <3>2 DEF Inv, TimersAhead
    <3>4. Rank(Target(d)) \in Nat
      BY TargetOrder, Ranks DEF Statuses
    <3> QED BY <1>0, <2>1, <3>1, <3>3, <3>4
  <2>2. CASE ~(r \in Due(d) /\ InMap(r) /\ status[r] # "cancelled")
    <3>1. status'[r] = status[r]
      BY <1>3, <2>2 DEF FireList, Fired
    <3> QED BY <1>0, <3>1
  <2> QED BY <2>1, <2>2
<1>4. CASE Tick
  BY <1>0, <1>4 DEF Tick
<1>5. CASE Crash
  BY <1>0, <1>5, Ranks DEF Crash, InMap
<1>6. CASE UNCHANGED vars
  BY <1>0, <1>6 DEF vars
<1> QED BY <1>1, <1>2, <1>3, <1>4, <1>5, <1>6 DEF Next, Timers

\* For any runs and delays every variable keeps its type.
THEOREM RunnerTypeCorrect == Spec => []TypeOK
<1>1. Init => TypeOK
  BY Start DEF Inv
<1> QED BY <1>1, TypeStep, PTL DEF Spec

\* Timers of one run fire in the order of their delays, unless the event loop was so
\* late that two of them were due at once; and none revives it after cancel, however
\* late the loop was.
THEOREM RunsAdvance == Spec => LifecycleAdvances
<1>1. Inv /\ [Next]_vars => Inv'
  BY TypeStep, AheadStep DEF Inv
<1>2. Inv /\ [Next]_vars =>
        [\A r \in Runs :
           /\ r \notin overtaken => Rank(status[r]) <= Rank(status'[r])
           /\ status[r] = "cancelled" => status'[r] \in {"cancelled", "lost"}]_vars
  BY StepAdvances
<1> QED BY <1>1, <1>2, Start, PTL DEF Spec, LifecycleAdvances
==============================================================================
