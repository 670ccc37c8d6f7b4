--------------------------- MODULE EdgeFleet_proofs ---------------------------
(***************************************************************************)
(* Proofs about the edge agents, for any agents, queues, starts, losses    *)
(* failed writes and torn files: types, what is done was run, who holds a  *)
(* job, how often it is handed out and runs, and that all of it implements *)
(* the job queue.                                                          *)
(***************************************************************************)
EXTENDS EdgeFleet, Operators_proofs, FiniteSetTheorems

Numbers == 1 .. Len(Queue)

\* The steps at which an agent has a job in hand.
Holding == {"busy", "execute", "complete"}

------------------------------------------------------------------------------
(* Types, and the shape of the state *)

\* The server has all jobs or none, and so has the file unless it is torn.
ServerShape ==
  /\ store \in Stores
  /\ Len(store.edgeJobs) \in {0, Len(Queue)}
  /\ disk # Torn => disk \in Stores /\ Len(disk.edgeJobs) = Len(store.edgeJobs)
  /\ lostWrites \in 0 .. MaxLostWrites /\ tears \in 0 .. MaxTears

HostShape ==
  /\ step \in [Hosts -> Steps]
  /\ starts \in [Hosts -> 0 .. MaxStarts]
  /\ job \in [Hosts -> 0 .. Len(Queue)]
  /\ \A h \in Hosts :
       /\ job[h] # 0 <=> step[h] \in Holding
       /\ step[h] # "down" => starts[h] # 0

LateShape ==
  /\ late \in SUBSET Requests
  /\ \A r \in late :
       /\ r.agent \in Hosts \X (1 .. MaxStarts)
       /\ r.what = "complete" => r.job \in Numbers
  /\ losses \in 0 .. MaxLosses

Shape ==
  /\ ServerShape /\ HostShape /\ LateShape
  /\ ran \in [Numbers -> Nat] /\ claims \in [Numbers -> Nat]

LEMMA QueueLength == Len(Queue) \in Nat
BY FleetAssumption

LEMMA StoreJobs ==
  ASSUME ServerShape
  PROVE  /\ Jobs \subseteq Numbers
         /\ store.edgeJobs \in [Jobs -> EdgeJobRecords]
         /\ disk # Torn => DOMAIN disk.edgeJobs = Jobs
         /\ store # Torn
<1>1. Len(Queue) \in Nat /\ store \in Stores /\ store.edgeJobs \in Seq(EdgeJobRecords)
  BY QueueLength DEF ServerShape, Stores
<1>2. Jobs \subseteq Numbers /\ store.edgeJobs \in [Jobs -> EdgeJobRecords]
  BY <1>1 DEF ServerShape, Jobs, Numbers
<1>3. ASSUME disk # Torn
      PROVE  DOMAIN disk.edgeJobs = Jobs
  BY <1>1, <1>3 DEF ServerShape, Jobs, Stores
<1> QED BY <1>1, <1>2, <1>3, TornFileAssumption

\* A handler writes the store it leaves, or fails to.
Writes ==
  /\ \/ disk' = store' /\ lostWrites' = lostWrites
     \/ disk' \in {disk, Torn} /\ lostWrites' = lostWrites + 1
  /\ tears' = tears

LEMMA ServeShape ==
  ASSUME ServerShape, NEW st \in Stores, Len(st.edgeJobs) = Len(store.edgeJobs), Serve(st)
  PROVE  ServerShape' /\ store' = st /\ Writes
<1>1. /\ store' = st /\ tears' = tears
      /\ \/ disk' = st /\ lostWrites' = lostWrites
         \/ disk' \in {disk, Torn} /\ lostWrites' = lostWrites + 1
      /\ lostWrites' \in 0 .. MaxLostWrites
  BY FleetAssumption DEF ServerShape, Serve
<1>2. Writes
  BY <1>1 DEF Writes
<1>3. disk' # Torn => disk' \in Stores /\ Len(disk'.edgeJobs) = Len(store'.edgeJobs)
  BY <1>1 DEF ServerShape
<1> QED BY <1>1, <1>2, <1>3 DEF ServerShape

LEMMA ClaimShape ==
  ASSUME ServerShape, NEW w \in Workspaces, NEW a \in Agents,
         QueuedJobs(store, w) # {}, ServePoll(w, a)
  PROVE  LET n == NextJob(store, w)
         IN  /\ n \in Jobs
             /\ Has(store, n, "queued")
             /\ JobMoves(store, store', n, "claimed")
             /\ store'.edgeJobs[n].claimedBy = a
             /\ ServerShape' /\ Writes
             /\ claims' = [claims EXCEPT ![n] = claims[n] + 1]
<1> DEFINE n == NextJob(store, w)
           new == ClaimEdgeJob(store, w, a)
<1>1. store \in Stores
  BY DEF ServerShape
<1>2. /\ n \in QueuedJobs(store, w)
      /\ JobMoves(store, new, n, "claimed")
      /\ new.edgeJobs[n] = [store.edgeJobs[n] EXCEPT !.status = "claimed", !.claimedBy = a]
  BY <1>1, ClaimMoves
<1>3. n \in Jobs /\ Has(store, n, "queued")
  BY <1>2, StoreJobs DEF QueuedJobs, Jobs, Has
<1>4. Serve(new) /\ claims' = [claims EXCEPT ![n] = claims[n] + 1]
  BY DEF ServePoll, Claimed
<1> HIDE DEF n, new
<1>5. store.edgeJobs[n] \in EdgeJobRecords
  BY <1>3, StoreJobs
<1>6. new.edgeJobs[n].claimedBy = a
  BY <1>2, <1>5 DEF EdgeJobRecords
<1>7. new \in Stores /\ Len(new.edgeJobs) = Len(store.edgeJobs)
  BY <1>2 DEF JobMoves
<1>8. ServerShape' /\ store' = new /\ Writes
  BY <1>4, <1>7, ServeShape
<1> QED BY <1>2, <1>3, <1>4, <1>6, <1>8 DEF n

LEMMA CompletionShape ==
  ASSUME ServerShape, NEW j \in Jobs, ServeComplete(j)
  PROVE  /\ JobMoves(store, store', j, "succeeded")
         /\ ServerShape' /\ Writes /\ claims' = claims
<1> DEFINE new == CompleteEdgeJob(store, j, "succeeded")
<1>1. store \in Stores /\ j \in DOMAIN store.edgeJobs
  BY DEF ServerShape, Jobs
<1>2. JobMoves(store, new, j, "succeeded")
  BY <1>1, CompletionMoves
<1>3. Serve(new) /\ claims' = claims
  BY DEF ServeComplete
<1> HIDE DEF new
<1>4. new \in Stores /\ Len(new.edgeJobs) = Len(store.edgeJobs)
  BY <1>2 DEF JobMoves
<1> QED BY <1>2, <1>3, <1>4, ServeShape

\* The process dies and starts again, from the file or from the defaults.
Rereads == disk # Torn /\ store' = disk /\ disk' = disk /\ lostWrites' = lostWrites

Forgets ==
  /\ store' = EmptyStore
  /\ \/ disk' = EmptyStore /\ lostWrites' = lostWrites
     \/ disk' = Torn /\ lostWrites' = lostWrites + 1

LEMMA RestartShape ==
  ASSUME Shape, ServerRestart
  PROVE  /\ Shape'
         /\ UNCHANGED <<step, starts, job, late, ran, claims>>
         /\ (Rereads /\ store # disk) \/ (Forgets /\ Jobs' = {})
<1>1. UNCHANGED <<step, starts, job, late, ran, losses, claims>>
  BY DEF ServerRestart, RestartFromFile, RestartFromTornFile
<1>2. HostShape' /\ LateShape' /\ (ran \in [Numbers -> Nat])' /\ (claims \in [Numbers -> Nat])'
  BY <1>1 DEF Shape, HostShape, LateShape
<1>3. CASE RestartFromFile
  <2>1. ServerShape'
    BY <1>3 DEF RestartFromFile, Shape, ServerShape
  <2> QED BY <1>1, <1>2, <1>3, <2>1 DEF RestartFromFile, Rereads, Shape
<1>4. CASE RestartFromTornFile
  <2>1. EmptyStore \in Stores /\ EmptyStore.edgeJobs = <<>>
    BY EmptyStoreType DEF EmptyStore
  <2>2. /\ store' = EmptyStore
        /\ \/ disk' = EmptyStore /\ lostWrites' = lostWrites
           \/ disk' = Torn /\ lostWrites' = lostWrites + 1
        /\ lostWrites' \in 0 .. MaxLostWrites /\ tears' \in 0 .. MaxTears
    BY <1>4, FleetAssumption DEF RestartFromTornFile, Shape, ServerShape
  <2>3. Len(store'.edgeJobs) = 0 /\ Jobs' = {}
    BY <2>1, <2>2 DEF Jobs
  <2>4. ServerShape'
    BY <2>1, <2>2, <2>3 DEF ServerShape
  <2> QED BY <1>1, <1>2, <2>2, <2>3, <2>4 DEF Forgets, Shape
<1> QED BY <1>3, <1>4 DEF ServerRestart

LEMMA AgentIds ==
  ASSUME HostShape, NEW h \in Hosts, step[h] # "down"
  PROVE  /\ AgentId(h) \in Hosts \X (1 .. MaxStarts)
         /\ AgentId(h) \in Agents
<1>1. starts[h] \in 1 .. MaxStarts
  BY FleetAssumption DEF HostShape
<1> QED BY <1>1, FleetAssumption DEF AgentId

LEMMA MoveShape ==
  ASSUME HostShape, NEW h \in Hosts, NEW where \in Steps, NEW held \in 0 .. Len(Queue),
         Goto(h, where, held), held # 0 <=> where \in Holding,
         starts' = starts, where = "down" \/ step[h] # "down"
  PROVE  HostShape'
BY DEF HostShape, Goto

LEMMA NoAnswerShape ==
  ASSUME HostShape, LateShape, NEW h \in Hosts, step[h] # "down", NoAnswer(h)
  PROVE  /\ LateShape' /\ Quiet
         /\ \A r \in late' \ late :
              r.what = "complete" => step[h] = "complete" /\ r.job = job[h]
<1>1. losses \in Nat /\ losses < MaxLosses /\ losses' = losses + 1
  BY FleetAssumption DEF LateShape, NoAnswer
<1> DEFINE r == [what |-> step[h], agent |-> AgentId(h), job |-> job[h], nth |-> losses']
<1>2. losses' \in 0 .. MaxLosses
  BY <1>1, FleetAssumption
<1>3. CASE late' = late
  BY <1>2, <1>3 DEF LateShape, NoAnswer
<1>4. CASE step[h] \in Kept /\ late' = late \cup {r}
  <2>1. job[h] \in Nat /\ (step[h] = "complete" => job[h] \in Numbers)
    BY QueueLength DEF HostShape, Holding, Numbers
  <2>2. /\ r \in Requests
        /\ r.agent \in Hosts \X (1 .. MaxStarts)
        /\ r.what = step[h] /\ r.job = job[h]
    BY <1>2, <1>4, <2>1, AgentIds DEF Requests
  <2> HIDE DEF r
  <2> QED BY <1>2, <1>4, <2>1, <2>2 DEF LateShape, NoAnswer
<1> QED BY <1>3, <1>4 DEF NoAnswer

LEMMA InitShape == Init => Shape
<1> SUFFICES ASSUME Init PROVE Shape
  OBVIOUS
<1> DEFINE b0 == CHOOSE b \in Builds : TRUE
           q == [j \in Numbers |-> [workspace |-> Queue[j], build |-> b0,
                                    status |-> "queued", claimedBy |-> Nobody]]
<1>1. b0 \in Builds
  BY FleetAssumption
<1> HIDE DEF b0
<1>2. q \in Seq(EdgeJobRecords) /\ Len(q) = Len(Queue)
  <2>1. \A j \in Numbers : q[j] \in EdgeJobRecords
    BY <1>1, FleetAssumption DEF EdgeJobRecords, Numbers
  <2> QED BY <2>1, QueueLength DEF Numbers
<1>3. store = [EmptyStore EXCEPT !.edgeJobs = q] /\ disk = store
  BY DEF Init, b0, Numbers
<1> HIDE DEF q
<1>4. store \in Stores /\ store.edgeJobs = q
  BY <1>2, <1>3, EmptyStoreType DEF Stores
<1>5. ServerShape
  BY <1>2, <1>3, <1>4, FleetAssumption DEF ServerShape, Init
<1>6. HostShape
  BY QueueLength, FleetAssumption DEF HostShape, Init, Steps, Holding
<1>7. LateShape
  BY FleetAssumption DEF LateShape, Init
<1> QED BY <1>5, <1>6, <1>7 DEF Shape, Init, Numbers

------------------------------------------------------------------------------
(* The steps, by what they do to the jobs in hand.  Shape is kept by each. *)

\* No agent that has a job in hand does anything, and no job changes.
Elsewhere ==
  /\ store' = store /\ claims' = claims
  /\ Quiet \/ Writes
  /\ job' = job /\ ran' = ran
  /\ \A h \in Hosts : job[h] # 0 => step'[h] = step[h] /\ starts'[h] = starts[h]
  /\ \A r \in late' : r \in late \/ r.what # "complete"

\* What all steps of an agent with a job have in common.
Hand(h, where, held) ==
  /\ Goto(h, where, held)
  /\ starts' = starts

\* From the busy heartbeat to the execution.
Carries(h) ==
  /\ step[h] = "busy" /\ Hand(h, "execute", job[h])
  /\ Quiet /\ ran' = ran /\ late' = late

\* The job is given up, or the agent dies.
Drops(h) ==
  /\ job[h] # 0
  /\ \E where \in Steps \ Holding : Hand(h, where, 0)
  /\ Quiet /\ ran' = ran
  /\ \A r \in late' \ late : r.what = "complete" => step[h] = "complete" /\ r.job = job[h]

\* A poll, answered or late, that claims job n for the agent with the id a.
Claims(n, a) ==
  /\ n \in Jobs
  /\ Has(store, n, "queued")
  /\ JobMoves(store, store', n, "claimed")
  /\ store'.edgeJobs[n].claimedBy = a
  /\ Writes
  /\ claims' = [claims EXCEPT ![n] = claims[n] + 1]

Takes(h, n) ==
  /\ Claims(n, AgentId(h))
  /\ job[h] = 0 /\ Hand(h, "busy", n)
  /\ ran' = ran /\ late' = late

Runs(h) ==
  /\ step[h] = "execute" /\ Hand(h, "complete", job[h])
  /\ ran' = [ran EXCEPT ![job[h]] = @ + 1]
  /\ Quiet /\ late' = late

\* A completion, answered or late.
Completes(j) ==
  /\ j \in Jobs
  /\ JobMoves(store, store', j, "succeeded")
  /\ Writes
  /\ claims' = claims

Reports(h) ==
  /\ step[h] = "complete" /\ Hand(h, "free", 0)
  /\ Completes(job[h])
  /\ ran' = ran /\ late' = late

\* A late request that claims or completes a job.
Late(r) ==
  /\ r \in late
  /\ \/ \E n \in Jobs : Claims(n, r.agent)
     \/ r.what = "complete" /\ Completes(r.job)
  /\ late' = late \ {r}
  /\ UNCHANGED <<step, starts, job, ran>>

Kinds ==
  \/ Elsewhere
  \/ \E h \in Hosts : Carries(h) \/ Drops(h) \/ Runs(h) \/ Reports(h)
  \/ \E h \in Hosts, n \in Jobs : Takes(h, n)
  \/ \E r \in late : Late(r)
  \/ ServerRestart

LEMMA GotoNowhere ==
  ASSUME HostShape, NEW h \in Hosts, job[h] = 0, NEW where \in Steps, Goto(h, where, 0)
  PROVE  job' = job /\ \A g \in Hosts : job[g] # 0 => step'[g] = step[g]
BY DEF HostShape, Goto

\* An agent that gets no answer or dies gives up what it has in hand.
LEMMA GiveUpKind ==
  ASSUME Shape, NEW h \in Hosts, step[h] # "down", NEW where \in Steps \ Holding,
         Goto(h, where, 0), starts' = starts, ran' = ran,
         NoAnswer(h) \/ (Quiet /\ UNCHANGED <<late, losses>>)
  PROVE  Shape' /\ Kinds
<1>1. HostShape'
  BY QueueLength, MoveShape DEF Shape
<1>2. /\ LateShape' /\ Quiet
      /\ \A r \in late' \ late :
           r.what = "complete" => step[h] = "complete" /\ r.job = job[h]
  BY NoAnswerShape DEF Shape, LateShape
<1>3. Shape'
  BY <1>1, <1>2 DEF Shape, ServerShape, Quiet, server
<1>4. CASE job[h] = 0
  <2>1. job' = job /\ \A g \in Hosts : job[g] # 0 => step'[g] = step[g]
    BY <1>4, GotoNowhere DEF Shape
  <2>2. step[h] # "complete"
    BY <1>4 DEF Shape, HostShape, Holding
  <2>3. Elsewhere
    BY <1>2, <2>1, <2>2 DEF Elsewhere, Quiet, server
  <2> QED BY <1>3, <2>3 DEF Kinds
<1>5. CASE job[h] # 0
  <2>1. Drops(h)
    BY <1>2, <1>5 DEF Drops, Hand
  <2> QED BY <1>3, <2>1 DEF Kinds
<1> QED BY <1>4, <1>5

\* A step between two awaits at which h has no job, with nothing but perhaps a write.
LEMMA IdleKind ==
  ASSUME Shape, NEW h \in Hosts, job[h] = 0, NEW where \in Steps \ (Holding \cup {"down"}),
         Goto(h, where, 0), Quiet \/ ServeRegister,
         \/ starts' = starts /\ step[h] # "down"
         \/ starts[h] < MaxStarts /\ starts' = [starts EXCEPT ![h] = starts[h] + 1],
         late' = late, ran' = ran, losses' = losses
  PROVE  Shape' /\ Kinds
<1>1. job' = job /\ \A g \in Hosts : job[g] # 0 => step'[g] = step[g]
  BY GotoNowhere DEF Shape
<1>2. ServerShape' /\ store' = store /\ claims' = claims /\ (Quiet \/ Writes)
  <2>1. CASE Quiet
    BY <2>1 DEF Shape, ServerShape, Quiet, server
  <2>2. CASE ServeRegister
    BY <2>2, ServeShape DEF ServeRegister, Shape, ServerShape
  <2> QED BY <2>1, <2>2
<1>3. HostShape'
  BY FleetAssumption, <1>1 DEF Shape, HostShape, Goto, Holding
<1>4. Shape'
  BY <1>2, <1>3 DEF Shape, LateShape
<1>5. \A g \in Hosts : job[g] # 0 => starts'[g] = starts[g]
  BY DEF Shape, HostShape
<1>6. Elsewhere
  BY <1>1, <1>2, <1>5 DEF Elsewhere
<1> QED BY <1>4, <1>6 DEF Kinds

LEMMA LoopKinds ==
  ASSUME Shape, NEW h \in Hosts, Loop(h)
  PROVE  Shape' /\ Kinds
<1> DEFINE W == WorkspaceOf[h]
<1>a. W \in Workspaces
  BY FleetAssumption
<1>b. ASSUME NEW where \in {"online", "busy", "free", "poll", "complete"},
             step[h] = where, GiveUp(h)
      PROVE  Shape' /\ Kinds
  BY <1>b, GiveUpKind DEF GiveUp, Steps, Holding
<1>1. CASE Register(h)
  <2>1. job[h] = 0
    BY <1>1 DEF Register, Shape, HostShape, Holding
  <2>2. CASE ServeRegister /\ Goto(h, "online", 0) /\ UNCHANGED <<late, losses>>
    BY <1>1, <2>1, <2>2, IdleKind DEF Register, Steps, Holding
  <2>3. CASE NoAnswer(h) /\ Goto(h, "down", 0)
    BY <1>1, <2>3, GiveUpKind DEF Register, Steps, Holding
  <2> QED BY <1>1, <2>2, <2>3 DEF Register
<1>2. CASE Heartbeat(h, "online", "poll")
  <2>1. job[h] = 0
    BY <1>2 DEF Heartbeat, Shape, HostShape, Holding
  <2>2. CASE Quiet /\ Goto(h, "poll", job[h]) /\ UNCHANGED <<starts, late, ran, losses>>
    <3>1. Goto(h, "poll", 0)
      BY <2>1, <2>2 DEF Goto
    <3> QED BY <1>2, <2>1, <2>2, <3>1, IdleKind DEF Heartbeat, Steps, Holding
  <2> QED BY <1>2, <1>b, <2>2 DEF Heartbeat
<1>3. CASE Heartbeat(h, "free", "rest")
  <2>1. job[h] = 0
    BY <1>3 DEF Heartbeat, Shape, HostShape, Holding
  <2>2. CASE Quiet /\ Goto(h, "rest", job[h]) /\ UNCHANGED <<starts, late, ran, losses>>
    <3>1. Goto(h, "rest", 0)
      BY <2>1, <2>2 DEF Goto
    <3> QED BY <1>3, <2>1, <2>2, <3>1, IdleKind DEF Heartbeat, Steps, Holding
  <2> QED BY <1>3, <1>b, <2>2 DEF Heartbeat
<1>4. CASE Heartbeat(h, "busy", "execute")
  <2>1. CASE Quiet /\ Goto(h, "execute", job[h]) /\ UNCHANGED <<starts, late, ran, losses>>
    <3>1. job[h] \in 0 .. Len(Queue) /\ job[h] # 0
      BY <1>4 DEF Heartbeat, Shape, HostShape, Holding
    <3>2. HostShape'
      BY <1>4, <2>1, <3>1, MoveShape DEF Heartbeat, Shape, Steps, Holding
    <3>3. Shape'
      BY <2>1, <3>2 DEF Shape, ServerShape, LateShape, Quiet, server
    <3>4. Carries(h)
      BY <1>4, <2>1 DEF Heartbeat, Carries, Hand
    <3> QED BY <3>3, <3>4 DEF Kinds
  <2> QED BY <1>4, <1>b, <2>1 DEF Heartbeat
<1>5. CASE PollJob(h)
  <2>1. job[h] = 0
    BY <1>5 DEF PollJob, Shape, HostShape, Holding
  <2>2. CASE QueuedJobs(store, W) = {} /\ Quiet /\ Goto(h, "rest", 0)
             /\ UNCHANGED <<starts, late, ran, losses>>
    BY <1>5, <2>1, <2>2, IdleKind DEF PollJob, Steps, Holding
  <2>3. CASE QueuedJobs(store, W) # {} /\ ServePoll(W, AgentId(h))
             /\ Goto(h, "busy", NextJob(store, W)) /\ UNCHANGED <<starts, late, ran, losses>>
    <3> DEFINE n == NextJob(store, W)
    <3>1. AgentId(h) \in Agents
      BY <1>5, AgentIds DEF PollJob, Shape
    <3>2. Claims(n, AgentId(h)) /\ ServerShape'
      BY <1>a, <2>3, <3>1, ClaimShape DEF Shape, Claims
    <3>3. n \in 0 .. Len(Queue) /\ n # 0 /\ n \in Jobs
      BY <3>2, StoreJobs, QueueLength DEF Claims, Shape, Numbers
    <3>4. Goto(h, "busy", n)
      BY <2>3
    <3> HIDE DEF n
    <3>5. HostShape'
      BY <1>5, <2>3, <3>3, <3>4, MoveShape DEF PollJob, Shape, Steps, Holding
    <3>c. claims' \in [Numbers -> Nat]
      BY <3>2, <3>3, StoreJobs DEF Claims, Shape
    <3>6. Shape'
      BY <2>3, <3>2, <3>5, <3>c DEF Shape, LateShape
    <3>7. Takes(h, n)
      BY <2>1, <2>3, <3>2, <3>4 DEF Takes, Hand
    <3> QED BY <3>3, <3>6, <3>7 DEF Kinds
  <2> QED BY <1>5, <1>b, <2>2, <2>3 DEF PollJob, ServePoll
<1>6. CASE ExecuteJob(h)
  <2>1. job[h] \in 0 .. Len(Queue) /\ job[h] # 0 /\ job[h] \in Numbers
    BY <1>6, QueueLength DEF ExecuteJob, Shape, HostShape, Holding, Numbers
  <2>2. CASE ran' = [ran EXCEPT ![job[h]] = @ + 1] /\ Goto(h, "complete", job[h])
    <3>1. HostShape'
      BY <1>6, <2>1, <2>2, MoveShape DEF ExecuteJob, Shape, Steps, Holding
    <3>2. ran' \in [Numbers -> Nat]
      BY <2>1, <2>2 DEF Shape
    <3>3. Shape'
      BY <1>6, <3>1, <3>2 DEF ExecuteJob, Shape, ServerShape, LateShape, Quiet, server
    <3>4. Runs(h)
      BY <1>6, <2>2 DEF ExecuteJob, Runs, Hand
    <3> QED BY <3>3, <3>4 DEF Kinds
  <2>3. CASE ran' = ran /\ Goto(h, "rest", 0)
    BY <1>6, <2>3, GiveUpKind DEF ExecuteJob, Steps, Holding
  <2> QED BY <1>6, <2>2, <2>3 DEF ExecuteJob
<1>7. CASE CompleteJob(h)
  <2>1. job[h] \in Numbers /\ step[h] = "complete"
    BY <1>7, QueueLength DEF CompleteJob, Shape, HostShape, Holding, Numbers
  <2>2. CASE job[h] \in Jobs /\ ServeComplete(job[h]) /\ Goto(h, "free", 0)
             /\ UNCHANGED <<starts, late, ran, losses>>
    <3>1. Completes(job[h]) /\ ServerShape'
      BY <2>1, <2>2, CompletionShape DEF Shape, Completes
    <3>2. HostShape'
      BY <1>7, <2>2, QueueLength, MoveShape DEF CompleteJob, Shape, Steps, Holding
    <3>3. Shape'
      BY <2>2, <3>1, <3>2 DEF Shape, LateShape, Completes
    <3>4. Reports(h)
      BY <1>7, <2>2, <3>1 DEF CompleteJob, Reports, Hand
    <3> QED BY <3>3, <3>4 DEF Kinds
  <2>3. CASE Quiet /\ Goto(h, "rest", 0) /\ UNCHANGED <<starts, late, ran, losses>>
    BY <2>1, <2>3, GiveUpKind DEF Steps, Holding
  <2> QED BY <1>7, <1>b, <2>2, <2>3 DEF CompleteJob, ServeComplete
<1>8. CASE Rest(h)
  <2>1. job[h] = 0
    BY <1>8 DEF Rest, Shape, HostShape, Holding
  <2> QED BY <1>8, <2>1, IdleKind DEF Rest, Steps, Holding
<1> QED BY <1>1, <1>2, <1>3, <1>4, <1>5, <1>6, <1>7, <1>8 DEF Loop

LEMMA LateKinds ==
  ASSUME Shape, NEW r \in late, HandleLate(r)
  PROVE  Shape' /\ Kinds
<1>1. /\ late' = late \ {r}
      /\ UNCHANGED <<step, starts, job, ran, losses>>
  BY DEF HandleLate
<1>2. HostShape' /\ LateShape' /\ ran' \in [Numbers -> Nat]
  BY <1>1 DEF Shape, HostShape, LateShape
<1>3. ASSUME store' = store, claims' = claims, ServerShape', Quiet \/ Writes
      PROVE  Shape' /\ Kinds
  <2>1. Elsewhere
    BY <1>1, <1>3 DEF Elsewhere
  <2> QED BY <1>2, <1>3, <2>1 DEF Shape, Kinds
<1>a. CASE Quiet
  BY <1>3, <1>a DEF Shape, ServerShape, Quiet, server
<1>4. CASE ServeRegister
  <2>1. ServerShape' /\ store' = store /\ Writes /\ claims' = claims
    BY <1>4, ServeShape DEF ServeRegister, Shape, ServerShape
  <2> QED BY <1>3, <2>1
<1>5. CASE ServePoll(WorkspaceOf[r.agent[1]], r.agent)
  <2>1. WorkspaceOf[r.agent[1]] \in Workspaces /\ r.agent \in Agents
    BY FleetAssumption DEF Shape, LateShape
  <2>2. CASE QueuedJobs(store, WorkspaceOf[r.agent[1]]) = {}
    BY <1>5, <1>a, <2>2 DEF ServePoll
  <2>3. CASE QueuedJobs(store, WorkspaceOf[r.agent[1]]) # {}
    <3>1. PICK n : Claims(n, r.agent) /\ ServerShape'
      BY <1>5, <2>1, <2>3, ClaimShape DEF Shape, Claims
    <3>2. Late(r)
      BY <1>1, <3>1 DEF Late, Claims
    <3>3. claims' \in [Numbers -> Nat]
      BY <3>1, StoreJobs DEF Claims, Shape
    <3> QED BY <1>2, <3>1, <3>2, <3>3 DEF Shape, Kinds
  <2> QED BY <2>2, <2>3
<1>6. CASE r.what = "complete" /\ ServeComplete(r.job)
  <2>1. CASE r.job \notin Jobs
    BY <1>6, <1>a, <2>1 DEF ServeComplete
  <2>2. CASE r.job \in Jobs
    <3>1. Completes(r.job) /\ ServerShape'
      BY <1>6, <2>2, CompletionShape DEF Shape, Completes
    <3>2. Late(r)
      BY <1>1, <1>6, <3>1 DEF Late
    <3> QED BY <1>2, <3>1, <3>2 DEF Shape, Kinds, Completes
  <2> QED BY <2>1, <2>2
<1> QED BY <1>4, <1>5, <1>6 DEF HandleLate

LEMMA NextKinds ==
  ASSUME Shape, Next
  PROVE  Shape' /\ Kinds
<1>1. ASSUME NEW h \in Hosts, Start(h)
      PROVE  Shape' /\ Kinds
  <2>1. job[h] = 0
    BY <1>1 DEF Start, Shape, HostShape, Holding
  <2> QED BY <1>1, <2>1, IdleKind DEF Start, Steps, Holding
<1>2. ASSUME NEW h \in Hosts, Die(h)
      PROVE  Shape' /\ Kinds
  BY <1>2, GiveUpKind DEF Die, Steps, Holding
<1>3. CASE ServerRestart
  BY <1>3, RestartShape DEF Kinds
<1> QED BY <1>1, <1>2, <1>3, LoopKinds, LateKinds DEF Next

LEMMA ShapeInvariant == Spec => []Shape
<1>1. Shape /\ [Next]_vars => Shape'
  <2>1. ASSUME Shape, UNCHANGED vars PROVE Shape'
    BY <2>1 DEF vars, Shape, ServerShape, HostShape, LateShape
  <2> QED BY <2>1, NextKinds
<1> QED BY <1>1, InitShape, PTL DEF Spec

\* Every variable keeps its type.
THEOREM FleetTypeCorrect == Spec => []TypeOK
<1>1. Shape => TypeOK
  BY QueueLength DEF Shape, ServerShape, HostShape, LateShape, TypeOK, Numbers
<1> QED BY <1>1, ShapeInvariant, PTL

------------------------------------------------------------------------------
(* What is reported was run *)

Honest == \* what store and file have as done was run
  \A j \in Numbers :
    /\ Has(disk, j, "succeeded") => Has(store, j, "succeeded")
    /\ Has(store, j, "succeeded") => ran[j] > 0

RanInv ==
  /\ \A h \in Hosts : step[h] = "complete" => ran[job[h]] > 0
  /\ \A r \in late : r.what = "complete" => ran[r.job] > 0
  /\ Honest

\* A claim or a completion changes the status of one job, in the store and, unless
\* the write fails, in the file.
LEMMA Moved ==
  ASSUME Shape, Shape', NEW n \in Jobs, NEW to, JobMoves(store, store', n, to), Writes
  PROVE  /\ n \in Numbers /\ Jobs' = Jobs
         /\ Has(store', n, to)
         /\ \A s : Has(store', n, s) => s = to
         /\ \A j \in Jobs \ {n} : store'.edgeJobs[j] = store.edgeJobs[j]
         /\ \A j, s : j # n => (Has(store', j, s) <=> Has(store, j, s))
         /\ \A j, s : Has(disk', j, s) => Has(store', j, s) \/ Has(disk, j, s)
         /\ \A s : Has(disk', n, s) => s = to \/ lostWrites' = lostWrites + 1
         /\ lostWrites' \in {lostWrites, lostWrites + 1}
<1>1. n \in Numbers /\ store # Torn /\ store' # Torn
  BY StoreJobs, TornFileAssumption DEF Shape, ServerShape
<1>2. /\ Jobs' = Jobs
      /\ store'.edgeJobs[n].status = to
      /\ \A j \in Jobs \ {n} : store'.edgeJobs[j] = store.edgeJobs[j]
  BY DEF JobMoves, Jobs
<1>3. Has(store', n, to) /\ \A s : Has(store', n, s) => s = to
  BY <1>1, <1>2 DEF Has, Jobs
<1>4. \A j, s : j # n => (Has(store', j, s) <=> Has(store, j, s))
  BY <1>1, <1>2 DEF Has, Jobs
<1>5. /\ \A j, s : Has(disk', j, s) => Has(store', j, s) \/ Has(disk, j, s)
      /\ \A s : Has(disk', n, s) => s = to \/ lostWrites' = lostWrites + 1
      /\ lostWrites' \in {lostWrites, lostWrites + 1}
  <2>1. CASE disk' = store' /\ lostWrites' = lostWrites
    BY <1>3, <2>1
  <2>2. CASE disk' \in {disk, Torn} /\ lostWrites' = lostWrites + 1
    BY <2>2 DEF Has
  <2> QED BY <2>1, <2>2 DEF Writes
<1> QED BY <1>1, <1>2, <1>3, <1>4, <1>5

\* What a restart leaves behind was in the file.
LEMMA RestartHas ==
  ASSUME Shape, ServerRestart
  PROVE  /\ \A j, s : Has(store', j, s) => Has(disk, j, s)
         /\ \A j, s : Has(disk', j, s) => Has(store', j, s)
         /\ lostWrites' \in {lostWrites, lostWrites + 1}
<1>1. CASE Rereads
  BY <1>1 DEF Rereads
<1>2. CASE Forgets /\ Jobs' = {}
  <2>1. \A j, s : ~Has(store', j, s)
    BY <1>2 DEF Has, Jobs
  <2> QED BY <1>2, <2>1 DEF Forgets, Has
<1> QED BY <1>1, <1>2, RestartShape

LEMMA RanStep ==
  ASSUME Shape, Shape', RanInv, Kinds
  PROVE  RanInv'
<1>0. /\ ran \in [Numbers -> Nat] /\ job \in [Hosts -> 0 .. Len(Queue)]
      /\ step \in [Hosts -> Steps] /\ step' \in [Hosts -> Steps]
      /\ \A h \in Hosts : (job[h] # 0) <=> (step[h] \in Holding)
      /\ \A h \in Hosts : (job'[h] # 0) <=> (step'[h] \in Holding)
      /\ \A r \in late : r.what = "complete" => r.job \in Numbers
  BY DEF Shape, HostShape, LateShape
<1>z. Len(Queue) \in Nat /\ "complete" \in Holding
  BY QueueLength DEF Holding
<1>a. ASSUME ran' = ran, store' = store, Quiet \/ Writes
      PROVE  Honest'
  <2>1. disk' \in {store, disk, Torn}
    BY <1>a DEF Quiet, server, Writes
  <2> QED BY <1>a, <2>1 DEF RanInv, Honest, Has
<1>1. CASE Elsewhere
  <2>2. \A h \in Hosts : step'[h] = "complete" => step[h] = "complete" /\ job'[h] = job[h]
    BY <1>0, <1>1, <1>z DEF Elsewhere
  <2> QED BY <1>1, <1>a, <2>2 DEF Elsewhere, RanInv
<1>2. ASSUME NEW h \in Hosts, Carries(h)
      PROVE  RanInv'
  <2>1. \A g \in Hosts : step'[g] = "complete" => step[g] = "complete" /\ job'[g] = job[g]
    BY <1>0, <1>2 DEF Carries, Hand, Goto
  <2> QED BY <1>2, <1>a, <2>1 DEF Carries, Quiet, server, RanInv
<1>3. ASSUME NEW h \in Hosts, Drops(h)
      PROVE  RanInv'
  <2>1. \A g \in Hosts : step'[g] = "complete" => step[g] = "complete" /\ job'[g] = job[g]
    BY <1>0, <1>3, <1>z DEF Drops, Hand, Goto
  <2>2. \A r \in late' : r.what = "complete" => ran[r.job] > 0
    BY <1>3 DEF Drops, RanInv
  <2> QED BY <1>3, <1>a, <2>1, <2>2 DEF Drops, Quiet, server, RanInv
<1>4. ASSUME NEW h \in Hosts, Runs(h)
      PROVE  RanInv'
  <2>1. job[h] \in Numbers
    BY <1>0, <1>4, QueueLength DEF Runs, Holding, Numbers
  <2>2. \A j \in Numbers : ran[j] > 0 => ran'[j] > 0
    BY <1>0, <1>4, <2>1 DEF Runs
  <2>3. ran'[job[h]] > 0
    BY <1>0, <1>4, <2>1 DEF Runs
  <2>4. \A g \in Hosts : step'[g] = "complete" =>
          job'[g] = job[g] /\ (g = h \/ (step[g] = "complete" /\ job[g] \in Numbers))
    BY <1>0, <1>4, QueueLength DEF Runs, Hand, Goto, Holding, Numbers
  <2>5. Honest'
    BY <1>4, <2>2 DEF Runs, Quiet, server, RanInv, Honest
  <2> QED BY <1>0, <1>4, <2>2, <2>3, <2>4, <2>5 DEF Runs, RanInv
<1>5. ASSUME NEW h \in Hosts, Reports(h)
      PROVE  RanInv'
  <2>1. job[h] \in Jobs /\ ran[job[h]] > 0
    BY <1>5 DEF Reports, Completes, RanInv
  <2>2. \A g \in Hosts : step'[g] = "complete" => step[g] = "complete" /\ job'[g] = job[g]
    BY <1>0, <1>5 DEF Reports, Hand, Goto
  <2>3. Honest'
    BY <1>5, <2>1, Moved DEF Reports, Completes, RanInv, Honest
  <2> QED BY <1>5, <2>2, <2>3 DEF Reports, RanInv
<1>6. ASSUME NEW n \in Jobs, NEW a, Claims(n, a), ran' = ran
      PROVE  Honest'
  <2>1. Has(store, n, "queued") /\ ~Has(store', n, "succeeded")
    BY <1>6, Moved DEF Claims
  <2>2. ~Has(disk, n, "succeeded")
    BY <1>6, <2>1, StoreJobs DEF RanInv, Honest, Has, Shape
  <2> QED BY <1>6, <2>1, <2>2, Moved DEF Claims, RanInv, Honest
<1>7. ASSUME NEW h \in Hosts, NEW n \in Jobs, Takes(h, n)
      PROVE  RanInv'
  <2>1. \A g \in Hosts : step'[g] = "complete" => step[g] = "complete" /\ job'[g] = job[g]
    BY <1>0, <1>7 DEF Takes, Hand, Goto
  <2>2. Honest'
    BY <1>6, <1>7 DEF Takes
  <2> QED BY <1>7, <2>1, <2>2 DEF Takes, RanInv
<1>8. ASSUME NEW r \in late, Late(r)
      PROVE  RanInv'
  <2>1. late' \subseteq late /\ ran' = ran /\ step' = step /\ job' = job
    BY <1>8 DEF Late
  <2>2. CASE \E n \in Jobs : Claims(n, r.agent)
    <3>1. Honest'
      BY <1>6, <2>1, <2>2
    <3> QED BY <2>1, <3>1 DEF RanInv
  <2>3. CASE r.what = "complete" /\ Completes(r.job)
    <3>1. r.job \in Jobs /\ ran[r.job] > 0
      BY <1>0, <2>3 DEF RanInv, Completes
    <3>2. Honest'
      BY <2>1, <2>3, <3>1, Moved DEF Completes, RanInv, Honest
    <3> QED BY <2>1, <3>2 DEF RanInv
  <2> QED BY <1>8, <2>2, <2>3 DEF Late
<1>9. CASE ServerRestart
  <2>1. UNCHANGED <<step, job, late, ran>>
    BY <1>9, RestartShape
  <2>2. Honest'
    BY <1>9, <2>1, RestartHas DEF RanInv, Honest
  <2> QED BY <2>1, <2>2 DEF RanInv
<1> QED BY <1>1, <1>2, <1>3, <1>4, <1>5, <1>7, <1>8, <1>9 DEF Kinds

\* At first every job waits, in the store and in the file.
LEMMA InitJobs ==
  ASSUME Init
  PROVE  /\ store = disk
         /\ Jobs = Numbers
         /\ \A j, s : Has(store, j, s) => s = "queued"
         /\ \A h \in Hosts : job[h] = 0 /\ step[h] = "down"
         /\ late = {} /\ lostWrites = 0
         /\ ran = [j \in Numbers |-> 0] /\ claims = [j \in Numbers |-> 0]
<1> DEFINE q == [j \in Numbers |-> [workspace |-> Queue[j],
                                    build |-> CHOOSE b \in Builds : TRUE,
                                    status |-> "queued", claimedBy |-> Nobody]]
<1>1. store = [EmptyStore EXCEPT !.edgeJobs = q]
  BY DEF Init, Numbers
<1>2. \A j \in Numbers : q[j].status = "queued"
  OBVIOUS
<1> HIDE DEF q
<1>3. store.edgeJobs = q
  BY <1>1 DEF EmptyStore
<1> QED BY <1>2, <1>3 DEF Init, Numbers, Jobs, Has

LEMMA RanInvariant == Spec => []RanInv
<1>1. Init => RanInv
  BY InitJobs DEF RanInv, Honest
<1>2. Shape /\ Shape' /\ RanInv /\ [Next]_vars => RanInv'
  <2>1. ASSUME RanInv, UNCHANGED vars PROVE RanInv'
    BY <2>1 DEF vars, RanInv, Honest
  <2> QED BY <2>1, NextKinds, RanStep
<1> QED BY <1>1, <1>2, ShapeInvariant, PTL DEF Spec

\* For any agents, queue and faults: a job that is reported as succeeded, in memory or
\* in the file, was run.
THEOREM DoneWasRun == Spec => []SucceededRan
<1>1. RanInv => SucceededRan
  BY DEF RanInv, Honest, SucceededRan, Numbers
<1> QED BY <1>1, RanInvariant, PTL

------------------------------------------------------------------------------
(* Who holds a job, while no write has failed *)

\* No two agents have one job, and what they have is claimed in their names.
Owned ==
  /\ \A h \in Hosts :
       job[h] \in Jobs =>
         /\ Has(store, job[h], "claimed")
         /\ store.edgeJobs[job[h]].claimedBy = AgentId(h)
  /\ \A g, h \in Hosts : job[g] # 0 /\ job[g] = job[h] => g = h

\* No late request reports a job that waits or that an agent has in hand.
Harmless ==
  \A r \in late :
    r.what = "complete" =>
      /\ ~Has(store, r.job, "queued")
      /\ \A h \in Hosts : job[h] # r.job

HeldInv == lostWrites = 0 => store = disk /\ Owned /\ Harmless

LEMMA HeldStep ==
  ASSUME Shape, Shape', HeldInv, Kinds
  PROVE  HeldInv'
<1> SUFFICES ASSUME lostWrites' = 0 PROVE (store = disk /\ Owned /\ Harmless)'
  BY DEF HeldInv
<1>0. /\ lostWrites \in Nat /\ lostWrites' \in Nat
      /\ job \in [Hosts -> 0 .. Len(Queue)] /\ starts \in [Hosts -> 0 .. MaxStarts]
      /\ step \in [Hosts -> Steps]
      /\ \A h \in Hosts : (job[h] # 0) <=> (step[h] \in Holding)
      /\ \A h \in Hosts : job[h] # 0 => job[h] \in Numbers
      /\ \A r \in late : r.what = "complete" => r.job \in Numbers
      /\ Jobs \subseteq Numbers /\ 0 \notin Numbers
  BY FleetAssumption, QueueLength, StoreJobs DEF Shape, ServerShape, HostShape, LateShape, Numbers
<1>w. ASSUME Writes
      PROVE  lostWrites = 0 /\ disk' = store'
  BY <1>0, <1>w DEF Writes
<1>q. ASSUME Quiet
      PROVE  lostWrites = 0 /\ store' = store /\ disk' = store /\ Jobs' = Jobs
  BY <1>q DEF Quiet, server, HeldInv, Jobs
<1>1. CASE Elsewhere
  <2>1. lostWrites = 0 /\ disk' = store' /\ store' = store /\ Jobs' = Jobs
    BY <1>1, <1>w, <1>q DEF Elsewhere, Jobs
  <2>2. \A h \in Hosts : job[h] # 0 => AgentId(h)' = AgentId(h)
    BY <1>1 DEF Elsewhere, AgentId
  <2>3. Owned'
    BY <1>0, <1>1, <2>1, <2>2 DEF Elsewhere, HeldInv, Owned
  <2>4. Harmless'
    BY <1>1, <2>1 DEF Elsewhere, HeldInv, Harmless
  <2> QED BY <2>1, <2>3, <2>4
<1>2. ASSUME NEW h \in Hosts, Hand(h, "execute", job[h]) \/ Hand(h, "complete", job[h]),
             Quiet, late' = late
      PROVE  (store = disk /\ Owned /\ Harmless)'
  <2>1. job' = job /\ \A g \in Hosts : AgentId(g)' = AgentId(g)
    BY <1>0, <1>2 DEF Hand, Goto, AgentId
  <2>2. Owned' /\ Harmless'
    BY <1>2, <1>q, <2>1 DEF HeldInv, Owned, Harmless
  <2> QED BY <1>2, <1>q, <2>2
<1>3. ASSUME NEW h \in Hosts, Drops(h)
      PROVE  (store = disk /\ Owned /\ Harmless)'
  <2>1. /\ store' = store /\ disk' = store /\ lostWrites = 0 /\ Jobs' = Jobs
        /\ job' = [job EXCEPT ![h] = 0]
        /\ \A g \in Hosts : AgentId(g)' = AgentId(g)
    BY <1>3, <1>q DEF Drops, Hand, Goto, AgentId
  <2>2. Owned'
    BY <1>0, <2>1 DEF HeldInv, Owned
  <2>3. \A g \in Hosts : job'[g] # job[h]
    BY <1>0, <1>3, <2>1 DEF Drops, HeldInv, Owned
  <2>4. ASSUME NEW r \in late', r.what = "complete"
        PROVE  ~Has(store, r.job, "queued") /\ \A g \in Hosts : job'[g] # r.job
    <3>1. CASE r \in late
      <4>1. /\ r.job # 0 /\ ~Has(store, r.job, "queued")
            /\ \A g \in Hosts : job[g] # r.job
        BY <1>0, <2>1, <2>4, <3>1 DEF HeldInv, Harmless
      <4> QED BY <1>0, <2>1, <4>1
    <3>2. CASE r \notin late
      <4>1. r.job = job[h]
        BY <1>3, <2>4, <3>2 DEF Drops
      <4>2. ~Has(store, job[h], "queued")
        BY <2>1 DEF HeldInv, Owned, Has, Jobs
      <4> QED BY <2>3, <4>1, <4>2
    <3> QED BY <3>1, <3>2
  <2> QED BY <2>1, <2>2, <2>4 DEF Harmless
<1>4. ASSUME NEW n \in Jobs, NEW a, Claims(n, a)
      PROVE  /\ lostWrites = 0 /\ disk' = store' /\ Jobs' = Jobs
             /\ \A g \in Hosts : job[g] # n
             /\ \A g \in Hosts : job[g] \in Jobs =>
                  /\ Has(store', job[g], "claimed")
                  /\ store'.edgeJobs[job[g]].claimedBy = AgentId(g)
             /\ \A r \in late : r.what = "complete" =>
                  /\ r.job # n
                  /\ ~Has(store', r.job, "queued")
             /\ Has(store', n, "claimed")
             /\ store'.edgeJobs[n].claimedBy = a
  <2>1. lostWrites = 0 /\ disk' = store'
    BY <1>4, <1>w DEF Claims
  <2>2. Has(store, n, "queued")
    BY <1>4 DEF Claims
  <2>3. /\ Jobs' = Jobs /\ Has(store', n, "claimed")
        /\ \A j \in Jobs \ {n} : store'.edgeJobs[j] = store.edgeJobs[j]
        /\ \A j, s : j # n => (Has(store', j, s) <=> Has(store, j, s))
    BY <1>4, Moved DEF Claims
  <2>4. \A g \in Hosts : job[g] # n
    BY <2>1, <2>2 DEF HeldInv, Owned, Has
  <2>5. \A r \in late : r.what = "complete" => r.job # n /\ ~Has(store', r.job, "queued")
    BY <2>1, <2>2, <2>3 DEF HeldInv, Harmless
  <2>6. \A g \in Hosts : job[g] \in Jobs =>
          /\ Has(store', job[g], "claimed")
          /\ store'.edgeJobs[job[g]].claimedBy = AgentId(g)
    BY <2>1, <2>3, <2>4 DEF HeldInv, Owned
  <2> QED BY <1>4, <2>1, <2>3, <2>4, <2>5, <2>6 DEF Claims
<1>5. ASSUME NEW h \in Hosts, NEW n \in Jobs, Takes(h, n)
      PROVE  (store = disk /\ Owned /\ Harmless)'
  <2>1. /\ job' = [job EXCEPT ![h] = n] /\ late' = late
        /\ \A g \in Hosts : AgentId(g)' = AgentId(g)
    BY <1>5 DEF Takes, Hand, Goto, AgentId
  <2>2. Claims(n, AgentId(h))
    BY <1>5 DEF Takes
  <2>3. ASSUME NEW g \in Hosts, job'[g] \in Jobs
        PROVE  /\ Has(store', job'[g], "claimed")
               /\ store'.edgeJobs[job'[g]].claimedBy = AgentId(g)
    <3>1. CASE g = h
      BY <1>0, <1>4, <2>1, <2>2, <3>1
    <3>2. CASE g # h
      BY <1>0, <1>4, <2>1, <2>2, <2>3, <3>2
    <3> QED BY <3>1, <3>2
  <2>4. \A f, g \in Hosts : job'[f] # 0 /\ job'[f] = job'[g] => f = g
    BY <1>0, <1>4, <2>1, <2>2 DEF HeldInv, Owned
  <2>5. Owned'
    BY <1>4, <2>1, <2>2, <2>3, <2>4 DEF Owned
  <2>6. ASSUME NEW r \in late, r.what = "complete"
        PROVE  ~Has(store', r.job, "queued") /\ \A g \in Hosts : job'[g] # r.job
    <3>1. \A g \in Hosts : job[g] # r.job
      BY <1>4, <2>2, <2>6 DEF HeldInv, Harmless
    <3>2. r.job # n /\ ~Has(store', r.job, "queued")
      BY <1>4, <2>2, <2>6
    <3> QED BY <1>0, <2>1, <3>1, <3>2
  <2> QED BY <1>4, <2>1, <2>2, <2>5, <2>6 DEF Harmless
<1>6. ASSUME NEW j \in Jobs, Completes(j),
             lostWrites = 0 => \A g \in Hosts : job'[g] # j /\ job'[g] \in {0, job[g]},
             \A g \in Hosts : AgentId(g)' = AgentId(g), late' \subseteq late
      PROVE  (store = disk /\ Owned /\ Harmless)'
  <2>1. lostWrites = 0 /\ disk' = store'
    BY <1>6, <1>w DEF Completes
  <2>2. /\ Jobs' = Jobs
        /\ \A s : Has(store', j, s) => s = "succeeded"
        /\ \A k \in Jobs \ {j} : store'.edgeJobs[k] = store.edgeJobs[k]
        /\ \A k, s : k # j => (Has(store', k, s) <=> Has(store, k, s))
    BY <1>6, Moved DEF Completes
  <2>3. ASSUME NEW g \in Hosts, job'[g] \in Jobs
        PROVE  /\ Has(store', job'[g], "claimed")
               /\ store'.edgeJobs[job'[g]].claimedBy = AgentId(g)
    <3>1. job'[g] = job[g] /\ job[g] \in Jobs \ {j}
      BY <1>0, <1>6, <2>1, <2>3
    <3> QED BY <2>1, <2>2, <3>1 DEF HeldInv, Owned
  <2>4. \A f, g \in Hosts : job'[f] # 0 /\ job'[f] = job'[g] => f = g
    BY <1>6, <2>1 DEF HeldInv, Owned
  <2>5. Owned'
    BY <1>6, <2>2, <2>3, <2>4 DEF Owned
  <2>6. ASSUME NEW r \in late, r.what = "complete"
        PROVE  ~Has(store', r.job, "queued") /\ \A g \in Hosts : job'[g] # r.job
    <3>1. /\ r.job # 0 /\ ~Has(store, r.job, "queued")
          /\ \A g \in Hosts : job[g] # r.job
      BY <1>0, <2>1, <2>6 DEF HeldInv, Harmless
    <3>2. ~Has(store', r.job, "queued")
      BY <2>2, <3>1
    <3> QED BY <1>6, <2>1, <3>1, <3>2
  <2> QED BY <1>6, <2>1, <2>5, <2>6 DEF Harmless
<1>7. ASSUME NEW h \in Hosts, Reports(h)
      PROVE  (store = disk /\ Owned /\ Harmless)'
  <2>1. /\ job' = [job EXCEPT ![h] = 0] /\ late' = late /\ job[h] \in Jobs
        /\ \A g \in Hosts : AgentId(g)' = AgentId(g)
    BY <1>7 DEF Reports, Completes, Hand, Goto, AgentId
  <2>2. job[h] # 0
    BY <1>0, <2>1
  <2>3. lostWrites = 0 => \A g \in Hosts \ {h} : job[g] # job[h]
    BY <2>2 DEF HeldInv, Owned
  <2>4. lostWrites = 0 => \A g \in Hosts : job'[g] # job[h] /\ job'[g] \in {0, job[g]}
    BY <1>0, <2>1, <2>2, <2>3
  <2> QED BY <1>6, <1>7, <2>1, <2>4 DEF Reports
<1>8. ASSUME NEW r \in late, Late(r)
      PROVE  (store = disk /\ Owned /\ Harmless)'
  <2>1. late' \subseteq late /\ job' = job /\ \A g \in Hosts : AgentId(g)' = AgentId(g)
    BY <1>8 DEF Late, AgentId
  <2>2. ASSUME NEW n \in Jobs, Claims(n, r.agent)
        PROVE  (store = disk /\ Owned /\ Harmless)'
    <3>1. Owned'
      BY <1>4, <2>1, <2>2 DEF HeldInv, Owned
    <3>2. Harmless'
      BY <1>4, <2>1, <2>2 DEF HeldInv, Harmless
    <3> QED BY <1>4, <2>2, <3>1, <3>2
  <2>3. CASE r.what = "complete" /\ Completes(r.job)
    <3>1. lostWrites = 0 => \A g \in Hosts : job'[g] # r.job /\ job'[g] \in {0, job[g]}
      BY <2>1, <2>3 DEF HeldInv, Harmless
    <3>2. r.job \in Jobs
      BY <2>3 DEF Completes
    <3> QED BY <1>6, <2>1, <2>3, <3>1, <3>2
  <2> QED BY <1>8, <2>2, <2>3 DEF Late
<1>9. CASE ServerRestart
  <2>1. /\ UNCHANGED <<step, starts, job, late>>
        /\ (Rereads /\ store # disk) \/ (Forgets /\ Jobs' = {})
    BY <1>9, RestartShape
  <2>2. Forgets /\ Jobs' = {} /\ lostWrites = 0 /\ store' = disk'
    BY <1>0, <2>1 DEF HeldInv, Rereads, Forgets
  <2>3. \A j, s : ~Has(store', j, s)
    BY <2>2 DEF Has, Jobs
  <2>4. Owned'
    BY <2>1, <2>2 DEF HeldInv, Owned
  <2>5. Harmless'
    BY <2>1, <2>2, <2>3 DEF HeldInv, Harmless
  <2> QED BY <2>2, <2>4, <2>5
<1> QED BY <1>1, <1>2, <1>3, <1>5, <1>7, <1>8, <1>9 DEF Kinds, Carries, Runs

LEMMA HeldInvariant == Spec => []HeldInv
<1>1. Init => HeldInv
  BY InitJobs DEF HeldInv, Owned, Harmless, Numbers
<1>2. Shape /\ Shape' /\ HeldInv /\ [Next]_vars => HeldInv'
  <2>1. ASSUME HeldInv, UNCHANGED vars PROVE HeldInv'
    BY <2>1 DEF vars, HeldInv, Owned, Harmless, AgentId, Jobs
  <2> QED BY <2>1, NextKinds, HeldStep
<1> QED BY <1>1, <1>2, ShapeInvariant, PTL DEF Spec

\* For any agents that die and return and any requests that are lost or late: until a
\* write fails, what an agent has in hand is claimed in its own name, or forgotten, and
\* no other agent has it.
THEOREM JobsAreHeldByClaimants == Spec => []HeldByClaimant
<1>1. HeldInv => HeldByClaimant
  BY DEF HeldInv, Owned, HeldByClaimant, Has
<1> QED BY <1>1, HeldInvariant, PTL

------------------------------------------------------------------------------
(* How often a job runs *)

InHand == [j \in Numbers |-> Cardinality(Holders(j))]

\* A step of the server that gives no job to an agent.
ServerMoves ==
  \/ /\ store' = store /\ Jobs' = Jobs /\ claims' = claims
     /\ Quiet \/ Writes
  \/ \E n \in Jobs, a \in Hosts \X Nat : Claims(n, a)
  \/ \E j \in Jobs : Completes(j) /\ ran[j] > 0
  \/ ServerRestart

HandsSame == InHand' = InHand /\ ran' = ran /\ ServerMoves

\* An agent runs what it has in hand or lets it go.
HandsDown(j) ==
  /\ InHand[j] > 0
  /\ InHand' = [InHand EXCEPT ![j] = InHand[j] - 1]
  /\ ran' = ran \/ ran' = [ran EXCEPT ![j] = ran[j] + 1]
  /\ Quiet /\ Jobs' = Jobs

HandsUp(j) ==
  /\ j \in Jobs /\ \E a \in Hosts \X Nat : Claims(j, a)
  /\ InHand' = [InHand EXCEPT ![j] = InHand[j] + 1]
  /\ ran' = ran

LEMMA HoldersFinite ==
  ASSUME NEW j
  PROVE  IsFiniteSet(Holders(j)) /\ Cardinality(Holders(j)) \in Nat
<1>1. Holders(j) \in SUBSET Hosts /\ IsFiniteSet(Hosts)
  BY FleetAssumption DEF Holders
<1> HIDE DEF Holders
<1>2. IsFiniteSet(Holders(j))
  BY <1>1, FS_Subset
<1> QED BY <1>2, FS_CardinalityType

\* An agent that lets a job go, one that gets one, and what the counts make of it.
LEMMA OneLess ==
  ASSUME NEW j \in Numbers, NEW h \in Holders(j), Holders(j)' = Holders(j) \ {h},
         \A k \in Numbers \ {j} : Holders(k)' = Holders(k)
  PROVE  InHand[j] > 0 /\ InHand' = [InHand EXCEPT ![j] = InHand[j] - 1]
<1>1. /\ Cardinality(Holders(j)) \in Nat /\ Cardinality(Holders(j)) # 0
      /\ Cardinality(Holders(j) \ {h}) = Cardinality(Holders(j)) - 1
  BY HoldersFinite, FS_RemoveElement, FS_EmptySet
<1>2. Cardinality(Holders(j))' = Cardinality(Holders(j)) - 1
  BY <1>1
<1>3. InHand[j] = Cardinality(Holders(j)) /\ DOMAIN InHand = Numbers
  BY DEF InHand
<1>4. InHand[j] > 0
  BY <1>1, <1>3
<1>5. InHand' = [InHand EXCEPT ![j] = InHand[j] - 1]
  BY <1>2, <1>3 DEF InHand
<1> QED BY <1>4, <1>5

LEMMA OneMore ==
  ASSUME NEW j \in Numbers, NEW h, h \notin Holders(j), Holders(j)' = Holders(j) \cup {h},
         \A k \in Numbers \ {j} : Holders(k)' = Holders(k)
  PROVE  InHand' = [InHand EXCEPT ![j] = InHand[j] + 1]
<1>1. Cardinality(Holders(j) \cup {h}) = Cardinality(Holders(j)) + 1
  BY HoldersFinite, FS_AddElement
<1>2. Cardinality(Holders(j))' = Cardinality(Holders(j)) + 1
  BY <1>1
<1> QED BY <1>2 DEF InHand

LEMMA SameHolders ==
  ASSUME \A k \in Numbers : Holders(k)' = Holders(k)
  PROVE  InHand' = InHand
BY DEF InHand

LEMMA HandSteps ==
  ASSUME Shape, Shape', RanInv, Kinds
  PROVE  HandsSame \/ \E j \in Numbers : HandsDown(j) \/ HandsUp(j)
<1>0. /\ job \in [Hosts -> 0 .. Len(Queue)] /\ step \in [Hosts -> Steps]
      /\ \A h \in Hosts : (job[h] # 0) <=> (step[h] \in Holding)
      /\ \A h \in Hosts : job[h] # 0 => job[h] \in Numbers
      /\ 0 \notin Numbers /\ Jobs \subseteq Numbers
      /\ \A h \in Hosts : AgentId(h) \in Hosts \X Nat
  BY FleetAssumption, QueueLength, StoreJobs DEF Shape, HostShape, Numbers, AgentId
<1>q. Quiet => store' = store /\ Jobs' = Jobs /\ claims' = claims
  BY DEF Quiet, server, Jobs
<1>1. CASE Elsewhere
  <2>1. \A k \in Numbers : Holders(k)' = Holders(k)
    BY <1>0, <1>1 DEF Elsewhere, Holders
  <2>2. ran' = ran /\ ServerMoves
    BY <1>1 DEF Elsewhere, ServerMoves, Jobs
  <2> QED BY <2>1, <2>2, SameHolders DEF HandsSame
<1>2. ASSUME NEW h \in Hosts, Carries(h)
      PROVE  HandsSame
  <2>1. \A k \in Numbers : Holders(k)' = Holders(k)
    BY <1>0, <1>2 DEF Carries, Hand, Goto, Holders
  <2>2. ran' = ran /\ ServerMoves
    BY <1>2, <1>q DEF Carries, ServerMoves
  <2> QED BY <2>1, <2>2, SameHolders DEF HandsSame
<1>3. ASSUME NEW h \in Hosts, NEW n \in Numbers, n = job[h], Drops(h)
      PROVE  HandsSame \/ HandsDown(n)
  <2>0. /\ job' = [job EXCEPT ![h] = 0]
        /\ \E where \in Steps \ Holding : step' = [step EXCEPT ![h] = where]
        /\ ran' = ran /\ Quiet
    BY <1>0, <1>3 DEF Drops, Hand, Goto
  <2>1. CASE step[h] = "complete"
    <3>1. \A k \in Numbers : Holders(k)' = Holders(k)
      BY <1>0, <2>0, <2>1 DEF Holders
    <3> QED BY <1>q, <2>0, <3>1, SameHolders DEF HandsSame, ServerMoves
  <2>2. CASE step[h] # "complete"
    <3>1. h \in Holders(n)
      BY <1>0, <1>3, <2>2 DEF Holders, Holding
    <3>2. Holders(n)' = Holders(n) \ {h}
      BY <1>0, <1>3, <2>0 DEF Holders, Holding
    <3>3. \A k \in Numbers \ {n} : Holders(k)' = Holders(k)
      BY <1>0, <1>3, <2>0 DEF Holders, Holding
    <3> QED BY <1>q, <2>0, <3>1, <3>2, <3>3, OneLess DEF HandsDown
  <2> QED BY <2>1, <2>2
<1>4. ASSUME NEW h \in Hosts, NEW n \in Numbers, n = job[h], Runs(h)
      PROVE  HandsDown(n)
  <2>0. /\ step[h] = "execute"
        /\ job' = job /\ step' = [step EXCEPT ![h] = "complete"]
        /\ ran' = [ran EXCEPT ![n] = ran[n] + 1] /\ Quiet
    BY <1>0, <1>4 DEF Runs, Hand, Goto, Holding
  <2>1. h \in Holders(n)
    BY <1>4, <2>0 DEF Holders
  <2>2. Holders(n)' = Holders(n) \ {h}
    BY <1>0, <1>4, <2>0 DEF Holders
  <2>3. \A k \in Numbers \ {n} : Holders(k)' = Holders(k)
    BY <1>0, <1>4, <2>0 DEF Holders
  <2> QED BY <1>q, <2>0, <2>1, <2>2, <2>3, OneLess DEF HandsDown
<1>5. ASSUME NEW h \in Hosts, Reports(h)
      PROVE  HandsSame
  <2>0. /\ step[h] = "complete" /\ job' = [job EXCEPT ![h] = 0]
        /\ step' = [step EXCEPT ![h] = "free"] /\ ran' = ran
        /\ job[h] \in Jobs /\ Completes(job[h])
    BY <1>5 DEF Reports, Completes, Hand, Goto
  <2>1. \A k \in Numbers : Holders(k)' = Holders(k)
    BY <1>0, <2>0 DEF Holders
  <2>2. ServerMoves
    BY <2>0 DEF RanInv, ServerMoves
  <2> QED BY <2>0, <2>1, <2>2, SameHolders DEF HandsSame
<1>6. ASSUME NEW h \in Hosts, NEW n \in Jobs, Takes(h, n)
      PROVE  HandsUp(n)
  <2>0. /\ job[h] = 0 /\ job' = [job EXCEPT ![h] = n]
        /\ step' = [step EXCEPT ![h] = "busy"]
    BY <1>6 DEF Takes, Hand, Goto
  <2>1. h \notin Holders(n)
    BY <1>0, <2>0 DEF Holders
  <2>2. Holders(n)' = Holders(n) \cup {h}
    BY <1>0, <2>0 DEF Holders
  <2>3. \A k \in Numbers \ {n} : Holders(k)' = Holders(k)
    BY <1>0, <2>0 DEF Holders
  <2> QED BY <1>0, <1>6, <2>1, <2>2, <2>3, OneMore DEF HandsUp, Takes
<1>7. ASSUME NEW r \in late, Late(r)
      PROVE  HandsSame
  <2>1. \A k \in Numbers : Holders(k)' = Holders(k)
    BY <1>7 DEF Late, Holders
  <2>2. r.agent \in Hosts \X Nat
    BY FleetAssumption DEF Shape, LateShape
  <2>3. ServerMoves
    BY <1>7, <2>2 DEF Late, Completes, RanInv, ServerMoves
  <2> QED BY <1>7, <2>1, <2>3, SameHolders DEF Late, HandsSame
<1>8. CASE ServerRestart
  <2>1. UNCHANGED <<step, job, ran>>
    BY <1>8, RestartShape
  <2>2. \A k \in Numbers : Holders(k)' = Holders(k)
    BY <2>1 DEF Holders
  <2> QED BY <1>8, <2>1, <2>2, SameHolders DEF HandsSame, ServerMoves
<1>9. \A h \in Hosts : Drops(h) \/ Runs(h) => job[h] \in Numbers
  BY <1>0 DEF Drops, Runs, Holding
<1> QED BY <1>0, <1>1, <1>2, <1>3, <1>4, <1>5, <1>6, <1>7, <1>8, <1>9 DEF Kinds

\* Each job's hand-outs against the writes that failed, and against its runs and the
\* agents about to run it.
BoundInv ==
  \A j \in Numbers :
    /\ InHand[j] + ran[j] <= claims[j]
    /\ claims[j] <= 1 + lostWrites
    /\ Has(store, j, "queued") \/ Has(disk, j, "queued") => claims[j] <= lostWrites

LEMMA BoundStep ==
  ASSUME Shape, Shape', RanInv, BoundInv, Kinds
  PROVE  BoundInv'
<1>0. /\ lostWrites \in Nat /\ ran \in [Numbers -> Nat] /\ claims \in [Numbers -> Nat]
      /\ \A j \in Numbers : InHand[j] \in Nat
      /\ DOMAIN InHand = Numbers /\ Jobs \subseteq Numbers
  BY FleetAssumption, HoldersFinite, StoreJobs DEF Shape, ServerShape, InHand
\* What a claim or a completion of n does to who waits.
<1>1. ASSUME NEW n \in Jobs, NEW to, to # "queued", JobMoves(store, store', n, to), Writes,
             NEW j \in Numbers
      PROVE  /\ lostWrites' \in {lostWrites, lostWrites + 1}
             /\ Has(store', j, "queued") \/ Has(disk', j, "queued")
                  => \/ lostWrites' = lostWrites + 1
                     \/ j # n /\ (Has(store, j, "queued") \/ Has(disk, j, "queued"))
  BY <1>1, Moved
<1>2. ASSUME NEW n \in Jobs, NEW a, Claims(n, a), NEW j \in Numbers
      PROVE  /\ claims'[j] = IF j = n THEN claims[j] + 1 ELSE claims[j]
             /\ claims'[j] <= 1 + lostWrites'
             /\ Has(store', j, "queued") \/ Has(disk', j, "queued") => claims'[j] <= lostWrites'
  <2>1. claims'[j] = IF j = n THEN claims[j] + 1 ELSE claims[j]
    BY <1>0, <1>2 DEF Claims
  <2>2. claims[n] <= lostWrites
    BY <1>0, <1>2 DEF Claims, BoundInv
  <2>3. /\ lostWrites' \in {lostWrites, lostWrites + 1}
        /\ Has(store', j, "queued") \/ Has(disk', j, "queued")
             => \/ lostWrites' = lostWrites + 1
                \/ j # n /\ (Has(store, j, "queued") \/ Has(disk, j, "queued"))
    BY <1>1, <1>2 DEF Claims
  <2> QED BY <1>0, <2>1, <2>2, <2>3 DEF BoundInv
<1>3. ASSUME HandsSame
      PROVE  BoundInv'
  <2>1. ASSUME NEW n \in Jobs, NEW a, Claims(n, a)
        PROVE  BoundInv'
    BY <1>0, <1>2, <1>3, <2>1 DEF HandsSame, BoundInv
  <2>2. ASSUME NEW n \in Jobs, Completes(n)
        PROVE  BoundInv'
    BY <1>0, <1>1, <1>3, <2>2 DEF HandsSame, Completes, BoundInv
  <2>3. ASSUME store' = store, claims' = claims, Quiet \/ Writes
        PROVE  BoundInv'
    <3>1. disk' \in {store, disk, Torn} /\ lostWrites' \in {lostWrites, lostWrites + 1}
      BY <2>3 DEF Quiet, server, Writes
    <3> QED BY <1>0, <1>3, <2>3, <3>1 DEF HandsSame, BoundInv, Has
  <2>4. CASE ServerRestart
    <3>1. claims' = claims
      BY <2>4, RestartShape
    <3> QED BY <1>0, <1>3, <2>4, <3>1, RestartHas DEF HandsSame, BoundInv
  <2> QED BY <1>3, <2>1, <2>2, <2>3, <2>4 DEF HandsSame, ServerMoves
<1>4. ASSUME NEW j \in Numbers, HandsDown(j)
      PROVE  BoundInv'
  <2>1. ASSUME NEW k \in Numbers
        PROVE  /\ InHand'[k] + ran'[k] <= InHand[k] + ran[k]
               /\ InHand'[k] + ran'[k] \in Int
    <3>1. InHand'[k] = IF k = j THEN InHand[k] - 1 ELSE InHand[k]
      BY <1>0, <1>4 DEF HandsDown
    <3>2. ran'[k] = ran[k] \/ (k = j /\ ran'[k] = ran[k] + 1)
      BY <1>0, <1>4 DEF HandsDown
    <3> QED BY <1>0, <3>1, <3>2
  <2>2. UNCHANGED server
    BY <1>4 DEF HandsDown, Quiet
  <2> QED BY <1>0, <2>1, <2>2 DEF server, BoundInv, Has
<1>5. ASSUME NEW n \in Numbers, HandsUp(n)
      PROVE  BoundInv'
  <2>1. PICK a : Claims(n, a)
    BY <1>5 DEF HandsUp
  <2>2. ASSUME NEW j \in Numbers
        PROVE  InHand'[j] + ran'[j] <= claims'[j]
    <3>1. InHand'[j] = IF j = n THEN InHand[j] + 1 ELSE InHand[j]
      BY <1>0, <1>5 DEF HandsUp
    <3>2. claims'[j] = IF j = n THEN claims[j] + 1 ELSE claims[j]
      BY <1>0, <2>1 DEF Claims
    <3>3. ran'[j] = ran[j]
      BY <1>5 DEF HandsUp
    <3> QED BY <1>0, <3>1, <3>2, <3>3 DEF BoundInv
  <2>3. n \in Jobs
    BY <1>5 DEF HandsUp
  <2> QED BY <1>2, <2>1, <2>2, <2>3 DEF BoundInv
<1> QED BY <1>3, <1>4, <1>5, HandSteps

LEMMA InitInHand == Init => InHand = [j \in Numbers |-> 0]
<1> SUFFICES ASSUME Init PROVE InHand = [j \in Numbers |-> 0]
  OBVIOUS
<1>1. \A j \in Numbers : Holders(j) = {}
  BY InitJobs DEF Holders
<1> QED BY <1>1, FS_EmptySet DEF InHand

LEMMA BoundInvariant == Spec => []BoundInv
<1>1. Init => BoundInv
  BY InitJobs, InitInHand DEF BoundInv
<1>2. Shape /\ Shape' /\ RanInv /\ BoundInv /\ [Next]_vars => BoundInv'
  <2>1. ASSUME BoundInv, UNCHANGED vars PROVE BoundInv'
    BY <2>1 DEF vars, BoundInv, InHand, Holders, Has
  <2> QED BY <2>1, NextKinds, BoundStep
<1> QED BY <1>1, <1>2, ShapeInvariant, RanInvariant, PTL DEF Spec

\* For any number of agents, starts, lost and late requests and torn files: a job is run
\* at most once, and once more for every write of the file that failed.
THEOREM RunsCostWrites == Spec => []RunsAreBounded
<1>1. Shape /\ BoundInv => RunsAreBounded
  <2> SUFFICES ASSUME Shape, BoundInv, NEW j \in Numbers PROVE ran[j] <= 1 + lostWrites
    BY DEF RunsAreBounded, Numbers
  <2>1. InHand[j] \in Nat /\ ran[j] \in Nat /\ claims[j] \in Nat /\ lostWrites \in Nat
    BY FleetAssumption, HoldersFinite DEF InHand, Shape, ServerShape
  <2> QED BY <2>1 DEF BoundInv
<1> QED BY <1>1, ShapeInvariant, BoundInvariant, PTL

------------------------------------------------------------------------------
(* The job queue is implemented *)

Done == {j \in Numbers : Has(store, j, "succeeded")}

\* Agents, network, file and control API together implement the job queue: it hands a
\* job out once, and again only in return for a failed write, whether the agent ran or
\* dropped it or never got it; done means run; a torn file brings no job back.
THEOREM QueueImplemented == Spec => KeepsPromise
<1>1. Init => Promise!Init
  <2> SUFFICES ASSUME Init PROVE Promise!Init
    OBVIOUS
  <2>1. ReportedJobs = {}
    BY InitJobs DEF ReportedJobs
  <2> QED BY <2>1, InitJobs, InitInHand DEF Promise!Init, InHand, Numbers
<1>2. Shape /\ Shape' /\ RanInv /\ HeldInv /\ BoundInv /\ [Next]_vars
        => [Promise!Next]_(Promise!vars)
  <2> SUFFICES ASSUME Shape, Shape', RanInv, HeldInv, BoundInv, [Next]_vars
               PROVE  [Promise!Next]_(Promise!vars)
    OBVIOUS
  <2>0. /\ Jobs \subseteq Numbers /\ Jobs' \subseteq Numbers
        /\ ReportedJobs = Done /\ ReportedJobs' = Done'
        /\ lostWrites \in Nat
    <3>1. Jobs \subseteq Numbers
      BY StoreJobs DEF Shape
    <3>2. Jobs' \subseteq Numbers
      <4>1. store' \in Stores /\ Len(store'.edgeJobs) \in {0, Len(Queue)}
        BY DEF Shape, ServerShape
      <4> QED BY <4>1, QueueLength DEF Stores, Jobs, Numbers
    <3>3. ReportedJobs = Done
      BY <3>1 DEF ReportedJobs, Done, Has, Jobs
    <3>4. ReportedJobs' = Done'
      BY <3>2 DEF ReportedJobs, Done, Has, Jobs
    <3>5. lostWrites \in Nat
      BY FleetAssumption DEF Shape, ServerShape
    <3> QED BY <3>1, <3>2, <3>3, <3>4, <3>5
  <2>1. ASSUME InHand' = InHand, ran' = ran, claims' = claims, Jobs' = Jobs,
               ReportedJobs' = ReportedJobs, lostWrites' \in {lostWrites, lostWrites + 1}
        PROVE  [Promise!Next]_(Promise!vars)
    BY <2>1 DEF InHand, Numbers, Promise!Next, Promise!Fault, Promise!MayFault
  <2>2. CASE UNCHANGED vars
    <3>1. ReportedJobs' = ReportedJobs /\ InHand' = InHand /\ Jobs' = Jobs
      BY <2>2 DEF vars, ReportedJobs, Has, Jobs, InHand, Holders
    <3> QED BY <2>1, <2>2, <3>1 DEF vars
  <2>3. ASSUME NEW n \in Jobs, NEW a, Claims(n, a), ran' = ran,
               InHand' \in {InHand, [InHand EXCEPT ![n] = InHand[n] + 1]}
        PROVE  [Promise!Next]_(Promise!vars)
    <3>1. /\ Jobs' = Jobs /\ lostWrites' \in {lostWrites, lostWrites + 1}
          /\ \A s : Has(store', n, s) => s = "claimed"
          /\ \A j, s : j # n => (Has(store', j, s) <=> Has(store, j, s))
      BY <2>3, Moved DEF Claims
    <3>2. Has(store, n, "queued")
      BY <2>3 DEF Claims
    <3>3. Done' = Done
      <4>1. ~Has(store, n, "succeeded") /\ ~Has(store', n, "succeeded")
        BY <3>1, <3>2 DEF Has
      <4> QED BY <3>1, <4>1 DEF Done
    <3>4. claims[n] <= lostWrites /\ claims' = [claims EXCEPT ![n] = claims[n] + 1]
      BY <2>0, <2>3, <3>2 DEF Claims, BoundInv
    <3>5. Promise!HandOut(n)
      BY <2>0, <2>3, <3>1, <3>3, <3>4 DEF InHand, Numbers, Promise!HandOut, Promise!MayFault
    <3> QED BY <2>0, <3>5 DEF Numbers, Promise!Next
  <2>4. CASE HandsSame
    <3>1. CASE store' = store /\ Jobs' = Jobs /\ claims' = claims /\ (Quiet \/ Writes)
      <4>1. lostWrites' \in {lostWrites, lostWrites + 1}
        BY <3>1 DEF Quiet, server, Writes
      <4> QED BY <2>0, <2>1, <2>4, <3>1, <4>1 DEF HandsSame, Done
    <3>2. CASE \E n \in Jobs, a \in Hosts \X Nat : Claims(n, a)
      BY <2>3, <2>4, <3>2 DEF HandsSame
    <3>3. ASSUME NEW j \in Jobs, Completes(j), ran[j] > 0
          PROVE  [Promise!Next]_(Promise!vars)
      <4>1. /\ Jobs' = Jobs /\ lostWrites' \in {lostWrites, lostWrites + 1}
            /\ Has(store', j, "succeeded")
            /\ \A k, s : k # j => (Has(store', k, s) <=> Has(store, k, s))
        BY <3>3, Moved DEF Completes
      <4>2. Done' = Done \cup {j}
        BY <2>0, <4>1 DEF Done
      <4>3. Promise!Report(j)
        BY <2>0, <2>4, <3>3, <4>1, <4>2
           DEF HandsSame, Completes, InHand, Numbers, Promise!Report, Promise!MayFault
      <4> QED BY <2>0, <4>3 DEF Numbers, Promise!Next
    <3>4. CASE ServerRestart
      <4>0. claims' = claims
        BY <3>4, RestartShape
      <4>1. CASE Rereads /\ store # disk
        <5>1. lostWrites > 0 /\ lostWrites' = lostWrites
          BY <2>0, <4>1 DEF HeldInv, Rereads
        <5>2. Jobs' = Jobs
          BY <4>1, StoreJobs DEF Shape, Rereads, Jobs
        <5>3. Done' \subseteq Done
          BY <4>1 DEF Rereads, Done, RanInv, Honest
        <5>4. Promise!Forget
          BY <2>0, <2>4, <4>0, <5>1, <5>2, <5>3 DEF HandsSame, InHand, Numbers, Promise!Forget
        <5> QED BY <5>4 DEF Promise!Next
      <4>2. CASE Forgets /\ Jobs' = {}
        <5>1. Done' = {}
          BY <4>2 DEF Done, Has, Jobs
        <5>2. lostWrites' \in {lostWrites, lostWrites + 1}
          BY <4>2 DEF Forgets
        <5>3. Promise!Wipe
          BY <2>0, <2>4, <4>0, <4>2, <5>1, <5>2
             DEF HandsSame, InHand, Numbers, Promise!Wipe, Promise!MayFault
        <5> QED BY <5>3 DEF Promise!Next
      <4> QED BY <3>4, <4>1, <4>2, RestartShape
    <3> QED BY <2>4, <3>1, <3>2, <3>3, <3>4 DEF HandsSame, ServerMoves
  <2>5. ASSUME NEW j \in Numbers, HandsDown(j)
        PROVE  [Promise!Next]_(Promise!vars)
    <3>1. /\ Done' = Done /\ lostWrites' = lostWrites /\ claims' = claims /\ Jobs' = Jobs
      BY <2>5 DEF HandsDown, Quiet, server, Done
    <3> QED BY <2>0, <2>5, <3>1
            DEF HandsDown, InHand, Numbers, Promise!Next, Promise!Run, Promise!Drop
  <2>6. ASSUME NEW n \in Numbers, HandsUp(n)
        PROVE  [Promise!Next]_(Promise!vars)
    BY <2>3, <2>6 DEF HandsUp
  <2> QED BY <2>2, <2>4, <2>5, <2>6, NextKinds, HandSteps
<1> QED BY <1>1, <1>2, ShapeInvariant, RanInvariant, HeldInvariant, BoundInvariant, PTL
        DEF Spec, KeepsPromise, Promise!Spec
==============================================================================
