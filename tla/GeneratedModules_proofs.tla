------------------------ MODULE GeneratedModules_proofs ------------------------
(***************************************************************************)
(* Proofs about the files of generated modules, for any builds, titles,    *)
(* failures and crashes: types, what the policy check sees, what a module  *)
(* that is offered holds, and what builds that collide cannot spoil.       *)
(***************************************************************************)
EXTENDS GeneratedModules, TLAPS

------------------------------------------------------------------------------
(* Types, and what single calls do *)

LEMMA ModulesOf == \A b \in Builds : ModuleOf(b) \in Modules
BY DEF Modules

LEMMA TextsOf == \A b \in Builds, f \in Files : Text(b, f) \in Texts
BY DEF Texts

LEMMA OverlaidTexts ==
  ASSUME NEW old \in Texts, NEW text \in Texts
  PROVE  Overlaid(old, text) \subseteq Texts
BY DEF Overlaid, Texts

LEMMA WriteEdit ==
  ASSUME TypeOK, NEW b \in Builds, NEW f \in Files, NEW to \in WriteStates, SetWrite(b, f, to)
  PROVE  /\ writes' \in [Builds -> [Files -> WriteStates]]
         /\ writes'[b][f] = to
         /\ \A n \in Builds, g \in Files :
              n # b \/ g # f => writes'[n][g] = writes[n][g]
BY DEF TypeOK, SetWrite

LEMMA TextEdit ==
  ASSUME TypeOK, NEW b \in Builds, NEW f \in Files, NEW text \in Texts, SetText(b, f, text)
  PROVE  /\ tree' \in [Modules -> [Files -> Texts]]
         /\ tree'[ModuleOf(b)][f] = text
         /\ \A m \in Modules, g \in Files :
              m # ModuleOf(b) \/ g # f => tree'[m][g] = tree[m][g]
BY ModulesOf DEF TypeOK, SetText

\* A step of the file operation f of b: what it leaves alone, and the text it leaves.
Writes(b, f, to, text) ==
  /\ writes'[b][f] = to /\ tree'[ModuleOf(b)][f] = text
  /\ \A n \in Builds, g \in Files : n # b \/ g # f => writes'[n][g] = writes[n][g]
  /\ \A m \in Modules, g \in Files :
       m # ModuleOf(b) \/ g # f => tree'[m][g] = tree[m][g]
  /\ phase' = phase /\ seen' = seen /\ order' = order /\ met' = met /\ left' = left /\ crashes' = crashes
  /\ writes' \in [Builds -> [Files -> WriteStates]]
  /\ tree' \in [Modules -> [Files -> Texts]]

Opens(b, f) ==
  /\ writes[b][f] = "pending" /\ errors' = errors
  /\ Writes(b, f, "open", Empty)

Ends(b, f) ==
  /\ writes[b][f] = "open" /\ errors' = errors
  /\ \E text \in Overlaid(tree[ModuleOf(b)][f], Text(b, f)) : Writes(b, f, "done", text)

Fails(b, f) ==
  /\ writes[b][f] \in {"pending", "open"} /\ errors < MaxErrors /\ errors' = errors + 1
  /\ \E text \in {tree[ModuleOf(b)][f], Garbled} : Writes(b, f, "failed", text)

LEMMA FileSteps ==
  ASSUME TypeOK, NEW b \in Builds, NEW f \in Files, FileOperation(b, f)
  PROVE  Opens(b, f) \/ Ends(b, f) \/ Fails(b, f)
<1>0. /\ {"open", "done", "failed"} \subseteq WriteStates
      /\ Empty \in Texts /\ Garbled \in Texts /\ tree[ModuleOf(b)][f] \in Texts
  BY ModulesOf DEF WriteStates, Texts, TypeOK
<1>1. CASE OpenFile(b, f)
  BY <1>0, <1>1, WriteEdit, TextEdit DEF OpenFile, Opens, Writes
<1>2. CASE WriteFile(b, f)
  <2>1. PICK text \in Overlaid(tree[ModuleOf(b)][f], Text(b, f)) : SetText(b, f, text)
    BY <1>2 DEF WriteFile
  <2>2. text \in Texts
    BY <1>0, <2>1, TextsOf, OverlaidTexts
  <2>3. Writes(b, f, "done", text)
    BY <1>0, <1>2, <2>1, <2>2, WriteEdit, TextEdit DEF WriteFile, Writes
  <2> QED BY <1>2, <2>1, <2>3 DEF WriteFile, Ends
<1>3. CASE WriteFails(b, f)
  <2>0. SetWrite(b, f, "failed") /\ phase' = phase /\ seen' = seen /\ order' = order
        /\ met' = met /\ left' = left /\ crashes' = crashes
    BY <1>3 DEF WriteFails
  <2>1. CASE tree' = tree
    <3>1. Writes(b, f, "failed", tree[ModuleOf(b)][f])
      BY <1>0, <2>0, <2>1, WriteEdit DEF Writes, TypeOK
    <3> QED BY <1>3, <3>1 DEF WriteFails, Fails
  <2>2. CASE SetText(b, f, Garbled)
    <3>1. Writes(b, f, "failed", Garbled)
      BY <1>0, <2>0, <2>2, WriteEdit, TextEdit DEF Writes
    <3> QED BY <1>3, <3>1 DEF WriteFails, Fails
  <2> QED BY <1>3, <2>1, <2>2 DEF WriteFails
<1> QED BY <1>1, <1>2, <1>3 DEF FileOperation

\* The handler goes on and touches no file.
Moves(b, from, to) ==
  /\ phase[b] = from /\ phase' = [phase EXCEPT ![b] = to]
  /\ writes' = writes /\ tree' = tree /\ seen' = seen /\ order' = order /\ met' = met /\ left' = left
  /\ crashes' = crashes

HandlerMoves(b) ==
  \/ Written(b) /\ Moves(b, "generating", "documenting") /\ errors' = errors
  \/ Moves(b, "documenting", "reading") /\ errors' = errors
  \/ /\ Moves(b, "reading", "offered") /\ errors' = errors
     /\ \A f \in CandidateFiles : seen[b][f] # Absent
  \/ /\ \E from \in {"preparing", "documenting", "reading"} : Moves(b, from, "failed")
     /\ errors < MaxErrors /\ errors' = errors + 1
  \/ /\ Moves(b, "generating", "failed") /\ errors' = errors
     /\ \E f \in Files : writes[b][f] = "failed"

\* Every step is one of these.
Kinds ==
  \/ \E b \in Builds :
       \/ RequestBuild(b)
       \/ WriteModuleSkeleton(b)
       \/ HandlerMoves(b)
       \/ \E f \in CandidateFiles : ReadFile(b, f)
       \/ \E f \in Files : Opens(b, f) \/ Ends(b, f) \/ Fails(b, f)
  \/ Crash

LEMMA NextKinds == TypeOK /\ Next => Kinds
<1> SUFFICES ASSUME TypeOK, Next PROVE Kinds
  OBVIOUS
<1>1. ASSUME NEW b \in Builds,
             WriteBuildArtifacts(b) \/ IndexArtifacts(b) \/ Offer(b) \/ FailBuild(b)
               \/ SkeletonRejected(b)
      PROVE  HandlerMoves(b)
  BY <1>1 DEF WriteBuildArtifacts, IndexArtifacts, Offer, FailBuild, SkeletonRejected,
              HandlerMoves, Moves, Goes
<1> QED BY <1>1, FileSteps DEF Next, Handler, Kinds

LEMMA TypeStep == TypeOK /\ Kinds => TypeOK'
<1> SUFFICES ASSUME TypeOK, Kinds PROVE TypeOK'
  OBVIOUS
<1> USE DEF TypeOK
<1>1. ASSUME NEW b \in Builds, RequestBuild(b)
      PROVE  TypeOK'
  <2>1. /\ {n \in Neighbours(b) : phase[n] \in UnderWay /\ Writing(n)} \in SUBSET Builds
        /\ {f \in Files : \E n \in Neighbours(b) : phase[n] \notin UnderWay /\ WritingTo(n, f)}
             \in SUBSET Files
    BY DEF Neighbours
  <2> QED BY <1>1, <2>1 DEF RequestBuild, Goes, Phases, UnderWay
<1>2. ASSUME NEW b \in Builds, WriteModuleSkeleton(b)
      PROVE  TypeOK'
  <2>1. QueuedWrites(b) \in [Files -> WriteStates]
    BY DEF QueuedWrites, WriteStates
  <2>2. met' \in [Builds -> SUBSET Builds]
    BY <1>2 DEF WriteModuleSkeleton
  <2> QED BY <1>2, <2>1, <2>2 DEF WriteModuleSkeleton, Goes, Phases, UnderWay
<1>3. ASSUME NEW b \in Builds, HandlerMoves(b)
      PROVE  TypeOK'
  <2>1. /\ phase' \in [Builds -> Phases] /\ writes' = writes /\ tree' = tree
        /\ seen' = seen /\ order' = order /\ met' = met /\ left' = left /\ crashes' = crashes
    BY <1>3 DEF HandlerMoves, Moves, Phases, UnderWay
  <2>2. errors' \in 0 .. MaxErrors
    BY <1>3, GeneratedAssumption DEF HandlerMoves
  <2> QED BY <2>1, <2>2
<1>4. ASSUME NEW b \in Builds, NEW f \in CandidateFiles, ReadFile(b, f)
      PROVE  TypeOK'
  <2>1. tree[ModuleOf(b)][f] \in Texts
    BY ModulesOf DEF CandidateFiles, Files
  <2> QED BY <1>4, <2>1 DEF ReadFile
<1>5. ASSUME NEW b \in Builds, NEW f \in Files, Opens(b, f) \/ Ends(b, f) \/ Fails(b, f)
      PROVE  TypeOK'
  <2>1. errors' \in 0 .. MaxErrors
    BY <1>5, GeneratedAssumption DEF Opens, Ends, Fails
  <2> QED BY <1>5, <2>1 DEF Opens, Ends, Fails, Writes
<1>6. CASE Crash
  BY <1>6, GeneratedAssumption DEF Crash, Phases, WriteStates
<1> QED BY <1>1, <1>2, <1>3, <1>4, <1>5, <1>6 DEF Kinds

\* For any builds, titles, failures and crashes every variable keeps its type.
THEOREM FilesTypeCorrect == Spec => []TypeOK
<1>1. Init => TypeOK
  BY ModulesOf, GeneratedAssumption
     DEF Init, TypeOK, Phases, WriteStates, Texts, Absent, Modules
<1>2. TypeOK /\ [Next]_vars => TypeOK'
  <2>1. TypeOK /\ UNCHANGED vars => TypeOK'
    BY DEF TypeOK, vars
  <2> QED BY <2>1, NextKinds, TypeStep
<1> QED BY <1>1, <1>2, PTL DEF Spec

------------------------------------------------------------------------------
(* A handler nobody disturbs *)

\* The handler of b has begun to write, and has not failed.
Begun == {"generating", "documenting", "reading", "offered"}

\* No other build wrote into b's module while b's handler was under way, nor since.
Undisturbed(b) == Alone(b) /\ (phase[b] = "offered" => LastToWrite(b))

\* What is known of b's writes and of its place in the order from its phase.
Progress(b) ==
  /\ phase[b] \in {"idle", "preparing"} =>
       \A f \in Files : writes[b][f] = "none"
  /\ phase[b] \in Begun => \A f \in Files : writes[b][f] # "none"
  /\ phase[b] \in {"documenting", "reading", "offered"} => Written(b)
  /\ phase[b] \in Begun => \E i \in DOMAIN order : order[i] = b

\* While b is undisturbed, its module takes no writes but its own, and those that were
\* left under way when it was requested.
Calm(b) ==
  phase[b] \in Begun \cup {"preparing"} /\ Undisturbed(b)
    => \A n \in Neighbours(b), f \in Files \ left[b] : ~WritingTo(n, f)

\* What its writes have done to the files, then.
Whole(b) ==
  phase[b] \in Begun /\ Undisturbed(b) =>
    \A f \in Files \ left[b] :
      /\ writes[b][f] = "open" => tree[ModuleOf(b)][f] = Empty
      /\ writes[b][f] = "done" => tree[ModuleOf(b)][f] = Text(b, f)

\* What it has read back, then.
SawOwn(b) ==
  /\ phase[b] \notin {"reading", "offered"} /\ phase[b] \in Begun \cup {"idle", "preparing"} =>
       \A f \in CandidateFiles : seen[b][f] = Absent
  /\ phase[b] \in {"reading", "offered"} /\ Alone(b) =>
       \A f \in CandidateFiles \ left[b] : seen[b][f] \in {Absent, Text(b, f)}
  /\ phase[b] = "offered" => \A f \in CandidateFiles : seen[b][f] # Absent

AloneInv == \A b \in Builds : Progress(b) /\ Calm(b) /\ Whole(b) /\ SawOwn(b)

LEMMA Neighbourhood ==
  /\ \A b \in Builds : Neighbours(b) \subseteq Builds /\ b \notin Neighbours(b)
  /\ \A b, n \in Builds : n \in Neighbours(b) <=> b \in Neighbours(n)
  /\ \A b, n \in Builds : n # b /\ n \notin Neighbours(b) => ModuleOf(n) # ModuleOf(b)
  /\ \A b, n \in Builds : n \in Neighbours(b) => ModuleOf(n) = ModuleOf(b)
BY DEF Neighbours

\* Where the order grows by n's turn, whoever wrote last before and is a neighbour of n
\* is so no more.
LEMMA OrderGrows ==
  ASSUME TypeOK, NEW n \in Builds, order' = Append(order, n), NEW b \in Builds
  PROVE  /\ (\E i \in DOMAIN order : order[i] = b) => \E i \in DOMAIN order' : order'[i] = b
         /\ \E i \in DOMAIN order' : order'[i] = n
         /\ LastToWrite(b)' => LastToWrite(b)
         /\ (\E i \in DOMAIN order : order[i] = b) /\ LastToWrite(b)' => n \notin Neighbours(b)
<1>1. /\ order \in Seq(Builds) /\ Len(order) \in Nat
      /\ DOMAIN order = 1 .. Len(order) /\ DOMAIN order' = 1 .. Len(order) + 1
      /\ \A i \in 1 .. Len(order) : order'[i] = order[i]
      /\ order'[Len(order) + 1] = n
  BY DEF TypeOK
<1> HIDE DEF TypeOK
<1>2. (\E i \in DOMAIN order : order[i] = b) => \E i \in DOMAIN order' : order'[i] = b
  BY <1>1
<1>3. \E i \in DOMAIN order' : order'[i] = n
  BY <1>1
<1>4. LastToWrite(b)' => LastToWrite(b)
  BY <1>1 DEF LastToWrite, Neighbours
<1>5. ASSUME NEW i \in DOMAIN order, order[i] = b, LastToWrite(b)'
      PROVE  n \notin Neighbours(b)
  <2>1. i < Len(order) + 1 /\ order'[i] = b /\ i \in DOMAIN order'
        /\ Len(order) + 1 \in DOMAIN order'
    BY <1>1, <1>5
  <2> QED BY <1>1, <1>5, <2>1 DEF LastToWrite, Neighbours
<1> QED BY <1>2, <1>3, <1>4, <1>5

\* What concerns b alone stays as it is.
LEMMA Untouched ==
  ASSUME NEW b \in Builds, Progress(b), Calm(b), Whole(b), SawOwn(b),
         phase'[b] = phase[b], met'[b] = met[b], left'[b] = left[b], order' = order, seen'[b] = seen[b],
         \A f \in Files : writes'[b][f] = writes[b][f],
         \A f \in Files \ left[b] : phase[b] \in Begun /\ Undisturbed(b)
                        => tree'[ModuleOf(b)][f] = tree[ModuleOf(b)][f],
         \A n \in Neighbours(b), f \in Files : WritingTo(n, f)' => WritingTo(n, f)
  PROVE  (Progress(b) /\ Calm(b) /\ Whole(b) /\ SawOwn(b))'
<1>1. Alone(b)' = Alone(b) /\ LastToWrite(b)' = LastToWrite(b)
      /\ Undisturbed(b)' = Undisturbed(b) /\ Written(b)' = Written(b)
  BY DEF Alone, LastToWrite, Undisturbed, Neighbours, Written
<1>2. Progress(b)'
  BY <1>1 DEF Progress
<1>3. Calm(b)'
  BY <1>1 DEF Calm
<1>4. Whole(b)'
  BY <1>1 DEF Whole, Undisturbed
<1>5. SawOwn(b)'
  BY <1>1 DEF SawOwn
<1> QED BY <1>2, <1>3, <1>4, <1>5

LEMMA AloneStep == TypeOK /\ AloneInv /\ Kinds => AloneInv'
<1> SUFFICES ASSUME TypeOK, AloneInv, Kinds, NEW k \in Builds
             PROVE  (Progress(k) /\ Calm(k) /\ Whole(k) /\ SawOwn(k))'
  BY DEF AloneInv
<1>0. /\ Progress(k) /\ Calm(k) /\ Whole(k) /\ SawOwn(k)
      /\ phase \in [Builds -> Phases] /\ met \in [Builds -> SUBSET Builds]
      /\ left \in [Builds -> SUBSET Files]
      /\ seen \in [Builds -> [CandidateFiles -> Texts]]
      /\ writes \in [Builds -> [Files -> WriteStates]]
  BY DEF AloneInv, TypeOK
<1>1. ASSUME NEW b \in Builds, RequestBuild(b)
      PROVE  (Progress(k) /\ Calm(k) /\ Whole(k) /\ SawOwn(k))'
  <2>0. /\ phase[b] = "idle" /\ phase' = [phase EXCEPT ![b] = "preparing"]
        /\ met' = [met EXCEPT ![b] =
                     {n \in Neighbours(b) : phase[n] \in UnderWay /\ Writing(n)}]
        /\ left' = [left EXCEPT ![b] =
             {f \in Files : \E n \in Neighbours(b) : phase[n] \notin UnderWay /\ WritingTo(n, f)}]
        /\ writes' = writes /\ tree' = tree /\ seen' = seen /\ order' = order
        /\ \A n \in Builds, g \in Files : WritingTo(n, g)' = WritingTo(n, g)
    BY <1>1 DEF RequestBuild, Goes, WritingTo
  <2>1. CASE k # b
    BY <1>0, <2>0, <2>1, Untouched, Neighbourhood
  <2>2. CASE k = b
    <3>1. /\ phase'[k] = "preparing"
          /\ met'[k] = {n \in Neighbours(k) : phase[n] \in UnderWay /\ Writing(n)}
          /\ left'[k] = {f \in Files : \E n \in Neighbours(k) :
                                         phase[n] \notin UnderWay /\ WritingTo(n, f)}
      BY <1>0, <2>0, <2>2
    <3>2. Progress(k)' /\ Whole(k)' /\ SawOwn(k)'
      BY <1>0, <2>0, <2>2, <3>1 DEF Progress, Whole, SawOwn, Begun
    <3>3. Calm(k)'
      <4> SUFFICES ASSUME met'[k] = {}, NEW n \in Neighbours(k), NEW f \in Files \ left'[k]
                   PROVE  ~WritingTo(n, f)'
        BY <3>1 DEF Calm, Undisturbed, Alone, Neighbours
      <4>1. n \in Builds /\ ~(phase[n] \in UnderWay /\ Writing(n))
        BY <3>1, Neighbourhood
      <4>2. ~(phase[n] \notin UnderWay /\ WritingTo(n, f))
        BY <3>1
      <4>3. ~WritingTo(n, f)
        BY <4>1, <4>2 DEF Writing
      <4> QED BY <2>0, <4>1, <4>3
    <3> QED BY <3>2, <3>3
  <2> QED BY <2>1, <2>2
<1>2. ASSUME NEW b \in Builds, WriteModuleSkeleton(b)
      PROVE  (Progress(k) /\ Calm(k) /\ Whole(k) /\ SawOwn(k))'
  <2>0. /\ phase[b] = "preparing" /\ phase' = [phase EXCEPT ![b] = "generating"]
        /\ writes' = [writes EXCEPT ![b] = QueuedWrites(b)]
        /\ order' = Append(order, b)
        /\ tree' = tree /\ seen' = seen /\ left' = left
        /\ \A n \in Builds : met'[n] = IF n \in Neighbours(b) /\ phase[n] \in UnderWay
                                         THEN met[n] \cup {b} ELSE met[n]
    BY <1>2 DEF WriteModuleSkeleton, Goes
  <2>1. \A n \in Builds \ {b} :
          writes'[n] = writes[n] /\ \A g \in Files : WritingTo(n, g)' = WritingTo(n, g)
    BY <1>0, <2>0 DEF WritingTo
  <2>2. CASE k = b
    <3>1. /\ phase'[k] = "generating" /\ met'[k] = met[k]
          /\ \A f \in Files : writes'[k][f] = "pending"
      BY <1>0, <2>0, <2>2, Neighbourhood DEF QueuedWrites
    <3>2. Progress(k)'
      BY <2>0, <2>2, <3>1, OrderGrows DEF Progress, Begun
    <3>3. Calm(k)'
      <4> SUFFICES ASSUME Undisturbed(k)',
                          NEW n \in Neighbours(k), NEW f \in Files \ left[k]
                   PROVE  ~WritingTo(n, f)'
        BY <2>0 DEF Calm, Neighbours
      <4>1. n \in Builds \ {b}
        BY <2>2, Neighbourhood
      <4>2. Undisturbed(k) /\ phase[k] = "preparing"
        BY <2>0, <2>2, <3>1 DEF Undisturbed, Alone
      <4>3. ~WritingTo(n, f)
        BY <1>0, <4>2 DEF Calm
      <4> QED BY <2>1, <4>1, <4>3
    <3>4. Whole(k)'
      BY <3>1 DEF Whole
    <3>5. SawOwn(k)'
      BY <1>0, <2>0, <2>2, <3>1 DEF SawOwn, Begun
    <3> QED BY <3>2, <3>3, <3>4, <3>5
  <2>3. CASE k # b
    <3>1. phase'[k] = phase[k] /\ \A f \in Files : writes'[k][f] = writes[k][f]
      BY <1>0, <2>0, <2>1, <2>3
    <3>2. Progress(k)'
      BY <1>0, <2>0, <3>1, OrderGrows DEF Progress, Written
    <3>3. phase[k] \in Begun \cup {"preparing"} /\ Undisturbed(k)'
            => Undisturbed(k) /\ b \notin Neighbours(k)
      <4> SUFFICES ASSUME phase[k] \in Begun \cup {"preparing"}, Undisturbed(k)'
                   PROVE  Undisturbed(k) /\ b \notin Neighbours(k)
        OBVIOUS
      <4>1. met'[k] = {}
        BY DEF Undisturbed, Alone
      <4>2. met[k] = {} /\ ~(k \in Neighbours(b) /\ phase[k] \in UnderWay)
        BY <2>0, <4>1
      <4>3. CASE phase[k] # "offered"
        BY <4>2, <4>3, Neighbourhood DEF Undisturbed, Alone, Begun, UnderWay
      <4>4. CASE phase[k] = "offered"
        <5>1. LastToWrite(k)' /\ \E i \in DOMAIN order : order[i] = k
          BY <1>0, <3>1, <4>4 DEF Undisturbed, Progress, Begun
        <5> QED BY <2>0, <4>2, <5>1, OrderGrows DEF Undisturbed, Alone
      <4> QED BY <4>3, <4>4
    <3>4. Calm(k)'
      <4> SUFFICES ASSUME phase[k] \in Begun \cup {"preparing"}, Undisturbed(k)',
                          NEW n \in Neighbours(k), NEW f \in Files \ left[k]
                   PROVE  ~WritingTo(n, f)'
        BY <2>0, <3>1 DEF Calm, Neighbours
      <4>1. n \in Builds \ {b}
        BY <3>3, Neighbourhood
      <4>2. ~WritingTo(n, f)
        BY <1>0, <3>3 DEF Calm
      <4> QED BY <2>1, <4>1, <4>2
    <3>5. Whole(k)'
      BY <1>0, <2>0, <3>1, <3>3 DEF Whole
    <3>6. met'[k] = {} => met[k] = {}
      BY <2>0
    <3>7. SawOwn(k)'
      BY <1>0, <2>0, <3>1, <3>6 DEF SawOwn, Alone
    <3> QED BY <3>2, <3>4, <3>5, <3>7
  <2> QED BY <2>2, <2>3
<1>3. ASSUME NEW b \in Builds, HandlerMoves(b)
      PROVE  (Progress(k) /\ Calm(k) /\ Whole(k) /\ SawOwn(k))'
  <2>0. /\ phase' = [phase EXCEPT ![b] = phase'[b]]
        /\ writes' = writes /\ tree' = tree /\ seen' = seen /\ order' = order /\ met' = met /\ left' = left
        /\ \A n \in Builds, g \in Files : WritingTo(n, g)' = WritingTo(n, g)
    BY <1>0, <1>3 DEF HandlerMoves, Moves, WritingTo
  <2>1. CASE k # b
    BY <1>0, <2>0, <2>1, Untouched, Neighbourhood
  <2>2. CASE k = b
    <3>1. \/ phase[k] = "generating" /\ phase'[k] = "documenting" /\ Written(k)
          \/ phase[k] = "documenting" /\ phase'[k] = "reading"
          \/ /\ phase[k] = "reading" /\ phase'[k] = "offered"
             /\ \A f \in CandidateFiles : seen[k][f] # Absent
          \/ phase'[k] = "failed"
      BY <1>0, <1>3, <2>2 DEF HandlerMoves, Moves
    <3>2. /\ Alone(k)' = Alone(k) /\ Written(k)' = Written(k)
          /\ phase[k] \in Begun /\ phase'[k] \in Begun
               => (Undisturbed(k)' => Undisturbed(k))
      BY <2>0, <3>1 DEF Alone, Written, Undisturbed, Begun
    <3>3. Progress(k)'
      BY <1>0, <2>0, <3>1, <3>2 DEF Progress, Begun
    <3>4. Calm(k)'
      <4>1. CASE phase'[k] = "failed"
        BY <4>1 DEF Calm, Begun
      <4>2. CASE phase'[k] # "failed"
        <5>1. phase[k] \in Begun /\ (Undisturbed(k)' => Undisturbed(k))
          BY <3>1, <3>2, <4>2 DEF Begun
        <5>2. \A n \in Neighbours(k), g \in Files : WritingTo(n, g)' = WritingTo(n, g)
          BY <2>0, Neighbourhood
        <5> QED BY <1>0, <2>0, <5>1, <5>2 DEF Calm, Neighbours
      <4> QED BY <4>1, <4>2
    <3>5. Whole(k)'
      BY <1>0, <2>0, <3>1, <3>2 DEF Whole, Begun
    <3>6. SawOwn(k)'
      BY <1>0, <2>0, <3>1, <3>2 DEF SawOwn, Begun
    <3> QED BY <3>3, <3>4, <3>5, <3>6
  <2> QED BY <2>1, <2>2
<1>4. ASSUME NEW b \in Builds, NEW f \in CandidateFiles, ReadFile(b, f)
      PROVE  (Progress(k) /\ Calm(k) /\ Whole(k) /\ SawOwn(k))'
  <2>0. /\ phase[b] = "reading" /\ seen[b][f] = Absent
        /\ tree[ModuleOf(b)][f] # Absent
        /\ seen' = [seen EXCEPT ![b][f] = tree[ModuleOf(b)][f]]
        /\ phase' = phase /\ writes' = writes /\ tree' = tree /\ order' = order
        /\ met' = met /\ left' = left /\ \A n \in Builds, g \in Files : WritingTo(n, g)' = WritingTo(n, g)
    BY <1>4 DEF ReadFile, WritingTo
  <2>1. CASE k # b
    BY <1>0, <2>0, <2>1, Untouched, Neighbourhood
  <2>2. CASE k = b
    <3>1. Alone(k)' = Alone(k) /\ Undisturbed(k)' = Undisturbed(k) /\ Written(k)' = Written(k)
      BY <2>0 DEF Alone, Undisturbed, Written, LastToWrite, Neighbours
    <3>2. Progress(k)' /\ Calm(k)' /\ Whole(k)'
      BY <1>0, <2>0, <3>1, Neighbourhood DEF Progress, Calm, Whole, Neighbours
    <3>3. Alone(k) /\ f \notin left[k] => tree[ModuleOf(k)][f] = Text(k, f)
      BY <1>0, <2>0, <2>2 DEF Whole, Progress, Written, Undisturbed, Begun, CandidateFiles, Files
    <3>4. SawOwn(k)'
      BY <1>0, <2>0, <2>2, <3>1, <3>3 DEF SawOwn
    <3> QED BY <3>2, <3>4
  <2> QED BY <2>1, <2>2
<1>5. ASSUME NEW b \in Builds, NEW f \in Files, Opens(b, f) \/ Ends(b, f) \/ Fails(b, f)
      PROVE  (Progress(k) /\ Calm(k) /\ Whole(k) /\ SawOwn(k))'
  <2>0. PICK to \in {"open", "done", "failed"}, text \in Texts :
          /\ Writes(b, f, to, text)
          /\ to = "open" => writes[b][f] = "pending" /\ text = Empty
          /\ to = "done" => writes[b][f] = "open"
               /\ text \in Overlaid(tree[ModuleOf(b)][f], Text(b, f))
    <3>1. tree[ModuleOf(b)][f] \in Texts /\ Empty \in Texts /\ Garbled \in Texts
          /\ Overlaid(tree[ModuleOf(b)][f], Text(b, f)) \subseteq Texts
      BY ModulesOf, TextsOf, OverlaidTexts DEF TypeOK, Texts
    <3> QED BY <1>5, <3>1 DEF Opens, Ends, Fails
  <2>1. writes[b][f] \in {"pending", "open"} /\ WritingTo(b, f)
    BY <1>5 DEF Opens, Ends, Fails, WritingTo
  <2>2. \A n \in Builds, g \in Files : WritingTo(n, g)' => WritingTo(n, g)
    BY <2>0, <2>1 DEF Writes, WritingTo
  <2>3. /\ phase' = phase /\ seen' = seen /\ order' = order /\ met' = met /\ left' = left
        /\ \A n \in Builds, g \in Files : n # b \/ g # f => writes'[n][g] = writes[n][g]
        /\ \A m \in Modules, g \in Files :
             m # ModuleOf(b) \/ g # f => tree'[m][g] = tree[m][g]
        /\ writes'[b][f] = to /\ tree'[ModuleOf(b)][f] = text
    BY <2>0 DEF Writes
  <2>4. CASE k # b
    <3>1. \A g \in Files \ left[k] : phase[k] \in Begun /\ Undisturbed(k)
                             => tree'[ModuleOf(k)][g] = tree[ModuleOf(k)][g]
      BY <1>0, <2>1, <2>3, <2>4, Neighbourhood, ModulesOf DEF Calm
    <3>2. \A n \in Neighbours(k), g \in Files : WritingTo(n, g)' => WritingTo(n, g)
      BY <2>1, <2>2, Neighbourhood
    <3> QED BY <1>0, <2>3, <2>4, <3>1, <3>2, Untouched
  <2>5. CASE k = b
    <3>1. Alone(k)' = Alone(k) /\ Undisturbed(k)' = Undisturbed(k)
      BY <2>3 DEF Alone, Undisturbed, LastToWrite, Neighbours
    <3>2. phase[k] \notin {"idle", "preparing", "documenting", "reading", "offered"}
      BY <1>0, <2>1, <2>5 DEF Progress, Written
    <3>3. Progress(k)'
      BY <1>0, <2>0, <2>3, <2>5, <3>2 DEF Progress, Begun
    <3>4. Calm(k)'
      BY <1>0, <2>2, <2>3, <2>5, <3>1, Neighbourhood DEF Calm, Neighbours
    <3>5. Whole(k)'
      <4> SUFFICES ASSUME phase[k] \in Begun, Undisturbed(k), NEW g \in Files \ left[k]
                   PROVE  /\ writes'[k][g] = "open" => tree'[ModuleOf(k)][g] = Empty
                          /\ writes'[k][g] = "done" => tree'[ModuleOf(k)][g] = Text(k, g)
        BY <2>3, <3>1 DEF Whole
      <4>1. CASE g # f
        BY <1>0, <2>3, <2>5, <4>1, ModulesOf DEF Whole
      <4>2. CASE g = f
        <5>1. to = "done" => text = Text(k, f)
          BY <1>0, <2>0, <2>5, <4>2 DEF Whole, Overlaid
        <5> QED BY <2>0, <2>3, <2>5, <4>2, <5>1
      <4> QED BY <4>1, <4>2
    <3>6. SawOwn(k)'
      BY <1>0, <2>3, <3>1 DEF SawOwn
    <3> QED BY <3>3, <3>4, <3>5, <3>6
  <2> QED BY <2>4, <2>5
<1>6. CASE Crash
  <2>0. /\ phase'[k] = IF phase[k] \in UnderWay THEN "lost" ELSE phase[k]
        /\ \A n \in Builds, g \in Files :
             writes'[n][g] = IF writes[n][g] \in {"pending", "open"}
                               THEN "failed" ELSE writes[n][g]
        /\ tree' = tree /\ seen' = seen /\ order' = order /\ met' = met /\ left' = left
    BY <1>0, <1>6 DEF Crash
  <2>1. \A n \in Builds, g \in Files : ~WritingTo(n, g)'
    BY <2>0 DEF WritingTo
  <2>2. Alone(k)' = Alone(k) /\ LastToWrite(k)' = LastToWrite(k)
    BY <2>0 DEF Alone, LastToWrite, Neighbours
  <2>3. \/ phase'[k] = "lost"
        \/ phase'[k] = phase[k] /\ phase[k] \notin UnderWay
    BY <2>0
  <2>4. Progress(k)'
    BY <1>0, <2>0, <2>3 DEF Progress, Begun, UnderWay, Written
  <2>5. Calm(k)'
    BY <2>1, Neighbourhood DEF Calm, Neighbours
  <2>6. Whole(k)'
    BY <1>0, <2>0, <2>2, <2>3 DEF Whole, Undisturbed, Begun
  <2>7. SawOwn(k)'
    BY <1>0, <2>0, <2>2, <2>3 DEF SawOwn, Begun
  <2> QED BY <2>4, <2>5, <2>6, <2>7
<1> QED BY <1>1, <1>2, <1>3, <1>4, <1>5, <1>6 DEF Kinds

LEMMA AloneInvariant == Spec => []AloneInv
<1>1. Init => AloneInv
  BY DEF Init, AloneInv, Progress, Calm, Whole, SawOwn, Begun
<1>2. TypeOK /\ AloneInv /\ [Next]_vars => AloneInv'
  <2>1. AloneInv /\ UNCHANGED vars => AloneInv'
    BY DEF vars, AloneInv, Progress, Calm, Whole, SawOwn, Begun, Undisturbed, Alone,
           LastToWrite, WritingTo, Written, Neighbours
  <2> QED BY <2>1, NextKinds, AloneStep
<1> QED BY <1>1, <1>2, FilesTypeCorrect, PTL DEF Spec

\* For any builds and titles, failed operations and crashes: a build no other handler of
\* its module's name met was checked by its own files, but for those to which a handler
\* that had failed before still wrote.
THEOREM ChecksOwnFiles == Spec => []PolicySawOwnFiles
<1>1. AloneInv => PolicySawOwnFiles
  BY DEF AloneInv, SawOwn, PolicySawOwnFiles
<1> QED BY <1>1, AloneInvariant, PTL

\* For any builds and titles, failed operations and crashes: what such a build offers
\* stays what it wrote, but for the same files, until another build of the name begins
\* to write.
THEOREM OffersStayWhole == Spec => []OfferedModuleIsWhole
<1>1. AloneInv => OfferedModuleIsWhole
  BY DEF AloneInv, Progress, Whole, Written, Undisturbed, Begun, OfferedModuleIsWhole
<1> QED BY <1>1, AloneInvariant, PTL

------------------------------------------------------------------------------
(* Builds that collide *)

\* Without failures and crashes: how far the stub of b is, against what the shared
\* file holds.
Faultless(b) ==
  /\ phase[b] \in {"idle", "preparing"} \cup Begun
  /\ \A f \in Files : writes[b][f] # "failed"
  /\ tree[ModuleOf(b)]["stub"] \in {Absent, Empty, Text(b, "stub")}
  /\ tree[ModuleOf(b)]["stub"] = Absent =>
       writes[b]["stub"] \in {"none", "pending"}
  /\ tree[ModuleOf(b)]["stub"] = Empty =>
       \E n \in Neighbours(b) \cup {b} : writes[n]["stub"] = "open"

LEMMA StubsDiffer ==
  Absent # Empty /\ Absent # <<"of module">> /\ Empty # <<"of module">>
BY DEF Absent, Empty

CollisionInv == errors = 0 /\ crashes = 0 => \A b \in Builds : Faultless(b)

LEMMA CollisionStep == TypeOK /\ AloneInv /\ CollisionInv /\ Kinds => CollisionInv'
<1> SUFFICES ASSUME TypeOK, AloneInv, CollisionInv, Kinds, errors' = 0, crashes' = 0,
                    NEW k \in Builds
             PROVE  Faultless(k)'
  BY DEF CollisionInv
<1>0. /\ phase \in [Builds -> Phases] /\ writes \in [Builds -> [Files -> WriteStates]]
      /\ "stub" \in Files /\ ModuleOf(k) \in Modules
      /\ \A n \in Builds : Text(n, "stub") = <<"of module">>
  BY ModulesOf DEF TypeOK, Files, Text
<1>9. crashes + 1 # crashes' /\ errors + 1 # errors'
  <2>1. crashes \in Nat /\ errors \in Nat
    BY GeneratedAssumption DEF TypeOK
  <2> HIDE DEF TypeOK
  <2> QED BY <2>1
<1>1. errors = 0 /\ crashes = 0 => \A n \in Builds : Faultless(n)
  BY DEF CollisionInv
<1>2. ASSUME NEW b \in Builds, RequestBuild(b)
      PROVE  Faultless(k)'
  <2>1. /\ writes' = writes /\ tree' = tree /\ errors = 0 /\ crashes = 0
        /\ phase'[k] \in {phase[k], "preparing"}
    BY <1>0, <1>2 DEF RequestBuild, Goes
  <2> QED BY <1>1, <2>1 DEF Faultless, Neighbours
<1>3. ASSUME NEW b \in Builds, WriteModuleSkeleton(b)
      PROVE  Faultless(k)'
  <2>1. /\ tree' = tree /\ errors = 0 /\ crashes = 0
        /\ phase'[k] \in {phase[k], "generating"}
        /\ writes' = [writes EXCEPT ![b] = QueuedWrites(b)]
    BY <1>0, <1>3 DEF WriteModuleSkeleton, Goes
  <2>2. \A f \in Files : writes[b][f] = "none"
    BY <1>3 DEF AloneInv, Progress, WriteModuleSkeleton
  <2>3. /\ \A f \in Files : writes'[b][f] = "pending"
        /\ \A n \in Builds \ {b} : writes'[n] = writes[n]
    BY <1>0, <2>1 DEF QueuedWrites
  <2>4. ASSUME NEW n \in Builds, writes[n]["stub"] = "open"
        PROVE  writes'[n]["stub"] = "open"
    BY <1>0, <2>2, <2>3, <2>4
  <2>5. writes[k]["stub"] \in {"none", "pending"} => writes'[k]["stub"] \in {"none", "pending"}
    BY <1>0, <2>3
  <2>6. \A f \in Files : writes'[k][f] # "failed"
    BY <1>1, <2>1, <2>3 DEF Faultless
  <2> QED BY <1>1, <2>1, <2>4, <2>5, <2>6, Neighbourhood DEF Faultless, Neighbours, Begun
<1>4. ASSUME NEW b \in Builds, HandlerMoves(b)
      PROVE  Faultless(k)'
  <2>1. crashes' = crashes /\ writes' = writes /\ tree' = tree
    BY <1>4 DEF HandlerMoves, Moves
  <2>2. errors' = errors
    BY <1>4, <1>9 DEF HandlerMoves
  <2>3. \A f \in Files : writes[b][f] # "failed"
    BY <1>1, <2>1, <2>2 DEF Faultless
  <2>4. phase'[k] = phase[k] \/ phase'[k] \in Begun
    BY <1>0, <1>4, <1>9, <2>3 DEF HandlerMoves, Moves, Begun
  <2> QED BY <1>1, <2>1, <2>2, <2>4 DEF Faultless, Neighbours
<1>5. ASSUME NEW b \in Builds, NEW f \in CandidateFiles, ReadFile(b, f)
      PROVE  Faultless(k)'
  <2>1. /\ writes' = writes /\ tree' = tree /\ errors = 0 /\ crashes = 0 /\ phase' = phase
    BY <1>5 DEF ReadFile
  <2> QED BY <1>1, <2>1 DEF Faultless, Neighbours
<1>6. ASSUME NEW b \in Builds, NEW f \in Files, Opens(b, f) \/ Ends(b, f) \/ Fails(b, f)
      PROVE  Faultless(k)'
  <2>1. errors = 0 /\ crashes = 0 /\ (Opens(b, f) \/ Ends(b, f))
    BY <1>6, <1>9 DEF Opens, Ends, Fails, Writes
  <2>2. PICK to \in {"open", "done"}, text \in {Empty} \cup Overlaid(tree[ModuleOf(b)][f], Text(b, f)) :
          /\ Writes(b, f, to, text)
          /\ to = "open" => writes[b][f] = "pending" /\ text = Empty
          /\ to = "done" => writes[b][f] = "open"
               /\ text \in Overlaid(tree[ModuleOf(b)][f], Text(b, f))
    BY <2>1 DEF Opens, Ends
  <2>3. /\ phase' = phase
        /\ \A n \in Builds, g \in Files : n # b \/ g # f => writes'[n][g] = writes[n][g]
        /\ \A m \in Modules, g \in Files :
             m # ModuleOf(b) \/ g # f => tree'[m][g] = tree[m][g]
        /\ writes'[b][f] = to /\ tree'[ModuleOf(b)][f] = text
    BY <2>2 DEF Writes
  <2>4. \A g \in Files : writes'[k][g] # "failed"
    BY <1>1, <2>1, <2>2, <2>3 DEF Faultless
  <2>5. CASE f # "stub" \/ (k # b /\ b \notin Neighbours(k))
    <3>1. ModuleOf(k) # ModuleOf(b) \/ f # "stub"
      BY <2>5, Neighbourhood
    <3>2. tree'[ModuleOf(k)]["stub"] = tree[ModuleOf(k)]["stub"]
      BY <1>0, <2>3, <3>1
    <3>3. ASSUME NEW n \in Neighbours(k) \cup {k}
          PROVE  writes'[n]["stub"] = writes[n]["stub"]
      <4>1. n \in Builds /\ (n # b \/ f # "stub")
        BY <2>5, Neighbourhood
      <4> QED BY <1>0, <2>3, <4>1
    <3> QED BY <1>1, <2>1, <2>3, <2>4, <3>2, <3>3, Neighbourhood DEF Faultless, Neighbours
  <2>6. CASE f = "stub" /\ b \in Neighbours(k) \cup {k}
    <3>1. ModuleOf(b) = ModuleOf(k)
      BY <2>6, Neighbourhood
    <3>2. tree[ModuleOf(b)]["stub"] \in {Empty, Text(b, "stub")} \/ to = "open"
      BY <1>0, <1>1, <2>1, <2>2, <2>6 DEF Faultless
    <3>3. to = "done" => text = Text(k, "stub")
      BY <1>0, <2>2, <2>6, <3>2 DEF Overlaid
    <3>4. to = "open" => text = Empty /\ writes'[b]["stub"] = "open"
      BY <2>2, <2>3, <2>6
    <3>5. tree'[ModuleOf(k)]["stub"] = text
      BY <2>3, <2>6, <3>1
    <3>6. Faultless(k)
      BY <1>1, <2>1
    <3>7. /\ tree'[ModuleOf(k)]["stub"] \in {Empty, Text(k, "stub")}
          /\ tree'[ModuleOf(k)]["stub"] = Empty => writes'[b]["stub"] = "open"
      BY <1>0, <2>2, <3>3, <3>4, <3>5, StubsDiffer
    <3>8. tree'[ModuleOf(k)]["stub"] # Absent
      BY <1>0, <3>7, StubsDiffer
    <3> QED BY <2>3, <2>4, <2>6, <3>6, <3>7, <3>8 DEF Faultless, Neighbours
  <2> QED BY <2>5, <2>6
<1>7. ASSUME Crash
      PROVE  FALSE
  BY <1>7, <1>9 DEF Crash
<1> QED BY <1>2, <1>3, <1>4, <1>5, <1>6, <1>7 DEF Kinds

LEMMA CollisionInvariant == Spec => []CollisionInv
<1>1. Init => CollisionInv
  <2> SUFFICES ASSUME Init, NEW b \in Builds PROVE Faultless(b)
    BY DEF CollisionInv
  <2>1. /\ phase[b] = "idle" /\ \A f \in Files : writes[b][f] = "none"
        /\ "stub" \in Files
    BY DEF Init, Files
  <2>2. tree[ModuleOf(b)]["stub"] = Absent
    BY <2>1, ModulesOf DEF Init
  <2> QED BY <2>1, <2>2, StubsDiffer DEF Faultless
<1>2. TypeOK /\ AloneInv /\ CollisionInv /\ [Next]_vars => CollisionInv'
  <2>1. CollisionInv /\ UNCHANGED vars => CollisionInv'
    BY DEF vars, CollisionInv, Faultless, Neighbours
  <2> QED BY <2>1, NextKinds, CollisionStep
<1> QED BY <1>1, <1>2, FilesTypeCorrect, AloneInvariant, PTL DEF Spec

\* For any number of builds of one name at once: as long as nothing fails, the files
\* that only name the module are whole once the writes are over.
THEOREM StubsSurvive == Spec => []StubsSurviveCollisions
<1>1. TypeOK /\ AloneInv /\ CollisionInv => StubsSurviveCollisions
  <2> SUFFICES ASSUME TypeOK, AloneInv, CollisionInv, errors = 0, crashes = 0,
                      NEW b \in Builds, phase[b] \notin {"idle", "preparing"},
                      \A n \in Neighbours(b) \cup {b} : ~Writing(n)
               PROVE  tree[ModuleOf(b)]["stub"] = Text(b, "stub")
    BY DEF StubsSurviveCollisions
  <2>1. Faultless(b) /\ phase[b] \in Begun /\ "stub" \in Files
    BY DEF CollisionInv, Faultless, Files
  <2>2. \A n \in Neighbours(b) \cup {b} : writes[n]["stub"] \notin {"open", "pending"}
    BY <2>1 DEF Writing, WritingTo
  <2>3. writes[b]["stub"] # "none"
    BY <2>1 DEF AloneInv, Progress
  <2> QED BY <2>1, <2>2, <2>3 DEF Faultless
<1> QED BY <1>1, FilesTypeCorrect, AloneInvariant, CollisionInvariant, PTL

==============================================================================
