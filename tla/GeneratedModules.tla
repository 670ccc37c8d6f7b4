--------------------------- MODULE GeneratedModules ---------------------------
(***************************************************************************)
(* The files of generated modules: what the spec compiler writes for a     *)
(* build (packages/spec-compiler) and what the create handler of the       *)
(* control API reads back for the policy check.                            *)
(*                                                                         *)
(* The directory of a module is named after the title of the build, so     *)
(* builds with one slug share it.  A handler writes all its files at once  *)
(* and awaits Promise.all: the writes of several handlers mix, and when one*)
(* is rejected the handler fails while its other writes go on.  fs.writeFile*)
(* truncates the file first and writes it later.                           *)
(***************************************************************************)
EXTENDS Naturals, Sequences, FiniteSets

CONSTANTS
  Builds,      \* ids of create requests
  TitleOf,     \* the title of each, as toSnakeCase leaves it: a sequence of words
  NameWords,   \* how many words the slug has room for (40 characters)
  MaxErrors,   \* bound on the file operations that fail
  MaxCrashes   \* bound on the crashes of the process

ASSUME GeneratedAssumption ==
  /\ DOMAIN TitleOf = Builds
  /\ \A b \in Builds : TitleOf[b] \in Seq(STRING)
  /\ NameWords \in Nat /\ MaxErrors \in Nat /\ MaxCrashes \in Nat

VARIABLES
  phase,      \* how far the create handler of each build is
  writes,     \* the compiler's writeFile calls of each build
  tree,       \* the text of each file in each module directory
  seen,       \* what the handler of each build read back
  order,      \* history: the builds in the order in which they began to write
  met,        \* history: the builds whose handlers wrote while the handler was under way
  left,       \* history: the files to which earlier handlers still had a write under
              \* way, when they had ended and the build was requested
  errors, crashes

vars == <<phase, writes, tree, seen, order, met, left, errors, crashes>>

\* The title's slug, cut short, with the prefix unless it is there.
DeriveModuleName(title) ==
  LET slug == SubSeq(title, 1, IF Len(title) < NameWords THEN Len(title) ELSE NameWords)
  IN  IF Len(slug) > 1 /\ slug[1] = "oae" THEN slug ELSE <<"oae">> \o slug

ModuleOf(b) == DeriveModuleName(TitleOf[b])

Modules == {ModuleOf(b) : b \in Builds}

\* "stub" stands for the files whose text only names the module: the service, the
\* access list, the menu, the tests and the constant files.  The manifest lists the
\* request's modules, the readme its goal and title.
Files == {"manifest", "readme", "stub"}

\* The files the policy check reads, of which two are stubs.
CandidateFiles == {"manifest", "stub"}

\* Mutant: the stub is made from the request too.
Mutant_Text(b, f) == <<"of", b>>

\* The text the compiler has for a file of b's module.
Text(b, f) == IF f = "stub" THEN <<"of module">> ELSE <<"of", b>>

\* What a file can hold: nothing yet, nothing since it was truncated, a mixture.
Absent  == <<"absent">>
Empty   == <<"empty">>
Garbled == <<"garbled">>

Texts == {Absent, Empty, Garbled} \cup {Text(b, f) : b \in Builds, f \in Files}

UnderWay == {"preparing", "generating", "documenting", "reading"}

Phases == {"idle", "offered", "failed", "lost"} \cup UnderWay

WriteStates == {"none", "pending", "open", "done", "failed"}

TypeOK ==
  /\ phase \in [Builds -> Phases]
  /\ writes \in [Builds -> [Files -> WriteStates]]
  /\ tree \in [Modules -> [Files -> Texts]]
  /\ seen \in [Builds -> [CandidateFiles -> Texts]]
  /\ order \in Seq(Builds)
  /\ met \in [Builds -> SUBSET Builds] /\ left \in [Builds -> SUBSET Files]
  /\ errors \in 0 .. MaxErrors /\ crashes \in 0 .. MaxCrashes

Init ==
  /\ phase = [b \in Builds |-> "idle"]
  /\ writes = [b \in Builds |-> [f \in Files |-> "none"]]
  /\ tree = [module \in Modules |-> [f \in Files |-> Absent]]
  /\ seen = [b \in Builds |-> [f \in CandidateFiles |-> Absent]]
  /\ order = <<>>
  /\ met = [b \in Builds |-> {}] /\ left = [b \in Builds |-> {}]
  /\ errors = 0 /\ crashes = 0

WritingTo(b, f) == writes[b][f] \in {"pending", "open"}

Writing(b) == \E f \in Files : WritingTo(b, f)

Neighbours(b) == {n \in Builds \ {b} : ModuleOf(n) = ModuleOf(b)}

Goes(b, to) == phase' = [phase EXCEPT ![b] = to]

------------------------------------------------------------------------------
\* The create handler

\* mkdir of the module's directories is awaited first.
RequestBuild(b) ==
  /\ phase[b] = "idle"
  /\ Goes(b, "preparing")
  /\ met' = [met EXCEPT ![b] = {n \in Neighbours(b) : phase[n] \in UnderWay /\ Writing(n)}]
  /\ left' = [left EXCEPT ![b] =
       {f \in Files : \E n \in Neighbours(b) : phase[n] \notin UnderWay /\ WritingTo(n, f)}]
  /\ UNCHANGED <<writes, tree, seen, order, errors, crashes>>

\* Mutant: files that are there are left as they are.
Mutant_QueuedWrites(b) ==
  [f \in Files |-> IF tree[ModuleOf(b)][f] = Absent THEN "pending" ELSE "done"]

\* One writeFile for every file, none of them awaited before the next is called.
QueuedWrites(b) == [f \in Files |-> "pending"]

WriteModuleSkeleton(b) ==
  /\ phase[b] = "preparing"
  /\ Goes(b, "generating")
  /\ writes' = [writes EXCEPT ![b] = QueuedWrites(b)]
  /\ order' = Append(order, b)
  /\ met' = [n \in Builds |->
               IF n \in Neighbours(b) /\ phase[n] \in UnderWay
               THEN met[n] \cup {b} ELSE met[n]]
  /\ UNCHANGED <<tree, seen, left, errors, crashes>>

\* Mutant: only the files that are read back are awaited.
Mutant_Written(b) == \A f \in CandidateFiles : writes[b][f] = "done"

\* Promise.all of the writes is fulfilled.
Written(b) == \A f \in Files : writes[b][f] = "done"

\* The artifacts lie in a directory of the build's own.
WriteBuildArtifacts(b) ==
  /\ phase[b] = "generating" /\ Written(b)
  /\ Goes(b, "documenting")
  /\ UNCHANGED <<writes, tree, seen, order, met, left, errors, crashes>>

\* They have been written and looked up; the candidate files are read next.
IndexArtifacts(b) ==
  /\ phase[b] = "documenting"
  /\ Goes(b, "reading")
  /\ UNCHANGED <<writes, tree, seen, order, met, left, errors, crashes>>

ReadFile(b, f) ==
  /\ phase[b] = "reading" /\ seen[b][f] = Absent
  /\ tree[ModuleOf(b)][f] # Absent
  /\ seen' = [seen EXCEPT ![b][f] = tree[ModuleOf(b)][f]]
  /\ UNCHANGED <<phase, writes, tree, order, met, left, errors, crashes>>

\* The policy is evaluated and the build leaves the handler, to be approved or to
\* an edge agent.
Offer(b) ==
  /\ phase[b] = "reading"
  /\ \A f \in CandidateFiles : seen[b][f] # Absent
  /\ Goes(b, "offered")
  /\ UNCHANGED <<writes, tree, seen, order, met, left, errors, crashes>>

\* Another await of the handler is rejected: mkdir, the artifacts, a read.
FailBuild(b) ==
  /\ phase[b] \in {"preparing", "documenting", "reading"}
  /\ errors < MaxErrors
  /\ errors' = errors + 1
  /\ Goes(b, "failed")
  /\ UNCHANGED <<writes, tree, seen, order, met, left, crashes>>

\* Mutant: the handler fails only when every write does, as with Promise.any.
Mutant_SkeletonRejected(b) ==
  /\ phase[b] = "generating"
  /\ \A f \in Files : writes[b][f] = "failed"
  /\ Goes(b, "failed")
  /\ UNCHANGED <<writes, tree, seen, order, met, left, errors, crashes>>

\* The first rejected write rejects Promise.all; the others are not called off.
SkeletonRejected(b) ==
  /\ phase[b] = "generating"
  /\ \E f \in Files : writes[b][f] = "failed"
  /\ Goes(b, "failed")
  /\ UNCHANGED <<writes, tree, seen, order, met, left, errors, crashes>>

------------------------------------------------------------------------------
\* The writes, each on its own, whatever has become of their handler

SetWrite(b, f, to) == writes' = [writes EXCEPT ![b][f] = to]

SetText(b, f, text) == tree' = [tree EXCEPT ![ModuleOf(b)][f] = text]

OpenFile(b, f) ==
  /\ writes[b][f] = "pending"
  /\ SetWrite(b, f, "open")
  /\ SetText(b, f, Empty)
  /\ UNCHANGED <<phase, seen, order, met, left, errors, crashes>>

\* Mutant: the text is appended to what is there.
Mutant_Overlaid(old, text) == IF old = Empty THEN {text} ELSE {old \o text}

\* A text laid over another covers all of it or leaves its end.
Overlaid(old, text) == IF old \in {Empty, text} THEN {text} ELSE {text, Garbled}

WriteFile(b, f) ==
  /\ writes[b][f] = "open"
  /\ SetWrite(b, f, "done")
  /\ \E text \in Overlaid(tree[ModuleOf(b)][f], Text(b, f)) : SetText(b, f, text)
  /\ UNCHANGED <<phase, seen, order, met, left, errors, crashes>>

\* It cannot be opened, or is cut short.
WriteFails(b, f) ==
  /\ writes[b][f] \in {"pending", "open"}
  /\ errors < MaxErrors
  /\ errors' = errors + 1
  /\ SetWrite(b, f, "failed")
  /\ \/ UNCHANGED tree
     \/ writes[b][f] = "open" /\ SetText(b, f, Garbled)
  /\ UNCHANGED <<phase, seen, order, met, left, crashes>>

\* The process dies and starts again: no handler and no write survives it.
Crash ==
  /\ crashes < MaxCrashes
  /\ crashes' = crashes + 1
  /\ phase' = [b \in Builds |-> IF phase[b] \in UnderWay THEN "lost" ELSE phase[b]]
  /\ writes' = [b \in Builds |->
                  [f \in Files |-> IF writes[b][f] \in {"pending", "open"}
                                   THEN "failed" ELSE writes[b][f]]]
  /\ UNCHANGED <<tree, seen, order, met, left, errors>>

Handler(b) ==
  \/ WriteModuleSkeleton(b) \/ WriteBuildArtifacts(b) \/ SkeletonRejected(b)
  \/ IndexArtifacts(b) \/ Offer(b) \/ FailBuild(b)
  \/ \E f \in CandidateFiles : ReadFile(b, f)

FileOperation(b, f) == OpenFile(b, f) \/ WriteFile(b, f) \/ WriteFails(b, f)

Next ==
  \/ \E b \in Builds :
       RequestBuild(b) \/ Handler(b) \/ \E f \in Files : FileOperation(b, f)
  \/ Crash

\* Every file operation that was called settles, and what awaits it goes on.
Fairness ==
  \A b \in Builds :
    WF_vars(Handler(b)) /\ \A f \in Files : WF_vars(FileOperation(b, f))

Spec == Init /\ [][Next]_vars /\ Fairness

------------------------------------------------------------------------------
\* Properties

\* No other handler wrote into the module while b's was under way.
Alone(b) == met[b] = {}

LastToWrite(b) ==
  \A i, j \in DOMAIN order : order[i] = b /\ i < j => order[j] \notin Neighbours(b)

\* The policy check of a build that shared its module's directory with no other
\* handler saw the build's own files, whole: none left over from an earlier build
\* of the name, from a build that failed half way, or from before a crash.  It may
\* have missed only the files to which a handler that had failed before the request
\* still had a write under way.
PolicySawOwnFiles ==
  \A b \in Builds :
    phase[b] = "offered" /\ Alone(b)
      => \A f \in CandidateFiles \ left[b] : seen[b][f] = Text(b, f)

\* The module of such a build stays what the build generated once it is offered, until
\* another build of the name begins to write: no write of its own comes late, and
\* none of an earlier build but those which a failed handler had left under way when
\* the build was requested.
OfferedModuleIsWhole ==
  \A b \in Builds :
    phase[b] = "offered" /\ Alone(b) /\ LastToWrite(b)
      => \A f \in Files \ left[b] : tree[ModuleOf(b)][f] = Text(b, f)

\* Builds of one name that write at the same time spoil only what differs between
\* them: once no write is under way, and as long as none failed, the files that
\* name the module only are whole, whoever wrote last.
StubsSurviveCollisions ==
  errors = 0 /\ crashes = 0 =>
    \A b \in Builds :
      phase[b] \notin {"idle", "preparing"} /\ ~Writing(b)
      /\ (\A n \in Neighbours(b) : ~Writing(n))
      => tree[ModuleOf(b)]["stub"] = Text(b, "stub")

\* Every create request ends, and once no build is under way in a module its
\* directory comes to rest: the writes a failed handler left behind end too.
ModulesComeToRest ==
  \A b \in Builds :
    phase[b] \in UnderWay \/ Writing(b)
      ~> phase[b] \notin UnderWay /\ ~Writing(b)
==============================================================================
