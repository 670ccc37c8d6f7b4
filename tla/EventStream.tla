----------------------------- MODULE EventStream -----------------------------
(***************************************************************************)
(* Build events from the store to the console: addBuildEvent keeps, emits  *)
(* and writes an event; the stream endpoint replays and subscribes in one  *)
(* segment; the browser's EventSource connects again when a connection     *)
(* ends, and gives up for good when an attempt is answered with anything   *)
(* but a stream; the console panel shows what its listener is given.       *)
(*                                                                         *)
(* One panel is modelled, with the connection it has; what handlers write  *)
(* events about is left open.                                              *)
(***************************************************************************)
EXTENDS Naturals, Sequences, FiniteSets, SequencesExt

CONSTANTS
  Builds,         \* builds the panel offers
  EventTypes,     \* BuildEvent's type
  PanelSize,      \* 300 in the code
  SameOrigin,     \* TRUE: console and API are behind one proxy; FALSE: the browser
                  \* calls the API's own port from the console's page
  Torn,           \* a snapshot file that does not parse
  MaxEvents, MaxCrashes, MaxLostWrites,
  MaxDrops        \* bound on connections lost and builds selected

ASSUME StreamAssumption ==
  /\ Builds # {}
  /\ "message" \notin EventTypes
  /\ PanelSize \in Nat \ {0}
  /\ SameOrigin \in BOOLEAN
  /\ MaxEvents \in Nat /\ MaxCrashes \in Nat /\ MaxLostWrites \in Nat
  /\ MaxDrops \in Nat

Events == [id : Nat, type : EventTypes]
Lists  == [Builds -> Seq(Events)]
NoList == [b \in Builds |-> <<>>]

ASSUME TornFileAssumption == Torn \notin Lists

VARIABLES
  events,      \* the store's list of events of every build
  file,        \* the lists in the snapshot file, or Torn
  up,          \* whether the control API runs
  known,       \* whether its store still has the panel's builds
  selected,    \* the build the panel streams
  source,      \* the EventSource: "connecting", "open", or "closed" for good
  subscribed,  \* whether the control API writes new events to it
  wire,        \* what is on its way on the connection
  got,         \* what has arrived on the connection
  seen,        \* the events that ever arrived
  shown,       \* what the panel lists
  made,        \* events made so far, which numbers them
  crashes, lostWrites, drops

store == <<events, file, up, known, made, crashes, lostWrites>>
browser == <<selected, source, subscribed, wire, got, seen, shown, drops>>
vars == <<store, browser>>

TypeOK ==
  /\ events \in Lists
  /\ file = Torn \/ file \in Lists
  /\ up \in BOOLEAN /\ known \in BOOLEAN
  /\ selected \in Builds
  /\ source \in {"connecting", "open", "closed"} /\ subscribed \in BOOLEAN
  /\ wire \in Seq(Events) /\ got \in Seq(Events) /\ shown \in Seq(Events)
  /\ seen \in SUBSET Events
  /\ made \in 0 .. MaxEvents
  /\ crashes \in 0 .. MaxCrashes
  /\ lostWrites \in 0 .. MaxLostWrites
  /\ drops \in 0 .. MaxDrops

Init ==
  /\ events = NoList /\ file = NoList
  /\ up = TRUE /\ known = TRUE
  /\ selected \in Builds
  /\ source = "connecting" /\ subscribed = FALSE
  /\ wire = <<>> /\ got = <<>> /\ shown = <<>>
  /\ seen = {}
  /\ made = 0 /\ crashes = 0 /\ lostWrites = 0 /\ drops = 0

------------------------------------------------------------------------------
\* The control API

\* Mutant: the snapshot is left to the next call.
Mutant_Persist(kept) == UNCHANGED <<file, lostWrites>>

\* Writes the snapshot in place: an error is swallowed, and leaves the old file or
\* a torn one.
Persist(kept) ==
  \/ file' = kept /\ UNCHANGED lostWrites
  \/ /\ lostWrites < MaxLostWrites
     /\ lostWrites' = lostWrites + 1
     /\ file' \in {file, Torn}

\* The process goes on, or dies in the write, after it has emitted the event.
WritesOrDies(kept) ==
  \/ /\ Persist(kept)
     /\ UNCHANGED <<up, crashes>>
  \/ /\ crashes < MaxCrashes
     /\ crashes' = crashes + 1
     /\ up' = FALSE
     /\ file' \in {file, Torn}
     /\ UNCHANGED lostWrites

\* push, emit, persistSnapshot.
AddBuildEvent(b, type) ==
  LET event == [id |-> made + 1, type |-> type]
      kept  == [events EXCEPT ![b] = Append(@, event)]
  IN  /\ up /\ known /\ made < MaxEvents
      /\ made' = made + 1
      /\ events' = kept
      /\ wire' = IF subscribed /\ selected = b THEN Append(wire, event) ELSE wire
      /\ WritesOrDies(kept)
      /\ subscribed' = (subscribed /\ up')
      /\ UNCHANGED <<known, selected, source, got, seen, shown, drops>>

Crash ==
  /\ up /\ crashes < MaxCrashes
  /\ crashes' = crashes + 1
  /\ up' = FALSE /\ subscribed' = FALSE
  /\ UNCHANGED <<events, file, known, made, lostWrites>>
  /\ UNCHANGED <<selected, source, wire, got, seen, shown, drops>>

RestartFromFile ==
  /\ file # Torn
  /\ events' = file
  /\ UNCHANGED <<file, known, lostWrites>>

\* The store begins from the defaults, which have no builds, and writes them.
RestartFromTornFile ==
  /\ file = Torn
  /\ events' = NoList /\ known' = FALSE
  /\ Persist(NoList)

Restart ==
  /\ ~up /\ up' = TRUE
  /\ RestartFromFile \/ RestartFromTornFile
  /\ UNCHANGED <<made, crashes>> /\ UNCHANGED browser

\* Mutant: the panel gets what comes after it connects, and no replay.
Mutant_Replay(b) == <<>>

\* Mutant: the list is written as if it were one event.
Mutant_ReplayList(b) == <<events[b]>>

Replay(b) == events[b]

------------------------------------------------------------------------------
\* The browser

\* An attempt gets the stream if the API runs, has the build, and the page may read
\* the answer: the headers of the stream are written to the socket, without the
\* Access-Control-Allow-Origin that the API's other answers carry.
Answered == up /\ known /\ SameOrigin

\* Without a proxy nothing answers for an API that is down: EventSource tries again.
Refused == ~up /\ ~SameOrigin

\* GET the stream: what is there is written, and the subscription made, before
\* any other handler runs.
Connect ==
  /\ source = "connecting" /\ Answered
  /\ source' = "open" /\ subscribed' = TRUE
  /\ wire' = Replay(selected) /\ got' = <<>>
  /\ UNCHANGED <<selected, seen, shown, drops>> /\ UNCHANGED store

\* Any other answer closes the source for good: 502 of the proxy while the API is
\* down, 404 when it has lost the build, an answer that the page may not read.
TurnedAway ==
  /\ source = "connecting" /\ ~Answered /\ ~Refused
  /\ source' = "closed"
  /\ UNCHANGED <<selected, subscribed, wire, got, seen, shown, drops>>
  /\ UNCHANGED store

\* The panel sets onmessage, which hears messages without a type of their own.
Listened == {"message"}

\* The panel's handler of messages, which EventSource calls for the types that
\* the panel listens to.
OnMessage(event) ==
  LET all == Append(shown, event)
  IN  IF event.type \notin Listened THEN shown
      ELSE IF Len(all) > PanelSize THEN Tail(all) ELSE all

\* Mutant: of two events that arrive together only the last is taken.
Mutant_Receive ==
  /\ source = "open" /\ wire # <<>>
  /\ got' = Append(got, Last(wire))
  /\ seen' = seen \cup {Last(wire)}
  /\ wire' = <<>>
  /\ shown' = OnMessage(Last(wire))
  /\ UNCHANGED <<selected, source, subscribed, drops>> /\ UNCHANGED store

Receive ==
  /\ source = "open" /\ wire # <<>>
  /\ got' = Append(got, Head(wire))
  /\ seen' = seen \cup {Head(wire)}
  /\ wire' = Tail(wire)
  /\ shown' = OnMessage(Head(wire))
  /\ UNCHANGED <<selected, source, subscribed, drops>> /\ UNCHANGED store

\* The connection ends, with all that is still under way: always when the
\* control API has died, and now and then when it has not.  EventSource will
\* try again.
Disconnect ==
  /\ source = "open"
  /\ \/ ~subscribed /\ UNCHANGED drops
     \/ subscribed /\ drops < MaxDrops /\ drops' = drops + 1
  /\ source' = "connecting" /\ subscribed' = FALSE
  /\ wire' = <<>> /\ got' = <<>>
  /\ UNCHANGED <<selected, seen, shown>> /\ UNCHANGED store

\* Another build is selected: the effect closes its source and makes a new one,
\* which nothing else does.
Select(b) ==
  /\ b # selected
  /\ drops < MaxDrops /\ drops' = drops + 1
  /\ selected' = b
  /\ source' = "connecting" /\ subscribed' = FALSE
  /\ wire' = <<>> /\ got' = <<>> /\ shown' = <<>>
  /\ UNCHANGED seen /\ UNCHANGED store

------------------------------------------------------------------------------

Hangup == Disconnect /\ ~subscribed

Next ==
  \/ \E b \in Builds, type \in EventTypes : AddBuildEvent(b, type)
  \/ Crash
  \/ Restart
  \/ Connect
  \/ TurnedAway
  \/ Receive
  \/ Disconnect
  \/ \E b \in Builds : Select(b)

\* A source that is connecting tries until it has an answer, reads what arrives, and
\* notices a dead peer.
Spec ==
  /\ Init /\ [][Next]_vars
  /\ WF_vars(Connect) /\ WF_vars(Receive) /\ WF_vars(Hangup)

------------------------------------------------------------------------------
\* Properties

Made(b) == ToSet(events[b])

\* On a connection, what has arrived and what is under way are exactly the build's
\* events, in order: nothing falls between replay and subscription, nothing twice.
StreamIsExact == subscribed => got \o wire = events[selected]

\* What arrived at a browser and the store has forgotten is no more than one event
\* for each crash or failed write, although an event is sent before it is written.
\* A write cut short and repaired by a later one costs no more; a restart from a
\* torn file forgets everything, and ends what is promised.
ForgottenEvents ==
  LET kept == UNION {Made(b) : b \in Builds}
  IN  known => Cardinality(seen \ kept) <= crashes + lostWrites

Gone(b, n) == ~up \/ selected # b \/ n \notin {e.id : e \in Made(b)}

\* An event of the build on the panel reaches the browser, or the store has lost
\* it, is down, another build was selected, or the source was turned away.
EventsArrive ==
  \A b \in Builds, n \in 1 .. MaxEvents :
    ~Gone(b, n) ~> Gone(b, n) \/ source = "closed" \/ n \in {e.id : e \in seen}

\* An event of the build on the panel is listed there: the console's page promises
\* to "Replay and tail lifecycle logs".
PanelTails ==
  \A b \in Builds, n \in 1 .. MaxEvents :
    ~Gone(b, n) ~> Gone(b, n) \/ n \in {e.id : e \in ToSet(shown)}
==============================================================================
