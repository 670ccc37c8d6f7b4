-------------------------- MODULE EventStream_proofs --------------------------
(***************************************************************************)
(* The stream of build events, for any builds, event types, panel size and *)
(* bounds: what a connection carries, and how much of what has arrived the *)
(* store may have forgotten.                                               *)
(***************************************************************************)
EXTENDS EventStream, SequenceTheorems, FiniteSetTheorems, TLAPS

------------------------------------------------------------------------------
(* Types *)

LEMMA TailType ==
  ASSUME NEW S, NEW s \in Seq(S), NEW e \in S
  PROVE  Append(s, e) \in Seq(S) /\ Tail(Append(s, e)) \in Seq(S)
<1> DEFINE a == Append(s, e)
<1>1. a \in Seq(S) /\ a # <<>>
  BY AppendProperties
<1> HIDE DEF a
<1>2. Tail(a) \in Seq(S)
  BY <1>1, HeadTailProperties
<1> QED BY <1>1, <1>2 DEF a

LEMMA ReceiveType ==
  ASSUME TypeOK, Receive
  PROVE  /\ wire' \in Seq(Events) /\ got' \in Seq(Events) /\ shown' \in Seq(Events)
         /\ seen' \in SUBSET Events
<1>1. Head(wire) \in Events /\ wire' \in Seq(Events)
  BY HeadTailProperties DEF TypeOK, Receive
<1>2. got' \in Seq(Events) /\ seen' \in SUBSET Events
  BY <1>1 DEF TypeOK, Receive
<1>3. shown' \in Seq(Events)
  <2> DEFINE all == Append(shown, Head(wire))
  <2>1. shown \in Seq(Events) /\ all \in Seq(Events) /\ Tail(all) \in Seq(Events)
    BY <1>1, TailType DEF TypeOK
  <2> HIDE DEF all
  <2>2. shown' \in {shown, all, Tail(all)}
    BY DEF Receive, OnMessage, all
  <2> QED BY <2>1, <2>2
<1> QED BY <1>1, <1>2, <1>3

LEMMA EmptyLists == NoList \in Lists
<1>1. <<>> \in Seq(Events)
  OBVIOUS
<1> QED BY <1>1 DEF NoList, Lists

LEMMA WritesType ==
  ASSUME TypeOK, NEW kept \in Lists, WritesOrDies(kept)
  PROVE  /\ file' = Torn \/ file' \in Lists
         /\ up' \in BOOLEAN
         /\ crashes' \in 0 .. MaxCrashes /\ lostWrites' \in 0 .. MaxLostWrites
<1>0. /\ crashes \in Nat /\ lostWrites \in Nat /\ MaxCrashes \in Nat /\ MaxLostWrites \in Nat
      /\ crashes <= MaxCrashes /\ lostWrites <= MaxLostWrites
      /\ up \in BOOLEAN
      /\ file = Torn \/ file \in Lists
  BY StreamAssumption DEF TypeOK
<1>1. /\ file' \in {file, kept, Torn} /\ up' \in {up, FALSE}
      /\ \/ crashes' = crashes
         \/ crashes < MaxCrashes /\ crashes' = crashes + 1
      /\ \/ lostWrites' = lostWrites
         \/ lostWrites < MaxLostWrites /\ lostWrites' = lostWrites + 1
  BY DEF WritesOrDies, Persist
<1>2. file' = Torn \/ file' \in Lists
  BY <1>0, <1>1
<1>3. crashes' \in 0 .. MaxCrashes /\ lostWrites' \in 0 .. MaxLostWrites
  BY <1>0, <1>1
<1>4. up' \in BOOLEAN
  <2>1. up' = up \/ up' = FALSE
    BY DEF WritesOrDies
  <2>2. CASE up' = up
    BY <1>0, <2>2
  <2>3. CASE up' = FALSE
    BY <2>3
  <2> QED BY <2>1, <2>2, <2>3
<1> QED BY <1>2, <1>3, <1>4

LEMMA RestartType ==
  ASSUME TypeOK, Restart
  PROVE  /\ events' \in Lists
         /\ file' = Torn \/ file' \in Lists
         /\ known' \in BOOLEAN /\ lostWrites' \in 0 .. MaxLostWrites
<1>1. CASE RestartFromFile
  BY <1>1 DEF RestartFromFile, TypeOK
<1>2. CASE RestartFromTornFile
  <2>1. /\ file' \in {NoList, Torn}
        /\ \/ lostWrites' = lostWrites
           \/ lostWrites < MaxLostWrites /\ lostWrites' = lostWrites + 1
    BY <1>2 DEF RestartFromTornFile, Persist
  <2>2. lostWrites' \in 0 .. MaxLostWrites
    BY <2>1, StreamAssumption DEF TypeOK
  <2> QED BY <1>2, <2>1, <2>2, EmptyLists DEF RestartFromTornFile
<1> QED BY <1>1, <1>2 DEF Restart

LEMMA InitType ==
  ASSUME Init
  PROVE  TypeOK
<1>1. <<>> \in Seq(Events)
  OBVIOUS
<1>2. events \in Lists /\ file \in Lists
  BY EmptyLists DEF Init
<1>3. wire \in Seq(Events) /\ got \in Seq(Events) /\ shown \in Seq(Events)
  BY <1>1 DEF Init
<1>4. /\ made \in 0 .. MaxEvents /\ crashes \in 0 .. MaxCrashes
      /\ lostWrites \in 0 .. MaxLostWrites /\ drops \in 0 .. MaxDrops
  BY StreamAssumption DEF Init
<1>5. /\ up \in BOOLEAN /\ known \in BOOLEAN /\ subscribed \in BOOLEAN
      /\ source \in {"connecting", "open", "closed"}
      /\ selected \in Builds /\ seen \in SUBSET Events
  BY DEF Init
<1> QED BY <1>2, <1>3, <1>4, <1>5 DEF TypeOK

\* The counters that the bounds are about.
LEMMA CounterType ==
  ASSUME TypeOK
  PROVE  /\ crashes \in Nat /\ lostWrites \in Nat
         /\ crashes < MaxCrashes => crashes + 1 \in 0 .. MaxCrashes
         /\ drops < MaxDrops => drops + 1 \in 0 .. MaxDrops
BY StreamAssumption DEF TypeOK

\* For any builds, crashes, lost writes and dropped connections every variable
\* keeps its type.
THEOREM StreamTypeCorrect == Spec => []TypeOK
<1>1. Init => TypeOK
  BY InitType
<1>2. TypeOK /\ [Next]_vars => TypeOK'
  <2> SUFFICES ASSUME TypeOK, [Next]_vars PROVE TypeOK'
    OBVIOUS
  <2>1. ASSUME NEW b \in Builds, NEW type \in EventTypes, AddBuildEvent(b, type)
        PROVE  TypeOK'
    <3> DEFINE event == [id |-> made + 1, type |-> type]
               kept  == [events EXCEPT ![b] = Append(@, event)]
    <3>1. event \in Events /\ made + 1 \in 0 .. MaxEvents
      BY <2>1, StreamAssumption DEF TypeOK, AddBuildEvent, Events
    <3> HIDE DEF event
    <3>2. kept \in Lists /\ Append(wire, event) \in Seq(Events)
      BY <3>1 DEF TypeOK, Lists
    <3> HIDE DEF kept
    <3>3. /\ made' = made + 1 /\ events' = kept /\ WritesOrDies(kept)
          /\ wire' \in {wire, Append(wire, event)}
          /\ subscribed' = (subscribed /\ up')
          /\ UNCHANGED <<known, selected, source, got, seen, shown, drops>>
      BY <2>1 DEF AddBuildEvent, event, kept
    <3>4. /\ file' = Torn \/ file' \in Lists
          /\ up' \in BOOLEAN
          /\ crashes' \in 0 .. MaxCrashes /\ lostWrites' \in 0 .. MaxLostWrites
      BY <3>2, <3>3, WritesType
    <3> QED BY <3>1, <3>2, <3>3, <3>4 DEF TypeOK
  <2>2. CASE Crash
    BY <2>2, CounterType DEF TypeOK, Crash
  <2>3. CASE Restart
    <3>1. UNCHANGED <<made, crashes>> /\ UNCHANGED browser /\ up' = TRUE
      BY <2>3 DEF Restart
    <3>2. up' \in BOOLEAN
      BY <3>1
    <3>3. /\ events' \in Lists
          /\ file' = Torn \/ file' \in Lists
          /\ known' \in BOOLEAN /\ lostWrites' \in 0 .. MaxLostWrites
      BY <2>3, RestartType
    <3>4. /\ selected' \in Builds /\ seen' \in SUBSET Events
          /\ source' \in {"connecting", "open", "closed"} /\ subscribed' \in BOOLEAN
          /\ wire' \in Seq(Events) /\ got' \in Seq(Events) /\ shown' \in Seq(Events)
          /\ made' \in 0 .. MaxEvents /\ crashes' \in 0 .. MaxCrashes
          /\ drops' \in 0 .. MaxDrops
      BY <3>1 DEF TypeOK, browser
    <3> QED BY <3>2, <3>3, <3>4 DEF TypeOK
  <2>4. CASE Connect
    BY <2>4 DEF TypeOK, Connect, Replay, store, Lists
  <2>9. CASE TurnedAway
    BY <2>9 DEF TypeOK, TurnedAway, store
  <2>5. CASE Receive
    BY <2>5, ReceiveType DEF TypeOK, Receive, store
  <2>6. CASE Disconnect
    <3>1. wire' \in Seq(Events) /\ got' \in Seq(Events) /\ drops' \in 0 .. MaxDrops
      BY <2>6, CounterType DEF TypeOK, Disconnect
    <3> QED BY <2>6, <3>1 DEF TypeOK, Disconnect, store
  <2>7. ASSUME NEW b \in Builds, Select(b) PROVE TypeOK'
    <3>1. /\ wire' \in Seq(Events) /\ got' \in Seq(Events) /\ shown' \in Seq(Events)
          /\ drops' \in 0 .. MaxDrops
      BY <2>7, CounterType DEF TypeOK, Select
    <3> QED BY <2>7, <3>1 DEF TypeOK, Select, store
  <2>8. CASE UNCHANGED vars
    BY <2>8 DEF TypeOK, vars, store, browser
  <2> QED BY <2>1, <2>2, <2>3, <2>4, <2>5, <2>6, <2>7, <2>8, <2>9 DEF Next
<1> QED BY <1>1, <1>2, PTL DEF Spec

------------------------------------------------------------------------------
(* The connection.  Replay and subscription are one segment, and so are the  *)
(* push of an event and its emission, so that the two sides cannot part.     *)

ExactInv ==
  /\ TypeOK
  /\ subscribed => up /\ source = "open"
  /\ StreamIsExact

LEMMA ReceiveExact ==
  ASSUME NEW S, NEW s \in Seq(S), NEW t \in Seq(S), t # <<>>
  PROVE  Append(s, Head(t)) \o Tail(t) = s \o t
<1> DEFINE h == Head(t)
           r == Tail(t)
<1>1. h \in S /\ r \in Seq(S) /\ Len(r) = Len(t) - 1
      /\ \A i \in 1 .. Len(r) : r[i] = t[i + 1]
  BY HeadTailProperties
<1>2. h = t[1] /\ Len(t) \in Nat \ {0} /\ Len(s) \in Nat
  BY EmptySeq
<1> HIDE DEF h, r
<1> DEFINE a == Append(s, h)
           u == a \o r
           v == s \o t
<1>3. /\ a \in Seq(S) /\ Len(a) = Len(s) + 1
      /\ \A i \in 1 .. Len(s) : a[i] = s[i]
      /\ a[Len(s) + 1] = h
  BY <1>1, AppendProperties
<1> HIDE DEF a
<1>4. /\ u \in Seq(S) /\ Len(u) = Len(s) + 1 + Len(r)
      /\ \A i \in 1 .. Len(s) + 1 + Len(r) :
           u[i] = IF i <= Len(s) + 1 THEN a[i] ELSE r[i - (Len(s) + 1)]
  <2>1. /\ u \in Seq(S) /\ Len(u) = Len(a) + Len(r)
        /\ \A i \in 1 .. Len(a) + Len(r) :
             u[i] = IF i <= Len(a) THEN a[i] ELSE r[i - Len(a)]
    BY <1>1, <1>3, ConcatProperties
  <2> QED BY <1>3, <2>1
<1>5. /\ v \in Seq(S) /\ Len(v) = Len(s) + Len(t)
      /\ \A i \in 1 .. Len(s) + Len(t) :
           v[i] = IF i <= Len(s) THEN s[i] ELSE t[i - Len(s)]
  BY ConcatProperties
<1> HIDE DEF u, v
<1>6. Len(u) = Len(v)
  BY <1>1, <1>2, <1>4, <1>5
<1>7. ASSUME NEW i \in 1 .. Len(u) PROVE u[i] = v[i]
  <2>0. i \in Nat /\ i >= 1 /\ i <= Len(s) + Len(t)
    BY <1>2, <1>5, <1>6
  <2>1. CASE i <= Len(s)
    <3>1. i \in 1 .. Len(s) /\ i \in 1 .. Len(s) + 1 + Len(r) /\ i \in 1 .. Len(s) + Len(t)
      BY <1>1, <1>2, <2>0, <2>1
    <3>2. i <= Len(s) + 1
      BY <1>2, <2>0, <2>1
    <3>3. u[i] = a[i]
      BY <1>4, <3>1, <3>2
    <3>4. a[i] = s[i]
      BY <1>3, <3>1
    <3>5. v[i] = s[i]
      BY <1>5, <2>1, <3>1
    <3> QED BY <3>3, <3>4, <3>5
  <2>2. CASE i = Len(s) + 1
    <3>1. /\ i \in 1 .. Len(s) + 1 + Len(r) /\ i \in 1 .. Len(s) + Len(t)
          /\ i <= Len(s) + 1 /\ ~(i <= Len(s)) /\ i - Len(s) = 1
      BY <1>1, <1>2, <2>0, <2>2
    <3>2. u[i] = h
      BY <1>3, <1>4, <2>2, <3>1
    <3>3. v[i] = t[1]
      BY <1>5, <3>1
    <3> QED BY <1>2, <3>2, <3>3
  <2>3. CASE i > Len(s) + 1
    <3> DEFINE k == i - (Len(s) + 1)
    <3>1. k \in 1 .. Len(r) /\ k + 1 = i - Len(s)
      BY <1>1, <1>2, <2>0, <2>3
    <3>2. /\ i \in 1 .. Len(s) + 1 + Len(r) /\ i \in 1 .. Len(s) + Len(t)
          /\ ~(i <= Len(s) + 1) /\ ~(i <= Len(s))
      BY <1>1, <1>2, <2>0, <2>3
    <3>3. u[i] = r[k]
      BY <1>4, <3>2
    <3>4. v[i] = t[k + 1]
      BY <1>5, <3>1, <3>2
    <3> HIDE DEF k
    <3> QED BY <1>1, <3>1, <3>3, <3>4
  <2> QED BY <1>2, <2>0, <2>1, <2>2, <2>3
<1>8. u = v
  BY <1>4, <1>5, <1>6, <1>7, SeqEqual
<1> QED BY <1>8 DEF u, v, a, h, r

LEMMA EmitExact ==
  ASSUME NEW S, NEW s \in Seq(S), NEW t \in Seq(S), NEW e \in S
  PROVE  s \o Append(t, e) = Append(s \o t, e)
<1>1. <<e>> \in Seq(S)
  OBVIOUS
<1>2. s \o t \in Seq(S)
  BY ConcatProperties
<1>3. Append(t, e) = t \o <<e>> /\ Append(s \o t, e) = (s \o t) \o <<e>>
  BY <1>2, AppendIsConcat
<1> QED BY <1>1, <1>3, ConcatAssociative

\* While a connection is subscribed, what it has brought and what is under way are
\* exactly the events of its build, in order: nothing is missed between the replay
\* and the subscription and nothing is sent twice, whatever crashes, breaks or is
\* selected meanwhile.
THEOREM ConnectionIsExact == Spec => []StreamIsExact
<1>1. Init => ExactInv
  BY InitType DEF Init, ExactInv, StreamIsExact
<1>2. ExactInv /\ TypeOK' /\ [Next]_vars => ExactInv'
  <2> SUFFICES ASSUME ExactInv, TypeOK', [Next]_vars PROVE ExactInv'
    OBVIOUS
  <2> USE DEF ExactInv
  <2>1. ASSUME NEW b \in Builds, NEW type \in EventTypes, AddBuildEvent(b, type)
        PROVE  ExactInv'
    <3> SUFFICES ASSUME subscribed'
                 PROVE  up' /\ source' = "open" /\ got' \o wire' = events'[selected']
      BY DEF StreamIsExact
    <3> DEFINE event == [id |-> made + 1, type |-> type]
    <3>1. subscribed /\ up' /\ source = "open" /\ source' = source
      BY <2>1 DEF AddBuildEvent
    <3>2. got \o wire = events[selected]
      BY <3>1 DEF StreamIsExact
    <3>3. event \in Events
      BY StreamAssumption DEF TypeOK, Events
    <3>4. /\ got' = got /\ selected' = selected
          /\ events' = [events EXCEPT ![b] = Append(@, event)]
          /\ wire' = IF selected = b THEN Append(wire, event) ELSE wire
      BY <2>1, <3>1 DEF AddBuildEvent
    <3> HIDE DEF event
    <3>5. got \o Append(wire, event) = Append(events[selected], event)
      <4>1. got \in Seq(Events) /\ wire \in Seq(Events)
        BY DEF TypeOK
      <4>2. got \o Append(wire, event) = Append(got \o wire, event)
        BY <3>3, <4>1, EmitExact
      <4> QED BY <3>2, <4>2
    <3> QED BY <3>1, <3>2, <3>4, <3>5 DEF TypeOK, Lists
  <2>2. CASE Crash
    BY <2>2 DEF Crash, StreamIsExact
  <2>3. CASE Restart
    BY <2>3 DEF Restart, browser, StreamIsExact
  <2>4. CASE Connect
    <3>1. <<>> \o events[selected] = events[selected]
      BY ConcatEmptySeq DEF TypeOK, Lists
    <3> QED BY <2>4, <3>1 DEF Connect, Answered, Replay, store, StreamIsExact
  <2>9. CASE TurnedAway
    BY <2>9 DEF TurnedAway, store, StreamIsExact
  <2>5. CASE Receive
    <3>1. got' \o wire' = got \o wire
      BY <2>5, ReceiveExact DEF Receive, TypeOK
    <3> QED BY <2>5, <3>1 DEF Receive, store, StreamIsExact
  <2>6. CASE Disconnect
    BY <2>6 DEF Disconnect, StreamIsExact
  <2>7. ASSUME NEW b \in Builds, Select(b) PROVE ExactInv'
    BY <2>7 DEF Select, StreamIsExact
  <2>8. CASE UNCHANGED vars
    BY <2>8 DEF vars, store, browser, StreamIsExact
  <2> QED BY <2>1, <2>2, <2>3, <2>4, <2>5, <2>6, <2>7, <2>8, <2>9 DEF Next
<1>3. ExactInv => StreamIsExact
  BY DEF ExactInv
<1> QED BY <1>1, <1>2, <1>3, StreamTypeCorrect, PTL DEF Spec

------------------------------------------------------------------------------
(* What the store forgets.  The bound is on more than it says: on every event *)
(* that was sent, is under way or is kept in memory and is not in the file.   *)
(* A torn file is taken for what the next good write will make it; a restart  *)
(* before that ends what is claimed.                                          *)

Kept  == UNION {Made(b) : b \in Builds}
Filed == IF file = Torn THEN Kept ELSE UNION {ToSet(file[b]) : b \in Builds}
Sent  == seen \cup ToSet(wire)

Unfiled == (Sent \cup Kept) \ Filed

LossInv ==
  known => /\ Filed \subseteq Kept
           /\ IsFiniteSet(Unfiled)
           /\ Cardinality(Unfiled) <= crashes + lostWrites

LEMMA AppendSet ==
  ASSUME NEW S, NEW s \in Seq(S), NEW e \in S
  PROVE  ToSet(Append(s, e)) = ToSet(s) \cup {e}
<1>1. /\ DOMAIN Append(s, e) = 1 .. Len(s) + 1 /\ DOMAIN s = 1 .. Len(s) /\ Len(s) \in Nat
      /\ \A i \in 1 .. Len(s) : Append(s, e)[i] = s[i]
      /\ Append(s, e)[Len(s) + 1] = e
  OBVIOUS
<1> DEFINE a == Append(s, e)
<1> HIDE DEF a
<1>2. \A i \in 1 .. Len(s) + 1 : a[i] \in ToSet(s) \cup {e}
  <2> TAKE i \in 1 .. Len(s) + 1
  <2>1. CASE i \in 1 .. Len(s)
    BY <1>1, <2>1 DEF a, ToSet
  <2>2. CASE i = Len(s) + 1
    BY <1>1, <2>2 DEF a
  <2> QED BY <1>1, <2>1, <2>2
<1>3. ToSet(a) \subseteq ToSet(s) \cup {e}
  BY <1>1, <1>2 DEF a, ToSet
<1>4. ToSet(s) \subseteq ToSet(a)
  <2> SUFFICES ASSUME NEW x \in ToSet(s) PROVE x \in ToSet(a)
    OBVIOUS
  <2>1. PICK i \in 1 .. Len(s) : x = s[i]
    BY <1>1 DEF ToSet
  <2>2. i \in 1 .. Len(s) + 1 /\ a[i] = x
    BY <1>1, <2>1 DEF a
  <2> QED BY <1>1, <2>2 DEF ToSet, a
<1>5. e \in ToSet(a)
  <2>1. Len(s) + 1 \in 1 .. Len(s) + 1 /\ a[Len(s) + 1] = e
    BY <1>1 DEF a
  <2> QED BY <1>1, <2>1 DEF ToSet, a
<1> QED BY <1>3, <1>4, <1>5 DEF a

LEMMA HeadTailSet ==
  ASSUME NEW S, NEW s \in Seq(S), s # <<>>
  PROVE  ToSet(Tail(s)) \cup {Head(s)} \subseteq ToSet(s)
<1>1. /\ Tail(s) \in Seq(S) /\ Len(Tail(s)) = Len(s) - 1
      /\ \A i \in 1 .. Len(Tail(s)) : Tail(s)[i] = s[i + 1]
  BY HeadTailProperties
<1>2. Len(s) \in Nat \ {0} /\ DOMAIN s = 1 .. Len(s) /\ Head(s) = s[1]
  BY EmptySeq
<1> DEFINE t == Tail(s)
<1>3. DOMAIN t = 1 .. Len(t)
  BY <1>1
<1> HIDE DEF t
<1>4. \A i \in DOMAIN t : i + 1 \in DOMAIN s /\ t[i] = s[i + 1]
  BY <1>1, <1>2, <1>3 DEF t
<1>5. ToSet(t) \subseteq ToSet(s)
  BY <1>4 DEF ToSet
<1>6. 1 \in DOMAIN s
  BY <1>2
<1>7. Head(s) \in ToSet(s)
  BY <1>2, <1>6 DEF ToSet
<1> QED BY <1>5, <1>7 DEF t

LEMMA NoneUnfiled == ToSet(<<>>) = {}
BY DEF ToSet

\* A set of n elements at most, after n was raised by one if one was added.
LEMMA Bounded ==
  ASSUME NEW U, IsFiniteSet(U), NEW n \in Nat, Cardinality(U) <= n,
         NEW V, NEW e, NEW m \in Nat,
         \/ V \subseteq U /\ m >= n
         \/ V \subseteq U \cup {e} /\ m = n + 1
  PROVE  IsFiniteSet(V) /\ Cardinality(V) <= m
<1>1. Cardinality(U) \in Nat
  BY FS_CardinalityType
<1>2. CASE V \subseteq U /\ m >= n
  BY <1>1, <1>2, FS_Subset, FS_CardinalityType
<1>3. CASE V \subseteq U \cup {e} /\ m = n + 1
  <2>1. /\ IsFiniteSet(U \cup {e})
        /\ Cardinality(U \cup {e}) \in {Cardinality(U), Cardinality(U) + 1}
    BY FS_AddElement
  <2>2. IsFiniteSet(V) /\ Cardinality(V) <= Cardinality(U \cup {e})
    BY <1>3, <2>1, FS_Subset
  <2>3. Cardinality(V) \in Nat
    BY <2>2, FS_CardinalityType
  <2> QED BY <1>1, <1>3, <2>1, <2>2, <2>3
<1> QED BY <1>2, <1>3

\* The same of what the file misses, and of the crashes and failed writes.
LEMMA LossBounded ==
  ASSUME TypeOK, TypeOK', LossInv, known, NEW e,
         \/ Unfiled' \subseteq Unfiled /\ crashes' + lostWrites' >= crashes + lostWrites
         \/ /\ Unfiled' \subseteq Unfiled \cup {e}
            /\ crashes' + lostWrites' = crashes + lostWrites + 1
  PROVE  IsFiniteSet(Unfiled') /\ Cardinality(Unfiled') <= crashes' + lostWrites'
<1>1. crashes + lostWrites \in Nat
  BY CounterType
<1>2. crashes' + lostWrites' \in Nat
  <2>1. crashes' \in Nat /\ lostWrites' \in Nat
    BY StreamAssumption DEF TypeOK
  <2>2. \A x, y \in Nat : x + y \in Nat
    OBVIOUS
  <2> QED BY <2>1, <2>2, Zenon
<1> DEFINE n == crashes + lostWrites
           m == crashes' + lostWrites'
           U == Unfiled
           V == Unfiled'
<1>3. IsFiniteSet(U) /\ Cardinality(U) <= n
  BY DEF LossInv
<1>4. \/ V \subseteq U /\ m >= n
      \/ V \subseteq U \cup {e} /\ m = n + 1
  OBVIOUS
<1> HIDE DEF n, m, U, V
<1>5. IsFiniteSet(V) /\ Cardinality(V) <= m
  <2>1. n \in Nat /\ m \in Nat
    BY <1>1, <1>2 DEF n, m
  <2> QED BY <1>3, <1>4, <2>1, Bounded
<1> QED BY <1>5 DEF m, V

\* A step that writes no event and no file sends only what memory holds.
LEMMA LossKept ==
  ASSUME TypeOK, TypeOK', LossInv, UNCHANGED <<events, file, known, lostWrites>>,
         crashes' >= crashes,
         seen' \cup ToSet(wire') \subseteq Sent \cup Kept
  PROVE  LossInv'
<1> SUFFICES ASSUME known' PROVE LossInv'
  BY DEF LossInv
<1>0. known
  OBVIOUS
<1>1. Kept' = Kept /\ Filed' = Filed
  BY DEF Kept, Filed, Made
<1>2. Unfiled' \subseteq Unfiled
  BY <1>1 DEF Unfiled, Sent
<1>3. crashes' + lostWrites' >= crashes + lostWrites
  <2>1. crashes' \in Nat
    BY StreamAssumption DEF TypeOK
  <2> QED BY <2>1, CounterType
<1>4. IsFiniteSet(Unfiled') /\ Cardinality(Unfiled') <= crashes' + lostWrites'
  BY <1>0, <1>2, <1>3, LossBounded
<1> QED BY <1>0, <1>1, <1>4 DEF LossInv

LEMMA EventLoss ==
  ASSUME TypeOK, TypeOK', LossInv, NEW b \in Builds, NEW type \in EventTypes,
         AddBuildEvent(b, type)
  PROVE  LossInv'
<1> DEFINE event == [id |-> made + 1, type |-> type]
<1>1. event \in Events
  BY StreamAssumption DEF TypeOK, Events
<1>2. /\ known /\ known' = known
      /\ events' = [events EXCEPT ![b] = Append(@, event)]
      /\ wire' \in {wire, Append(wire, event)}
      /\ seen' = seen
      /\ WritesOrDies(events')
  BY DEF AddBuildEvent
<1> HIDE DEF event
<1>3. Kept' = Kept \cup {event}
  <2>1. events'[b] = Append(events[b], event)
        /\ \A c \in Builds \ {b} : events'[c] = events[c]
    BY <1>2 DEF TypeOK, Lists
  <2>2. ToSet(events'[b]) = ToSet(events[b]) \cup {event}
    <3>1. events[b] \in Seq(Events)
      BY DEF TypeOK, Lists
    <3> QED BY <1>1, <2>1, <3>1, AppendSet
  <2>3. \A c \in Builds : ToSet(events'[c])
                            = IF c = b THEN ToSet(events[c]) \cup {event} ELSE ToSet(events[c])
    BY <2>1, <2>2
  <2>4. \A x : (\E c \in Builds : x \in ToSet(events'[c]))
                 <=> x = event \/ \E c \in Builds : x \in ToSet(events[c])
    BY <2>3
  <2> QED BY <2>4 DEF Kept, Made
<1>4. Sent' \subseteq Sent \cup {event}
  <2>1. wire \in Seq(Events)
    BY DEF TypeOK
  <2>2. ToSet(Append(wire, event)) = ToSet(wire) \cup {event}
    BY <1>1, <2>1, AppendSet
  <2> QED BY <1>2, <2>2 DEF Sent
<1>5. CASE /\ file' = events' \/ file' = Torn
           /\ crashes' + lostWrites' >= crashes + lostWrites
  <2>1. Filed' = Kept'
    BY <1>5, TornFileAssumption DEF Filed, Kept, Made, TypeOK
  <2>2. Unfiled' \subseteq Unfiled
    BY <1>2, <1>3, <1>4, <2>1 DEF Unfiled, LossInv
  <2> QED BY <1>2, <1>5, <2>1, <2>2, LossBounded DEF LossInv
<1>6. CASE /\ file' = file /\ file # Torn
           /\ crashes' + lostWrites' = crashes + lostWrites + 1
  <2>1. Filed' = Filed
    BY <1>6 DEF Filed
  <2>2. Unfiled' \subseteq Unfiled \cup {event}
    BY <1>3, <1>4, <2>1 DEF Unfiled
  <2>4. IsFiniteSet(Unfiled') /\ Cardinality(Unfiled') <= crashes' + lostWrites'
    BY <1>2, <1>6, <2>2, LossBounded
  <2> QED BY <1>2, <1>3, <2>1, <2>4 DEF LossInv
<1>7. /\ file' \in {events', file, Torn}
      /\ \/ file' = events' /\ UNCHANGED <<crashes, lostWrites>>
         \/ crashes' = crashes + 1 /\ lostWrites' = lostWrites
         \/ crashes' = crashes /\ lostWrites' = lostWrites + 1
  BY <1>2 DEF WritesOrDies, Persist
<1>8. /\ crashes' + lostWrites' >= crashes + lostWrites
      /\ \/ file' = events'
         \/ crashes' + lostWrites' = crashes + lostWrites + 1
  BY <1>7, CounterType
<1> QED BY <1>5, <1>6, <1>7, <1>8

\* An event is sent before it is written, so what arrived at a browser may be what
\* no restart will find.  As long as no restart has met a torn file, that is one
\* event at most for each crash and each write of the file that failed, however
\* many events were made since the last good write.
THEOREM ForgottenIsBounded == Spec => []ForgottenEvents
<1>1. Init => LossInv
  <2> SUFFICES ASSUME Init PROVE LossInv
    OBVIOUS
  <2>1. \A b \in Builds : ToSet(events[b]) = {} /\ ToSet(file[b]) = {}
    BY NoneUnfiled DEF Init, NoList
  <2>2. Kept = {} /\ Filed = {} /\ Sent = {}
    BY <2>1, NoneUnfiled DEF Init, Kept, Filed, Sent, Made
  <2>3. Unfiled = {}
    BY <2>2 DEF Unfiled
  <2>4. IsFiniteSet({}) /\ Cardinality({}) = 0
    BY FS_EmptySet
  <2> QED BY <2>2, <2>3, <2>4 DEF Init, LossInv
<1>2. TypeOK /\ TypeOK' /\ LossInv /\ [Next]_vars => LossInv'
  <2> SUFFICES ASSUME TypeOK, TypeOK', LossInv, [Next]_vars PROVE LossInv'
    OBVIOUS
  <2>0. crashes \in Nat /\ selected \in Builds
    BY DEF TypeOK
  <2>1. ASSUME NEW b \in Builds, NEW type \in EventTypes, AddBuildEvent(b, type)
        PROVE  LossInv'
    BY <2>1, EventLoss
  <2>2. CASE Crash
    BY <2>0, <2>2, LossKept DEF Crash, Sent
  <2>3. CASE Restart
    <3> SUFFICES ASSUME known' PROVE LossInv'
      BY DEF LossInv
    <3>1. known /\ file # Torn /\ events' = file /\ UNCHANGED <<file, lostWrites>>
      BY <2>3 DEF Restart, RestartFromFile, RestartFromTornFile
    <3>2. Filed' = Filed /\ Kept' = Filed /\ Sent' = Sent
      BY <2>3, <3>1 DEF Restart, browser, Filed, Kept, Made, Sent
    <3>3. Unfiled' \subseteq Unfiled
      BY <3>2 DEF Unfiled
    <3>4. crashes' + lostWrites' >= crashes + lostWrites
      BY <2>3, <3>1, CounterType DEF Restart
    <3> QED BY <3>1, <3>2, <3>3, <3>4, LossBounded DEF LossInv
  <2>4. CASE Connect
    <3>1. wire' = events[selected] /\ seen' = seen
      BY <2>4 DEF Connect, Replay
    <3>2. ToSet(events[selected]) \subseteq Kept
      BY <2>0 DEF Kept, Made
    <3> QED BY <2>0, <2>4, <3>1, <3>2, LossKept DEF Connect, store, Sent
  <2>9. CASE TurnedAway
    BY <2>0, <2>9, LossKept DEF TurnedAway, store, Sent
  <2>5. CASE Receive
    <3>1. ToSet(Tail(wire)) \cup {Head(wire)} \subseteq ToSet(wire)
      BY <2>5, HeadTailSet DEF Receive, TypeOK
    <3> QED BY <2>0, <2>5, <3>1, LossKept DEF Receive, store, Sent
  <2>6. CASE Disconnect
    BY <2>0, <2>6, LossKept, NoneUnfiled DEF Disconnect, store, Sent
  <2>7. ASSUME NEW b \in Builds, Select(b) PROVE LossInv'
    BY <2>0, <2>7, LossKept, NoneUnfiled DEF Select, store, Sent
  <2>8. CASE UNCHANGED vars
    BY <2>0, <2>8, LossKept DEF vars, store, browser, Sent
  <2> QED BY <2>1, <2>2, <2>3, <2>4, <2>5, <2>6, <2>7, <2>8, <2>9 DEF Next
<1>3. TypeOK /\ LossInv => ForgottenEvents
  <2> SUFFICES ASSUME TypeOK, LossInv, known
               PROVE  Cardinality(seen \ Kept) <= crashes + lostWrites
    BY DEF ForgottenEvents, Kept
  <2>1. seen \ Kept \subseteq Unfiled
    BY DEF Unfiled, Sent, LossInv
  <2>2. /\ Cardinality(seen \ Kept) \in Nat /\ Cardinality(Unfiled) \in Nat
        /\ Cardinality(seen \ Kept) <= Cardinality(Unfiled)
        /\ Cardinality(Unfiled) <= crashes + lostWrites
    BY <2>1, FS_Subset, FS_CardinalityType DEF LossInv
  <2>3. crashes \in Nat /\ lostWrites \in Nat
    BY DEF TypeOK
  <2> QED BY <2>2, <2>3
<1> QED BY <1>1, <1>2, <1>3, StreamTypeCorrect, PTL DEF Spec
===============================================================================
