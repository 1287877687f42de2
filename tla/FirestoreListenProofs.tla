----------------------- MODULE FirestoreListenProofs -----------------------
(***************************************************************************)
(* Theorems of FirestoreListen, for every set of documents and every value *)
(* of the bounds.                                                          *)
(***************************************************************************)
EXTENDS FirestoreListen, FiniteSetTheorems, SequenceTheorems, TLAPS

(* What keeps the timers current: after a failure the client is offline     *)
(* until a message or a stop of the stream resets both, so that a retry     *)
(* that finds it online starts its timer without a failure on record.       *)
TimersInv ==
  /\ TimersCurrent
  /\ failed => online = "Offline"

LEMMA InitTimers == Init => TimersInv
  BY DEF Init, TimersInv, TimersCurrent, IsStarted

-----------------------------------------------------------------------------
(* The blocks of the worker queue. *)
LEMMA AddKeepsTimers ==
  ASSUME TimersInv, NEW c, AddListener(c)
  PROVE  TimersInv'
  <1>1. CASE listeners # {}
    BY <1>1 DEF AddListener, JoinListeners, TimersInv, TimersCurrent, IsStarted,
                state
  <1>2. CASE listeners = {} /\ ~IsStarted
    <2>1. ~timer /\ ~idle /\ stream # "Open"
      BY <1>2 DEF TimersInv, TimersCurrent, IsStarted
    <2>2. stream' \in {"Backoff", "Starting"} /\ UNCHANGED idle /\ StreamStarts
      BY <1>2 DEF AddListener, FirstListener, Start
    <2>. QED
      BY <2>1, <2>2 DEF StreamStarts, state, TimersInv, TimersCurrent, IsStarted
  <1>3. CASE listeners = {} /\ IsStarted
    <2>1. UNCHANGED <<stream, state>> /\ IsStarted'
      BY <1>3 DEF AddListener, FirstListener, IsStarted
    <2>2. ~idle'
      BY <1>3 DEF AddListener, FirstListener, TimersInv, TimersCurrent
    <2>. QED
      BY <2>1, <2>2 DEF state, TimersInv, TimersCurrent
  <1>. QED
    BY <1>1, <1>2, <1>3

LEMMA RemoveKeepsTimers ==
  ASSUME TimersInv, NEW c, RemoveListener(c)
  PROVE  TimersInv'
  <1>1. UNCHANGED stream /\ listeners' \subseteq listeners
    BY DEF RemoveListener
  <1>2. CASE listeners = {c} /\ stream = "Open"
    BY <1>1, <1>2 DEF RemoveListener, StopListening, state, TimersInv,
                      TimersCurrent, IsStarted
  <1>3. CASE listeners = {c} /\ stream # "Open"
    BY <1>1, <1>3 DEF RemoveListener, StopListening, UpdateState, TimersInv,
                      TimersCurrent, IsStarted
  <1>4. CASE listeners # {c}
    BY <1>1, <1>4 DEF RemoveListener, state, TimersInv, TimersCurrent, IsStarted
  <1>. QED
    BY <1>2, <1>3, <1>4

-----------------------------------------------------------------------------
(* The stream, its timers, and restarts. *)
LEMMA StreamKeepsTimers ==
  ASSUME TimersInv,
         \/ StreamOpens \/ BackoffElapsed \/ StreamFails
         \/ IdleTimeout \/ OnlineTimeout \/ Relaunch
  PROVE  TimersInv'
  <1>1. CASE StreamOpens
    BY <1>1 DEF StreamOpens, views, state, TimersInv, TimersCurrent, IsStarted
  <1>2. CASE BackoffElapsed
    BY <1>2 DEF BackoffElapsed, Start, views, state, TimersInv, TimersCurrent,
                IsStarted
  <1>3. CASE StreamFails /\ listeners # {}
    BY <1>3 DEF StreamFails, RetryStream, GoOffline, TimersInv, TimersCurrent,
                IsStarted
  <1>4. CASE StreamFails /\ listeners = {}
    BY <1>4 DEF StreamFails, UpdateState, TimersInv, TimersCurrent, IsStarted
  <1>5. CASE IdleTimeout
    BY <1>5 DEF IdleTimeout, UpdateState, views, TimersInv, TimersCurrent, IsStarted
  <1>6. CASE OnlineTimeout
    BY <1>6 DEF OnlineTimeout, GoOffline, TimersInv, TimersCurrent, IsStarted
  <1>7. CASE Relaunch
    BY <1>7 DEF Relaunch, UpdateState, TimersInv, TimersCurrent, IsStarted
  <1>. QED
    BY <1>1, <1>2, <1>3, <1>4, <1>5, <1>6, <1>7

(* A message shows the client online, whatever it says. *)
LEMMA MessageKeepsTimers ==
  ASSUME TimersInv, NEW kind, Delivered(kind)
  PROVE  TimersInv'
  BY DEF Delivered, UpdateState, TimersInv, TimersCurrent, IsStarted

LEMMA MessageIsDelivered ==
  Message => \E kind \in {"added", "removed", "current", "doc", "snap"} : Delivered(kind)
  BY DEF Message, TargetAdded, TargetRemoved, TargetCurrent, DocumentChange,
         WatchSnapshot

-----------------------------------------------------------------------------
LEMMA NextTimers == TimersInv /\ [Next]_vars => TimersInv'
  <1> SUFFICES ASSUME TimersInv, [Next]_vars PROVE TimersInv'
    OBVIOUS
  <1>1. CASE WorkerBlock
    BY <1>1, AddKeepsTimers, RemoveKeepsTimers DEF WorkerBlock
  <1>2. CASE \/ StreamOpens \/ BackoffElapsed \/ StreamFails
             \/ IdleTimeout \/ OnlineTimeout \/ Relaunch
    BY <1>2, StreamKeepsTimers
  <1>3. CASE Message
    BY <1>3, MessageIsDelivered, MessageKeepsTimers
  <1>4. CASE \/ GetDocuments \/ AppEvent \/ ServerReads \/ ServerUpdate
             \/ \E d \in Docs : Write(d)
    <2>1. UNCHANGED <<listeners, state, stream, idle>>
      BY <1>4 DEF GetDocuments, AppEvent, ServerReads, ServerWatch, ServerUnwatch,
                  ServerUpdate, ServerSends, Write, views
    <2>. QED
      BY <2>1 DEF state, TimersInv, TimersCurrent, IsStarted
  <1>5. CASE UNCHANGED vars
    BY <1>5 DEF vars, views, state, TimersInv, TimersCurrent, IsStarted
  <1>. QED
    BY <1>1, <1>2, <1>3, <1>4, <1>5 DEF Next

(* The assertions of OnlineStateTracker and Stream on their timers hold in  *)
(* every state, whatever order calls, messages, failures and timers come in.*)
THEOREM TimersAreCurrent == Spec => []TimersCurrent
  <1>1. TimersInv => TimersCurrent
    BY DEF TimersInv
  <1>. QED
    BY InitTimers, NextTimers, <1>1, PTL DEF Spec
-----------------------------------------------------------------------------
(* The inductive invariant of answers. *)

Kinds    == {"added", "removed", "current", "doc", "snap"}
Messages == [kind : Kinds, doc : Docs \cup {""}, v : Versions]
Events   == [call : Calls, docs : [Docs -> Versions], cached : BOOLEAN, since : Versions]

IsAck(m)    == m.kind \in {"added", "removed"}
IsSnap(i)   == fromServer[i].kind = "snap"
IsDoc(i, d) == fromServer[i].kind = "doc" /\ fromServer[i].doc = d

TypeInv ==
  /\ TypeOK
  /\ Len(log) <= MaxVersion
  /\ events \in Seq(Events)
  /\ fromServer \in Seq(Messages)

(* The version v of document d, if it is not 0, is the server's. *)
IsVersion(d, v) == v <= Len(log) /\ (v # 0 => log[v].doc = d)

ClosedInv ==
  stream # "Open" =>
    /\ toServer = <<>> /\ fromServer = <<>> /\ watched = NotWatched
    /\ pending = 0 /\ changes = NoChanges /\ updates = NoUpdates

CountInv == TypeInv /\ ClosedInv /\ RequestsCounted

(* Version v is no older than what the client has, and than the messages    *)
(* up to j.                                                                 *)
Follows(v, j) ==
  /\ last <= v
  /\ \A d \in Docs : updates[d] <= v
  /\ \A h \in 1 .. j : fromServer[h].v <= v

(* Everything the client has or will be told is a version of the server,    *)
(* and no snapshot is older than what came before it.                       *)
ClientVersions ==
  /\ last <= Len(log) /\ since <= Len(log)
  /\ saved <= last /\ token <= last
  /\ \A d \in Docs : IsVersion(d, cache[d]) /\ cache[d] <= last
  /\ \A d \in Docs : IsVersion(d, updates[d])

MessageVersions ==
  \A i \in 1 .. Len(fromServer) :
    /\ fromServer[i].v <= Len(log)
    /\ fromServer[i].kind = "doc" =>
         fromServer[i].doc \in Docs /\ IsVersion(fromServer[i].doc, fromServer[i].v)
    /\ IsSnap(i) => Follows(fromServer[i].v, i)

WatchedVersion ==
  watched # NotWatched => watched <= Len(log) /\ Follows(watched, Len(fromServer))

VersionsInv == ClientVersions /\ MessageVersions /\ WatchedVersion

(* What the client holds of document d is what it had at version r at       *)
(* least, and the target holds d if it has not changed since and exists.    *)
Holds(d, r) ==
  LET v == VersionAt(d, Len(log))
  IN  /\ VersionAt(d, r) <= cache[d]
      /\ v <= r /\ Exists(v) => d \in keys

BaseInv == \A d \in Docs : Holds(d, saved) /\ Holds(d, token)

(* Message i follows the last confirmation of a request. *)
Fresh(i) == \A k \in i .. Len(fromServer) : ~IsAck(fromServer[k])

(* Before message j, the client has been told, or has, document d as it was *)
(* at version v.                                                            *)
Told(d, j, v) ==
  \E i \in 1 .. j - 1 :
    /\ Fresh(i) /\ IsDoc(i, d)
    /\ \A k \in i .. j - 1 : IsDoc(k, d) => fromServer[k].v = VersionAt(d, v)

Collected(d, v) ==
  /\ cache[d] = VersionAt(d, v) \/ (pending = 0 /\ updates[d] = VersionAt(d, v))
  /\ Exists(VersionAt(d, v)) =>
       IF pending = 0 /\ changes[d] # "none" THEN changes[d] = "add" ELSE d \in keys

Untold(d, j) == \A i \in 1 .. j - 1 : Fresh(i) => ~IsDoc(i, d)

Has(d, j, v) == Untold(d, j) /\ Collected(d, v)

Reached(j, v) == \A d \in Docs : Told(d, j, v) \/ Has(d, j, v)

(* Message j is a snapshot of version v for the last request, or the next   *)
(* one will follow on v.                                                    *)
Due(j, v) ==
  \/ j <= Len(fromServer) /\ IsSnap(j) /\ Fresh(j) /\ v = fromServer[j].v
  \/ j = Len(fromServer) + 1 /\ v = watched

(* A client that listens, and whose last request has been read, is told     *)
(* whole states of the server; before that, the request says what it has.   *)
StreamInv ==
  stream = "Open" /\ listeners # {} =>
    IF toServer # <<>> THEN toServer[Len(toServer)] = token
    ELSE \A j \in 1 .. Len(fromServer) + 1, v \in Versions :
           Due(j, v) => since <= v /\ Reached(j, v)

(* A view that is current shows the state the target can be resumed from.   *)
CurrentInv ==
  current =>
    /\ listeners # {}
    /\ since <= token
    /\ \A d \in Docs : cache[d] = VersionAt(d, token)
    /\ NothingInLimbo
    /\ pending > 0 => updates = NoUpdates

AnswersInv ==
  /\ CountInv
  /\ VersionsInv /\ BaseInv /\ StreamInv /\ CurrentInv /\ WholeAnswers


-----------------------------------------------------------------------------
(* The server's log. *)

LEMMA VersionsAreNat == Versions \subseteq Nat
  BY ListenAssumption DEF Versions

(* The greatest element of a set of positions, 0 for none. *)
LastOf(of) == IF of = {} THEN 0 ELSE CHOOSE i \in of : \A j \in of : j <= i

LEMMA LastOfIsLast ==
  ASSUME NEW n \in Nat, NEW of \in SUBSET (1 .. n)
  PROVE  /\ LastOf(of) \in 0 .. n
         /\ LastOf(of) # 0 => LastOf(of) \in of
         /\ \A j \in of : j <= LastOf(of)
  <1> DEFINE max == CHOOSE i \in of : \A j \in of : j <= i
  <1>1. LastOf(of) = IF of = {} THEN 0 ELSE max
    BY Zenon DEF LastOf
  <1>2. CASE of = {}
    BY <1>1, <1>2
  <1>3. CASE of # {}
    <2> DEFINE back == {n - i : i \in of}
    <2>1. back \subseteq Nat /\ back # {}
      BY <1>3
    <2>2. PICK m \in back : \A k \in back : ~(<<k, m>> \in OpToRel(<, Nat))
      BY <2>1, NatLessThanWellFounded, WFMin, Zenon
    <2>3. \A k \in back : m <= k
      <3>1. \A k \in back : ~(k < m)
        BY <2>1, <2>2, Zenon DEF OpToRel
      <3>. HIDE DEF back
      <3>. QED
        BY <2>1, <3>1
    <2>4. n - m \in of /\ \A j \in of : j <= n - m
      <3>1. PICK i \in of : m = n - i
        OBVIOUS
      <3>2. n - m \in of
        BY <3>1
      <3>3. ASSUME NEW j \in of  PROVE j <= n - m
        <4>1. m <= n - j
          <5>1. n - j \in back
            OBVIOUS
          <5>. HIDE DEF back
          <5>. QED
            BY <2>3, <5>1
        <4>2. i \in Int /\ j \in Int /\ n \in Int
          OBVIOUS
        <4>. QED
          BY <3>1, <4>1, <4>2
      <3>. QED
        BY <3>2, <3>3
    <2>5. max \in of /\ \A j \in of : j <= max
      BY <2>4, Zenon
    <2>. HIDE DEF max
    <2>. QED
      BY <1>1, <1>3, <2>5
  <1>. QED
    BY <1>2, <1>3

(* VersionAt is the last of the first n entries that is about d. *)
LEMMA VersionAtIsLast ==
  ASSUME NEW d, NEW n \in Nat
  PROVE  /\ VersionAt(d, n) \in 0 .. n
         /\ VersionAt(d, n) # 0 => log[VersionAt(d, n)].doc = d
         /\ \A i \in 1 .. n : log[i].doc = d => i <= VersionAt(d, n)
  <1> DEFINE of == {i \in 1 .. n : log[i].doc = d}
  <1>1. VersionAt(d, n) = LastOf(of)
    BY Zenon DEF VersionAt, LastOf
  <1>2. of \in SUBSET (1 .. n)
    OBVIOUS
  <1>3. /\ LastOf(of) \in 0 .. n
        /\ LastOf(of) # 0 => LastOf(of) \in of
        /\ \A j \in of : j <= LastOf(of)
    BY <1>2, LastOfIsLast
  <1>. QED
    BY <1>1, <1>3

(* It rises with n, and stays where there are no new entries. *)
LEMMA VersionAtRises ==
  ASSUME NEW d, NEW m \in Nat, NEW n \in Nat, m <= n
  PROVE  /\ VersionAt(d, m) <= VersionAt(d, n)
         /\ VersionAt(d, n) <= m => VersionAt(d, n) = VersionAt(d, m)
  <1>1. /\ VersionAt(d, m) \in 0 .. m /\ VersionAt(d, n) \in 0 .. n
        /\ VersionAt(d, m) # 0 => log[VersionAt(d, m)].doc = d
        /\ VersionAt(d, n) # 0 => log[VersionAt(d, n)].doc = d
    BY VersionAtIsLast
  <1>2. VersionAt(d, m) # 0 => VersionAt(d, m) <= VersionAt(d, n)
    BY <1>1, VersionAtIsLast
  <1>3. VersionAt(d, n) # 0 /\ VersionAt(d, n) <= m => VersionAt(d, n) <= VersionAt(d, m)
    BY <1>1, VersionAtIsLast
  <1>. QED
    BY <1>1, <1>2, <1>3

(* A version of d is none that comes after the last one. *)
LEMMA VersionIsOld ==
  ASSUME NEW d, NEW v \in Nat, NEW n \in Nat, v <= n, IsVersion(d, v)
  PROVE  v <= VersionAt(d, n)
  BY VersionAtIsLast DEF IsVersion

(* What the server had does not change with a new entry. *)
LEMMA LogGrows ==
  ASSUME NEW S, log \in Seq(S), NEW e \in S, log' = Append(log, e)
  PROVE  /\ Len(log') = Len(log) + 1
         /\ \A v \in 0 .. Len(log) :
              /\ Exists(v)' = Exists(v)
              /\ \A d : IsVersion(d, v) => IsVersion(d, v)'
              /\ \A d : VersionAt(d, v)' = VersionAt(d, v)
  <1>1. /\ Len(log') = Len(log) + 1 /\ log'[Len(log) + 1] = e /\ Len(log) \in Nat
        /\ \A i \in 1 .. Len(log) : log'[i] = log[i]
    OBVIOUS
  <1>2. ASSUME NEW v \in 0 .. Len(log)
        PROVE  Exists(v)' = Exists(v)
    BY <1>1 DEF Exists
  <1>3. ASSUME NEW v \in 0 .. Len(log), NEW d, IsVersion(d, v)
        PROVE  IsVersion(d, v)'
    BY <1>1, <1>3 DEF IsVersion
  <1>4. ASSUME NEW v \in 0 .. Len(log), NEW d
        PROVE  VersionAt(d, v)' = VersionAt(d, v)
    <2>1. /\ VersionAt(d, v) = LastOf({i \in 1 .. v : log[i].doc = d})
          /\ VersionAt(d, v)' = LastOf({i \in 1 .. v : log'[i].doc = d})
      BY Zenon DEF VersionAt, LastOf
    <2>2. {i \in 1 .. v : log'[i].doc = d} = {i \in 1 .. v : log[i].doc = d}
      BY <1>1
    <2>. QED
      BY <2>1, <2>2
  <1>. QED
    BY <1>1, <1>2, <1>3, <1>4

(* The new entry is its document's last version, the others keep theirs.   *)
LEMMA LatestVersions ==
  ASSUME NEW S, log \in Seq(S), NEW e \in S, log' = Append(log, e),
         NEW n, n = Len(log), NEW d
  PROVE  VersionAt(d, n + 1)' = IF e.doc = d THEN n + 1 ELSE VersionAt(d, n)
  <1>1. /\ n \in Nat /\ log'[n + 1] = e
        /\ \A i \in 1 .. n : log'[i] = log[i]
    OBVIOUS
  <1> DEFINE of == {i \in 1 .. n + 1 : log'[i].doc = d}
  <1>2. VersionAt(d, n) = LastOf({i \in 1 .. n : log[i].doc = d})
    BY Zenon DEF VersionAt, LastOf
  <1>3. VersionAt(d, n + 1)' = LastOf(of)
    BY Zenon DEF VersionAt, LastOf
  <1>4. CASE e.doc # d
    <2>1. of = {i \in 1 .. n : log[i].doc = d}
      BY <1>1, <1>4
    <2>. QED
      BY <1>2, <1>3, <1>4, <2>1
  <1>5. CASE e.doc = d
    <2>1. n + 1 \in of /\ of \in SUBSET (1 .. n + 1) /\ n + 1 \in Nat
      BY <1>1, <1>5
    <2>2. LastOf(of) \in 0 .. n + 1 /\ n + 1 <= LastOf(of)
      BY <2>1, LastOfIsLast
    <2>3. LastOf(of) = n + 1
      <3>. HIDE DEF of
      <3>. QED
        BY <1>1, <2>2
    <2>. QED
      BY <1>3, <1>5, <2>3
  <1>. QED
    BY <1>4, <1>5

-----------------------------------------------------------------------------
(* Sequences of messages and of events. *)

(* A finite set as a sequence has the elements of the set. *)
LEMMA Enumerated ==
  ASSUME NEW S, IsFiniteSet(S)
  PROVE  /\ SetToSeq(S) \in Seq(S)
         /\ \A x \in S : \E i \in 1 .. Len(SetToSeq(S)) : SetToSeq(S)[i] = x
  <1> DEFINE n == Cardinality(S)
  <1>1. n \in Nat /\ ExistsBijection(1 .. n, S)
    BY FS_CardinalityType
  <1>2. PICK b \in [1 .. n -> S] : IsInjective(b)
    BY <1>1 DEF ExistsBijection, Bijection, Injection
  <1>3. SetToSeq(S) \in [1 .. n -> S] /\ IsInjective(SetToSeq(S))
    BY <1>2, Zenon DEF SetToSeq
  <1>4. SetToSeq(S) \in Injection(1 .. n, S)
    BY <1>3 DEF Injection
  <1>5. Cardinality(1 .. n) = n
    BY <1>1, FS_Interval
  <1>6. SetToSeq(S) \in Surjection(1 .. n, S)
    BY <1>4, <1>5, FS_Injection
  <1>7. SetToSeq(S) \in Seq(S) /\ Len(SetToSeq(S)) = n
    BY <1>1, <1>3
  <1>. QED
    BY <1>6, <1>7 DEF Surjection

(* The messages for the documents changed after version r. *)
Changed(r, n) == {Change(d, VersionAt(d, n)) : d \in {e \in Docs : VersionAt(e, n) > r}}

LEMMA ChangesAre ==
  ASSUME NEW r, NEW n
  PROVE  /\ ChangesSince(r, n) \in Seq(Changed(r, n))
         /\ \A x \in Changed(r, n) :
              \E i \in 1 .. Len(ChangesSince(r, n)) : ChangesSince(r, n)[i] = x
  <1> DEFINE changed == {e \in Docs : VersionAt(e, n) > r}
  <1>1. IsFiniteSet(changed)
    BY ListenAssumption, FS_Subset
  <1>2. IsFiniteSet({Change(d, VersionAt(d, n)) : d \in changed})
    <2> DEFINE T == {Change(d, VersionAt(d, n)) : d \in changed}
               f == [d \in changed |-> Change(d, VersionAt(d, n))]
    <2>1. f \in Surjection(changed, T)
      <3>1. f \in [changed -> T] /\ \A t \in T : \E d \in changed : f[d] = t
        <4>. HIDE DEF changed
        <4>. QED
          OBVIOUS
      <3>. HIDE DEF f, T, changed
      <3>. QED
        BY <3>1 DEF Surjection
    <2>. HIDE DEF f, T, changed
    <2>2. IsFiniteSet(T)
      BY <1>1, <2>1, FS_Surjection
    <2>. QED
      BY <2>2 DEF T
  <1>3. ChangesSince(r, n) = SetToSeq(Changed(r, n)) /\ IsFiniteSet(Changed(r, n))
    BY <1>2 DEF ChangesSince, Changed
  <1>. QED
    BY <1>3, Enumerated

LEMMA CallsAreFinite ==
  ASSUME NEW calls \in SUBSET Calls
  PROVE  IsFiniteSet(calls) /\ calls \subseteq Nat
  <1>1. IsFiniteSet(1 .. LastCall)
    BY ListenAssumption, FS_Interval
  <1>2. IsFiniteSet(calls)
    BY <1>1, FS_Subset DEF Calls
  <1>3. calls \subseteq Nat
    BY ListenAssumption DEF Calls
  <1>. QED
    BY <1>2, <1>3

(* Every listener of a set is told once. *)
LEMMA NthIsOne ==
  ASSUME NEW calls \in SUBSET Calls, NEW i \in 1 .. Cardinality(calls)
  PROVE  Nth(i, calls) \in calls
  <1> DEFINE upTo(c) == {b \in calls : b <= c}
             n == Cardinality(calls)
             rank == [c \in calls |-> Cardinality(upTo(c))]
  <1>1. IsFiniteSet(calls) /\ n \in Nat /\ calls \subseteq Nat
    BY CallsAreFinite, FS_CardinalityType
  <1>2. ASSUME NEW c \in calls
        PROVE  Cardinality(upTo(c)) \in 1 .. n
    <2>1. IsFiniteSet(upTo(c)) /\ Cardinality(upTo(c)) <= n
      BY <1>1, FS_Subset
    <2>2. c \in upTo(c) /\ Cardinality(upTo(c)) \in Nat
      BY <1>1, <2>1, FS_CardinalityType
    <2>3. Cardinality(upTo(c)) # 0
      BY <2>1, <2>2, FS_EmptySet
    <2>. HIDE DEF upTo, n
    <2>. QED
      BY <1>1, <2>1, <2>2, <2>3
  <1>3. ASSUME NEW c \in calls, NEW e \in calls, c < e
        PROVE  rank[c] # rank[e]
    <2>1. c \in Nat /\ e \in Nat
      BY <1>1
    <2>3. upTo(c) \subseteq upTo(e) /\ e \in upTo(e) /\ e \notin upTo(c)
      <3>1. ASSUME NEW b \in calls, b <= c PROVE b <= e
        <4>1. b \in Nat
          BY <1>1
        <4>. QED
          BY <1>3, <2>1, <3>1, <4>1
      <3>2. e <= e /\ ~(e <= c)
        BY <1>3, <2>1
      <3>. QED
        BY <3>1, <3>2
    <2>2. IsFiniteSet(upTo(e))
      BY <1>1, FS_Subset
    <2>. QED
      BY <2>2, <2>3, FS_Subset
  <1>4. rank \in Injection(calls, 1 .. n)
    <2>1. rank \in [calls -> 1 .. n]
      BY <1>2
    <2>2. ASSUME NEW c \in calls, NEW e \in calls, rank[c] = rank[e]
          PROVE  c = e
      <3>1. c \in Nat /\ e \in Nat
        BY <1>1
      <3>. HIDE DEF rank
      <3>. QED
        BY <1>3, <2>2, <3>1
    <2>. HIDE DEF rank, n
    <2>. QED
      BY <2>1, <2>2 DEF Injection, IsInjective
  <1>5. IsFiniteSet(1 .. n) /\ Cardinality(1 .. n) = n
    BY <1>1, FS_Interval
  <1>6. rank \in Surjection(calls, 1 .. n)
    BY <1>4, <1>5, FS_Injection
  <1>7. PICK c \in calls : rank[c] = i
    BY <1>6 DEF Surjection
  <1>8. \E k \in calls : Cardinality({b \in calls : b <= k}) = i
    BY <1>7
  <1>. QED
    BY <1>8, Zenon DEF Nth

LEMMA PostedAre ==
  ASSUME NEW calls \in SUBSET Calls, NEW docs, NEW cached
  PROVE  Posted(calls, docs, cached)
           \in Seq([call : Calls, docs : {docs}, cached : {cached}, since : {since}])
  <1> DEFINE S == [call : Calls, docs : {docs}, cached : {cached}, since : {since}]
             n == Cardinality(calls)
  <1>1. n \in Nat
    BY CallsAreFinite, FS_CardinalityType
  <1>2. \A i \in 1 .. n : Nth(i, calls) \in Calls
    BY NthIsOne
  <1>3. \A i \in 1 .. n : Event(Nth(i, calls), docs, cached, since) \in S
    BY <1>2 DEF Event
  <1>. HIDE DEF S, n
  <1>4. [i \in 1 .. n |-> Event(Nth(i, calls), docs, cached, since)] \in Seq(S)
    BY <1>1, <1>3
  <1>. QED
    BY <1>4 DEF Posted, S, n

(* Elements of a sequence that was added to. *)
LEMMA Appended ==
  ASSUME NEW S, NEW s \in Seq(S), NEW T, NEW t \in Seq(T)
  PROVE  /\ s \o t \in Seq(S \cup T)
         /\ Len(s \o t) = Len(s) + Len(t) /\ Len(s) \in Nat /\ Len(t) \in Nat
         /\ \A i \in 1 .. Len(s) : (s \o t)[i] = s[i]
         /\ \A i \in 1 .. Len(t) : (s \o t)[Len(s) + i] = t[i]
         /\ \A i \in 1 .. Len(s \o t) :
              i <= Len(s) \/ (i - Len(s) \in 1 .. Len(t) /\ (s \o t)[i] = t[i - Len(s)])
  OBVIOUS

EventsAfter(calls, docs, cached) == events \o Posted(calls, docs, cached)

LEMMA EventsTold ==
  ASSUME events \in Seq(Events), since \in Versions, NEW calls \in SUBSET Calls,
         NEW docs \in [Docs -> Versions], NEW cached \in BOOLEAN
  PROVE  /\ EventsAfter(calls, docs, cached) \in Seq(Events)
         /\ \A i \in 1 .. Len(EventsAfter(calls, docs, cached)) :
              LET e == EventsAfter(calls, docs, cached)[i]
              IN  \/ i \in 1 .. Len(events) /\ e = events[i]
                  \/ e.docs = docs /\ e.cached = cached /\ e.since = since
  <1> DEFINE told == EventsAfter(calls, docs, cached)
             S == [call : Calls, docs : {docs}, cached : {cached}, since : {since}]
             p == Posted(calls, docs, cached)
  <1>1. p \in Seq(S)
    BY PostedAre
  <1>2. S \subseteq Events
    BY DEF Events
  <1>3. \A e \in S : e.docs = docs /\ e.cached = cached /\ e.since = since
    OBVIOUS
  <1>7. told = events \o p
    BY DEF EventsAfter
  <1>. HIDE DEF S, p, told
  <1>4. p \in Seq(Events)
    BY <1>1, <1>2, SeqMonotonic
  <1>5. told \in Seq(Events) /\ told = events \o p
    BY <1>4, <1>7, ConcatProperties
  <1>6. ASSUME NEW i \in 1 .. Len(told)
        PROVE  \/ i \in 1 .. Len(events) /\ told[i] = events[i]
               \/ told[i] \in S
    <2>1. \/ i <= Len(events)
          \/ i - Len(events) \in 1 .. Len(p) /\ told[i] = p[i - Len(events)]
      BY <1>1, <1>5, <1>6, Appended
    <2>2. i <= Len(events) => i \in 1 .. Len(events) /\ told[i] = events[i]
      BY <1>1, <1>5, Appended
    <2>. QED
      BY <1>1, <2>1, <2>2, ElementOfSeq
  <1>. QED
    BY <1>3, <1>5, <1>6 DEF told

-----------------------------------------------------------------------------
(* What the server confirms. *)

LEMMA AcksCounted ==
  ASSUME fromServer \in Seq(Messages)
  PROVE  /\ Acks \in Nat
         /\ fromServer = <<>> => Acks = 0
  <1> DEFINE A == {i \in 1 .. Len(fromServer) : fromServer[i].kind \in {"added", "removed"}}
  <1>1. IsFiniteSet(1 .. Len(fromServer))
    BY FS_Interval
  <1>2. IsFiniteSet(A)
    BY <1>1, FS_Subset
  <1>3. Cardinality(A) \in Nat
    BY <1>2, FS_CardinalityType
  <1>4. fromServer = <<>> => A = {}
    OBVIOUS
  <1>. HIDE DEF A
  <1>5. fromServer = <<>> => Cardinality(A) = 0
    BY <1>4, FS_EmptySet
  <1>. QED
    BY <1>3, <1>5 DEF Acks, A

LEMMA AckTaken ==
  ASSUME fromServer \in Seq(Messages), fromServer # <<>>, fromServer' = Tail(fromServer)
  PROVE  Acks' = IF IsAck(Head(fromServer)) THEN Acks - 1 ELSE Acks
  <1> DEFINE n == Len(fromServer)
             A == {i \in 1 .. n : fromServer[i].kind \in {"added", "removed"}}
             B == {i \in 1 .. n - 1 : fromServer[i + 1].kind \in {"added", "removed"}}
             f == [i \in B |-> i + 1]
  <1>1. /\ n \in Nat \ {0} /\ Head(fromServer) = fromServer[1]
        /\ fromServer' \in Seq(Messages) /\ Len(fromServer') = n - 1
        /\ \A i \in 1 .. n - 1 : fromServer'[i] = fromServer[i + 1]
    OBVIOUS
  <1>2. Acks' = Cardinality(B)
    <2>1. {i \in 1 .. Len(fromServer') : fromServer'[i].kind \in {"added", "removed"}} = B
      BY <1>1
    <2>. QED
      BY <2>1 DEF Acks
  <1>3. IsFiniteSet(A) /\ IsFiniteSet(B)
    <2>1. IsFiniteSet(1 .. n) /\ IsFiniteSet(1 .. n - 1)
      BY <1>1, FS_Interval
    <2>. QED
      BY <2>1, FS_Subset
  <1>4. f \in Bijection(B, A \ {1})
    <2>1. f \in [B -> A \ {1}] /\ \A i, j \in B : f[i] = f[j] => i = j
      BY <1>1
    <2>2. \A a \in A \ {1} : a - 1 \in B /\ f[a - 1] = a
      BY <1>1
    <2>. HIDE DEF A, B, f
    <2>. QED
      BY <2>1, <2>2 DEF Bijection, Injection, Surjection, IsInjective
  <1>5. Cardinality(B) = Cardinality(A \ {1})
    <2>1. ExistsBijection(B, A \ {1})
      BY <1>4 DEF ExistsBijection
    <2>. QED
      BY <1>3, <2>1, FS_Bijection
  <1>6. Cardinality(A \ {1}) = IF 1 \in A THEN Cardinality(A) - 1 ELSE Cardinality(A)
    BY <1>3, FS_RemoveElement
  <1>7. 1 \in A <=> IsAck(Head(fromServer))
    BY <1>1 DEF IsAck
  <1>8. Acks = Cardinality(A)
    BY DEF Acks
  <1>. QED
    BY <1>2, <1>5, <1>6, <1>7, <1>8

LEMMA AcksSent ==
  ASSUME fromServer \in Seq(Messages), NEW ms \in Seq(Messages),
         fromServer' = fromServer \o ms,
         \A i \in 2 .. Len(ms) : ~IsAck(ms[i])
  PROVE  Acks' = IF ms # <<>> /\ IsAck(ms[1]) THEN Acks + 1 ELSE Acks
  <1> DEFINE n == Len(fromServer)
             A == {i \in 1 .. n : fromServer[i].kind \in {"added", "removed"}}
             B == {i \in 1 .. Len(fromServer') : fromServer'[i].kind \in {"added", "removed"}}
  <1>1. /\ n \in Nat /\ Len(ms) \in Nat /\ Len(fromServer') = n + Len(ms)
        /\ \A i \in 1 .. n : fromServer'[i] = fromServer[i]
        /\ \A i \in 1 .. Len(ms) : fromServer'[n + i] = ms[i]
    BY Appended
  <1>2. IsFiniteSet(A)
    <2>1. IsFiniteSet(1 .. n)
      BY <1>1, FS_Interval
    <2>. QED
      BY <2>1, FS_Subset
  <1>3. Acks = Cardinality(A) /\ Acks' = Cardinality(B)
    BY DEF Acks
  <1>4. ASSUME NEW i \in n + 1 .. Len(fromServer')
        PROVE  IsAck(fromServer'[i]) <=> i = n + 1 /\ IsAck(ms[1])
    <2>1. i - n \in 1 .. Len(ms) /\ fromServer'[i] = ms[i - n]
      BY <1>1
    <2>. QED
      BY <1>1, <2>1
  <1>5. CASE ms # <<>> /\ IsAck(ms[1])
    <2>1. Len(ms) >= 1 /\ fromServer'[n + 1] = ms[1]
      BY <1>1, <1>5
    <2>2. B = A \cup {n + 1}
      BY <1>1, <1>4, <1>5, <2>1 DEF IsAck
    <2>3. n + 1 \notin A
      BY <1>1
    <2>. QED
      BY <1>2, <1>3, <1>5, <2>2, <2>3, FS_AddElement
  <1>6. CASE ~(ms # <<>> /\ IsAck(ms[1]))
    <2>1. B = A
      BY <1>1, <1>4, <1>6 DEF IsAck
    <2>. QED
      BY <1>3, <1>6, <2>1
  <1>. QED
    BY <1>5, <1>6

-----------------------------------------------------------------------------
(* What the server sends. *)

LEMMA ChangesSent ==
  ASSUME TypeInv, NEW r, NEW n \in 0 .. Len(log)
  PROVE  /\ ChangesSince(r, n) \in Seq(Messages)
         /\ \A i \in 1 .. Len(ChangesSince(r, n)) :
              LET m == ChangesSince(r, n)[i]
              IN  /\ m.kind = "doc" /\ m.doc \in Docs
                  /\ m.v = VersionAt(m.doc, n) /\ m.v > r
         /\ \A d \in Docs : VersionAt(d, n) > r =>
              \E i \in 1 .. Len(ChangesSince(r, n)) : ChangesSince(r, n)[i].doc = d
  <1> DEFINE S == Changed(r, n)
             s == ChangesSince(r, n)
  <1>1. s \in Seq(S) /\ \A x \in S : \E i \in 1 .. Len(s) : s[i] = x
    BY ChangesAre
  <1>2. \A d \in Docs : VersionAt(d, n) \in Versions
    BY VersionAtIsLast, ListenAssumption DEF TypeInv, Versions
  <1>3. S \subseteq Messages
    <2>1. ASSUME NEW d \in Docs PROVE Change(d, VersionAt(d, n)) \in Messages
      <3>1. ASSUME NEW v \in Versions PROVE Change(d, v) \in Messages
        BY DEF Change, Messages, Kinds
      <3>. QED
        BY <1>2, <3>1
    <2>. QED
      BY <2>1 DEF Changed
  <1>4. \A x \in S : /\ x.kind = "doc" /\ x.doc \in Docs
                     /\ x.v = VersionAt(x.doc, n) /\ x.v > r
    BY DEF Change, Changed
  <1>5. ASSUME NEW d \in Docs, VersionAt(d, n) > r
        PROVE  \E x \in S : x.doc = d
    <2>1. Change(d, VersionAt(d, n)) \in S
      BY <1>5 DEF Changed
    <2>2. Change(d, VersionAt(d, n)).doc = d
      BY DEF Change
    <2>. QED
      BY <2>1, <2>2, Zenon
  <1>. HIDE DEF S, s
  <1>6. s \in Seq(Messages)
    BY <1>1, <1>3, SeqMonotonic
  <1>7. \A i \in 1 .. Len(s) : s[i] \in S
    BY <1>1
  <1>8. \A d \in Docs : VersionAt(d, n) > r => \E i \in 1 .. Len(s) : s[i].doc = d
    BY <1>1, <1>5
  <1>. QED
    BY <1>4, <1>6, <1>7, <1>8 DEF s

(* The answer to a request: what it is for, the changes, the snapshot.     *)
Answer(r, n) == <<Added>> \o ChangesSince(r, n) \o <<Current, Snap(n)>>

LEMMA AnswerSent ==
  ASSUME TypeInv, NEW r, NEW n \in 0 .. Len(log), NEW c, c = ChangesSince(r, n),
         NEW s, s = Answer(r, n)
  PROVE  /\ s \in Seq(Messages) /\ Len(c) \in Nat /\ Len(s) = Len(c) + 3
         /\ s[1] = Added /\ s[Len(c) + 2] = Current /\ s[Len(c) + 3] = Snap(n)
         /\ \A i \in 1 .. Len(c) : s[i + 1] = c[i]
         /\ \A i \in 2 .. Len(s) : ~IsAck(s[i])
  <1>1. c \in Seq(Messages) /\ \A i \in 1 .. Len(c) : c[i].kind = "doc"
    BY ChangesSent
  <1>2. n \in Versions
    BY ListenAssumption DEF TypeInv, Versions
  <1>3. /\ <<Added>> \in Seq(Messages) /\ Len(<<Added>>) = 1 /\ <<Added>>[1] = Added
        /\ <<Current, Snap(n)>> \in Seq(Messages) /\ Len(<<Current, Snap(n)>>) = 2
        /\ <<Current, Snap(n)>>[1] = Current /\ <<Current, Snap(n)>>[2] = Snap(n)
    <2>1. Added \in Messages /\ Current \in Messages /\ Snap(n) \in Messages
      BY <1>2, ListenAssumption DEF Added, Current, Snap, Messages, Kinds, Versions
    <2>. QED
      BY <2>1
  <1> DEFINE a == <<Added>>  z == <<Current, Snap(n)>>  b == a \o c
  <1>. HIDE DEF a, z
  <1>4. /\ b \in Seq(Messages) /\ Len(b) = Len(c) + 1 /\ Len(c) \in Nat
        /\ b[1] = Added /\ \A i \in 1 .. Len(c) : b[i + 1] = c[i]
    BY <1>1, <1>3 DEF a
  <1>9. s = b \o z
    BY DEF Answer, a, z
  <1>. HIDE DEF b
  <1>5. /\ s \in Seq(Messages) /\ Len(s) = Len(c) + 3
        /\ \A i \in 1 .. Len(c) + 1 : s[i] = b[i]
        /\ s[Len(c) + 2] = Current /\ s[Len(c) + 3] = Snap(n)
    <2>1. z \in Seq(Messages) /\ Len(z) = 2 /\ z[1] = Current /\ z[2] = Snap(n)
      BY <1>3 DEF z
    <2>2. /\ s \in Seq(Messages) /\ Len(s) = Len(b) + Len(z)
          /\ \A i \in 1 .. Len(b) + Len(z) :
               s[i] = IF i <= Len(b) THEN b[i] ELSE z[i - Len(b)]
      <3>1. s = b \o z
        BY <1>9
      <3>2. b \in Seq(Messages)
        BY <1>4
      <3>3. z \in Seq(Messages)
        BY <2>1
      <3>4. /\ b \o z \in Seq(Messages) /\ Len(b \o z) = Len(b) + Len(z)
            /\ \A i \in 1 .. Len(b) + Len(z) :
               (b \o z)[i] = IF i <= Len(b) THEN b[i] ELSE z[i - Len(b)]
        BY <3>2, <3>3, ConcatProperties
      <3>. QED
        BY <3>1, <3>4
    <2>3. \A i \in 1 .. Len(c) + 3 : s[i] = IF i <= Len(c) + 1 THEN b[i] ELSE z[i - (Len(c) + 1)]
      BY <1>4, <2>1, <2>2
    <2>4. /\ (Len(c) + 2) - (Len(c) + 1) = 1 /\ (Len(c) + 3) - (Len(c) + 1) = 2
          /\ Len(c) + 2 \in 1 .. Len(c) + 3 /\ Len(c) + 3 \in 1 .. Len(c) + 3
          /\ ~(Len(c) + 2 <= Len(c) + 1) /\ ~(Len(c) + 3 <= Len(c) + 1)
      BY <1>4
    <2>5. s[Len(c) + 2] = Current
      BY <2>1, <2>3, <2>4
    <2>6. s[Len(c) + 3] = Snap(n)
      BY <2>1, <2>3, <2>4
    <2>7. Len(s) = Len(c) + 3 /\ \A i \in 1 .. Len(c) + 1 : s[i] = b[i]
      BY <1>4, <2>1, <2>2, <2>3
    <2>. QED
      BY <2>2, <2>5, <2>6, <2>7
  <1>6. s[1] = Added /\ \A i \in 1 .. Len(c) : s[i + 1] = c[i]
    BY <1>4, <1>5
  <1>8. ~IsAck(Current) /\ ~IsAck(Snap(n))
    BY DEF IsAck, Current, Snap
  <1>7. ASSUME NEW i \in 2 .. Len(s)
        PROVE  ~IsAck(s[i])
    <2>1. CASE i <= Len(c) + 1
      <3>1. i - 1 \in 1 .. Len(c) /\ s[i] = c[i - 1]
        BY <1>4, <1>6, <2>1
      <3>. QED
        BY <1>1, <3>1 DEF IsAck
    <2>2. CASE i > Len(c) + 1
      <3>1. i = Len(c) + 2 \/ i = Len(c) + 3
        BY <1>4, <1>5, <2>2
      <3>. QED
        BY <1>5, <1>8, <3>1
    <2>. QED
      BY <1>4, <2>1, <2>2
  <1>. QED
    BY <1>4, <1>5, <1>6, <1>7

Refresh(r, n) == ChangesSince(r, n) \o <<Snap(n)>>

LEMMA RefreshSent ==
  ASSUME TypeInv, NEW r, NEW n \in 0 .. Len(log), NEW c, c = ChangesSince(r, n),
         NEW s, s = Refresh(r, n)
  PROVE  /\ s \in Seq(Messages) /\ Len(c) \in Nat /\ Len(s) = Len(c) + 1
         /\ s[Len(c) + 1] = Snap(n)
         /\ \A i \in 1 .. Len(c) : s[i] = c[i]
         /\ \A i \in 1 .. Len(s) : ~IsAck(s[i])
  <1>1. c \in Seq(Messages) /\ \A i \in 1 .. Len(c) : c[i].kind = "doc"
    BY ChangesSent
  <1>2. n \in Versions
    BY ListenAssumption DEF TypeInv, Versions
  <1>3. <<Snap(n)>> \in Seq(Messages)
    BY <1>2 DEF Snap, Messages, Kinds
  <1>4. /\ s \in Seq(Messages) /\ Len(c) \in Nat /\ Len(s) = Len(c) + 1
        /\ s[Len(c) + 1] = Snap(n)
        /\ \A i \in 1 .. Len(c) : s[i] = c[i]
    <2>1. s = c \o <<Snap(n)>>
      BY DEF Refresh
    <2>. HIDE DEF Snap
    <2>. QED
      BY <1>1, <1>3, <2>1
  <1>6. ~IsAck(Snap(n))
    BY DEF IsAck, Snap
  <1>5. ASSUME NEW i \in 1 .. Len(s)
        PROVE  ~IsAck(s[i])
    <2>1. i \in 1 .. Len(c) \/ i = Len(c) + 1
      BY <1>4
    <2>. QED
      BY <1>1, <1>4, <1>6, <2>1 DEF IsAck
  <1>. QED
    BY <1>4, <1>5

-----------------------------------------------------------------------------
(* Types, and what is counted. *)

Blocks == [do : {"add", "remove"}, call : Calls]

LEMMA NothingYet ==
  /\ 0 \in Versions
  /\ NoUpdates \in [Docs -> Versions]
  /\ NoChanges \in [Docs -> {"none", "add", "remove"}]
  BY ListenAssumption DEF Versions, NoUpdates, NoChanges

LEMMA LogLength ==
  ASSUME TypeInv
  PROVE  Len(log) \in Nat /\ Len(log) \in Versions /\ 0 .. Len(log) \subseteq Versions
  <1>1. Len(log) \in Nat /\ Len(log) <= MaxVersion
    BY DEF TypeInv, TypeOK
  <1>. QED
    BY <1>1, ListenAssumption DEF Versions

LEMMA EventsHaveCalls ==
  ASSUME NEW es \in Seq(Events)
  PROVE  \A i \in 1 .. Len(es) : es[i].call \in Calls
  <1>1. \A i \in 1 .. Len(es) : es[i] \in Events
    BY ElementOfSeq
  <1>2. \A e \in Events : e.call \in Calls
    BY DEF Events
  <1>. QED
    BY <1>1, <1>2

LEMMA InitCounts == Init => CountInv
  <1> SUFFICES ASSUME Init PROVE CountInv
    OBVIOUS
  <1>1. TypeOK
    <2>1. /\ cache \in [Docs -> Versions] /\ updates \in [Docs -> Versions]
          /\ {saved, last, token, since} \subseteq Versions
          /\ changes \in [Docs -> {"none", "add", "remove"}]
      BY NothingYet DEF Init
    <2>2. answered \in [Calls -> Nat] /\ asked \in 0 .. LastCall /\ faults \in 0 .. MaxFaults
      BY ListenAssumption DEF Init
    <2>3. {current, failed, timer, idle, complete} \subseteq BOOLEAN
      BY DEF Init
    <2>4. /\ worker = <<>> /\ toServer = <<>> /\ log = <<>> /\ events = <<>>
          /\ keys = {} /\ listeners = {} /\ raised = {} /\ lost = {}
          /\ online = "Unknown" /\ stream = "Initial" /\ pending = 0 /\ watched = NotWatched
      BY DEF Init
    <2>. QED
      BY <2>1, <2>2, <2>3, <2>4 DEF TypeOK, States, NotWatched
  <1>2. TypeInv
    BY <1>1, ListenAssumption DEF Init, TypeInv
  <1>3. ClosedInv /\ RequestsCounted
    BY DEF Init, ClosedInv, RequestsCounted
  <1>. QED
    BY <1>2, <1>3 DEF CountInv

(* What the app does on its own queue leaves the stream alone. *)
LEMMA AppCounts ==
  ASSUME CountInv, GetDocuments \/ AppEvent
  PROVE  CountInv'
  <1>1. UNCHANGED <<disk, views, state, stream, idle, aggregator, wire, log, faults, lost>>
    BY DEF GetDocuments, AppEvent
  <1>2. ClosedInv' /\ RequestsCounted'
    <2>1. Acks' = Acks
      BY <1>1 DEF Acks, wire
    <2>. QED
      BY <1>1, <2>1 DEF CountInv, ClosedInv, RequestsCounted, views, aggregator, wire
  <1>3. /\ worker' \in Seq(Blocks)
        /\ events' \in Seq(Events)
        /\ asked' \in 0 .. LastCall
        /\ answered' \in [Calls -> Nat]
    <2>1. /\ worker \in Seq(Blocks) /\ events \in Seq(Events) /\ asked \in 0 .. LastCall
          /\ answered \in [Calls -> Nat]
      BY DEF CountInv, TypeInv, TypeOK, Blocks
    <2>2. CASE GetDocuments
      <3>1. [do |-> "add", call |-> asked + 1] \in Blocks /\ asked + 1 \in 0 .. LastCall
        BY <2>1, <2>2, ListenAssumption DEF GetDocuments, Calls, Blocks
      <3>. QED
        BY <2>1, <2>2, <3>1 DEF GetDocuments
    <2>3. CASE AppEvent
      <3> DEFINE e == Head(events)
      <3>1. events # <<>> /\ events' = Tail(events) /\ UNCHANGED asked
            /\ \/ UNCHANGED <<answered, worker>>
               \/ /\ answered' = [answered EXCEPT ![e.call] = @ + 1]
                  /\ worker' = Append(worker, [do |-> "remove", call |-> e.call])
        BY <2>3, Zenon DEF AppEvent
      <3>2. e \in Events /\ Tail(events) \in Seq(Events)
        BY <2>1, <3>1
      <3>3. e.call \in Calls
        BY <3>2 DEF Events
      <3>4. [do |-> "remove", call |-> e.call] \in Blocks
        BY <3>3 DEF Blocks
      <3>. HIDE DEF e
      <3>5. answered' \in [Calls -> Nat]
        BY <2>1, <3>1, <3>3
      <3>6. worker' \in Seq(Blocks)
        <4>1. Append(worker, [do |-> "remove", call |-> e.call]) \in Seq(Blocks)
          BY <2>1, <3>4
        <4>. QED
          BY <2>1, <3>1, <4>1
      <3>. QED
        BY <2>1, <3>1, <3>2, <3>5, <3>6
    <2>. QED
      BY <2>2, <2>3
  <1>4. \A i \in 1 .. Len(events') : events'[i].call \in Calls
    BY <1>3, EventsHaveCalls
  <1>5. TypeInv'
    BY <1>1, <1>3, <1>4
       DEF CountInv, TypeInv, TypeOK, disk, views, state, aggregator, wire, Blocks
  <1>. QED
    BY <1>2, <1>5 DEF CountInv

LEMMA ContentsTyped ==
  ASSUME NEW c \in [Docs -> Versions]
  PROVE  Contents(c) \in [Docs -> Versions]
  BY NothingYet DEF Contents

(* An event for each of the calls, of what the cache holds. *)
LEMMA ToldOfCache ==
  ASSUME TypeInv, NEW calls \in SUBSET Calls, NEW cached \in BOOLEAN
  PROVE  /\ events \o Posted(calls, Contents(cache), cached) \in Seq(Events)
         /\ \A i \in 1 .. Len(events \o Posted(calls, Contents(cache), cached)) :
              (events \o Posted(calls, Contents(cache), cached))[i].call \in Calls
  <1>1. events \in Seq(Events) /\ since \in Versions /\ cache \in [Docs -> Versions]
    BY DEF TypeInv, TypeOK
  <1>2. Contents(cache) \in [Docs -> Versions]
    BY <1>1, ContentsTyped
  <1>3. events \o Posted(calls, Contents(cache), cached) \in Seq(Events)
    BY <1>1, <1>2, EventsTold DEF EventsAfter
  <1>. QED
    BY <1>3, EventsHaveCalls

LEMMA BlockTaken ==
  ASSUME TypeInv, worker # <<>>
  PROVE  Tail(worker) \in Seq(Blocks) /\ Head(worker).call \in Calls
  <1>1. worker \in Seq(Blocks)
    BY DEF TypeInv, TypeOK, Blocks
  <1>2. Tail(worker) \in Seq(Blocks) /\ Head(worker) \in Blocks
    BY <1>1
  <1>3. \A b \in Blocks : b.call \in Calls
    BY DEF Blocks
  <1>. QED
    BY <1>2, <1>3

LEMMA JoinCounts ==
  ASSUME CountInv, NEW c \in Calls, listeners # {}, JoinListeners(c),
         worker' \in Seq(Blocks), UNCHANGED <<log, faults, app>>
  PROVE  CountInv'
  <1>1. /\ listeners' = listeners \cup {c}
        /\ UNCHANGED <<disk, current, token, since, state, stream, idle, aggregator, wire>>
    BY DEF JoinListeners
  <1>2. /\ raised' \subseteq listeners'
        /\ events' \in Seq(Events) /\ \A i \in 1 .. Len(events') : events'[i].call \in Calls
    <2>1. /\ raised \subseteq listeners
          /\ events \in Seq(Events) /\ \A i \in 1 .. Len(events) : events[i].call \in Calls
      BY DEF CountInv, TypeInv, TypeOK
    <2>2. CASE Synced \/ online = "Offline"
      <3>1. /\ raised' = raised \cup {c}
            /\ events' = events \o Posted({c}, Contents(cache), ~Synced)
        BY <2>2, Zenon DEF JoinListeners
      <3>. QED
        BY <1>1, <2>1, <3>1, ToldOfCache DEF CountInv
    <2>3. CASE ~(Synced \/ online = "Offline")
      <3>1. UNCHANGED <<raised, events>>
        BY <2>3 DEF JoinListeners
      <3>. QED
        BY <1>1, <2>1, <3>1
    <2>. QED
      BY <2>2, <2>3
  <1>3. TypeInv'
    BY <1>1, <1>2 DEF CountInv, TypeInv, TypeOK, disk, state, aggregator, wire, app, Blocks
  <1>4. RequestsCounted' /\ ClosedInv'
    <2>1. Acks' = Acks
      BY <1>1 DEF Acks, wire
    <2>2. listeners' # {}
      BY <1>1
    <2>. QED
      BY <1>1, <2>1, <2>2 DEF CountInv, ClosedInv, RequestsCounted, aggregator, wire
  <1>. QED
    BY <1>3, <1>4 DEF CountInv

(* The request for a listener goes last. *)
LEMMA RequestAdded ==
  ASSUME CountInv, stream = "Open", NEW r \in Versions \cup {Unwatch}, Send(r),
         fromServer' = fromServer
  PROVE  /\ toServer' \in Seq(Versions \cup {Unwatch}) /\ pending' \in Nat \ {0}
         /\ toServer' # <<>> /\ toServer'[Len(toServer')] = r
         /\ pending' = Len(toServer') + Acks'
  <1>1. /\ toServer \in Seq(Versions \cup {Unwatch}) /\ pending \in Nat
        /\ fromServer \in Seq(Messages)
    BY DEF CountInv, TypeInv, TypeOK
  <1>2. pending = Len(toServer) + Acks /\ Acks \in Nat
    BY <1>1, AcksCounted DEF CountInv, RequestsCounted
  <1>3. Acks' = Acks
    BY DEF Acks
  <1>4. toServer' = Append(toServer, r) /\ pending' = pending + 1
    BY DEF Send
  <1>5. /\ toServer' \in Seq(Versions \cup {Unwatch})
        /\ Len(toServer') = Len(toServer) + 1 /\ toServer'[Len(toServer')] = r
    BY <1>1, <1>4, AppendProperties
  <1>. QED
    BY <1>1, <1>2, <1>3, <1>4, <1>5

LEMMA FirstCounts ==
  ASSUME CountInv, NEW c \in Calls, listeners = {}, FirstListener(c),
         worker' \in Seq(Blocks), UNCHANGED <<log, faults, app>>
  PROVE  CountInv'
  <1>1. /\ listeners' = {c} /\ current' = FALSE /\ token' = saved /\ since' = Len(log)
        /\ UNCHANGED <<disk, fromServer, watched>>
    BY DEF FirstListener
  <1>2. /\ raised' \subseteq listeners'
        /\ events' \in Seq(Events) /\ \A i \in 1 .. Len(events') : events'[i].call \in Calls
    <2>1. events \in Seq(Events) /\ \A i \in 1 .. Len(events) : events[i].call \in Calls
      BY DEF CountInv, TypeInv, TypeOK
    <2>2. CASE online = "Offline"
      <3> DEFINE e == Event(c, Contents(cache), TRUE, Len(log))
      <3>1. raised' = {c} /\ events' = Append(events, e)
        BY <2>2 DEF FirstListener
      <3>2. e \in Events
        BY LogLength, ContentsTyped DEF CountInv, TypeInv, TypeOK, Event, Events
      <3>. HIDE DEF e
      <3>3. events' \in Seq(Events)
        BY <2>1, <3>1, <3>2
      <3>. QED
        BY <1>1, <3>1, <3>3, EventsHaveCalls
    <2>3. CASE online # "Offline"
      BY <1>1, <2>1, <2>3 DEF FirstListener
    <2>. QED
      BY <2>2, <2>3
  <1>3. /\ {saved', last', token', since'} \subseteq Versions
        /\ cache' \in [Docs -> Versions] /\ keys' \subseteq Docs
    BY <1>1, LogLength DEF CountInv, TypeInv, TypeOK, disk
  <1>4. Acks' = Acks
    BY <1>1 DEF Acks
  <1>5. CASE ~IsStarted
    <2>1. /\ pending' = 0 /\ complete' = FALSE /\ changes' = NoChanges
          /\ updates' = NoUpdates /\ UNCHANGED <<idle, toServer>>
          /\ stream' \in {"Starting", "Backoff"} /\ stream # "Open"
          /\ UNCHANGED failed /\ online' \in {"Unknown", "Online", "Offline"}
          /\ timer' \in BOOLEAN
      BY <1>5 DEF FirstListener, NewAggregator, FreshTarget, Start, StreamStarts, IsStarted,
                  state, CountInv, TypeInv, TypeOK
    <2>2. ClosedInv' /\ RequestsCounted'
      BY <1>1, <2>1 DEF CountInv, ClosedInv, RequestsCounted
    <2>3. TypeInv'
      BY <1>1, <1>2, <1>3, <2>1, NothingYet
         DEF CountInv, TypeInv, TypeOK, app, Blocks, disk, States
    <2>. QED
      BY <2>2, <2>3 DEF CountInv
  <1>6. CASE IsStarted /\ stream = "Open"
    <2>1. /\ UNCHANGED <<stream, state, complete, changes, updates>>
          /\ Send(saved) /\ idle' = FALSE
      BY <1>6 DEF FirstListener, Watch
    <2>2. saved \in Versions /\ saved \in Versions \cup {Unwatch} /\ saved # Unwatch
      BY ListenAssumption DEF CountInv, TypeInv, TypeOK, Versions, Unwatch
    <2>3. /\ toServer' \in Seq(Versions \cup {Unwatch}) /\ pending' \in Nat \ {0}
          /\ toServer' # <<>> /\ toServer'[Len(toServer')] = saved
          /\ pending' = Len(toServer') + Acks'
      BY <1>1, <1>6, <2>1, <2>2, RequestAdded
    <2>4. ClosedInv' /\ RequestsCounted'
      BY <1>1, <1>6, <2>1, <2>2, <2>3 DEF ClosedInv, RequestsCounted
    <2>5. TypeInv'
      BY <1>1, <1>2, <1>3, <2>1, <2>3
         DEF CountInv, TypeInv, TypeOK, app, Blocks, disk, state
    <2>. QED
      BY <2>4, <2>5 DEF CountInv
  <1>7. CASE IsStarted /\ stream # "Open"
    <2>1. UNCHANGED <<stream, state, aggregator, toServer, idle>>
      BY <1>7 DEF FirstListener, aggregator
    <2>2. ClosedInv' /\ RequestsCounted'
      BY <1>1, <1>7, <2>1 DEF CountInv, ClosedInv, RequestsCounted, aggregator
    <2>3. TypeInv'
      BY <1>1, <1>2, <1>3, <2>1
         DEF CountInv, TypeInv, TypeOK, app, Blocks, disk, state, aggregator
    <2>. QED
      BY <2>2, <2>3 DEF CountInv
  <1>. QED
    BY <1>5, <1>6, <1>7

LEMMA RemoveCounts ==
  ASSUME CountInv, NEW c \in Calls, RemoveListener(c),
         worker' \in Seq(Blocks), UNCHANGED <<log, faults, app>>
  PROVE  CountInv'
  <1>1. /\ listeners' = listeners \ {c} /\ raised' = raised \ {c}
        /\ UNCHANGED <<cache, keys, last, events, stream, complete, changes, updates,
                       fromServer, watched>>
    BY DEF RemoveListener
  <1>2. Acks' = Acks
    BY <1>1 DEF Acks
  <1>3. CASE listeners = {c}
    <2>1. /\ current' = FALSE /\ since' = 0 /\ saved' = token /\ token' = 0
          /\ StopListening
      BY <1>3 DEF RemoveListener, StopListening
    <2>2. CASE stream = "Open"
      <3>1. Send(Unwatch) /\ idle' = TRUE /\ UNCHANGED state
        BY <2>1, <2>2 DEF StopListening
      <3>2. /\ toServer' \in Seq(Versions \cup {Unwatch}) /\ pending' \in Nat \ {0}
            /\ toServer' # <<>> /\ toServer'[Len(toServer')] = Unwatch
            /\ pending' = Len(toServer') + Acks'
        BY <1>1, <2>2, <3>1, RequestAdded
      <3>3. ClosedInv' /\ RequestsCounted'
        BY <1>1, <1>3, <2>2, <3>2 DEF ClosedInv, RequestsCounted
      <3>4. TypeInv'
        BY <1>1, <2>1, <3>1, <3>2, NothingYet
           DEF CountInv, TypeInv, TypeOK, app, Blocks, state
      <3>. QED
        BY <3>3, <3>4 DEF CountInv
    <2>3. CASE stream # "Open"
      <3>1. /\ online' = "Unknown" /\ failed' = FALSE /\ timer' = FALSE
            /\ UNCHANGED <<toServer, pending, idle>>
        BY <2>1, <2>3 DEF StopListening, UpdateState
      <3>3. ClosedInv' /\ RequestsCounted'
        BY <1>1, <2>3, <3>1 DEF CountInv, ClosedInv, RequestsCounted
      <3>4. TypeInv'
        BY <1>1, <2>1, <3>1, NothingYet
           DEF CountInv, TypeInv, TypeOK, app, Blocks
      <3>. QED
        BY <3>3, <3>4 DEF CountInv
    <2>. QED
      BY <2>2, <2>3
  <1>4. CASE listeners # {c}
    <2>1. UNCHANGED <<current, saved, token, since, toServer, pending, idle, state>>
      BY <1>4 DEF RemoveListener
    <2>2. listeners' # {} <=> listeners # {}
      BY <1>1, <1>4
    <2>3. ClosedInv' /\ RequestsCounted'
      BY <1>1, <1>2, <2>1, <2>2 DEF CountInv, ClosedInv, RequestsCounted
    <2>4. TypeInv'
      BY <1>1, <2>1 DEF CountInv, TypeInv, TypeOK, app, Blocks, state
    <2>. QED
      BY <2>3, <2>4 DEF CountInv
  <1>. QED
    BY <1>3, <1>4

LEMMA BlockCounts == CountInv /\ WorkerBlock => CountInv'
  <1> SUFFICES ASSUME CountInv, WorkerBlock PROVE CountInv'
    OBVIOUS
  <1>1. /\ worker # <<>> /\ worker' = Tail(worker) /\ UNCHANGED <<log, faults, app>>
        /\ \/ AddListener(Head(worker).call)
           \/ RemoveListener(Head(worker).call)
    BY DEF WorkerBlock
  <1>2. worker' \in Seq(Blocks) /\ Head(worker).call \in Calls
    BY <1>1, BlockTaken DEF CountInv
  <1>. QED
    BY <1>1, <1>2, JoinCounts, FirstCounts, RemoveCounts DEF AddListener

-----------------------------------------------------------------------------
(* The stream, its timers, and restarts. *)

LEMMA OfflineTold ==
  ASSUME TypeInv, GoOffline, UNCHANGED listeners
  PROVE  /\ raised' \subseteq listeners'
         /\ events' \in Seq(Events) /\ \A i \in 1 .. Len(events') : events'[i].call \in Calls
  <1> DEFINE told == IF Synced THEN listeners ELSE listeners \ raised
  <1>1. told \in SUBSET Calls /\ raised \subseteq listeners
    BY DEF TypeInv, TypeOK
  <1>2. events' = events \o Posted(told, Contents(cache), TRUE)
    BY DEF GoOffline
  <1>3. raised' = raised \cup listeners
    BY DEF GoOffline
  <1>. HIDE DEF told
  <1>. QED
    BY <1>1, <1>2, <1>3, ToldOfCache

LEMMA ClosedCounts ==
  ASSUME CallGone, NewAggregator, stream' # "Open"
  PROVE  ClosedInv' /\ RequestsCounted'
  BY DEF CallGone, NewAggregator, FreshTarget, ClosedInv, RequestsCounted

LEMMA FreshAggregator ==
  ASSUME CallGone, NewAggregator
  PROVE  /\ toServer' \in Seq(Versions \cup {Unwatch}) /\ fromServer' \in Seq(Messages)
         /\ watched' \in Versions \cup {NotWatched}
         /\ pending' \in Nat /\ complete' \in BOOLEAN
         /\ changes' \in [Docs -> {"none", "add", "remove"}]
         /\ updates' \in [Docs -> Versions]
  <1>1. /\ toServer' = <<>> /\ fromServer' = <<>> /\ watched' = NotWatched
        /\ pending' = 0 /\ complete' = FALSE /\ changes' = NoChanges /\ updates' = NoUpdates
    BY DEF CallGone, NewAggregator, FreshTarget
  <1>2. /\ toServer' \in Seq(Versions \cup {Unwatch}) /\ fromServer' \in Seq(Messages)
        /\ watched' \in Versions \cup {NotWatched} /\ pending' \in Nat
    BY <1>1
  <1>3. complete' \in BOOLEAN
    BY <1>1
  <1>4. changes' \in [Docs -> {"none", "add", "remove"}] /\ updates' \in [Docs -> Versions]
    BY <1>1, NothingYet, Zenon
  <1>. QED
    BY <1>2, <1>3, <1>4

LEMMA StreamCounts ==
  ASSUME CountInv,
         \/ StreamOpens \/ BackoffElapsed \/ StreamFails
         \/ IdleTimeout \/ OnlineTimeout \/ Relaunch
  PROVE  CountInv'
  <1>0. TypeInv /\ TypeOK
    BY DEF CountInv, TypeInv
  <1>1. CASE StreamOpens
    <2>1. /\ stream = "Starting" /\ stream' = "Open"
          /\ UNCHANGED <<disk, worker, events, views, state, idle, complete, changes,
                         updates, fromServer, watched, log, faults, app>>
      BY <1>1 DEF StreamOpens
    <2>2. toServer = <<>> /\ fromServer = <<>> /\ watched = NotWatched /\ pending = 0
      BY <2>1 DEF CountInv, ClosedInv
    <2>3. Acks' = 0
      BY <2>1, <2>2, <1>0, AcksCounted DEF Acks, TypeInv
    <2>4. CASE listeners # {}
      <3>1. toServer' = Append(toServer, token) /\ pending' = pending + 1
        BY <1>1, <2>4 DEF StreamOpens, Send, Watch
      <3>2. token \in Versions /\ token # Unwatch
        BY <1>0, ListenAssumption DEF TypeOK, Versions, Unwatch
      <3>3. /\ toServer' \in Seq(Versions \cup {Unwatch}) /\ pending' = 1
            /\ Len(toServer') = 1 /\ toServer'[Len(toServer')] = token
            /\ toServer' # <<>>
        BY <2>2, <3>1, <3>2
      <3>6. listeners' = listeners
        BY <2>1 DEF views
      <3>4. ClosedInv' /\ RequestsCounted'
        BY <2>1, <2>3, <2>4, <3>2, <3>3, <3>6 DEF ClosedInv, RequestsCounted
      <3>5. TypeInv'
        BY <1>0, <2>1, <3>3
           DEF TypeInv, TypeOK, disk, views, state, app, States
      <3>. QED
        BY <3>4, <3>5 DEF CountInv
    <2>5. CASE listeners = {}
      <3>1. UNCHANGED <<toServer, pending>>
        BY <1>1, <2>5 DEF StreamOpens
      <3>4. ClosedInv' /\ RequestsCounted'
        BY <2>1, <2>2, <2>3, <2>5, <3>1 DEF ClosedInv, RequestsCounted, views
      <3>5. TypeInv'
        BY <1>0, <2>1, <3>1
           DEF TypeInv, TypeOK, disk, views, state, app, States
      <3>. QED
        BY <3>4, <3>5 DEF CountInv
    <2>. QED
      BY <2>4, <2>5
  <1>2. CASE BackoffElapsed
    <2>1. /\ stream = "Backoff" /\ stream' = "Starting"
          /\ UNCHANGED <<disk, worker, events, views, state, idle, aggregator, wire, log,
                         faults, app>>
      BY <1>2 DEF BackoffElapsed, Start
    <2>2. ClosedInv' /\ RequestsCounted'
      BY <2>1 DEF CountInv, ClosedInv, RequestsCounted, aggregator, wire
    <2>3. TypeInv'
      BY <1>0, <2>1
         DEF TypeInv, TypeOK, disk, views, state, aggregator, wire, app, States
    <2>. QED
      BY <2>2, <2>3 DEF CountInv
  <1>3. CASE StreamFails
    <2>1. /\ faults' \in 0 .. MaxFaults /\ CallGone /\ NewAggregator /\ idle' = FALSE
          /\ UNCHANGED <<disk, worker, listeners, token, since, log, app>>
      BY <1>0, <1>3, ListenAssumption DEF StreamFails, Fault, TypeOK
    <2>2. /\ raised' \subseteq listeners'
          /\ events' \in Seq(Events) /\ \A i \in 1 .. Len(events') : events'[i].call \in Calls
          /\ stream' \in {"Backoff", "Error"} /\ online' \in {"Unknown", "Offline"}
          /\ current' \in BOOLEAN /\ failed' \in BOOLEAN /\ timer' \in BOOLEAN
      <3>1. CASE listeners # {} /\ online = "Online"
        BY <1>0, <1>3, <2>1, <3>1 DEF StreamFails, RetryStream, TypeInv, TypeOK
      <3>2. CASE listeners # {} /\ online # "Online"
        <4>1. GoOffline /\ failed' = TRUE /\ timer' = FALSE /\ stream' = "Backoff"
          BY <1>3, <3>2 DEF StreamFails, RetryStream
        <4>. QED
          BY <1>0, <2>1, <4>1, OfflineTold DEF GoOffline
      <3>3. CASE listeners = {}
        BY <1>0, <1>3, <2>1, <3>3 DEF StreamFails, UpdateState, TypeInv, TypeOK
      <3>. QED
        BY <3>1, <3>2, <3>3
    <2>3. TypeInv'
      BY <1>0, <2>1, <2>2, FreshAggregator DEF TypeInv, TypeOK, disk, app, States
    <2>. QED
      BY <2>1, <2>2, <2>3, ClosedCounts DEF CountInv
  <1>4. CASE IdleTimeout
    <2>1. /\ idle' = FALSE /\ stream' = "Initial" /\ CallGone /\ NewAggregator
          /\ online' = "Unknown" /\ failed' = FALSE /\ timer' = FALSE
          /\ UNCHANGED <<disk, worker, events, views, log, faults, app>>
      BY <1>4 DEF IdleTimeout, UpdateState
    <2>2. TypeInv'
      BY <1>0, <2>1, FreshAggregator DEF TypeInv, TypeOK, disk, views, app, States
    <2>. QED
      BY <2>1, <2>2, ClosedCounts DEF CountInv
  <1>5. CASE OnlineTimeout
    <2>1. /\ timer' = FALSE /\ GoOffline
          /\ UNCHANGED <<disk, worker, listeners, token, since, failed, stream, idle,
                         aggregator, wire, log, faults, app>>
      BY <1>5 DEF OnlineTimeout
    <2>2. /\ raised' \subseteq listeners' /\ online' = "Offline" /\ current' = FALSE
          /\ events' \in Seq(Events) /\ \A i \in 1 .. Len(events') : events'[i].call \in Calls
      BY <1>0, <2>1, OfflineTold DEF GoOffline
    <2>3. ClosedInv' /\ RequestsCounted'
      <3>1. Acks' = Acks
        BY <2>1 DEF Acks, wire
      <3>. QED
        BY <2>1, <3>1 DEF CountInv, ClosedInv, RequestsCounted, aggregator, wire
    <2>4. TypeInv'
      BY <1>0, <2>1, <2>2 DEF TypeInv, TypeOK, disk, aggregator, wire, app
    <2>. QED
      BY <2>3, <2>4 DEF CountInv
  <1>6. CASE Relaunch
    <2>1. /\ faults' \in 0 .. MaxFaults /\ CallGone /\ NewAggregator /\ idle' = FALSE
          /\ stream' = "Initial" /\ worker' = <<>> /\ events' = <<>>
          /\ listeners' = {} /\ raised' = {} /\ current' = FALSE
          /\ online' = "Unknown" /\ failed' = FALSE /\ timer' = FALSE
          /\ token' = 0 /\ since' = 0
          /\ UNCHANGED <<disk, log, asked, answered>>
      BY <1>0, <1>6, ListenAssumption DEF Relaunch, Fault, UpdateState, TypeOK
    <2>2. lost' \subseteq Calls
      BY <1>0, <1>6, ListenAssumption DEF Relaunch, TypeOK, Calls
    <2>4. /\ worker' \in Seq(Blocks) /\ events' \in Seq(Events)
          /\ \A i \in 1 .. Len(events') : events'[i].call \in Calls
          /\ token' \in Versions /\ since' \in Versions
      BY <2>1, NothingYet
    <2>5. UNCHANGED <<cache, keys, saved, last, log, asked, answered>>
      BY <2>1 DEF disk
    <2>3. TypeInv'
      BY <1>0, <2>1, <2>2, <2>4, <2>5, FreshAggregator DEF TypeInv, TypeOK, States, Blocks
    <2>. QED
      BY <2>1, <2>3, ClosedCounts DEF CountInv
  <1>. QED
    BY <1>1, <1>2, <1>3, <1>4, <1>5, <1>6

-----------------------------------------------------------------------------
(* Messages. *)

LEMMA DeliveredIs ==
  ASSUME CountInv, NEW kind, Delivered(kind)
  PROVE  /\ stream = "Open" /\ fromServer # <<>> /\ Head(fromServer) \in Messages
         /\ Head(fromServer).kind = kind
         /\ fromServer' = Tail(fromServer) /\ fromServer' \in Seq(Messages)
         /\ online' = "Online" /\ failed' = FALSE /\ timer' = FALSE
         /\ UNCHANGED <<stream, idle, toServer, watched, worker, listeners, since, log,
                        faults, app>>
         /\ Acks' = IF kind \in {"added", "removed"} THEN Acks - 1 ELSE Acks
         /\ Acks \in Nat /\ Acks' \in Nat
         /\ pending = Len(toServer) + Acks
  <1>1. fromServer \in Seq(Messages)
    BY DEF CountInv, TypeInv
  <1>2. /\ stream = "Open" /\ fromServer # <<>> /\ Head(fromServer).kind = kind
        /\ fromServer' = Tail(fromServer)
        /\ online' = "Online" /\ failed' = FALSE /\ timer' = FALSE
        /\ UNCHANGED <<stream, idle, toServer, watched, worker, listeners, since, log,
                       faults, app>>
    BY DEF Delivered, UpdateState
  <1>3. Head(fromServer) \in Messages /\ fromServer' \in Seq(Messages)
    BY <1>1, <1>2
  <1>4. Acks' = IF kind \in {"added", "removed"} THEN Acks - 1 ELSE Acks
    BY <1>1, <1>2, AckTaken DEF IsAck
  <1>5. Acks \in Nat
    BY <1>1, AcksCounted
  <1>6. Acks' \in Nat
    <2>1. {i \in 1 .. Len(fromServer') : fromServer'[i].kind \in {"added", "removed"}}
            \in SUBSET (1 .. Len(fromServer'))
      OBVIOUS
    <2>2. IsFiniteSet(1 .. Len(fromServer'))
      BY <1>3, FS_Interval
    <2>. QED
      BY <2>1, <2>2, FS_Subset, FS_CardinalityType DEF Acks
  <1>7. pending = Len(toServer) + Acks
    BY <1>2 DEF CountInv, RequestsCounted
  <1>. QED
    BY <1>2, <1>3, <1>4, <1>5, <1>6, <1>7

(* A message that changes nothing but what it says leaves the count right. *)
LEMMA MessageCounts ==
  ASSUME CountInv, NEW kind, Delivered(kind),
         pending' = IF kind \in {"added", "removed"} THEN pending - 1 ELSE pending
  PROVE  /\ pending' \in Nat
         /\ ClosedInv' /\ RequestsCounted'
  <1>1. toServer \in Seq(Versions \cup {Unwatch})
    BY DEF CountInv, TypeInv, TypeOK
  <1>2. pending' = Len(toServer) + Acks' /\ pending' \in Nat
    <2>1. /\ pending = Len(toServer) + Acks /\ Acks \in Nat /\ Acks' \in Nat
          /\ Acks' = IF kind \in {"added", "removed"} THEN Acks - 1 ELSE Acks
      BY DeliveredIs
    <2>2. Len(toServer) \in Nat
      BY <1>1
    <2>3. UNCHANGED toServer
      BY DeliveredIs
    <2>. QED
      BY <2>1, <2>2
  <1>3. listeners # {} <=> IF toServer = <<>> THEN watched # NotWatched
                           ELSE toServer[Len(toServer)] # Unwatch
    BY DeliveredIs DEF CountInv, RequestsCounted
  <1>4. UNCHANGED <<stream, toServer, watched, listeners>> /\ stream = "Open"
    BY DeliveredIs
  <1>. QED
    BY <1>2, <1>3, <1>4 DEF ClosedInv, RequestsCounted

LEMMA ViewTold ==
  ASSUME TypeInv, NEW now \in BOOLEAN, NEW c \in [Docs -> Versions], NEW ks \in SUBSET Docs,
         Emit(now, c, ks), UNCHANGED listeners
  PROVE  /\ raised' \subseteq listeners'
         /\ events' \in Seq(Events) /\ \A i \in 1 .. Len(events') : events'[i].call \in Calls
         /\ \A i \in 1 .. Len(events') :
              \/ i \in 1 .. Len(events) /\ events'[i] = events[i]
              \/ /\ events'[i].docs = Contents(c) /\ events'[i].since = since
                 /\ events'[i].cached = ~SyncedWith(now, c, ks)
  <1> DEFINE synced == SyncedWith(now, c, ks)
             told == IF synced THEN listeners ELSE listeners \cap raised
             docs == Contents(c)
             cached == ~synced
  <1>1. /\ told \in SUBSET Calls /\ raised \subseteq listeners
        /\ events \in Seq(Events) /\ since \in Versions
        /\ Contents(c) \in [Docs -> Versions] /\ (~synced) \in BOOLEAN
    <2>1. told \in SUBSET Calls /\ raised \subseteq listeners
          /\ events \in Seq(Events) /\ since \in Versions
      BY DEF TypeInv, TypeOK
    <2>2. (~synced) \in BOOLEAN
      <3>. HIDE DEF synced
      <3>. QED
        OBVIOUS
    <2>. QED
      BY <2>1, <2>2, ContentsTyped
  <1>2. \/ /\ events' = EventsAfter(told, Contents(c), ~synced)
           /\ raised' = raised \cup told
        \/ UNCHANGED <<events, raised>>
    BY Zenon DEF Emit, EventsAfter
  <1>3. told \subseteq listeners
    OBVIOUS
  <1>. HIDE DEF told, docs, cached, synced
  <1>4. CASE UNCHANGED <<events, raised>>
    BY <1>1, <1>4, EventsHaveCalls
  <1>5. CASE /\ events' = EventsAfter(told, Contents(c), ~synced)
             /\ raised' = raised \cup told
    <2>1. docs \in [Docs -> Versions] /\ cached \in BOOLEAN
      BY <1>1 DEF docs, cached
    <2>2. events' = EventsAfter(told, docs, cached)
      BY <1>5 DEF docs, cached
    <2>3. events' \in Seq(Events)
      BY <1>1, <2>1, <2>2, EventsTold
    <2>4. \A i \in 1 .. Len(EventsAfter(told, docs, cached)) :
              LET e == EventsAfter(told, docs, cached)[i]
              IN  \/ i \in 1 .. Len(events) /\ e = events[i]
                  \/ e.docs = docs /\ e.cached = cached /\ e.since = since
      BY <1>1, <2>1, EventsTold
    <2>5. \A i \in 1 .. Len(events') :
              \/ i \in 1 .. Len(events) /\ events'[i] = events[i]
              \/ events'[i].docs = docs /\ events'[i].cached = cached /\ events'[i].since = since
      BY <2>2, <2>4
    <2>. QED
      BY <1>1, <1>3, <1>5, <2>3, <2>5, EventsHaveCalls DEF synced, docs, cached
  <1>. QED
    BY <1>2, <1>4, <1>5

LEMMA MessagesCount == CountInv /\ Message => CountInv'
  <1> SUFFICES ASSUME CountInv, Message PROVE CountInv'
    OBVIOUS
  <1>0. TypeInv /\ TypeOK
    BY DEF CountInv, TypeInv
  <1>1. CASE TargetAdded
    <2>1. /\ Delivered("added") /\ pending' = pending - 1
          /\ changes' \in {NoChanges, changes}
          /\ UNCHANGED <<disk, events, raised, current, token, complete, updates>>
      BY <1>1 DEF TargetAdded
    <2>2. pending' \in Nat /\ ClosedInv' /\ RequestsCounted'
      BY <2>1, MessageCounts
    <2>3. TypeInv'
      BY <1>0, <2>1, <2>2, NothingYet, DeliveredIs DEF TypeInv, TypeOK, disk, app
    <2>. QED
      BY <2>2, <2>3 DEF CountInv
  <1>2. CASE TargetRemoved
    <2>1. /\ Delivered("removed") /\ pending' = pending - 1
          /\ changes' \in {NoChanges, changes} /\ complete' \in BOOLEAN
          /\ UNCHANGED <<disk, events, raised, current, token, updates>>
      BY <1>0, <1>2 DEF TargetRemoved, FreshTarget, TypeOK
    <2>2. pending' \in Nat /\ ClosedInv' /\ RequestsCounted'
      BY <2>1, MessageCounts
    <2>3. TypeInv'
      BY <1>0, <2>1, <2>2, NothingYet, DeliveredIs DEF TypeInv, TypeOK, disk, app
    <2>. QED
      BY <2>2, <2>3 DEF CountInv
  <1>3. CASE TargetCurrent
    <2>1. /\ Delivered("current") /\ complete' \in BOOLEAN
          /\ UNCHANGED <<disk, events, raised, current, token, pending, changes, updates>>
      <3>1. complete' = (complete \/ IsActive)
        BY <1>3 DEF TargetCurrent
      <3>2. complete' \in BOOLEAN
        BY <3>1, Zenon DEF IsActive
      <3>. QED
        BY <1>3, <3>2 DEF TargetCurrent
    <2>2. pending' \in Nat /\ ClosedInv' /\ RequestsCounted'
      BY <2>1, MessageCounts
    <2>3. TypeInv'
      BY <1>0, <2>1, <2>2, DeliveredIs DEF TypeInv, TypeOK, disk, app
    <2>. QED
      BY <2>2, <2>3 DEF CountInv
  <1>4. CASE DocumentChange
    <2>1. /\ Delivered("doc")
          /\ UNCHANGED <<disk, events, raised, current, token, pending, complete>>
      BY <1>4 DEF DocumentChange
    <2>2. Head(fromServer).v \in Versions
      BY <2>1, DeliveredIs DEF Messages
    <2>3. /\ changes' \in [Docs -> {"none", "add", "remove"}]
          /\ updates' \in [Docs -> Versions]
      BY <1>0, <1>4, <2>2 DEF DocumentChange, TypeOK
    <2>4. pending' \in Nat /\ ClosedInv' /\ RequestsCounted'
      BY <2>1, MessageCounts
    <2>5. TypeInv'
      BY <1>0, <2>1, <2>3, <2>4, DeliveredIs DEF TypeInv, TypeOK, disk, app
    <2>. QED
      BY <2>4, <2>5 DEF CountInv
  <1>5. CASE WatchSnapshot
    <2> DEFINE v == Head(fromServer).v
               c == [d \in Docs |-> Cached(d)]
               ks == IF IsActive THEN KeysAfter ELSE keys
               now == IF IsActive THEN complete ELSE current
    <2>1. Delivered("snap") /\ UNCHANGED <<pending, complete>>
      BY <1>5 DEF WatchSnapshot
    <2>2. v \in Versions
      BY <2>1, DeliveredIs DEF Messages
    <2>3. pending' \in Nat /\ ClosedInv' /\ RequestsCounted'
      BY <2>1, MessageCounts
    <2>4. CASE v < last
      <3>1. UNCHANGED <<disk, events, raised, current, token, changes, updates>>
        BY <1>5, <2>4 DEF WatchSnapshot
      <3>2. TypeInv'
        BY <1>0, <2>1, <2>3, <3>1, DeliveredIs DEF TypeInv, TypeOK, disk, app
      <3>. QED
        BY <2>3, <3>2 DEF CountInv
    <2>5. CASE ~(v < last)
      <3>1. /\ cache' = c /\ keys' = ks /\ current' = now /\ last' = v
            /\ updates' = NoUpdates /\ Emit(now, c, ks) /\ ResumeFrom(v)
        BY <1>5, <2>5, Zenon DEF WatchSnapshot
      <3>2. c \in [Docs -> Versions] /\ ks \in SUBSET Docs /\ now \in BOOLEAN
        BY <1>0 DEF TypeOK, Cached, KeysAfter
      <3>3. /\ token' \in Versions /\ saved' \in Versions
            /\ changes' \in [Docs -> {"none", "add", "remove"}]
        BY <1>0, <2>2, <3>1, NothingYet DEF ResumeFrom, TypeOK
      <3>4. UNCHANGED listeners
        BY <2>1, DeliveredIs
      <3>. HIDE DEF c, ks, now, v
      <3>5. /\ raised' \subseteq listeners'
            /\ events' \in Seq(Events) /\ \A i \in 1 .. Len(events') : events'[i].call \in Calls
        BY <1>0, <3>1, <3>2, <3>4, ViewTold
      <3>6. TypeInv'
        BY <1>0, <2>1, <2>2, <2>3, <3>1, <3>2, <3>3, <3>5, NothingYet, DeliveredIs
           DEF TypeInv, TypeOK, app
      <3>. QED
        BY <2>3, <3>6 DEF CountInv
    <2>. QED
      BY <2>4, <2>5
  <1>. QED
    BY <1>1, <1>2, <1>3, <1>4, <1>5 DEF Message

-----------------------------------------------------------------------------
(* The server. *)

LEMMA SentCounts ==
  ASSUME CountInv, NEW ms \in Seq(Messages), NEW w \in Versions \cup {NotWatched},
         ServerSends(ms, w), stream = "Open", toServer' \in Seq(Versions \cup {Unwatch}),
         pending = Len(toServer') + Acks',
         listeners # {} <=> IF toServer' = <<>> THEN w # NotWatched
                            ELSE toServer'[Len(toServer')] # Unwatch
  PROVE  CountInv'
  <1>1. /\ fromServer' = fromServer \o ms /\ watched' = w
        /\ UNCHANGED <<disk, worker, events, views, state, stream, idle, aggregator, log,
                       faults, app>>
    BY DEF ServerSends
  <1>2. fromServer' \in Seq(Messages)
    BY <1>1, ConcatProperties DEF CountInv, TypeInv
  <1>3. TypeInv'
    BY <1>1, <1>2 DEF CountInv, TypeInv, TypeOK, disk, views, state, aggregator, app
  <1>4. UNCHANGED <<stream, pending, listeners>>
    BY <1>1 DEF aggregator, views
  <1>5. ClosedInv' /\ RequestsCounted'
    BY <1>1, <1>4 DEF ClosedInv, RequestsCounted
  <1>. QED
    BY <1>3, <1>5 DEF CountInv

LEMMA RequestRead ==
  ASSUME CountInv, toServer # <<>>, toServer' = Tail(toServer)
  PROVE  /\ toServer' \in Seq(Versions \cup {Unwatch}) /\ Len(toServer') = Len(toServer) - 1
         /\ Len(toServer) \in Nat
         /\ IF toServer' = <<>> THEN toServer[Len(toServer)] = Head(toServer)
            ELSE toServer'[Len(toServer')] = toServer[Len(toServer)]
         /\ stream = "Open" /\ Head(toServer) \in Versions \cup {Unwatch}
  <1>1. toServer \in Seq(Versions \cup {Unwatch})
    BY DEF CountInv, TypeInv, TypeOK
  <1>2. stream = "Open"
    BY DEF CountInv, ClosedInv
  <1>. QED
    BY <1>1, <1>2

LEMMA ServerCounts ==
  ASSUME CountInv, ServerWatch \/ ServerUnwatch \/ ServerUpdate
  PROVE  CountInv'
  <1> DEFINE n == Len(log)
             r == Head(toServer)
  <1>0. /\ fromServer \in Seq(Messages) /\ n \in Versions /\ n \in 0 .. n /\ n # NotWatched
        /\ TypeInv /\ Acks \in Nat
    BY LogLength, AcksCounted DEF CountInv, TypeInv, NotWatched
  <1>1. CASE ServerWatch
    <2>1. /\ toServer # <<>> /\ r # Unwatch /\ toServer' = Tail(toServer)
          /\ ServerSends(Answer(r, n), n)
      BY <1>1 DEF ServerWatch, Answer
    <2>2. /\ Answer(r, n) \in Seq(Messages) /\ Answer(r, n)[1] = Added
          /\ Answer(r, n) # <<>> /\ \A i \in 2 .. Len(Answer(r, n)) : ~IsAck(Answer(r, n)[i])
      BY <1>0, AnswerSent
    <2>3. Acks' = Acks + 1
      <3> DEFINE ms == Answer(r, n)
      <3>1. fromServer' = fromServer \o ms /\ IsAck(Added)
        BY <2>1 DEF ServerSends, IsAck, Added
      <3>2. /\ ms \in Seq(Messages) /\ ms[1] = Added /\ ms # <<>>
            /\ \A i \in 2 .. Len(ms) : ~IsAck(ms[i])
        BY <2>2
      <3>. HIDE DEF ms
      <3>. QED
        BY <1>0, <3>1, <3>2, AcksSent
    <2>4. /\ pending = Len(toServer) + Acks
          /\ listeners # {} <=> toServer[Len(toServer)] # Unwatch
      BY <2>1, RequestRead DEF CountInv, RequestsCounted
    <2>5. pending = Len(toServer') + Acks'
      BY <1>0, <2>1, <2>3, <2>4, RequestRead
    <2>6. listeners # {} <=> IF toServer' = <<>> THEN n # NotWatched
                             ELSE toServer'[Len(toServer')] # Unwatch
      BY <1>0, <2>1, <2>4, RequestRead
    <2>. HIDE DEF n, r
    <2>. QED
      BY <1>0, <2>1, <2>2, <2>5, <2>6, RequestRead, SentCounts
  <1>2. CASE ServerUnwatch
    <2>1. /\ toServer # <<>> /\ r = Unwatch /\ toServer' = Tail(toServer)
          /\ ServerSends(<<Removed>>, NotWatched)
      BY <1>2 DEF ServerUnwatch
    <2>2. <<Removed>> \in Seq(Messages) /\ <<Removed>>[1] = Removed /\ Len(<<Removed>>) = 1
      BY NothingYet DEF Removed, Messages, Kinds
    <2>3. Acks' = Acks + 1
      <3>1. \A i \in 2 .. 1 : ~IsAck(<<Removed>>[i])
        OBVIOUS
      <3>2. fromServer' = fromServer \o <<Removed>> /\ <<Removed>> # <<>> /\ IsAck(Removed)
        BY <2>1 DEF ServerSends, IsAck, Removed
      <3>. QED
        BY <1>0, <2>2, <3>1, <3>2, AcksSent
    <2>4. /\ pending = Len(toServer) + Acks
          /\ listeners # {} <=> toServer[Len(toServer)] # Unwatch
      BY <2>1, RequestRead DEF CountInv, RequestsCounted
    <2>5. pending = Len(toServer') + Acks'
      BY <1>0, <2>1, <2>3, <2>4, RequestRead
    <2>6. listeners # {} <=> IF toServer' = <<>> THEN NotWatched # NotWatched
                             ELSE toServer'[Len(toServer')] # Unwatch
      BY <2>1, <2>4, RequestRead
    <2>. QED
      BY <2>1, <2>2, <2>5, <2>6, RequestRead, SentCounts
  <1>3. CASE ServerUpdate
    <2>1. /\ watched # NotWatched /\ UNCHANGED toServer
          /\ ServerSends(Refresh(watched, n), n)
      BY <1>3 DEF ServerUpdate, Refresh
    <2>2. /\ Refresh(watched, n) \in Seq(Messages)
          /\ \A i \in 1 .. Len(Refresh(watched, n)) : ~IsAck(Refresh(watched, n)[i])
          /\ Len(Refresh(watched, n)) \in Nat \ {0}
      BY <1>0, RefreshSent
    <2>3. Acks' = Acks
      <3> DEFINE ms == Refresh(watched, n)
      <3>1. fromServer' = fromServer \o ms
        BY <2>1 DEF ServerSends
      <3>2. ms \in Seq(Messages) /\ \A i \in 1 .. Len(ms) : ~IsAck(ms[i])
        BY <2>2
      <3>3. Len(ms) \in Nat \ {0}
        BY <2>2
      <3>. HIDE DEF ms
      <3>4. ~IsAck(ms[1]) /\ \A i \in 2 .. Len(ms) : ~IsAck(ms[i])
        BY <3>2, <3>3
      <3>. QED
        BY <1>0, <3>1, <3>2, <3>4, AcksSent
    <2>4. stream = "Open"
      BY <2>1 DEF CountInv, ClosedInv
    <2>5. /\ pending = Len(toServer) + Acks
          /\ listeners # {} <=> IF toServer = <<>> THEN watched # NotWatched
                                ELSE toServer[Len(toServer)] # Unwatch
          /\ toServer \in Seq(Versions \cup {Unwatch})
      BY <2>4 DEF CountInv, RequestsCounted, TypeInv, TypeOK
    <2>. HIDE DEF n, r
    <2>. QED
      BY <1>0, <2>1, <2>2, <2>3, <2>4, <2>5, SentCounts
  <1>. QED
    BY <1>1, <1>2, <1>3

LEMMA WriteCounts ==
  ASSUME CountInv, NEW d \in Docs, Write(d)
  PROVE  CountInv'
  <1>1. /\ Len(log) < MaxVersion
        /\ UNCHANGED <<disk, worker, events, views, state, stream, idle, aggregator, wire,
                       faults, app>>
    BY DEF Write
  <1>2. PICK e \in [doc : Docs, exists : BOOLEAN] : log' = Append(log, e)
    BY DEF Write
  <1>3. log \in Seq([doc : Docs, exists : BOOLEAN])
    BY DEF CountInv, TypeInv, TypeOK
  <1>4. log' \in Seq([doc : Docs, exists : BOOLEAN]) /\ Len(log') <= MaxVersion
    BY <1>1, <1>2, <1>3, ListenAssumption
  <1>5. TypeInv'
    BY <1>1, <1>4 DEF CountInv, TypeInv, TypeOK, disk, views, state, aggregator, wire, app
  <1>6. ClosedInv' /\ RequestsCounted'
    <2>1. Acks' = Acks
      BY <1>1 DEF Acks, wire
    <2>. QED
      BY <1>1, <2>1 DEF CountInv, ClosedInv, RequestsCounted, views, aggregator, wire
  <1>. QED
    BY <1>5, <1>6 DEF CountInv

LEMMA StutterCounts == CountInv /\ UNCHANGED vars => CountInv'
  <1> SUFFICES ASSUME CountInv, UNCHANGED vars PROVE CountInv'
    OBVIOUS
  <1>1. /\ UNCHANGED <<cache, keys, saved, last, worker, events, listeners, raised, current,
                       token, since>>
        /\ UNCHANGED <<online, failed, timer, stream, idle, pending, complete, changes,
                       updates, toServer, fromServer, watched, log, faults, asked, lost,
                       answered>>
    BY DEF vars, disk, views, state, aggregator, wire, app
  <1>2. Acks' = Acks
    BY <1>1 DEF Acks
  <1>. QED
    BY <1>1, <1>2 DEF CountInv, TypeInv, TypeOK, ClosedInv, RequestsCounted

LEMMA NextCounts == CountInv /\ [Next]_vars => CountInv'
  BY AppCounts, BlockCounts, StreamCounts, MessagesCount, ServerCounts, WriteCounts,
     StutterCounts DEF Next, ServerReads

(* Types of the listening client, for every number of calls, documents,    *)
(* writes and failures.                                                     *)
THEOREM ListenTypeCorrect == Spec => []TypeOK
  <1>1. CountInv => TypeOK
    BY DEF CountInv, TypeInv
  <1>. QED
    BY InitCounts, NextCounts, <1>1, PTL DEF Spec

(* The client knows which requests the server has yet to confirm, and the  *)
(* last request it sent is the one its listeners need.                      *)
THEOREM RequestsAreCounted == Spec => []RequestsCounted
  <1>1. CountInv => RequestsCounted
    BY DEF CountInv
  <1>. QED
    BY InitCounts, NextCounts, <1>1, PTL DEF Spec

(* A completion runs once: what its listener is sent after that is dropped. *)
THEOREM CallsAreAnsweredOnce == Spec => []AnsweredOnce
  <1>1. Init => AnsweredOnce
    BY DEF Init, AnsweredOnce
  <1>2. ASSUME CountInv, AnsweredOnce, [Next]_vars PROVE AnsweredOnce'
    <2>1. answered \in [Calls -> Nat]
      BY <1>2 DEF CountInv, TypeInv, TypeOK
    <2>2. CASE AppEvent
      <3>1. CASE answered[Head(events).call] > 0
        BY <1>2, <2>2, <3>1 DEF AppEvent, AnsweredOnce
      <3>2. CASE ~(answered[Head(events).call] > 0)
        <4>1. answered' = [answered EXCEPT ![Head(events).call] = @ + 1]
          BY <2>2, <3>2 DEF AppEvent
        <4>. QED
          BY <1>2, <2>1, <3>2, <4>1 DEF AnsweredOnce
      <3>. QED
        BY <3>1, <3>2
    <2>3. CASE UNCHANGED answered
      BY <1>2, <2>3 DEF AnsweredOnce
    <2>4. AppEvent \/ UNCHANGED answered
      BY <1>2 DEF Next, GetDocuments, WorkerBlock, StreamOpens, BackoffElapsed, StreamFails,
                  IdleTimeout, OnlineTimeout, Relaunch, Message, TargetAdded, TargetRemoved,
                  TargetCurrent, DocumentChange, WatchSnapshot, Delivered, ServerReads,
                  ServerWatch, ServerUnwatch, ServerUpdate, ServerSends, Write, vars, app
    <2>. QED
      BY <2>2, <2>3, <2>4
  <1>. QED
    BY InitCounts, NextCounts, <1>1, <1>2, PTL DEF Spec

-----------------------------------------------------------------------------
(* Answers: what stays as it was. *)

LEMMA Naturals ==
  ASSUME TypeInv
  PROVE  /\ Len(log) \in Nat
         /\ last \in Nat /\ saved \in Nat /\ token \in Nat /\ since \in Nat
         /\ \A d \in Docs : cache[d] \in Nat /\ updates[d] \in Nat
         /\ fromServer \in Seq(Messages) /\ Len(fromServer) \in Nat
         /\ \A i \in 1 .. Len(fromServer) : fromServer[i] \in Messages /\ fromServer[i].v \in Nat
         /\ watched = NotWatched \/ watched \in Nat
         /\ pending \in Nat
  <1>1. /\ {saved, last, token, since} \subseteq Versions
        /\ cache \in [Docs -> Versions] /\ updates \in [Docs -> Versions]
        /\ fromServer \in Seq(Messages) /\ log \in Seq([doc : Docs, exists : BOOLEAN])
        /\ watched \in Versions \cup {NotWatched} /\ pending \in Nat
    BY DEF TypeInv, TypeOK
  <1>2. \A m \in Messages : m.v \in Nat
    BY VersionsAreNat DEF Messages
  <1>3. \A i \in 1 .. Len(fromServer) : fromServer[i] \in Messages
    BY <1>1
  <1>4. /\ last \in Nat /\ saved \in Nat /\ token \in Nat /\ since \in Nat
        /\ watched = NotWatched \/ watched \in Nat
    BY <1>1, VersionsAreNat
  <1>5. \A d \in Docs : cache[d] \in Nat /\ updates[d] \in Nat
    BY <1>1, VersionsAreNat
  <1>6. Len(log) \in Nat /\ Len(fromServer) \in Nat
    BY <1>1
  <1>. QED
    BY <1>1, <1>2, <1>3, <1>4, <1>5, <1>6

LEMMA NoVersion ==
  ASSUME NEW d, Len(log) \in Nat
  PROVE  VersionAt(d, 0) = 0 /\ IsVersion(d, 0) /\ ~Exists(0)
  <1>1. VersionAt(d, 0) = 0
    BY VersionAtIsLast
  <1>. QED
    BY <1>1 DEF IsVersion, Exists

LEMMA SameLog ==
  ASSUME UNCHANGED log
  PROVE  /\ \A d, n : VersionAt(d, n)' = VersionAt(d, n)
         /\ \A v : Exists(v)' = Exists(v)
         /\ \A d, v : IsVersion(d, v)' = IsVersion(d, v)
  BY DEF VersionAt, Exists, IsVersion

LEMMA VersionsKept ==
  ASSUME VersionsInv, UNCHANGED <<log, cache, updates, fromServer, watched, last>>,
         since' <= Len(log), saved' <= last, token' <= last
  PROVE  VersionsInv'
  BY DEF VersionsInv, ClientVersions, MessageVersions, WatchedVersion, IsVersion, IsSnap,
         Follows

(* A new call: nothing has been said in it. *)
LEMMA VersionsClosed ==
  ASSUME TypeInv, VersionsInv, UNCHANGED <<log, cache, last>>,
         CallGone, updates' = NoUpdates,
         since' <= Len(log), saved' <= last, token' <= last
  PROVE  VersionsInv'
  <1>1. \A d \in Docs : updates'[d] = 0
    BY DEF NoUpdates
  <1>2. fromServer' = <<>> /\ watched' = NotWatched
    BY DEF CallGone
  <1>3. Len(log) \in Nat
    BY Naturals
  <1>. QED
    BY <1>1, <1>2, <1>3 DEF VersionsInv, ClientVersions, MessageVersions, WatchedVersion,
                            IsVersion

LEMMA BaseKept ==
  ASSUME TypeInv, BaseInv, UNCHANGED <<log, cache, keys>>,
         saved' \in {saved, token}, token' \in {saved, token, 0}
  PROVE  BaseInv'
  <1>1. ASSUME NEW d \in Docs, NEW r \in {saved, token, 0}
        PROVE  Holds(d, r)
    <2>1. CASE r = 0
      <3>1. VersionAt(d, Len(log)) \in 0 .. Len(log) /\ VersionAt(d, 0) = 0 /\ ~Exists(0)
        BY Naturals, NoVersion, VersionAtIsLast
      <3>2. cache[d] \in Nat
        BY Naturals
      <3>3. VersionAt(d, Len(log)) <= 0 => VersionAt(d, Len(log)) = 0
        BY <3>1
      <3>. QED
        BY <2>1, <3>1, <3>2, <3>3 DEF Holds
    <2>2. CASE r \in {saved, token}
      BY <2>2 DEF BaseInv
    <2>. QED
      BY <2>1, <2>2
  <1>2. ASSUME NEW d \in Docs, NEW r, Holds(d, r), NEW v, v = VersionAt(d, Len(log))
        PROVE  /\ r = saved' => Holds(d, saved)'
               /\ r = token' => Holds(d, token)'
    <2>1. VersionAt(d, Len(log))' = v /\ Exists(VersionAt(d, Len(log)))' = Exists(v)
      BY <1>2 DEF VersionAt, Exists
    <2>2. r = saved' => Holds(d, saved)'
      <3> SUFFICES ASSUME r = saved' PROVE Holds(d, saved)'
        OBVIOUS
      <3>1. VersionAt(d, saved)' = VersionAt(d, r)
        BY DEF VersionAt
      <3>. QED
        BY <1>2, <2>1, <3>1 DEF Holds
    <2>3. r = token' => Holds(d, token)'
      <3> SUFFICES ASSUME r = token' PROVE Holds(d, token)'
        OBVIOUS
      <3>1. VersionAt(d, token)' = VersionAt(d, r)
        BY DEF VersionAt
      <3>. QED
        BY <1>2, <2>1, <3>1 DEF Holds
    <2>. QED
      BY <2>2, <2>3
  <1>. QED
    BY <1>1, <1>2 DEF BaseInv

LEMMA StreamKept ==
  ASSUME StreamInv,
         UNCHANGED <<log, cache, keys, updates, pending, changes, fromServer, watched,
                     toServer, stream, token, since>>,
         listeners' # {} => listeners # {}
  PROVE  StreamInv'
  <1>1. /\ \A i : Fresh(i)' = Fresh(i) /\ IsSnap(i)' = IsSnap(i)
        /\ \A i, d : IsDoc(i, d)' = IsDoc(i, d)
    BY DEF Fresh, IsSnap, IsDoc
  <1>2. \A d, j, v : Told(d, j, v)' = Told(d, j, v)
    BY <1>1, SameLog DEF Told
  <1>3. \A d, j, v : Has(d, j, v)' = Has(d, j, v)
    BY <1>1, SameLog DEF Has, Untold, Collected
  <1>4. \A j, v : Reached(j, v)' = Reached(j, v)
    BY <1>2, <1>3 DEF Reached
  <1>5. \A j, v : Due(j, v)' = Due(j, v)
    BY <1>1 DEF Due
  <1>. QED
    BY <1>1, <1>4, <1>5 DEF StreamInv

LEMMA CurrentKept ==
  ASSUME CurrentInv, UNCHANGED <<log, cache, keys, token, since>>,
         current' => current /\ listeners' # {},
         pending' > 0 => updates' = NoUpdates \/ (pending > 0 /\ updates' = updates)
  PROVE  CurrentInv'
  BY DEF CurrentInv, NothingInLimbo, VersionAt, Exists

LEMMA CurrentGone ==
  ASSUME current' = FALSE
  PROVE  CurrentInv'
  BY DEF CurrentInv

LEMMA AnswersKept ==
  ASSUME WholeAnswers, UNCHANGED log, CurrentInv', VersionsInv', TypeInv',
         \A i \in 1 .. Len(events') :
           \/ events'[i].cached
           \/ \E k \in 1 .. Len(events) : events'[i] = events[k]
           \/ /\ events'[i].docs = Contents(cache)' /\ events'[i].since = since'
              /\ current'
  PROVE  WholeAnswers'
  <1> SUFFICES ASSUME NEW i \in 1 .. Len(events'), ~events'[i].cached
               PROVE  \E n \in events'[i].since .. Len(log') : events'[i].docs = StateAt(n)'
    BY DEF WholeAnswers
  <1>1. CASE \E k \in 1 .. Len(events) : events'[i] = events[k]
    <2>1. PICK k \in 1 .. Len(events) : events'[i] = events[k]
      BY <1>1
    <2>2. \E n \in events[k].since .. Len(log) : events[k].docs = StateAt(n)
      BY <2>1 DEF WholeAnswers
    <2>3. \A n : StateAt(n)' = StateAt(n)
      BY DEF StateAt, Contents, VersionAt, Exists
    <2>. QED
      BY <2>1, <2>2, <2>3
  <1>2. CASE /\ events'[i].docs = Contents(cache)' /\ events'[i].since = since'
             /\ current'
    <2>1. /\ since' <= token'
          /\ \A d \in Docs : cache'[d] = VersionAt(d, token)'
      BY <1>2 DEF CurrentInv
    <2>2. /\ Len(log') \in Nat /\ token' \in Nat /\ since' \in Nat /\ last' \in Nat
          /\ token' <= last' /\ last' <= Len(log')
      <3>1. {saved', last', token', since'} \subseteq Nat
        BY VersionsAreNat DEF TypeInv, TypeOK
      <3>2. Len(log') \in Nat
        BY DEF TypeInv, TypeOK
      <3>. QED
        BY <3>1, <3>2 DEF VersionsInv, ClientVersions
    <2>3. token' \in since' .. Len(log')
      BY <2>1, <2>2
    <2>4. Contents(cache)' = StateAt(token)'
      BY <2>1 DEF StateAt, Contents
    <2>. QED
      BY <1>2, <2>3, <2>4
  <1>. QED
    BY <1>1, <1>2

(* What listeners are told of the cache. *)
LEMMA ToldWhatIs ==
  ASSUME TypeInv, NEW calls \in SUBSET Calls, NEW cached \in BOOLEAN,
         events' = events \o Posted(calls, Contents(cache), cached),
         UNCHANGED <<cache, log, since>>, ~cached => current'
  PROVE  \A i \in 1 .. Len(events') :
           \/ events'[i].cached
           \/ \E k \in 1 .. Len(events) : events'[i] = events[k]
           \/ /\ events'[i].docs = Contents(cache)' /\ events'[i].since = since'
              /\ current'
  <1> DEFINE docs == Contents(cache)
  <1>1. events \in Seq(Events) /\ since \in Versions /\ docs \in [Docs -> Versions]
    BY ContentsTyped DEF TypeInv, TypeOK
  <1>2. docs = Contents(cache)'
    BY DEF Contents, Exists
  <1>3. events' = EventsAfter(calls, docs, cached)
    BY DEF EventsAfter
  <1>. HIDE DEF docs
  <1>4. \A i \in 1 .. Len(EventsAfter(calls, docs, cached)) :
          LET e == EventsAfter(calls, docs, cached)[i]
          IN  \/ i \in 1 .. Len(events) /\ e = events[i]
              \/ e.docs = docs /\ e.cached = cached /\ e.since = since
    BY <1>1, EventsTold
  <1>5. \A i \in 1 .. Len(events') :
          \/ i \in 1 .. Len(events) /\ events'[i] = events[i]
          \/ events'[i].docs = docs /\ events'[i].cached = cached /\ events'[i].since = since
    BY <1>3, <1>4
  <1>. QED
    BY <1>2, <1>5

LEMMA InitAnswers == Init => AnswersInv
  <1> SUFFICES ASSUME Init PROVE AnswersInv
    OBVIOUS
  <1>1. CountInv
    BY InitCounts
  <1>2. /\ log = <<>> /\ fromServer = <<>> /\ watched = NotWatched /\ events = <<>>
        /\ saved = 0 /\ token = 0 /\ last = 0 /\ since = 0 /\ current = FALSE
        /\ listeners = {}
        /\ \A d \in Docs : cache[d] = 0 /\ updates[d] = 0
    BY DEF Init, NoUpdates
  <1>3. Len(log) = 0 /\ Len(fromServer) = 0 /\ Len(events) = 0
    BY <1>2
  <1>4. VersionsInv
    BY <1>2, <1>3 DEF VersionsInv, ClientVersions, MessageVersions, WatchedVersion, IsVersion
  <1>5. BaseInv
    <2>1. ASSUME NEW d \in Docs PROVE Holds(d, 0)
      BY <1>2, <1>3, NoVersion DEF Holds
    <2>. QED
      BY <1>2, <2>1 DEF BaseInv
  <1>6. StreamInv /\ CurrentInv /\ WholeAnswers
    BY <1>2, <1>3 DEF StreamInv, CurrentInv, WholeAnswers
  <1>. QED
    BY <1>1, <1>4, <1>5, <1>6 DEF AnswersInv

LEMMA AppAnswers ==
  ASSUME AnswersInv, CountInv', GetDocuments \/ AppEvent
  PROVE  AnswersInv'
  <1>1. /\ UNCHANGED <<cache, keys, saved, last, log, updates, pending, changes, fromServer,
                       watched, toServer, stream, token, since, listeners, current>>
        /\ TypeInv
    BY DEF GetDocuments, AppEvent, disk, views, aggregator, wire, AnswersInv, CountInv
  <1>2. since <= Len(log) /\ saved <= last /\ token <= last
    BY DEF AnswersInv, VersionsInv, ClientVersions
  <1>3. VersionsInv'
    BY <1>1, <1>2, VersionsKept DEF AnswersInv
  <1>4. BaseInv' /\ StreamInv' /\ CurrentInv'
    <2>1. BaseInv'
      BY <1>1, BaseKept DEF AnswersInv
    <2>2. StreamInv'
      BY <1>1, StreamKept DEF AnswersInv
    <2>3. CurrentInv'
      BY <1>1, CurrentKept DEF AnswersInv, CurrentInv
    <2>. QED
      BY <2>1, <2>2, <2>3
  <1>5. \A i \in 1 .. Len(events') : \E k \in 1 .. Len(events) : events'[i] = events[k]
    <2>1. events \in Seq(Events)
      BY <1>1 DEF TypeInv
    <2>2. events' = events \/ (events # <<>> /\ events' = Tail(events))
      BY DEF GetDocuments, AppEvent
    <2>3. CASE events # <<>> /\ events' = Tail(events)
      <3>1. \A i \in 1 .. Len(events') : i + 1 \in 1 .. Len(events) /\ events'[i] = events[i + 1]
        BY <2>1, <2>3
      <3>. QED
        BY <3>1
    <2>. QED
      BY <2>2, <2>3
  <1>6. WholeAnswers'
    <2>1. TypeInv'
      BY DEF CountInv
    <2>. QED
      BY <1>1, <1>3, <1>4, <1>5, <2>1, AnswersKept DEF AnswersInv
  <1>. QED
    BY <1>3, <1>4, <1>6 DEF AnswersInv

-----------------------------------------------------------------------------
(* Answers: the blocks of the worker queue. *)

LEMMA JoinAnswers ==
  ASSUME AnswersInv, CountInv', NEW c \in Calls, listeners # {}, JoinListeners(c),
         UNCHANGED log
  PROVE  AnswersInv'
  <1>1. /\ UNCHANGED <<cache, keys, saved, last, log, updates, pending, changes, fromServer,
                       watched, toServer, stream, token, since, current>>
        /\ TypeInv /\ listeners' # {}
    BY DEF JoinListeners, disk, aggregator, wire, AnswersInv, CountInv
  <1>2. since <= Len(log) /\ saved <= last /\ token <= last
    BY DEF AnswersInv, VersionsInv, ClientVersions
  <1>3. VersionsInv'
    BY <1>1, <1>2, VersionsKept DEF AnswersInv
  <1>4. BaseInv' /\ StreamInv' /\ CurrentInv'
    <2>1. BaseInv'
      BY <1>1, BaseKept DEF AnswersInv
    <2>2. StreamInv'
      BY <1>1, StreamKept DEF AnswersInv
    <2>3. CurrentInv'
      BY <1>1, CurrentKept DEF AnswersInv, CurrentInv
    <2>. QED
      BY <2>1, <2>2, <2>3
  <1>5. \A i \in 1 .. Len(events') :
           \/ events'[i].cached
           \/ \E k \in 1 .. Len(events) : events'[i] = events[k]
           \/ /\ events'[i].docs = Contents(cache)' /\ events'[i].since = since'
              /\ current'
    <2>1. CASE Synced \/ online = "Offline"
      <3>1. events' = events \o Posted({c}, Contents(cache), ~Synced)
        BY <2>1, Zenon DEF JoinListeners
      <3>2. Synced => current'
        BY <1>1 DEF Synced, SyncedWith
      <3>3. {c} \in SUBSET Calls /\ (~Synced) \in BOOLEAN
        OBVIOUS
      <3> DEFINE cached == ~Synced
      <3>4. ~cached => current'
        BY <3>2
      <3>. HIDE DEF cached
      <3>5. events' = events \o Posted({c}, Contents(cache), cached) /\ cached \in BOOLEAN
        BY <3>1, <3>3 DEF cached
      <3>. QED
        BY <1>1, <3>3, <3>4, <3>5, ToldWhatIs
    <2>2. CASE ~(Synced \/ online = "Offline")
      BY <2>2 DEF JoinListeners
    <2>. QED
      BY <2>1, <2>2
  <1>6. WholeAnswers'
    <2>1. TypeInv'
      BY DEF CountInv
    <2>. QED
      BY <1>1, <1>3, <1>4, <1>5, <2>1, AnswersKept DEF AnswersInv
  <1>. QED
    BY <1>3, <1>4, <1>6 DEF AnswersInv

LEMMA FirstAnswers ==
  ASSUME AnswersInv, CountInv', NEW c \in Calls, listeners = {}, FirstListener(c),
         UNCHANGED log
  PROVE  AnswersInv'
  <1>1. /\ listeners' = {c} /\ current' = FALSE /\ token' = saved /\ since' = Len(log)
        /\ UNCHANGED <<cache, keys, saved, last, log, fromServer, watched>>
        /\ TypeInv
    BY DEF FirstListener, disk, AnswersInv, CountInv
  <1>2. since' <= Len(log) /\ saved' <= last /\ token' <= last
    BY <1>1, Naturals DEF AnswersInv, VersionsInv, ClientVersions
  <1>3. VersionsInv'
    <2>1. CASE IsStarted
      <3>1. UNCHANGED updates
        BY <2>1 DEF FirstListener
      <3>. QED
        BY <1>1, <1>2, <3>1, VersionsKept DEF AnswersInv
    <2>2. CASE ~IsStarted
      <3>1. updates' = NoUpdates
        BY <2>2 DEF FirstListener, NewAggregator
      <3>2. fromServer = <<>> /\ watched = NotWatched /\ updates = NoUpdates
        BY <2>2 DEF AnswersInv, CountInv, ClosedInv, IsStarted
      <3>. QED
        BY <1>1, <1>2, <3>1, <3>2, VersionsKept DEF AnswersInv
    <2>. QED
      BY <2>1, <2>2
  <1>4. BaseInv' /\ CurrentInv'
    BY <1>1, BaseKept, CurrentGone DEF AnswersInv
  <1>5. StreamInv'
    <2>1. CASE ~IsStarted
      BY <2>1 DEF FirstListener, Start, StreamInv
    <2>2. CASE IsStarted /\ stream = "Open"
      <3>1. toServer' = Append(toServer, saved)
        BY <2>2 DEF FirstListener, Send, Watch
      <3>2. toServer' # <<>> /\ toServer'[Len(toServer')] = saved
        <4>1. toServer \in Seq(Versions \cup {Unwatch}) /\ saved \in Versions \cup {Unwatch}
          BY <1>1 DEF TypeInv, TypeOK
        <4>. QED
          BY <3>1, <4>1, AppendProperties
      <3>. QED
        BY <1>1, <3>2 DEF StreamInv
    <2>3. CASE IsStarted /\ stream # "Open"
      BY <2>3 DEF FirstListener, StreamInv
    <2>. QED
      BY <2>1, <2>2, <2>3
  <1>6. WholeAnswers'
    <2>1. \A i \in 1 .. Len(events') :
            events'[i].cached \/ \E k \in 1 .. Len(events) : events'[i] = events[k]
      <3>1. CASE online = "Offline"
        <4>1. PICK e : e.cached /\ events' = Append(events, e)
          BY <3>1 DEF FirstListener, Event
        <4>2. events \in Seq(Events)
          BY <1>1 DEF TypeInv
        <4>3. \A i \in 1 .. Len(events') :
                events'[i] = e \/ (i \in 1 .. Len(events) /\ events'[i] = events[i])
          BY <4>1, <4>2
        <4>. QED
          BY <4>1, <4>3
      <3>2. CASE online # "Offline"
        BY <3>2 DEF FirstListener
      <3>. QED
        BY <3>1, <3>2
    <2>2. TypeInv'
      BY DEF CountInv
    <2>. QED
      BY <1>1, <1>3, <1>4, <2>1, <2>2, AnswersKept DEF AnswersInv
  <1>. QED
    BY <1>3, <1>4, <1>5, <1>6 DEF AnswersInv

LEMMA RemoveAnswers ==
  ASSUME AnswersInv, CountInv', NEW c \in Calls, RemoveListener(c), UNCHANGED log
  PROVE  AnswersInv'
  <1>1. /\ listeners' = listeners \ {c} /\ TypeInv
        /\ UNCHANGED <<cache, keys, last, events, stream, changes, updates, fromServer,
                       watched, log>>
    BY DEF RemoveListener, AnswersInv, CountInv
  <1>2. \/ /\ listeners = {c} /\ current' = FALSE /\ since' = 0 /\ saved' = token
           /\ token' = 0
        \/ /\ listeners # {c}
           /\ UNCHANGED <<current, saved, token, since, toServer, pending>>
    BY DEF RemoveListener, StopListening
  <1>3. since' <= Len(log) /\ saved' <= last /\ token' <= last
    <2>1. /\ since <= Len(log) /\ saved <= last /\ token <= last
          /\ last \in Nat /\ Len(log) \in Nat
      BY <1>1, Naturals DEF AnswersInv, VersionsInv, ClientVersions
    <2>. QED
      BY <1>2, <2>1
  <1>4. VersionsInv' /\ BaseInv'
    BY <1>1, <1>2, <1>3, VersionsKept, BaseKept DEF AnswersInv
  <1>5. StreamInv'
    <2>1. CASE listeners = {c}
      BY <1>1, <2>1 DEF StreamInv
    <2>2. CASE listeners # {c}
      BY <1>1, <1>2, <2>2, StreamKept DEF AnswersInv
    <2>. QED
      BY <2>1, <2>2
  <1>6. CurrentInv'
    <2>1. CASE listeners = {c}
      BY <1>2, <2>1, CurrentGone
    <2>2. CASE listeners # {c}
      <3>1. current' => current /\ listeners' # {}
        BY <1>1, <1>2, <2>2 DEF AnswersInv, CurrentInv
      <3>. QED
        BY <1>1, <1>2, <2>2, <3>1, CurrentKept DEF AnswersInv
    <2>. QED
      BY <2>1, <2>2
  <1>7. WholeAnswers'
    <2>1. TypeInv'
      BY DEF CountInv
    <2>. QED
      BY <1>1, <1>4, <1>6, <2>1, AnswersKept DEF AnswersInv
  <1>. QED
    BY <1>4, <1>5, <1>6, <1>7 DEF AnswersInv

LEMMA BlockAnswers ==
  ASSUME AnswersInv, CountInv', WorkerBlock
  PROVE  AnswersInv'
  <1>1. /\ worker # <<>> /\ UNCHANGED log
        /\ \/ AddListener(Head(worker).call)
           \/ RemoveListener(Head(worker).call)
    BY DEF WorkerBlock
  <1>2. Head(worker).call \in Calls
    BY <1>1, BlockTaken DEF AnswersInv, CountInv
  <1>. QED
    BY <1>1, <1>2, JoinAnswers, FirstAnswers, RemoveAnswers DEF AddListener

-----------------------------------------------------------------------------
(* Answers: the stream, its timers, and restarts. *)

LEMMA OfflineAnswers ==
  ASSUME TypeInv, GoOffline, UNCHANGED <<cache, log, since>>
  PROVE  \A i \in 1 .. Len(events') :
           \/ events'[i].cached
           \/ \E k \in 1 .. Len(events) : events'[i] = events[k]
           \/ /\ events'[i].docs = Contents(cache)' /\ events'[i].since = since'
              /\ current'
  <1> DEFINE told == IF Synced THEN listeners ELSE listeners \ raised
  <1>1. told \in SUBSET Calls
    BY DEF TypeInv, TypeOK
  <1>2. events' = events \o Posted(told, Contents(cache), TRUE)
    BY DEF GoOffline
  <1>. HIDE DEF told
  <1>. QED
    BY <1>1, <1>2, ToldWhatIs

LEMMA StreamAnswers ==
  ASSUME AnswersInv, CountInv',
         \/ StreamOpens \/ BackoffElapsed \/ StreamFails
         \/ IdleTimeout \/ OnlineTimeout \/ Relaunch
  PROVE  AnswersInv'
  <1>0. /\ since <= Len(log) /\ saved <= last /\ token <= last /\ 0 <= last /\ 0 <= Len(log)
        /\ TypeInv /\ TypeInv' /\ since \in Versions
    <2>1. TypeInv /\ TypeInv'
      BY DEF AnswersInv, CountInv
    <2>2. last \in Nat /\ Len(log) \in Nat /\ since \in Versions
      BY <2>1, Naturals DEF TypeInv, TypeOK
    <2>. QED
      BY <2>1, <2>2 DEF AnswersInv, VersionsInv, ClientVersions
  <1>1. CASE StreamOpens
    <2>1. /\ stream = "Starting" /\ stream' = "Open"
          /\ UNCHANGED <<cache, keys, saved, last, events, listeners, current, token, since,
                         changes, updates, fromServer, watched, log>>
      BY <1>1 DEF StreamOpens, disk, views
    <2>2. updates = NoUpdates
      BY <2>1 DEF AnswersInv, CountInv, ClosedInv
    <2>3. VersionsInv' /\ BaseInv' /\ CurrentInv'
      <3>1. VersionsInv' /\ BaseInv'
        BY <1>0, <2>1, VersionsKept, BaseKept DEF AnswersInv
      <3>2. CurrentInv'
        BY <2>1, <2>2, CurrentKept DEF AnswersInv, CurrentInv
      <3>. QED
        BY <3>1, <3>2
    <2>4. StreamInv'
      <3>1. CASE listeners # {}
        <4>1. toServer' = Append(toServer, token)
          BY <1>1, <3>1 DEF StreamOpens, Send, Watch
        <4>2. toServer \in Seq(Versions \cup {Unwatch}) /\ token \in Versions \cup {Unwatch}
          BY <1>0 DEF TypeInv, TypeOK
        <4>3. toServer' # <<>> /\ toServer'[Len(toServer')] = token
          BY <4>1, <4>2, AppendProperties
        <4>. QED
          BY <2>1, <4>3 DEF StreamInv
      <3>2. CASE listeners = {}
        BY <2>1, <3>2 DEF StreamInv
      <3>. QED
        BY <3>1, <3>2
    <2>5. WholeAnswers'
      BY <1>0, <2>1, <2>3, AnswersKept DEF AnswersInv
    <2>. QED
      BY <2>3, <2>4, <2>5 DEF AnswersInv
  <1>2. CASE BackoffElapsed
    <2>1. /\ stream' # "Open"
          /\ UNCHANGED <<cache, keys, saved, last, events, listeners, current, token, since,
                         pending, updates, fromServer, watched, log>>
      BY <1>2 DEF BackoffElapsed, Start, disk, views, aggregator, wire
    <2>2. VersionsInv' /\ BaseInv'
      BY <1>0, <2>1, VersionsKept, BaseKept DEF AnswersInv
    <2>3. CurrentInv'
      BY <2>1, CurrentKept DEF AnswersInv, CurrentInv
    <2>4. StreamInv' /\ WholeAnswers'
      BY <1>0, <2>1, <2>2, <2>3, AnswersKept DEF AnswersInv, StreamInv
    <2>. QED
      BY <2>2, <2>3, <2>4 DEF AnswersInv
  <1>3. CASE StreamFails
    <2>1. /\ CallGone /\ pending' = 0 /\ updates' = NoUpdates /\ stream' # "Open"
          /\ UNCHANGED <<cache, keys, saved, last, listeners, token, since, log>>
          /\ current' => current
          /\ \/ UNCHANGED events
             \/ GoOffline
      BY <1>3 DEF StreamFails, NewAggregator, RetryStream, GoOffline, disk
    <2>2. VersionsInv' /\ BaseInv'
      BY <1>0, <2>1, VersionsClosed, BaseKept DEF AnswersInv
    <2>3. CurrentInv'
      BY <2>1, CurrentKept DEF AnswersInv, CurrentInv
    <2>4. StreamInv'
      BY <2>1 DEF StreamInv
    <2>5. WholeAnswers'
      <3>1. CASE UNCHANGED events
        BY <1>0, <2>1, <2>2, <2>3, <3>1, AnswersKept DEF AnswersInv
      <3>2. CASE GoOffline
        BY <1>0, <2>1, <2>2, <2>3, <3>2, OfflineAnswers, AnswersKept DEF AnswersInv
      <3>. QED
        BY <2>1, <3>1, <3>2
    <2>. QED
      BY <2>2, <2>3, <2>4, <2>5 DEF AnswersInv
  <1>4. CASE IdleTimeout
    <2>1. /\ CallGone /\ pending' = 0 /\ updates' = NoUpdates /\ stream' # "Open"
          /\ UNCHANGED <<cache, keys, saved, last, listeners, current, token, since, log,
                         events>>
      BY <1>4 DEF IdleTimeout, NewAggregator, disk, views
    <2>2. VersionsInv' /\ BaseInv'
      BY <1>0, <2>1, VersionsClosed, BaseKept DEF AnswersInv
    <2>3. CurrentInv'
      BY <2>1, CurrentKept DEF AnswersInv, CurrentInv
    <2>4. StreamInv'
      BY <2>1 DEF StreamInv
    <2>5. WholeAnswers'
      BY <1>0, <2>1, <2>2, <2>3, AnswersKept DEF AnswersInv
    <2>. QED
      BY <2>2, <2>3, <2>4, <2>5 DEF AnswersInv
  <1>5. CASE OnlineTimeout
    <2>1. /\ GoOffline /\ current' = FALSE
          /\ UNCHANGED <<cache, keys, saved, last, updates, pending, changes, fromServer,
                         watched, toServer, stream, token, since, listeners, log>>
      BY <1>5 DEF OnlineTimeout, GoOffline, disk, aggregator, wire
    <2>2. VersionsInv' /\ BaseInv' /\ StreamInv'
      <3>1. VersionsInv' /\ BaseInv'
        BY <1>0, <2>1, VersionsKept, BaseKept DEF AnswersInv
      <3>2. StreamInv'
        BY <2>1, StreamKept DEF AnswersInv
      <3>. QED
        BY <3>1, <3>2
    <2>3. CurrentInv'
      BY <2>1, CurrentGone
    <2>4. WholeAnswers'
      BY <1>0, <2>1, <2>2, <2>3, OfflineAnswers, AnswersKept DEF AnswersInv
    <2>. QED
      BY <2>2, <2>3, <2>4 DEF AnswersInv
  <1>6. CASE Relaunch
    <2>1. /\ CallGone /\ updates' = NoUpdates /\ stream' # "Open" /\ current' = FALSE
          /\ token' = 0 /\ since' = 0 /\ events' = <<>>
          /\ UNCHANGED <<cache, keys, saved, last, log>>
      BY <1>6 DEF Relaunch, NewAggregator, disk
    <2>2. VersionsInv' /\ BaseInv'
      BY <1>0, <2>1, VersionsClosed, BaseKept DEF AnswersInv
    <2>3. CurrentInv' /\ StreamInv'
      BY <2>1, CurrentGone DEF StreamInv
    <2>4. WholeAnswers'
      BY <2>1 DEF WholeAnswers
    <2>. QED
      BY <2>2, <2>3, <2>4 DEF AnswersInv
  <1>. QED
    BY <1>1, <1>2, <1>3, <1>4, <1>5, <1>6

-----------------------------------------------------------------------------
(* Answers: messages. *)

(* The messages left are those after the first. *)
LEMMA Shifted ==
  ASSUME fromServer \in Seq(Messages), fromServer # <<>>, fromServer' = Tail(fromServer)
  PROVE  /\ Len(fromServer) \in Nat \ {0} /\ Len(fromServer') = Len(fromServer) - 1
         /\ Head(fromServer) = fromServer[1]
         /\ \A i \in 1 .. Len(fromServer) - 1 :
              /\ fromServer'[i] = fromServer[i + 1]
              /\ Fresh(i)' <=> Fresh(i + 1)
              /\ IsSnap(i)' <=> IsSnap(i + 1)
              /\ \A d : IsDoc(i, d)' <=> IsDoc(i + 1, d)
  <1> DEFINE n == Len(fromServer)
  <1>1. /\ n \in Nat \ {0} /\ Len(fromServer') = n - 1 /\ Head(fromServer) = fromServer[1]
        /\ \A i \in 1 .. n - 1 : fromServer'[i] = fromServer[i + 1]
    OBVIOUS
  <1>2. ASSUME NEW i \in 1 .. n - 1
        PROVE  Fresh(i)' <=> Fresh(i + 1)
    <2>1. Fresh(i)' <=> \A k \in i .. n - 1 : ~IsAck(fromServer[k + 1])
      BY <1>1, <1>2 DEF Fresh, IsAck
    <2>2. \A k \in i + 1 .. n : k - 1 \in i .. n - 1 /\ k = (k - 1) + 1
      BY <1>1, <1>2
    <2>3. \A k \in i .. n - 1 : k + 1 \in i + 1 .. n
      BY <1>1, <1>2
    <2>. QED
      BY <2>1, <2>2, <2>3 DEF Fresh
  <1>3. ASSUME NEW i \in 1 .. n - 1
        PROVE  /\ IsSnap(i)' <=> IsSnap(i + 1)
               /\ \A d : IsDoc(i, d)' <=> IsDoc(i + 1, d)
    BY <1>1, <1>3 DEF IsSnap, IsDoc
  <1>. QED
    BY <1>1, <1>2, <1>3

(* A document told of later is told of still. *)
LEMMA ToldStill ==
  ASSUME fromServer \in Seq(Messages), fromServer # <<>>, fromServer' = Tail(fromServer),
         UNCHANGED log,
         NEW d, NEW j \in 1 .. Len(fromServer), NEW v, Told(d, j + 1, v),
         ~(Fresh(1) /\ IsDoc(1, d))
  PROVE  Told(d, j, v)'
  <1> DEFINE n == Len(fromServer)
             u == VersionAt(d, v)
  <1>1. PICK i \in 1 .. j : /\ Fresh(i) /\ IsDoc(i, d)
                            /\ \A k \in i .. j : IsDoc(k, d) => fromServer[k].v = u
    <2>1. (j + 1) - 1 = j
      BY Shifted
    <2>. QED
      BY <2>1 DEF Told
  <1>2. VersionAt(d, v)' = u
    BY SameLog
  <1>3. n \in Nat /\ i # 1 /\ i - 1 \in 1 .. j - 1 /\ i - 1 \in 1 .. n - 1 /\ (i - 1) + 1 = i
        /\ j - 1 <= n - 1
    BY <1>1, Shifted
  <1>4. Fresh(i - 1)' /\ IsDoc(i - 1, d)'
    <2> DEFINE h == i - 1
    <2>1. h \in 1 .. n - 1 /\ h + 1 = i
      BY <1>3
    <2>. HIDE DEF h
    <2>2. Fresh(h)' /\ IsDoc(h, d)'
      BY <1>1, <2>1, Shifted
    <2>. QED
      BY <2>2 DEF h
  <1>5. ASSUME NEW k \in i - 1 .. j - 1, IsDoc(k, d)'
        PROVE  fromServer'[k].v = u
    <2>1. k \in 1 .. n - 1 /\ k + 1 \in i .. j
      BY <1>3, <1>5
    <2>2. IsDoc(k + 1, d) /\ fromServer'[k] = fromServer[k + 1]
      BY <1>5, <2>1, Shifted
    <2>. QED
      BY <1>1, <2>1, <2>2
  <1>. QED
    BY <1>2, <1>3, <1>4, <1>5 DEF Told

(* A document told of by the first message only is not told of later.       *)
LEMMA ToldOnce ==
  ASSUME fromServer \in Seq(Messages), fromServer # <<>>, fromServer' = Tail(fromServer),
         UNCHANGED log,
         NEW d, NEW j \in 1 .. Len(fromServer), NEW v, Told(d, j + 1, v),
         Fresh(1), IsDoc(1, d), ~Told(d, j, v)'
  PROVE  Untold(d, j)' /\ fromServer[1].v = VersionAt(d, v)
  <1> DEFINE n == Len(fromServer)
             u == VersionAt(d, v)
  <1>1. PICK i \in 1 .. j : /\ Fresh(i) /\ IsDoc(i, d)
                            /\ \A k \in i .. j : IsDoc(k, d) => fromServer[k].v = u
    <2>1. (j + 1) - 1 = j
      BY Shifted
    <2>. QED
      BY <2>1 DEF Told
  <1>2. VersionAt(d, v)' = u /\ n \in Nat
    BY SameLog, Shifted
  <1>3. ASSUME NEW h \in 1 .. j - 1, IsDoc(h, d)', h + 1 >= i, Fresh(h)'
        PROVE  FALSE
    <2>1. ASSUME NEW k \in h .. j - 1, IsDoc(k, d)'
          PROVE  fromServer'[k].v = u
      <3>1. k \in 1 .. n - 1 /\ k + 1 \in i .. j
        BY <1>2, <1>3, <2>1
      <3>2. IsDoc(k + 1, d) /\ fromServer'[k] = fromServer[k + 1]
        BY <2>1, <3>1, Shifted
      <3>. QED
        BY <1>1, <3>1, <3>2
    <2>. QED
      BY <1>2, <1>3, <2>1 DEF Told
  <1>4. i = 1
    <2> SUFFICES ASSUME i # 1 PROVE FALSE
      OBVIOUS
    <2> DEFINE h == i - 1
    <2>1. h \in 1 .. j - 1 /\ h \in 1 .. n - 1 /\ h + 1 = i /\ h + 1 >= i
      BY <1>2
    <2>. HIDE DEF h
    <2>2. Fresh(h)' /\ IsDoc(h, d)'
      BY <1>1, <2>1, Shifted
    <2>. QED
      BY <1>3, <2>1, <2>2
  <1>5. fromServer[1].v = u
    BY <1>1, <1>4
  <1>6. Untold(d, j)'
    <2> SUFFICES ASSUME NEW h \in 1 .. j - 1, Fresh(h)', IsDoc(h, d)' PROVE FALSE
      BY DEF Untold
    <2>1. h + 1 >= i
      BY <1>4
    <2>. QED
      BY <1>3, <2>1
  <1>. QED
    BY <1>5, <1>6

LEMMA UntoldStill ==
  ASSUME fromServer \in Seq(Messages), fromServer # <<>>, fromServer' = Tail(fromServer),
         NEW d, NEW j \in 1 .. Len(fromServer), Untold(d, j + 1)
  PROVE  Untold(d, j)'
  <1> SUFFICES ASSUME NEW i \in 1 .. j - 1, Fresh(i)' PROVE ~IsDoc(i, d)'
    BY DEF Untold
  <1>1. i \in 1 .. Len(fromServer) - 1 /\ i + 1 \in 1 .. (j + 1) - 1
    BY Shifted
  <1>2. Fresh(i + 1) => ~IsDoc(i + 1, d)
    BY <1>1 DEF Untold
  <1>. QED
    BY <1>1, <1>2, Shifted

(* A client that waits for nothing has no confirmation to come, one that    *)
(* waits only for confirmations has one to come.                            *)
LEMMA WaitsForAcks ==
  ASSUME CountInv, stream = "Open"
  PROVE  /\ pending = 0 => toServer = <<>> /\ \A i \in 1 .. Len(fromServer) : Fresh(i)
         /\ pending > 0 /\ toServer = <<>> => ~Fresh(1)
  <1> DEFINE A == {i \in 1 .. Len(fromServer) : fromServer[i].kind \in {"added", "removed"}}
  <1>1. /\ pending = Len(toServer) + Acks /\ Acks = Cardinality(A) /\ Acks \in Nat
        /\ toServer \in Seq(Versions \cup {Unwatch}) /\ fromServer \in Seq(Messages)
    BY AcksCounted DEF CountInv, RequestsCounted, TypeInv, TypeOK, Acks
  <1>2. IsFiniteSet(A)
    <2>1. IsFiniteSet(1 .. Len(fromServer))
      BY <1>1, FS_Interval
    <2>. QED
      BY <2>1, FS_Subset
  <1>3. Cardinality(A) = 0 <=> A = {}
    BY <1>2, FS_EmptySet
  <1>4. A = {} => \A i \in 1 .. Len(fromServer) : Fresh(i)
    BY <1>1 DEF Fresh, IsAck
  <1>5. A # {} => ~Fresh(1)
    BY DEF Fresh, IsAck
  <1>. HIDE DEF A
  <1>6. Len(toServer) \in Nat /\ (Len(toServer) = 0 <=> toServer = <<>>)
    BY <1>1
  <1>. QED
    BY <1>1, <1>3, <1>4, <1>5, <1>6

(* What is due is newer than what the client has. *)
LEMMA DueIsNew ==
  ASSUME AnswersInv, NEW j, NEW v \in Versions, Due(j, v), j \in 1 .. Len(fromServer) + 1
  PROVE  last <= v /\ \A d \in Docs : updates[d] <= v
  <1>1. CASE j <= Len(fromServer) /\ IsSnap(j) /\ Fresh(j) /\ v = fromServer[j].v
    <2>1. j \in 1 .. Len(fromServer)
      BY <1>1
    <2>. QED
      BY <1>1, <2>1 DEF AnswersInv, VersionsInv, MessageVersions, Follows
  <1>2. CASE v = watched
    <2>1. watched # NotWatched
      BY <1>2, ListenAssumption DEF Versions, NotWatched
    <2>. QED
      BY <1>2, <2>1 DEF AnswersInv, VersionsInv, WatchedVersion, Follows
  <1>. QED
    BY <1>1, <1>2 DEF Due

(* What is left to be shown for a message: documents are still told or had. *)
LEMMA StreamStep ==
  ASSUME AnswersInv, NEW kind, Delivered(kind),
         token' = token \/ pending = 0,
         ASSUME listeners # {}, toServer = <<>>,
                NEW d \in Docs, NEW j \in 1 .. Len(fromServer), NEW v \in Versions,
                last <= v, updates[d] <= v,
                Told(d, j + 1, v) \/ Has(d, j + 1, v)
         PROVE  Told(d, j, v)' \/ Has(d, j, v)'
  PROVE  StreamInv'
  <1>1. /\ stream = "Open" /\ fromServer # <<>> /\ fromServer' = Tail(fromServer)
        /\ UNCHANGED <<stream, toServer, watched, listeners, since, log>>
        /\ fromServer \in Seq(Messages) /\ TypeInv /\ CountInv
    BY DeliveredIs DEF AnswersInv, CountInv, TypeInv
  <1> DEFINE n == Len(fromServer)
  <1>2. n \in Nat \ {0} /\ Len(fromServer') = n - 1 /\ Len(fromServer') + 1 = n
    BY <1>1, Shifted
  <1>3. CASE listeners = {}
    BY <1>1, <1>3 DEF StreamInv
  <1>4. CASE listeners # {} /\ toServer # <<>>
    <2>1. token' = token
      BY <1>1, <1>4, WaitsForAcks
    <2>. QED
      BY <1>1, <1>4, <2>1 DEF AnswersInv, StreamInv
  <1>5. CASE listeners # {} /\ toServer = <<>>
    <2>1. ASSUME NEW j \in 1 .. n, NEW v \in Versions, Due(j, v)'
          PROVE  since <= v /\ Reached(j, v)'
      <3>1. j + 1 \in 1 .. n + 1
        BY <1>2
      <3>2. Due(j + 1, v)
        <4>1. CASE j <= n - 1 /\ IsSnap(j)' /\ Fresh(j)' /\ v = fromServer'[j].v
          <5>1. j \in 1 .. n - 1
            BY <1>2, <4>1
          <5>. QED
            BY <1>1, <1>2, <4>1, <5>1, Shifted DEF Due
        <4>2. CASE j = n /\ v = watched
          BY <1>2, <4>2 DEF Due
        <4>. QED
          BY <1>1, <1>2, <2>1, <4>1, <4>2 DEF Due
      <3>3. since <= v /\ Reached(j + 1, v)
        BY <1>1, <1>5, <3>1, <3>2 DEF AnswersInv, StreamInv
      <3>4. last <= v /\ \A d \in Docs : updates[d] <= v
        BY <3>1, <3>2, DueIsNew
      <3>5. ASSUME NEW d \in Docs
            PROVE  Told(d, j, v)' \/ Has(d, j, v)'
        <4>1. Told(d, j + 1, v) \/ Has(d, j + 1, v)
          BY <3>3 DEF Reached
        <4>. QED
          BY <1>5, <3>4, <4>1
      <3>. QED
        BY <3>3, <3>5 DEF Reached
    <2>. QED
      BY <1>1, <1>2, <1>5, <2>1 DEF StreamInv
  <1>. QED
    BY <1>3, <1>4, <1>5

(* What follows on the rest follows on what the first message leaves.       *)
LEMMA FollowStill ==
  ASSUME AnswersInv, NEW kind, Delivered(kind),
         last' \in {last, fromServer[1].v},
         \A d \in Docs : updates'[d] \in {updates[d], fromServer[1].v, 0}
  PROVE  MessageVersions' /\ WatchedVersion'
  <1>1. /\ fromServer # <<>> /\ fromServer' = Tail(fromServer)
        /\ UNCHANGED <<watched, log>>
        /\ fromServer \in Seq(Messages) /\ TypeInv
    BY DeliveredIs DEF AnswersInv, CountInv, TypeInv
  <1> DEFINE n == Len(fromServer)
  <1>2. /\ n \in Nat \ {0} /\ Len(fromServer') = n - 1
        /\ \A i \in 1 .. n - 1 : fromServer'[i] = fromServer[i + 1]
    BY <1>1, Shifted
  <1>3. ASSUME NEW v \in Nat, NEW j \in 1 .. n, Follows(v, j)
        PROVE  Follows(v, j - 1)'
    <2>1. last <= v /\ (\A d \in Docs : updates[d] <= v)
          /\ \A h \in 1 .. j : fromServer[h].v <= v
      BY <1>3 DEF Follows
    <2>2. fromServer[1].v <= v
      BY <1>2, <2>1
    <2>3. last' <= v /\ \A d \in Docs : updates'[d] <= v
      BY <2>1, <2>2
    <2>4. ASSUME NEW h \in 1 .. j - 1 PROVE fromServer'[h].v <= v
      <3>1. h \in 1 .. n - 1 /\ h + 1 \in 1 .. j
        BY <1>2
      <3>. QED
        BY <1>2, <2>1, <3>1
    <2>. QED
      BY <2>3, <2>4 DEF Follows
  <1>4. ASSUME NEW i \in 1 .. n - 1
        PROVE  /\ fromServer'[i].v <= Len(log')
               /\ fromServer'[i].kind = "doc" =>
                    fromServer'[i].doc \in Docs /\ IsVersion(fromServer[i].doc, fromServer[i].v)'
               /\ IsSnap(i)' => Follows(fromServer[i].v, i)'
    <2>1. i + 1 \in 1 .. n /\ fromServer'[i] = fromServer[i + 1] /\ (i + 1) - 1 = i
      BY <1>2
    <2>2. /\ fromServer[i + 1].v <= Len(log)
          /\ fromServer[i + 1].kind = "doc" =>
               /\ fromServer[i + 1].doc \in Docs
               /\ IsVersion(fromServer[i + 1].doc, fromServer[i + 1].v)
          /\ IsSnap(i + 1) => Follows(fromServer[i + 1].v, i + 1)
      BY <2>1 DEF AnswersInv, VersionsInv, MessageVersions
    <2>3. fromServer[i + 1].v \in Nat
      BY <1>1, <2>1, Naturals
    <2>4. IsVersion(fromServer[i + 1].doc, fromServer[i + 1].v) <=>
            IsVersion(fromServer[i].doc, fromServer[i].v)'
      BY <1>1, <2>1 DEF IsVersion
    <2>5. ASSUME NEW v, v = fromServer[i + 1].v, Follows(v, i + 1)
          PROVE  Follows(fromServer[i].v, i)'
      <3>1. Follows(v, (i + 1) - 1)'
        BY <1>3, <2>1, <2>3, <2>5
      <3>2. Follows(v, i)'
        BY <2>1, <3>1
      <3>. QED
        BY <2>1, <2>5, <3>2 DEF Follows
    <2>6. IsSnap(i)' => IsSnap(i + 1)
      BY <2>1 DEF IsSnap
    <2>. QED
      BY <1>1, <2>1, <2>2, <2>4, <2>5, <2>6
  <1>5. MessageVersions'
    BY <1>2, <1>4 DEF MessageVersions
  <1>6. ASSUME watched' # NotWatched
        PROVE  watched' <= Len(log') /\ Follows(watched, Len(fromServer))'
    <2>1. watched <= Len(log) /\ Follows(watched, n) /\ watched \in Nat
      BY <1>1, <1>6, Naturals DEF AnswersInv, VersionsInv, WatchedVersion
    <2>2. ASSUME NEW v, v = watched PROVE Follows(watched, Len(fromServer))'
      <3>1. ASSUME NEW j, j = n PROVE Follows(v, j - 1)'
        BY <1>2, <1>3, <2>1, <2>2, <3>1
      <3>2. ASSUME NEW j, j = n - 1 PROVE Follows(v, j)'
        <4>1. (j + 1) - 1 = j /\ j + 1 = n
          BY <1>2, <3>2
        <4>2. Follows(v, (j + 1) - 1)'
          BY <3>1, <4>1
        <4>. QED
          BY <4>1, <4>2
      <3>. QED
        BY <1>1, <1>2, <2>2, <3>2 DEF Follows
    <2>. QED
      BY <1>1, <2>1, <2>2
  <1>7. WatchedVersion'
    BY <1>6 DEF WatchedVersion
  <1>. QED
    BY <1>5, <1>7

(* Confirmations of requests, and what is said of the target.               *)
LEMMA ControlAnswers ==
  ASSUME AnswersInv, CountInv', NEW kind \in {"added", "removed", "current"},
         Delivered(kind),
         UNCHANGED <<cache, keys, saved, last, events, current, token, updates>>,
         IF kind = "current" THEN UNCHANGED <<pending, changes>>
         ELSE /\ pending' = pending - 1
              /\ changes' = IF pending = 1 THEN NoChanges ELSE changes
  PROVE  AnswersInv'
  <1>1. /\ stream = "Open" /\ fromServer # <<>> /\ fromServer' = Tail(fromServer)
        /\ Head(fromServer).kind = kind
        /\ UNCHANGED <<stream, toServer, watched, listeners, since, log>>
        /\ fromServer \in Seq(Messages) /\ TypeInv /\ CountInv
        /\ pending \in Nat /\ pending' \in Nat
    BY DeliveredIs, Naturals DEF AnswersInv, CountInv, TypeInv, TypeOK
  <1>2. VersionsInv'
    <2>1. MessageVersions' /\ WatchedVersion'
      BY FollowStill
    <2>2. ClientVersions'
      BY <1>1 DEF AnswersInv, VersionsInv, ClientVersions, IsVersion
    <2>. QED
      BY <2>1, <2>2 DEF VersionsInv
  <1>3. BaseInv'
    BY <1>1, BaseKept DEF AnswersInv
  <1>4. CurrentInv'
    BY <1>1, CurrentKept DEF AnswersInv, CurrentInv
  <1>5. WholeAnswers'
    <2>1. TypeInv'
      BY DEF CountInv
    <2>. QED
      BY <1>1, <1>2, <1>4, <2>1, AnswersKept DEF AnswersInv
  <1>6. StreamInv'
    <2>1. ASSUME NEW d \in Docs, NEW j \in 1 .. Len(fromServer), NEW v \in Versions,
                 Told(d, j + 1, v) \/ Has(d, j + 1, v)
          PROVE  Told(d, j, v)' \/ Has(d, j, v)'
      <3>1. ~IsDoc(1, d)
        BY <1>1, Shifted DEF IsDoc
      <3>2. CASE Told(d, j + 1, v)
        BY <1>1, <3>1, <3>2, ToldStill
      <3>3. CASE Has(d, j + 1, v)
        <4>1. Untold(d, j)' /\ Collected(d, v)
          BY <1>1, <3>3, UntoldStill DEF Has
        <4>2. /\ VersionAt(d, v)' = VersionAt(d, v)
              /\ Exists(VersionAt(d, v))' = Exists(VersionAt(d, v))
          BY <1>1 DEF VersionAt, Exists
        <4>3. CASE kind = "current"
          BY <4>1, <4>2, <4>3 DEF Has, Collected
        <4>4. CASE kind # "current"
          <5>1. pending > 0 /\ (pending' = 0 => changes'[d] = "none")
            BY <1>1, <4>4 DEF NoChanges
          <5>2. cache[d] = VersionAt(d, v) /\ (Exists(VersionAt(d, v)) => d \in keys)
            BY <4>1, <5>1 DEF Collected
          <5>3. Collected(d, v)'
            BY <4>2, <5>1, <5>2 DEF Collected
          <5>. QED
            BY <4>1, <5>3 DEF Has
        <4>. QED
          BY <4>3, <4>4
      <3>. QED
        BY <2>1, <3>2, <3>3
    <2>. QED
      BY <2>1, StreamStep
  <1>. QED
    BY <1>2, <1>3, <1>4, <1>5, <1>6 DEF AnswersInv

LEMMA DocumentAnswers ==
  ASSUME AnswersInv, CountInv', DocumentChange
  PROVE  AnswersInv'
  <1> DEFINE m == fromServer[1]
             active == listeners # {} /\ pending = 0
  <1>1. /\ stream = "Open" /\ fromServer # <<>> /\ fromServer' = Tail(fromServer)
        /\ m.kind = "doc" /\ Head(fromServer) = m /\ Delivered("doc")
        /\ UNCHANGED <<stream, toServer, watched, listeners, since, log>>
        /\ fromServer \in Seq(Messages) /\ TypeInv /\ CountInv
        /\ pending \in Nat
    BY DeliveredIs, Shifted, Naturals DEF DocumentChange, AnswersInv, CountInv, TypeInv
  <1>2. UNCHANGED <<cache, keys, saved, last, events, current, token, pending>>
    BY DEF DocumentChange, disk
  <1>3. m.doc \in Docs /\ IsVersion(m.doc, m.v) /\ m.v \in Nat
    BY <1>1, Shifted, Naturals DEF AnswersInv, VersionsInv, MessageVersions
  <1>4. /\ active => /\ updates' = [updates EXCEPT ![m.doc] = m.v]
                     /\ \E c : /\ changes' = [changes EXCEPT ![m.doc] = c]
                               /\ Exists(m.v) => c = "add"
        /\ ~active => UNCHANGED <<changes, updates>>
    BY <1>1 DEF DocumentChange, IsActive
  <1>5. updates \in [Docs -> Versions] /\ changes \in [Docs -> {"none", "add", "remove"}]
    BY <1>1 DEF TypeInv, TypeOK
  <1>. HIDE DEF m
  <1>6. \A d \in Docs : \/ updates'[d] = updates[d]
                        \/ updates'[d] = m.v /\ IsVersion(d, m.v)
    BY <1>3, <1>4, <1>5
  <1>7. VersionsInv'
    <2>1. \A d \in Docs : updates'[d] \in {updates[d], fromServer[1].v, 0}
      BY <1>6 DEF m
    <2>2. MessageVersions' /\ WatchedVersion'
      BY <1>1, <1>2, <2>1, FollowStill
    <2>3. \A d \in Docs : IsVersion(d, updates[d])'
      <3> SUFFICES ASSUME NEW d \in Docs PROVE IsVersion(d, updates[d])'
        OBVIOUS
      <3>1. ASSUME NEW v, v = updates'[d] PROVE IsVersion(d, v)
        BY <1>6, <3>1 DEF AnswersInv, VersionsInv, ClientVersions
      <3>. QED
        BY <1>1, <3>1 DEF IsVersion
    <2>4. ClientVersions'
      BY <1>1, <1>2, <2>3 DEF AnswersInv, VersionsInv, ClientVersions, IsVersion
    <2>. QED
      BY <2>2, <2>4 DEF VersionsInv
  <1>8. BaseInv'
    BY <1>1, <1>2, BaseKept DEF AnswersInv
  <1>9. CurrentInv'
    <2>1. current' => current /\ listeners' # {}
      BY <1>1, <1>2 DEF AnswersInv, CurrentInv
    <2>2. pending' > 0 => pending > 0 /\ updates' = updates
      BY <1>1, <1>2, <1>4
    <2>. QED
      BY <1>1, <1>2, <2>1, <2>2, CurrentKept DEF AnswersInv
  <1>10. WholeAnswers'
    <2>1. TypeInv'
      BY DEF CountInv
    <2>. QED
      BY <1>1, <1>2, <1>7, <1>9, <2>1, AnswersKept DEF AnswersInv
  <1>11. StreamInv'
    <2>1. ASSUME listeners # {}, toServer = <<>>,
                 NEW d \in Docs, NEW j \in 1 .. Len(fromServer), NEW v \in Versions,
                 Told(d, j + 1, v) \/ Has(d, j + 1, v)
          PROVE  Told(d, j, v)' \/ Has(d, j, v)'
      <3>0. /\ VersionAt(d, v)' = VersionAt(d, v)
            /\ Exists(VersionAt(d, v))' = Exists(VersionAt(d, v))
        BY <1>1 DEF VersionAt, Exists
      <3>1. pending # 0 => ~Fresh(1)
        BY <1>1, <2>1, WaitsForAcks
      <3>2. CASE Told(d, j + 1, v) /\ ~(Fresh(1) /\ IsDoc(1, d))
        BY <1>1, <3>2, ToldStill
      <3>3. CASE Told(d, j + 1, v) /\ Fresh(1) /\ IsDoc(1, d) /\ ~Told(d, j, v)'
        <4>1. pending = 0 /\ m.doc = d /\ active
          BY <2>1, <3>1, <3>3 DEF IsDoc, m
        <4>2. Untold(d, j)' /\ m.v = VersionAt(d, v)
          BY <1>1, <3>3, ToldOnce DEF m
        <4>3. updates'[d] = m.v /\ (Exists(m.v) => changes'[d] = "add")
          BY <1>4, <1>5, <4>1
        <4>4. Collected(d, v)'
          BY <1>2, <3>0, <4>1, <4>2, <4>3 DEF Collected
        <4>. QED
          BY <4>2, <4>4 DEF Has
      <3>4. CASE Has(d, j + 1, v)
        <4>1. Untold(d, j)' /\ Collected(d, v) /\ Untold(d, j + 1)
          BY <1>1, <3>4, UntoldStill DEF Has
        <4>2. pending # 0 \/ m.doc # d
          <5> SUFFICES ASSUME pending = 0 PROVE m.doc # d
            OBVIOUS
          <5>1. Fresh(1) /\ 1 \in 1 .. (j + 1) - 1
            BY <1>1, WaitsForAcks, Shifted
          <5>2. ~IsDoc(1, d)
            BY <4>1, <5>1 DEF Untold
          <5>. QED
            BY <1>1, <5>2 DEF IsDoc, m
        <4>3. pending = 0 => updates'[d] = updates[d] /\ changes'[d] = changes[d]
          BY <1>4, <1>5, <4>2
        <4>4. Collected(d, v)'
          BY <1>2, <3>0, <4>1, <4>3 DEF Collected
        <4>. QED
          BY <4>1, <4>4 DEF Has
      <3>. QED
        BY <2>1, <3>2, <3>3, <3>4
    <2>. QED
      BY <1>1, <1>2, <2>1, StreamStep
  <1>. QED
    BY <1>7, <1>8, <1>9, <1>10, <1>11 DEF AnswersInv

-----------------------------------------------------------------------------
(* Answers: a snapshot.  It is never older than the last one. *)

LEMMA SnapshotIs ==
  ASSUME AnswersInv, CountInv', WatchSnapshot, NEW v, v = fromServer[1].v
  PROVE  /\ Delivered("snap") /\ IsSnap(1) /\ v \in Versions /\ v \in Nat
         /\ last <= v /\ v <= Len(log) /\ last' = v /\ updates' = NoUpdates
         /\ UNCHANGED <<pending, listeners, log, since>>
         /\ \A d \in Docs : updates[d] <= v /\ cache[d] <= v /\ cache'[d] = Cached(d)
         /\ IF IsActive
            THEN /\ token' = v /\ saved' \in {saved, v} /\ changes' = NoChanges
                 /\ keys' = KeysAfter
            ELSE UNCHANGED <<token, saved, changes, keys, current>>
         /\ \A i \in 1 .. Len(events') :
              \/ events'[i].cached
              \/ \E k \in 1 .. Len(events) : events'[i] = events[k]
              \/ /\ events'[i].docs = Contents(cache)' /\ events'[i].since = since'
                 /\ current'
  <1>1. /\ Delivered("snap") /\ fromServer # <<>> /\ Head(fromServer) = fromServer[1]
        /\ fromServer[1].kind = "snap" /\ fromServer[1] \in Messages
        /\ fromServer \in Seq(Messages) /\ Len(fromServer) \in Nat \ {0}
        /\ UNCHANGED <<pending, listeners, log, since>> /\ TypeInv
    <2>1. Delivered("snap") /\ UNCHANGED pending /\ CountInv
      BY DEF WatchSnapshot, AnswersInv
    <2>2. fromServer \in Seq(Messages) /\ TypeInv
      BY <2>1 DEF CountInv, TypeInv
    <2>. QED
      BY <2>1, <2>2, DeliveredIs, Shifted
  <1>2. v \in Versions /\ v \in Nat /\ IsSnap(1)
    BY <1>1, VersionsAreNat DEF Messages, IsSnap
  <1>3. v <= Len(log) /\ last <= v /\ \A d \in Docs : updates[d] <= v
    BY <1>1, <1>2 DEF AnswersInv, VersionsInv, MessageVersions, Follows
  <1>4. last \in Nat /\ \A d \in Docs : cache[d] \in Nat /\ cache[d] <= last
    BY <1>1, Naturals DEF AnswersInv, VersionsInv, ClientVersions
  <1>5. ~(v < last)
    BY <1>2, <1>3, <1>4
  <1> DEFINE c == [d \in Docs |-> Cached(d)]
             ks == IF IsActive THEN KeysAfter ELSE keys
             now == IF IsActive THEN complete ELSE current
  <1>6. /\ cache' = c /\ keys' = ks /\ current' = now /\ last' = v
        /\ updates' = NoUpdates /\ Emit(now, c, ks) /\ ResumeFrom(v)
    <2>1. v = Head(fromServer).v
      BY <1>1
    <2>. QED
      BY <1>5, <2>1, Zenon DEF WatchSnapshot
  <1>7. c \in [Docs -> Versions] /\ ks \in SUBSET Docs /\ now \in BOOLEAN
    BY <1>1 DEF TypeInv, TypeOK, Cached, KeysAfter
  <1>8. \A d \in Docs : cache[d] <= v /\ cache'[d] = Cached(d)
    BY <1>2, <1>3, <1>4, <1>6
  <1>9. IF IsActive
        THEN /\ token' = v /\ saved' \in {saved, v} /\ changes' = NoChanges
             /\ keys' = KeysAfter
        ELSE UNCHANGED <<token, saved, changes, keys, current>>
    BY <1>6 DEF ResumeFrom
  <1>. HIDE DEF c, ks, now
  <1>10. \A i \in 1 .. Len(events') :
           \/ i \in 1 .. Len(events) /\ events'[i] = events[i]
           \/ /\ events'[i].docs = Contents(c) /\ events'[i].since = since
              /\ events'[i].cached = ~SyncedWith(now, c, ks)
    BY <1>1, <1>6, <1>7, ViewTold
  <1>11. Contents(c) = Contents(cache)'
    BY <1>1, <1>6 DEF Contents, Exists
  <1>12. ~SyncedWith(now, c, ks) \/ current'
    BY <1>6 DEF SyncedWith
  <1>13. \A i \in 1 .. Len(events') :
           \/ events'[i].cached
           \/ \E k \in 1 .. Len(events) : events'[i] = events[k]
           \/ /\ events'[i].docs = Contents(cache)' /\ events'[i].since = since'
              /\ current'
    BY <1>1, <1>10, <1>11, <1>12
  <1>. QED
    BY <1>1, <1>2, <1>3, <1>6, <1>8, <1>9, <1>13

(* The newer of what the cache holds and what was collected. *)
LEMMA CachedIsNewer ==
  ASSUME AnswersInv, NEW d \in Docs
  PROVE  /\ Cached(d) \in Nat /\ cache[d] <= Cached(d) /\ updates[d] <= Cached(d)
         /\ Cached(d) \in {cache[d], updates[d]} /\ IsVersion(d, Cached(d))
         /\ \A w \in Nat : last <= w /\ updates[d] <= w
                             /\ VersionAt(d, w) \in {cache[d], updates[d]}
                           => Cached(d) = VersionAt(d, w)
         /\ updates[d] = 0 => Cached(d) = cache[d]
  <1>1. /\ cache[d] \in Nat /\ updates[d] \in Nat /\ last \in Nat
        /\ IsVersion(d, cache[d]) /\ IsVersion(d, updates[d]) /\ cache[d] <= last
    BY Naturals DEF AnswersInv, CountInv, VersionsInv, ClientVersions
  <1>2. /\ Cached(d) \in Nat /\ cache[d] <= Cached(d) /\ updates[d] <= Cached(d)
        /\ Cached(d) \in {cache[d], updates[d]}
        /\ updates[d] = 0 => Cached(d) = cache[d]
    BY <1>1 DEF Cached
  <1>3. ASSUME NEW w \in Nat, last <= w, updates[d] <= w,
               VersionAt(d, w) \in {cache[d], updates[d]}
        PROVE  Cached(d) = VersionAt(d, w)
    <2>1. cache[d] <= VersionAt(d, w) /\ updates[d] <= VersionAt(d, w)
      BY <1>1, <1>3, VersionIsOld
    <2>. QED
      BY <1>1, <1>2, <1>3, <2>1
  <1>4. IsVersion(d, Cached(d))
    BY <1>1, <1>2 DEF IsVersion
  <1>. HIDE DEF Cached
  <1>. QED
    BY <1>2, <1>3, <1>4

(* A target that is active, and told of a snapshot, has all of it. *)
LEMMA SnapshotIsWhole ==
  ASSUME AnswersInv, CountInv', WatchSnapshot, IsActive, NEW v, v = fromServer[1].v
  PROVE  /\ since <= v
         /\ \A d \in Docs : /\ cache'[d] = VersionAt(d, v)
                            /\ Exists(VersionAt(d, v)) => d \in keys'
  <1>1. /\ stream = "Open" /\ listeners # {} /\ pending = 0 /\ IsSnap(1)
        /\ v \in Versions /\ v \in Nat /\ last <= v /\ v <= Len(log)
        /\ \A d \in Docs : updates[d] <= v /\ cache'[d] = Cached(d)
        /\ keys' = KeysAfter /\ CountInv
    BY SnapshotIs DEF IsActive, AnswersInv, Delivered
  <1>2. toServer = <<>> /\ Len(fromServer) \in Nat \ {0} /\ Fresh(1)
    <2>1. Delivered("snap") /\ fromServer \in Seq(Messages)
      BY SnapshotIs DEF AnswersInv, CountInv, TypeInv
    <2>2. fromServer # <<>>
      BY <2>1 DEF Delivered
    <2>. QED
      BY <1>1, <2>1, <2>2, WaitsForAcks
  <1>3. since <= v /\ Reached(1, v)
    <2>1. Due(1, v) /\ 1 \in 1 .. Len(fromServer) + 1
      BY <1>1, <1>2 DEF Due
    <2>. QED
      BY <1>1, <1>2, <2>1 DEF AnswersInv, StreamInv
  <1>4. ASSUME NEW d \in Docs
        PROVE  /\ cache'[d] = VersionAt(d, v)
               /\ Exists(VersionAt(d, v)) => d \in keys'
    <2>1. Collected(d, v)
      BY <1>3 DEF Reached, Told, Has
    <2>2. cache'[d] = VersionAt(d, v)
      BY <1>1, <2>1, CachedIsNewer DEF Collected
    <2>3. Exists(VersionAt(d, v)) => d \in KeysAfter
      BY <1>1, <2>1 DEF Collected, KeysAfter
    <2>. QED
      BY <1>1, <2>2, <2>3
  <1>. QED
    BY <1>3, <1>4

LEMMA SnapshotAnswers ==
  ASSUME AnswersInv, CountInv', WatchSnapshot
  PROVE  AnswersInv'
  <1>1. PICK v : v = fromServer[1].v
    OBVIOUS
  <1>2. /\ Delivered("snap") /\ IsSnap(1) /\ v \in Versions /\ v \in Nat
        /\ last <= v /\ v <= Len(log) /\ last' = v /\ updates' = NoUpdates
        /\ UNCHANGED <<pending, listeners, log, since>>
        /\ \A d \in Docs : updates[d] <= v /\ cache[d] <= v /\ cache'[d] = Cached(d)
        /\ IF IsActive
           THEN /\ token' = v /\ saved' \in {saved, v} /\ changes' = NoChanges
                /\ keys' = KeysAfter
           ELSE UNCHANGED <<token, saved, changes, keys, current>>
    BY <1>1, SnapshotIs
  <1>3. /\ TypeInv /\ CountInv /\ fromServer \in Seq(Messages) /\ fromServer # <<>>
        /\ fromServer' = Tail(fromServer) /\ stream = "Open" /\ pending \in Nat
        /\ saved \in Nat /\ token \in Nat /\ last \in Nat /\ Len(log) \in Nat
        /\ saved <= last /\ token <= last /\ since <= Len(log)
    BY <1>2, DeliveredIs, Naturals
       DEF AnswersInv, CountInv, TypeInv, VersionsInv, ClientVersions
  <1>4. IsActive => /\ since <= v
                    /\ \A d \in Docs : /\ cache'[d] = VersionAt(d, v)
                                       /\ Exists(VersionAt(d, v)) => d \in keys'
    BY <1>1, SnapshotIsWhole
  <1>5. VersionsInv'
    <2>1. MessageVersions' /\ WatchedVersion'
      BY <1>1, <1>2, FollowStill DEF NoUpdates
    <2>2. \A d \in Docs : IsVersion(d, cache[d])' /\ cache'[d] <= last'
      BY <1>2, CachedIsNewer DEF IsVersion
    <2>3. \A d \in Docs : IsVersion(d, updates[d])'
      BY <1>2, <1>3 DEF IsVersion, NoUpdates
    <2>4. saved' <= v /\ token' <= v
      BY <1>2, <1>3
    <2>5. ClientVersions'
      BY <1>2, <1>3, <2>2, <2>3, <2>4 DEF ClientVersions
    <2>. QED
      BY <2>1, <2>5 DEF VersionsInv
  <1>6. BaseInv'
    <2>1. CASE IsActive
      <3>1. ASSUME NEW d \in Docs, NEW r \in Nat, r <= v
            PROVE  /\ VersionAt(d, r) <= cache'[d]
                   /\ VersionAt(d, Len(log)) <= r /\ Exists(VersionAt(d, Len(log)))
                        => d \in keys'
        <4>1. VersionAt(d, r) <= VersionAt(d, v)
          BY <1>2, <3>1, VersionAtRises
        <4>2. VersionAt(d, Len(log)) \in Nat
          BY <1>3, VersionAtIsLast
        <4>3. VersionAt(d, Len(log)) <= v => VersionAt(d, Len(log)) = VersionAt(d, v)
          BY <1>2, <1>3, VersionAtRises
        <4>. QED
          BY <1>2, <1>4, <2>1, <3>1, <4>1, <4>2, <4>3
      <3>2. /\ saved' \in Nat /\ saved' <= v /\ token' \in Nat /\ token' <= v
        BY <1>2, <1>3, <2>1
      <3>3. ASSUME NEW d \in Docs PROVE Holds(d, saved)' /\ Holds(d, token)'
        <4>1. UNCHANGED log
          BY <1>2
        <4>2. ASSUME NEW r, r = saved' PROVE Holds(d, saved)'
          <5>1. /\ VersionAt(d, r) <= cache'[d]
                /\ VersionAt(d, Len(log)) <= r /\ Exists(VersionAt(d, Len(log)))
                     => d \in keys'
            BY <3>1, <3>2, <4>2
          <5>2. /\ VersionAt(d, saved)' = VersionAt(d, r)
                /\ VersionAt(d, Len(log))' = VersionAt(d, Len(log))
                /\ Exists(VersionAt(d, Len(log)))' = Exists(VersionAt(d, Len(log)))
            BY <4>1, <4>2 DEF VersionAt, Exists
          <5>. QED
            BY <4>2, <5>1, <5>2 DEF Holds
        <4>3. ASSUME NEW r, r = token' PROVE Holds(d, token)'
          <5>1. /\ VersionAt(d, r) <= cache'[d]
                /\ VersionAt(d, Len(log)) <= r /\ Exists(VersionAt(d, Len(log)))
                     => d \in keys'
            BY <3>1, <3>2, <4>3
          <5>2. /\ VersionAt(d, token)' = VersionAt(d, r)
                /\ VersionAt(d, Len(log))' = VersionAt(d, Len(log))
                /\ Exists(VersionAt(d, Len(log)))' = Exists(VersionAt(d, Len(log)))
            BY <4>1, <4>3 DEF VersionAt, Exists
          <5>. QED
            BY <4>3, <5>1, <5>2 DEF Holds
        <4>. QED
          BY <4>2, <4>3
      <3>. QED
        BY <3>3 DEF BaseInv
    <2>2. CASE ~IsActive
      <3>1. UNCHANGED <<token, saved, keys, log>>
        BY <1>2, <2>2
      <3>2. ASSUME NEW d \in Docs PROVE Holds(d, saved)' /\ Holds(d, token)'
        <4>1. Holds(d, saved) /\ Holds(d, token)
          BY DEF AnswersInv, BaseInv
        <4>2. /\ cache[d] \in Nat /\ cache'[d] \in Nat /\ cache[d] <= cache'[d]
              /\ VersionAt(d, saved) \in Nat /\ VersionAt(d, token) \in Nat
          BY <1>2, <1>3, CachedIsNewer, Naturals, VersionAtIsLast
        <4>3. /\ VersionAt(d, saved)' = VersionAt(d, saved)
              /\ VersionAt(d, token)' = VersionAt(d, token)
              /\ VersionAt(d, Len(log))' = VersionAt(d, Len(log))
              /\ Exists(VersionAt(d, Len(log)))' = Exists(VersionAt(d, Len(log)))
          BY <3>1 DEF VersionAt, Exists
        <4>. QED
          BY <3>1, <4>1, <4>2, <4>3 DEF Holds
      <3>. QED
        BY <3>2 DEF BaseInv
    <2>. QED
      BY <2>1, <2>2
  <1>7. CurrentInv'
    <2>1. CASE IsActive
      <3>1. \A d \in Docs : VersionAt(d, token)' = VersionAt(d, v)
        BY <1>2, <2>1 DEF VersionAt
      <3>2. NothingInLimbo'
        BY <1>2, <1>4, <2>1 DEF NothingInLimbo, Exists
      <3>. QED
        BY <1>2, <1>4, <2>1, <3>1, <3>2 DEF CurrentInv, IsActive
    <2>2. CASE ~IsActive /\ current
      <3>1. listeners # {} /\ pending > 0 /\ updates = NoUpdates
        BY <1>3, <2>2 DEF IsActive, AnswersInv, CurrentInv
      <3>2. \A d \in Docs : cache'[d] = cache[d]
        BY <1>2, <3>1, CachedIsNewer DEF NoUpdates
      <3>3. cache' = cache
        <4>1. cache \in [Docs -> Versions] /\ cache' \in [Docs -> Versions]
          BY <1>3 DEF CountInv, TypeInv, TypeOK
        <4>. QED
          BY <3>2, <4>1
      <3>. QED
        BY <1>2, <2>2, <3>1, <3>3, CurrentKept DEF AnswersInv
    <2>3. CASE ~IsActive /\ ~current
      BY <1>2, <2>3, CurrentGone DEF CurrentInv
    <2>. QED
      BY <2>1, <2>2, <2>3
  <1>8. StreamInv'
    <2>1. ASSUME listeners # {},
                 NEW d \in Docs, NEW j \in 1 .. Len(fromServer), NEW w \in Versions,
                 last <= w, updates[d] <= w,
                 Told(d, j + 1, w) \/ Has(d, j + 1, w)
          PROVE  Told(d, j, w)' \/ Has(d, j, w)'
      <3>1. CASE Told(d, j + 1, w)
        <4>1. ~IsDoc(1, d)
          BY <1>2 DEF IsSnap, IsDoc
        <4>. QED
          BY <1>2, <1>3, <3>1, <4>1, ToldStill
      <3>2. CASE Has(d, j + 1, w)
        <4>1. Untold(d, j)' /\ Collected(d, w)
          BY <1>3, <3>2, UntoldStill DEF Has
        <4>2. /\ VersionAt(d, w)' = VersionAt(d, w)
              /\ Exists(VersionAt(d, w))' = Exists(VersionAt(d, w))
          BY <1>2 DEF VersionAt, Exists
        <4>3. w \in Nat
          BY VersionsAreNat
        <4>4. cache'[d] = VersionAt(d, w)
          BY <1>2, <2>1, <4>1, <4>3, CachedIsNewer DEF Collected
        <4>5. Exists(VersionAt(d, w)) =>
                d \in keys' /\ (pending' = 0 => changes'[d] = "none")
          <5>1. CASE pending = 0
            BY <1>2, <2>1, <4>1, <5>1 DEF Collected, IsActive, KeysAfter, NoChanges
          <5>2. CASE pending # 0
            BY <1>2, <4>1, <5>2 DEF Collected, IsActive
          <5>. QED
            BY <5>1, <5>2
        <4>6. Collected(d, w)'
          BY <4>2, <4>4, <4>5 DEF Collected
        <4>. QED
          BY <4>1, <4>6 DEF Has
      <3>. QED
        BY <2>1, <3>1, <3>2
    <2>2. token' = token \/ pending = 0
      BY <1>2 DEF IsActive
    <2>. QED
      BY <1>2, <2>1, <2>2, StreamStep
  <1>9. WholeAnswers'
    <2>1. TypeInv'
      BY DEF CountInv
    <2>2. UNCHANGED log /\ \A i \in 1 .. Len(events') :
              \/ events'[i].cached
              \/ \E k \in 1 .. Len(events) : events'[i] = events[k]
              \/ /\ events'[i].docs = Contents(cache)' /\ events'[i].since = since'
                 /\ current'
      BY <1>1, SnapshotIs
    <2>. QED
      BY <1>5, <1>7, <2>1, <2>2, AnswersKept DEF AnswersInv
  <1>. QED
    BY <1>5, <1>6, <1>7, <1>8, <1>9 DEF AnswersInv

LEMMA MessageAnswers ==
  ASSUME AnswersInv, CountInv', Message
  PROVE  AnswersInv'
  <1>1. CASE TargetAdded
    <2>1. /\ Delivered("added")
          /\ UNCHANGED <<cache, keys, saved, last, events, current, token, updates>>
          /\ pending' = pending - 1
          /\ changes' = IF pending = 1 THEN NoChanges ELSE changes
      BY <1>1 DEF TargetAdded, disk
    <2>. QED
      BY <2>1, ControlAnswers
  <1>2. CASE TargetRemoved
    <2>1. /\ Delivered("removed")
          /\ UNCHANGED <<cache, keys, saved, last, events, current, token, updates>>
          /\ pending' = pending - 1
          /\ changes' = IF pending = 1 THEN NoChanges ELSE changes
      BY <1>2 DEF TargetRemoved, FreshTarget, disk
    <2>. QED
      BY <2>1, ControlAnswers
  <1>3. CASE TargetCurrent
    <2>1. /\ Delivered("current")
          /\ UNCHANGED <<cache, keys, saved, last, events, current, token, updates>>
          /\ UNCHANGED <<pending, changes>>
      BY <1>3 DEF TargetCurrent, disk
    <2>. QED
      BY <2>1, ControlAnswers
  <1>. QED
    BY <1>1, <1>2, <1>3, DocumentAnswers, SnapshotAnswers DEF Message

-----------------------------------------------------------------------------
(* Answers: the server. *)

(* Messages added to what is on its way. *)
LEMMA SentAre ==
  ASSUME TypeInv, NEW ms \in Seq(Messages), fromServer' = fromServer \o ms,
         NEW n, n = Len(fromServer), NEW l, l = Len(ms)
  PROVE  /\ n \in Nat /\ l \in Nat /\ Len(fromServer') = n + l
         /\ \A i \in 1 .. n : fromServer'[i] = fromServer[i]
         /\ \A i \in 1 .. l : fromServer'[n + i] = ms[i]
         /\ \A i \in 1 .. n + l :
              i <= n \/ (i - n \in 1 .. l /\ fromServer'[i] = ms[i - n])
  <1>1. fromServer \in Seq(Messages)
    BY DEF TypeInv
  <1> DEFINE s == fromServer \o ms
  <1>2. /\ Len(s) = n + l /\ n \in Nat /\ l \in Nat
        /\ \A i \in 1 .. n : s[i] = fromServer[i]
        /\ \A i \in 1 .. l : s[n + i] = ms[i]
        /\ \A i \in 1 .. Len(s) : i <= n \/ (i - n \in 1 .. l /\ s[i] = ms[i - n])
    BY <1>1, Appended
  <1>3. fromServer' = s
    OBVIOUS
  <1>. HIDE DEF s
  <1>. QED
    BY <1>2, <1>3

(* What the server sends is as new as anything before, and changes nothing  *)
(* of what the client has.                                                  *)
LEMMA SentAnswers ==
  ASSUME AnswersInv, CountInv', NEW ms \in Seq(Messages),
         NEW w \in {NotWatched, Len(log)}, ServerSends(ms, w),
         \A i \in 1 .. Len(ms) :
           /\ ms[i].v <= Len(log)
           /\ ms[i].kind = "doc" => ms[i].doc \in Docs /\ IsVersion(ms[i].doc, ms[i].v)
           /\ ms[i].kind = "snap" => ms[i].v = Len(log),
         StreamInv'
  PROVE  AnswersInv'
  <1> DEFINE n == Len(fromServer)
             l == Len(ms)
             top == Len(log)
  <1>1. /\ fromServer' = fromServer \o ms /\ watched' = w /\ TypeInv
        /\ UNCHANGED <<cache, keys, saved, last, events, current, token, updates, pending,
                       changes, listeners, since, log>>
    BY DEF ServerSends, disk, views, aggregator, AnswersInv, CountInv
  <1>2. /\ n \in Nat /\ l \in Nat /\ Len(fromServer') = n + l
        /\ \A i \in 1 .. n : fromServer'[i] = fromServer[i]
        /\ \A i \in 1 .. n + l :
             i <= n \/ (i - n \in 1 .. l /\ fromServer'[i] = ms[i - n])
    BY <1>1, SentAre
  <1>3. /\ top \in Nat /\ last <= top
        /\ \A d \in Docs : updates[d] <= top
        /\ \A i \in 1 .. n : fromServer[i].v <= top
    BY <1>1, Naturals
       DEF AnswersInv, VersionsInv, ClientVersions, MessageVersions, IsVersion
  <1>4. \A i \in 1 .. n + l : fromServer'[i].v <= top
    <2> SUFFICES ASSUME NEW i \in 1 .. n + l PROVE fromServer'[i].v <= top
      OBVIOUS
    <2>1. CASE i <= n
      BY <1>2, <1>3, <2>1
    <2>2. CASE ~(i <= n)
      BY <1>2, <2>2
    <2>. QED
      BY <2>1, <2>2
  <1>5. ASSUME NEW v, v = top, NEW j \in 0 .. n + l PROVE Follows(v, j)'
    BY <1>1, <1>2, <1>3, <1>4, <1>5 DEF Follows
  <1>6. MessageVersions'
    <2>1. ASSUME NEW i \in 1 .. n + l
          PROVE  /\ fromServer'[i].v <= Len(log')
                 /\ fromServer'[i].kind = "doc" =>
                      /\ fromServer'[i].doc \in Docs
                      /\ IsVersion(fromServer[i].doc, fromServer[i].v)'
                 /\ IsSnap(i)' => Follows(fromServer[i].v, i)'
      <3>1. CASE i \in 1 .. n
        <4>1. fromServer'[i] = fromServer[i]
          BY <1>2, <3>1
        <4>2. /\ fromServer[i].kind = "doc" =>
                   fromServer[i].doc \in Docs /\ IsVersion(fromServer[i].doc, fromServer[i].v)
              /\ IsSnap(i) => Follows(fromServer[i].v, i)
          BY <3>1 DEF AnswersInv, VersionsInv, MessageVersions
        <4>3. IsVersion(fromServer[i].doc, fromServer[i].v) =>
                IsVersion(fromServer[i].doc, fromServer[i].v)'
          BY <1>1, <4>1 DEF IsVersion
        <4>4. Follows(fromServer[i].v, i) => Follows(fromServer[i].v, i)'
          <5>1. \A h \in 1 .. i : h \in 1 .. n
            BY <1>2, <3>1
          <5>2. \A h \in 1 .. i : fromServer'[h] = fromServer[h]
            BY <1>2, <5>1
          <5>. QED
            BY <1>1, <4>1, <5>2 DEF Follows
        <4>. QED
          BY <1>1, <1>4, <4>1, <4>2, <4>3, <4>4 DEF IsSnap
      <3>2. CASE ~(i \in 1 .. n)
        <4>1. i - n \in 1 .. l /\ fromServer'[i] = ms[i - n]
          BY <1>2, <3>2
        <4>2. PICK k \in 1 .. l : k = i - n
          BY <4>1
        <4>3. fromServer'[i] = ms[k]
          BY <4>1, <4>2
        <4>4. fromServer'[i].kind = "doc" =>
                fromServer'[i].doc \in Docs /\ IsVersion(fromServer[i].doc, fromServer[i].v)'
          BY <1>1, <4>2, <4>3 DEF IsVersion
        <4>5. IsSnap(i)' => Follows(fromServer[i].v, i)'
          <5> SUFFICES ASSUME IsSnap(i)' PROVE Follows(fromServer[i].v, i)'
            OBVIOUS
          <5>1. fromServer'[i].v = top
            BY <4>2, <4>3 DEF IsSnap
          <5>2. i \in 0 .. n + l
            BY <1>2
          <5>3. ASSUME NEW v, v = top PROVE Follows(fromServer[i].v, i)'
            <6>1. Follows(v, i)'
              BY <1>5, <5>2, <5>3
            <6>. QED
              BY <5>1, <5>3, <6>1 DEF Follows
          <5>. QED
            BY <5>3
        <4>. QED
          BY <1>1, <1>4, <4>4, <4>5
      <3>. QED
        BY <3>1, <3>2
    <2>. QED
      BY <1>2, <2>1 DEF MessageVersions
  <1>7. WatchedVersion'
    <2> SUFFICES ASSUME watched' # NotWatched
                 PROVE  watched' <= Len(log') /\ Follows(watched, Len(fromServer))'
      BY DEF WatchedVersion
    <2>1. watched' = top
      BY <1>1
    <2>2. ASSUME NEW v, v = top, NEW j, j = n + l PROVE Follows(watched, Len(fromServer))'
      <3>1. Follows(v, j)'
        BY <1>2, <1>5, <2>2
      <3>. QED
        BY <1>2, <2>1, <2>2, <3>1 DEF Follows
    <2>. QED
      BY <1>1, <1>3, <2>1, <2>2
  <1>8. VersionsInv'
    <2>1. ClientVersions'
      BY <1>1 DEF AnswersInv, VersionsInv, ClientVersions, IsVersion
    <2>. QED
      BY <1>6, <1>7, <2>1 DEF VersionsInv
  <1>9. BaseInv' /\ CurrentInv'
    <2>1. BaseInv'
      BY <1>1, BaseKept DEF AnswersInv
    <2>2. CurrentInv'
      BY <1>1, CurrentKept, Naturals DEF AnswersInv, CurrentInv
    <2>. QED
      BY <2>1, <2>2
  <1>10. WholeAnswers'
    <2>1. TypeInv'
      BY DEF CountInv
    <2>. QED
      BY <1>1, <1>8, <1>9, <2>1, AnswersKept DEF AnswersInv
  <1>. QED
    BY <1>8, <1>9, <1>10 DEF AnswersInv

(* The changes of documents, as the server sends them. *)
LEMMA ChangesAnswer ==
  ASSUME AnswersInv, NEW r, NEW i \in 1 .. Len(ChangesSince(r, Len(log))),
         NEW m, m = ChangesSince(r, Len(log))[i]
  PROVE  /\ m.kind = "doc" /\ m.doc \in Docs /\ m.v > r
         /\ m.v = VersionAt(m.doc, Len(log)) /\ m.v <= Len(log) /\ IsVersion(m.doc, m.v)
  <1>1. TypeInv /\ Len(log) \in Nat
    BY Naturals DEF AnswersInv, CountInv
  <1>2. m.kind = "doc" /\ m.doc \in Docs /\ m.v > r /\ m.v = VersionAt(m.doc, Len(log))
    <2>1. Len(log) \in 0 .. Len(log)
      BY <1>1
    <2>. QED
      BY <1>1, <2>1, ChangesSent
  <1>. QED
    BY <1>1, <1>2, VersionAtIsLast DEF IsVersion

(* A request is left: it is the one that says what the client has. *)
LEMMA RequestsLeft ==
  ASSUME AnswersInv, ServerReads, toServer' # <<>>
  PROVE  StreamInv'
  <1>1. /\ toServer # <<>> /\ toServer' = Tail(toServer)
        /\ UNCHANGED <<stream, listeners, token>>
    BY DEF ServerReads, ServerWatch, ServerUnwatch, ServerSends, views
  <1>2. toServer'[Len(toServer')] = toServer[Len(toServer)]
    BY <1>1, RequestRead DEF AnswersInv
  <1>. QED
    BY <1>1, <1>2 DEF AnswersInv, StreamInv

LEMMA UnwatchAnswers ==
  ASSUME AnswersInv, CountInv', ServerUnwatch
  PROVE  AnswersInv'
  <1> DEFINE ms == <<Removed>>
  <1>1. ServerSends(ms, NotWatched) /\ watched' = NotWatched
    BY DEF ServerUnwatch, ServerSends
  <1>2. /\ ms \in Seq(Messages) /\ Len(ms) = 1 /\ ms[1] = Removed
        /\ Len(log) \in Nat
    <2>1. Removed \in Messages
      BY NothingYet DEF Removed, Messages, Kinds
    <2>. QED
      BY <2>1, Naturals DEF AnswersInv, CountInv
  <1>3. StreamInv'
    <2>1. CASE toServer' # <<>>
      BY <2>1, RequestsLeft DEF ServerReads
    <2>2. CASE toServer' = <<>>
      BY <1>1, <2>2 DEF CountInv, RequestsCounted, StreamInv
    <2>. QED
      BY <2>1, <2>2
  <1>4. \A i \in 1 .. Len(ms) :
           /\ ms[i].v <= Len(log)
           /\ ms[i].kind = "doc" => ms[i].doc \in Docs /\ IsVersion(ms[i].doc, ms[i].v)
           /\ ms[i].kind = "snap" => ms[i].v = Len(log)
    <2>. HIDE DEF ms
    <2>1. \A i \in 1 .. Len(ms) : ms[i] = Removed
      BY <1>2
    <2>2. Removed.v = 0 /\ Removed.kind = "removed"
      BY DEF Removed
    <2>. QED
      BY <1>2, <2>1, <2>2
  <1>. HIDE DEF ms
  <1>. QED
    BY <1>1, <1>2, <1>3, <1>4, SentAnswers

(* What the messages say. *)
LEMMA Says ==
  ASSUME NEW v
  PROVE  /\ Added.kind = "added" /\ Added.v = 0
         /\ Current.kind = "current" /\ Current.v = 0
         /\ Snap(v).kind = "snap" /\ Snap(v).v = v
         /\ IsAck(Added) /\ ~IsAck(Current) /\ ~IsAck(Snap(v))
  BY DEF Added, Current, Snap, IsAck

(* The changes since version r, sent after the first p messages, tell of    *)
(* every document that has changed, and of no other one.                    *)
LEMMA ToldOfChanges ==
  ASSUME AnswersInv, UNCHANGED log, NEW top, top = Len(log),
         NEW r, NEW c, c = ChangesSince(r, top), NEW p \in Nat, NEW m \in Nat,
         m = Len(fromServer'), Len(c) \in Nat,
         \A i \in 1 .. Len(c) : fromServer'[p + i] = c[i],
         \A i \in p + 1 .. m :
           /\ ~IsAck(fromServer'[i])
           /\ fromServer'[i].kind = "doc" => i <= p + Len(c),
         NEW j \in p + Len(c) + 1 .. m + 1, NEW d \in Docs
  PROVE  /\ VersionAt(d, top) > r => Told(d, j, top)'
         /\ \A i \in p + 1 .. j - 1 : IsDoc(i, d)' => VersionAt(d, top) > r
  <1>1. /\ TypeInv /\ top \in Nat /\ top \in 0 .. Len(log)
        /\ VersionAt(d, top)' = VersionAt(d, top)
    BY Naturals DEF AnswersInv, CountInv, VersionAt
  <1>2. ASSUME NEW i \in p + 1 .. m, IsDoc(i, d)'
        PROVE  fromServer'[i].v = VersionAt(d, top) /\ VersionAt(d, top) > r
    <2>1. i <= p + Len(c)
      BY <1>2 DEF IsDoc
    <2>2. PICK k \in 1 .. Len(c) : i = p + k
      <3>1. i - p \in 1 .. Len(c) /\ i = p + (i - p)
        BY <2>1
      <3>. QED
        BY <3>1
    <2>3. fromServer'[i] = c[k]
      BY <2>2
    <2>4. c[k].v > r /\ c[k].v = VersionAt(c[k].doc, top)
      <3>1. /\ k \in 1 .. Len(ChangesSince(r, Len(log)))
            /\ c[k] = ChangesSince(r, Len(log))[k]
        OBVIOUS
      <3>2. ASSUME NEW x, x = c[k] PROVE x.v > r /\ x.v = VersionAt(x.doc, Len(log))
        BY <3>1, <3>2, ChangesAnswer, SMTT(30)
      <3>. QED
        BY <3>2
    <2>5. c[k].doc = d
      BY <1>2, <2>3 DEF IsDoc
    <2>. QED
      BY <2>3, <2>4, <2>5
  <1>3. ASSUME VersionAt(d, top) > r
        PROVE  Told(d, j, top)'
    <2>1. PICK k \in 1 .. Len(c) : c[k].doc = d
      BY <1>1, <1>3, ChangesSent
    <2>2. c[k].kind = "doc"
      BY ChangesAnswer
    <2>3. PICK i \in Nat : i = p + k
      OBVIOUS
    <2>4. /\ i \in 1 .. j - 1 /\ i \in p + 1 .. m
          /\ \A h \in i .. j - 1 : h \in p + 1 .. m
          /\ \A h \in i .. m : h \in p + 1 .. m
      BY <2>3
    <2>5. IsDoc(i, d)'
      BY <2>1, <2>2, <2>3 DEF IsDoc
    <2>6. Fresh(i)'
      BY <2>4 DEF Fresh, IsAck
    <2>7. \A h \in i .. j - 1 : IsDoc(h, d)' => fromServer'[h].v = VersionAt(d, top)
      BY <1>2, <2>4
    <2>. QED
      BY <1>1, <2>4, <2>5, <2>6, <2>7 DEF Told
  <1>4. \A i \in p + 1 .. j - 1 : i \in p + 1 .. m
    OBVIOUS
  <1>. QED
    BY <1>2, <1>3, <1>4

(* A client whose last request is read is told all that has changed since   *)
(* the version that it asks to resume from, which it has.                   *)
LEMMA WatchStream ==
  ASSUME AnswersInv, ServerWatch, toServer' = <<>>, listeners # {},
         NEW r, r = Head(toServer), NEW top, top = Len(log)
  PROVE  StreamInv'
  <1> DEFINE n == Len(fromServer)
             c == ChangesSince(r, top)
             ms == Answer(r, top)
  <1>1. /\ TypeInv /\ CountInv /\ stream = "Open"
        /\ toServer # <<>> /\ toServer' = Tail(toServer)
        /\ fromServer' = fromServer \o ms /\ watched' = top
        /\ UNCHANGED <<cache, keys, token, updates, pending, changes, listeners, since,
                       stream, log>>
    <2>1. TypeInv /\ CountInv
      BY DEF AnswersInv, CountInv
    <2>2. toServer # <<>> /\ toServer' = Tail(toServer)
      BY DEF ServerWatch
    <2>3. stream = "Open"
      BY <2>1, <2>2, RequestRead
    <2>. QED
      BY <2>1, <2>2, <2>3 DEF ServerWatch, ServerSends, Answer, disk, views, aggregator
  <1>2. r = token
    <2>1. toServer[Len(toServer)] = r
      BY <1>1, RequestRead
    <2>. QED
      BY <1>1, <2>1 DEF AnswersInv, StreamInv
  <1>3. /\ top \in Nat /\ top \in 0 .. Len(log) /\ since <= top
        /\ token \in Nat /\ token <= top /\ pending \in Nat
    BY <1>1, Naturals DEF AnswersInv, VersionsInv, ClientVersions
  <1>4. pending # 0
    BY <1>1, WaitsForAcks
  <1>5. /\ ms \in Seq(Messages) /\ Len(c) \in Nat /\ Len(ms) = Len(c) + 3
        /\ ms[1] = Added /\ ms[Len(c) + 2] = Current /\ ms[Len(c) + 3] = Snap(top)
        /\ \A i \in 1 .. Len(c) : ms[i + 1] = c[i]
        /\ \A i \in 2 .. Len(ms) : ~IsAck(ms[i])
    BY <1>1, <1>3, AnswerSent
  <1>6. \A i \in 1 .. Len(c) : c[i].kind = "doc"
    BY ChangesAnswer
  <1>. HIDE DEF ms, c
  <1>7. PICK l \in Nat : l = Len(c)
    BY <1>5
  <1>8. /\ n \in Nat /\ Len(fromServer') = n + l + 3
        /\ \A i \in 1 .. l + 3 : fromServer'[n + i] = ms[i]
    <2>1. /\ n \in Nat /\ Len(fromServer') = n + Len(ms)
          /\ \A i \in 1 .. Len(ms) : fromServer'[n + i] = ms[i]
      <3>1. TypeInv /\ ms \in Seq(Messages) /\ fromServer' = fromServer \o ms
        BY <1>1, <1>5
      <3>. QED
        BY <3>1, SentAre
    <2>2. Len(ms) = l + 3 /\ n + (l + 3) = n + l + 3
      BY <1>5, <1>7, <2>1
    <2>. QED
      BY <2>1, <2>2
  <1>9. /\ IsAck(fromServer'[n + 1])
        /\ \A i \in n + 2 .. n + l + 3 : ~IsAck(fromServer'[i])
        /\ \A i \in n + 2 .. n + l + 1 : fromServer'[i].kind = "doc"
        /\ fromServer'[n + l + 2].kind = "current"
        /\ fromServer'[n + l + 3] = Snap(top)
    <2>1. 1 \in 1 .. l + 3 /\ l + 2 \in 1 .. l + 3 /\ l + 3 \in 1 .. l + 3
      OBVIOUS
    <2>2. fromServer'[n + 1] = Added
      BY <1>5, <1>8, <2>1
    <2>3. fromServer'[n + (l + 2)] = Current /\ fromServer'[n + (l + 3)] = Snap(top)
      BY <1>5, <1>7, <1>8, <2>1
    <2>4. \A i \in n + 2 .. n + l + 3 : ~IsAck(fromServer'[i])
      <3> SUFFICES ASSUME NEW i \in n + 2 .. n + l + 3 PROVE ~IsAck(fromServer'[i])
        OBVIOUS
      <3>1. PICK k \in 2 .. l + 3 : i = n + k
        <4>1. i - n \in 2 .. l + 3 /\ i = n + (i - n)
          BY <1>8
        <4>. QED
          BY <4>1
      <3>. QED
        BY <1>5, <1>7, <1>8, <3>1
    <2>5. \A i \in n + 2 .. n + l + 1 : fromServer'[i].kind = "doc"
      <3> SUFFICES ASSUME NEW i \in n + 2 .. n + l + 1 PROVE fromServer'[i].kind = "doc"
        OBVIOUS
      <3>1. PICK k \in 1 .. l : i = n + (k + 1)
        <4>1. i - n - 1 \in 1 .. l /\ i = n + ((i - n - 1) + 1)
          BY <1>8
        <4>. QED
          BY <4>1
      <3>2. k + 1 \in 1 .. l + 3 /\ k \in 1 .. Len(c)
        BY <1>7
      <3>3. fromServer'[i] = c[k]
        BY <1>5, <1>8, <3>1, <3>2
      <3>. QED
        BY <1>6, <3>2, <3>3
    <2>6. n + (l + 2) = n + l + 2 /\ n + (l + 3) = n + l + 3
      BY <1>8
    <2>. QED
      BY <2>2, <2>3, <2>4, <2>5, <2>6, Says
  <1>10. ASSUME NEW i \in 1 .. n + l + 3, Fresh(i)'
         PROVE  i >= n + 2
    <2> SUFFICES ASSUME i < n + 2 PROVE FALSE
      BY <1>8
    <2>1. n + 1 \in i .. n + l + 3
      BY <1>8
    <2>. QED
      BY <1>8, <1>9, <1>10, <2>1 DEF Fresh, IsAck
  <1>11. ASSUME NEW j \in 1 .. n + l + 4, NEW v \in Versions, Due(j, v)'
         PROVE  v = top /\ j >= n + l + 3
    <2>1. CASE j <= n + l + 3 /\ IsSnap(j)' /\ Fresh(j)' /\ v = fromServer'[j].v
      <3>1. j \in 1 .. n + l + 3 /\ j >= n + 2
        BY <1>8, <1>10, <2>1
      <3>2. j = n + l + 3
        <4>1. fromServer'[j].kind = "snap"
          BY <2>1 DEF IsSnap
        <4>2. j \notin n + 2 .. n + l + 1 /\ j # n + l + 2
          BY <1>9, <4>1
        <4>3. n \in Nat
          BY <1>8
        <4>. HIDE DEF n
        <4>. QED
          BY <2>1, <3>1, <4>2, <4>3
      <3>. QED
        BY <1>8, <1>9, <2>1, <3>2, Says
    <2>2. CASE j = n + l + 4 /\ v = watched'
      BY <1>1, <1>8, <2>2
    <2>3. n + l + 3 + 1 = n + l + 4
      BY <1>8
    <2>. QED
      BY <1>8, <1>11, <2>1, <2>2, <2>3 DEF Due
  <1>12. ASSUME NEW j \in 1 .. n + l + 4, j >= n + l + 3, NEW d \in Docs
         PROVE  Told(d, j, top)' \/ Has(d, j, top)'
    <2> DEFINE p == n + 1  m == n + l + 3
    <2>1. p \in Nat /\ m \in Nat /\ m = Len(fromServer') /\ Len(c) \in Nat
      BY <1>5, <1>8
    <2>2. \A i \in 1 .. Len(c) : fromServer'[p + i] = c[i]
      <3> SUFFICES ASSUME NEW i \in 1 .. l PROVE fromServer'[p + i] = c[i]
        BY <1>7
      <3>1. p + i = n + (i + 1) /\ i + 1 \in 1 .. l + 3
        BY <1>8
      <3>. QED
        BY <1>5, <1>7, <1>8, <3>1
    <2>3. \A i \in p + 1 .. m : /\ ~IsAck(fromServer'[i])
                                /\ fromServer'[i].kind = "doc" => i <= p + Len(c)
      <3> SUFFICES ASSUME NEW i \in n + 2 .. n + l + 3
                   PROVE  /\ ~IsAck(fromServer'[i])
                          /\ fromServer'[i].kind = "doc" => i <= n + 1 + l
        BY <1>7, <1>8
      <3>1. ~IsAck(fromServer'[i])
        BY <1>9
      <3>2. i <= n + 1 + l \/ i = n + l + 2 \/ i = n + l + 3
        BY <1>8
      <3>3. fromServer'[n + l + 2].kind # "doc" /\ fromServer'[n + l + 3].kind # "doc"
        BY <1>9, Says
      <3>. QED
        BY <3>1, <3>2, <3>3
    <2>4. j \in p + Len(c) + 1 .. m + 1
      BY <1>7, <1>8, <1>12
    <2>. HIDE DEF p, m
    <2>5. c = ChangesSince(r, top)
      BY DEF c
    <2>6. UNCHANGED log
      BY <1>1
    <2>7. /\ VersionAt(d, top) > r => Told(d, j, top)'
          /\ \A i \in p + 1 .. j - 1 : IsDoc(i, d)' => VersionAt(d, top) > r
      BY <2>1, <2>2, <2>3, <2>4, <2>5, <2>6, ToldOfChanges, ZenonT(60)
    <2>8. ASSUME ~(VersionAt(d, top) > r)
          PROVE  Has(d, j, top)'
      <3>1. Untold(d, j)'
        <4> SUFFICES ASSUME NEW i \in 1 .. j - 1, Fresh(i)', IsDoc(i, d)' PROVE FALSE
          BY DEF Untold
        <4>1. i \in 1 .. n + l + 3
          BY <1>8
        <4>2. i >= n + 2
          BY <1>10, <4>1
        <4>3. i \in p + 1 .. j - 1
          BY <1>8, <4>2 DEF p
        <4>. QED
          BY <2>7, <2>8, <4>3
      <3>2. /\ VersionAt(d, top) \in Nat /\ VersionAt(d, top) <= token
            /\ VersionAt(d, top) = VersionAt(d, token)
        <4>1. VersionAt(d, top) \in Nat
          BY <1>3, VersionAtIsLast
        <4>2. VersionAt(d, top) <= token
          BY <1>2, <1>3, <2>8, <4>1
        <4>. QED
          BY <1>3, <4>1, <4>2, VersionAtRises
      <3>3. /\ VersionAt(d, token) <= cache[d]
            /\ Exists(VersionAt(d, top)) => d \in keys
        BY <3>2 DEF AnswersInv, BaseInv, Holds
      <3>4. cache[d] \in Nat /\ cache[d] <= top /\ IsVersion(d, cache[d])
        BY <1>1, <1>3, Naturals DEF AnswersInv, VersionsInv, ClientVersions, IsVersion
      <3>5. cache[d] <= VersionAt(d, top)
        BY <1>3, <3>4, VersionIsOld
      <3>6. cache[d] = VersionAt(d, top)
        BY <3>2, <3>3, <3>4, <3>5
      <3>7. /\ VersionAt(d, top)' = VersionAt(d, top)
            /\ Exists(VersionAt(d, top))' = Exists(VersionAt(d, top))
        BY <1>1 DEF VersionAt, Exists
      <3>8. Collected(d, top)'
        BY <1>1, <1>4, <3>3, <3>6, <3>7 DEF Collected
      <3>. QED
        BY <3>1, <3>8 DEF Has
    <2>. QED
      BY <2>7, <2>8
  <1>13. ASSUME NEW j \in 1 .. n + l + 4, NEW v \in Versions, Due(j, v)'
         PROVE  since <= v /\ Reached(j, v)'
    <2>1. v = top /\ j >= n + l + 3
      BY <1>11, <1>13
    <2>. QED
      BY <1>3, <1>12, <2>1 DEF Reached
  <1>14. Len(fromServer') + 1 = n + l + 4
    BY <1>8
  <1>. QED
    BY <1>1, <1>13, <1>14 DEF StreamInv

LEMMA WatchAnswers ==
  ASSUME AnswersInv, CountInv', ServerWatch
  PROVE  AnswersInv'
  <1>1. PICK top : top = Len(log)
    OBVIOUS
  <1>2. PICK r : r = Head(toServer)
    OBVIOUS
  <1> DEFINE c == ChangesSince(r, top)
             ms == Answer(r, top)
  <1>3. ServerSends(ms, top)
    BY <1>1, <1>2 DEF ServerWatch, Answer
  <1>4. TypeInv /\ top \in Nat /\ top \in 0 .. Len(log)
    BY <1>1, Naturals DEF AnswersInv, CountInv
  <1>5. /\ ms \in Seq(Messages) /\ Len(c) \in Nat /\ Len(ms) = Len(c) + 3
        /\ ms[1] = Added /\ ms[Len(c) + 2] = Current /\ ms[Len(c) + 3] = Snap(top)
        /\ \A i \in 1 .. Len(c) : ms[i + 1] = c[i]
    BY <1>4, AnswerSent
  <1>6. ASSUME NEW i \in 1 .. Len(c)
        PROVE  /\ c[i].v <= top /\ c[i].kind = "doc"
               /\ c[i].doc \in Docs /\ IsVersion(c[i].doc, c[i].v)
    BY <1>1, ChangesAnswer
  <1>. HIDE DEF ms, c
  <1>7. ASSUME NEW i \in 1 .. Len(ms)
        PROVE  /\ ms[i].v <= Len(log)
               /\ ms[i].kind = "doc" => ms[i].doc \in Docs /\ IsVersion(ms[i].doc, ms[i].v)
               /\ ms[i].kind = "snap" => ms[i].v = Len(log)
    <2>1. CASE i \in {1, Len(c) + 2, Len(c) + 3}
      <3>1. ms[i] \in {Added, Current, Snap(top)}
        BY <1>5, <2>1
      <3>. QED
        BY <1>1, <1>4, <3>1, Says
    <2>2. CASE i \notin {1, Len(c) + 2, Len(c) + 3}
      <3>1. PICK k \in 1 .. Len(c) : i = k + 1
        <4>1. i - 1 \in 1 .. Len(c) /\ i = (i - 1) + 1
          BY <1>5, <2>2
        <4>. QED
          BY <4>1
      <3>2. ms[i] = c[k]
        BY <1>5, <3>1
      <3>. QED
        BY <1>1, <1>6, <3>2
    <2>. QED
      BY <2>1, <2>2
  <1>8. StreamInv'
    <2>1. CASE toServer' # <<>>
      BY <2>1, RequestsLeft DEF ServerReads
    <2>2. CASE listeners = {}
      <3>1. UNCHANGED listeners
        BY DEF ServerWatch, ServerSends, views
      <3>. QED
        BY <2>2, <3>1 DEF StreamInv
    <2>3. CASE toServer' = <<>> /\ listeners # {}
      BY <1>1, <1>2, <2>3, WatchStream
    <2>. QED
      BY <2>1, <2>2, <2>3
  <1>. QED
    BY <1>1, <1>3, <1>5, <1>7, <1>8, SentAnswers

(* An update goes on from the version that the target was last sent at.     *)
LEMMA UpdateStream ==
  ASSUME AnswersInv, ServerUpdate, NEW r, r = watched, NEW top, top = Len(log)
  PROVE  StreamInv'
  <1> DEFINE n == Len(fromServer)
             c == ChangesSince(r, top)
             ms == Refresh(r, top)
  <1>1. /\ TypeInv /\ CountInv
        /\ fromServer' = fromServer \o ms /\ watched' = top
        /\ UNCHANGED <<cache, keys, token, updates, pending, changes, listeners, since,
                       stream, log, toServer>>
    BY DEF AnswersInv, CountInv, ServerUpdate, ServerSends, Refresh, disk, views, aggregator
  <1>2. CASE ~(stream = "Open" /\ listeners # {} /\ toServer = <<>>)
    BY <1>1, <1>2 DEF AnswersInv, StreamInv
  <1>3. CASE stream = "Open" /\ listeners # {} /\ toServer = <<>>
    <2>1. /\ top \in Nat /\ top \in 0 .. Len(log) /\ since <= top
          /\ r \in Nat /\ r \in Versions /\ r <= top
      <3>1. watched \in Versions \cup {NotWatched} /\ watched # NotWatched /\ watched < Len(log)
        BY <1>1 DEF TypeInv, TypeOK, ServerUpdate
      <3>. QED
        BY <1>1, <3>1, Naturals, VersionsAreNat DEF AnswersInv, VersionsInv, ClientVersions
    <2>2. /\ ms \in Seq(Messages) /\ Len(c) \in Nat /\ Len(ms) = Len(c) + 1
          /\ ms[Len(c) + 1] = Snap(top)
          /\ \A i \in 1 .. Len(c) : ms[i] = c[i]
          /\ \A i \in 1 .. Len(ms) : ~IsAck(ms[i])
      BY <1>1, <2>1, RefreshSent
    <2>3. \A i \in 1 .. Len(c) : c[i].kind = "doc"
      BY ChangesAnswer
    <2>. HIDE DEF ms, c
    <2>4. PICK l \in Nat : l = Len(c)
      BY <2>2
    <2>5. /\ n \in Nat /\ Len(fromServer') = n + l + 1
          /\ \A i \in 1 .. n : fromServer'[i] = fromServer[i]
          /\ \A i \in 1 .. l + 1 : fromServer'[n + i] = ms[i]
          /\ \A i \in 1 .. n + l + 1 :
               i <= n \/ (i - n \in 1 .. l + 1 /\ fromServer'[i] = ms[i - n])
      <3>1. /\ n \in Nat /\ Len(fromServer') = n + Len(ms)
            /\ \A i \in 1 .. n : fromServer'[i] = fromServer[i]
            /\ \A i \in 1 .. Len(ms) : fromServer'[n + i] = ms[i]
            /\ \A i \in 1 .. n + Len(ms) :
                 i <= n \/ (i - n \in 1 .. Len(ms) /\ fromServer'[i] = ms[i - n])
        <4>1. TypeInv /\ ms \in Seq(Messages) /\ fromServer' = fromServer \o ms
          BY <1>1, <2>2
        <4>. QED
          BY <4>1, SentAre
      <3>2. Len(ms) = l + 1 /\ n + (l + 1) = n + l + 1
        BY <2>2, <2>4, <3>1
      <3>. QED
        BY <3>1, <3>2
    <2>6. /\ \A i \in n + 1 .. n + l + 1 : ~IsAck(fromServer'[i])
          /\ \A i \in n + 1 .. n + l : fromServer'[i].kind = "doc"
          /\ fromServer'[n + l + 1] = Snap(top)
      <3>1. ASSUME NEW i \in n + 1 .. n + l + 1
            PROVE  i - n \in 1 .. l + 1 /\ fromServer'[i] = ms[i - n]
        BY <2>5
      <3>2. \A i \in n + 1 .. n + l : i - n \in 1 .. l /\ i \in n + 1 .. n + l + 1
        BY <2>5
      <3>3. (n + l + 1) - n = l + 1 /\ n + l + 1 \in n + 1 .. n + l + 1
        BY <2>5
      <3>4. fromServer'[n + l + 1] = ms[l + 1]
        BY <3>1, <3>3
      <3>. QED
        BY <2>2, <2>3, <2>4, <3>1, <3>2, <3>4
    (* What was on its way is as it was. *)
    <2>7. ASSUME NEW i \in 1 .. n
          PROVE  /\ Fresh(i)' <=> Fresh(i)
                 /\ IsSnap(i)' <=> IsSnap(i)
                 /\ \A d : IsDoc(i, d)' <=> IsDoc(i, d)
      <3>1. \A k \in i .. n + l + 1 : k \in 1 .. n \/ k \in n + 1 .. n + l + 1
        BY <2>5
      <3>2. \A k \in i .. n : k \in i .. n + l + 1 /\ k \in 1 .. n
        BY <2>5
      <3>3. Fresh(i)' <=> \A k \in i .. n + l + 1 : ~IsAck(fromServer'[k])
        BY <2>5 DEF Fresh, IsAck
      <3>4. \A k \in i .. n + l + 1 : k \in i .. n \/ k \in n + 1 .. n + l + 1
        BY <2>5
      <3>5. Fresh(i)' <=> Fresh(i)
        BY <2>5, <2>6, <3>2, <3>3, <3>4 DEF Fresh
      <3>. QED
        BY <2>5, <3>5 DEF IsSnap, IsDoc
    <2>8. /\ \A d, v : VersionAt(d, v)' = VersionAt(d, v)
          /\ \A v : Exists(v)' = Exists(v)
      BY <1>1, SameLog
    <2>9. ASSUME NEW d \in Docs, NEW j \in 1 .. n + 1, NEW v
          PROVE  /\ Told(d, j, v) => Told(d, j, v)'
                 /\ Has(d, j, v) => Has(d, j, v)'
      <3>1. \A i \in 1 .. j - 1 : /\ i \in 1 .. n
                                  /\ \A k \in i .. j - 1 : k \in 1 .. n
        BY <2>5
      <3>2. Told(d, j, v) => Told(d, j, v)'
        <4> SUFFICES ASSUME Told(d, j, v) PROVE Told(d, j, v)'
          OBVIOUS
        <4>1. PICK i \in 1 .. j - 1 :
                /\ Fresh(i) /\ IsDoc(i, d)
                /\ \A k \in i .. j - 1 : IsDoc(k, d) => fromServer[k].v = VersionAt(d, v)
          BY DEF Told
        <4>2. Fresh(i)' /\ IsDoc(i, d)'
          BY <2>7, <3>1, <4>1
        <4>3. \A k \in i .. j - 1 : IsDoc(k, d)' => fromServer'[k].v = VersionAt(d, v)
          BY <2>5, <2>7, <3>1, <4>1
        <4>. QED
          BY <2>8, <4>2, <4>3 DEF Told
      <3>3. Untold(d, j) => Untold(d, j)'
        BY <2>7, <3>1 DEF Untold
      <3>4. Collected(d, v)' <=> Collected(d, v)
        BY <1>1, <2>8 DEF Collected
      <3>. QED
        BY <3>2, <3>3, <3>4 DEF Has
    <2>10. ASSUME NEW j \in 1 .. n + 1, NEW v \in Versions, Due(j, v)
           PROVE  since <= v /\ \A d \in Docs : Told(d, j, v) \/ Has(d, j, v)
      BY <1>3, <2>10 DEF AnswersInv, StreamInv, Reached
    <2>11. ASSUME NEW j \in 1 .. n, NEW v \in Versions, Due(j, v)'
           PROVE  since <= v /\ Reached(j, v)'
      <3>1. /\ j <= Len(fromServer) /\ j # Len(fromServer') + 1
            /\ j \in 1 .. n + 1
        BY <2>5
      <3>2. IsSnap(j)' /\ Fresh(j)' /\ v = fromServer'[j].v
        BY <2>11, <3>1 DEF Due
      <3>3. Due(j, v)
        BY <2>5, <2>7, <3>1, <3>2 DEF Due
      <3>. QED
        BY <2>9, <2>10, <3>1, <3>3 DEF Reached
    <2>12. ASSUME NEW j \in n + 1 .. n + l + 2, NEW v \in Versions, Due(j, v)'
           PROVE  v = top /\ j >= n + l + 1
      <3>1. CASE j <= n + l + 1 /\ IsSnap(j)' /\ v = fromServer'[j].v
        <4>1. j \in n + 1 .. n + l \/ j = n + l + 1
          <5>1. n \in Nat /\ l \in Nat /\ j \in n + 1 .. n + l + 2 /\ j <= n + l + 1
            BY <2>5, <3>1
          <5>. HIDE DEF n
          <5>. QED
            BY <5>1
        <4>2. j = n + l + 1
          BY <2>6, <3>1, <4>1 DEF IsSnap
        <4>. QED
          BY <2>5, <2>6, <3>1, <4>2, Says
      <3>2. CASE j = n + l + 2 /\ v = watched'
        BY <1>1, <2>5, <3>2
      <3>3. n + l + 1 + 1 = n + l + 2
        BY <2>5
      <3>. QED
        BY <2>5, <2>12, <3>1, <3>2, <3>3 DEF Due
    <2>13. ASSUME NEW j \in n + 1 .. n + l + 2, j >= n + l + 1, NEW d \in Docs
           PROVE  Told(d, j, top)' \/ Has(d, j, top)'
      <3> DEFINE m == n + l + 1
      <3>1. m \in Nat /\ m = Len(fromServer') /\ Len(c) \in Nat /\ n \in Nat
        BY <2>2, <2>5
      <3>2. \A i \in 1 .. Len(c) : fromServer'[n + i] = c[i]
        <4>1. \A i \in 1 .. l : i \in 1 .. l + 1
          OBVIOUS
        <4>. QED
          BY <2>2, <2>4, <2>5, <4>1
      <3>3. \A i \in n + 1 .. m : /\ ~IsAck(fromServer'[i])
                                  /\ fromServer'[i].kind = "doc" => i <= n + Len(c)
        <4> SUFFICES ASSUME NEW i \in n + 1 .. n + l + 1
                     PROVE  /\ ~IsAck(fromServer'[i])
                            /\ fromServer'[i].kind = "doc" => i <= n + l
          BY <2>4
        <4>1. i <= n + l \/ i = n + l + 1
          BY <2>5
        <4>. QED
          BY <2>6, <4>1, Says
      <3>4. j \in n + Len(c) + 1 .. m + 1
        BY <2>4, <2>5, <2>13
      <3>. HIDE DEF m
      <3>5. c = ChangesSince(r, top) /\ UNCHANGED log
        BY <1>1 DEF c
      <3>6. /\ VersionAt(d, top) > r => Told(d, j, top)'
            /\ \A i \in n + 1 .. j - 1 : IsDoc(i, d)' => VersionAt(d, top) > r
        BY <3>1, <3>2, <3>3, <3>4, <3>5, ToldOfChanges, ZenonT(60)
      <3>7. ASSUME ~(VersionAt(d, top) > r)
            PROVE  Told(d, j, top)' \/ Has(d, j, top)'
        <4>1. VersionAt(d, top) = VersionAt(d, r)
          <5>1. VersionAt(d, top) \in Nat
            BY <2>1, VersionAtIsLast
          <5>2. VersionAt(d, top) <= r
            BY <2>1, <3>7, <5>1
          <5>. QED
            BY <2>1, <5>2, VersionAtRises
        <4>2. /\ \A i \in n + 1 .. j - 1 : ~IsDoc(i, d)'
              /\ \A i \in 1 .. j - 1 : i \in 1 .. n \/ i \in n + 1 .. j - 1
              /\ n + 1 \in 1 .. n + 1 /\ n + 1 <= j
              /\ \A i : i \in 1 .. (n + 1) - 1 <=> i \in 1 .. n
          BY <2>5, <3>6, <3>7
        <4>3. Told(d, n + 1, r) \/ Has(d, n + 1, r)
          <5>1. Due(n + 1, r)
            BY DEF Due
          <5>. QED
            BY <2>1, <2>10, <4>2, <5>1
        <4>4. CASE Told(d, n + 1, r)
          <5>1. ASSUME NEW j0, j0 = n + 1 PROVE Told(d, j0, r)'
            BY <2>9, <4>2, <4>4, <5>1
          <5>2. PICK i \in 1 .. n :
                  /\ Fresh(i)' /\ IsDoc(i, d)'
                  /\ \A k \in i .. n : IsDoc(k, d)' => fromServer'[k].v = VersionAt(d, r)'
            BY <4>2, <5>1 DEF Told
          <5>3. i \in 1 .. j - 1 /\ \A k \in i .. j - 1 : k \in i .. n \/ k \in n + 1 .. j - 1
            BY <2>5, <4>2
          <5>4. \A k \in i .. j - 1 : IsDoc(k, d)' => fromServer'[k].v = VersionAt(d, top)'
            BY <2>8, <4>1, <4>2, <5>2, <5>3
          <5>. QED
            BY <5>2, <5>3, <5>4 DEF Told
        <4>5. CASE Has(d, n + 1, r)
          <5>1. ASSUME NEW j0, j0 = n + 1 PROVE Untold(d, j0)' /\ Collected(d, r)'
            BY <2>9, <4>2, <4>5, <5>1 DEF Has
          <5>2. Untold(d, j)'
            BY <4>2, <5>1 DEF Untold
          <5>3. Collected(d, top)'
            BY <2>8, <4>1, <5>1 DEF Collected
          <5>. QED
            BY <5>2, <5>3 DEF Has
        <4>. QED
          BY <4>3, <4>4, <4>5
      <3>. QED
        BY <3>6, <3>7
    <2>14. ASSUME NEW j \in 1 .. n + l + 2, NEW v \in Versions, Due(j, v)'
           PROVE  since <= v /\ Reached(j, v)'
      <3>1. CASE j \in 1 .. n
        BY <2>11, <2>14, <3>1
      <3>2. CASE j \in n + 1 .. n + l + 2
        <4>1. v = top /\ j >= n + l + 1
          BY <2>12, <2>14, <3>2
        <4>. QED
          BY <2>1, <2>13, <3>2, <4>1 DEF Reached
      <3>. QED
        BY <2>5, <3>1, <3>2
    <2>15. Len(fromServer') + 1 = n + l + 2
      BY <2>5
    <2>. QED
      BY <1>1, <1>3, <2>14, <2>15 DEF StreamInv
  <1>. QED
    BY <1>2, <1>3

LEMMA UpdateAnswers ==
  ASSUME AnswersInv, CountInv', ServerUpdate
  PROVE  AnswersInv'
  <1>1. PICK top : top = Len(log)
    OBVIOUS
  <1>2. PICK r : r = watched
    OBVIOUS
  <1> DEFINE c == ChangesSince(r, top)
             ms == Refresh(r, top)
  <1>3. ServerSends(ms, top)
    BY <1>1, <1>2 DEF ServerUpdate, Refresh
  <1>4. TypeInv /\ top \in Nat /\ top \in 0 .. Len(log)
    BY <1>1, Naturals DEF AnswersInv, CountInv
  <1>5. /\ ms \in Seq(Messages) /\ Len(c) \in Nat /\ Len(ms) = Len(c) + 1
        /\ ms[Len(c) + 1] = Snap(top)
        /\ \A i \in 1 .. Len(c) : ms[i] = c[i]
    BY <1>4, RefreshSent
  <1>6. ASSUME NEW i \in 1 .. Len(c)
        PROVE  /\ c[i].v <= top /\ c[i].kind = "doc"
               /\ c[i].doc \in Docs /\ IsVersion(c[i].doc, c[i].v)
    BY <1>1, ChangesAnswer
  <1>. HIDE DEF ms, c
  <1>7. ASSUME NEW i \in 1 .. Len(ms)
        PROVE  /\ ms[i].v <= Len(log)
               /\ ms[i].kind = "doc" => ms[i].doc \in Docs /\ IsVersion(ms[i].doc, ms[i].v)
               /\ ms[i].kind = "snap" => ms[i].v = Len(log)
    <2>1. CASE i = Len(c) + 1
      BY <1>1, <1>4, <1>5, <2>1, Says
    <2>2. CASE i \in 1 .. Len(c)
      BY <1>1, <1>5, <1>6, <2>2
    <2>. QED
      BY <1>5, <2>1, <2>2
  <1>8. StreamInv'
    BY <1>1, <1>2, UpdateStream
  <1>. QED
    BY <1>1, <1>3, <1>5, <1>7, <1>8, SentAnswers

(* A write: the versions that the client has, or is told, stay as they are. *)
LEMMA WriteAnswers ==
  ASSUME AnswersInv, CountInv', NEW x \in Docs, Write(x)
  PROVE  AnswersInv'
  <1> DEFINE top == Len(log)
  <1>1. PICK b \in BOOLEAN : log' = Append(log, [doc |-> x, exists |-> b])
    BY DEF Write
  <1>2. PICK e \in [doc : Docs, exists : BOOLEAN] : log' = Append(log, e)
    BY <1>1
  <1>3. /\ UNCHANGED <<cache, keys, saved, last, events, current, token, updates, pending,
                       changes, listeners, since, stream, toServer, fromServer, watched>>
        /\ TypeInv /\ log \in Seq([doc : Docs, exists : BOOLEAN])
    BY DEF Write, disk, views, aggregator, wire, AnswersInv, CountInv, TypeInv, TypeOK
  <1>4. /\ top \in Nat /\ Len(log') = top + 1
        /\ \A v \in 0 .. top : /\ Exists(v)' = Exists(v)
                               /\ \A d : IsVersion(d, v) => IsVersion(d, v)'
                               /\ \A d : VersionAt(d, v)' = VersionAt(d, v)
    BY <1>2, <1>3, LogGrows, Naturals
  <1>5. \A d \in Docs, v \in 0 .. top :
          /\ VersionAt(d, v) \in 0 .. top
          /\ VersionAt(d, v)' = VersionAt(d, v)
          /\ Exists(VersionAt(d, v))' = Exists(VersionAt(d, v))
    <2> SUFFICES ASSUME NEW d \in Docs, NEW v \in 0 .. top
                 PROVE  /\ VersionAt(d, v) \in 0 .. top
                        /\ VersionAt(d, v)' = VersionAt(d, v)
                        /\ Exists(VersionAt(d, v))' = Exists(VersionAt(d, v))
      OBVIOUS
    <2>1. VersionAt(d, v) \in 0 .. top /\ VersionAt(d, v)' = VersionAt(d, v)
      BY <1>4, VersionAtIsLast
    <2>2. ASSUME NEW u, u = VersionAt(d, v)
          PROVE  Exists(VersionAt(d, v))' = Exists(VersionAt(d, v))
      <3>1. Exists(u)' = Exists(u)
        BY <1>4, <2>1, <2>2
      <3>. QED
        BY <2>1, <2>2, <3>1 DEF Exists
    <2>. QED
      BY <2>1, <2>2
  <1>6. /\ last \in 0 .. top /\ since \in 0 .. top /\ saved \in 0 .. top /\ token \in 0 .. top
        /\ saved <= last /\ token <= last
        /\ \A d \in Docs : /\ cache[d] \in 0 .. top /\ updates[d] \in 0 .. top
                           /\ cache[d] <= last
                           /\ IsVersion(d, cache[d]) /\ IsVersion(d, updates[d])
    BY <1>3, <1>4, Naturals DEF AnswersInv, VersionsInv, ClientVersions, IsVersion
  <1>7. \A i \in 1 .. Len(fromServer) : fromServer[i].v \in 0 .. top
    BY <1>3, <1>4, Naturals DEF AnswersInv, VersionsInv, MessageVersions
  <1>8. ASSUME NEW d, NEW v \in 0 .. top, IsVersion(d, v)
        PROVE  IsVersion(d, v)'
    BY <1>4, <1>8
  <1>9. VersionsInv'
    <2>1. ClientVersions'
      <3>1. ASSUME NEW d \in Docs PROVE IsVersion(d, cache[d])' /\ IsVersion(d, updates[d])'
        <4>1. ASSUME NEW v, v = cache[d] PROVE IsVersion(d, cache[d])'
          BY <1>3, <1>6, <1>8, <4>1 DEF IsVersion
        <4>2. ASSUME NEW v, v = updates[d] PROVE IsVersion(d, updates[d])'
          BY <1>3, <1>6, <1>8, <4>2 DEF IsVersion
        <4>. QED
          BY <4>1, <4>2
      <3>2. last' <= Len(log') /\ since' <= Len(log')
        BY <1>3, <1>4, <1>6
      <3>. QED
        BY <1>3, <1>6, <3>1, <3>2 DEF ClientVersions
    <2>2. MessageVersions'
      <3>1. ASSUME NEW i \in 1 .. Len(fromServer)
            PROVE  /\ fromServer[i].v <= Len(log')
                   /\ fromServer[i].kind = "doc" =>
                        /\ fromServer[i].doc \in Docs
                        /\ IsVersion(fromServer[i].doc, fromServer[i].v)'
                   /\ IsSnap(i)' => Follows(fromServer[i].v, i)'
        <4>1. /\ fromServer[i].kind = "doc" =>
                   fromServer[i].doc \in Docs /\ IsVersion(fromServer[i].doc, fromServer[i].v)
              /\ IsSnap(i) => Follows(fromServer[i].v, i)
          BY DEF AnswersInv, VersionsInv, MessageVersions
        <4>2. fromServer[i].v \in 0 .. top /\ fromServer[i].v <= Len(log')
          BY <1>4, <1>7
        <4>3. ASSUME NEW d, d = fromServer[i].doc, NEW v, v = fromServer[i].v, IsVersion(d, v)
              PROVE  IsVersion(fromServer[i].doc, fromServer[i].v)'
          <5>1. IsVersion(d, v)'
            BY <1>8, <4>2, <4>3
          <5>. QED
            BY <1>3, <4>3, <5>1 DEF IsVersion
        <4>4. IsVersion(fromServer[i].doc, fromServer[i].v) =>
                IsVersion(fromServer[i].doc, fromServer[i].v)'
          BY <4>3
        <4>5. IsSnap(i)' => Follows(fromServer[i].v, i)'
          BY <1>3, <4>1 DEF IsSnap, Follows
        <4>. QED
          BY <4>1, <4>2, <4>4, <4>5
      <3>. QED
        BY <1>3, <3>1 DEF MessageVersions
    <2>3. WatchedVersion'
      <3> SUFFICES ASSUME watched' # NotWatched
                   PROVE  watched' <= Len(log') /\ Follows(watched, Len(fromServer))'
        BY DEF WatchedVersion
      <3>1. watched <= top /\ Follows(watched, Len(fromServer)) /\ watched \in Nat
        BY <1>3, Naturals DEF AnswersInv, VersionsInv, WatchedVersion
      <3>. QED
        BY <1>3, <1>4, <3>1 DEF Follows
    <2>. QED
      BY <2>1, <2>2, <2>3 DEF VersionsInv
  <1>10. BaseInv'
    <2>1. ASSUME NEW d \in Docs, NEW r \in 0 .. top, r <= last, Holds(d, r),
                 NEW u, u = VersionAt(d, Len(log))'
          PROVE  u <= r /\ Exists(u)' => d \in keys
      <3>1. PICK t : t = top
        OBVIOUS
      <3>2. VersionAt(d, t + 1)' = IF e.doc = d THEN t + 1 ELSE VersionAt(d, t)
        BY <1>2, <1>3, <3>1, LatestVersions
      <3>3. u = VersionAt(d, t + 1)'
        BY <1>4, <2>1, <3>1 DEF VersionAt
      <3>4. CASE e.doc = d
        BY <1>4, <2>1, <3>1, <3>2, <3>3, <3>4
      <3>5. CASE e.doc # d
        <4>1. u = VersionAt(d, top) /\ u \in 0 .. top
          <5>1. u = VersionAt(d, t) /\ t \in 0 .. top
            BY <1>4, <3>1, <3>2, <3>3, <3>5
          <5>2. VersionAt(d, t) \in 0 .. top
            BY <1>5, <5>1
          <5>. QED
            BY <3>1, <5>1, <5>2
        <4>2. Exists(u)' = Exists(u)
          BY <1>4, <4>1
        <4>. QED
          BY <2>1, <4>1, <4>2 DEF Holds
      <3>. QED
        BY <3>4, <3>5
    <2>2. ASSUME NEW d \in Docs PROVE Holds(d, saved)' /\ Holds(d, token)'
      <3>1. Holds(d, saved) /\ Holds(d, token)
        BY DEF AnswersInv, BaseInv
      <3>2. PICK u : u = VersionAt(d, Len(log))'
        OBVIOUS
      <3>3. /\ u <= saved /\ Exists(u)' => d \in keys
            /\ u <= token /\ Exists(u)' => d \in keys
        BY <1>6, <2>1, <3>1, <3>2
      <3>4. ASSUME NEW r, r = saved PROVE VersionAt(d, saved)' <= cache[d]
        <4>1. VersionAt(d, r)' = VersionAt(d, r)
          BY <1>5, <1>6, <3>4
        <4>2. VersionAt(d, saved)' = VersionAt(d, r)'
          BY <1>3, <3>4 DEF VersionAt
        <4>3. VersionAt(d, r) <= cache[d]
          BY <3>1, <3>4 DEF Holds
        <4>. QED
          BY <4>1, <4>2, <4>3
      <3>5. ASSUME NEW r, r = token PROVE VersionAt(d, token)' <= cache[d]
        <4>1. VersionAt(d, r)' = VersionAt(d, r)
          BY <1>5, <1>6, <3>5
        <4>2. VersionAt(d, token)' = VersionAt(d, r)'
          BY <1>3, <3>5 DEF VersionAt
        <4>3. VersionAt(d, r) <= cache[d]
          BY <3>1, <3>5 DEF Holds
        <4>. QED
          BY <4>1, <4>2, <4>3
      <3>6. Exists(VersionAt(d, Len(log)))' = Exists(u)'
        BY <3>2 DEF Exists
      <3>. QED
        BY <1>3, <3>2, <3>3, <3>4, <3>5, <3>6 DEF Holds
    <2>. QED
      BY <2>2 DEF BaseInv
  <1>11. StreamInv'
    <2>1. /\ \A i : Fresh(i)' = Fresh(i) /\ IsSnap(i)' = IsSnap(i)
          /\ \A i, d : IsDoc(i, d)' = IsDoc(i, d)
      BY <1>3 DEF Fresh, IsSnap, IsDoc
    <2>2. \A j, v : Due(j, v)' = Due(j, v)
      BY <1>3, <2>1 DEF Due
    <2>3. ASSUME NEW d \in Docs, NEW j, NEW v \in 0 .. top
          PROVE  Told(d, j, v)' = Told(d, j, v) /\ Has(d, j, v)' = Has(d, j, v)
      <3>1. /\ VersionAt(d, v)' = VersionAt(d, v)
            /\ Exists(VersionAt(d, v))' = Exists(VersionAt(d, v))
        BY <1>5
      <3>2. Told(d, j, v)' = Told(d, j, v)
        BY <1>3, <2>1, <3>1 DEF Told
      <3>3. Has(d, j, v)' = Has(d, j, v)
        BY <1>3, <2>1, <3>1 DEF Has, Untold, Collected
      <3>. QED
        BY <3>2, <3>3
    <2>4. ASSUME NEW j \in 1 .. Len(fromServer) + 1, NEW v \in Versions, Due(j, v)
          PROVE  v \in 0 .. top
      <3>1. v \in Nat /\ v # NotWatched
        BY VersionsAreNat DEF NotWatched
      <3>2. CASE j <= Len(fromServer) /\ v = fromServer[j].v
        <4>1. j \in 1 .. Len(fromServer)
          BY <3>2
        <4>. QED
          BY <1>7, <3>2, <4>1
      <3>3. CASE v = watched
        BY <1>4, <3>1, <3>3 DEF AnswersInv, VersionsInv, WatchedVersion
      <3>. QED
        BY <2>4, <3>2, <3>3 DEF Due
    <2>. QED
      BY <1>3, <2>2, <2>3, <2>4 DEF AnswersInv, StreamInv, Reached
  <1>12. CurrentInv'
    <2> SUFFICES ASSUME current' PROVE CurrentInv'
      BY DEF CurrentInv
    <2>1. /\ listeners # {} /\ since <= token
          /\ \A d \in Docs : cache[d] = VersionAt(d, token)
          /\ \A d \in Docs : Exists(cache[d]) => d \in keys
          /\ pending > 0 => updates = NoUpdates
      BY <1>3 DEF AnswersInv, CurrentInv, NothingInLimbo
    <2>2. \A d \in Docs : VersionAt(d, token)' = VersionAt(d, token)
      <3>1. ASSUME NEW r, r = token, NEW d \in Docs
            PROVE  VersionAt(d, token)' = VersionAt(d, token)
        <4>1. VersionAt(d, r)' = VersionAt(d, r)
          BY <1>5, <1>6, <3>1
        <4>2. VersionAt(d, token)' = VersionAt(d, r)'
          BY <1>3, <3>1 DEF VersionAt
        <4>. QED
          BY <3>1, <4>1, <4>2
      <3>. QED
        BY <3>1
    <2>3. \A d \in Docs : Exists(cache[d])' = Exists(cache[d])
      <3>1. ASSUME NEW d \in Docs, NEW u, u = cache[d]
            PROVE  Exists(cache[d])' = Exists(cache[d])
        <4>1. Exists(u)' = Exists(u)
          BY <1>4, <1>6, <3>1
        <4>. QED
          BY <1>3, <3>1, <4>1 DEF Exists
      <3>. QED
        BY <3>1
    <2>. QED
      BY <1>3, <2>1, <2>2, <2>3 DEF CurrentInv, NothingInLimbo
  <1>13. WholeAnswers'
    <2> SUFFICES ASSUME NEW i \in 1 .. Len(events), ~events[i].cached
                 PROVE  \E n \in events[i].since .. Len(log') : events[i].docs = StateAt(n)'
      BY <1>3 DEF WholeAnswers
    <2>1. PICK n \in events[i].since .. top : events[i].docs = StateAt(n)
      BY DEF AnswersInv, WholeAnswers
    <2>2. events[i].since \in Nat
      <3>1. events \in Seq(Events)
        BY <1>3 DEF TypeInv
      <3>2. \A v \in Events : v.since \in Nat
        BY VersionsAreNat DEF Events
      <3>3. events[i] \in Events
        BY <3>1
      <3>. QED
        BY <3>2, <3>3
    <2>3. n \in 0 .. top /\ n \in events[i].since .. Len(log')
      BY <1>4, <2>1, <2>2
    <2>4. StateAt(n)' = StateAt(n)
      <3>1. \A d \in Docs : /\ VersionAt(d, n)' = VersionAt(d, n)
                            /\ Exists(VersionAt(d, n))' = Exists(VersionAt(d, n))
        BY <1>5, <2>3
      <3>. QED
        BY <3>1 DEF StateAt, Contents
    <2>. QED
      BY <2>1, <2>3, <2>4
  <1>. QED
    BY <1>9, <1>10, <1>11, <1>12, <1>13 DEF AnswersInv

LEMMA StutterAnswers ==
  ASSUME AnswersInv, CountInv', UNCHANGED vars
  PROVE  AnswersInv'
  <1>1. /\ UNCHANGED <<cache, keys, saved, last, events, current, token, updates, pending,
                       changes, listeners, since, stream, toServer, fromServer, watched, log>>
        /\ TypeInv
    BY DEF vars, disk, views, aggregator, wire, AnswersInv, CountInv
  <1>2. since <= Len(log) /\ saved <= last /\ token <= last
    BY DEF AnswersInv, VersionsInv, ClientVersions
  <1>3. VersionsInv' /\ BaseInv' /\ StreamInv'
    BY <1>1, <1>2, VersionsKept, BaseKept, StreamKept DEF AnswersInv
  <1>4. CurrentInv'
    BY <1>1, CurrentKept DEF AnswersInv, CurrentInv
  <1>5. WholeAnswers'
    <2>1. TypeInv'
      BY DEF CountInv
    <2>. QED
      BY <1>1, <1>3, <1>4, <2>1, AnswersKept DEF AnswersInv
  <1>. QED
    BY <1>3, <1>4, <1>5 DEF AnswersInv

LEMMA NextAnswers == AnswersInv /\ [Next]_vars => AnswersInv'
  <1> SUFFICES ASSUME AnswersInv, [Next]_vars PROVE AnswersInv'
    OBVIOUS
  <1>1. CountInv'
    BY NextCounts DEF AnswersInv
  <1>. QED
    BY <1>1, AppAnswers, BlockAnswers, StreamAnswers, MessageAnswers, WatchAnswers,
       UnwatchAnswers, UpdateAnswers, WriteAnswers, StutterAnswers DEF Next, ServerReads

(* What a completion is given, if it is not from the cache, is a whole      *)
(* state of the server, no older than the listen that got it, whatever      *)
(* messages were cut off, were late, or were for an earlier listen.         *)
THEOREM AnswersAreWhole == Spec => []WholeAnswers
  <1>1. AnswersInv => WholeAnswers
    BY DEF AnswersInv
  <1>. QED
    BY InitAnswers, NextAnswers, <1>1, PTL DEF Spec

(* A view that says it is complete shows no document that its target does   *)
(* not hold.                                                                *)
THEOREM NothingStaysInLimbo == Spec => []NothingInLimbo
  <1>1. AnswersInv => NothingInLimbo
    BY DEF AnswersInv, CurrentInv, NothingInLimbo
  <1>. QED
    BY InitAnswers, NextAnswers, <1>1, PTL DEF Spec

=============================================================================
