----------------------- MODULE FirestoreAnswersProofs -----------------------
(***************************************************************************)
(* FirestoreListen keeps the promise of QueryAnswers, for every set of     *)
(* documents and every value of the bounds: each step of the client, the   *)
(* server or the network is one of QueryAnswers, or is not seen by callers.*)
(* It rests on AnswersInv, the inductive invariant of FirestoreListen.     *)
(***************************************************************************)
EXTENDS FirestoreListenProofs

(* The two ways to say which version of a document the server had. *)
LEMMA SameVersions ==
  ASSUME NEW d, NEW n \in Nat
  PROVE  Query!VersionAt(d, n) = VersionAt(d, n)
  <1> DEFINE IsLast(v) == Query!IsOf(d, v) /\ \A i \in v + 1 .. n : ~Query!IsOf(d, i)
  <1>1. /\ VersionAt(d, n) \in 0 .. n
        /\ VersionAt(d, n) # 0 => log[VersionAt(d, n)].doc = d
        /\ \A i \in 1 .. n : log[i].doc = d => i <= VersionAt(d, n)
    BY VersionAtIsLast
  <1>2. IsLast(VersionAt(d, n))
    <2>1. ASSUME NEW i \in VersionAt(d, n) + 1 .. n
          PROVE  i # 0 /\ log[i].doc # d
      BY <1>1
    <2>. QED
      BY <1>1, <2>1 DEF Query!IsOf
  <1>3. ASSUME NEW v \in 0 .. n, IsLast(v)
        PROVE  v = VersionAt(d, n)
    <2>1. v # 0 => v <= VersionAt(d, n)
      BY <1>1, <1>3 DEF Query!IsOf
    <2>2. VersionAt(d, n) \in v + 1 .. n => Query!IsOf(d, VersionAt(d, n))
      BY <1>2
    <2>. QED
      BY <1>1, <1>3, <2>1, <2>2
  <1>4. Query!VersionAt(d, n) = CHOOSE v \in 0 .. n : IsLast(v)
    BY Zenon DEF Query!VersionAt
  <1>. HIDE DEF IsLast
  <1>. QED
    BY <1>1, <1>2, <1>3, <1>4

LEMMA SameStates ==
  ASSUME NEW n \in Nat
  PROVE  Query!Listed([d \in Docs |-> Query!VersionAt(d, n)]) = StateAt(n)
  <1>1. [d \in Docs |-> Query!VersionAt(d, n)] = [d \in Docs |-> VersionAt(d, n)]
    BY SameVersions
  <1>. QED
    BY <1>1 DEF Query!Listed, StateAt, Contents, Exists

-----------------------------------------------------------------------------
(* Events posted: a step that posts events of what the cache then holds,    *)
(* and at most moves the cache on, is one of Tell.                          *)

EventsOf(docs) == {e \in Events : e.docs = docs}

LEMMA Tells ==
  ASSUME AnswersInv, AnswersInv', UNCHANGED <<log, answered>>,
         NEW docs, docs = Contents(cache)',
         NEW new \in Seq(EventsOf(docs)), events' = events \o new,
         \A d \in Docs : cache[d] <= cache'[d]
  PROVE  Query!Tell
  <1>1. events \in Seq(Events) /\ events' \in Seq(Events) /\ Len(log) \in Nat
    BY Naturals DEF AnswersInv, CountInv, TypeInv
  <1>2. /\ Len(events') = Len(events) + Len(new)
        /\ Len(events) \in Nat /\ Len(new) \in Nat
        /\ \A i \in 1 .. Len(events) : events'[i] = events[i]
        /\ \A i \in 1 .. Len(events') :
             i <= Len(events) \/ (i - Len(events) \in 1 .. Len(new) /\ events'[i] = new[i - Len(events)])
    <2>. HIDE DEF EventsOf
    <2>. QED
      BY <1>1, Appended
  <1>3. Query!Learn
    <2>1. ASSUME NEW d \in Docs
          PROVE  cache'[d] \in cache[d] .. Len(log) /\ Query!IsOf(d, cache'[d])
      <3>1. cache[d] \in Nat
        BY Naturals DEF AnswersInv, CountInv
      <3>2. cache'[d] \in Nat
        BY VersionsAreNat DEF AnswersInv, CountInv, TypeInv, TypeOK
      <3>3. cache'[d] <= Len(log) /\ (cache'[d] # 0 => log[cache'[d]].doc = d)
        BY DEF AnswersInv, VersionsInv, ClientVersions, IsVersion
      <3>. QED
        BY <1>1, <3>1, <3>2, <3>3 DEF Query!IsOf
    <2>. QED
      BY <2>1 DEF Query!Learn
  <1>4. SubSeq(events', 1, Len(events)) = events
    BY <1>1, <1>2
  <1>5. ASSUME NEW i \in Len(events) + 1 .. Len(events')
        PROVE  Query!Answer(events'[i])
    <2>1. i \in 1 .. Len(events') /\ ~(i <= Len(events))
      BY <1>2
    <2>2. events'[i] \in EventsOf(docs)
      <3>. HIDE DEF EventsOf
      <3>. QED
        BY <1>2, <2>1
    <2>3. events'[i].call \in Calls /\ events'[i].docs = docs /\ events'[i].since \in Nat
      BY <2>2, VersionsAreNat DEF EventsOf, Events
    <2>4. docs = Query!Listed(cache')
      BY DEF Contents, Exists, Query!Listed
    <2>5. ASSUME ~events'[i].cached
          PROVE  Query!Whole(events'[i].docs)
      <3>1. PICK n \in events'[i].since .. Len(log') : events'[i].docs = StateAt(n)'
        BY <2>1, <2>5 DEF AnswersInv, WholeAnswers
      <3>2. n \in 0 .. Len(log) /\ n \in Nat
        BY <1>1, <2>3, <3>1
      <3>3. StateAt(n)' = StateAt(n)
        BY DEF StateAt, Contents, Exists, VersionAt
      <3>4. events'[i].docs = Query!Listed([d \in Docs |-> Query!VersionAt(d, n)])
        BY <3>1, <3>2, <3>3, SameStates
      <3>. QED
        BY <3>2, <3>4 DEF Query!Whole
    <2>. QED
      BY <2>3, <2>4, <2>5 DEF Query!Answer
  <1>6. Len(events) <= Len(events')
    BY <1>2
  <1>. QED
    BY <1>3, <1>4, <1>5, <1>6 DEF Query!Tell

(* The events that Posted makes of the cache. *)
LEMMA PostedOf ==
  ASSUME TypeInv, NEW calls \in SUBSET Calls, NEW cached \in BOOLEAN,
         NEW docs \in [Docs -> Versions]
  PROVE  Posted(calls, docs, cached) \in Seq(EventsOf(docs))
  <1> DEFINE S == [call : Calls, docs : {docs}, cached : {cached}, since : {since}]
  <1>1. since \in Versions
    BY DEF TypeInv, TypeOK
  <1>2. S \subseteq EventsOf(docs)
    BY <1>1 DEF EventsOf, Events
  <1>3. Posted(calls, docs, cached) \in Seq(S)
    BY PostedAre
  <1>. HIDE DEF S
  <1>. QED
    BY <1>2, <1>3, SeqMonotonic

(* Steps that leave the cache as it is. *)
LEMMA TellsOfCache ==
  ASSUME AnswersInv, AnswersInv', UNCHANGED <<log, answered, cache>>,
         NEW new \in Seq(EventsOf(Contents(cache))), events' = events \o new
  PROVE  Query!Tell
  <1>1. Contents(cache)' = Contents(cache)
    BY DEF Contents, Exists
  <1>2. \A d \in Docs : cache[d] <= cache'[d]
    BY Naturals DEF AnswersInv, CountInv
  <1> DEFINE docs == Contents(cache)
  <1>3. docs = Contents(cache)'
    BY <1>1
  <1>. HIDE DEF docs
  <1>. QED
    BY <1>2, <1>3, Tells DEF docs

LEMMA CacheTyped ==
  ASSUME AnswersInv
  PROVE  /\ TypeInv /\ cache \in [Docs -> Versions]
         /\ Contents(cache) \in [Docs -> Versions]
         /\ events \in Seq(Events)
         /\ listeners \subseteq Calls /\ raised \subseteq listeners
         /\ since \in Versions
  <1>1. /\ TypeInv /\ cache \in [Docs -> Versions] /\ events \in Seq(Events)
        /\ listeners \subseteq Calls /\ raised \subseteq listeners
        /\ since \in Versions
    BY DEF AnswersInv, CountInv, TypeInv, TypeOK
  <1>. QED
    BY <1>1, ContentsTyped

(* A step that posts nothing and leaves the cache as it is goes unseen. *)
Unseen == UNCHANGED <<log, cache, events, answered>>

-----------------------------------------------------------------------------
(* The blocks of the worker queue. *)

LEMMA JoinTells ==
  ASSUME AnswersInv, AnswersInv', NEW c \in Calls, JoinListeners(c),
         UNCHANGED <<log, app>>
  PROVE  Query!Tell \/ Unseen
  <1>1. UNCHANGED <<log, answered, cache>>
    BY DEF JoinListeners, disk, app
  <1>2. CASE Synced \/ online = "Offline"
    <2>1. events' = events \o Posted({c}, Contents(cache), ~Synced)
      BY <1>2, Zenon DEF JoinListeners
    <2>2. (~Synced) \in BOOLEAN /\ {c} \in SUBSET Calls
      OBVIOUS
    <2>3. Posted({c}, Contents(cache), ~Synced) \in Seq(EventsOf(Contents(cache)))
      BY <2>2, CacheTyped, PostedOf
    <2>. QED
      BY <1>1, <2>1, <2>3, TellsOfCache
  <1>3. CASE ~(Synced \/ online = "Offline")
    BY <1>1, <1>3 DEF JoinListeners, Unseen
  <1>. QED
    BY <1>2, <1>3

LEMMA FirstTells ==
  ASSUME AnswersInv, AnswersInv', NEW c \in Calls, FirstListener(c),
         UNCHANGED <<log, app>>
  PROVE  Query!Tell \/ Unseen
  <1>1. UNCHANGED <<log, answered, cache>>
    BY DEF FirstListener, disk, app
  <1>2. CASE online = "Offline"
    <2> DEFINE e == Event(c, Contents(cache), TRUE, Len(log))
    <2>1. events' = Append(events, e)
      BY <1>2 DEF FirstListener
    <2>2. e \in EventsOf(Contents(cache))
      BY CacheTyped, LogLength DEF Event, EventsOf, Events
    <2>. HIDE DEF e
    <2>3. <<e>> \in Seq(EventsOf(Contents(cache)))
      BY <2>2
    <2>4. events' = events \o <<e>>
      BY <2>1, CacheTyped, AppendIsConcat
    <2>. QED
      BY <1>1, <2>3, <2>4, TellsOfCache
  <1>3. CASE online # "Offline"
    BY <1>1, <1>3 DEF FirstListener, Unseen
  <1>. QED
    BY <1>2, <1>3

LEMMA BlockTells ==
  ASSUME AnswersInv, AnswersInv', WorkerBlock
  PROVE  Query!Tell \/ Unseen
  <1>1. UNCHANGED <<log, app>> /\ Head(worker).call \in Calls
    BY BlockTaken DEF WorkerBlock, AnswersInv, CountInv
  <1>2. \/ AddListener(Head(worker).call)
        \/ RemoveListener(Head(worker).call)
    BY DEF WorkerBlock
  <1>3. ASSUME RemoveListener(Head(worker).call) PROVE Unseen
    BY <1>1, <1>3 DEF RemoveListener, Unseen, app
  <1>. QED
    BY <1>1, <1>2, <1>3, JoinTells, FirstTells DEF AddListener

-----------------------------------------------------------------------------
(* The stream and its timers. *)

LEMMA OfflineTells ==
  ASSUME AnswersInv, AnswersInv', GoOffline, UNCHANGED <<log, answered, cache>>
  PROVE  Query!Tell
  <1> DEFINE told == IF Synced THEN listeners ELSE listeners \ raised
  <1>1. told \in SUBSET Calls
    BY CacheTyped
  <1>2. events' = events \o Posted(told, Contents(cache), TRUE)
    BY DEF GoOffline
  <1>. HIDE DEF told
  <1>3. Posted(told, Contents(cache), TRUE) \in Seq(EventsOf(Contents(cache)))
    BY <1>1, CacheTyped, PostedOf
  <1>. QED
    BY <1>2, <1>3, TellsOfCache

LEMMA StreamTells ==
  ASSUME AnswersInv, AnswersInv', StreamFails \/ OnlineTimeout
  PROVE  Query!Tell \/ Unseen
  <1>1. UNCHANGED <<log, answered, cache>>
    BY DEF StreamFails, OnlineTimeout, disk, app
  <1>2. GoOffline \/ UNCHANGED events
    BY DEF StreamFails, RetryStream, OnlineTimeout
  <1>. QED
    BY <1>1, <1>2, OfflineTells DEF Unseen

-----------------------------------------------------------------------------
(* A snapshot of the watch stream moves the cache on, and tells the         *)
(* listeners of what it then holds.                                         *)

LEMMA EmitTells ==
  ASSUME AnswersInv, NEW now \in BOOLEAN, NEW c \in [Docs -> Versions],
         NEW ks \in SUBSET Docs, Emit(now, c, ks)
  PROVE  \E new \in Seq(EventsOf(Contents(c))) : events' = events \o new
  <1> DEFINE synced == SyncedWith(now, c, ks)
             told == IF synced THEN listeners ELSE listeners \cap raised
             docs == Contents(c)
  <1>1. \/ events' = events \o Posted(told, docs, ~synced)
        \/ events' = events
    BY Zenon DEF Emit
  <1>2. told \in SUBSET Calls /\ (~synced) \in BOOLEAN /\ docs \in [Docs -> Versions]
    <2>1. told \in SUBSET Calls /\ docs \in [Docs -> Versions]
      BY CacheTyped, ContentsTyped
    <2>2. (~synced) \in BOOLEAN
      <3>. HIDE DEF synced
      <3>. QED
        OBVIOUS
    <2>. QED
      BY <2>1, <2>2
  <1>. HIDE DEF synced, told, docs
  <1>3. Posted(told, docs, ~synced) \in Seq(EventsOf(docs))
    BY <1>2, CacheTyped, PostedOf
  <1>4. <<>> \in Seq(EventsOf(docs)) /\ events = events \o <<>>
    BY CacheTyped, ConcatEmptySeq
  <1>. QED
    BY <1>1, <1>3, <1>4 DEF docs

LEMMA SnapshotTells ==
  ASSUME AnswersInv, AnswersInv', WatchSnapshot
  PROVE  Query!Tell \/ Unseen
  <1>1. UNCHANGED <<log, answered>>
    BY DEF WatchSnapshot, Delivered, app
  <1> DEFINE c == [d \in Docs |-> Cached(d)]
             ks == IF IsActive THEN KeysAfter ELSE keys
             now == IF IsActive THEN complete ELSE current
  <1>2. UNCHANGED <<disk, events>> \/ (cache' = c /\ Emit(now, c, ks))
    BY Zenon DEF WatchSnapshot
  <1>3. CASE UNCHANGED <<disk, events>>
    BY <1>1, <1>3 DEF Unseen, disk
  <1>4. CASE cache' = c /\ Emit(now, c, ks)
    <2>1. c \in [Docs -> Versions] /\ ks \in SUBSET Docs /\ now \in BOOLEAN
      BY DEF AnswersInv, CountInv, TypeInv, TypeOK, Cached, KeysAfter
    <2>2. \A d \in Docs : cache[d] <= cache'[d]
      BY <1>4, CachedIsNewer
    <2>. HIDE DEF c, ks, now
    <2>3. PICK new \in Seq(EventsOf(Contents(c))) : events' = events \o new
      BY <1>4, <2>1, EmitTells
    <2>4. Contents(c) = Contents(cache)'
      BY <1>1, <1>4 DEF Contents, Exists
    <2> DEFINE docs == Contents(c)
    <2>5. docs = Contents(cache)' /\ new \in Seq(EventsOf(docs))
      BY <2>4
    <2>. HIDE DEF docs
    <2>. QED
      BY <1>1, <2>2, <2>3, <2>5, Tells
  <1>. QED
    BY <1>2, <1>3, <1>4

-----------------------------------------------------------------------------
(* The other steps. *)

LEMMA EventReceived ==
  ASSUME AnswersInv, AppEvent
  PROVE  Query!Receive
  <1> DEFINE c == Head(events).call
  <1>1. events # <<>> /\ events' = Tail(events) /\ UNCHANGED <<log, cache>>
    BY DEF AppEvent, disk
  <1>2. c \in Calls /\ answered \in [Calls -> Nat]
    <2>1. events[1] \in Events /\ Head(events) = events[1]
      BY <1>1, CacheTyped
    <2>. QED
      BY <2>1 DEF Events, AnswersInv, CountInv, TypeInv, TypeOK
  <1>3. answered' = IF answered[c] > 0 THEN answered
                    ELSE [answered EXCEPT ![c] = @ + 1]
    BY Zenon DEF AppEvent
  <1>4. answered' = IF answered[c] = 0 THEN [answered EXCEPT ![c] = 1] ELSE answered
    <2>. HIDE DEF c
    <2>1. answered[c] \in Nat
      BY <1>2
    <2>2. CASE answered[c] = 0
      BY <1>2, <1>3, <2>2
    <2>3. CASE answered[c] # 0
      BY <1>2, <1>3, <2>1, <2>3
    <2>. QED
      BY <2>2, <2>3
  <1>. QED
    BY <1>1, <1>4 DEF Query!Receive

LEMMA Restarted == Relaunch => Query!Restart
  BY DEF Relaunch, Query!Restart, disk

LEMMA Written ==
  ASSUME NEW d \in Docs, Write(d)
  PROVE  Query!Write(d)
  BY DEF Write, Query!Write, disk, app

LEMMA OthersUnseen ==
  ASSUME \/ GetDocuments \/ StreamOpens \/ BackoffElapsed \/ IdleTimeout
         \/ TargetAdded \/ TargetRemoved \/ TargetCurrent \/ DocumentChange
         \/ ServerReads \/ ServerUpdate \/ UNCHANGED vars
  PROVE  Unseen
  BY DEF GetDocuments, StreamOpens, BackoffElapsed, IdleTimeout, TargetAdded,
         TargetRemoved, TargetCurrent, DocumentChange, Delivered, ServerReads,
         ServerWatch, ServerUnwatch, ServerUpdate, ServerSends, Unseen, vars, disk, app

LEMMA InitMaps == Init => Query!Init
  BY DEF Init, Query!Init, NoUpdates

LEMMA NextMaps ==
  ASSUME AnswersInv, AnswersInv', [Next]_vars
  PROVE  [Query!Next]_(Query!answersVars)
  <1>1. CASE WorkerBlock
    BY <1>1, BlockTells DEF Query!Next, Unseen, Query!answersVars
  <1>2. CASE StreamFails \/ OnlineTimeout
    BY <1>2, StreamTells DEF Query!Next, Unseen, Query!answersVars
  <1>3. CASE WatchSnapshot
    BY <1>3, SnapshotTells DEF Query!Next, Unseen, Query!answersVars
  <1>4. CASE AppEvent
    BY <1>4, EventReceived DEF Query!Next
  <1>5. CASE Relaunch
    BY <1>5, Restarted DEF Query!Next
  <1>6. CASE \E d \in Docs : Write(d)
    BY <1>6, Written DEF Query!Next
  <1>7. CASE \/ GetDocuments \/ StreamOpens \/ BackoffElapsed \/ IdleTimeout
             \/ TargetAdded \/ TargetRemoved \/ TargetCurrent \/ DocumentChange
             \/ ServerReads \/ ServerUpdate \/ UNCHANGED vars
    <2>1. Unseen
      BY <1>7, OthersUnseen
    <2>. QED
      BY <2>1 DEF Unseen, Query!answersVars
  <1>. QED
    BY <1>1, <1>2, <1>3, <1>4, <1>5, <1>6, <1>7 DEF Next, Message

(* What callers of getDocuments see of the client is what QueryAnswers      *)
(* promises: answers in the order of a copy that never goes back, whole     *)
(* states of the server unless they say that they are cached, and one       *)
(* completion for each call, whatever the streams, the timers and restarts  *)
(* do in between.                                                           *)
THEOREM ImplementsQueryAnswers == Spec => AnswersSpec
  <1>. QED
    BY InitMaps, InitAnswers, NextAnswers, NextMaps, PTL
       DEF Spec, AnswersSpec, Query!Spec
=============================================================================
