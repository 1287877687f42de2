--------------------------- MODULE FirestoreListen ---------------------------
(***************************************************************************)
(* The listening half of the Firestore client the app is built with: what  *)
(* becomes of the calls of getDocuments for one query, which all screens   *)
(* of the app read with, between the call and its completion.              *)
(*                                                                         *)
(* A call adds a listener to the query and takes the first event it is     *)
(* sent: one whose documents are the server's, or, when the client has     *)
(* given up on the server, what the cache holds.  Calls and removals of    *)
(* listeners are put on the client's worker queue, events on the queue of  *)
(* the app; what the watch stream, the server and the timers do comes in   *)
(* between.  Listeners of one query share one target of the watch stream.  *)
(*                                                                         *)
(* The query matches every document that exists, it is not a query for a   *)
(* single document and has no limit, and the device has no writes of its   *)
(* own waiting: their half is FirestoreWrites.                             *)
(***************************************************************************)
EXTENDS Integers, Sequences, FiniteSets, SequencesExt

CONSTANTS
  Docs,        \* documents
  LastCall,    \* bound: the calls of getDocuments are 1 .. LastCall
  MaxVersion,  \* bound: writes the server takes
  MaxFaults    \* bound: failures of the stream, and restarts of the app

Calls == 1 .. LastCall

ASSUME ListenAssumption ==
  /\ IsFiniteSet(Docs)
  /\ LastCall \in Nat /\ MaxVersion \in Nat /\ MaxFaults \in Nat

VARIABLES
  cache,      \* disk: the version of each document, 0 for none
  keys,       \* disk and view: the documents of the target
  saved,      \* disk: the version the target can be resumed from
  last,       \* disk: last_remote_snapshot_version
  worker,     \* blocks the app has put on the worker queue
  events,     \* events posted to the app's queue
  listeners,  \* EventManager: the listeners of the query, by their calls
  raised,     \* listeners whose raised_initial_event_ is set
  current,    \* View.current_
  token,      \* listen_targets_: the version of the resume token
  online,     \* OnlineStateTracker.state_
  failed,     \* whether watch_stream_failures_ is not 0
  timer,      \* whether online_state_timer_ runs
  stream,     \* Stream.state_ of the watch stream
  idle,       \* whether the idle timer of the stream runs
  pending,    \* TargetState.outstanding_responses_
  complete,   \* TargetState.current_
  changes,    \* TargetState.document_changes_
  updates,    \* pending_document_updates_, 0 for none
  toServer,   \* requests the server has not read
  fromServer, \* messages not delivered
  watched,    \* the server: version the target was last sent at
  log,        \* the server: the writes it took; a version is an index
  faults,     \* failures so far
  asked,      \* calls made so far
  lost,       \* calls of an earlier process that were not answered
  answered,   \* history: how often the completion of a call has run
  since       \* history: the server's version when the view was created

disk       == <<cache, keys, saved, last>>
views      == <<listeners, raised, current, token, since>>
state      == <<online, failed, timer>>
aggregator == <<pending, complete, changes, updates>>
wire       == <<toServer, fromServer, watched>>
app        == <<asked, lost, answered>>
vars == <<disk, worker, events, views, state, stream, idle, aggregator, wire,
          log, faults, app>>

-----------------------------------------------------------------------------
States     == {"Initial", "Starting", "Open", "Error", "Backoff"}
Versions   == 0 .. MaxVersion
NotWatched == -1

(* The version of document d after the first n writes. *)
VersionAt(d, n) ==
  LET of == {i \in 1 .. n : log[i].doc = d}
  IN  IF of = {} THEN 0 ELSE CHOOSE i \in of : \A j \in of : j <= i

Exists(v) == v # 0 /\ log[v].exists

(* The documents of the query among versions of documents. *)
Contents(c) == [d \in Docs |-> IF Exists(c[d]) THEN c[d] ELSE 0]

(* What the server answers the query with after n writes. *)
StateAt(n) == Contents([d \in Docs |-> VersionAt(d, n)])

(* Messages of the server, and requests to it. *)
Added   == [kind |-> "added",   doc |-> "", v |-> 0]
Removed == [kind |-> "removed", doc |-> "", v |-> 0]
Current == [kind |-> "current", doc |-> "", v |-> 0]
Change(d, v) == [kind |-> "doc", doc |-> d, v |-> v]
Snap(v)      == [kind |-> "snap", doc |-> "", v |-> v]
Watch(v) == v
Unwatch  == -1

(* An event for the listener of the call c: the documents, from_cache, and  *)
(* (history) the age of the view.                                          *)
Event(c, docs, cached, from) ==
  [call |-> c, docs |-> docs, cached |-> cached, since |-> from]

(* Listeners are told in the order in which they were added. *)
Nth(i, calls) == CHOOSE c \in calls : Cardinality({b \in calls : b <= c}) = i

Posted(calls, docs, cached) ==
  [i \in 1 .. Cardinality(calls) |-> Event(Nth(i, calls), docs, cached, since)]

IsStarted == stream \in {"Starting", "Backoff", "Open"}

(* sync_state_ is Synced: the server has said that the target is complete,  *)
(* and no document of the view is in limbo.                                 *)
SyncedWith(now, c, ks) == now /\ \A d \in Docs : Exists(c[d]) => d \in ks
Synced == SyncedWith(current, cache, keys)

NoChanges == [d \in Docs |-> "none"]
NoUpdates == [d \in Docs |-> 0]

Fault == faults < MaxFaults /\ faults' = faults + 1

-----------------------------------------------------------------------------
(* Parts of the handlers. *)

(* Not part of the specification: the timer is left running. *)
UpdateStateOnly(s) == online' = s /\ failed' = FALSE /\ UNCHANGED timer

(* OnlineStateTracker::UpdateState.  Neither Online nor Unknown makes a     *)
(* view or a listener raise anything.                                       *)
UpdateState(s) == online' = s /\ failed' = FALSE /\ timer' = FALSE

(* SetAndBroadcast(Offline): a view is no longer current, which listeners   *)
(* that have had their first event are told, and the others get theirs.     *)
GoOffline ==
  /\ online' = "Offline"
  /\ current' = FALSE
  /\ raised' = raised \cup listeners
  /\ events' = events \o
       Posted(IF Synced THEN listeners ELSE listeners \ raised,
              Contents(cache), TRUE)

(* HandleWatchStreamStart *)
StreamStarts ==
  IF failed THEN UNCHANGED state
  ELSE online' = "Unknown" /\ timer' = TRUE /\ UNCHANGED failed

(* Stream::Start in the state s. *)
Start(s) == stream' = IF s = "Error" THEN "Backoff" ELSE "Starting"

FreshTarget == complete' = FALSE /\ changes' = NoChanges

(* The call is gone, with what was on its way. *)
CallGone == toServer' = <<>> /\ fromServer' = <<>> /\ watched' = NotWatched

(* Not part of the specification: the aggregator outlives the stream. *)
AggregatorKept == UNCHANGED aggregator

(* CleanUpWatchStreamState, StartWatchStream: a new aggregator. *)
NewAggregator == pending' = 0 /\ FreshTarget /\ updates' = NoUpdates

(* Not part of the specification: the response is not waited for. *)
SendUncounted(request) ==
  /\ toServer' = Append(toServer, request)
  /\ UNCHANGED pending

(* SendWatchRequest, SendUnwatchRequest *)
Send(request) ==
  /\ toServer' = Append(toServer, request)
  /\ pending' = pending + 1

-----------------------------------------------------------------------------
Init ==
  /\ cache = NoUpdates /\ keys = {} /\ saved = 0 /\ last = 0
  /\ worker = <<>> /\ events = <<>>
  /\ listeners = {} /\ raised = {} /\ current = FALSE /\ token = 0
  /\ online = "Unknown" /\ failed = FALSE /\ timer = FALSE
  /\ stream = "Initial" /\ idle = FALSE
  /\ pending = 0 /\ complete = FALSE /\ changes = NoChanges /\ updates = NoUpdates
  /\ toServer = <<>> /\ fromServer = <<>> /\ watched = NotWatched
  /\ log = <<>>
  /\ faults = 0
  /\ asked = 0 /\ lost = {} /\ answered = [c \in Calls |-> 0]
  /\ since = 0

(* Query::GetDocuments: the listener is on its way to the worker queue. *)
GetDocuments ==
  /\ asked < LastCall
  /\ asked' = asked + 1
  /\ worker' = Append(worker, [do |-> "add", call |-> asked + 1])
  /\ UNCHANGED <<disk, events, views, state, stream, idle, aggregator, wire, log,
                 faults, lost, answered>>

(* AddQueryListener for a query that is listened to: the last snapshot of   *)
(* its view is the first event, if it may be.                               *)
JoinListeners(c) ==
  /\ listeners' = listeners \cup {c}
  /\ IF Synced \/ online = "Offline"
     THEN /\ raised' = raised \cup {c}
          /\ events' = events \o Posted({c}, Contents(cache), ~Synced)
     ELSE UNCHANGED <<raised, events>>
  /\ UNCHANGED <<disk, current, token, since, state, stream, idle, aggregator,
                 wire>>

(* AddQueryListener for a new query: a view of what the cache holds, then   *)
(* RemoteStore::Listen.                                                     *)
FirstListener(c) ==
  /\ listeners' = {c}
  /\ current' = FALSE
  /\ token' = saved
  /\ since' = Len(log)
  /\ IF online = "Offline"
     THEN /\ raised' = {c}
          /\ events' = Append(events, Event(c, Contents(cache), TRUE, Len(log)))
     ELSE raised' = {} /\ UNCHANGED events
  /\ IF ~IsStarted
     THEN /\ NewAggregator
          /\ Start(stream)
          /\ StreamStarts
          /\ UNCHANGED <<idle, toServer>>
     ELSE /\ IF stream = "Open"
             THEN Send(Watch(saved)) /\ idle' = FALSE
             ELSE UNCHANGED <<pending, toServer, idle>>
          /\ UNCHANGED <<stream, state, complete, changes, updates>>
  /\ UNCHANGED <<disk, fromServer, watched>>

AddListener(c) == IF listeners # {} THEN JoinListeners(c) ELSE FirstListener(c)

(* SyncEngine and RemoteStore::StopListening after the last listener.       *)
StopListening ==
  /\ current' = FALSE /\ since' = 0
  /\ saved' = token /\ token' = 0
  /\ IF stream = "Open"
     THEN Send(Unwatch) /\ idle' = TRUE /\ UNCHANGED state
     ELSE UpdateState("Unknown") /\ UNCHANGED <<toServer, pending, idle>>

RemoveListener(c) ==
  /\ listeners' = listeners \ {c}
  /\ raised' = raised \ {c}
  /\ IF listeners = {c} THEN StopListening
     ELSE UNCHANGED <<current, saved, token, since, toServer, pending, idle, state>>
  /\ UNCHANGED <<cache, keys, last, events, stream, complete, changes,
                 updates, fromServer, watched>>

(* A block that the app has put on the worker queue. *)
WorkerBlock ==
  /\ worker # <<>>
  /\ worker' = Tail(worker)
  /\ LET b == Head(worker)
     IN  IF b.do = "add" THEN AddListener(b.call) ELSE RemoveListener(b.call)
  /\ UNCHANGED <<log, faults, app>>

(* Not part of the specification: the listener is not muted. *)
AppEventUnmuted ==
  /\ events # <<>>
  /\ events' = Tail(events)
  /\ LET e == Head(events)
     IN  /\ answered' = [answered EXCEPT ![e.call] = @ + 1]
         /\ worker' = Append(worker, [do |-> "remove", call |-> e.call])
  /\ UNCHANGED <<disk, views, state, stream, idle, aggregator, wire, log, faults,
                 asked, lost>>

(* An event on the app's queue: ListenOnce mutes and removes its listener,  *)
(* then calls the completion; events for a muted listener are dropped.      *)
AppEvent ==
  /\ events # <<>>
  /\ events' = Tail(events)
  /\ LET e == Head(events)
     IN  IF answered[e.call] > 0 THEN UNCHANGED <<answered, worker>>
         ELSE /\ answered' = [answered EXCEPT ![e.call] = @ + 1]
              /\ worker' = Append(worker, [do |-> "remove", call |-> e.call])
  /\ UNCHANGED <<disk, views, state, stream, idle, aggregator, wire, log, faults,
                 asked, lost>>

-----------------------------------------------------------------------------
(* The watch stream. *)

(* Not part of the specification: nothing is watched again. *)
StreamOpensOnly ==
  /\ stream = "Starting"
  /\ stream' = "Open"
  /\ UNCHANGED <<toServer, pending>>
  /\ UNCHANGED <<disk, worker, events, views, state, idle, complete, changes,
                 updates, fromServer, watched, log, faults, app>>

(* OnWatchStreamOpen: the target that is listened to is watched. *)
StreamOpens ==
  /\ stream = "Starting"
  /\ stream' = "Open"
  /\ IF listeners # {} THEN Send(Watch(token)) ELSE UNCHANGED <<toServer, pending>>
  /\ UNCHANGED <<disk, worker, events, views, state, idle, complete, changes,
                 updates, fromServer, watched, log, faults, app>>

BackoffElapsed ==
  /\ stream = "Backoff"
  /\ Start("Initial")
  /\ UNCHANGED <<disk, worker, events, views, state, idle, aggregator, wire, log,
                 faults, app>>

(* HandleWatchStreamFailure, then StartWatchStream. *)
RetryStream ==
  /\ stream' = "Backoff"
  /\ IF online = "Online"
     THEN /\ online' = "Unknown" /\ timer' = TRUE
          /\ UNCHANGED <<failed, current, raised, events>>
     ELSE /\ failed' = TRUE /\ timer' = FALSE
          /\ GoOffline

(* The stream ends with an error, before or after it has opened:            *)
(* OnWatchStreamClose.                                                      *)
StreamFails ==
  /\ Fault
  /\ stream \in {"Starting", "Open"}
  /\ idle' = FALSE
  /\ CallGone
  /\ NewAggregator
  /\ IF listeners # {} THEN RetryStream
     ELSE /\ stream' = "Error"
          /\ UpdateState("Unknown")
          /\ UNCHANGED <<current, raised, events>>
  /\ UNCHANGED <<disk, worker, listeners, token, since, log, app>>

(* kIdleTimeout has passed: Stream::Stop. *)
IdleTimeout ==
  /\ idle
  /\ idle' = FALSE
  /\ stream' = "Initial"
  /\ CallGone
  /\ NewAggregator
  /\ UpdateState("Unknown")
  /\ UNCHANGED <<disk, worker, events, views, log, faults, app>>

(* kOnlineStateTimeout has passed. *)
OnlineTimeout ==
  /\ timer
  /\ timer' = FALSE
  /\ GoOffline
  /\ UNCHANGED <<disk, worker, listeners, token, since, failed, stream, idle,
                 aggregator, wire, log, faults, app>>

(* The app is killed and started again. *)
Relaunch ==
  /\ Fault
  /\ worker' = <<>> /\ events' = <<>>
  /\ listeners' = {} /\ raised' = {} /\ current' = FALSE
  /\ UpdateState("Unknown")
  /\ stream' = "Initial" /\ idle' = FALSE
  /\ CallGone
  /\ NewAggregator
  /\ lost' = {c \in 1 .. asked : answered[c] = 0}
  /\ token' = 0 /\ since' = 0
  /\ UNCHANGED <<disk, log, asked, answered>>

-----------------------------------------------------------------------------
(* Messages of the watch stream: OnWatchStreamChange.                        *)

(* Not part of the specification: responses not received yet are not         *)
(* waited for.                                                               *)
IsListened == listeners # {}

(* IsActiveTarget *)
IsActive == listeners # {} /\ pending = 0

(* The next message has been delivered, which shows the client online. *)
Delivered(kind) ==
  /\ stream = "Open"
  /\ fromServer # <<>> /\ Head(fromServer).kind = kind
  /\ fromServer' = Tail(fromServer)
  /\ UpdateState("Online")
  /\ UNCHANGED <<stream, idle, toServer, watched, worker, listeners, since, log,
                 faults, app>>

(* The changes collected so far are for an earlier request.                 *)
TargetAdded ==
  /\ Delivered("added")
  /\ pending' = pending - 1
  /\ changes' = IF pending = 1 THEN NoChanges ELSE changes
  /\ UNCHANGED <<disk, events, raised, current, token, complete, updates>>

TargetRemoved ==
  /\ Delivered("removed")
  /\ pending' = pending - 1
  /\ IF pending = 1 THEN FreshTarget ELSE UNCHANGED <<complete, changes>>
  /\ UNCHANGED <<disk, events, raised, current, token, updates>>

TargetCurrent ==
  /\ Delivered("current")
  /\ complete' = (complete \/ IsActive)
  /\ UNCHANGED <<disk, events, raised, current, token, pending, changes, updates>>

(* HandleDocumentChange: a document that exists is in the target, one that  *)
(* was deleted leaves it.                                                   *)
DocumentChange ==
  /\ Delivered("doc")
  /\ LET m == Head(fromServer)
         change == IF Exists(m.v) THEN "add"
                   ELSE IF m.doc \in keys THEN "remove" ELSE "none"
     IN  IF IsActive
         THEN /\ changes' = [changes EXCEPT ![m.doc] = change]
              /\ updates' = [updates EXCEPT ![m.doc] = m.v]
         ELSE UNCHANGED <<changes, updates>>
  /\ UNCHANGED <<disk, events, raised, current, token, pending, complete>>

(* LocalStore::ApplyRemoteEvent for a document. *)
Cached(d) == IF updates[d] > cache[d] THEN updates[d] ELSE cache[d]

(* The keys of the target after the changes collected for it. *)
KeysAfter ==
  (keys \cup {d \in Docs : changes[d] = "add"}) \ {d \in Docs : changes[d] = "remove"}

(* Not part of the specification: tells of the documents as they were. *)
EmitBefore(now, c, ks) ==
  LET synced == SyncedWith(now, c, ks)
      told   == IF synced THEN listeners
                ELSE listeners \cap raised
  IN  IF Contents(c) # Contents(cache) \/ synced # Synced
      THEN /\ events' = events \o Posted(told, Contents(cache), ~synced)
           /\ raised' = raised \cup told
      ELSE UNCHANGED <<events, raised>>

(* EmitNewSnapshots: if the view c with the keys ks is another one, those   *)
(* listeners are told that have had their first event, and all of them when *)
(* it is the server's.                                                      *)
Emit(now, c, ks) ==
  LET synced == SyncedWith(now, c, ks)
      told   == IF synced THEN listeners
                ELSE listeners \cap raised
  IN  IF Contents(c) # Contents(cache) \/ synced # Synced
      THEN /\ events' = events \o Posted(told, Contents(c), ~synced)
           /\ raised' = raised \cup told
      ELSE UNCHANGED <<events, raised>>

(* Not part of the specification: the token moves on while the target waits *)
(* for responses.                                                           *)
ResumeAlwaysFrom(v) ==
  /\ token' = v
  /\ saved' = IF listeners # {} THEN v ELSE saved
  /\ changes' = NoChanges

(* A target that is active can be resumed from version v.  The token is     *)
(* stored if there were other changes, or after some time.                  *)
ResumeFrom(v) ==
  IF IsActive
  THEN /\ token' = v
       /\ saved' \in IF saved = 0 \/ changes # NoChanges THEN {v} ELSE {saved, v}
       /\ changes' = NoChanges
  ELSE UNCHANGED <<token, saved, changes>>

(* RaiseWatchSnapshot: the documents collected go to the cache; the target, *)
(* if it is active, gets its changes, and the view its state.  (The token   *)
(* that comes with the version has marked the target as changed.)           *)
WatchSnapshot ==
  /\ Delivered("snap")
  /\ LET v == Head(fromServer).v
         c == [d \in Docs |-> Cached(d)]
         ks == IF IsActive THEN KeysAfter ELSE keys
         now == IF IsActive THEN complete ELSE current
     IN  IF v < last
         THEN UNCHANGED <<disk, events, raised, current, token, changes, updates>>
         ELSE /\ cache' = c /\ keys' = ks /\ current' = now
              /\ last' = v
              /\ updates' = NoUpdates
              /\ Emit(now, c, ks)
              /\ ResumeFrom(v)
  /\ UNCHANGED <<pending, complete>>

Message ==
  TargetAdded \/ TargetRemoved \/ TargetCurrent \/ DocumentChange \/ WatchSnapshot

-----------------------------------------------------------------------------
(* The server. *)

(* Messages for the documents changed after version r, up to version n.     *)
ChangesSince(r, n) ==
  LET changed == {d \in Docs : VersionAt(d, n) > r}
  IN  SetToSeq({Change(d, VersionAt(d, n)) : d \in changed})

ServerSends(messages, v) ==
  /\ fromServer' = fromServer \o messages
  /\ watched' = v
  /\ UNCHANGED <<disk, worker, events, views, state, stream, idle, aggregator, log,
                 faults, app>>

ServerWatch ==
  /\ toServer # <<>> /\ Head(toServer) # Unwatch
  /\ toServer' = Tail(toServer)
  /\ ServerSends(<<Added>> \o ChangesSince(Head(toServer), Len(log))
                   \o <<Current, Snap(Len(log))>>, Len(log))

ServerUnwatch ==
  /\ toServer # <<>> /\ Head(toServer) = Unwatch
  /\ toServer' = Tail(toServer)
  /\ ServerSends(<<Removed>>, NotWatched)

ServerUpdate ==
  /\ watched # NotWatched /\ watched < Len(log)
  /\ ServerSends(ChangesSince(watched, Len(log)) \o <<Snap(Len(log))>>, Len(log))
  /\ UNCHANGED toServer

(* Somebody writes to a document, or deletes it. *)
Write(d) ==
  /\ Len(log) < MaxVersion
  /\ \E exists \in BOOLEAN :
       /\ exists \/ Exists(VersionAt(d, Len(log)))
       /\ log' = Append(log, [doc |-> d, exists |-> exists])
  /\ UNCHANGED <<disk, worker, events, views, state, stream, idle, aggregator, wire,
                 faults, app>>

ServerReads == ServerWatch \/ ServerUnwatch

Next ==
  \/ GetDocuments \/ WorkerBlock \/ AppEvent
  \/ StreamOpens \/ BackoffElapsed \/ StreamFails
  \/ IdleTimeout \/ OnlineTimeout
  \/ Relaunch
  \/ Message
  \/ ServerReads \/ ServerUpdate
  \/ \E d \in Docs : Write(d)

Spec == Init /\ [][Next]_vars

(* The client's queues and timers run whatever the network does. *)
ClientFairness ==
  /\ WF_vars(WorkerBlock)
  /\ WF_vars(AppEvent)
  /\ WF_vars(BackoffElapsed)
  /\ WF_vars(OnlineTimeout)

ClientSpec == Spec /\ ClientFairness

(* Attempts to connect end, the server reads, its messages are delivered. *)
FairSpec ==
  /\ ClientSpec
  /\ WF_vars(StreamOpens)
  /\ WF_vars(Message)
  /\ WF_vars(ServerReads)

-----------------------------------------------------------------------------
TypeOK ==
  /\ cache \in [Docs -> Versions] /\ updates \in [Docs -> Versions]
  /\ keys \subseteq Docs
  /\ {saved, last, token, since} \subseteq Versions
  /\ worker \in Seq([do : {"add", "remove"}, call : Calls])
  /\ \A i \in 1 .. Len(events) : events[i].call \in Calls
  /\ listeners \subseteq Calls /\ raised \subseteq listeners
  /\ {current, failed, timer, idle, complete} \subseteq BOOLEAN
  /\ online \in {"Unknown", "Online", "Offline"}
  /\ stream \in States
  /\ pending \in Nat
  /\ changes \in [Docs -> {"none", "add", "remove"}]
  /\ toServer \in Seq(Versions \cup {Unwatch})
  /\ watched \in Versions \cup {NotWatched}
  /\ log \in Seq([doc : Docs, exists : BOOLEAN])
  /\ faults \in 0 .. MaxFaults
  /\ asked \in 0 .. LastCall /\ lost \subseteq Calls
  /\ answered \in [Calls -> Nat]

(* The client knows which requests the server has yet to confirm            *)
(* (outstanding_responses_), and the last one it has sent is the one that   *)
(* its listeners need, whatever order calls, removals and messages come in. *)
Acks == Cardinality({i \in 1 .. Len(fromServer) :
                       fromServer[i].kind \in {"added", "removed"}})

RequestsCounted ==
  stream = "Open" =>
    /\ pending = Len(toServer) + Acks
    /\ listeners # {} <=>
         IF toServer = <<>> THEN watched # NotWatched
         ELSE toServer[Len(toServer)] # Unwatch

(* The assertions of OnlineStateTracker and Stream: the timer runs only     *)
(* while the state is Unknown and there were no failures, and is not        *)
(* started twice; the stream is not stopped as idle while it is needed.     *)
TimersCurrent ==
  /\ timer => online = "Unknown" /\ ~failed
  /\ ~IsStarted => ~timer /\ listeners = {}
  /\ idle => stream = "Open" /\ listeners = {}

(* A view that says it is complete shows no document the target does not    *)
(* hold: documents collected for an earlier listen, or resent after a       *)
(* restart, are never left in limbo.                                        *)
NothingInLimbo == current => \A d \in Docs : Exists(cache[d]) => d \in keys

(* What a completion is given, if it is not from the cache, is a whole      *)
(* state of the server, no older than the listen that got it: messages for  *)
(* an earlier listen, cut off or late, do not count as the new one's.       *)
WholeAnswers ==
  \A i \in 1 .. Len(events) : ~events[i].cached =>
    \E n \in events[i].since .. Len(log) : events[i].docs = StateAt(n)

(* The completion of a call runs once, although a listener may be sent      *)
(* several events before it is removed.                                     *)
AnsweredOnce == \A c \in Calls : answered[c] <= 1

(* Every call is answered in the end, unless the app is killed before.      *)
EveryCallAnswered ==
  \A c \in Calls : c <= asked ~> answered[c] > 0 \/ c \in lost

(* "we have a timeout for OnlineState to reach Online or Offline.  If the   *)
(* timeout is reached, we transition to Offline rather than waiting         *)
(* indefinitely" (online_state_tracker.cc:45-47): while somebody listens,   *)
(* the state does not stay Unknown, even if an attempt to connect hangs.    *)
OnlineStateSettles ==
  listeners # {} /\ online = "Unknown"
    ~> online # "Unknown" \/ listeners = {}

-----------------------------------------------------------------------------
(* The promise this module implements. *)
Query == INSTANCE QueryAnswers WITH copy <- cache, answers <- events

AnswersSpec == Query!Spec
=============================================================================
