-------------------------- MODULE FirestoreWrites --------------------------
(***************************************************************************)
(* The write half of the Firestore client the app is built with: what      *)
(* becomes of addDocument, updateData and delete between the call and its  *)
(* completion.                                                             *)
(*                                                                         *)
(* Everything runs on the client's worker queue, so each action below is   *)
(* one block of that queue, with all the calls it makes: SyncEngine and    *)
(* LocalStore put a write into the mutation queue on disk, RemoteStore     *)
(* keeps the first few of them in its pipeline and writes them to the      *)
(* WriteStream, GrpcStream carries them.  The responses name no write: the *)
(* client matches them to the front of the pipeline.                       *)
(*                                                                         *)
(* The process may be killed at any time; the mutation queue and the cache *)
(* of documents are on disk (LevelDB), the rest is memory.                 *)
(***************************************************************************)
EXTENDS Integers, Sequences

CONSTANTS
  Docs,        \* documents
  LastWrite,   \* bound: the writes of this device are 1 .. LastWrite
  DocOf,       \* the document of each write
  Refusable,   \* writes the server's rules may refuse
  MaxPending,  \* kMaxPendingWrites
  MaxFaults,   \* bound: failures of network, token or process, and switches
  MaxOthers    \* bound: writes of other devices

Writes == 1 .. LastWrite

ASSUME WritesAssumption ==
  /\ LastWrite \in Nat
  /\ DocOf \in [Writes -> Docs]
  /\ Refusable \subseteq Writes
  /\ MaxPending \in Nat \ {0}
  /\ MaxFaults \in Nat /\ MaxOthers \in Nat

VARIABLES
  queue,      \* disk: the mutation queue, in the order of the batch ids
  cache,      \* disk: the remote document cache
  snapshot,   \* disk: version of the last watch snapshot applied
  nextId,     \* LevelDbMutationQueue.next_batch_id_
  callbacks,  \* SyncEngine.mutation_callbacks_, as a set of batches
  pipeline,   \* RemoteStore.write_pipeline_
  network,    \* RemoteStore.is_network_enabled_
  stream,     \* Stream.state_ of the write stream
  handshake,  \* WriteStream.handshake_complete_
  idle,       \* whether the idle timer of the stream runs
  closes,     \* Stream.close_count_
  tokens,     \* close counts the pending requests for a token were made at
  toServer,   \* requests the server has not read: 0 is the handshake
  fromServer, \* responses not delivered: 0, or the version of a commit
  ended,      \* how the server or the network has ended the call
  log,        \* the server: every write applied; its version is its index
  faults,     \* failures so far
  outcome,    \* history: what the completion of a write has been told
  acked       \* history: the version a write was acknowledged at, or 0

disk == <<queue, cache, snapshot>>
wire == <<toServer, fromServer, ended>>
streamVars == <<stream, handshake, idle, closes, tokens>>
vars == <<disk, nextId, callbacks, pipeline, network, streamVars, wire, log,
          faults, outcome, acked>>

-----------------------------------------------------------------------------
Batches == [id : Nat, w : Writes]

Hello == 0
Requests == 0 .. LastWrite  \* the hello and the writes

(* A content of the cache: the write it comes from (0: another device's or *)
(* none), its version, and whether only its acknowledgement is known.      *)
Contents == [ver : Nat, w : 0 .. LastWrite, committed : BOOLEAN]
NoContent == [ver |-> 0, w |-> 0, committed |-> FALSE]

States   == {"Initial", "Starting", "Open", "Error", "Backoff"}
Outcomes == {"none", "pending", "ok", "error", "lost"}

Issued    == {w \in Writes : outcome[w] # "none"}
IsStarted == stream \in {"Starting", "Backoff", "Open"}

WritesIn(batches) == [i \in 1 .. Len(batches) |-> batches[i].w]

Take(s, n) == SubSeq(s, 1, IF n < Len(s) THEN n ELSE Len(s))

(* Not part of the specification: the row stays. *)
WithoutNone(b, q) == q

(* RemoveMutationBatch: the row with the key of b goes. *)
Without(b, q) ==
  LET i == CHOOSE j \in 1 .. Len(q) : q[j].id = b.id
  IN  SubSeq(q, 1, i - 1) \o SubSeq(q, i + 1, Len(q))

(* NextMutationBatchAfterBatchId, again and again: the rows from the first  *)
(* key greater than id.                                                     *)
After(id, q) ==
  LET later == {i \in 1 .. Len(q) : q[i].id > id}
  IN  IF later = {} THEN <<>>
      ELSE SubSeq(q, CHOOSE i \in later : \A j \in later : i <= j, Len(q))

(* kBatchIdUnknown for an empty pipeline. *)
LastId(p) == IF p = <<>> THEN -1 ELSE p[Len(p)].id

(* Not part of the specification: fills up without counting. *)
AddedUnbounded(q, p) == After(LastId(p), q)

(* Not part of the specification: fills up from the start of the queue. *)
AddedFromFirst(q, p) == Take(q, MaxPending - Len(p))

(* The batches FillWritePipeline adds to the pipeline p. *)
Added(q, p) == Take(After(LastId(p), q), MaxPending - Len(p))

(* The version of the document d at the server after its first n writes. *)
VersionAt(d, n) ==
  LET of == {i \in 1 .. n : log[i].doc = d}
  IN  IF of = {} THEN 0 ELSE CHOOSE i \in of : \A j \in of : j <= i

(* LoadNextBatchIdFromDb *)
NextBatchId == IF queue = <<>> THEN 1 ELSE queue[Len(queue)].id + 1

-----------------------------------------------------------------------------
(* Parts of the handlers. *)

(* Not part of the specification: sends the whole pipeline again when a     *)
(* batch is added.                                                          *)
FillSendsAll(q, p) ==
  LET added == IF network THEN Added(q, p) ELSE <<>>
  IN  /\ pipeline' = p \o added
      /\ IF stream = "Open" /\ handshake
         THEN /\ toServer' = toServer \o WritesIn(p \o added)
              /\ idle' = (p \o added = <<>> \/ (idle /\ added = <<>>))
         ELSE UNCHANGED <<toServer, idle>>

(* Not part of the specification: leaves the idle timer running when       *)
(* something is written.                                                    *)
FillKeepsTimer(q, p) ==
  LET added == IF network THEN Added(q, p) ELSE <<>>
  IN  /\ pipeline' = p \o added
      /\ IF stream = "Open" /\ handshake
         THEN /\ toServer' = toServer \o WritesIn(added)
              /\ idle' = (idle \/ p \o added = <<>>)
         ELSE UNCHANGED <<toServer, idle>>

(* FillWritePipeline with the queue q and the pipeline p: the batches added *)
(* go out at once if the stream is past its handshake; writing stops the   *)
(* idle timer, nothing left to write starts it; a stream that is needed is *)
(* started.  shaken: whether this handler leaves the stream so.            *)
Fill(q, p) ==
  LET added == IF network THEN Added(q, p) ELSE <<>>
  IN  /\ pipeline' = p \o added
      /\ IF stream = "Open" /\ handshake
         THEN /\ toServer' = toServer \o WritesIn(added)
              /\ idle' = (p \o added = <<>> \/ (idle /\ added = <<>>))
         ELSE UNCHANGED <<toServer, idle>>

(* StartWriteStream from the state s with the close count n: after an error *)
(* the backoff comes first.                                                 *)
Start(s, n) ==
  IF s = "Error"
  THEN stream' = "Backoff" /\ UNCHANGED tokens
  ELSE stream' = "Starting" /\ tokens' = tokens \cup {n}

(* Not part of the specification: after an error nobody starts the stream. *)
StartForgotten(s, n, p) ==
  IF p # <<>> /\ s # "Error" THEN Start(s, n) ELSE stream' = s /\ UNCHANGED tokens

(* ShouldStartWriteStream, seen in the state s with the pipeline p. *)
StartIfNeeded(s, n, p) ==
  IF p # <<>> THEN Start(s, n) ELSE stream' = s /\ UNCHANGED tokens

(* Not part of the specification: responses outlive their call. *)
ResponsesStay == toServer' = <<>> /\ ended' = "no" /\ UNCHANGED fromServer

(* The call is gone, with what was on its way. *)
CallGone == toServer' = <<>> /\ fromServer' = <<>> /\ ended' = "no"

(* Not part of the specification: nobody is told. *)
RejectSilently ==
  /\ queue' = Without(Head(pipeline), queue)
  /\ UNCHANGED <<callbacks, outcome>>

(* Not part of the specification: the app is told, the batch stays. *)
RejectAndKeep ==
  /\ outcome' = [outcome EXCEPT ![Head(pipeline).w] =
                   IF Head(pipeline) \in callbacks THEN "error" ELSE @]
  /\ UNCHANGED <<queue, callbacks>>

(* RejectBatch and NotifyUser for the first batch of the pipeline. *)
RejectFront ==
  LET b == Head(pipeline)
  IN  /\ queue' = Without(b, queue)
      /\ callbacks' = callbacks \ {b}
      /\ outcome' = IF b \in callbacks THEN [outcome EXCEPT ![b.w] = "error"]
                    ELSE outcome

(* Not part of the specification: any error rejects the first batch. *)
CloseOnAnyError(permanent) ==
  /\ idle' = FALSE
  /\ closes' = closes + 1
  /\ CallGone
  /\ handshake' = FALSE
  /\ IF handshake /\ pipeline # <<>>
     THEN LET q == Without(Head(pipeline), queue)
              p == Tail(pipeline) \o Added(q, Tail(pipeline))
          IN  /\ RejectFront
              /\ pipeline' = p
              /\ StartIfNeeded("Initial", closes + 1, p)
     ELSE /\ StartIfNeeded("Error", closes + 1, pipeline)
          /\ UNCHANGED <<queue, callbacks, outcome, pipeline>>
  /\ UNCHANGED <<cache, snapshot, nextId, network, log, acked>>

(* Stream::Close on an error, down to OnWriteStreamClose.  A permanent      *)
(* error after the handshake rejects the first batch and starts again       *)
(* without a backoff; any other one keeps the pipeline and backs off.       *)
CloseOnError(permanent) ==
  /\ idle' = FALSE
  /\ closes' = closes + 1
  /\ CallGone
  /\ handshake' = FALSE
  /\ IF permanent /\ handshake /\ pipeline # <<>>
     THEN LET q == Without(Head(pipeline), queue)
              p == Tail(pipeline) \o Added(q, Tail(pipeline))
          IN  /\ RejectFront
              /\ pipeline' = p
              /\ StartIfNeeded("Initial", closes + 1, p)
     ELSE /\ StartIfNeeded("Error", closes + 1, pipeline)
          /\ UNCHANGED <<queue, callbacks, outcome, pipeline>>
  /\ UNCHANGED <<cache, snapshot, nextId, network, log, acked>>

(* Stream::Stop: no error, no backoff, nobody to reject. *)
StopStream ==
  IF IsStarted
  THEN /\ stream' = "Initial"
       /\ idle' = FALSE
       /\ closes' = closes + 1
       /\ handshake' = FALSE
       /\ CallGone
  ELSE UNCHANGED <<stream, idle, closes, handshake, wire>>

Fault == faults < MaxFaults /\ faults' = faults + 1

-----------------------------------------------------------------------------
Init ==
  /\ queue = <<>>
  /\ cache = [d \in Docs |-> NoContent]
  /\ snapshot = 0
  /\ nextId = 1
  /\ callbacks = {}
  /\ pipeline = <<>>
  /\ network = TRUE
  /\ stream = "Initial"
  /\ handshake = FALSE
  /\ idle = FALSE
  /\ closes = 0
  /\ tokens = {}
  /\ toServer = <<>> /\ fromServer = <<>> /\ ended = "no"
  /\ log = <<>>
  /\ faults = 0
  /\ outcome = [w \in Writes |-> "none"]
  /\ acked = [w \in Writes |-> 0]

(* SyncEngine::WriteMutations: the app adds, updates or deletes a document. *)
UserWrite(w) ==
  /\ w \notin Issued
  /\ \A v \in Writes : v < w => v \in Issued
  /\ LET b == [id |-> nextId, w |-> w]
         q == Append(queue, b)
     IN  /\ queue' = q
         /\ callbacks' = callbacks \cup {b}
         /\ Fill(q, pipeline)
  /\ nextId' = nextId + 1
  /\ outcome' = [outcome EXCEPT ![w] = "pending"]
  /\ IF IsStarted \/ ~network THEN UNCHANGED <<stream, tokens>>
     ELSE StartIfNeeded(stream, closes, pipeline')
  /\ UNCHANGED <<cache, snapshot, network, handshake, closes, fromServer, ended,
                 log, faults, acked>>

(* The token has come: ResumeStartWithCredentials opens the stream, which   *)
(* says hello; a token asked for before the stream was closed is dropped.   *)
TokenArrives(n) ==
  /\ n \in tokens
  /\ tokens' = tokens \ {n}
  /\ IF n = closes
     THEN /\ stream' = "Open"
          /\ idle' = FALSE
          /\ toServer' = <<Hello>>
     ELSE UNCHANGED <<stream, idle, toServer>>
  /\ UNCHANGED <<disk, nextId, callbacks, pipeline, network, handshake, closes,
                 fromServer, ended, log, faults, outcome, acked>>

(* No token: the stream ends before it was opened. *)
TokenFails ==
  /\ Fault
  /\ closes \in tokens
  /\ idle' = FALSE
  /\ closes' = closes + 1
  /\ handshake' = FALSE
  /\ CallGone
  /\ IF pipeline # <<>> THEN stream' = "Backoff" ELSE stream' = "Error"
  /\ tokens' = tokens \ {closes}
  /\ UNCHANGED <<disk, nextId, callbacks, pipeline, network, log, outcome, acked>>

(* BackoffAndTryRestarting, the delayed operation. *)
BackoffElapsed ==
  /\ stream = "Backoff"
  /\ Start("Initial", closes)
  /\ UNCHANGED <<disk, nextId, callbacks, pipeline, network, handshake, idle,
                 closes, wire, log, faults, outcome, acked>>

(* NotifyStreamResponse, the first time: the pipeline goes out. *)
HandshakeComplete ==
  /\ stream = "Open"
  /\ fromServer # <<>> /\ Head(fromServer) = Hello
  /\ handshake' = TRUE
  /\ fromServer' = Tail(fromServer)
  /\ toServer' = toServer \o WritesIn(pipeline)
  /\ idle' = (idle /\ pipeline = <<>>)
  /\ UNCHANGED <<disk, nextId, callbacks, pipeline, network, stream, closes,
                 tokens, ended, log, faults, outcome, acked>>

(* Not part of the specification: takes the result, however old. *)
AcknowledgedAlways(b, v) ==
  [cache EXCEPT ![DocOf[b.w]] = [ver |-> v, w |-> b.w, committed |-> TRUE]]

(* What ApplyBatchResult makes of the document of the batch b committed at  *)
(* version v.                                                               *)
Acknowledged(b, v) ==
  IF cache[DocOf[b.w]].ver < v
  THEN [cache EXCEPT ![DocOf[b.w]] = [ver |-> v, w |-> b.w, committed |-> TRUE]]
  ELSE cache

(* OnWriteStreamMutationResult: the response is for the front batch. *)
MutationResult ==
  /\ stream = "Open"
  /\ fromServer # <<>> /\ Head(fromServer) # Hello
  /\ LET b == Head(pipeline)
         q == Without(b, queue)
     IN  /\ queue' = q
         /\ cache' = Acknowledged(b, Head(fromServer))
         /\ callbacks' = callbacks \ {b}
         /\ outcome' = IF b \in callbacks THEN [outcome EXCEPT ![b.w] = "ok"]
                       ELSE outcome
         /\ acked' = [acked EXCEPT ![b.w] = Head(fromServer)]
         /\ Fill(q, Tail(pipeline))
  /\ fromServer' = Tail(fromServer)
  /\ UNCHANGED <<snapshot, nextId, network, stream, handshake, closes, tokens,
                 ended, log, faults>>

(* The call has ended.  Either the responses before the end have all been  *)
(* delivered and the pending read fails, or a pending write fails first:    *)
(* OnOperationFailed finishes the call and FastFinishCompletionsBlocking    *)
(* takes the responses not delivered yet off the queue.                     *)
StreamEnds ==
  /\ stream = "Open"
  /\ ended # "no"
  /\ fromServer = <<>> \/ toServer # <<>>
  /\ CloseOnError(ended = "refused")
  /\ UNCHANGED faults

(* RegisterConnectivityMonitor: every call ends as Unavailable. *)
ConnectivityChange ==
  /\ Fault
  /\ stream = "Open"
  /\ CloseOnError(FALSE)

(* kIdleTimeout has passed. *)
IdleTimeout ==
  /\ idle
  /\ StopStream
  /\ UNCHANGED <<disk, nextId, callbacks, pipeline, network, tokens, log, faults,
                 outcome, acked>>

DisableNetwork ==
  /\ Fault
  /\ network
  /\ network' = FALSE
  /\ pipeline' = <<>>
  /\ StopStream
  /\ UNCHANGED <<disk, nextId, callbacks, tokens, log, outcome, acked>>

EnableNetwork ==
  /\ ~network
  /\ network' = TRUE
  /\ pipeline' = Added(queue, <<>>)
  /\ StartIfNeeded(stream, closes, Added(queue, <<>>))
  /\ UNCHANGED <<disk, nextId, callbacks, handshake, idle, closes, wire, log,
                 faults, outcome, acked>>

(* The app is killed and started again: FirestoreClient::Initialize finds   *)
(* the queue and the cache on disk; completions are gone.                   *)
Relaunch ==
  /\ Fault
  /\ nextId' = NextBatchId
  /\ callbacks' = {}
  /\ outcome' = [w \in Writes |-> IF outcome[w] = "pending" THEN "lost" ELSE outcome[w]]
  /\ network' = TRUE
  /\ pipeline' = Added(queue, <<>>)
  /\ handshake' = FALSE
  /\ idle' = FALSE
  /\ closes' = 0
  /\ IF queue = <<>> THEN stream' = "Initial" /\ tokens' = {}
     ELSE stream' = "Starting" /\ tokens' = {0}
  /\ CallGone
  /\ UNCHANGED <<disk, log, acked>>

-----------------------------------------------------------------------------
(* Not part of the specification: takes what the watch says, however old. *)
WatchedUnordered(d, n) ==
  LET v == VersionAt(d, n) IN
  IF v > snapshot
  THEN [ver |-> v, w |-> log[v].w, committed |-> FALSE] ELSE cache[d]

(* LocalStore::ApplyRemoteEvent for a document: an older version than the   *)
(* one in the cache is ignored, the same one replaces what only the         *)
(* acknowledgement has told.  n is the version of the watch snapshot.       *)
Watched(d, n) ==
  LET v == VersionAt(d, n) IN
  IF v > snapshot /\ (v > cache[d].ver \/ (v = cache[d].ver /\ cache[d].committed))
  THEN [ver |-> v, w |-> log[v].w, committed |-> FALSE] ELSE cache[d]

WatchSnapshot(n) ==
  /\ network
  /\ n > snapshot /\ n <= Len(log)
  /\ cache' = [d \in Docs |-> Watched(d, n)]
  /\ snapshot' = n
  /\ UNCHANGED <<queue, nextId, callbacks, pipeline, network, streamVars, wire,
                 log, faults, outcome, acked>>

-----------------------------------------------------------------------------
(* The server, which reads one request after the other while the call       *)
(* lives, and commits a write or refuses it, which ends the call.           *)
Server(response, entries, end) ==
  /\ ended = "no"
  /\ toServer' = Tail(toServer)
  /\ fromServer' = fromServer \o response
  /\ log' = log \o entries
  /\ ended' = end
  /\ UNCHANGED <<disk, nextId, callbacks, pipeline, network, streamVars, faults,
                 outcome, acked>>

ServerHandshake ==
  /\ toServer # <<>> /\ Head(toServer) = Hello
  /\ Server(<<Hello>>, <<>>, "no")

ServerApplies ==
  /\ toServer # <<>> /\ Head(toServer) # Hello
  /\ LET w == Head(toServer)
     IN  Server(<<Len(log) + 1>>, <<[doc |-> DocOf[w], w |-> w]>>, "no")

ServerRefuses ==
  /\ toServer # <<>> /\ Head(toServer) \in Refusable
  /\ Server(<<>>, <<>>, "refused")

(* The network or the server ends the call with an error that is not       *)
(* permanent, or before the handshake.                                      *)
CallFails ==
  /\ Fault
  /\ stream = "Open"
  /\ ended = "no"
  /\ ended' = "failed"
  /\ UNCHANGED <<disk, nextId, callbacks, pipeline, network, streamVars, toServer,
                 fromServer, log, outcome, acked>>

(* Another device writes to a document. *)
OtherWrite(d) ==
  /\ Len(SelectSeq(log, LAMBDA e : e.w = 0)) < MaxOthers
  /\ log' = Append(log, [doc |-> d, w |-> 0])
  /\ UNCHANGED <<disk, nextId, callbacks, pipeline, network, streamVars, wire,
                 faults, outcome, acked>>

User == \E w \in Writes : UserWrite(w)
Token == \E n \in tokens : TokenArrives(n)
Response == HandshakeComplete \/ MutationResult
ServerReads == ServerHandshake \/ ServerApplies \/ ServerRefuses

Next ==
  \/ User
  \/ Token \/ TokenFails
  \/ BackoffElapsed
  \/ Response
  \/ StreamEnds \/ ConnectivityChange
  \/ IdleTimeout
  \/ DisableNetwork \/ EnableNetwork
  \/ Relaunch
  \/ \E n \in 1 .. Len(log) : WatchSnapshot(n)
  \/ ServerReads
  \/ CallFails
  \/ \E d \in Docs : OtherWrite(d)

Spec == Init /\ [][Next]_vars

(* The worker queue runs its blocks and timers; tokens are answered, as is  *)
(* every request on a call that lives.                                      *)
Fairness ==
  /\ WF_vars(Token)
  /\ WF_vars(BackoffElapsed)
  /\ WF_vars(Response)
  /\ WF_vars(StreamEnds)
  /\ WF_vars(ServerReads)

FairSpec == Spec /\ Fairness

-----------------------------------------------------------------------------
TypeOK ==
  /\ queue \in Seq(Batches)
  /\ cache \in [Docs -> Contents]
  /\ snapshot \in 0 .. Len(log)
  /\ nextId \in Nat
  /\ callbacks \subseteq Batches
  /\ pipeline \in Seq(Batches)
  /\ Len(pipeline) <= MaxPending
  /\ network \in BOOLEAN
  /\ stream \in States
  /\ handshake \in BOOLEAN
  /\ idle \in BOOLEAN
  /\ closes \in Nat
  /\ tokens \subseteq Nat
  /\ toServer \in Seq(Requests)
  /\ fromServer \in Seq(Nat)
  /\ ended \in {"no", "failed", "refused"}
  /\ log \in Seq([doc : Docs, w : 0 .. LastWrite])
  /\ faults \in 0 .. MaxFaults
  /\ outcome \in [Writes -> Outcomes]
  /\ acked \in [Writes -> Nat]

(* "This is a response to a write containing mutations and should be         *)
(* correlated to the first write in our write pipeline"                      *)
(* (remote_store.cc:414-415): on a call past its handshake, the responses on *)
(* their way and the requests not read yet are for the batches of the        *)
(* pipeline, one for one and in order; only a refused request is missing.    *)
Answered == [i \in 1 .. Len(fromServer) |-> log[fromServer[i]].w]

InStep ==
  stream = "Open" /\ handshake =>
    LET n == Len(fromServer)
        p == WritesIn(pipeline)
    IN  /\ n <= Len(p)
        /\ Answered = SubSeq(p, 1, n)
        /\ toServer = SubSeq(p, IF ended = "refused" THEN n + 2 ELSE n + 1, Len(p))

(* The pipeline is the head of the queue: nothing is sent out of turn, and   *)
(* what is in it is still on disk (RemoveMutationBatch asserts that); the    *)
(* identifiers handed out rise, across restarts too.                         *)
PipelineFromQueue ==
  /\ Len(pipeline) <= Len(queue)
  /\ pipeline = SubSeq(queue, 1, Len(pipeline))
  /\ \A i, j \in 1 .. Len(queue) : i < j => queue[i].id < queue[j].id
  /\ \A i \in 1 .. Len(queue) : queue[i].id < nextId

(* The assertions of Stream and RemoteStore that concern timers and tokens: *)
(* a stream is not stopped as idle while writes wait ("Write stream was     *)
(* stopped gracefully while still needed"), and the answer to a request for *)
(* a token that is not outdated finds the stream in "Starting".             *)
TimersAndTokensCurrent ==
  /\ idle => stream = "Open" /\ pipeline = <<>>
  /\ closes \in tokens <=> stream = "Starting"

(* Completions come in the order of the calls, across refusals, retries and *)
(* batches left over from an earlier process, whose completions are gone.   *)
CompletionsInOrder ==
  \A v, w \in Writes :
    v < w /\ outcome[w] \in {"ok", "error"} => outcome[v] # "pending"

(* A completion without an error tells the truth: the server has applied    *)
(* this very write, at the version the client has been given.  (An error    *)
(* tells less: the server may have applied the write on an earlier call, or *)
(* have refused a later one, see StreamEnds.)                               *)
OkIsApplied ==
  \A w \in Writes :
    outcome[w] = "ok" => acked[w] \in 1 .. Len(log) /\ log[acked[w]].w = w

(* The cache holds what the server has at that version, whether a watch     *)
(* snapshot or only the acknowledgement of an own batch has told it.        *)
CacheIsServers ==
  \A d \in Docs : cache[d].ver # 0 =>
    /\ cache[d].ver <= Len(log)
    /\ log[cache[d].ver] = [doc |-> d, w |-> cache[d].w]

(* The cache never falls behind an acknowledged write of the device: what a *)
(* screen reads after its own write shows it, whatever the watch stream     *)
(* delivers late.                                                           *)
OwnWritesSeen ==
  \A w \in Writes : acked[w] <= cache[DocOf[w]].ver

(* The last word of the device stands: once it knows a write to be applied  *)
(* at a version, the server applies neither that write nor an earlier one   *)
(* of the device after that version, whatever is sent again.                *)
LastWordStands ==
  \A v, w \in Writes : v <= w /\ acked[w] # 0 =>
    \A i \in 1 .. Len(log) : log[i].w = v => i <= acked[w]

(* What the device has been told of a write is told once: a completion that *)
(* has run, or is lost, and an acknowledgement stand, although the write    *)
(* may be sent and answered again after a break or a restart.               *)
ToldOnce ==
  [][\A w \in Writes :
       /\ outcome[w] \notin {"none", "pending"} => outcome'[w] = outcome[w]
       /\ acked[w] # 0 => acked'[w] = acked[w]]_vars

(* A document on the device only moves forward: an acknowledgement and the  *)
(* watch stream, which run against each other, never take back a version    *)
(* and never say two things of one version.                                 *)
CacheMovesForward ==
  [][\A d \in Docs :
       /\ cache[d].ver <= cache'[d].ver
       /\ cache'[d].ver = cache[d].ver => cache'[d].w = cache[d].w]_vars

(* Every write that the device holds leaves it in the end: failures, full  *)
(* pipelines, idle stops and restarts do not strand it, unless the network  *)
(* is switched off for good.                                                *)
Holds(w) == \E i \in 1 .. Len(queue) : queue[i].w = w

EveryWriteSettles ==
  <>[]network => \A w \in Writes : [](Holds(w) => <>~Holds(w))

-----------------------------------------------------------------------------
(* The promise this module implements. *)
Delivery == INSTANCE WriteDelivery WITH
  Other   <- 0,
  pending <- WritesIn(queue),
  taken   <- IF handshake THEN Len(fromServer) ELSE 0,
  halted  <- ended = "refused",
  applied <- WritesIn(log)

DeliverySpec == Delivery!Spec
=============================================================================
