---------------------- MODULE FirestoreDeliveryProofs ----------------------
(***************************************************************************)
(* FirestoreWrites keeps the promise of WriteDelivery, and what is sent    *)
(* again never undoes what the device knows to be done.  Both need, beside *)
(* the inductive invariant of FirestoreWritesProofs, what the log of the   *)
(* server says of the writes still under way.                              *)
(***************************************************************************)
EXTENDS FirestoreWritesProofs

USE WritesAssumption DEF Writes

Entries == [doc : Docs, w : 0 .. LastWrite]

(* The log names issued writes only; a write acknowledged is earlier than   *)
(* all the device holds; after the version of a response under way, the     *)
(* server has applied later writes only.                                    *)
DeliveredInv ==
  /\ \A i \in 1 .. Len(log) : log[i].w # 0 => outcome[log[i].w] # "none"
  /\ \A w \in Writes : acked[w] # 0 =>
       outcome[w] # "none" /\ \A j \in 1 .. Len(queue) : w < queue[j].w
  /\ handshake =>
       \A j \in 1 .. Len(fromServer) : \A i \in 1 .. Len(log) :
         i > fromServer[j] /\ log[i].w # 0 => queue[j].w < log[i].w
  /\ LastWordStands

FullInv == Inv /\ OrderInv /\ DeliveredInv

-----------------------------------------------------------------------------
(* What the steps do to queue, log and call. *)

(* The types the lemmas below use. *)
LEMMA HeldTypes ==
  ASSUME Inv
  PROVE  /\ queue \in Seq(Batches) /\ pipeline \in Seq(Batches)
         /\ Len(queue) \in Nat /\ Len(pipeline) \in Nat
         /\ Len(pipeline) <= Len(queue)
         /\ \A i \in 1 .. Len(queue) : queue[i] \in Batches /\ queue[i].w \in Writes
         /\ \A i \in 1 .. Len(pipeline) : pipeline[i] = queue[i]
         /\ log \in Seq(Entries) /\ Len(log) \in Nat
         /\ \A i \in 1 .. Len(log) : log[i].w \in 0 .. LastWrite
         /\ fromServer \in Seq(Nat) /\ Len(fromServer) \in Nat
         /\ outcome \in [Writes -> Outcomes] /\ acked \in [Writes -> Nat]
         /\ handshake \in BOOLEAN
  <1>1. /\ queue \in Seq(Batches) /\ pipeline \in Seq(Batches)
        /\ log \in Seq(Entries) /\ fromServer \in Seq(Nat)
        /\ outcome \in [Writes -> Outcomes] /\ acked \in [Writes -> Nat]
        /\ handshake \in BOOLEAN
        /\ IsHead(pipeline, queue)
    BY DEF Inv, TypeOK, QueueInv, Entries
  <1>2. \A e \in Entries : e.w \in 0 .. LastWrite
    BY DEF Entries
  <1>3. \A i \in 1 .. Len(log) : log[i].w \in 0 .. LastWrite
    <2>. HIDE DEF Entries
    <2>. QED
      BY <1>1, <1>2
  <1>4. \A i \in 1 .. Len(queue) : queue[i] \in Batches /\ queue[i].w \in Writes
    BY <1>1, BatchFields
  <1>. QED
    BY <1>1, <1>3, <1>4 DEF IsHead

(* Past the handshake no more responses are under way than batches are in   *)
(* the pipeline, and each has a version in the log; a write refused is the  *)
(* next one.                                                                *)
LEMMA UnderWay ==
  ASSUME Inv, handshake
  PROVE  /\ Len(fromServer) <= Len(pipeline)
         /\ \A j \in 1 .. Len(fromServer) : fromServer[j] \in 1 .. Len(log)
         /\ ended = "refused" => Len(fromServer) < Len(pipeline)
  <1>1. /\ Read + Len(toServer) = Len(pipeline)
        /\ \A j \in 1 .. Len(fromServer) : fromServer[j] \in 1 .. Len(log)
    BY DEF Inv, CallInv, InPlace, Placed
  <1>2. toServer \in Seq(Requests) /\ Len(fromServer) \in Nat
    BY HeldTypes DEF Inv, TypeOK
  <1>3. Len(toServer) \in Nat
    BY <1>2
  <1>4. CASE ended = "refused"
    <2>1. Read = Len(fromServer) + 1
      BY <1>4 DEF Read
    <2>. QED
      BY <1>1, <1>2, <1>3, <2>1
  <1>5. CASE ended # "refused"
    <2>1. Read = Len(fromServer)
      BY <1>5 DEF Read
    <2>. QED
      BY <1>1, <1>2, <1>3, <1>5, <2>1
  <1>. QED
    BY <1>4, <1>5

(* A hello is sent before the handshake only. *)
LEMMA HelloIsFirst ==
  ASSUME Inv, toServer # <<>>, Head(toServer) = Hello
  PROVE  ~handshake
  <1>. SUFFICES ASSUME handshake  PROVE FALSE
    OBVIOUS
  <1>1. Placed(toServer, pipeline, Read)
    BY DEF Inv, CallInv, InPlace
  <1>2. /\ toServer \in Seq(Requests) /\ Len(toServer) \in Nat
        /\ Head(toServer) = toServer[1] /\ 1 \in 1 .. Len(toServer)
    BY DEF Inv, TypeOK
  <1>3. Read \in Nat
    BY HeldTypes DEF Read
  <1>4. Read + 1 \in 1 .. Len(pipeline)
    <2>1. Read + Len(toServer) = Len(pipeline)
      BY <1>1, Zenon DEF Placed
    <2>. QED
      BY <1>2, <1>3, <2>1
  <1>5. toServer[1] = pipeline[Read + 1].w
    BY <1>1, <1>2, Zenon DEF Placed
  <1>6. pipeline[Read + 1].w \in Writes
    <2>1. pipeline[Read + 1] \in Batches
      BY <1>4, HeldTypes
    <2>. QED
      BY <2>1, BatchFields
  <1>. QED
    BY <1>2, <1>5, <1>6 DEF Hello

(* The server applies the first write held that it has not applied on this  *)
(* call.                                                                    *)
LEMMA ServerAppliesFacts ==
  ASSUME Inv, ServerApplies
  PROVE  /\ handshake /\ ended = "no"
         /\ Len(fromServer) + 1 \in 1 .. Len(pipeline)
         /\ Len(fromServer') = Len(fromServer) + 1
         /\ \A i \in 1 .. Len(fromServer) : fromServer'[i] = fromServer[i]
         /\ fromServer'[Len(fromServer) + 1] = Len(log) + 1
         /\ log' \in Seq(Entries) /\ Len(log') = Len(log) + 1
         /\ \A i \in 1 .. Len(log) : log'[i] = log[i]
         /\ log'[Len(log) + 1].w = pipeline[Len(fromServer) + 1].w
         /\ UNCHANGED <<queue, pipeline, outcome, acked, handshake, ended>>
  <1> DEFINE w == Head(toServer)
             n == Len(fromServer)
             l == Len(log)
             e == [doc |-> DocOf[w], w |-> w]
  <1>1. toServer # <<>> /\ w # Hello /\ Server(<<l + 1>>, <<e>>, "no")
    BY Zenon DEF ServerApplies
  <1>2. /\ ended = "no" /\ ended' = "no"
        /\ fromServer' = fromServer \o <<l + 1>> /\ log' = log \o <<e>>
        /\ UNCHANGED <<queue, pipeline, outcome, acked, handshake>>
    BY <1>1, Zenon DEF Server, disk, streamVars
  <1>3. /\ handshake /\ Read = n /\ n + 1 \in 1 .. Len(pipeline)
        /\ w = pipeline[n + 1].w /\ w \in Writes
    <2>1. /\ handshake /\ Read = n /\ Read + 1 \in 1 .. Len(pipeline)
          /\ w = pipeline[Read + 1].w /\ w \in Writes
      BY <1>1, <1>2, NextRequest, Zenon
    <2>. HIDE DEF n, w
    <2>. QED
      BY <2>1
  <1>. HIDE DEF w
  <1>4. e \in Entries /\ e.w = w
    <2>1. DocOf[w] \in Docs /\ w \in 0 .. LastWrite
      BY <1>3
    <2>. QED
      BY <2>1 DEF Entries
  <1>5. /\ fromServer \in Seq(Nat) /\ n \in Nat /\ l \in Nat
        /\ log \in Seq(Entries)
    BY HeldTypes
  <1>. HIDE DEF e, l
  <1>6. /\ Len(fromServer') = n + 1
        /\ \A i \in 1 .. n : fromServer'[i] = fromServer[i]
        /\ fromServer'[n + 1] = l + 1
    BY <1>2, <1>5
  <1>7. /\ log' \in Seq(Entries) /\ Len(log') = Len(log) + 1
        /\ \A i \in 1 .. Len(log) : log'[i] = log[i]
        /\ log'[Len(log) + 1] = e
    <2>. HIDE DEF Entries
    <2>. QED
      BY <1>2, <1>4, <1>5
  <1>. QED
    BY <1>2, <1>3, <1>4, <1>6, <1>7 DEF l

(* A response that is no answer to the hello acknowledges the first write   *)
(* held.                                                                    *)
LEMMA MutationResultFacts ==
  ASSUME Inv, MutationResult
  PROVE  /\ handshake /\ pipeline # <<>> /\ Len(fromServer) >= 1
         /\ queue' = Tail(queue) /\ Head(pipeline) = queue[1]
         /\ Len(queue) >= 1 /\ Len(queue') = Len(queue) - 1
         /\ \A i \in 1 .. Len(queue) - 1 : queue'[i] = queue[i + 1]
         /\ Len(fromServer') = Len(fromServer) - 1
         /\ \A i \in 1 .. Len(fromServer) - 1 : fromServer'[i] = fromServer[i + 1]
         /\ acked' = [acked EXCEPT ![queue[1].w] = fromServer[1]]
         /\ outcome' \in {outcome, [outcome EXCEPT ![queue[1].w] = "ok"]}
         /\ UNCHANGED <<log, handshake, ended>>
  <1>1. fromServer # <<>> /\ handshake
    BY HelloOrCommit DEF MutationResult
  <1>2. /\ fromServer \in Seq(Nat) /\ queue \in Seq(Batches) /\ pipeline \in Seq(Batches)
        /\ Len(fromServer) \in Nat /\ Len(queue) \in Nat /\ Len(pipeline) \in Nat
        /\ Len(fromServer) <= Len(pipeline) /\ Len(pipeline) <= Len(queue)
        /\ \A i \in 1 .. Len(pipeline) : pipeline[i] = queue[i]
    BY <1>1, HeldTypes, UnderWay
  <1>3. /\ Len(fromServer) >= 1 /\ pipeline # <<>> /\ queue # <<>> /\ Len(queue) >= 1
        /\ Head(pipeline) = queue[1] /\ Head(fromServer) = fromServer[1]
    <2>1. Len(fromServer) >= 1 /\ Head(fromServer) = fromServer[1]
      BY <1>1, <1>2
    <2>2. Len(pipeline) >= 1 /\ Len(queue) >= 1
      BY <1>2, <2>1
    <2>3. Head(pipeline) = pipeline[1] /\ pipeline # <<>> /\ queue # <<>>
      BY <1>2, <2>2
    <2>. QED
      BY <1>2, <2>1, <2>2, <2>3
  <1>4. /\ queue' = Without(Head(pipeline), queue)
        /\ outcome' = IF Head(pipeline) \in callbacks
                      THEN [outcome EXCEPT ![Head(pipeline).w] = "ok"] ELSE outcome
        /\ acked' = [acked EXCEPT ![Head(pipeline).w] = Head(fromServer)]
        /\ fromServer' = Tail(fromServer)
        /\ UNCHANGED <<log, handshake, ended>>
    BY Zenon DEF MutationResult
  <1>5. queue' = Tail(queue)
    BY <1>3, <1>4, FrontGoes, Zenon
  <1>6. /\ Len(queue') = Len(queue) - 1
        /\ \A i \in 1 .. Len(queue) - 1 : queue'[i] = queue[i + 1]
    BY <1>2, <1>3, <1>5
  <1>7. /\ Len(fromServer') = Len(fromServer) - 1
        /\ \A i \in 1 .. Len(fromServer) - 1 : fromServer'[i] = fromServer[i + 1]
    BY <1>1, <1>2, <1>4
  <1>8. outcome' \in {outcome, [outcome EXCEPT ![queue[1].w] = "ok"]}
    BY <1>3, <1>4
  <1>. QED
    BY <1>1, <1>3, <1>4, <1>5, <1>6, <1>7, <1>8, Zenon

(* The end of a call takes a write with it only if one was refused.         *)
LEMMA CloseFacts ==
  ASSUME Inv, NEW permanent \in BOOLEAN, CloseOnError(permanent),
         permanent => ended = "refused"
  PROVE  /\ ~handshake' /\ ended' = "no" /\ UNCHANGED <<log, acked>>
         /\ \/ UNCHANGED <<queue, outcome>>
            \/ /\ ended = "refused" /\ queue' = Tail(queue)
               /\ Len(queue) >= 1 /\ Len(queue') = Len(queue) - 1
               /\ \A i \in 1 .. Len(queue) - 1 : queue'[i] = queue[i + 1]
               /\ outcome' \in {outcome, [outcome EXCEPT ![queue[1].w] = "error"]}
  <1>1. ~handshake' /\ ended' = "no" /\ UNCHANGED <<log, acked>>
    BY Zenon DEF CloseOnError, CallGone
  <1>2. CASE permanent /\ handshake /\ pipeline # <<>>
    <2>1. RejectFront
      BY <1>2, Zenon DEF CloseOnError
    <2>2. /\ queue \in Seq(Batches) /\ pipeline \in Seq(Batches)
          /\ Len(queue) \in Nat /\ Len(pipeline) \in Nat /\ Len(pipeline) <= Len(queue)
          /\ \A i \in 1 .. Len(pipeline) : pipeline[i] = queue[i]
      BY HeldTypes
    <2>3. Len(queue) >= 1 /\ queue # <<>> /\ Head(pipeline) = queue[1]
      <3>1. Len(pipeline) >= 1 /\ Head(pipeline) = pipeline[1]
        BY <1>2, <2>2
      <3>2. Len(queue) >= 1
        BY <2>2, <3>1
      <3>. QED
        BY <2>2, <3>1, <3>2
    <2>4. /\ queue' = Tail(queue)
          /\ outcome' \in {outcome, [outcome EXCEPT ![queue[1].w] = "error"]}
      <3>1. /\ queue' = Without(Head(pipeline), queue)
            /\ outcome' = IF Head(pipeline) \in callbacks
                          THEN [outcome EXCEPT ![Head(pipeline).w] = "error"] ELSE outcome
        BY <2>1, Zenon DEF RejectFront
      <3>2. Without(Head(pipeline), queue) = Tail(queue)
        BY <1>2, FrontGoes, Zenon
      <3>. QED
        BY <2>3, <3>1, <3>2
    <2>5. /\ Len(queue') = Len(queue) - 1
          /\ \A i \in 1 .. Len(queue) - 1 : queue'[i] = queue[i + 1]
      BY <2>2, <2>3, <2>4
    <2>. QED
      BY <1>1, <1>2, <2>3, <2>4, <2>5
  <1>3. CASE ~(permanent /\ handshake /\ pipeline # <<>>)
    <2>1. UNCHANGED <<queue, outcome>>
      BY <1>3, Zenon DEF CloseOnError
    <2>. QED
      BY <1>1, <2>1
  <1>. QED
    BY <1>2, <1>3

(* The steps that end a call otherwise take nothing from server or queue.   *)
Broken ==
  /\ ~handshake' /\ ended' = "no"
  /\ UNCHANGED <<queue, log, acked>>
  /\ \A w \in Writes : outcome[w] # "none" => outcome'[w] # "none"

LEMMA BrokenSteps ==
  ASSUME Inv, TokenFails \/ IdleTimeout \/ DisableNetwork \/ Relaunch
  PROVE  Broken
  <1>1. CASE TokenFails
    BY <1>1, Zenon DEF TokenFails, CallGone, Broken, disk
  <1>2. CASE IdleTimeout \/ DisableNetwork
    <2>1. StopStream /\ UNCHANGED <<queue, log, acked, outcome>>
      BY <1>2, Zenon DEF IdleTimeout, DisableNetwork, disk
    <2>2. ~handshake' /\ ended' = "no"
      <3>1. CASE IsStarted
        BY <2>1, <3>1, Zenon DEF StopStream, CallGone
      <3>2. CASE ~IsStarted
        BY <2>1, <3>2 DEF StopStream, IsStarted, wire, Inv, StreamInv, CallInv
      <3>. QED
        BY <3>1, <3>2
    <2>. QED
      BY <2>1, <2>2, Zenon DEF Broken
  <1>3. CASE Relaunch
    <2>1. /\ ~handshake' /\ ended' = "no" /\ UNCHANGED <<queue, log, acked>>
          /\ outcome' = [w \in Writes |-> IF outcome[w] = "pending" THEN "lost"
                                         ELSE outcome[w]]
      BY <1>3, Zenon DEF Relaunch, CallGone, disk
    <2>2. \A w \in Writes : outcome[w] # "none" => outcome'[w] # "none"
      BY <2>1
    <2>. QED
      BY <2>1, <2>2, Zenon DEF Broken
  <1>. QED
    BY <1>1, <1>2, <1>3

(* The steps that take nothing from a call past its handshake; one of them  *)
(* completes the handshake.                                                 *)
Quiet ==
  /\ UNCHANGED <<queue, log, acked, outcome>>
  /\ \/ UNCHANGED <<handshake, fromServer>>
     \/ ~handshake /\ (handshake' => Len(fromServer') = 0)
  /\ ended' = ended \/ (ended = "no" /\ ended' = "failed")

LEMMA QuietSteps ==
  ASSUME Inv,
         \/ Token \/ BackoffElapsed \/ HandshakeComplete \/ EnableNetwork
         \/ \E n \in 1 .. Len(log) : WatchSnapshot(n)
         \/ ServerHandshake \/ CallFails \/ UNCHANGED vars
  PROVE  Quiet
  <1>1. CASE Token \/ BackoffElapsed \/ UNCHANGED vars
             \/ \E n \in 1 .. Len(log) : WatchSnapshot(n)
    BY <1>1, Zenon DEF Token, TokenArrives, BackoffElapsed, WatchSnapshot, vars, disk,
                       wire, streamVars, Quiet
  <1>2. CASE CallFails
    BY <1>2, Zenon DEF CallFails, disk, streamVars, Quiet
  <1>3. CASE EnableNetwork
    BY <1>3, Zenon DEF EnableNetwork, disk, wire, Quiet
  <1>4. CASE HandshakeComplete
    <2>1. ~handshake /\ Len(fromServer) = 1
      BY <1>4, HelloOrCommit DEF HandshakeComplete
    <2>2. fromServer' = Tail(fromServer)
      BY <1>4, Zenon DEF HandshakeComplete
    <2>3. Len(fromServer') = 0
      BY <2>1, <2>2, HeldTypes
    <2>. QED
      BY <1>4, <2>1, <2>3, Zenon DEF HandshakeComplete, disk, Quiet
  <1>5. CASE ServerHandshake
    <2>1. /\ toServer # <<>> /\ Head(toServer) = Hello /\ Server(<<Hello>>, <<>>, "no")
      BY <1>5, Zenon DEF ServerHandshake
    <2>2. /\ ended' = ended /\ log' = log \o <<>>
          /\ UNCHANGED <<queue, acked, outcome, handshake>>
      BY <2>1, Zenon DEF Server, disk, streamVars
    <2>3. log' = log
      <3>1. log \in Seq(Entries)
        BY HeldTypes
      <3>. HIDE DEF Entries
      <3>. QED
        BY <2>2, <3>1
    <2>4. ~handshake
      BY <2>1, HelloIsFirst, Zenon
    <2>. QED
      BY <2>2, <2>3, <2>4, Zenon DEF Quiet
  <1>. QED
    BY <1>1, <1>2, <1>3, <1>4, <1>5

-----------------------------------------------------------------------------
(* The log and the writes still under way. *)

(* Only what is under way or in the queue matters. *)
LEMMA DeliveredKept ==
  ASSUME FullInv, UNCHANGED <<log, acked>>,
         \A w \in Writes : outcome[w] # "none" => outcome'[w] # "none",
         \/ queue' = queue
         \/ /\ Len(queue) >= 1 /\ Len(queue') = Len(queue) - 1
            /\ \A i \in 1 .. Len(queue) - 1 : queue'[i] = queue[i + 1],
         \/ ~handshake'
         \/ handshake' /\ Len(fromServer') = 0
         \/ queue' = queue /\ UNCHANGED <<handshake, fromServer>>
  PROVE  DeliveredInv'
  <1>1. /\ Len(queue) \in Nat
        /\ \A i \in 1 .. Len(log) : log[i].w \in 0 .. LastWrite
    BY HeldTypes DEF FullInv
  <1>2. \A i \in 1 .. Len(log') : log'[i].w # 0 => outcome'[log'[i].w] # "none"
    BY <1>1 DEF FullInv, DeliveredInv
  <1>3. ASSUME NEW w \in Writes, acked'[w] # 0
        PROVE  outcome'[w] # "none" /\ \A j \in 1 .. Len(queue') : w < queue'[j].w
    <2>1. outcome[w] # "none" /\ \A j \in 1 .. Len(queue) : w < queue[j].w
      BY <1>3 DEF FullInv, DeliveredInv
    <2>2. ASSUME NEW j \in 1 .. Len(queue')  PROVE w < queue'[j].w
      <3>1. CASE queue' = queue
        BY <2>1, <3>1
      <3>2. CASE /\ Len(queue) >= 1 /\ Len(queue') = Len(queue) - 1
                 /\ \A i \in 1 .. Len(queue) - 1 : queue'[i] = queue[i + 1]
        <4>1. j \in 1 .. Len(queue) - 1 /\ j + 1 \in 1 .. Len(queue)
          BY <1>1, <3>2
        <4>2. queue'[j] = queue[j + 1]
          BY <3>2, <4>1
        <4>. QED
          BY <2>1, <4>1, <4>2
      <3>. QED
        BY <3>1, <3>2
    <2>. QED
      BY <2>1, <2>2
  <1>4. handshake' =>
          \A j \in 1 .. Len(fromServer') : \A i \in 1 .. Len(log') :
            i > fromServer'[j] /\ log'[i].w # 0 => queue'[j].w < log'[i].w
    <2>1. CASE ~handshake' \/ Len(fromServer') = 0
      BY <2>1
    <2>2. CASE queue' = queue /\ UNCHANGED <<handshake, fromServer>>
      BY <2>2 DEF FullInv, DeliveredInv
    <2>. QED
      BY <2>1, <2>2
  <1>5. LastWordStands'
    BY DEF FullInv, DeliveredInv, LastWordStands
  <1>. QED
    BY <1>2, <1>3, <1>4, <1>5, Zenon DEF DeliveredInv

(* A new write is later than all the server has been told. *)
LEMMA UserWriteFacts ==
  ASSUME FullInv, NEW w \in Writes, UserWrite(w)
  PROVE  /\ queue' \in Seq(Batches) /\ Len(queue') = Len(queue) + 1
         /\ \A i \in 1 .. Len(queue) : queue'[i] = queue[i]
         /\ queue'[Len(queue) + 1].w = w
         /\ outcome[w] = "none" /\ outcome' = [outcome EXCEPT ![w] = "pending"]
         /\ \A v \in Writes : outcome[v] # "none" => v < w
         /\ UNCHANGED <<log, acked, handshake, fromServer, ended>>
  <1> DEFINE b == [id |-> nextId, w |-> w]
  <1>1. /\ w \notin Issued /\ queue' = Append(queue, b)
        /\ outcome' = [outcome EXCEPT ![w] = "pending"]
        /\ UNCHANGED <<log, acked, handshake, fromServer, ended>>
    BY Zenon DEF UserWrite
  <1>2. b \in Batches /\ b.w = w
    BY DEF FullInv, Inv, TypeOK, Batches
  <1>3. queue \in Seq(Batches)
    BY HeldTypes DEF FullInv
  <1>. HIDE DEF b
  <1>4. /\ queue' \in Seq(Batches) /\ Len(queue') = Len(queue) + 1
        /\ \A i \in 1 .. Len(queue) : queue'[i] = queue[i]
        /\ queue'[Len(queue) + 1] = b
    BY <1>1, <1>2, <1>3
  <1>5. outcome[w] = "none"
    BY <1>1 DEF Issued
  <1>6. \A v \in Writes : outcome[v] # "none" => v < w
    BY <1>5 DEF FullInv, OrderInv
  <1>. QED
    BY <1>1, <1>2, <1>4, <1>5, <1>6

LEMMA DeliveredAfterUserWrite ==
  ASSUME FullInv, NEW w \in Writes, UserWrite(w)
  PROVE  DeliveredInv'
  <1>1. /\ Len(queue) \in Nat /\ Len(fromServer) \in Nat
        /\ outcome \in [Writes -> Outcomes]
        /\ \A i \in 1 .. Len(log) : log[i].w \in 0 .. LastWrite
    BY HeldTypes DEF FullInv
  <1>2. /\ Len(queue') = Len(queue) + 1
        /\ \A i \in 1 .. Len(queue) : queue'[i] = queue[i]
        /\ queue'[Len(queue) + 1].w = w
        /\ outcome' = [outcome EXCEPT ![w] = "pending"]
        /\ \A v \in Writes : outcome[v] # "none" => v < w
        /\ UNCHANGED <<log, acked, handshake, fromServer>>
    BY UserWriteFacts
  <1>3. \A v \in Writes : outcome[v] # "none" => outcome'[v] # "none"
    BY <1>1, <1>2
  <1>4. \A i \in 1 .. Len(log') : log'[i].w # 0 => outcome'[log'[i].w] # "none"
    BY <1>1, <1>2, <1>3 DEF FullInv, DeliveredInv
  <1>5. ASSUME NEW v \in Writes, acked'[v] # 0
        PROVE  outcome'[v] # "none" /\ \A j \in 1 .. Len(queue') : v < queue'[j].w
    <2>1. outcome[v] # "none" /\ \A j \in 1 .. Len(queue) : v < queue[j].w
      BY <1>2, <1>5 DEF FullInv, DeliveredInv
    <2>2. ASSUME NEW j \in 1 .. Len(queue')  PROVE v < queue'[j].w
      <3>1. j \in 1 .. Len(queue) \/ j = Len(queue) + 1
        BY <1>1, <1>2
      <3>. QED
        BY <1>2, <2>1, <3>1
    <2>. QED
      BY <1>3, <2>1, <2>2
  <1>6. ASSUME handshake', NEW j \in 1 .. Len(fromServer'), NEW i \in 1 .. Len(log'),
               i > fromServer'[j], log'[i].w # 0
        PROVE  queue'[j].w < log'[i].w
    <2>1. j \in 1 .. Len(queue)
      <3>1. Len(fromServer) <= Len(pipeline) /\ Len(pipeline) <= Len(queue)
            /\ Len(pipeline) \in Nat
        BY <1>2, <1>6, UnderWay, HeldTypes DEF FullInv
      <3>. QED
        BY <1>1, <1>2, <3>1
    <2>. QED
      BY <1>2, <1>6, <2>1 DEF FullInv, DeliveredInv
  <1>7. LastWordStands'
    BY <1>2 DEF FullInv, DeliveredInv, LastWordStands
  <1>. QED
    BY <1>4, <1>5, <1>6, <1>7 DEF DeliveredInv

(* What the server applies is later than all that was acknowledged, and     *)
(* than all that it has applied on this call.                               *)
LEMMA DeliveredAfterApply ==
  ASSUME FullInv, ServerApplies
  PROVE  DeliveredInv'
  <1> DEFINE n == Len(fromServer)
             l == Len(log)
  <1>1. /\ handshake /\ n + 1 \in 1 .. Len(pipeline)
        /\ Len(fromServer') = n + 1
        /\ \A i \in 1 .. n : fromServer'[i] = fromServer[i]
        /\ fromServer'[n + 1] = l + 1
        /\ Len(log') = l + 1
        /\ \A i \in 1 .. l : log'[i] = log[i]
        /\ log'[l + 1].w = pipeline[n + 1].w
        /\ UNCHANGED <<queue, outcome, acked, handshake>>
    BY ServerAppliesFacts DEF FullInv
  <1>2. /\ n \in Nat /\ l \in Nat /\ Len(queue) \in Nat
        /\ acked \in [Writes -> Nat]
        /\ \A i \in 1 .. l : log[i].w \in 0 .. LastWrite
        /\ \A j \in 1 .. n : fromServer[j] \in 1 .. l
    BY <1>1, HeldTypes, UnderWay DEF FullInv
  <1>3. /\ n + 1 \in 1 .. Len(queue)
        /\ log'[l + 1].w = queue[n + 1].w /\ queue[n + 1].w \in Writes
        /\ outcome[queue[n + 1].w] # "none"
        /\ \A j \in 1 .. n : queue[j].w < queue[n + 1].w
    <2>1. /\ Len(pipeline) \in Nat /\ Len(pipeline) <= Len(queue)
          /\ \A i \in 1 .. Len(pipeline) : pipeline[i] = queue[i]
          /\ \A i \in 1 .. Len(queue) : queue[i].w \in Writes
      BY HeldTypes DEF FullInv
    <2>2. n + 1 \in 1 .. Len(queue)
      BY <1>1, <1>2, <2>1
    <2>3. \A j \in 1 .. n : j \in 1 .. Len(queue) /\ j < n + 1
      BY <1>2, <2>2
    <2>. QED
      BY <1>1, <2>1, <2>2, <2>3 DEF FullInv, OrderInv
  <1>4. \A w \in Writes : acked[w] # 0 =>
          /\ outcome[w] # "none"
          /\ \A j \in 1 .. Len(queue) : w < queue[j].w
    BY DEF FullInv, DeliveredInv
  <1>. HIDE DEF n, l
  <1>5. \A i \in 1 .. l + 1 : i \in 1 .. l \/ i = l + 1
    BY <1>2
  <1>6. ASSUME NEW i \in 1 .. Len(log'), log'[i].w # 0
        PROVE  outcome'[log'[i].w] # "none"
    <2>1. CASE i \in 1 .. l
      BY <1>1, <1>6, <2>1 DEF FullInv, DeliveredInv, l
    <2>2. CASE i = l + 1
      BY <1>1, <1>3, <2>2
    <2>. QED
      BY <1>1, <1>5, <2>1, <2>2
  <1>7. ASSUME NEW j \in 1 .. Len(fromServer'), NEW i \in 1 .. Len(log'),
               i > fromServer'[j], log'[i].w # 0
        PROVE  queue'[j].w < log'[i].w
    <2>1. j \in 1 .. n
      <3>1. j \in 1 .. n \/ j = n + 1
        BY <1>1, <1>2
      <3>2. i <= l + 1
        BY <1>1, <1>2
      <3>. QED
        BY <1>1, <1>2, <1>7, <3>1, <3>2
    <2>2. CASE i \in 1 .. l
      BY <1>1, <1>7, <2>1, <2>2 DEF FullInv, DeliveredInv, n, l
    <2>3. CASE i = l + 1
      BY <1>1, <1>3, <2>1, <2>3
    <2>. QED
      BY <1>1, <1>5, <2>2, <2>3
  <1>8. LastWordStands'
    <2>. SUFFICES ASSUME NEW v \in Writes, NEW w \in Writes, v <= w, acked'[w] # 0,
                         NEW i \in 1 .. Len(log'), log'[i].w = v
                  PROVE  i <= acked'[w]
      BY DEF LastWordStands
    <2>1. acked[w] # 0
      BY <1>1
    <2>2. CASE i \in 1 .. l
      BY <1>1, <2>1, <2>2 DEF FullInv, DeliveredInv, LastWordStands, l
    <2>3. CASE i = l + 1
      <3>1. v = queue[n + 1].w /\ w < queue[n + 1].w
        BY <1>1, <1>3, <1>4, <2>1, <2>3
      <3>. QED
        BY <3>1
    <2>. QED
      BY <1>1, <1>5, <2>2, <2>3
  <1>9. \A w \in Writes : acked'[w] # 0 =>
          /\ outcome'[w] # "none"
          /\ \A j \in 1 .. Len(queue') : w < queue'[j].w
    BY <1>1, <1>4
  <1>. QED
    BY <1>6, <1>7, <1>8, <1>9 DEF DeliveredInv

(* The first write held is acknowledged at the last version it has, and no  *)
(* earlier write of the device comes later.                                 *)
LEMMA DeliveredAfterResult ==
  ASSUME FullInv, MutationResult
  PROVE  DeliveredInv'
  <1> DEFINE u == queue[1].w
             f == fromServer[1]
  <1>1. /\ handshake /\ Len(fromServer) >= 1 /\ Len(queue) >= 1
        /\ Len(queue') = Len(queue) - 1
        /\ \A i \in 1 .. Len(queue) - 1 : queue'[i] = queue[i + 1]
        /\ Len(fromServer') = Len(fromServer) - 1
        /\ \A i \in 1 .. Len(fromServer) - 1 : fromServer'[i] = fromServer[i + 1]
        /\ acked' = [acked EXCEPT ![u] = f]
        /\ outcome' \in {outcome, [outcome EXCEPT ![u] = "ok"]}
        /\ UNCHANGED <<log, handshake>>
    BY MutationResultFacts DEF FullInv
  <1>2. /\ Len(fromServer) \in Nat /\ Len(queue) \in Nat /\ Len(log) \in Nat
        /\ \A i \in 1 .. Len(queue) : queue[i].w \in Writes
        /\ \A i \in 1 .. Len(log) : log[i].w \in 0 .. LastWrite
        /\ \A i \in 1 .. Len(fromServer) : fromServer[i] \in 1 .. Len(log)
        /\ outcome \in [Writes -> Outcomes] /\ acked \in [Writes -> Nat]
    BY <1>1, HeldTypes, UnderWay DEF FullInv
  <1>3. /\ u \in Writes /\ outcome[u] # "none"
        /\ \A i \in 2 .. Len(queue) : u < queue[i].w
        /\ f \in 1 .. Len(log)
        /\ \A i \in 1 .. Len(log) : i > f /\ log[i].w # 0 => u < log[i].w
    <2>1. 1 \in 1 .. Len(queue) /\ 1 \in 1 .. Len(fromServer)
      BY <1>1, <1>2
    <2>2. u \in Writes /\ f \in 1 .. Len(log)
      BY <1>2, <2>1
    <2>3. outcome[u] # "none" /\ \A i \in 2 .. Len(queue) : u < queue[i].w
      BY <1>2, <2>1 DEF FullInv, OrderInv
    <2>4. \A i \in 1 .. Len(log) : i > f /\ log[i].w # 0 => u < log[i].w
      BY <1>1, <2>1 DEF FullInv, DeliveredInv
    <2>. QED
      BY <2>2, <2>3, <2>4
  <1>. HIDE DEF u, f
  <1>4. /\ acked'[u] = f
        /\ \A w \in Writes : w # u => acked'[w] = acked[w]
    BY <1>1, <1>2, <1>3
  <1>5. \A w \in Writes : outcome[w] # "none" => outcome'[w] # "none"
    BY <1>1, <1>2
  <1>6. \A i \in 1 .. Len(log') : log'[i].w # 0 => outcome'[log'[i].w] # "none"
    <2> SUFFICES ASSUME NEW i \in 1 .. Len(log), log[i].w # 0
                 PROVE  outcome'[log[i].w] # "none"
      BY <1>1
    <2>1. outcome[log[i].w] # "none"
      BY DEF FullInv, DeliveredInv
    <2>2. log[i].w \in 0 .. LastWrite
      BY <1>2
    <2>3. log[i].w \in Writes
      BY <2>2 DEF Writes
    <2>. QED
      BY <1>5, <2>1, <2>3
  <1>7. \A j \in 1 .. Len(queue') :
          j + 1 \in 2 .. Len(queue) /\ queue'[j] = queue[j + 1]
    BY <1>1, <1>2
  <1>8. ASSUME NEW w \in Writes, acked'[w] # 0
        PROVE  outcome'[w] # "none" /\ \A j \in 1 .. Len(queue') : w < queue'[j].w
    <2>1. CASE w = u
      BY <1>3, <1>5, <1>7, <2>1
    <2>2. CASE w # u
      <3>1. outcome[w] # "none" /\ \A j \in 1 .. Len(queue) : w < queue[j].w
        BY <1>4, <1>8, <2>2 DEF FullInv, DeliveredInv
      <3>2. \A j \in 1 .. Len(queue') : j + 1 \in 1 .. Len(queue)
        BY <1>1, <1>2
      <3>. QED
        BY <1>5, <1>7, <3>1, <3>2
    <2>. QED
      BY <2>1, <2>2
  <1>9. ASSUME NEW j \in 1 .. Len(fromServer'), NEW i \in 1 .. Len(log'),
               i > fromServer'[j], log'[i].w # 0
        PROVE  queue'[j].w < log'[i].w
    <2>1. /\ j + 1 \in 1 .. Len(fromServer) /\ fromServer'[j] = fromServer[j + 1]
      BY <1>1, <1>2
    <2>2. j \in 1 .. Len(queue')
      <3>1. Len(fromServer) <= Len(pipeline) /\ Len(pipeline) <= Len(queue)
            /\ Len(pipeline) \in Nat
        BY <1>1, UnderWay, HeldTypes DEF FullInv
      <3>. QED
        BY <1>1, <1>2, <3>1
    <2>. QED
      BY <1>1, <1>7, <1>9, <2>1, <2>2 DEF FullInv, DeliveredInv
  <1>10. LastWordStands'
    <2>. SUFFICES ASSUME NEW v \in Writes, NEW w \in Writes, v <= w, acked'[w] # 0,
                         NEW i \in 1 .. Len(log'), log'[i].w = v
                  PROVE  i <= acked'[w]
      BY DEF LastWordStands
    <2>1. i \in 1 .. Len(log) /\ log[i].w = v
      BY <1>1
    <2>2. CASE w = u
      <3>1. ~(u < log[i].w) /\ log[i].w # 0
        BY <1>3, <2>1, <2>2
      <3>2. ~(i > f) /\ acked'[w] = f
        BY <1>3, <1>4, <2>1, <2>2, <3>1
      <3>3. i \in Int /\ f \in Int
        BY <1>2, <1>3, <2>1
      <3>. QED
        BY <3>2, <3>3
    <2>3. CASE w # u
      BY <1>4, <2>1, <2>3 DEF FullInv, DeliveredInv, LastWordStands
    <2>. QED
      BY <2>2, <2>3
  <1>. QED
    BY <1>1, <1>6, <1>8, <1>9, <1>10 DEF DeliveredInv

(* A write of another device has no number. *)
LEMMA OtherWriteFacts ==
  ASSUME Inv, NEW d \in Docs, OtherWrite(d)
  PROVE  /\ log' \in Seq(Entries) /\ Len(log') = Len(log) + 1
         /\ \A i \in 1 .. Len(log) : log'[i] = log[i]
         /\ log'[Len(log) + 1].w = 0
         /\ UNCHANGED <<queue, outcome, acked, handshake, fromServer, ended>>
  <1> DEFINE e == [doc |-> d, w |-> 0]
  <1>1. e \in Entries /\ e.w = 0
    BY DEF Entries
  <1>2. /\ log' = Append(log, e)
        /\ UNCHANGED <<queue, outcome, acked, handshake, fromServer, ended>>
    BY Zenon DEF OtherWrite, disk, wire, streamVars
  <1>3. log \in Seq(Entries)
    BY HeldTypes
  <1>. HIDE DEF e, Entries
  <1>4. /\ log' \in Seq(Entries) /\ Len(log') = Len(log) + 1
        /\ \A i \in 1 .. Len(log) : log'[i] = log[i]
        /\ log'[Len(log) + 1] = e
    BY <1>1, <1>2, <1>3
  <1>. QED
    BY <1>1, <1>2, <1>4

LEMMA DeliveredAfterOther ==
  ASSUME FullInv, NEW d \in Docs, OtherWrite(d)
  PROVE  DeliveredInv'
  <1>1. /\ Len(log') = Len(log) + 1 /\ Len(log) \in Nat
        /\ \A i \in 1 .. Len(log) : log'[i] = log[i]
        /\ log'[Len(log) + 1].w = 0
        /\ UNCHANGED <<queue, outcome, acked, handshake, fromServer>>
    BY OtherWriteFacts, HeldTypes DEF FullInv
  <1>2. \A i \in 1 .. Len(log') :
          log'[i].w # 0 => i \in 1 .. Len(log) /\ log'[i] = log[i]
    BY <1>1
  <1>3. LastWordStands'
    BY <1>1, <1>2 DEF FullInv, DeliveredInv, LastWordStands
  <1>. QED
    BY <1>1, <1>2, <1>3 DEF FullInv, DeliveredInv

LEMMA DeliveredNext == FullInv /\ [Next]_vars => DeliveredInv'
  <1>. SUFFICES ASSUME FullInv, [Next]_vars  PROVE DeliveredInv'
    OBVIOUS
  <1>0. Inv
    BY DEF FullInv
  <1>1. CASE User
    BY <1>1, DeliveredAfterUserWrite DEF User
  <1>2. CASE ServerApplies
    BY <1>2, DeliveredAfterApply
  <1>3. CASE MutationResult
    BY <1>3, DeliveredAfterResult
  <1>4. CASE \E d \in Docs : OtherWrite(d)
    BY <1>4, DeliveredAfterOther
  <1>5. ASSUME NEW permanent \in BOOLEAN, CloseOnError(permanent),
               permanent => ended = "refused"
        PROVE  DeliveredInv'
    <2>1. outcome \in [Writes -> Outcomes]
      BY <1>0, HeldTypes
    <2>2. /\ ~handshake' /\ UNCHANGED <<log, acked>>
          /\ \/ UNCHANGED <<queue, outcome>>
             \/ /\ Len(queue) >= 1 /\ Len(queue') = Len(queue) - 1
                /\ \A i \in 1 .. Len(queue) - 1 : queue'[i] = queue[i + 1]
                /\ outcome' \in {outcome, [outcome EXCEPT ![queue[1].w] = "error"]}
      BY <1>0, <1>5, CloseFacts
    <2>3. \A w \in Writes : outcome[w] # "none" => outcome'[w] # "none"
      BY <2>1, <2>2
    <2>. QED
      BY <2>2, <2>3, DeliveredKept
  <1>6. CASE StreamEnds \/ ConnectivityChange
    <2>1. \E permanent \in BOOLEAN :
            CloseOnError(permanent) /\ (permanent => ended = "refused")
      BY <1>6 DEF StreamEnds, ConnectivityChange
    <2>. QED
      BY <1>5, <2>1
  <1>7. CASE TokenFails \/ IdleTimeout \/ DisableNetwork \/ Relaunch
    <2>1. Broken
      BY <1>0, <1>7, BrokenSteps, Zenon
    <2>. QED
      BY <2>1, DeliveredKept DEF Broken
  <1>8. CASE \/ Token \/ BackoffElapsed \/ HandshakeComplete \/ EnableNetwork
             \/ \E n \in 1 .. Len(log) : WatchSnapshot(n)
             \/ ServerHandshake \/ CallFails \/ UNCHANGED vars
    <2>1. Quiet
      BY <1>0, <1>8, QuietSteps, Zenon
    <2>2. handshake' \in BOOLEAN
      BY <1>0, NextInv DEF Inv, TypeOK
    <2>. QED
      BY <2>1, <2>2, DeliveredKept DEF Quiet
  <1>9. CASE ServerRefuses
    <2>1. /\ toServer # <<>> /\ Head(toServer) \in Refusable
          /\ Server(<<>>, <<>>, "refused")
      BY <1>9, Zenon DEF ServerRefuses
    <2>2. /\ fromServer' = fromServer \o <<>> /\ log' = log \o <<>>
          /\ UNCHANGED <<queue, acked, outcome, handshake>>
      BY <2>1, Zenon DEF Server, disk, streamVars
    <2>3. log' = log /\ fromServer' = fromServer
      <3>1. log \in Seq(Entries) /\ fromServer \in Seq(Nat)
        BY <1>0, HeldTypes
      <3>. HIDE DEF Entries
      <3>. QED
        BY <2>2, <3>1
    <2>. QED
      BY <2>2, <2>3, DeliveredKept
  <1>. QED
    BY <1>1, <1>2, <1>3, <1>4, <1>6, <1>7, <1>8, <1>9, Zenon
    DEF Next, Response, ServerReads

LEMMA InitFullInv == Init => FullInv
  <1>1. Init => OrderInv
    BY DEF Init, OrderInv, CompletionsInOrder
  <1>2. Init => DeliveredInv
    BY DEF Init, DeliveredInv, LastWordStands
  <1>. QED
    BY <1>1, <1>2, InitInv DEF FullInv

LEMMA FullInvariance == Spec => []FullInv
  <1>1. FullInv /\ [Next]_vars => FullInv'
    BY NextInv, OrderNext, DeliveredNext DEF FullInv
  <1>. QED
    BY <1>1, InitFullInv, PTL DEF Spec

(* Once the device knows a write to be applied, neither it nor an earlier   *)
(* one is applied again, whatever connections fail and the process restarts.*)
THEOREM LastWordAlwaysStands == Spec => []LastWordStands
  <1>1. FullInv => LastWordStands
    BY DEF FullInv, DeliveredInv
  <1>. QED
    BY <1>1, FullInvariance, PTL

-----------------------------------------------------------------------------
(* The refinement: each step of the client is a step of the promise, or one *)
(* it does not see.                                                         *)

(* The writes of a sequence of records, one by one. *)
LEMMA WritesInElements ==
  ASSUME NEW S, NEW T, \A x \in S : x.w \in T, NEW s \in Seq(S)
  PROVE  /\ WritesIn(s) \in Seq(T) /\ Len(WritesIn(s)) = Len(s)
         /\ \A i \in 1 .. Len(s) : WritesIn(s)[i] = s[i].w
  BY DEF WritesIn

LEMMA WritesInAppended ==
  ASSUME NEW S, NEW T, \A x \in S : x.w \in T, NEW s \in Seq(S), NEW t \in Seq(S),
         Len(t) = Len(s) + 1, \A i \in 1 .. Len(s) : t[i] = s[i]
  PROVE  WritesIn(t) = Append(WritesIn(s), t[Len(s) + 1].w)
  <1> DEFINE a == WritesIn(s)
             b == WritesIn(t)
             w == t[Len(s) + 1].w
  <1>1. /\ a \in Seq(T) /\ Len(a) = Len(s) /\ \A i \in 1 .. Len(s) : a[i] = s[i].w
        /\ b \in Seq(T) /\ Len(b) = Len(t) /\ \A i \in 1 .. Len(t) : b[i] = t[i].w
    BY WritesInElements
  <1>2. Len(s) \in Nat /\ w \in T
    BY ElementOfSeq
  <1>3. b[Len(s) + 1] = w
    BY <1>1, <1>2
  <1>4. \A i \in 1 .. Len(s) : b[i] = a[i]
    BY <1>1, <1>2
  <1>. HIDE DEF a, b, w
  <1>5. /\ Append(a, w) \in Seq(T) /\ Len(Append(a, w)) = Len(s) + 1
        /\ \A i \in 1 .. Len(s) : Append(a, w)[i] = a[i]
        /\ Append(a, w)[Len(s) + 1] = w
    BY <1>1, <1>2
  <1>6. \A i \in 1 .. Len(b) : b[i] = Append(a, w)[i]
    <2>1. \A i \in 1 .. Len(b) : i \in 1 .. Len(s) \/ i = Len(s) + 1
      BY <1>1, <1>2
    <2>. QED
      BY <1>3, <1>4, <1>5, <2>1
  <1>7. b = Append(a, w)
    BY <1>1, <1>5, <1>6, SeqEqual, Zenon
  <1>. QED
    BY <1>7 DEF a, b, w

LEMMA WritesInTail ==
  ASSUME NEW S, NEW T, \A x \in S : x.w \in T, NEW s \in Seq(S), NEW t \in Seq(S),
         Len(s) >= 1, Len(t) = Len(s) - 1, \A i \in 1 .. Len(s) - 1 : t[i] = s[i + 1]
  PROVE  WritesIn(t) = Tail(WritesIn(s))
  <1> DEFINE a == WritesIn(s)
             b == WritesIn(t)
  <1>1. /\ a \in Seq(T) /\ Len(a) = Len(s) /\ \A i \in 1 .. Len(s) : a[i] = s[i].w
        /\ b \in Seq(T) /\ Len(b) = Len(t) /\ \A i \in 1 .. Len(t) : b[i] = t[i].w
    BY WritesInElements
  <1>. HIDE DEF a, b
  <1>2. ASSUME NEW i \in 1 .. Len(b)  PROVE b[i] = a[i + 1]
    <2>1. /\ Len(s) \in Nat /\ i \in 1 .. Len(t)
          /\ i \in 1 .. Len(s) - 1 /\ i + 1 \in 1 .. Len(s)
      BY <1>1
    <2>2. b[i] = t[i].w /\ a[i + 1] = s[i + 1].w
      BY <1>1, <2>1, Zenon
    <2>. QED
      BY <2>1, <2>2, Zenon
  <1>3. /\ Tail(a) \in Seq(T) /\ Len(Tail(a)) = Len(b)
        /\ \A i \in 1 .. Len(b) : Tail(a)[i] = a[i + 1]
    BY <1>1
  <1>4. b = Tail(a)
    BY <1>1, <1>2, <1>3, SeqEqual, Zenon
  <1>. QED
    BY <1>4 DEF a, b

LEMMA MappedWrites ==
  ASSUME Inv
  PROVE  /\ Len(WritesIn(queue)) = Len(queue) /\ Len(WritesIn(log)) = Len(log)
         /\ \A i \in 1 .. Len(queue) : WritesIn(queue)[i] = queue[i].w
         /\ \A i \in 1 .. Len(log) : WritesIn(log)[i] = log[i].w
  <1>1. queue \in Seq(Batches) /\ log \in Seq(Entries)
    BY HeldTypes
  <1>2. (\A b \in Batches : b.w \in Writes) /\ (\A e \in Entries : e.w \in 0 .. LastWrite)
    BY DEF Batches, Entries
  <1>. HIDE DEF Entries
  <1>. QED
    BY <1>1, <1>2, WritesInElements

LEMMA UserWriteIssues ==
  ASSUME FullInv, NEW w \in Writes, UserWrite(w)
  PROVE  Delivery!Issue(w)
  <1>1. /\ queue' \in Seq(Batches) /\ Len(queue') = Len(queue) + 1
        /\ \A i \in 1 .. Len(queue) : queue'[i] = queue[i]
        /\ queue'[Len(queue) + 1].w = w /\ outcome[w] = "none"
        /\ UNCHANGED <<log, handshake, fromServer, ended>>
    BY UserWriteFacts
  <1>2. queue \in Seq(Batches) /\ \A b \in Batches : b.w \in Writes
    BY HeldTypes DEF FullInv, Batches
  <1>3. WritesIn(queue') = Append(WritesIn(queue), w)
    BY <1>1, <1>2, WritesInAppended
  <1>4. \A i \in 1 .. Len(WritesIn(queue)) : WritesIn(queue)[i] # w
    BY <1>1, MappedWrites DEF FullInv, OrderInv
  <1>5. \A i \in 1 .. Len(WritesIn(log)) : WritesIn(log)[i] # w
    BY <1>1, MappedWrites DEF FullInv, DeliveredInv
  <1>. QED
    BY <1>1, <1>3, <1>4, <1>5 DEF Delivery!Issue

LEMMA ServerAppliesApplies ==
  ASSUME Inv, ServerApplies
  PROVE  Delivery!Apply
  <1> DEFINE n == Len(fromServer)
  <1>1. /\ handshake /\ ended = "no" /\ n + 1 \in 1 .. Len(pipeline)
        /\ Len(fromServer') = n + 1
        /\ log' \in Seq(Entries) /\ Len(log') = Len(log) + 1
        /\ \A i \in 1 .. Len(log) : log'[i] = log[i]
        /\ log'[Len(log) + 1].w = pipeline[n + 1].w
        /\ UNCHANGED <<queue, handshake, ended>>
    BY ServerAppliesFacts
  <1>2. /\ log \in Seq(Entries) /\ n \in Nat /\ Len(queue) \in Nat
        /\ Len(pipeline) \in Nat /\ Len(pipeline) <= Len(queue)
        /\ \A i \in 1 .. Len(pipeline) : pipeline[i] = queue[i]
    BY HeldTypes
  <1>3. \A e \in Entries : e.w \in 0 .. LastWrite
    BY DEF Entries
  <1>4. WritesIn(log') = Append(WritesIn(log), log'[Len(log) + 1].w)
    <2>. HIDE DEF Entries
    <2>. QED
      BY <1>1, <1>2, <1>3, WritesInAppended
  <1>5. n < Len(WritesIn(queue)) /\ WritesIn(queue)[n + 1] = log'[Len(log) + 1].w
    <2>1. n + 1 \in 1 .. Len(queue) /\ pipeline[n + 1] = queue[n + 1]
      BY <1>1, <1>2
    <2>. QED
      BY <1>1, <1>2, <2>1, MappedWrites
  <1>. QED
    BY <1>1, <1>4, <1>5 DEF Delivery!Apply

LEMMA ServerRefusesRefuses ==
  ASSUME Inv, ServerRefuses
  PROVE  Delivery!Refuse
  <1>1. /\ toServer # <<>> /\ Head(toServer) \in Refusable
        /\ Server(<<>>, <<>>, "refused")
    BY Zenon DEF ServerRefuses
  <1>2. /\ ended = "no" /\ ended' = "refused"
        /\ fromServer' = fromServer \o <<>> /\ log' = log \o <<>>
        /\ UNCHANGED <<queue, handshake>>
    BY <1>1, Zenon DEF Server, disk, streamVars
  <1>3. log' = log /\ fromServer' = fromServer
    <2>1. log \in Seq(Entries) /\ fromServer \in Seq(Nat)
      BY HeldTypes
    <2>. HIDE DEF Entries
    <2>. QED
      BY <1>2, <2>1
  <1>4. handshake /\ Len(fromServer) < Len(queue)
    <2>1. Head(toServer) # Hello
      BY <1>1 DEF Hello
    <2>2. handshake /\ Read = Len(fromServer) /\ Read + 1 \in 1 .. Len(pipeline)
      BY <1>1, <1>2, <2>1, NextRequest
    <2>. QED
      BY <2>2, HeldTypes
  <1>. QED
    BY <1>2, <1>3, <1>4, MappedWrites DEF Delivery!Refuse

LEMMA MutationResultAcknowledges ==
  ASSUME Inv, MutationResult
  PROVE  Delivery!Acknowledge
  <1>1. /\ handshake /\ Len(fromServer) >= 1 /\ Len(queue) >= 1
        /\ Len(queue') = Len(queue) - 1 /\ queue' = Tail(queue)
        /\ \A i \in 1 .. Len(queue) - 1 : queue'[i] = queue[i + 1]
        /\ Len(fromServer') = Len(fromServer) - 1
        /\ UNCHANGED <<log, handshake, ended>>
    BY MutationResultFacts
  <1>2. queue \in Seq(Batches) /\ queue' \in Seq(Batches) /\ Len(fromServer) \in Nat
    BY <1>1, HeldTypes
  <1>3. \A b \in Batches : b.w \in Writes
    BY DEF Batches
  <1>4. WritesIn(queue') = Tail(WritesIn(queue))
    BY <1>1, <1>2, <1>3, WritesInTail
  <1>. QED
    BY <1>1, <1>2, <1>4 DEF Delivery!Acknowledge

(* What ends a call is a break, or the rejection of the first write.        *)
LEMMA CloseRejectsOrBreaks ==
  ASSUME Inv, NEW permanent \in BOOLEAN, CloseOnError(permanent),
         permanent => ended = "refused"
  PROVE  Delivery!Reject \/ Delivery!Break
  <1>1. /\ ~handshake' /\ ended' = "no" /\ UNCHANGED log
        /\ \/ UNCHANGED queue
           \/ /\ ended = "refused" /\ queue' = Tail(queue)
              /\ Len(queue) >= 1 /\ Len(queue') = Len(queue) - 1
              /\ \A i \in 1 .. Len(queue) - 1 : queue'[i] = queue[i + 1]
    BY CloseFacts
  <1>2. CASE UNCHANGED queue
    BY <1>1, <1>2 DEF Delivery!Break
  <1>3. CASE /\ ended = "refused" /\ queue' = Tail(queue)
             /\ Len(queue) >= 1 /\ Len(queue') = Len(queue) - 1
             /\ \A i \in 1 .. Len(queue) - 1 : queue'[i] = queue[i + 1]
    <2>1. queue \in Seq(Batches) /\ queue' \in Seq(Batches)
      <3>1. queue \in Seq(Batches)
        BY HeldTypes
      <3>. QED
        BY <1>3, <3>1
    <2>2. \A b \in Batches : b.w \in Writes
      BY DEF Batches
    <2>3. WritesIn(queue') = Tail(WritesIn(queue))
      BY <1>3, <2>1, <2>2, WritesInTail
    <2>. QED
      BY <1>1, <1>3, <2>3 DEF Delivery!Reject
  <1>. QED
    BY <1>1, <1>2, <1>3

LEMMA OtherWriteApplies ==
  ASSUME Inv, NEW d \in Docs, OtherWrite(d)
  PROVE  Delivery!OtherApplies
  <1>1. /\ log' \in Seq(Entries) /\ Len(log') = Len(log) + 1
        /\ \A i \in 1 .. Len(log) : log'[i] = log[i]
        /\ log'[Len(log) + 1].w = 0
        /\ UNCHANGED <<queue, handshake, fromServer, ended>>
    BY OtherWriteFacts
  <1>2. log \in Seq(Entries)
    BY HeldTypes
  <1>3. \A e \in Entries : e.w \in 0 .. LastWrite
    BY DEF Entries
  <1>4. WritesIn(log') = Append(WritesIn(log), 0)
    <2>. HIDE DEF Entries
    <2>. QED
      BY <1>1, <1>2, <1>3, WritesInAppended
  <1>. QED
    BY <1>1, <1>4 DEF Delivery!OtherApplies

LEMMA InitImplementsDelivery == Init => Delivery!Init
  BY DEF Init, Delivery!Init, WritesIn

LEMMA NextImplementsDelivery ==
  ASSUME FullInv, [Next]_vars
  PROVE  [Delivery!Next]_(Delivery!deliveryVars)
  <1>0. Inv
    BY DEF FullInv
  <1>1. CASE User
    BY <1>1, UserWriteIssues DEF User, Delivery!Next
  <1>2. CASE ServerApplies
    BY <1>0, <1>2, ServerAppliesApplies DEF Delivery!Next
  <1>3. CASE ServerRefuses
    BY <1>0, <1>3, ServerRefusesRefuses DEF Delivery!Next
  <1>4. CASE MutationResult
    BY <1>0, <1>4, MutationResultAcknowledges DEF Delivery!Next
  <1>5. CASE StreamEnds \/ ConnectivityChange
    <2>1. PICK permanent \in BOOLEAN :
            CloseOnError(permanent) /\ (permanent => ended = "refused")
      BY <1>5 DEF StreamEnds, ConnectivityChange
    <2>. QED
      BY <1>0, <2>1, CloseRejectsOrBreaks DEF Delivery!Next
  <1>6. CASE \E d \in Docs : OtherWrite(d)
    BY <1>0, <1>6, OtherWriteApplies DEF Delivery!Next
  <1>7. CASE TokenFails \/ IdleTimeout \/ DisableNetwork \/ Relaunch
    <2>1. Broken
      BY <1>0, <1>7, BrokenSteps, Zenon
    <2>. QED
      BY <2>1 DEF Broken, Delivery!Break, Delivery!Next
  <1>8. CASE \/ Token \/ BackoffElapsed \/ HandshakeComplete \/ EnableNetwork
             \/ \E n \in 1 .. Len(log) : WatchSnapshot(n)
             \/ ServerHandshake \/ CallFails \/ UNCHANGED vars
    <2>1. Quiet
      BY <1>0, <1>8, QuietSteps, Zenon
    <2>2. UNCHANGED Delivery!deliveryVars
      BY <2>1 DEF Quiet, Delivery!deliveryVars
    <2>. QED
      BY <2>2
  <1>. QED
    BY <1>1, <1>2, <1>3, <1>4, <1>5, <1>6, <1>7, <1>8, Zenon
    DEF Next, Response, ServerReads

(* The client keeps the promise of WriteDelivery. *)
THEOREM ImplementsDelivery == Spec => DeliverySpec
  <1>1. ASSUME FullInv, [Next]_vars
        PROVE  [Delivery!Next]_(Delivery!deliveryVars)
    BY <1>1, NextImplementsDelivery
  <1>. QED
    BY <1>1, FullInvariance, InitImplementsDelivery, PTL
    DEF Spec, DeliverySpec, Delivery!Spec


-----------------------------------------------------------------------------
(* What is told is told once. *)

(* A completion that waits is one of a batch held, whose write is pending.  *)
CallbacksInv ==
  \A b \in callbacks :
    /\ outcome[b.w] = "pending"
    /\ \E i \in 1 .. Len(queue) : queue[i] = b

(* The first batch held is completed, with the result r if anybody waits.   *)
Completes(r) ==
  /\ Len(queue) >= 1 /\ Len(queue') = Len(queue) - 1
  /\ \A i \in 1 .. Len(queue) - 1 : queue'[i] = queue[i + 1]
  /\ callbacks' = callbacks \ {queue[1]}
  /\ outcome' = IF queue[1] \in callbacks THEN [outcome EXCEPT ![queue[1].w] = r]
                ELSE outcome

LEMMA CompletionSteps ==
  ASSUME Inv, MutationResult \/ \E permanent \in BOOLEAN : CloseOnError(permanent)
  PROVE  UNCHANGED <<queue, callbacks, outcome>> \/ Completes("ok") \/ Completes("error")
  <1>1. ASSUME pipeline # <<>>, queue' = Without(Head(pipeline), queue)
        PROVE  /\ Head(pipeline) = queue[1]
               /\ Len(queue) >= 1 /\ Len(queue') = Len(queue) - 1
               /\ \A i \in 1 .. Len(queue) - 1 : queue'[i] = queue[i + 1]
    <2>1. /\ queue \in Seq(Batches) /\ pipeline \in Seq(Batches)
          /\ Len(queue) \in Nat /\ Len(pipeline) \in Nat /\ Len(pipeline) <= Len(queue)
          /\ \A i \in 1 .. Len(pipeline) : pipeline[i] = queue[i]
      BY HeldTypes
    <2>2. Len(pipeline) >= 1 /\ Head(pipeline) = pipeline[1]
      BY <1>1, <2>1
    <2>3. Len(queue) >= 1 /\ Head(pipeline) = queue[1]
      BY <2>1, <2>2
    <2>4. queue' = Tail(queue)
      BY <1>1, FrontGoes, Zenon
    <2>5. /\ Len(queue') = Len(queue) - 1
          /\ \A i \in 1 .. Len(queue) - 1 : queue'[i] = queue[i + 1]
      BY <2>1, <2>3, <2>4
    <2>. QED
      BY <2>3, <2>5
  <1>2. CASE MutationResult
    <2>1. /\ queue' = Without(Head(pipeline), queue)
          /\ callbacks' = callbacks \ {Head(pipeline)}
          /\ outcome' = IF Head(pipeline) \in callbacks
                        THEN [outcome EXCEPT ![Head(pipeline).w] = "ok"] ELSE outcome
      BY <1>2, Zenon DEF MutationResult
    <2>2. pipeline # <<>>
      BY <1>2, MutationResultFacts
    <2>. QED
      BY <1>1, <2>1, <2>2 DEF Completes
  <1>3. ASSUME NEW permanent \in BOOLEAN, CloseOnError(permanent)
        PROVE  UNCHANGED <<queue, callbacks, outcome>> \/ Completes("error")
    <2>1. CASE permanent /\ handshake /\ pipeline # <<>>
      <3>1. RejectFront
        BY <1>3, <2>1, Zenon DEF CloseOnError
      <3>2. /\ queue' = Without(Head(pipeline), queue)
            /\ callbacks' = callbacks \ {Head(pipeline)}
            /\ outcome' = IF Head(pipeline) \in callbacks
                          THEN [outcome EXCEPT ![Head(pipeline).w] = "error"] ELSE outcome
        BY <3>1, Zenon DEF RejectFront
      <3>. QED
        BY <1>1, <2>1, <3>2 DEF Completes
    <2>2. CASE ~(permanent /\ handshake /\ pipeline # <<>>)
      BY <1>3, <2>2, Zenon DEF CloseOnError
    <2>. QED
      BY <2>1, <2>2
  <1>. QED
    BY <1>2, <1>3

(* All other steps but a new write and a restart complete nothing.          *)
LEMMA NothingCompleted ==
  ASSUME [Next]_vars, ~User, ~MutationResult, ~StreamEnds, ~ConnectivityChange, ~Relaunch
  PROVE  UNCHANGED <<queue, callbacks, outcome>>
  <1>1. CASE Token \/ TokenFails \/ BackoffElapsed \/ HandshakeComplete
    BY <1>1, Zenon
       DEF Token, TokenArrives, TokenFails, BackoffElapsed, HandshakeComplete, disk
  <1>2. CASE IdleTimeout \/ DisableNetwork \/ EnableNetwork
    BY <1>2, Zenon DEF IdleTimeout, DisableNetwork, EnableNetwork, disk
  <1>3. CASE ServerReads \/ CallFails
    BY <1>3, Zenon DEF ServerReads, ServerHandshake, ServerApplies, ServerRefuses,
                       Server, CallFails, disk
  <1>4. CASE \/ \E n \in 1 .. Len(log) : WatchSnapshot(n)
             \/ \E d \in Docs : OtherWrite(d)
    BY <1>4, Zenon DEF WatchSnapshot, OtherWrite, disk
  <1>5. CASE UNCHANGED vars
    BY <1>5, Zenon DEF vars, disk
  <1>. QED
    BY <1>1, <1>2, <1>3, <1>4, <1>5, Zenon DEF Next, Response

(* An end of a call closes the stream with an error. *)
LEMMA EndsClose ==
  StreamEnds \/ ConnectivityChange => \E permanent \in BOOLEAN : CloseOnError(permanent)
  BY DEF StreamEnds, ConnectivityChange

(* One completion leaves the others, whose batches are later ones.          *)
LEMMA CallbacksAfterCompletion ==
  ASSUME Inv, OrderInv, CallbacksInv, NEW r, Completes(r)
  PROVE  CallbacksInv'
  <1>1. /\ Len(queue) \in Nat /\ outcome \in [Writes -> Outcomes]
        /\ \A i \in 1 .. Len(queue) : queue[i].w \in Writes
    BY HeldTypes
  <1>2. ASSUME NEW b \in callbacks'
        PROVE  /\ outcome'[b.w] = "pending"
               /\ \E i \in 1 .. Len(queue') : queue'[i] = b
    <2>1. b \in callbacks /\ b # queue[1]
      BY <1>2 DEF Completes
    <2>2. outcome[b.w] = "pending"
      BY <2>1 DEF CallbacksInv
    <2>3. PICK i \in 1 .. Len(queue) : queue[i] = b
      BY <2>1 DEF CallbacksInv
    <2>4. i \in Nat /\ 1 < i /\ 1 \in 1 .. Len(queue)
      BY <1>1, <2>1, <2>3
    <2>5. queue[1].w < b.w /\ b.w \in Writes /\ queue[1].w \in Writes
      BY <1>1, <2>3, <2>4 DEF OrderInv
    <2>6. outcome'[b.w] = outcome[b.w]
      BY <1>1, <2>5 DEF Completes
    <2>7. i - 1 \in 1 .. Len(queue) - 1 /\ (i - 1) + 1 = i
      BY <1>1, <2>3, <2>4
    <2>8. i - 1 \in 1 .. Len(queue') /\ queue'[i - 1] = b
      BY <2>3, <2>7 DEF Completes
    <2>. QED
      BY <2>2, <2>6, <2>8
  <1>. QED
    BY <1>2 DEF CallbacksInv

LEMMA CallbacksAfterWrite ==
  ASSUME FullInv, CallbacksInv, NEW w \in Writes, UserWrite(w)
  PROVE  CallbacksInv'
  <1> DEFINE b == [id |-> nextId, w |-> w]
  <1>1. queue' = Append(queue, b) /\ callbacks' = callbacks \cup {b}
    BY Zenon DEF UserWrite
  <1>2. /\ Len(queue') = Len(queue) + 1
        /\ \A i \in 1 .. Len(queue) : queue'[i] = queue[i]
        /\ outcome[w] = "none" /\ outcome' = [outcome EXCEPT ![w] = "pending"]
    BY UserWriteFacts
  <1>3. /\ Len(queue) \in Nat /\ queue \in Seq(Batches)
        /\ outcome \in [Writes -> Outcomes]
        /\ \A i \in 1 .. Len(queue) : queue[i].w \in Writes
    BY HeldTypes DEF FullInv
  <1>4. b.w = w
    OBVIOUS
  <1>. HIDE DEF b
  <1>5. queue'[Len(queue) + 1] = b
    BY <1>1, <1>3
  <1>6. ASSUME NEW c \in callbacks'
        PROVE  /\ outcome'[c.w] = "pending"
               /\ \E i \in 1 .. Len(queue') : queue'[i] = c
    <2>1. CASE c = b
      <3>1. Len(queue) + 1 \in 1 .. Len(queue')
        BY <1>2, <1>3
      <3>. QED
        BY <1>2, <1>3, <1>4, <1>5, <2>1, <3>1
    <2>2. CASE c \in callbacks
      <3>1. outcome[c.w] = "pending"
        BY <2>2 DEF CallbacksInv
      <3>2. PICK i \in 1 .. Len(queue) : queue[i] = c
        BY <2>2 DEF CallbacksInv
      <3>3. i \in 1 .. Len(queue') /\ queue'[i] = c /\ c.w \in Writes
        BY <1>2, <1>3, <3>2
      <3>4. outcome'[c.w] = "pending"
        BY <1>2, <1>3, <3>1, <3>3
      <3>. QED
        BY <3>3, <3>4
    <2>. QED
      BY <1>1, <1>6, <2>1, <2>2
  <1>. QED
    BY <1>6 DEF CallbacksInv

LEMMA CallbacksNext == FullInv /\ CallbacksInv /\ [Next]_vars => CallbacksInv'
  <1>. SUFFICES ASSUME FullInv, CallbacksInv, [Next]_vars  PROVE CallbacksInv'
    OBVIOUS
  <1>1. Inv /\ OrderInv
    BY DEF FullInv
  <1>2. CASE User
    BY <1>2, CallbacksAfterWrite DEF User
  <1>3. CASE MutationResult \/ StreamEnds \/ ConnectivityChange
    <2>1. UNCHANGED <<queue, callbacks, outcome>> \/ Completes("ok") \/ Completes("error")
      BY <1>1, <1>3, CompletionSteps, EndsClose
    <2>2. CASE UNCHANGED <<queue, callbacks, outcome>>
      BY <2>2 DEF CallbacksInv
    <2>. QED
      BY <1>1, <2>1, <2>2, CallbacksAfterCompletion
  <1>4. CASE Relaunch
    <2>1. callbacks' = {}
      BY <1>4, Zenon DEF Relaunch
    <2>. QED
      BY <2>1 DEF CallbacksInv
  <1>5. CASE UNCHANGED <<queue, callbacks, outcome>>
    BY <1>5 DEF CallbacksInv
  <1>. QED
    BY <1>2, <1>3, <1>4, <1>5, NothingCompleted, Zenon

(* A completion that has run, or is lost, has nobody left to be told.       *)
LEMMA OutcomesStay ==
  ASSUME FullInv, CallbacksInv, [Next]_vars, NEW w \in Writes,
         outcome[w] \notin {"none", "pending"}
  PROVE  outcome'[w] = outcome[w]
  <1>1. Inv /\ OrderInv /\ outcome \in [Writes -> Outcomes]
    BY HeldTypes DEF FullInv
  <1>2. CASE User
    <2>1. PICK v \in Writes : UserWrite(v)
      BY <1>2 DEF User
    <2>2. outcome[v] = "none" /\ outcome' = [outcome EXCEPT ![v] = "pending"]
      BY <2>1, UserWriteFacts
    <2>. QED
      BY <1>1, <2>2
  <1>3. CASE MutationResult \/ StreamEnds \/ ConnectivityChange
    <2>1. UNCHANGED <<queue, callbacks, outcome>> \/ Completes("ok") \/ Completes("error")
      BY <1>1, <1>3, CompletionSteps, EndsClose
    <2>2. ASSUME NEW r, Completes(r)  PROVE outcome'[w] = outcome[w]
      <3>1. CASE queue[1] \in callbacks
        <4>1. outcome[queue[1].w] = "pending"
          BY <3>1 DEF CallbacksInv
        <4>. QED
          BY <1>1, <2>2, <4>1 DEF Completes
      <3>2. CASE queue[1] \notin callbacks
        BY <2>2, <3>2 DEF Completes
      <3>. QED
        BY <3>1, <3>2
    <2>. QED
      BY <2>1, <2>2
  <1>4. CASE Relaunch
    <2>1. outcome' = [v \in Writes |-> IF outcome[v] = "pending" THEN "lost"
                                      ELSE outcome[v]]
      BY <1>4, Zenon DEF Relaunch
    <2>. QED
      BY <2>1
  <1>5. CASE UNCHANGED <<queue, callbacks, outcome>>
    BY <1>5
  <1>. QED
    BY <1>2, <1>3, <1>4, <1>5, NothingCompleted, Zenon

(* A write acknowledged is earlier than all that can still be acknowledged. *)
LEMMA AckedStays ==
  ASSUME FullInv, [Next]_vars, NEW w \in Writes, acked[w] # 0
  PROVE  acked'[w] = acked[w]
  <1>1. Inv /\ acked \in [Writes -> Nat]
    BY HeldTypes DEF FullInv
  <1>2. CASE MutationResult
    <2>1. Len(queue) >= 1 /\ acked' = [acked EXCEPT ![queue[1].w] = fromServer[1]]
      BY <1>1, <1>2, MutationResultFacts
    <2>2. Len(queue) \in Nat /\ \A i \in 1 .. Len(queue) : queue[i].w \in Writes
      BY <1>1, HeldTypes
    <2>3. 1 \in 1 .. Len(queue)
      BY <2>1, <2>2
    <2>4. w < queue[1].w
      BY <2>3 DEF FullInv, DeliveredInv
    <2>. QED
      BY <1>1, <2>1, <2>2, <2>3, <2>4
  <1>3. CASE ~MutationResult
    <2>1. ASSUME NEW permanent \in BOOLEAN, CloseOnError(permanent)  PROVE UNCHANGED acked
      BY <2>1, Zenon DEF CloseOnError
    <2>2. UNCHANGED acked
      BY <1>3, <2>1, EndsClose, Zenon
         DEF Next, User, UserWrite, Token, TokenArrives, TokenFails, BackoffElapsed,
             Response, HandshakeComplete, IdleTimeout, DisableNetwork, EnableNetwork,
             Relaunch, WatchSnapshot, ServerReads, ServerHandshake, ServerApplies,
             ServerRefuses, Server, CallFails, OtherWrite, vars
    <2>. QED
      BY <2>2
  <1>. QED
    BY <1>2, <1>3

(* What the device has been told of a write stands: no completion runs      *)
(* twice or is taken back, and no write is acknowledged twice, although it  *)
(* may be sent again after every break.                                     *)
THEOREM EverythingIsToldOnce == Spec => ToldOnce
  <1>1. Init => CallbacksInv
    BY DEF Init, CallbacksInv
  <1>2. ASSUME FullInv, CallbacksInv, [Next]_vars
        PROVE  [\A w \in Writes :
                  /\ outcome[w] \notin {"none", "pending"} => outcome'[w] = outcome[w]
                  /\ acked[w] # 0 => acked'[w] = acked[w]]_vars
    BY <1>2, OutcomesStay, AckedStays
  <1>. QED
    BY FullInvariance, CallbacksNext, <1>1, <1>2, PTL DEF Spec, ToldOnce

-----------------------------------------------------------------------------
(* The cache of documents. *)

LEMMA CacheAfterSnapshot ==
  ASSUME Inv, NEW n \in 1 .. Len(log), WatchSnapshot(n), NEW d \in Docs
  PROVE  \/ cache'[d] = cache[d]
         \/ cache'[d].ver # 0 /\ cache[d].ver <= cache'[d].ver
  <1> DEFINE v == VersionAt(d, n)
             known == v > snapshot
                        /\ (v > cache[d].ver \/ (v = cache[d].ver /\ cache[d].committed))
  <1>1. Len(log) \in Nat /\ snapshot \in Nat /\ cache[d].ver \in Nat
    <2>1. cache \in [Docs -> Contents] /\ snapshot \in 0 .. Len(log)
      BY DEF Inv, TypeOK
    <2>2. Len(log) \in Nat
      BY HeldTypes
    <2>3. cache[d].ver \in Nat
      BY <2>1 DEF Contents
    <2>4. snapshot \in Nat
      BY <2>1, <2>2
    <2>. QED
      BY <2>2, <2>3, <2>4
  <1>2. v \in Nat
    BY <1>1, VersionAtIsOfDoc
  <1>3. cache'[d] = IF known THEN [ver |-> v, w |-> log[v].w, committed |-> FALSE]
                    ELSE cache[d]
    BY Zenon DEF WatchSnapshot, Watched
  <1>4. known => v # 0 /\ cache[d].ver <= v
    <2>. HIDE DEF v
    <2>. QED
      BY <1>1, <1>2
  <1>. HIDE DEF v, known
  <1>5. CASE known
    BY <1>3, <1>4, <1>5
  <1>. QED
    BY <1>3, <1>5

LEMMA CacheAfterResult ==
  ASSUME Inv, MutationResult, NEW d \in Docs
  PROVE  \/ cache'[d] = cache[d]
         \/ cache'[d].ver # 0 /\ cache[d].ver <= cache'[d].ver
  <1>1. cache' = Acknowledged(Head(pipeline), Head(fromServer))
    BY Zenon DEF MutationResult
  <1> DEFINE e == DocOf[Head(pipeline).w]
             new == [ver |-> Head(fromServer), w |-> Head(pipeline).w, committed |-> TRUE]
  <1>2. cache' = IF cache[e].ver < Head(fromServer) THEN [cache EXCEPT ![e] = new]
                 ELSE cache
    BY <1>1, Zenon DEF Acknowledged
  <1>3. /\ cache \in [Docs -> Contents] /\ cache[d].ver \in Nat
        /\ Head(fromServer) \in Nat
    <2>1. /\ cache \in [Docs -> Contents] /\ cache[d].ver \in Nat
          /\ fromServer \in Seq(Nat)
      BY DEF Inv, TypeOK, Contents
    <2>2. Head(fromServer) \in Nat
      <3>1. fromServer # <<>>
        BY MutationResultFacts, HeldTypes
      <3>. QED
        BY <2>1, <3>1
    <2>. QED
      BY <2>1, <2>2
  <1>4. new.ver = Head(fromServer)
    OBVIOUS
  <1>. HIDE DEF e, new
  <1>5. CASE cache[e].ver < Head(fromServer) /\ d = e
    <2>1. cache'[d] = new
      BY <1>2, <1>3, <1>5
    <2>. QED
      BY <1>3, <1>4, <1>5, <2>1
  <1>6. CASE ~(cache[e].ver < Head(fromServer) /\ d = e)
    BY <1>2, <1>3, <1>6
  <1>. QED
    BY <1>5, <1>6

LEMMA CacheStays ==
  ASSUME [Next]_vars, ~MutationResult, ~\E n \in 1 .. Len(log) : WatchSnapshot(n)
  PROVE  UNCHANGED cache
  <1>1. ASSUME NEW permanent \in BOOLEAN, CloseOnError(permanent)  PROVE UNCHANGED cache
    BY <1>1, Zenon DEF CloseOnError
  <1>. QED
    BY <1>1, EndsClose, Zenon
       DEF Next, User, UserWrite, Token, TokenArrives, TokenFails, BackoffElapsed,
           Response, HandshakeComplete, IdleTimeout, DisableNetwork, EnableNetwork,
           Relaunch, ServerReads, ServerHandshake, ServerApplies, ServerRefuses,
           Server, CallFails, OtherWrite, vars, disk

(* A version is said of one write only, since both ways to learn of it say  *)
(* what the log has there.                                                  *)
LEMMA CacheMoves ==
  ASSUME Inv, Inv', [Next]_vars, NEW d \in Docs
  PROVE  /\ cache[d].ver <= cache'[d].ver
         /\ cache'[d].ver = cache[d].ver => cache'[d].w = cache[d].w
  <1>1. cache[d].ver \in Nat
    BY DEF Inv, TypeOK, Contents
  <1>2. CASE cache'[d] = cache[d]
    BY <1>1, <1>2
  <1>3. CASE cache'[d] # cache[d]
    <2>1. MutationResult \/ \E n \in 1 .. Len(log) : WatchSnapshot(n)
      BY <1>3, CacheStays, Zenon
    <2>2. cache'[d].ver # 0 /\ cache[d].ver <= cache'[d].ver
      BY <1>3, <2>1, CacheAfterResult, CacheAfterSnapshot, Zenon
    <2>3. log' = log
      BY <2>1, Zenon DEF MutationResult, WatchSnapshot
    <2>4. log[cache'[d].ver] = [doc |-> d, w |-> cache'[d].w]
      BY <2>2, <2>3 DEF Inv, KnowledgeInv, CacheIsServers
    <2>5. cache[d].ver # 0 => log[cache[d].ver] = [doc |-> d, w |-> cache[d].w]
      BY DEF Inv, KnowledgeInv, CacheIsServers
    <2>6. ASSUME cache'[d].ver = cache[d].ver  PROVE cache'[d].w = cache[d].w
      <3>1. [doc |-> d, w |-> cache'[d].w] = [doc |-> d, w |-> cache[d].w]
        BY <2>2, <2>4, <2>5, <2>6
      <3>. QED
        BY <3>1
    <2>. QED
      BY <2>2, <2>6
  <1>. QED
    BY <1>2, <1>3

(* Acknowledgements and watch snapshots, in whatever order they come, only  *)
(* move a document forward, and agree on what a version says.               *)
THEOREM CacheOnlyMovesForward == Spec => CacheMovesForward
  <1>1. ASSUME Inv, Inv', [Next]_vars
        PROVE  [\A d \in Docs :
                  /\ cache[d].ver <= cache'[d].ver
                  /\ cache'[d].ver = cache[d].ver => cache'[d].w = cache[d].w]_vars
    BY <1>1, CacheMoves
  <1>. QED
    BY InitInv, NextInv, <1>1, PTL DEF Spec, CacheMovesForward
=============================================================================
