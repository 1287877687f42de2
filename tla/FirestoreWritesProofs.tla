----------------------- MODULE FirestoreWritesProofs -----------------------
(***************************************************************************)
(* Theorems of FirestoreWrites, for every number of writes, every set of   *)
(* documents and every value of the bounds.                                *)
(***************************************************************************)
EXTENDS FirestoreWrites, SequenceTheorems, WellFoundedInduction, TLAPS

USE WritesAssumption DEF Writes

-----------------------------------------------------------------------------
(* The inductive invariant. *)

(* Identifiers rise along the queue q. *)
Rising(q) == \A i, j \in 1 .. Len(q) : i < j => q[i].id < q[j].id

(* The pipeline p is the head of the queue q. *)
IsHead(p, q) == Len(p) <= Len(q) /\ \A i \in 1 .. Len(p) : p[i] = q[i]

QueueInv ==
  /\ IsHead(pipeline, queue)
  /\ Rising(queue)
  /\ \A i \in 1 .. Len(queue) : queue[i].id < nextId

(* The idle timer runs only past the handshake, where writing stops it; no  *)
(* token is asked for at a close count still to come; with the network      *)
(* switched off there is no stream and nothing to send.                     *)
StreamInv ==
  /\ idle => handshake /\ pipeline = <<>>
  /\ handshake => stream = "Open"
  /\ \A n \in tokens : n <= closes
  /\ closes \in tokens <=> stream = "Starting"
  /\ ~network => stream \in {"Initial", "Error"} /\ pipeline = <<>>

(* How far into the pipeline the server has read. *)
Read == IF ended = "refused" THEN Len(fromServer) + 1 ELSE Len(fromServer)

EntryOf(w) == [doc |-> DocOf[w], w |-> w]

(* The requests t are for the batches of the pipeline p after the first r.  *)
Placed(t, p, r) ==
  /\ r + Len(t) = Len(p)
  /\ \A i \in 1 .. Len(t) : t[i] = p[r + i].w

(* The requests t have become t1 while the pipeline has gone from p to p1:  *)
(* both have grown by the same writes.                                      *)
Extended(t, t1, p, p1) ==
  /\ Len(p) <= Len(p1)
  /\ \A i \in 1 .. Len(p) : p1[i] = p[i]
  /\ Len(t1) + Len(p) = Len(t) + Len(p1)
  /\ \A i \in 1 .. Len(t) : t1[i] = t[i]
  /\ \A i \in 1 .. Len(p1) - Len(p) : t1[Len(t) + i] = p1[Len(p) + i].w

(* Past the handshake, responses, a refused request and the requests not    *)
(* read yet make up the pipeline.                                           *)
InPlace ==
  /\ Placed(toServer, pipeline, Read)
  /\ \A i \in 1 .. Len(fromServer) :
       fromServer[i] \in 1 .. Len(log) /\ log[fromServer[i]] = EntryOf(pipeline[i].w)

(* Before it there is the hello, or its answer, or nothing. *)
Greeting ==
  /\ Len(toServer) + Len(fromServer) <= 1
  /\ \A i \in 1 .. Len(toServer) : toServer[i] = Hello
  /\ \A i \in 1 .. Len(fromServer) : fromServer[i] = Hello
  /\ ended # "refused"

CallInv ==
  /\ stream # "Open" => toServer = <<>> /\ fromServer = <<>> /\ ended = "no"
  /\ handshake => InPlace
  /\ ~handshake => Greeting

(* What the device has been told is what the server has done. *)
KnowledgeInv ==
  /\ CacheIsServers
  /\ OwnWritesSeen
  /\ OkIsApplied
  /\ \A w \in Writes : acked[w] # 0 => acked[w] \in 1 .. Len(log) /\ log[acked[w]].w = w

Inv == TypeOK /\ QueueInv /\ StreamInv /\ CallInv /\ KnowledgeInv

-----------------------------------------------------------------------------
(* The mutation queue and the pipeline. *)

(* What a batch is made of. *)
LEMMA BatchFields == \A b \in Batches : b.id \in Nat /\ b.w \in Writes
  BY DEF Batches

(* The rows after the last batch of the pipeline are the rest of the queue. *)
LEMMA AfterHead ==
  ASSUME NEW q \in Seq(Batches), NEW p \in Seq(Batches), Rising(q), IsHead(p, q)
  PROVE  After(LastId(p), q) = IF Len(p) < Len(q) THEN SubSeq(q, Len(p) + 1, Len(q))
                               ELSE <<>>
  <1> DEFINE later == {i \in 1 .. Len(q) : q[i].id > LastId(p)}
  <1>1. \A i \in 1 .. Len(q) : q[i].id \in Nat
    BY BatchFields
  <1>2. later = (Len(p) + 1) .. Len(q)
    <2>1. CASE p = <<>>
      BY <1>1, <2>1 DEF LastId
    <2>2. CASE p # <<>>
      <3>1. Len(p) \in 1 .. Len(q) /\ LastId(p) = q[Len(p)].id
        BY <2>2 DEF LastId, IsHead
      <3>2. ASSUME NEW i \in 1 .. Len(q)
            PROVE  q[i].id > LastId(p) <=> i > Len(p)
        BY <1>1, <3>1 DEF Rising
      <3>. QED
        BY <3>2
    <2>. QED
      BY <2>1, <2>2
  <1>3. CASE Len(p) < Len(q)
    <2>1. Len(p) + 1 \in later
      BY <1>2, <1>3
    <2>2. (CHOOSE i \in later : \A j \in later : i <= j) = Len(p) + 1
      BY <1>2, <2>1
    <2>3. After(LastId(p), q) =
            IF later = {} THEN <<>>
            ELSE SubSeq(q, CHOOSE i \in later : \A j \in later : i <= j, Len(q))
      BY Zenon DEF After
    <2>. HIDE DEF later
    <2>4. After(LastId(p), q) = SubSeq(q, Len(p) + 1, Len(q))
      BY <2>1, <2>2, <2>3
    <2>. QED
      BY <1>3, <2>4
  <1>4. CASE ~(Len(p) < Len(q))
    <2>1. later = {}
      BY <1>2, <1>4
    <2>. QED
      BY <1>4, <2>1 DEF After
  <1>. QED
    BY <1>3, <1>4

(* What FillWritePipeline adds continues the pipeline along the queue, up   *)
(* to its limit.                                                            *)
LEMMA AddedFills ==
  ASSUME NEW q \in Seq(Batches), NEW p \in Seq(Batches), Rising(q), IsHead(p, q),
         Len(p) <= MaxPending
  PROVE  /\ Added(q, p) \in Seq(Batches)
         /\ Len(p) + Len(Added(q, p)) <= Len(q)
         /\ Len(p) + Len(Added(q, p)) <= MaxPending
         /\ \A i \in 1 .. Len(Added(q, p)) : Added(q, p)[i] = q[Len(p) + i]
  <1> DEFINE rest == After(LastId(p), q)
             n == IF MaxPending - Len(p) < Len(rest) THEN MaxPending - Len(p) ELSE Len(rest)
  <1>1. /\ rest \in Seq(Batches)
        /\ Len(rest) = Len(q) - Len(p)
        /\ \A i \in 1 .. Len(rest) : rest[i] = q[Len(p) + i]
    <2>1. CASE Len(p) < Len(q)
      <3>1. rest = SubSeq(q, Len(p) + 1, Len(q))
        BY <2>1, AfterHead
      <3>2. /\ SubSeq(q, Len(p) + 1, Len(q)) \in Seq(Batches)
            /\ Len(SubSeq(q, Len(p) + 1, Len(q))) = Len(q) - Len(p)
            /\ \A i \in 1 .. Len(q) - Len(p) :
                 SubSeq(q, Len(p) + 1, Len(q))[i] = q[Len(p) + i]
        BY <2>1
      <3>. HIDE DEF rest
      <3>. QED
        BY <3>1, <3>2
    <2>2. CASE ~(Len(p) < Len(q))
      <3>1. rest = <<>>
        BY <2>2, AfterHead
      <3>. HIDE DEF rest
      <3>. QED
        BY <2>2, <3>1 DEF IsHead
    <2>. QED
      BY <2>1, <2>2
  <1>2. Added(q, p) = SubSeq(rest, 1, n)
    BY DEF Added, Take
  <1>3. n \in 0 .. Len(rest) /\ n <= MaxPending - Len(p)
    BY <1>1 DEF IsHead
  <1>. HIDE DEF rest, n
  <1>4. /\ SubSeq(rest, 1, n) \in Seq(Batches)
        /\ Len(SubSeq(rest, 1, n)) = n
        /\ \A i \in 1 .. n : SubSeq(rest, 1, n)[i] = rest[i]
    BY <1>1, <1>3
  <1>. QED
    BY <1>1, <1>2, <1>3, <1>4 DEF IsHead

(* The queue loses its first row when the first batch is removed. *)
LEMMA WithoutFirst ==
  ASSUME NEW q \in Seq(Batches), q # <<>>, Rising(q)
  PROVE  Without(Head(q), q) = Tail(q)
  <1>1. \A i \in 1 .. Len(q) : q[i].id \in Nat
    BY BatchFields
  <1>2. Head(q) = q[1] /\ 1 \in 1 .. Len(q)
    OBVIOUS
  <1>3. (CHOOSE j \in 1 .. Len(q) : q[j].id = Head(q).id) = 1
    BY <1>1, <1>2 DEF Rising
  <1>4. Without(Head(q), q) = SubSeq(q, 1, 1 - 1) \o SubSeq(q, 1 + 1, Len(q))
    BY <1>3, Zenon DEF Without
  <1>5. SubSeq(q, 1, 1 - 1) = <<>> /\ SubSeq(q, 1 + 1, Len(q)) = Tail(q)
    OBVIOUS
  <1>. QED
    BY <1>4, <1>5

(* The tails of a queue and of its head. *)
LEMMA TailKeepsHead ==
  ASSUME NEW q \in Seq(Batches), NEW p \in Seq(Batches), p # <<>>, IsHead(p, q),
         Rising(q)
  PROVE  /\ q # <<>> /\ Head(q) = Head(p) /\ Head(p) \in Batches
         /\ Tail(p) \in Seq(Batches) /\ Tail(q) \in Seq(Batches)
         /\ Len(Tail(p)) = Len(p) - 1 /\ Len(Tail(q)) = Len(q) - 1
         /\ \A i \in 1 .. Len(q) - 1 : Tail(q)[i] = q[i + 1]
         /\ \A i \in 1 .. Len(p) - 1 : Tail(p)[i] = p[i + 1]
         /\ IsHead(Tail(p), Tail(q)) /\ Rising(Tail(q))
  BY DEF IsHead, Rising

(* The requests that carry batches. *)
LEMMA WritesInFields ==
  ASSUME NEW s \in Seq(Batches)
  PROVE  /\ WritesIn(s) \in Seq(Requests)
         /\ Len(WritesIn(s)) = Len(s)
         /\ \A i \in 1 .. Len(s) : WritesIn(s)[i] = s[i].w
  BY BatchFields DEF WritesIn, Requests

(* What FillWritePipeline does, element by element. *)
LEMMA FillWrites ==
  ASSUME NEW q \in Seq(Batches), NEW p \in Seq(Batches), Rising(q), IsHead(p, q),
         Len(p) <= MaxPending, TypeOK, idle => p = <<>>, Fill(q, p)
  PROVE  /\ pipeline' \in Seq(Batches)
         /\ Len(p) <= Len(pipeline') /\ Len(pipeline') <= MaxPending
         /\ IsHead(pipeline', q)
         /\ \A i \in 1 .. Len(p) : pipeline'[i] = p[i]
         /\ ~network => pipeline' = p
         /\ ~(stream = "Open" /\ handshake) => toServer' = toServer /\ idle' = idle
         /\ stream = "Open" /\ handshake =>
              /\ idle' \in BOOLEAN /\ (idle' => pipeline' = <<>>)
              /\ toServer' \in Seq(Requests)
              /\ Extended(toServer, toServer', p, pipeline')
  <1> DEFINE added == IF network THEN Added(q, p) ELSE <<>>
  <1>1. /\ added \in Seq(Batches)
        /\ Len(p) + Len(added) <= Len(q)
        /\ Len(p) + Len(added) <= MaxPending
        /\ \A i \in 1 .. Len(added) : added[i] = q[Len(p) + i]
    <2>1. CASE network
      <3>1. added = Added(q, p)
        BY <2>1
      <3>. HIDE DEF added
      <3>. QED
        BY <3>1, AddedFills
    <2>2. CASE ~network
      <3>1. added = <<>>
        BY <2>2
      <3>. HIDE DEF added
      <3>. QED
        BY <3>1 DEF IsHead
    <2>. QED
      BY <2>1, <2>2
  <1>2. /\ pipeline' = p \o added
        /\ ~(stream = "Open" /\ handshake) => toServer' = toServer /\ idle' = idle
        /\ stream = "Open" /\ handshake =>
             /\ toServer' = toServer \o WritesIn(added)
             /\ idle' = (p \o added = <<>> \/ (idle /\ added = <<>>))
        /\ ~network => added = <<>>
    BY Zenon DEF Fill
  <1>. HIDE DEF added
  <1>3. /\ pipeline' \in Seq(Batches)
        /\ Len(pipeline') = Len(p) + Len(added)
        /\ \A i \in 1 .. Len(p) : pipeline'[i] = p[i]
        /\ \A i \in 1 .. Len(added) : pipeline'[Len(p) + i] = added[i]
    BY <1>1, <1>2
  <1>4. IsHead(pipeline', q)
    <2>1. ASSUME NEW i \in 1 .. Len(pipeline')  PROVE pipeline'[i] = q[i]
      <3>1. CASE i <= Len(p)
        <4>1. i \in 1 .. Len(p)
          BY <3>1
        <4>2. pipeline'[i] = p[i] /\ p[i] = q[i]
          BY <1>3, <4>1, Zenon DEF IsHead
        <4>. QED
          BY <4>2
      <3>2. CASE i > Len(p)
        <4>1. i - Len(p) \in 1 .. Len(added) /\ i = Len(p) + (i - Len(p))
          BY <1>3, <3>2
        <4>2. pipeline'[Len(p) + (i - Len(p))] = q[Len(p) + (i - Len(p))]
          BY <1>1, <1>3, <4>1, Zenon
        <4>. QED
          BY <4>1, <4>2
      <3>. QED
        BY <3>1, <3>2
    <2>. QED
      BY <1>1, <1>3, <2>1 DEF IsHead
  <1>5. ~network => pipeline' = p
    BY <1>2
  <1>6. /\ WritesIn(added) \in Seq(Requests)
        /\ Len(WritesIn(added)) = Len(added)
        /\ \A i \in 1 .. Len(added) : WritesIn(added)[i] = added[i].w
    BY <1>1, WritesInFields
  <1>7. ASSUME stream = "Open", handshake
        PROVE  /\ idle' \in BOOLEAN /\ (idle' => pipeline' = <<>>)
               /\ toServer' \in Seq(Requests)
               /\ Extended(toServer, toServer', p, pipeline')
    <2>1. idle' \in BOOLEAN /\ (idle' => pipeline' = <<>>)
      <3>1. idle' = (p \o added = <<>> \/ (idle /\ added = <<>>))
        BY <1>2, <1>7
      <3>2. CASE idle /\ added = <<>>
        BY <1>2, <3>1, <3>2
      <3>3. CASE ~(idle /\ added = <<>>)
        BY <1>2, <3>1, <3>3
      <3>. QED
        BY <3>2, <3>3
    <2>. DEFINE sent == WritesIn(added)
    <2>2. sent \in Seq(Requests) /\ Len(sent) = Len(added)
          /\ toServer' = toServer \o sent
      BY <1>2, <1>6, <1>7
    <2>3. toServer \in Seq(Requests)
      BY DEF TypeOK
    <2>4. \A i \in 1 .. Len(added) : sent[i] = pipeline'[Len(p) + i].w
      BY <1>3, <1>6
    <2>. HIDE DEF sent
    <2>5. /\ toServer' \in Seq(Requests)
          /\ Len(toServer') = Len(toServer) + Len(sent)
          /\ \A i \in 1 .. Len(toServer) : toServer'[i] = toServer[i]
          /\ \A i \in 1 .. Len(sent) : toServer'[Len(toServer) + i] = sent[i]
      <3>1. /\ toServer \o sent \in Seq(Requests)
            /\ Len(toServer \o sent) = Len(toServer) + Len(sent)
            /\ \A i \in 1 .. Len(toServer) : (toServer \o sent)[i] = toServer[i]
            /\ \A i \in 1 .. Len(sent) :
                 (toServer \o sent)[Len(toServer) + i] = sent[i]
        <4>1. toServer \in Seq(Requests) /\ sent \in Seq(Requests)
          BY <2>2, <2>3
        <4>. QED
          BY <4>1
      <3>. QED
        BY <2>2, <3>1, Zenon
    <2>6. /\ Len(p) <= Len(pipeline')
          /\ Len(toServer') + Len(p) = Len(toServer) + Len(pipeline')
          /\ \A i \in 1 .. Len(pipeline') - Len(p) :
               toServer'[Len(toServer) + i] = pipeline'[Len(p) + i].w
      BY <1>1, <1>3, <2>2, <2>4, <2>5
    <2>7. Extended(toServer, toServer', p, pipeline')
      BY <1>3, <2>5, <2>6, Zenon DEF Extended
    <2>. QED
      BY <2>1, <2>5, <2>7
  <1>8. Len(p) <= Len(pipeline') /\ Len(pipeline') <= MaxPending
    BY <1>1, <1>3
  <1>. QED
    BY <1>2, <1>3, <1>4, <1>5, <1>7, <1>8, Zenon

(* The pipeline that is filled up from nothing. *)
LEMMA AddedFromNothing ==
  ASSUME NEW q \in Seq(Batches), Rising(q)
  PROVE  /\ Added(q, <<>>) \in Seq(Batches)
         /\ Len(Added(q, <<>>)) <= MaxPending
         /\ IsHead(Added(q, <<>>), q)
  <1> DEFINE none == <<>>
  <1>1. none \in Seq(Batches) /\ IsHead(none, q) /\ Len(none) = 0
    BY DEF IsHead
  <1>. QED
    <2>. DEFINE a == Added(q, none)
    <2>. HIDE DEF none
    <2>1. Len(none) <= MaxPending
      BY <1>1
    <2>3. /\ a \in Seq(Batches)
          /\ Len(none) + Len(a) <= Len(q) /\ Len(none) + Len(a) <= MaxPending
          /\ \A i \in 1 .. Len(a) : a[i] = q[Len(none) + i]
      BY <1>1, <2>1, AddedFills, Zenon
    <2>. HIDE DEF a
    <2>2. a \in Seq(Batches) /\ Len(a) <= MaxPending /\ IsHead(a, q)
      BY <1>1, <2>3 DEF IsHead
    <2>. QED
      BY <2>2 DEF a, none

-----------------------------------------------------------------------------
(* The server's log. *)

(* VersionAt is the last of the first n entries that is about d. *)
LEMMA VersionAtIsOfDoc ==
  ASSUME NEW d, NEW n \in Nat
  PROVE  VersionAt(d, n) \in 0 .. n
         /\ (VersionAt(d, n) # 0 => log[VersionAt(d, n)].doc = d)
  <1> DEFINE of == {i \in 1 .. n : log[i].doc = d}
             max == CHOOSE i \in of : \A j \in of : j <= i
  <1>1. VersionAt(d, n) = IF of = {} THEN 0 ELSE max
    BY Zenon DEF VersionAt
  <1>2. CASE of = {}
    BY <1>1, <1>2
  <1>3. CASE of # {}
    <2> DEFINE back == {n - i : i \in of}
    <2>1. back \subseteq Nat /\ back # {}
      BY <1>3
    <2>2. PICK m \in back : \A k \in back : ~(<<k, m>> \in OpToRel(<, Nat))
      BY <2>1, NatLessThanWellFounded, WFMin, Zenon
    <2>3. \A k \in back : m <= k
      <3>1. \A k \in back : ~(k < m)
        BY <2>1, <2>2, Zenon DEF OpToRel
      <3>. HIDE DEF back
      <3>. QED
        BY <2>1, <3>1
    <2>4. n - m \in of /\ \A j \in of : j <= n - m
      <3>1. PICK i \in of : m = n - i
        OBVIOUS
      <3>2. n - m \in of
        BY <3>1
      <3>3. ASSUME NEW j \in of  PROVE j <= n - m
        <4>1. m <= n - j
          <5>1. n - j \in back
            OBVIOUS
          <5>. HIDE DEF back
          <5>. QED
            BY <2>3, <5>1
        <4>2. i \in Int /\ j \in Int /\ n \in Int
          OBVIOUS
        <4>. QED
          BY <3>1, <4>1, <4>2
      <3>. QED
        BY <3>2, <3>3
    <2>5. max \in of
      BY <2>4, Zenon
    <2>. HIDE DEF max
    <2>. QED
      BY <1>1, <1>3, <2>5
  <1>. QED
    BY <1>2, <1>3

(* What the device knows stays true while the log grows. *)
LEMMA LogGrows ==
  ASSUME TypeOK, KnowledgeInv, UNCHANGED <<cache, acked, outcome>>,
         Len(log') \in Nat, Len(log) <= Len(log'),
         \A i \in 1 .. Len(log) : log'[i] = log[i]
  PROVE  KnowledgeInv'
  <1>1. CacheIsServers'
    <2>1. ASSUME NEW d \in Docs, cache[d].ver # 0
          PROVE  /\ cache[d].ver <= Len(log')
                 /\ log'[cache[d].ver] = [doc |-> d, w |-> cache[d].w]
      <3>1. cache[d].ver \in Nat
        BY DEF TypeOK, Contents
      <3>2. /\ cache[d].ver <= Len(log)
            /\ log[cache[d].ver] = [doc |-> d, w |-> cache[d].w]
        BY <2>1 DEF KnowledgeInv, CacheIsServers
      <3>. QED
        BY <2>1, <3>1, <3>2 DEF TypeOK
    <2>. QED
      BY <2>1 DEF CacheIsServers
  <1>2. OwnWritesSeen'
    BY DEF KnowledgeInv, OwnWritesSeen
  <1>3. \A w \in Writes : acked[w] \in 1 .. Len(log) =>
          acked[w] \in 1 .. Len(log') /\ log'[acked[w]] = log[acked[w]]
    BY DEF TypeOK
  <1>. QED
    BY <1>1, <1>2, <1>3 DEF KnowledgeInv, OkIsApplied

(* An outcome that is not "ok" tells nothing about the server. *)
LEMMA KnowledgeKept ==
  ASSUME KnowledgeInv, UNCHANGED <<cache, acked, log>>,
         \A w \in Writes : outcome'[w] = "ok" => outcome[w] = "ok"
  PROVE  KnowledgeInv'
  BY DEF KnowledgeInv, CacheIsServers, OwnWritesSeen, OkIsApplied

(* A call that is gone leaves nothing on its way. *)
LEMMA CallGoneInv ==
  ASSUME CallGone, handshake' = FALSE
  PROVE  CallInv'
  BY DEF CallGone, CallInv, Greeting

-----------------------------------------------------------------------------
(* Requests that follow a place r of the pipeline p still do when both have *)
(* grown by the same batches.                                               *)
LEMMA FilledInPlace ==
  ASSUME NEW p \in Seq(Batches), NEW p1 \in Seq(Batches),
         NEW t \in Seq(Requests), NEW t1 \in Seq(Requests), NEW r \in Nat
  PROVE  Placed(t, p, r) /\ Extended(t, t1, p, p1) => Placed(t1, p1, r)
  <1>1. ASSUME Placed(t, p, r), Extended(t, t1, p, p1)
        PROVE  Placed(t1, p1, r)
    <2> DEFINE lp == Len(p)
               lp1 == Len(p1)
               lt == Len(t)
               lt1 == Len(t1)
    <2>1. lp \in Nat /\ lp1 \in Nat /\ lt \in Nat /\ lt1 \in Nat
      OBVIOUS
    <2>2. r + lt = lp /\ lp <= lp1 /\ lt1 + lp = lt + lp1
      BY <1>1 DEF Placed, Extended
    <2>3. /\ \A i \in 1 .. lp : p1[i] = p[i]
          /\ \A i \in 1 .. lt : t1[i] = t[i] /\ t[i] = p[r + i].w
          /\ \A i \in 1 .. lp1 - lp : t1[lt + i] = p1[lp + i].w
      BY <1>1, Zenon DEF Placed, Extended
    <2>4. SUFFICES r + lt1 = lp1 /\ \A i \in 1 .. lt1 : t1[i] = p1[r + i].w
      BY Zenon DEF Placed
    <2>. HIDE DEF lp, lp1, lt, lt1
    <2>5. ASSUME NEW i \in 1 .. lt1  PROVE t1[i] = p1[r + i].w
      <3>1. CASE i <= lt
        <4>1. i \in 1 .. lt /\ r + i \in 1 .. lp
          BY <2>1, <2>2, <3>1
        <4>. QED
          BY <2>3, <4>1, Zenon
      <3>2. CASE i > lt
        <4>1. /\ i - lt \in 1 .. lp1 - lp
              /\ i = lt + (i - lt) /\ r + i = lp + (i - lt)
          BY <2>1, <2>2, <3>2
        <4>. QED
          BY <2>3, <4>1, Zenon
      <3>. QED
        BY <2>1, <3>1, <3>2
    <2>. QED
      BY <2>1, <2>2, <2>5
  <1>. QED
    BY <1>1, Zenon

-----------------------------------------------------------------------------
(* The steps, one lemma for each. *)

(* A write is put into the queue and, if there is room, into the pipeline. *)
LEMMA UserWriteStep ==
  ASSUME Inv, NEW w \in Writes, UserWrite(w)
  PROVE  Inv'
  <1> DEFINE b == [id |-> nextId, w |-> w]
             q == Append(queue, b)
  <1>. USE DEF Inv
  <1>1. /\ b \in Batches /\ b.id = nextId
        /\ q \in Seq(Batches)
        /\ Len(q) = Len(queue) + 1
        /\ \A i \in 1 .. Len(queue) : q[i] = queue[i]
        /\ q[Len(queue) + 1] = b
    BY DEF TypeOK, Batches
  <1>2. /\ queue' = q
        /\ Fill(q, pipeline)
        /\ callbacks' = callbacks \cup {b}
    BY Zenon DEF UserWrite
  <1>. HIDE DEF q, b
  <1>3. /\ nextId' = nextId + 1
        /\ outcome' = [outcome EXCEPT ![w] = "pending"]
        /\ IF IsStarted \/ ~network THEN UNCHANGED <<stream, tokens>>
           ELSE StartIfNeeded(stream, closes, pipeline')
        /\ UNCHANGED <<cache, snapshot, network, handshake, closes, fromServer,
                       ended, log, faults, acked>>
    BY Zenon DEF UserWrite
  <1>4. Rising(q) /\ IsHead(pipeline, q) /\ \A i \in 1 .. Len(q) : q[i].id < nextId'
    <2>1. nextId \in Nat /\ Len(queue) \in Nat /\ Len(pipeline) \in Nat
      BY DEF TypeOK
    <2>2. \A i \in 1 .. Len(queue) : queue[i].id \in Nat
      BY BatchFields DEF TypeOK
    <2>3. \A i \in 1 .. Len(q) :
            i \in 1 .. Len(queue) \/ (i = Len(queue) + 1 /\ q[i].id = nextId)
      BY <1>1, <2>1
    <2>4. Rising(queue) /\ \A i \in 1 .. Len(queue) : queue[i].id < nextId
      BY DEF QueueInv
    <2>5. Rising(q)
      BY <1>1, <2>1, <2>2, <2>3, <2>4 DEF Rising
    <2>6. IsHead(pipeline, q)
      BY <1>1, <2>1 DEF QueueInv, IsHead
    <2>7. \A i \in 1 .. Len(q) : q[i].id < nextId'
      BY <1>1, <1>3, <2>1, <2>2, <2>3, <2>4
    <2>. QED
      BY <2>5, <2>6, <2>7
  <1>5. pipeline \in Seq(Batches) /\ Len(pipeline) <= MaxPending /\ (idle => pipeline = <<>>)
    BY DEF TypeOK, StreamInv
  <1>6. /\ pipeline' \in Seq(Batches)
        /\ Len(pipeline) <= Len(pipeline') /\ Len(pipeline') <= MaxPending
        /\ IsHead(pipeline', q)
        /\ \A i \in 1 .. Len(pipeline) : pipeline'[i] = pipeline[i]
        /\ ~network => pipeline' = pipeline
        /\ ~(stream = "Open" /\ handshake) => toServer' = toServer /\ idle' = idle
        /\ stream = "Open" /\ handshake =>
             /\ idle' \in BOOLEAN /\ (idle' => pipeline' = <<>>)
             /\ toServer' \in Seq(Requests)
             /\ Extended(toServer, toServer', pipeline, pipeline')
    BY <1>1, <1>2, <1>4, <1>5, FillWrites, Zenon
  <1>7. TypeOK'
    <2>1. stream' \in States /\ tokens' \subseteq Nat
      BY <1>3 DEF TypeOK, StartIfNeeded, Start, States
    <2>2. toServer' \in Seq(Requests) /\ idle' \in BOOLEAN
      BY <1>6 DEF TypeOK
    <2>3. /\ queue' \in Seq(Batches) /\ callbacks' \subseteq Batches
          /\ pipeline' \in Seq(Batches) /\ Len(pipeline') <= MaxPending
      BY <1>1, <1>2, <1>6 DEF TypeOK
    <2>4. nextId' \in Nat /\ outcome' \in [Writes -> Outcomes]
      BY <1>3 DEF TypeOK, Outcomes
    <2>. QED
      BY <1>3, <2>1, <2>2, <2>3, <2>4 DEF TypeOK
  <1>8. QueueInv'
    BY <1>2, <1>4, <1>6 DEF QueueInv
  <1>9. StreamInv'
    <2>1. stream \in States /\ closes \in Nat /\ network \in BOOLEAN
      BY DEF TypeOK
    <2>2. idle' => handshake' /\ pipeline' = <<>>
      BY <1>3, <1>6 DEF StreamInv
    <2>3. CASE IsStarted \/ ~network
      BY <1>3, <1>6, <2>1, <2>2, <2>3 DEF StreamInv, IsStarted
    <2>4. CASE ~IsStarted /\ network
      <3>1. stream \in {"Initial", "Error"}
        BY <2>1, <2>4 DEF States, IsStarted
      <3>2. StartIfNeeded(stream, closes, pipeline')
        BY <1>3, <2>4
      <3>. QED
        BY <1>3, <2>1, <2>2, <2>4, <3>1, <3>2 DEF StreamInv, StartIfNeeded, Start
    <2>. QED
      BY <2>3, <2>4
  <1>10. CallInv'
    <2>1. CASE handshake
      <3>1. stream = "Open" /\ stream' = "Open" /\ handshake'
        BY <2>1, <1>3 DEF StreamInv, IsStarted
      <3>2. InPlace /\ Read' = Read
        BY <2>1, <1>3 DEF CallInv, Read
      <3>3. /\ Len(fromServer) \in Nat /\ Len(toServer) \in Nat
            /\ Len(pipeline) \in Nat /\ Len(pipeline') \in Nat
            /\ Read \in {Len(fromServer), Len(fromServer) + 1}
        BY <1>6 DEF TypeOK, Read
      <3>4. \A i \in 1 .. Len(fromServer) : pipeline'[i] = pipeline[i]
        <4>1. Len(fromServer) <= Len(pipeline)
          BY <3>2, <3>3 DEF InPlace, Placed
        <4>. QED
          BY <1>6, <3>3, <4>1
      <3>5. Placed(toServer', pipeline', Read)
        <4>1. toServer \in Seq(Requests) /\ Read \in Nat
          BY <3>3 DEF TypeOK
        <4>2. Placed(toServer, pipeline, Read)
          BY <3>2 DEF InPlace
        <4>. QED
          BY <1>5, <1>6, <2>1, <3>1, <4>1, <4>2, FilledInPlace, Zenon
      <3>6. InPlace'
        BY <1>3, <3>2, <3>4, <3>5 DEF InPlace
      <3>. QED
        BY <1>3, <3>1, <3>6 DEF CallInv
    <2>2. CASE ~handshake
      BY <2>2, <1>3, <1>6
         DEF CallInv, StreamInv, Greeting, IsStarted, TypeOK, StartIfNeeded, Start
    <2>. QED
      BY <2>1, <2>2
  <1>11. KnowledgeInv'
    <2>1. \A v \in Writes : outcome'[v] = "ok" => outcome[v] = "ok"
      BY <1>3 DEF TypeOK
    <2>. QED
      BY <1>3, <2>1, KnowledgeKept
  <1>. QED
    BY <1>7, <1>8, <1>9, <1>10, <1>11

(* The answer to a request for a token. *)
LEMMA TokenArrivesStep ==
  ASSUME Inv, NEW n \in tokens, TokenArrives(n)
  PROVE  Inv'
  <1>. USE DEF Inv
  <1>1. closes \in Nat /\ tokens \subseteq Nat
    BY DEF TypeOK
  <1>2. /\ tokens' = tokens \ {n}
        /\ IF n = closes
           THEN /\ stream' = "Open"
                /\ idle' = FALSE
                /\ toServer' = <<Hello>>
           ELSE UNCHANGED <<stream, idle, toServer>>
        /\ UNCHANGED <<queue, cache, snapshot, nextId, callbacks, pipeline, network,
                       handshake, closes, fromServer, ended, log, faults, outcome,
                       acked>>
    BY DEF TokenArrives, disk
  <1>3. TypeOK'
    <2>1. stream' \in States /\ tokens' \subseteq Nat /\ idle' \in BOOLEAN
      BY <1>1, <1>2 DEF TypeOK, States
    <2>2. toServer' \in Seq(Requests)
      <3>1. Hello \in Requests
        BY DEF Hello, Requests
      <3>. QED
        <4>1. <<Hello>> \in Seq(Requests) /\ toServer \in Seq(Requests)
          BY <3>1 DEF TypeOK
        <4>. QED
          BY <1>2, <4>1, Zenon
    <2>. QED
      BY <1>2, <2>1, <2>2 DEF TypeOK
  <1>4. QueueInv'
    BY <1>2 DEF QueueInv
  <1>5. StreamInv'
    BY <1>1, <1>2 DEF StreamInv
  <1>6. CallInv'
    <2>1. CASE n = closes
      <3>1. stream = "Starting" /\ ~handshake
        BY <2>1 DEF StreamInv
      <3>2. fromServer = <<>> /\ ended = "no"
        BY <3>1 DEF CallInv
      <3>. QED
        <4>1. /\ stream' = "Open" /\ ~handshake' /\ ended' = "no"
              /\ toServer' = <<Hello>> /\ fromServer' = <<>>
          BY <1>2, <2>1, <3>1, <3>2
        <4>. QED
          BY <4>1 DEF CallInv, Greeting
    <2>2. CASE n # closes
      BY <1>2, <2>2 DEF CallInv, InPlace, Placed, Read, Greeting
    <2>. QED
      BY <2>1, <2>2
  <1>7. KnowledgeInv'
    BY <1>2, KnowledgeKept
  <1>. QED
    BY <1>3, <1>4, <1>5, <1>6, <1>7

(* No token: the stream is closed before it was opened. *)
LEMMA TokenFailsStep ==
  ASSUME Inv, TokenFails
  PROVE  Inv'
  <1>. USE DEF Inv
  <1>1. /\ closes \in tokens /\ stream = "Starting" /\ network
        /\ closes \in Nat /\ faults \in 0 .. MaxFaults /\ faults' \in 0 .. MaxFaults
    BY DEF TypeOK, StreamInv, TokenFails, Fault
  <1>2. /\ idle' = FALSE /\ closes' = closes + 1 /\ handshake' = FALSE
        /\ CallGone
        /\ stream' \in {"Backoff", "Error"}
        /\ tokens' = tokens \ {closes}
        /\ UNCHANGED <<queue, cache, snapshot, nextId, callbacks, pipeline, network,
                       log, outcome, acked>>
    BY DEF TokenFails, disk
  <1>3. TypeOK'
    <2>1. /\ toServer' = <<>> /\ fromServer' = <<>> /\ ended' = "no"
          /\ stream' \in States /\ closes' \in Nat /\ tokens' \subseteq Nat
      BY <1>1, <1>2 DEF CallGone, States, TypeOK
    <2>2. /\ toServer' \in Seq(Requests) /\ fromServer' \in Seq(Nat)
          /\ idle' \in BOOLEAN /\ handshake' \in BOOLEAN
          /\ ended' \in {"no", "failed", "refused"}
      <3>1. toServer' \in Seq(Requests) /\ fromServer' \in Seq(Nat)
        BY <2>1
      <3>. QED
        BY <1>2, <2>1, <3>1
    <2>. QED
      BY <1>1, <1>2, <2>1, <2>2, Zenon DEF TypeOK
  <1>4. QueueInv'
    BY <1>2 DEF QueueInv
  <1>5. StreamInv'
    BY <1>1, <1>2 DEF StreamInv
  <1>6. CallInv'
    BY <1>2, CallGoneInv
  <1>7. KnowledgeInv'
    BY <1>2, KnowledgeKept
  <1>. QED
    BY <1>3, <1>4, <1>5, <1>6, <1>7

(* The backoff is over: a token is asked for. *)
LEMMA BackoffElapsedStep ==
  ASSUME Inv, BackoffElapsed
  PROVE  Inv'
  <1>. USE DEF Inv
  <1>1. stream = "Backoff" /\ ~handshake /\ network /\ closes \in Nat
    BY DEF TypeOK, StreamInv, BackoffElapsed
  <1>2. /\ stream' = "Starting" /\ tokens' = tokens \cup {closes}
        /\ UNCHANGED <<queue, cache, snapshot, nextId, callbacks, pipeline, network,
                       handshake, idle, closes, toServer, fromServer, ended, log,
                       faults, outcome, acked>>
    BY DEF BackoffElapsed, Start, disk, wire
  <1>3. TypeOK'
    BY <1>1, <1>2 DEF TypeOK, States
  <1>4. QueueInv'
    BY <1>2 DEF QueueInv
  <1>5. StreamInv'
    BY <1>1, <1>2 DEF StreamInv
  <1>6. CallInv'
    BY <1>1, <1>2 DEF CallInv, Greeting
  <1>7. KnowledgeInv'
    BY <1>2, KnowledgeKept
  <1>. QED
    BY <1>3, <1>4, <1>5, <1>6, <1>7

(* Before the handshake only its answer is on its way. *)
LEMMA HelloOrCommit ==
  ASSUME Inv, fromServer # <<>>
  PROVE  IF Head(fromServer) = Hello
         THEN ~handshake /\ Len(fromServer) = 1 /\ toServer = <<>>
         ELSE handshake
  <1>1. /\ fromServer \in Seq(Nat) /\ toServer \in Seq(Requests)
        /\ Head(fromServer) = fromServer[1] /\ 1 \in 1 .. Len(fromServer)
    BY DEF Inv, TypeOK
  <1>2. handshake => fromServer[1] # Hello
    BY <1>1 DEF Inv, CallInv, InPlace, Hello
  <1>3. ASSUME ~handshake
        PROVE  fromServer[1] = Hello /\ Len(fromServer) = 1 /\ toServer = <<>>
    <2>1. Greeting
      BY <1>3 DEF Inv, CallInv
    <2>2. Len(fromServer) = 1 /\ Len(toServer) = 0
      <3>1. Len(fromServer) \in Nat /\ Len(toServer) \in Nat /\ Len(fromServer) >= 1
        BY <1>1
      <3>. QED
        <4>1. Len(toServer) + Len(fromServer) <= 1
          BY <2>1 DEF Greeting
        <4>. QED
          BY <3>1, <4>1
    <2>. QED
      BY <1>1, <2>1, <2>2 DEF Greeting
  <1>. QED
    BY <1>1, <1>2, <1>3

(* The pipeline goes out, and every batch of it has its request. *)
LEMMA HandshakeCompleteStep ==
  ASSUME Inv, HandshakeComplete
  PROVE  Inv'
  <1>. USE DEF Inv
  <1>1. /\ stream = "Open" /\ ~handshake
        /\ Len(fromServer) = 1 /\ toServer = <<>>
        /\ ended # "refused" /\ network
    BY HelloOrCommit DEF HandshakeComplete, CallInv, Greeting, StreamInv
  <1>2. /\ handshake' = TRUE
        /\ fromServer' = Tail(fromServer)
        /\ toServer' = toServer \o WritesIn(pipeline)
        /\ idle' = (idle /\ pipeline = <<>>)
        /\ UNCHANGED <<queue, cache, snapshot, nextId, callbacks, pipeline, network,
                       stream, closes, tokens, ended, log, faults, outcome, acked>>
    BY DEF HandshakeComplete, disk
  <1>3. ~idle
    BY <1>1 DEF StreamInv
  <1>4. fromServer' = <<>> /\ fromServer' \in Seq(Nat)
    <2>1. fromServer \in Seq(Nat) /\ fromServer # <<>>
      BY DEF TypeOK, HandshakeComplete
    <2>2. Tail(fromServer) \in Seq(Nat) /\ Len(Tail(fromServer)) = 0
      BY <1>1, <2>1
    <2>. QED
      BY <1>2, <2>2
  <1>5. /\ toServer' \in Seq(Requests)
        /\ Len(toServer') = Len(pipeline)
        /\ \A i \in 1 .. Len(pipeline) : toServer'[i] = pipeline[i].w
    <2>1. /\ WritesIn(pipeline) \in Seq(Requests)
          /\ Len(WritesIn(pipeline)) = Len(pipeline)
          /\ \A i \in 1 .. Len(pipeline) : WritesIn(pipeline)[i] = pipeline[i].w
      BY WritesInFields DEF TypeOK
    <2>2. toServer' = WritesIn(pipeline)
      BY <1>1, <1>2, <2>1
    <2>. QED
      BY <2>1, <2>2
  <1>6. TypeOK'
    BY <1>2, <1>3, <1>4, <1>5 DEF TypeOK
  <1>7. QueueInv'
    BY <1>2 DEF QueueInv
  <1>8. StreamInv'
    BY <1>1, <1>2, <1>3 DEF StreamInv
  <1>9. CallInv'
    <2>1. Read' = 0
      BY <1>1, <1>2, <1>4 DEF Read
    <2>2. InPlace'
      <3>1. pipeline \in Seq(Batches) /\ pipeline' = pipeline /\ fromServer' = <<>>
        <4>1. pipeline \in Seq(Batches)
          BY DEF TypeOK
        <4>. QED
          BY <1>2, <1>4, <4>1, Zenon
      <3>2. \A i \in 1 .. Len(toServer') : toServer'[i] = pipeline'[Read' + i].w
        BY <1>5, <2>1, <3>1
      <3>. QED
        BY <1>5, <2>1, <3>1, <3>2 DEF InPlace, Placed
    <2>. QED
      BY <1>1, <1>2, <2>2 DEF CallInv
  <1>10. KnowledgeInv'
    BY <1>2, KnowledgeKept
  <1>. QED
    BY <1>6, <1>7, <1>8, <1>9, <1>10

(* The first batch of the pipeline is the first row of the queue; without   *)
(* it both are in order again.                                              *)
LEMMA FrontGoes ==
  ASSUME Inv, pipeline # <<>>
  PROVE  /\ Head(pipeline) \in Batches
         /\ Without(Head(pipeline), queue) = Tail(queue)
         /\ Tail(queue) \in Seq(Batches) /\ Tail(pipeline) \in Seq(Batches)
         /\ Len(Tail(pipeline)) = Len(pipeline) - 1
         /\ Len(Tail(pipeline)) <= MaxPending
         /\ Rising(Tail(queue)) /\ IsHead(Tail(pipeline), Tail(queue))
         /\ \A i \in 1 .. Len(pipeline) - 1 : Tail(pipeline)[i] = pipeline[i + 1]
         /\ \A i \in 1 .. Len(Tail(queue)) : Tail(queue)[i].id < nextId
  <1>1. /\ queue \in Seq(Batches) /\ pipeline \in Seq(Batches)
        /\ Rising(queue) /\ IsHead(pipeline, queue)
        /\ Len(pipeline) <= MaxPending
        /\ \A i \in 1 .. Len(queue) : queue[i].id < nextId
    BY DEF Inv, TypeOK, QueueInv
  <1>2. /\ queue # <<>> /\ Head(queue) = Head(pipeline) /\ Head(pipeline) \in Batches
        /\ Tail(pipeline) \in Seq(Batches) /\ Tail(queue) \in Seq(Batches)
        /\ Len(Tail(pipeline)) = Len(pipeline) - 1 /\ Len(Tail(queue)) = Len(queue) - 1
        /\ \A i \in 1 .. Len(queue) - 1 : Tail(queue)[i] = queue[i + 1]
        /\ \A i \in 1 .. Len(pipeline) - 1 : Tail(pipeline)[i] = pipeline[i + 1]
        /\ IsHead(Tail(pipeline), Tail(queue)) /\ Rising(Tail(queue))
    BY <1>1, TailKeepsHead, Zenon
  <1>3. Without(Head(pipeline), queue) = Tail(queue)
    BY <1>1, <1>2, WithoutFirst, Zenon
  <1>4. Len(Tail(pipeline)) <= MaxPending
    <2>1. Len(pipeline) \in Nat
      BY <1>1
    <2>. QED
      BY <1>1, <1>2, <2>1
  <1>5. ASSUME NEW i \in 1 .. Len(Tail(queue))  PROVE Tail(queue)[i].id < nextId
    <2>1. Len(queue) \in Nat
      BY <1>1
    <2>2. i \in 1 .. Len(queue) - 1 /\ i + 1 \in 1 .. Len(queue)
      BY <1>2, <2>1
    <2>3. Tail(queue)[i] = queue[i + 1] /\ queue[i + 1].id < nextId
      BY <1>1, <1>2, <2>2, Zenon
    <2>. QED
      BY <2>3
  <1>. QED
    BY <1>2, <1>3, <1>4, <1>5, Zenon

(* The response is for the front batch: what is committed is its write.     *)
LEMMA MutationResultStep ==
  ASSUME Inv, MutationResult
  PROVE  Inv'
  <1>. USE DEF Inv
  <1> DEFINE b == Head(pipeline)
             v == Head(fromServer)
             q == Tail(queue)
             p == Tail(pipeline)
  <1>1. stream = "Open" /\ fromServer # <<>> /\ handshake /\ network
    BY HelloOrCommit DEF MutationResult, StreamInv
  <1>2. InPlace
    BY <1>1 DEF CallInv
  <1>3. /\ Len(fromServer) \in Nat /\ Len(fromServer) >= 1
        /\ Len(pipeline) \in Nat /\ Len(toServer) \in Nat
        /\ fromServer \in Seq(Nat) /\ pipeline \in Seq(Batches)
    BY <1>1 DEF TypeOK
  <1>4. Read + Len(toServer) = Len(pipeline) /\ Read >= Len(fromServer) /\ Read \in Nat
    BY <1>2, <1>3 DEF InPlace, Placed, Read
  <1>5. pipeline # <<>> /\ Len(fromServer) <= Len(pipeline)
    <2>1. Len(pipeline) >= 1 /\ Len(fromServer) <= Len(pipeline)
      BY <1>3, <1>4
    <2>. QED
      BY <1>3, <2>1
  <1>6. /\ b \in Batches /\ b = pipeline[1]
        /\ v = fromServer[1]
        /\ v \in 1 .. Len(log) /\ log[v] = EntryOf(b.w)
    <2>1. 1 \in 1 .. Len(fromServer)
      BY <1>3
    <2>2. b = pipeline[1] /\ v = fromServer[1]
      BY <1>1, <1>3, <1>5
    <2>3. fromServer[1] \in 1 .. Len(log) /\ log[fromServer[1]] = EntryOf(pipeline[1].w)
      BY <1>2, <2>1, Zenon DEF InPlace
    <2>. QED
      BY <1>5, <2>2, <2>3, FrontGoes, Zenon
  <1>7. /\ Without(b, queue) = q
        /\ q \in Seq(Batches) /\ p \in Seq(Batches)
        /\ Len(p) = Len(pipeline) - 1
        /\ Len(p) <= MaxPending
        /\ Rising(q) /\ IsHead(p, q)
        /\ \A i \in 1 .. Len(pipeline) - 1 : p[i] = pipeline[i + 1]
        /\ \A i \in 1 .. Len(q) : q[i].id < nextId
    BY <1>5, FrontGoes, Zenon
  <1>8. /\ queue' = Without(b, queue)
        /\ cache' = Acknowledged(b, v)
        /\ callbacks' = callbacks \ {b}
        /\ outcome' = IF b \in callbacks THEN [outcome EXCEPT ![b.w] = "ok"]
                      ELSE outcome
        /\ acked' = [acked EXCEPT ![b.w] = v]
        /\ Fill(Without(b, queue), p)
        /\ fromServer' = Tail(fromServer)
        /\ UNCHANGED <<snapshot, nextId, network, stream, handshake, closes, tokens,
                       ended, log, faults>>
    BY Zenon DEF MutationResult
  <1>9. queue' = q /\ Fill(q, p)
    BY <1>7, <1>8, Zenon
  <1>10. ~idle
    BY <1>5 DEF StreamInv
  <1>11. b.w \in Writes
    BY <1>6, BatchFields
  <1>12. /\ fromServer' \in Seq(Nat) /\ Len(fromServer') = Len(fromServer) - 1
         /\ \A i \in 1 .. Len(fromServer) - 1 : fromServer'[i] = fromServer[i + 1]
    BY <1>1, <1>3, <1>8
  <1>. HIDE DEF b, v, q, p
  <1>13. /\ pipeline' \in Seq(Batches)
         /\ Len(p) <= Len(pipeline') /\ Len(pipeline') <= MaxPending
         /\ IsHead(pipeline', q)
         /\ \A i \in 1 .. Len(p) : pipeline'[i] = p[i]
         /\ idle' \in BOOLEAN /\ (idle' => pipeline' = <<>>)
         /\ toServer' \in Seq(Requests)
         /\ Extended(toServer, toServer', p, pipeline')
    BY <1>1, <1>7, <1>9, <1>10, FillWrites, Zenon
  <1>14. TypeOK'
    <2>0. v \in Nat
      <3>1. Len(log) \in Nat
        BY DEF TypeOK
      <3>. QED
        BY <1>6, <3>1
    <2>1. cache' \in [Docs -> Contents]
      <3>1. [ver |-> v, w |-> b.w, committed |-> TRUE] \in Contents
        BY <2>0, <1>11 DEF Contents
      <3>2. DocOf[b.w] \in Docs
        BY <1>11
      <3>. QED
        BY <1>8, <3>1, <3>2 DEF TypeOK, Acknowledged
    <2>2. callbacks' \subseteq Batches
      BY <1>8 DEF TypeOK
    <2>3. outcome' \in [Writes -> Outcomes]
      BY <1>8 DEF TypeOK, Outcomes
    <2>4. acked' \in [Writes -> Nat]
      BY <2>0, <1>8 DEF TypeOK
    <2>. QED
      BY <1>7, <1>8, <1>9, <1>12, <1>13, <2>1, <2>2, <2>3, <2>4, Zenon DEF TypeOK
  <1>15. QueueInv'
    BY <1>7, <1>8, <1>9, <1>13, Zenon DEF QueueInv
  <1>16. StreamInv'
    BY <1>1, <1>8, <1>13, Zenon DEF StreamInv
  <1>17. CallInv'
    <2>1. Read' = Read - 1 /\ Read' \in Nat
      BY <1>3, <1>4, <1>8, <1>12 DEF Read
    <2>2. Placed(toServer, p, Read')
      <3>1. Read' + Len(toServer) = Len(p)
        <4>1. Len(p) \in Nat /\ Len(p) + 1 = Len(pipeline) /\ Read' + 1 = Read
          BY <1>3, <1>4, <1>7, <2>1
        <4>. QED
          BY <1>3, <1>4, <2>1, <4>1
      <3>2. ASSUME NEW i \in 1 .. Len(toServer)  PROVE toServer[i] = p[Read' + i].w
        <4>1. toServer[i] = pipeline[Read + i].w
          BY <1>2 DEF InPlace, Placed
        <4>2. Read' + i \in 1 .. Len(pipeline) - 1 /\ (Read' + i) + 1 = Read + i
          BY <1>3, <1>4, <2>1
        <4>3. p[Read' + i] = pipeline[(Read' + i) + 1]
          BY <1>7, <4>2, Zenon
        <4>. QED
          BY <4>1, <4>2, <4>3
      <3>. QED
        BY <3>1, <3>2 DEF Placed
    <2>3. Placed(toServer', pipeline', Read')
      <3>1. toServer \in Seq(Requests)
        BY DEF TypeOK
      <3>. QED
        BY <1>7, <1>13, <2>1, <2>2, <3>1, FilledInPlace, Zenon
    <2>4. ASSUME NEW i \in 1 .. Len(fromServer')
          PROVE  /\ fromServer'[i] \in 1 .. Len(log')
                 /\ log'[fromServer'[i]] = EntryOf(pipeline'[i].w)
      <3>1. /\ i \in 1 .. Len(fromServer) - 1 /\ i + 1 \in 1 .. Len(fromServer)
            /\ i \in 1 .. Len(pipeline) - 1 /\ i \in 1 .. Len(p)
        BY <1>3, <1>5, <1>7, <1>12
      <3>2. fromServer'[i] = fromServer[i + 1] /\ pipeline'[i] = pipeline[i + 1]
        BY <1>7, <1>12, <1>13, <3>1
      <3>. QED
        BY <1>2, <1>8, <3>1, <3>2 DEF InPlace
    <2>5. InPlace'
      BY <2>3, <2>4 DEF InPlace, EntryOf
    <2>. QED
      BY <1>1, <1>8, <2>5 DEF CallInv
  <1>18. KnowledgeInv'
    <2> DEFINE d == DocOf[b.w]
    <2>1. /\ v \in Nat /\ v # 0 /\ v <= Len(log)
          /\ log[v] = [doc |-> d, w |-> b.w] /\ log[v].w = b.w
      <3>1. Len(log) \in Nat
        BY DEF TypeOK
      <3>. QED
        BY <1>6, <3>1 DEF EntryOf
    <2>2. d \in Docs
      BY <1>11
    <2>3. /\ cache \in [Docs -> Contents] /\ acked \in [Writes -> Nat]
          /\ outcome \in [Writes -> Outcomes] /\ Len(log) \in Nat
      BY DEF TypeOK
    <2>4. \A e \in Docs : cache[e].ver \in Nat
      BY <2>3 DEF Contents
    <2>. HIDE DEF d
    <2>5. cache' = IF cache[d].ver < v
                   THEN [cache EXCEPT ![d] = [ver |-> v, w |-> b.w, committed |-> TRUE]]
                   ELSE cache
      BY <1>8, Zenon DEF Acknowledged, d
    <2>6. CacheIsServers'
      <3>1. ASSUME NEW e \in Docs, cache'[e].ver # 0
            PROVE  /\ cache'[e].ver <= Len(log)
                   /\ log[cache'[e].ver] = [doc |-> e, w |-> cache'[e].w]
        <4>1. CASE cache'[e] = cache[e]
          BY <3>1, <4>1 DEF KnowledgeInv, CacheIsServers
        <4>2. CASE cache'[e] # cache[e]
          <5>1. e = d /\ cache'[e] = [ver |-> v, w |-> b.w, committed |-> TRUE]
            BY <2>3, <2>5, <4>2
          <5>. QED
            BY <2>1, <5>1
        <4>. QED
          BY <4>1, <4>2
      <3>. QED
        BY <1>8, <3>1 DEF CacheIsServers
    <2>7. \A e \in Docs : cache'[e].ver >= cache[e].ver
      BY <2>1, <2>3, <2>4, <2>5
    <2>8. cache'[d].ver >= v
      BY <2>1, <2>2, <2>3, <2>4, <2>5
    <2>9. OwnWritesSeen'
      <3>1. ASSUME NEW w \in Writes  PROVE acked'[w] <= cache'[DocOf[w]].ver
        <4>0. DocOf[w] \in Docs /\ cache'[DocOf[w]].ver \in Nat
          BY <1>14 DEF TypeOK, Contents
        <4>1. CASE w = b.w
          BY <1>8, <2>3, <2>8, <4>1 DEF d
        <4>2. CASE w # b.w
          <5>1. acked'[w] = acked[w] /\ acked[w] \in Nat
            BY <1>8, <2>3, <4>2
          <5>2. acked[w] <= cache[DocOf[w]].ver
            BY DEF KnowledgeInv, OwnWritesSeen
          <5>. QED
            BY <2>4, <2>7, <4>0, <5>1, <5>2
        <4>. QED
          BY <4>1, <4>2
      <3>. QED
        BY <3>1 DEF OwnWritesSeen
    <2>10. ASSUME NEW w \in Writes, acked'[w] # 0
           PROVE  acked'[w] \in 1 .. Len(log) /\ log[acked'[w]].w = w
      <3>1. CASE w = b.w
        BY <1>8, <2>1, <2>3, <3>1
      <3>2. CASE w # b.w
        <4>1. acked'[w] = acked[w]
          BY <1>8, <2>3, <3>2
        <4>. QED
          BY <2>10, <4>1 DEF KnowledgeInv
      <3>. QED
        BY <3>1, <3>2
    <2>11. ASSUME NEW w \in Writes, outcome'[w] = "ok"
           PROVE  acked'[w] # 0
      <3>1. CASE w = b.w
        BY <1>8, <2>1, <2>3, <3>1
      <3>2. CASE w # b.w
        <4>1. acked'[w] = acked[w] /\ outcome[w] = "ok"
          BY <1>8, <2>3, <2>11, <3>2
        <4>2. acked[w] \in 1 .. Len(log)
          BY <4>1 DEF KnowledgeInv, OkIsApplied
        <4>. QED
          BY <4>1, <4>2
      <3>. QED
        BY <3>1, <3>2
    <2>12. OkIsApplied'
      BY <1>8, <2>10, <2>11 DEF OkIsApplied
    <2>. QED
      BY <1>8, <2>6, <2>9, <2>10, <2>12 DEF KnowledgeInv
  <1>. QED
    BY <1>14, <1>15, <1>16, <1>17, <1>18

(* A pipeline filled up along its queue is a head of it. *)
LEMMA FilledPipeline ==
  ASSUME NEW q \in Seq(Batches), NEW p \in Seq(Batches), Rising(q), IsHead(p, q),
         Len(p) <= MaxPending
  PROVE  /\ p \o Added(q, p) \in Seq(Batches)
         /\ Len(p \o Added(q, p)) <= MaxPending
         /\ IsHead(p \o Added(q, p), q)
  <1> DEFINE a == Added(q, p)
  <1>1. /\ a \in Seq(Batches)
        /\ Len(p) + Len(a) <= Len(q) /\ Len(p) + Len(a) <= MaxPending
        /\ \A i \in 1 .. Len(a) : a[i] = q[Len(p) + i]
    BY AddedFills, Zenon
  <1>. HIDE DEF a
  <1>2. /\ p \o a \in Seq(Batches) /\ Len(p \o a) = Len(p) + Len(a)
        /\ \A i \in 1 .. Len(p) : (p \o a)[i] = p[i]
        /\ \A i \in 1 .. Len(a) : (p \o a)[Len(p) + i] = a[i]
    BY <1>1
  <1>3. ASSUME NEW i \in 1 .. Len(p \o a)  PROVE (p \o a)[i] = q[i]
    <2>1. CASE i <= Len(p)
      <3>1. i \in 1 .. Len(p)
        BY <2>1
      <3>. QED
        BY <1>2, <3>1, Zenon DEF IsHead
    <2>2. CASE i > Len(p)
      <3>1. i - Len(p) \in 1 .. Len(a) /\ i = Len(p) + (i - Len(p))
        BY <1>1, <1>2, <2>2
      <3>2. (p \o a)[Len(p) + (i - Len(p))] = q[Len(p) + (i - Len(p))]
        BY <1>1, <1>2, <3>1, Zenon
      <3>. QED
        BY <3>1, <3>2
    <2>. QED
      BY <2>1, <2>2
  <1>4. Len(p \o a) <= Len(q) /\ Len(p \o a) <= MaxPending
    BY <1>1, <1>2
  <1>. QED
    BY <1>2, <1>3, <1>4, Zenon DEF IsHead, a

(* A stream that was open and is closed, and started again if it is needed. *)
LEMMA ClosedStream ==
  ASSUME Inv, network, NEW s \in {"Initial", "Error"}, NEW p, pipeline' = p,
         idle' = FALSE, closes' = closes + 1, handshake' = FALSE, network' = network,
         StartIfNeeded(s, closes + 1, p)
  PROVE  StreamInv' /\ stream' \in States /\ tokens' \subseteq Nat
  <1>1. closes \in Nat /\ tokens \subseteq Nat /\ \A n \in tokens : n <= closes
    BY DEF Inv, TypeOK, StreamInv
  <1>2. closes + 1 \notin tokens
    BY <1>1
  <1>3. \/ stream' \in {"Initial", "Error", "Backoff"} /\ tokens' = tokens
        \/ stream' = "Starting" /\ tokens' = tokens \cup {closes + 1}
    BY DEF StartIfNeeded, Start
  <1>4. CASE stream' \in {"Initial", "Error", "Backoff"} /\ tokens' = tokens
    <2>1. \A n \in tokens' : n <= closes'
      BY <1>1, <1>4
    <2>2. closes' \notin tokens' /\ stream' # "Starting"
      BY <1>2, <1>4
    <2>. QED
      BY <1>1, <1>4, <2>1, <2>2 DEF StreamInv, States
  <1>5. CASE stream' = "Starting" /\ tokens' = tokens \cup {closes + 1}
    <2>1. \A n \in tokens' : n <= closes'
      BY <1>1, <1>5
    <2>2. closes' \in tokens' /\ tokens' \subseteq Nat
      BY <1>1, <1>5
    <2>. QED
      BY <1>1, <1>5, <2>1, <2>2 DEF StreamInv, States
  <1>. QED
    BY <1>3, <1>4, <1>5

(* An error closes the stream, with or without a batch rejected. *)
LEMMA CloseOnErrorStep ==
  ASSUME Inv, stream = "Open", NEW permanent \in BOOLEAN, CloseOnError(permanent),
         faults' \in 0 .. MaxFaults
  PROVE  Inv'
  <1>. USE DEF Inv
  <1>1. /\ idle' = FALSE /\ closes' = closes + 1 /\ CallGone /\ handshake' = FALSE
        /\ UNCHANGED <<cache, snapshot, nextId, network, log, acked>>
    BY Zenon DEF CloseOnError
  <1>2. network /\ closes \in Nat /\ tokens \subseteq Nat
    BY DEF StreamInv, TypeOK
  <1>3. /\ toServer' \in Seq(Requests) /\ fromServer' \in Seq(Nat)
        /\ ended' \in {"no", "failed", "refused"} /\ closes' \in Nat
        /\ idle' \in BOOLEAN /\ handshake' \in BOOLEAN
    <2>1. toServer' = <<>> /\ fromServer' = <<>> /\ ended' = "no"
      BY <1>1, Zenon DEF CallGone
    <2>2. toServer' \in Seq(Requests) /\ fromServer' \in Seq(Nat)
      BY <2>1
    <2>. QED
      <3>1. closes' \in Nat
        BY <1>1, <1>2
      <3>2. idle' \in BOOLEAN /\ handshake' \in BOOLEAN
        BY <1>1, Zenon
      <3>. QED
        BY <2>1, <2>2, <3>1, <3>2
  <1>4. CallInv'
    BY <1>1, CallGoneInv
  <1>5. CASE permanent /\ handshake /\ pipeline # <<>>
    <2> DEFINE b == Head(pipeline)
               q == Tail(queue)
               p == Tail(pipeline)
               filled == p \o Added(q, p)
    <2>1. /\ b \in Batches /\ Without(b, queue) = q
          /\ q \in Seq(Batches) /\ p \in Seq(Batches)
          /\ Len(p) <= MaxPending
          /\ Rising(q) /\ IsHead(p, q)
          /\ \A i \in 1 .. Len(q) : q[i].id < nextId
      BY <1>5, FrontGoes, Zenon
    <2>2. /\ RejectFront
          /\ pipeline' = p \o Added(Without(b, queue), p)
          /\ StartIfNeeded("Initial", closes + 1, p \o Added(Without(b, queue), p))
      BY <1>5, Zenon DEF CloseOnError
    <2>3. /\ queue' = q
          /\ callbacks' = callbacks \ {b}
          /\ outcome' = IF b \in callbacks THEN [outcome EXCEPT ![b.w] = "error"]
                        ELSE outcome
          /\ pipeline' = filled
          /\ StartIfNeeded("Initial", closes + 1, filled)
      BY <2>1, <2>2, Zenon DEF RejectFront
    <2>4. filled \in Seq(Batches) /\ Len(filled) <= MaxPending /\ IsHead(filled, q)
      BY <2>1, FilledPipeline, Zenon
    <2>. HIDE DEF b, q, p, filled
    <2>5. StreamInv' /\ stream' \in States /\ tokens' \subseteq Nat
      BY <1>1, <1>2, <2>3, ClosedStream
    <2>6. /\ outcome' \in [Writes -> Outcomes]
          /\ \A w \in Writes : outcome'[w] = "ok" => outcome[w] = "ok"
      BY <2>3 DEF TypeOK, Outcomes
    <2>7. callbacks' \subseteq Batches
      BY <2>3 DEF TypeOK
    <2>8. TypeOK'
      BY <1>1, <1>3, <2>1, <2>3, <2>4, <2>5, <2>6, <2>7, Zenon DEF TypeOK
    <2>9. QueueInv'
      BY <1>1, <2>1, <2>3, <2>4, Zenon DEF QueueInv
    <2>10. KnowledgeInv'
      BY <1>1, <2>6, KnowledgeKept
    <2>. QED
      BY <1>4, <2>5, <2>8, <2>9, <2>10
  <1>6. CASE ~(permanent /\ handshake /\ pipeline # <<>>)
    <2>1. /\ StartIfNeeded("Error", closes + 1, pipeline)
          /\ UNCHANGED <<queue, callbacks, outcome, pipeline>>
      BY <1>6, Zenon DEF CloseOnError
    <2>2. StreamInv' /\ stream' \in States /\ tokens' \subseteq Nat
      BY <1>1, <1>2, <2>1, ClosedStream
    <2>3. TypeOK'
      BY <1>1, <1>3, <2>1, <2>2, Zenon DEF TypeOK
    <2>4. QueueInv'
      BY <1>1, <2>1, Zenon DEF QueueInv
    <2>5. KnowledgeInv'
      BY <1>1, <2>1, KnowledgeKept
    <2>. QED
      BY <1>4, <2>2, <2>3, <2>4, <2>5
  <1>. QED
    BY <1>5, <1>6

(* A stream that is stopped has no timer, no call and no current token. *)
LEMMA StopStreamFacts ==
  ASSUME Inv, StopStream
  PROVE  /\ stream' \in {"Initial", "Error"} /\ idle' = FALSE /\ handshake' = FALSE
         /\ closes' \in Nat /\ closes' \notin tokens /\ \A n \in tokens : n <= closes'
         /\ toServer' = <<>> /\ fromServer' = <<>> /\ ended' = "no"
  <1>1. /\ closes \in Nat /\ tokens \subseteq Nat /\ \A n \in tokens : n <= closes
        /\ stream \in States
    BY DEF Inv, TypeOK, StreamInv
  <1>2. CASE IsStarted
    <2>1. /\ stream' = "Initial" /\ idle' = FALSE /\ closes' = closes + 1
          /\ handshake' = FALSE /\ CallGone
      BY <1>2 DEF StopStream
    <2>. QED
      BY <1>1, <2>1 DEF CallGone
  <1>3. CASE ~IsStarted
    <2>1. UNCHANGED <<stream, idle, closes, handshake, toServer, fromServer, ended>>
      BY <1>3 DEF StopStream, wire
    <2>2. stream \in {"Initial", "Error"}
      BY <1>1, <1>3 DEF IsStarted, States
    <2>3. ~handshake /\ ~idle /\ closes \notin tokens
      BY <2>2 DEF Inv, StreamInv
    <2>4. handshake = FALSE /\ idle = FALSE
      BY <2>3 DEF Inv, TypeOK
    <2>5. toServer = <<>> /\ fromServer = <<>> /\ ended = "no"
      BY <2>2 DEF Inv, CallInv
    <2>. QED
      BY <1>1, <2>1, <2>2, <2>3, <2>4, <2>5
  <1>. QED
    BY <1>2, <1>3

(* Whoever stops the stream keeps the queue; the pipeline stays or is gone. *)
LEMMA StoppedStep ==
  ASSUME Inv, StopStream, network' \in BOOLEAN,
         pipeline' = pipeline \/ pipeline' = <<>>,
         ~network' => pipeline' = <<>>,
         faults' \in 0 .. MaxFaults,
         UNCHANGED <<queue, cache, snapshot, nextId, callbacks, tokens, log, outcome,
                     acked>>
  PROVE  Inv'
  <1>. USE DEF Inv
  <1>1. /\ stream' \in {"Initial", "Error"} /\ idle' = FALSE /\ handshake' = FALSE
        /\ closes' \in Nat /\ closes' \notin tokens /\ \A n \in tokens : n <= closes'
        /\ toServer' = <<>> /\ fromServer' = <<>> /\ ended' = "no"
    BY StopStreamFacts
  <1>2. /\ toServer' \in Seq(Requests) /\ fromServer' \in Seq(Nat)
        /\ ended' \in {"no", "failed", "refused"} /\ stream' \in States
        /\ idle' \in BOOLEAN /\ handshake' \in BOOLEAN
    <2>1. toServer' \in Seq(Requests) /\ fromServer' \in Seq(Nat)
      BY <1>1
    <2>. QED
      BY <1>1, <2>1 DEF States
  <1>3. /\ pipeline' \in Seq(Batches) /\ Len(pipeline') <= MaxPending
        /\ IsHead(pipeline', queue)
    <2>1. CASE pipeline' = pipeline
      BY <2>1 DEF TypeOK, QueueInv
    <2>2. CASE pipeline' = <<>>
      <3>1. Len(queue) \in Nat
        BY DEF TypeOK
      <3>. QED
        BY <2>2, <3>1 DEF IsHead
    <2>. QED
      BY <2>1, <2>2
  <1>4. TypeOK'
    BY <1>1, <1>2, <1>3, Zenon DEF TypeOK
  <1>5. QueueInv'
    BY <1>3, Zenon DEF QueueInv
  <1>6. StreamInv'
    BY <1>1 DEF StreamInv
  <1>7. CallInv'
    BY <1>1 DEF CallInv, Greeting
  <1>8. KnowledgeInv'
    BY KnowledgeKept
  <1>. QED
    BY <1>4, <1>5, <1>6, <1>7, <1>8

(* The pipeline is filled up before the stream is started. *)
LEMMA EnableNetworkStep ==
  ASSUME Inv, EnableNetwork
  PROVE  Inv'
  <1>. USE DEF Inv
  <1>1. /\ ~network /\ network' = TRUE
        /\ pipeline' = Added(queue, <<>>)
        /\ StartIfNeeded(stream, closes, Added(queue, <<>>))
        /\ UNCHANGED <<queue, cache, snapshot, nextId, callbacks, handshake, idle,
                       closes, toServer, fromServer, ended, log, faults, outcome, acked>>
    BY Zenon DEF EnableNetwork, disk, wire
  <1>2. /\ stream \in {"Initial", "Error"} /\ ~handshake /\ ~idle
        /\ closes \notin tokens /\ closes \in Nat /\ tokens \subseteq Nat
    BY <1>1 DEF StreamInv, TypeOK
  <1>3. /\ pipeline' \in Seq(Batches) /\ Len(pipeline') <= MaxPending
        /\ IsHead(pipeline', queue)
    <2>1. queue \in Seq(Batches) /\ Rising(queue)
      BY DEF TypeOK, QueueInv
    <2>. QED
      BY <1>1, <2>1, AddedFromNothing, Zenon
  <1>4. \/ stream' \in {"Initial", "Error", "Backoff"} /\ tokens' = tokens
        \/ stream' = "Starting" /\ tokens' = tokens \cup {closes}
    BY <1>1, <1>2 DEF StartIfNeeded, Start
  <1>5. stream' \in States /\ tokens' \subseteq Nat /\ network' \in BOOLEAN
    BY <1>1, <1>2, <1>4 DEF States
  <1>6. TypeOK'
    BY <1>1, <1>3, <1>5, Zenon DEF TypeOK
  <1>7. QueueInv'
    BY <1>1, <1>3, Zenon DEF QueueInv
  <1>8. StreamInv'
    <2>1. \A n \in tokens : n <= closes
      BY DEF StreamInv
    <2>2. \A n \in tokens' : n <= closes'
      <3>1. tokens' \subseteq tokens \cup {closes} /\ closes' = closes
        BY <1>1, <1>4
      <3>. QED
        BY <1>2, <2>1, <3>1
    <2>3. closes' \in tokens' <=> stream' = "Starting"
      BY <1>1, <1>2, <1>4
    <2>. QED
      BY <1>1, <1>2, <2>2, <2>3, Zenon DEF StreamInv
  <1>9. CallInv'
    <2>1. toServer = <<>> /\ fromServer = <<>> /\ ended = "no"
      BY <1>2 DEF CallInv
    <2>2. toServer' = <<>> /\ fromServer' = <<>> /\ ended' = "no" /\ ~handshake'
      BY <1>1, <1>2, <2>1
    <2>. QED
      BY <2>2 DEF CallInv, Greeting
  <1>10. KnowledgeInv'
    BY <1>1, KnowledgeKept
  <1>. QED
    BY <1>6, <1>7, <1>8, <1>9, <1>10

(* The rows on disk are what the new process starts from. *)
LEMMA RelaunchStep ==
  ASSUME Inv, Relaunch
  PROVE  Inv'
  <1>. USE DEF Inv
  <1>1. /\ faults' = faults + 1 /\ faults < MaxFaults
        /\ nextId' = NextBatchId /\ callbacks' = {}
        /\ outcome' = [w \in Writes |-> IF outcome[w] = "pending" THEN "lost" ELSE outcome[w]]
        /\ network' = TRUE /\ pipeline' = Added(queue, <<>>)
        /\ handshake' = FALSE /\ idle' = FALSE /\ closes' = 0
        /\ IF queue = <<>> THEN stream' = "Initial" /\ tokens' = {}
           ELSE stream' = "Starting" /\ tokens' = {0}
        /\ CallGone
        /\ UNCHANGED <<queue, cache, snapshot, log, acked>>
    BY Zenon DEF Relaunch, Fault, disk
  <1>2. queue \in Seq(Batches) /\ Rising(queue)
    BY DEF TypeOK, QueueInv
  <1>3. /\ pipeline' \in Seq(Batches) /\ Len(pipeline') <= MaxPending
        /\ IsHead(pipeline', queue)
    BY <1>1, <1>2, AddedFromNothing, Zenon
  <1>4. nextId' \in Nat /\ \A i \in 1 .. Len(queue) : queue[i].id < nextId'
    <2>1. \A i \in 1 .. Len(queue) : queue[i].id \in Nat
      BY <1>2, BatchFields
    <2>2. CASE queue = <<>>
      BY <1>1, <2>2 DEF NextBatchId
    <2>3. CASE queue # <<>>
      <3>1. Len(queue) \in 1 .. Len(queue) /\ Len(queue) \in Nat
        BY <1>2, <2>3
      <3>2. nextId' = queue[Len(queue)].id + 1
        BY <1>1, <2>3 DEF NextBatchId
      <3>3. ASSUME NEW i \in 1 .. Len(queue)  PROVE queue[i].id <= queue[Len(queue)].id
        <4>1. CASE i = Len(queue)
          BY <2>1, <4>1
        <4>2. CASE i < Len(queue)
          <5>1. queue[i].id < queue[Len(queue)].id
            BY <1>2, <3>1, <4>2 DEF Rising
          <5>. QED
            BY <2>1, <3>1, <5>1
        <4>. QED
          BY <3>1, <4>1, <4>2
      <3>. QED
        BY <2>1, <3>1, <3>2, <3>3
    <2>. QED
      BY <2>2, <2>3
  <1>5. /\ outcome' \in [Writes -> Outcomes]
        /\ \A w \in Writes : outcome'[w] = "ok" => outcome[w] = "ok"
    BY <1>1 DEF TypeOK, Outcomes
  <1>6. /\ faults' \in 0 .. MaxFaults /\ stream' \in States /\ tokens' \subseteq Nat
        /\ closes' \in Nat /\ callbacks' \subseteq Batches
        /\ network' \in BOOLEAN /\ handshake' \in BOOLEAN /\ idle' \in BOOLEAN
    <2>1. faults' \in 0 .. MaxFaults
      BY <1>1 DEF TypeOK
    <2>2. stream' \in States /\ tokens' \subseteq Nat
      BY <1>1 DEF States
    <2>. QED
      BY <1>1, <2>1, <2>2
  <1>7. /\ toServer' \in Seq(Requests) /\ fromServer' \in Seq(Nat)
        /\ ended' \in {"no", "failed", "refused"}
    <2>1. toServer' = <<>> /\ fromServer' = <<>> /\ ended' = "no"
      BY <1>1, Zenon DEF CallGone
    <2>2. toServer' \in Seq(Requests) /\ fromServer' \in Seq(Nat)
      BY <2>1
    <2>. QED
      BY <2>1, <2>2
  <1>8. TypeOK'
    BY <1>1, <1>3, <1>4, <1>5, <1>6, <1>7, Zenon DEF TypeOK
  <1>9. QueueInv'
    BY <1>1, <1>2, <1>3, <1>4, Zenon DEF QueueInv
  <1>10. StreamInv'
    BY <1>1 DEF StreamInv
  <1>11. CallInv'
    BY <1>1, CallGoneInv
  <1>12. KnowledgeInv'
    BY <1>1, <1>5, KnowledgeKept
  <1>. QED
    BY <1>8, <1>9, <1>10, <1>11, <1>12

(* A watch snapshot moves the cache forward only. *)
LEMMA WatchSnapshotStep ==
  ASSUME Inv, NEW n \in 1 .. Len(log), WatchSnapshot(n)
  PROVE  Inv'
  <1>. USE DEF Inv
  <1>1. /\ cache' = [d \in Docs |-> Watched(d, n)]
        /\ snapshot' = n
        /\ UNCHANGED <<queue, nextId, callbacks, pipeline, network, stream, handshake,
                       idle, closes, tokens, toServer, fromServer, ended, log, faults,
                       outcome, acked>>
    BY Zenon DEF WatchSnapshot, streamVars, wire
  <1>2. Len(log) \in Nat /\ n \in Nat /\ n \in 0 .. Len(log)
    BY DEF TypeOK
  <1>3. \A d \in Docs : cache[d] \in Contents /\ cache[d].ver \in Nat
    BY DEF TypeOK, Contents
  <1>4. ASSUME NEW d \in Docs
        PROVE  \/ cache'[d] = cache[d]
               \/ /\ cache'[d].ver \in 1 .. Len(log) /\ cache'[d].ver >= cache[d].ver
                  /\ cache'[d] \in Contents
                  /\ log[cache'[d].ver] = [doc |-> d, w |-> cache'[d].w]
    <2> DEFINE v == VersionAt(d, n)
    <2>1. v \in 0 .. n /\ (v # 0 => log[v].doc = d)
      BY <1>2, VersionAtIsOfDoc
    <2>2. cache'[d] = IF v > snapshot /\ (v > cache[d].ver \/ (v = cache[d].ver /\ cache[d].committed))
                      THEN [ver |-> v, w |-> log[v].w, committed |-> FALSE] ELSE cache[d]
      BY <1>1, Zenon DEF Watched
    <2>. HIDE DEF v
    <2>3. CASE v > snapshot /\ (v > cache[d].ver \/ (v = cache[d].ver /\ cache[d].committed))
      <3>1. cache'[d] = [ver |-> v, w |-> log[v].w, committed |-> FALSE]
        BY <2>2, <2>3, Zenon
      <3>2. v >= cache[d].ver
        BY <1>2, <1>3, <2>1, <2>3
      <3>3. snapshot \in Nat
        BY <1>2 DEF TypeOK
      <3>4. v \in 1 .. Len(log)
        BY <1>2, <2>1, <2>3, <3>3
      <3>5. log[v] \in [doc : Docs, w : 0 .. LastWrite] /\ log[v].doc = d
        <4>1. log \in Seq([doc : Docs, w : 0 .. LastWrite])
          BY DEF TypeOK
        <4>2. log[v] \in [doc : Docs, w : 0 .. LastWrite]
          BY <3>4, <4>1, ElementOfSeq, Zenon
        <4>3. v # 0
          BY <3>4
        <4>. QED
          BY <2>1, <4>2, <4>3
      <3>6. log[v] = [doc |-> d, w |-> log[v].w]
        BY <3>5
      <3>7. cache'[d] \in Contents
        BY <3>1, <3>4, <3>5 DEF Contents
      <3>. QED
        BY <3>1, <3>2, <3>4, <3>6, <3>7
    <2>4. CASE ~(v > snapshot /\ (v > cache[d].ver \/ (v = cache[d].ver /\ cache[d].committed)))
      BY <2>2, <2>4, Zenon
    <2>. QED
      BY <2>3, <2>4
  <1>5. TypeOK'
    <2>1. cache' \in [Docs -> Contents]
      <3>1. \A d \in Docs : cache'[d] \in Contents
        BY <1>3, <1>4, Zenon
      <3>. QED
        BY <1>1, <3>1
    <2>. QED
      BY <1>1, <1>2, <2>1, Zenon DEF TypeOK
  <1>6. QueueInv'
    BY <1>1, Zenon DEF QueueInv
  <1>7. StreamInv'
    BY <1>1, Zenon DEF StreamInv
  <1>8. CallInv'
    BY <1>1 DEF CallInv, InPlace, Read, Greeting
  <1>9. KnowledgeInv'
    <2>1. CacheIsServers'
      <3>1. ASSUME NEW d \in Docs, cache'[d].ver # 0
            PROVE  /\ cache'[d].ver <= Len(log)
                   /\ log[cache'[d].ver] = [doc |-> d, w |-> cache'[d].w]
        <4>1. CASE cache'[d] = cache[d]
          BY <3>1, <4>1 DEF KnowledgeInv, CacheIsServers
        <4>2. CASE cache'[d] # cache[d]
          BY <1>2, <1>4, <4>2
        <4>. QED
          BY <4>1, <4>2
      <3>. QED
        BY <1>1, <3>1 DEF CacheIsServers
    <2>2. OwnWritesSeen'
      <3>1. ASSUME NEW w \in Writes  PROVE acked[w] <= cache'[DocOf[w]].ver
        <4>1. DocOf[w] \in Docs /\ acked[w] \in Nat
          BY DEF TypeOK
        <4>2. acked[w] <= cache[DocOf[w]].ver
          BY DEF KnowledgeInv, OwnWritesSeen
        <4>3. cache'[DocOf[w]].ver \in Nat /\ cache'[DocOf[w]].ver >= cache[DocOf[w]].ver
          <5>1. CASE cache'[DocOf[w]] = cache[DocOf[w]]
            BY <1>3, <4>1, <5>1
          <5>2. CASE cache'[DocOf[w]] # cache[DocOf[w]]
            <6>1. /\ cache'[DocOf[w]].ver \in 1 .. Len(log)
                  /\ cache'[DocOf[w]].ver >= cache[DocOf[w]].ver
              BY <1>4, <4>1, <5>2, Zenon
            <6>. QED
              BY <1>2, <6>1
          <5>. QED
            BY <5>1, <5>2
        <4>. QED
          BY <1>3, <4>1, <4>2, <4>3
      <3>. QED
        BY <1>1, <3>1 DEF OwnWritesSeen
    <2>. QED
      BY <1>1, <2>1, <2>2 DEF KnowledgeInv, OkIsApplied
  <1>. QED
    BY <1>5, <1>6, <1>7, <1>8, <1>9

(* What the server does to the variables that are not its own. *)
LEMMA ServerFrame ==
  ASSUME Inv, NEW response \in Seq(Nat), NEW entries \in Seq([doc : Docs, w : 0 .. LastWrite]),
         NEW end \in {"no", "failed", "refused"}, toServer # <<>>,
         Server(response, entries, end)
  PROVE  /\ ended = "no" /\ stream = "Open" /\ ended' = end
         /\ TypeOK' /\ QueueInv' /\ StreamInv' /\ KnowledgeInv'
         /\ Len(toServer) \in Nat /\ Len(toServer) >= 1 /\ Len(fromServer) \in Nat
         /\ Len(toServer') = Len(toServer) - 1
         /\ \A i \in 1 .. Len(toServer) - 1 : toServer'[i] = toServer[i + 1]
         /\ Len(log) <= Len(log') /\ Len(log) \in Nat /\ Len(log') \in Nat
         /\ \A i \in 1 .. Len(log) : log'[i] = log[i]
  <1>. USE DEF Inv
  <1>1. /\ ended = "no" /\ toServer' = Tail(toServer)
        /\ fromServer' = fromServer \o response
        /\ log' = log \o entries /\ ended' = end
        /\ UNCHANGED <<queue, cache, snapshot, nextId, callbacks, pipeline, network,
                       stream, handshake, idle, closes, tokens, faults, outcome, acked>>
    BY Zenon DEF Server, disk, streamVars
  <1>2. stream = "Open"
    BY DEF CallInv
  <1>3. /\ toServer \in Seq(Requests) /\ fromServer \in Seq(Nat)
        /\ log \in Seq([doc : Docs, w : 0 .. LastWrite])
    BY DEF TypeOK
  <1>4. /\ toServer' \in Seq(Requests) /\ Len(toServer') = Len(toServer) - 1
        /\ Len(toServer) \in Nat /\ Len(toServer) >= 1
        /\ \A i \in 1 .. Len(toServer) - 1 : toServer'[i] = toServer[i + 1]
    BY <1>1, <1>3
  <1>5. fromServer' \in Seq(Nat) /\ Len(fromServer) \in Nat
    BY <1>1, <1>3
  <1>6. /\ log' \in Seq([doc : Docs, w : 0 .. LastWrite])
        /\ Len(log) <= Len(log') /\ Len(log) \in Nat /\ Len(log') \in Nat
        /\ \A i \in 1 .. Len(log) : log'[i] = log[i]
    <2> DEFINE Entries == [doc : Docs, w : 0 .. LastWrite]
    <2>1. log \in Seq(Entries) /\ entries \in Seq(Entries)
      BY <1>3
    <2>. HIDE DEF Entries
    <2>2. /\ log \o entries \in Seq(Entries)
          /\ Len(log) <= Len(log \o entries)
          /\ Len(log) \in Nat /\ Len(log \o entries) \in Nat
          /\ \A i \in 1 .. Len(log) : (log \o entries)[i] = log[i]
      BY <2>1
    <2>. QED
      BY <1>1, <2>2, Zenon DEF Entries
  <1>7. snapshot \in 0 .. Len(log')
    BY <1>6 DEF TypeOK
  <1>8. TypeOK'
    BY <1>1, <1>4, <1>5, <1>6, <1>7, Zenon DEF TypeOK
  <1>9. QueueInv'
    BY <1>1, Zenon DEF QueueInv
  <1>10. StreamInv'
    BY <1>1, Zenon DEF StreamInv
  <1>11. KnowledgeInv'
    BY <1>1, <1>6, LogGrows, Zenon
  <1>. QED
    BY <1>1, <1>2, <1>4, <1>5, <1>6, <1>8, <1>9, <1>10, <1>11, Zenon

(* The server answers the hello. *)
LEMMA ServerHandshakeStep ==
  ASSUME Inv, ServerHandshake
  PROVE  Inv'
  <1>1. /\ toServer # <<>> /\ Head(toServer) = Hello
        /\ Server(<<Hello>>, <<>>, "no")
    BY DEF ServerHandshake
  <1>2. <<Hello>> \in Seq(Nat) /\ <<>> \in Seq([doc : Docs, w : 0 .. LastWrite])
    BY DEF Hello
  <1>3. /\ ended = "no" /\ stream = "Open" /\ ended' = "no"
        /\ TypeOK' /\ QueueInv' /\ StreamInv' /\ KnowledgeInv'
        /\ Len(toServer) \in Nat /\ Len(toServer) >= 1 /\ Len(fromServer) \in Nat
        /\ Len(toServer') = Len(toServer) - 1
    BY <1>1, <1>2, ServerFrame
  <1>4. stream' = "Open" /\ handshake' = handshake /\ fromServer' = fromServer \o <<Hello>>
    BY <1>1, <1>3 DEF Server, streamVars
  <1>5. ~handshake
    <2>1. toServer \in Seq(Requests) /\ pipeline \in Seq(Batches) /\ fromServer \in Seq(Nat)
      BY DEF Inv, TypeOK
    <2>2. toServer[1] = 0 /\ 1 \in 1 .. Len(toServer)
      BY <1>1, <1>3, <2>1 DEF Hello
    <2>3. ASSUME handshake  PROVE toServer[1] # 0
      <3>1. Placed(toServer, pipeline, Read)
        BY <2>3 DEF Inv, CallInv, InPlace
      <3>2. Read = Len(fromServer)
        BY <1>3 DEF Read
      <3>3. Read + 1 \in 1 .. Len(pipeline)
        BY <1>3, <2>1, <3>1, <3>2 DEF Placed
      <3>4. toServer[1] = pipeline[Read + 1].w
        BY <2>2, <3>1 DEF Placed
      <3>5. pipeline[Read + 1].w \in Writes
        BY <2>1, <3>3, BatchFields
      <3>. QED
        BY <3>4, <3>5
    <2>. QED
      BY <2>2, <2>3
  <1>6. Greeting
    BY <1>5 DEF Inv, CallInv
  <1>7. Len(fromServer) = 0 /\ Len(toServer') = 0
    <2>1. Len(toServer) + Len(fromServer) <= 1
      BY <1>6 DEF Greeting
    <2>. QED
      BY <1>3, <2>1
  <1>8. fromServer' = <<Hello>>
    BY <1>4, <1>7 DEF Inv, TypeOK
  <1>9. Greeting'
    <2>1. Len(fromServer') = 1 /\ fromServer'[1] = Hello
      BY <1>8
    <2>2. \A i \in 1 .. Len(toServer') : FALSE
      BY <1>7
    <2>3. \A i \in 1 .. Len(fromServer') : fromServer'[i] = Hello
      BY <2>1
    <2>4. Len(toServer') + Len(fromServer') <= 1
      BY <1>7, <2>1
    <2>. QED
      BY <1>3, <2>2, <2>3, <2>4 DEF Greeting
  <1>10. CallInv'
    BY <1>4, <1>5, <1>9 DEF CallInv
  <1>. QED
    BY <1>3, <1>10 DEF Inv

(* Past the handshake the next request is the first batch not read yet.     *)
LEMMA NextRequest ==
  ASSUME Inv, toServer # <<>>, Head(toServer) # Hello, ended = "no"
  PROVE  /\ handshake /\ InPlace /\ Read = Len(fromServer)
         /\ Read + 1 \in 1 .. Len(pipeline)
         /\ Head(toServer) = pipeline[Read + 1].w /\ Head(toServer) \in Writes
  <1>1. /\ toServer \in Seq(Requests) /\ pipeline \in Seq(Batches)
        /\ Len(toServer) \in Nat /\ Len(toServer) >= 1 /\ Len(fromServer) \in Nat
        /\ Head(toServer) = toServer[1] /\ 1 \in 1 .. Len(toServer)
    BY DEF Inv, TypeOK
  <1>2. handshake
    BY <1>1 DEF Inv, CallInv, Greeting
  <1>3. InPlace /\ Read = Len(fromServer)
    BY <1>2 DEF Inv, CallInv, Read
  <1>4. Placed(toServer, pipeline, Read)
    BY <1>3 DEF InPlace
  <1>5. Read + 1 \in 1 .. Len(pipeline)
    <2>1. Read + Len(toServer) = Len(pipeline) /\ Read \in Nat
      BY <1>1, <1>3, <1>4 DEF Placed
    <2>. QED
      BY <1>1, <2>1
  <1>6. Head(toServer) = pipeline[Read + 1].w
    BY <1>1, <1>4 DEF Placed
  <1>7. pipeline[Read + 1].w \in Writes
    BY <1>1, <1>5, BatchFields
  <1>. QED
    BY <1>2, <1>3, <1>5, <1>6, <1>7

(* When the server has read a request, the others follow one place later.   *)
LEMMA ReadPlaced ==
  ASSUME NEW t \in Seq(Requests), NEW t1 \in Seq(Requests), NEW p \in Seq(Batches),
         NEW r \in Nat, Placed(t, p, r), Len(t) >= 1, Len(t1) = Len(t) - 1,
         \A i \in 1 .. Len(t) - 1 : t1[i] = t[i + 1]
  PROVE  Placed(t1, p, r + 1)
  <1>1. Len(t) \in Nat /\ Len(t1) \in Nat /\ Len(p) \in Nat
    OBVIOUS
  <1>2. r + Len(t) = Len(p)
    BY Zenon DEF Placed
  <1>3. (r + 1) + Len(t1) = Len(p)
    <2> DEFINE lt == Len(t)
               lt1 == Len(t1)
    <2>1. lt \in Nat /\ lt1 \in Nat /\ lt1 + 1 = lt /\ r + lt = Len(p)
      BY <1>1, <1>2
    <2>. HIDE DEF lt, lt1
    <2>2. (r + 1) + lt1 = Len(p)
      BY <2>1
    <2>. QED
      BY <2>2 DEF lt1
  <1>4. ASSUME NEW i \in 1 .. Len(t1)  PROVE t1[i] = p[(r + 1) + i].w
    <2>1. i \in 1 .. Len(t) - 1 /\ i + 1 \in 1 .. Len(t) /\ (r + 1) + i = r + (i + 1)
      BY <1>1
    <2>2. t1[i] = t[i + 1]
      BY <2>1, Zenon
    <2>3. t[i + 1] = p[r + (i + 1)].w
      BY <2>1, Zenon DEF Placed
    <2>. QED
      BY <2>1, <2>2, <2>3
  <1>. QED
    BY <1>3, <1>4, Zenon DEF Placed

(* The server commits the first batch it has not read. *)
LEMMA ServerAppliesStep ==
  ASSUME Inv, ServerApplies
  PROVE  Inv'
  <1> DEFINE w == Head(toServer)
             response == <<Len(log) + 1>>
             entries == <<[doc |-> DocOf[w], w |-> w]>>
  <1>1. toServer # <<>> /\ w # Hello /\ Server(response, entries, "no")
    BY Zenon DEF ServerApplies
  <1>2. ended = "no"
    BY <1>1, Zenon DEF Server
  <1>3. /\ handshake /\ InPlace /\ Read = Len(fromServer)
        /\ Read + 1 \in 1 .. Len(pipeline)
        /\ w = pipeline[Read + 1].w /\ w \in Writes
    BY <1>1, <1>2, NextRequest, Zenon
  <1>4. /\ fromServer \in Seq(Nat) /\ log \in Seq([doc : Docs, w : 0 .. LastWrite])
        /\ toServer \in Seq(Requests) /\ pipeline \in Seq(Batches)
        /\ Len(log) \in Nat /\ Len(fromServer) \in Nat
    BY DEF Inv, TypeOK
  <1>5. response \in Seq(Nat) /\ entries \in Seq([doc : Docs, w : 0 .. LastWrite])
    <2>1. DocOf[w] \in Docs /\ w \in 0 .. LastWrite
      BY <1>3
    <2>2. [doc |-> DocOf[w], w |-> w] \in [doc : Docs, w : 0 .. LastWrite]
      BY <2>1
    <2>. QED
      BY <1>4, <2>2
  <1>6. /\ stream = "Open" /\ ended' = "no"
        /\ TypeOK' /\ QueueInv' /\ StreamInv' /\ KnowledgeInv'
        /\ Len(toServer) \in Nat /\ Len(toServer) >= 1
        /\ Len(toServer') = Len(toServer) - 1
        /\ \A i \in 1 .. Len(toServer) - 1 : toServer'[i] = toServer[i + 1]
        /\ \A i \in 1 .. Len(log) : log'[i] = log[i]
    BY <1>1, <1>5, ServerFrame, Zenon
  <1>7. /\ fromServer' = fromServer \o response /\ log' = log \o entries
        /\ stream' = stream /\ handshake' = handshake /\ pipeline' = pipeline
    BY <1>1, Zenon DEF Server, streamVars
  <1>8. /\ Len(fromServer') = Len(fromServer) + 1
        /\ \A i \in 1 .. Len(fromServer) : fromServer'[i] = fromServer[i]
        /\ fromServer'[Len(fromServer) + 1] = Len(log) + 1
        /\ Len(log') = Len(log) + 1 /\ log'[Len(log) + 1] = EntryOf(w)
    <2>1. /\ Len(fromServer') = Len(fromServer) + 1
          /\ \A i \in 1 .. Len(fromServer) : fromServer'[i] = fromServer[i]
          /\ fromServer'[Len(fromServer) + 1] = Len(log) + 1
      BY <1>4, <1>7
    <2> DEFINE e == [doc |-> DocOf[w], w |-> w]
    <2>2. log' = log \o <<e>>
      BY <1>7
    <2>3. Len(log') = Len(log) + 1 /\ log'[Len(log) + 1] = e
      <3>. HIDE DEF e
      <3>. QED
        BY <1>4, <2>2
    <2>. QED
      BY <2>1, <2>3 DEF EntryOf
  <1>. HIDE DEF w
  <1>9. Read' = Read + 1 /\ Read \in Nat
    BY <1>3, <1>4, <1>6, <1>8 DEF Read
  <1>10. Placed(toServer', pipeline', Read')
    <2>1. toServer' \in Seq(Requests) /\ Placed(toServer, pipeline, Read)
      BY <1>3, <1>6 DEF TypeOK, InPlace
    <2>2. Placed(toServer', pipeline, Read + 1)
      BY <1>4, <1>6, <1>9, <2>1, ReadPlaced, Zenon
    <2>. QED
      BY <1>7, <1>9, <2>2, Zenon
  <1>11. ASSUME NEW i \in 1 .. Len(fromServer')
         PROVE  /\ fromServer'[i] \in 1 .. Len(log')
                /\ log'[fromServer'[i]] = EntryOf(pipeline[i].w)
    <2>1. CASE i \in 1 .. Len(fromServer)
      <3>1. /\ fromServer[i] \in 1 .. Len(log)
            /\ log[fromServer[i]] = EntryOf(pipeline[i].w)
        BY <1>3, <2>1, Zenon DEF InPlace
      <3>2. fromServer'[i] = fromServer[i] /\ log'[fromServer[i]] = log[fromServer[i]]
        BY <1>6, <1>8, <2>1, <3>1, Zenon
      <3>. QED
        BY <1>4, <1>8, <3>1, <3>2
    <2>2. CASE i = Len(fromServer) + 1
      <3>1. fromServer'[i] = Len(log) + 1 /\ pipeline[i].w = w
        BY <1>3, <1>8, <2>2
      <3>. QED
        BY <1>4, <1>8, <3>1
    <2>. QED
      BY <1>4, <1>8, <2>1, <2>2
  <1>12. InPlace'
    BY <1>7, <1>10, <1>11, Zenon DEF InPlace, EntryOf
  <1>13. CallInv'
    BY <1>3, <1>6, <1>7, <1>12 DEF CallInv
  <1>. QED
    BY <1>6, <1>13 DEF Inv

(* The server refuses it. *)
LEMMA ServerRefusesStep ==
  ASSUME Inv, ServerRefuses
  PROVE  Inv'
  <1>1. /\ toServer # <<>> /\ Head(toServer) \in Refusable
        /\ Server(<<>>, <<>>, "refused")
    BY DEF ServerRefuses
  <1>2. ended = "no" /\ Head(toServer) # Hello
    BY <1>1 DEF Server, Hello
  <1>3. handshake /\ InPlace /\ Read = Len(fromServer)
    BY <1>1, <1>2, NextRequest, Zenon
  <1>4. /\ fromServer \in Seq(Nat) /\ log \in Seq([doc : Docs, w : 0 .. LastWrite])
        /\ toServer \in Seq(Requests) /\ pipeline \in Seq(Batches)
        /\ Len(fromServer) \in Nat
    BY DEF Inv, TypeOK
  <1>5. /\ stream = "Open" /\ ended' = "refused"
        /\ TypeOK' /\ QueueInv' /\ StreamInv' /\ KnowledgeInv'
        /\ Len(toServer) \in Nat /\ Len(toServer) >= 1
        /\ Len(toServer') = Len(toServer) - 1
        /\ \A i \in 1 .. Len(toServer) - 1 : toServer'[i] = toServer[i + 1]
    <2>1. <<>> \in Seq(Nat) /\ <<>> \in Seq([doc : Docs, w : 0 .. LastWrite])
      OBVIOUS
    <2>. QED
      BY <1>1, <2>1, ServerFrame, Zenon
  <1>6. /\ fromServer' = fromServer \o <<>> /\ log' = log \o <<>>
        /\ stream' = stream /\ handshake' = handshake /\ pipeline' = pipeline
    BY <1>1, Zenon DEF Server, streamVars
  <1>7. fromServer' = fromServer /\ log' = log
    BY <1>4, <1>6
  <1>8. Read' = Read + 1 /\ Read \in Nat
    BY <1>3, <1>4, <1>5, <1>7 DEF Read
  <1>9. Placed(toServer', pipeline', Read')
    <2>1. toServer' \in Seq(Requests) /\ Placed(toServer, pipeline, Read)
      BY <1>3, <1>5 DEF TypeOK, InPlace
    <2>2. Placed(toServer', pipeline, Read + 1)
      BY <1>4, <1>5, <1>8, <2>1, ReadPlaced, Zenon
    <2>. QED
      BY <1>6, <1>8, <2>2, Zenon
  <1>10. InPlace'
    BY <1>3, <1>6, <1>7, <1>9, Zenon DEF InPlace, EntryOf
  <1>11. CallInv'
    BY <1>3, <1>5, <1>6, <1>10 DEF CallInv
  <1>. QED
    BY <1>5, <1>11 DEF Inv

(* The call ends with another error. *)
LEMMA CallFailsStep ==
  ASSUME Inv, CallFails
  PROVE  Inv'
  <1>. USE DEF Inv
  <1>1. /\ faults < MaxFaults /\ faults' = faults + 1
        /\ stream = "Open" /\ ended = "no" /\ ended' = "failed"
        /\ UNCHANGED <<queue, cache, snapshot, nextId, callbacks, pipeline, network,
                       stream, handshake, idle, closes, tokens, toServer, fromServer,
                       log, outcome, acked>>
    BY Zenon DEF CallFails, Fault, disk, streamVars
  <1>2. TypeOK'
    <2>1. faults' \in 0 .. MaxFaults /\ ended' \in {"no", "failed", "refused"}
      BY <1>1 DEF TypeOK
    <2>. QED
      BY <1>1, <2>1, Zenon DEF TypeOK
  <1>3. QueueInv'
    BY <1>1, Zenon DEF QueueInv
  <1>4. StreamInv'
    BY <1>1, Zenon DEF StreamInv
  <1>5. CallInv'
    BY <1>1 DEF CallInv, InPlace, Read, Greeting
  <1>6. KnowledgeInv'
    BY <1>1, KnowledgeKept
  <1>. QED
    BY <1>2, <1>3, <1>4, <1>5, <1>6

(* Another device writes. *)
LEMMA OtherWriteStep ==
  ASSUME Inv, NEW d \in Docs, OtherWrite(d)
  PROVE  Inv'
  <1>. USE DEF Inv
  <1> DEFINE e == [doc |-> d, w |-> 0]
  <1>1. /\ log' = Append(log, e)
        /\ UNCHANGED <<queue, cache, snapshot, nextId, callbacks, pipeline, network,
                       stream, handshake, idle, closes, tokens, toServer, fromServer,
                       ended, faults, outcome, acked>>
    BY Zenon DEF OtherWrite, disk, streamVars, wire
  <1>2. e \in [doc : Docs, w : 0 .. LastWrite]
    OBVIOUS
  <1>. HIDE DEF e
  <1>3. /\ log' \in Seq([doc : Docs, w : 0 .. LastWrite])
        /\ Len(log) \in Nat /\ Len(log') \in Nat /\ Len(log) <= Len(log')
        /\ \A i \in 1 .. Len(log) : log'[i] = log[i]
    <2>1. log \in Seq([doc : Docs, w : 0 .. LastWrite])
      BY DEF TypeOK
    <2>. QED
      BY <1>1, <1>2, <2>1
  <1>4. TypeOK'
    <2>1. snapshot \in 0 .. Len(log')
      BY <1>3 DEF TypeOK
    <2>. QED
      BY <1>1, <1>3, <2>1, Zenon DEF TypeOK
  <1>5. QueueInv'
    BY <1>1, Zenon DEF QueueInv
  <1>6. StreamInv'
    BY <1>1, Zenon DEF StreamInv
  <1>7. CallInv'
    <2>1. ASSUME InPlace  PROVE InPlace'
      <3>1. Placed(toServer', pipeline', Read')
        BY <1>1, <2>1 DEF InPlace, Read
      <3>2. ASSUME NEW i \in 1 .. Len(fromServer)
            PROVE  /\ fromServer[i] \in 1 .. Len(log')
                   /\ log'[fromServer[i]] = EntryOf(pipeline[i].w)
        BY <1>3, <2>1 DEF InPlace
      <3>. QED
        BY <1>1, <3>1, <3>2, Zenon DEF InPlace, EntryOf
    <2>2. Greeting => Greeting'
      BY <1>1 DEF Greeting
    <2>. QED
      BY <1>1, <2>1, <2>2 DEF CallInv
  <1>8. KnowledgeInv'
    BY <1>1, <1>3, LogGrows, Zenon
  <1>. QED
    BY <1>4, <1>5, <1>6, <1>7, <1>8

-----------------------------------------------------------------------------
(* The invariant holds. *)

(* Nothing has been written and nothing is on its way. *)
LEMMA InitInv == Init => Inv
  <1>1. SUFFICES ASSUME Init  PROVE Inv
    OBVIOUS
  <1>2. \A d \in Docs : cache[d] = NoContent /\ cache[d].ver = 0
    BY <1>1 DEF Init, NoContent
  <1>3. \A w \in Writes : acked[w] = 0 /\ outcome[w] = "none"
    BY <1>1 DEF Init
  <1>4. TypeOK
    <2>1. cache \in [Docs -> Contents]
      BY <1>1 DEF Init, NoContent, Contents
    <2>2. outcome \in [Writes -> Outcomes] /\ acked \in [Writes -> Nat]
      BY <1>1 DEF Init, Outcomes
    <2>3. /\ queue \in Seq(Batches) /\ pipeline \in Seq(Batches)
          /\ Len(pipeline) <= MaxPending
          /\ toServer \in Seq(Requests) /\ fromServer \in Seq(Nat)
          /\ log \in Seq([doc : Docs, w : 0 .. LastWrite]) /\ Len(log) = 0
      BY <1>1 DEF Init
    <2>4. /\ snapshot \in 0 .. Len(log) /\ nextId \in Nat /\ closes \in Nat
          /\ faults \in 0 .. MaxFaults /\ tokens \subseteq Nat
          /\ callbacks \subseteq Batches /\ stream \in States
          /\ ended \in {"no", "failed", "refused"}
      BY <1>1, <2>3 DEF Init, States
    <2>5. network \in BOOLEAN /\ handshake \in BOOLEAN /\ idle \in BOOLEAN
      BY <1>1, Zenon DEF Init
    <2>. QED
      BY <2>1, <2>2, <2>3, <2>4, <2>5, Zenon DEF TypeOK
  <1>5. QueueInv
    BY <1>1 DEF Init, QueueInv, IsHead, Rising
  <1>6. StreamInv
    BY <1>1 DEF Init, StreamInv
  <1>7. CallInv
    BY <1>1 DEF Init, CallInv, Greeting
  <1>8. KnowledgeInv
    <2>1. \A w \in Writes : DocOf[w] \in Docs
      OBVIOUS
    <2>2. OwnWritesSeen
      BY <1>2, <1>3, <2>1 DEF OwnWritesSeen
    <2>. QED
      BY <1>2, <1>3, <2>2 DEF KnowledgeInv, CacheIsServers, OkIsApplied
  <1>. QED
    BY <1>4, <1>5, <1>6, <1>7, <1>8 DEF Inv

(* Nothing changes. *)
LEMMA StutterStep ==
  ASSUME Inv, UNCHANGED vars
  PROVE  Inv'
  <1>. USE DEF Inv
  <1>1. UNCHANGED <<queue, cache, snapshot, nextId, callbacks, pipeline, network,
                    stream, handshake, idle, closes, tokens, toServer, fromServer,
                    ended, log, faults, outcome, acked>>
    BY Zenon DEF vars, disk, streamVars, wire
  <1>2. TypeOK'
    BY <1>1, Zenon DEF TypeOK
  <1>3. QueueInv'
    BY <1>1, Zenon DEF QueueInv
  <1>4. StreamInv'
    BY <1>1, Zenon DEF StreamInv
  <1>5. CallInv'
    BY <1>1 DEF CallInv, InPlace, Read, Greeting
  <1>6. KnowledgeInv'
    BY <1>1, KnowledgeKept
  <1>. QED
    BY <1>2, <1>3, <1>4, <1>5, <1>6

(* Every step keeps the invariant. *)
LEMMA NextInv == Inv /\ [Next]_vars => Inv'
  <1>. SUFFICES ASSUME Inv, [Next]_vars  PROVE Inv'
    OBVIOUS
  <1>1. CASE User
    BY <1>1, UserWriteStep, Zenon DEF User
  <1>2. CASE Token
    BY <1>2, TokenArrivesStep, Zenon DEF Token
  <1>3. CASE TokenFails
    BY <1>3, TokenFailsStep
  <1>4. CASE BackoffElapsed
    BY <1>4, BackoffElapsedStep
  <1>5. CASE Response
    BY <1>5, HandshakeCompleteStep, MutationResultStep, Zenon DEF Response
  <1>6. CASE StreamEnds
    <2>1. /\ stream = "Open" /\ (ended = "refused") \in BOOLEAN
          /\ CloseOnError(ended = "refused") /\ faults' = faults
      BY <1>6 DEF StreamEnds
    <2>2. faults' \in 0 .. MaxFaults
      BY <2>1 DEF Inv, TypeOK
    <2>. QED
      BY <2>1, <2>2, CloseOnErrorStep, Zenon
  <1>7. CASE ConnectivityChange
    <2>1. /\ stream = "Open" /\ CloseOnError(FALSE)
          /\ faults < MaxFaults /\ faults' = faults + 1
      BY <1>7, Zenon DEF ConnectivityChange, Fault
    <2>2. faults' \in 0 .. MaxFaults
      BY <2>1 DEF Inv, TypeOK
    <2>. QED
      BY <2>1, <2>2, CloseOnErrorStep, Zenon
  <1>8. CASE IdleTimeout
    <2>1. /\ idle /\ StopStream
          /\ UNCHANGED <<queue, cache, snapshot, nextId, callbacks, pipeline, network,
                         tokens, log, faults, outcome, acked>>
      BY <1>8, Zenon DEF IdleTimeout, disk
    <2>2. network' \in BOOLEAN /\ faults' \in 0 .. MaxFaults
      BY <2>1, Zenon DEF Inv, TypeOK
    <2>3. ~network' => pipeline' = <<>>
      BY <2>1, Zenon DEF Inv, StreamInv
    <2>. QED
      BY <2>1, <2>2, <2>3, StoppedStep, Zenon
  <1>9. CASE DisableNetwork
    <2>1. /\ faults < MaxFaults /\ faults' = faults + 1
          /\ network' = FALSE /\ pipeline' = <<>> /\ StopStream
          /\ UNCHANGED <<queue, cache, snapshot, nextId, callbacks, tokens, log,
                         outcome, acked>>
      BY <1>9, Zenon DEF DisableNetwork, Fault, disk
    <2>2. network' \in BOOLEAN /\ faults' \in 0 .. MaxFaults
      <3>1. faults \in 0 .. MaxFaults
        BY DEF Inv, TypeOK
      <3>2. faults' \in 0 .. MaxFaults
        BY <2>1, <3>1
      <3>. QED
        BY <2>1, <3>2, Zenon
    <2>. QED
      BY <2>1, <2>2, StoppedStep, Zenon
  <1>10. CASE EnableNetwork
    BY <1>10, EnableNetworkStep
  <1>11. CASE Relaunch
    BY <1>11, RelaunchStep
  <1>12. CASE \E n \in 1 .. Len(log) : WatchSnapshot(n)
    BY <1>12, WatchSnapshotStep, Zenon
  <1>13. CASE ServerReads
    BY <1>13, ServerHandshakeStep, ServerAppliesStep, ServerRefusesStep, Zenon
       DEF ServerReads
  <1>14. CASE CallFails
    BY <1>14, CallFailsStep
  <1>15. CASE \E d \in Docs : OtherWrite(d)
    BY <1>15, OtherWriteStep, Zenon
  <1>16. CASE UNCHANGED vars
    BY <1>16, StutterStep
  <1>. QED
    BY <1>1, <1>2, <1>3, <1>4, <1>5, <1>6, <1>7, <1>8, <1>9, <1>10, <1>11, <1>12,
       <1>13, <1>14, <1>15, <1>16, Zenon DEF Next

(* The invariant of the writing client. *)
LEMMA Invariance == Spec => []Inv
  <1>. QED
    BY InitInv, NextInv, PTL DEF Spec

-----------------------------------------------------------------------------
(* What follows from it. *)

(* The head of a sequence, as a subsequence. *)
LEMMA HeadIsSubSeq ==
  ASSUME NEW q \in Seq(Batches), NEW p \in Seq(Batches), IsHead(p, q)
  PROVE  p = SubSeq(q, 1, Len(p))
  <1>1. Len(p) \in Nat /\ Len(q) \in Nat /\ Len(p) <= Len(q)
    BY DEF IsHead
  <1>2. /\ SubSeq(q, 1, Len(p)) \in Seq(Batches)
        /\ Len(SubSeq(q, 1, Len(p))) = Len(p)
        /\ \A i \in 1 .. Len(p) : SubSeq(q, 1, Len(p))[i] = q[i]
    BY <1>1
  <1>3. \A i \in 1 .. Len(p) : p[i] = SubSeq(q, 1, Len(p))[i]
    BY <1>2, Zenon DEF IsHead
  <1>. QED
    BY <1>2, <1>3, SeqEqual, Zenon

(* Variables keep their types; the pipeline keeps to its limit.             *)
THEOREM WritesTypeCorrect == Spec => []TypeOK
  <1>1. Inv => TypeOK
    BY DEF Inv
  <1>. QED
    BY Invariance, <1>1, PTL

(* Responses on their way and requests not read yet are for the batches of  *)
(* the pipeline, one for one and in order.                                  *)
THEOREM ResponsesInStep == Spec => []InStep
  <1>1. ASSUME Inv, stream = "Open", handshake
        PROVE  LET n == Len(fromServer)
                   p == WritesIn(pipeline)
               IN  /\ n <= Len(p)
                   /\ Answered = SubSeq(p, 1, n)
                   /\ toServer = SubSeq(p, IF ended = "refused" THEN n + 2 ELSE n + 1, Len(p))
    <2> DEFINE n == Len(fromServer)
               p == WritesIn(pipeline)
    <2>1. /\ pipeline \in Seq(Batches) /\ toServer \in Seq(Requests)
          /\ Len(pipeline) \in Nat /\ Len(toServer) \in Nat /\ n \in Nat
          /\ Read \in {n, n + 1}
      BY <1>1 DEF Inv, TypeOK, Read
    <2>2. /\ p \in Seq(Requests) /\ Len(p) = Len(pipeline)
          /\ \A i \in 1 .. Len(pipeline) : p[i] = pipeline[i].w
      BY <2>1, WritesInFields, Zenon
    <2>3. InPlace /\ Placed(toServer, pipeline, Read)
      BY <1>1 DEF Inv, CallInv, InPlace
    <2>4. Read + Len(toServer) = Len(pipeline)
      BY <2>3, Zenon DEF Placed
    <2>5. Read <= Len(p) /\ n <= Len(p)
      BY <2>1, <2>2, <2>4
    <2>6. /\ Len(Answered) = n
          /\ \A i \in 1 .. n : Answered[i] = p[i] /\ Answered[i] \in Requests
          /\ Answered = [i \in 1 .. n |-> p[i]]
      <3>1. ASSUME NEW i \in 1 .. n
            PROVE  log[fromServer[i]].w = p[i] /\ p[i] \in Requests
        <4>1. log[fromServer[i]] = EntryOf(pipeline[i].w)
          BY <2>3, Zenon DEF InPlace
        <4>2. i \in 1 .. Len(pipeline) /\ i \in 1 .. Len(p)
          BY <2>1, <2>2, <2>5
        <4>3. p[i] = pipeline[i].w /\ p[i] \in Requests
          BY <2>2, <4>2, ElementOfSeq, Zenon
        <4>. QED
          BY <4>1, <4>3 DEF EntryOf
      <3>. HIDE DEF p
      <3>. QED
        BY <2>1, <3>1 DEF Answered
    <2>. HIDE DEF p, n
    <2>7. Answered = SubSeq(p, 1, n)
      <3>1. /\ SubSeq(p, 1, n) \in Seq(Requests)
            /\ Len(SubSeq(p, 1, n)) = n
            /\ \A i \in 1 .. n : SubSeq(p, 1, n)[i] = p[i]
        BY <2>1, <2>2, <2>5
      <3>2. Answered \in Seq(Requests)
        BY <2>1, <2>6
      <3>. QED
        BY <2>6, <3>1, <3>2, SeqEqual, Zenon
    <2>8. toServer = SubSeq(p, Read + 1, Len(p))
      <3> DEFINE r == Read
                 l == Len(p)
      <3>1. r \in Nat /\ l \in Nat /\ r + 1 \in 1 .. l + 1 /\ r + Len(toServer) = l
        BY <2>1, <2>2, <2>4, <2>5
      <3>2. \A i \in 1 .. Len(toServer) : toServer[i] = p[r + i]
        <4>1. ASSUME NEW i \in 1 .. Len(toServer)  PROVE toServer[i] = p[r + i]
          <5>1. toServer[i] = pipeline[r + i].w
            BY <2>3, Zenon DEF Placed
          <5>2. r + i \in 1 .. Len(pipeline)
            BY <2>1, <2>2, <3>1
          <5>. QED
            BY <2>2, <5>1, <5>2, Zenon
        <4>. QED
          BY <4>1
      <3>. HIDE DEF r, l
      <3>3. p \in Seq(Requests) /\ Len(p) = l
        BY <2>2 DEF l
      <3>4. /\ SubSeq(p, r + 1, l) \in Seq(Requests)
            /\ Len(SubSeq(p, r + 1, l)) = l - r
            /\ \A i \in 1 .. l - r : SubSeq(p, r + 1, l)[i] = p[(r + 1) + i - 1]
        BY <3>1, <3>3
      <3>5. Len(toServer) = l - r /\ \A i \in 1 .. l - r : (r + 1) + i - 1 = r + i
        BY <2>1, <3>1
      <3>6. \A i \in 1 .. Len(toServer) : toServer[i] = SubSeq(p, r + 1, l)[i]
        BY <3>2, <3>4, <3>5
      <3>7. toServer = SubSeq(p, r + 1, l)
        BY <2>1, <3>4, <3>5, <3>6, SeqEqual, Zenon
      <3>. QED
        BY <3>7 DEF r, l
    <2>9. Read + 1 = IF ended = "refused" THEN n + 2 ELSE n + 1
      BY <2>1 DEF Read, n
    <2>. QED
      BY <2>5, <2>7, <2>8, <2>9, Zenon DEF p, n
  <1>2. Inv => InStep
    BY <1>1, Zenon DEF InStep
  <1>. QED
    BY Invariance, <1>2, PTL

(* Nothing is sent out of turn, and what is in the pipeline is on disk.     *)
THEOREM PipelineIsFromQueue == Spec => []PipelineFromQueue
  <1>1. Inv => PipelineFromQueue
    <2>. SUFFICES ASSUME Inv  PROVE PipelineFromQueue
      OBVIOUS
    <2>1. /\ queue \in Seq(Batches) /\ pipeline \in Seq(Batches)
          /\ IsHead(pipeline, queue) /\ Rising(queue)
          /\ \A i \in 1 .. Len(queue) : queue[i].id < nextId
      BY DEF Inv, TypeOK, QueueInv
    <2>2. pipeline = SubSeq(queue, 1, Len(pipeline))
      BY <2>1, HeadIsSubSeq, Zenon
    <2>. QED
      BY <2>1, <2>2, Zenon DEF PipelineFromQueue, IsHead, Rising
  <1>. QED
    BY Invariance, <1>1, PTL

(* The idle timer never runs while writes wait, and the answer to a request *)
(* for a token that is current finds the stream in "Starting".              *)
THEOREM TimersAndTokensAreCurrent == Spec => []TimersAndTokensCurrent
  <1>1. Inv => TimersAndTokensCurrent
    BY DEF Inv, StreamInv, TimersAndTokensCurrent
  <1>. QED
    BY Invariance, <1>1, PTL

(* Completions without an error tell the truth. *)
THEOREM OkMeansApplied == Spec => []OkIsApplied
  <1>1. Inv => OkIsApplied
    BY DEF Inv, KnowledgeInv
  <1>. QED
    BY Invariance, <1>1, PTL

(* The cache holds what the server had at the version it names.             *)
THEOREM CacheIsTheServers == Spec => []CacheIsServers
  <1>1. Inv => CacheIsServers
    BY DEF Inv, KnowledgeInv
  <1>. QED
    BY Invariance, <1>1, PTL

(* The cache never falls behind an acknowledged write of the device.        *)
THEOREM OwnWritesAreSeen == Spec => []OwnWritesSeen
  <1>1. Inv => OwnWritesSeen
    BY DEF Inv, KnowledgeInv
  <1>. QED
    BY Invariance, <1>1, PTL

-----------------------------------------------------------------------------
(* Completions in order. *)

(* The writes of the queue are in the order they were issued in, one that   *)
(* is pending is in the queue with its completion, and the writes issued    *)
(* are the first ones.                                                      *)
OrderInv ==
  /\ \A i, j \in 1 .. Len(queue) : i < j => queue[i].w < queue[j].w
  /\ \A i \in 1 .. Len(queue) : outcome[queue[i].w] # "none"
  /\ \A w \in Writes : outcome[w] = "pending" =>
       \E i \in 1 .. Len(queue) : queue[i].w = w /\ queue[i] \in callbacks
  /\ \A v, w \in Writes : v < w /\ outcome[w] # "none" => outcome[v] # "none"
  /\ CompletionsInOrder

(* Only the steps that touch queue, completions or outcomes matter. *)
LEMMA OrderKept ==
  ASSUME OrderInv, UNCHANGED <<queue, callbacks, outcome>>
  PROVE  OrderInv'
  BY DEF OrderInv, CompletionsInOrder

(* A new write is later than all others. *)
LEMMA OrderOfNewWrite ==
  ASSUME Inv, OrderInv, NEW w \in Writes, UserWrite(w)
  PROVE  OrderInv'
  <1> DEFINE b == [id |-> nextId, w |-> w]
  <1>1. /\ w \notin Issued
        /\ queue' = Append(queue, b) /\ callbacks' = callbacks \cup {b}
        /\ outcome' = [outcome EXCEPT ![w] = "pending"]
    BY Zenon DEF UserWrite
  <1>2. /\ queue \in Seq(Batches) /\ outcome \in [Writes -> Outcomes]
        /\ outcome[w] = "none" /\ b \in Batches /\ b.w = w
    BY <1>1 DEF Inv, TypeOK, Issued, Batches
  <1>3. \A i \in 1 .. Len(queue) : queue[i] \in Batches /\ queue[i].w \in Writes
    BY <1>2, BatchFields
  <1>. HIDE DEF b
  <1>4. /\ Len(queue) \in Nat /\ Len(queue') = Len(queue) + 1
        /\ \A i \in 1 .. Len(queue) : queue'[i] = queue[i]
        /\ queue'[Len(queue) + 1] = b
    BY <1>1, <1>2
  <1>5. \A i \in 1 .. Len(queue') :
          \/ i \in 1 .. Len(queue) /\ queue'[i] = queue[i]
          \/ i = Len(queue) + 1 /\ queue'[i] = b
    BY <1>4
  <1>6. \A v \in Writes : v # w => outcome'[v] = outcome[v]
    BY <1>1, <1>2
  <1>7. outcome'[w] = "pending"
    BY <1>1, <1>2
  <1>8. \A v \in Writes : outcome[v] # "none" => v < w
    BY <1>2 DEF OrderInv
  <1>9. ASSUME NEW i \in 1 .. Len(queue'), NEW j \in 1 .. Len(queue'), i < j
        PROVE  queue'[i].w < queue'[j].w
    <2>1. i \in 1 .. Len(queue) /\ queue'[i] = queue[i]
      BY <1>4, <1>9
    <2>2. CASE j \in 1 .. Len(queue)
      BY <1>4, <1>9, <2>1, <2>2 DEF OrderInv
    <2>3. CASE j = Len(queue) + 1
      BY <1>2, <1>3, <1>4, <1>8, <2>1, <2>3 DEF OrderInv
    <2>. QED
      BY <1>5, <2>2, <2>3
  <1>10. \A i \in 1 .. Len(queue') : outcome'[queue'[i].w] # "none"
    BY <1>2, <1>3, <1>5, <1>6, <1>7 DEF OrderInv
  <1>11. ASSUME NEW v \in Writes, outcome'[v] = "pending"
         PROVE  \E i \in 1 .. Len(queue') : queue'[i].w = v /\ queue'[i] \in callbacks'
    <2>1. CASE v = w
      <3>1. Len(queue) + 1 \in 1 .. Len(queue')
        BY <1>4
      <3>. QED
        BY <1>1, <1>2, <1>4, <2>1, <3>1
    <2>2. CASE v # w
      <3>1. PICK i \in 1 .. Len(queue) : queue[i].w = v /\ queue[i] \in callbacks
        BY <1>6, <1>11, <2>2 DEF OrderInv
      <3>2. i \in 1 .. Len(queue') /\ queue'[i] = queue[i]
        BY <1>4
      <3>. QED
        BY <1>1, <3>1, <3>2
    <2>. QED
      BY <2>1, <2>2
  <1>12. ASSUME NEW u \in Writes, NEW v \in Writes, u < v, outcome'[v] # "none"
         PROVE  outcome'[u] # "none"
    <2>1. CASE v = w
      <3>1. \A x \in Writes : x < w => x \in Issued
        BY Zenon DEF UserWrite
      <3>2. outcome[u] # "none" /\ u # w
        BY <1>12, <2>1, <3>1 DEF Issued
      <3>. QED
        BY <1>6, <3>2
    <2>2. CASE v # w
      BY <1>6, <1>7, <1>12, <2>2 DEF OrderInv
    <2>. QED
      BY <2>1, <2>2
  <1>13. ASSUME NEW u \in Writes, NEW v \in Writes, u < v, outcome'[v] \in {"ok", "error"}
         PROVE  outcome'[u] # "pending"
    <2>1. v # w /\ outcome[v] \in {"ok", "error"}
      BY <1>6, <1>7, <1>13
    <2>2. v < w
      BY <1>8, <2>1
    <2>3. u # w /\ outcome'[u] = outcome[u]
      BY <1>6, <1>13, <2>2
    <2>. QED
      BY <1>13, <2>1, <2>3 DEF OrderInv, CompletionsInOrder
  <1>. QED
    BY <1>9, <1>10, <1>11, <1>12, <1>13, Zenon DEF OrderInv, CompletionsInOrder

(* The front of the pipeline, which is completed, is the first write held. *)
LEMMA OrderOfCompletion ==
  ASSUME Inv, OrderInv, pipeline # <<>>,
         queue' = Without(Head(pipeline), queue),
         callbacks' = callbacks \ {Head(pipeline)},
         NEW r \in {"ok", "error"},
         outcome' = IF Head(pipeline) \in callbacks
                    THEN [outcome EXCEPT ![Head(pipeline).w] = r] ELSE outcome
  PROVE  OrderInv'
  <1> DEFINE b == Head(pipeline)
  <1>1. /\ b \in Batches /\ queue' = Tail(queue)
    BY FrontGoes, Zenon
  <1>2. /\ queue \in Seq(Batches) /\ pipeline \in Seq(Batches)
        /\ outcome \in [Writes -> Outcomes] /\ IsHead(pipeline, queue)
    BY DEF Inv, TypeOK, QueueInv
  <1>3. queue # <<>> /\ b = queue[1]
    BY <1>2 DEF IsHead
  <1>4. b.w \in Writes /\ \A i \in 1 .. Len(queue) : queue[i].w \in Writes
    BY <1>1, <1>2, BatchFields
  <1>5. callbacks' = callbacks \ {b}
        /\ outcome' = IF b \in callbacks THEN [outcome EXCEPT ![b.w] = r] ELSE outcome
    OBVIOUS
  <1>. HIDE DEF b
  <1>6. /\ Len(queue) \in Nat /\ Len(queue) >= 1 /\ Len(queue') = Len(queue) - 1
        /\ \A i \in 1 .. Len(queue) - 1 : queue'[i] = queue[i + 1]
    <2>1. queue \in Seq(Batches) /\ queue # <<>>
      BY <1>2, <1>3
    <2>2. /\ Len(queue) \in Nat /\ Len(queue) >= 1
          /\ Len(Tail(queue)) = Len(queue) - 1
          /\ \A i \in 1 .. Len(queue) - 1 : Tail(queue)[i] = queue[i + 1]
      BY <2>1
    <2>. QED
      BY <1>1, <2>2, Zenon
  <1>7. \A i \in 1 .. Len(queue') :
          i \in Nat /\ i + 1 \in 1 .. Len(queue) /\ queue'[i] = queue[i + 1]
    BY <1>6
  <1>8. \A w \in Writes : outcome'[w] = outcome[w] \/ (w = b.w /\ outcome'[w] = r)
    BY <1>2, <1>4, <1>5
  <1>9. \A w \in Writes : outcome'[w] = "pending" => outcome[w] = "pending"
    BY <1>8
  <1>10. \A w \in Writes : outcome'[w] # "none" <=> outcome[w] # "none"
    <2>1. outcome[b.w] # "none"
      BY <1>3, <1>6 DEF OrderInv
    <2>. QED
      BY <1>8, <2>1
  <1>11. ASSUME NEW w \in Writes, outcome[w] = "pending"  PROVE b.w <= w
    <2>1. PICK i \in 1 .. Len(queue) : queue[i].w = w
      BY <1>11 DEF OrderInv
    <2>2. CASE i = 1
      BY <1>3, <1>4, <2>1, <2>2
    <2>3. CASE i > 1
      <3>1. queue[1].w < queue[i].w
        BY <1>6, <2>3 DEF OrderInv
      <3>. QED
        BY <1>3, <1>4, <2>1, <3>1
    <2>. QED
      BY <2>2, <2>3
  <1>12. ASSUME NEW i \in 1 .. Len(queue'), NEW j \in 1 .. Len(queue'), i < j
         PROVE  queue'[i].w < queue'[j].w
    BY <1>7, <1>12 DEF OrderInv
  <1>13. \A i \in 1 .. Len(queue') : outcome'[queue'[i].w] # "none"
    BY <1>4, <1>7, <1>10 DEF OrderInv
  <1>14. ASSUME NEW w \in Writes, outcome'[w] = "pending"
         PROVE  \E i \in 1 .. Len(queue') : queue'[i].w = w /\ queue'[i] \in callbacks'
    <2>1. PICK i \in 1 .. Len(queue) : queue[i].w = w /\ queue[i] \in callbacks
      BY <1>9, <1>14 DEF OrderInv
    <2>2. queue[i] # b
      <3>1. ASSUME queue[i] = b  PROVE FALSE
        <4>1. b \in callbacks /\ w = b.w
          BY <2>1, <3>1
        <4>2. outcome'[w] = r
          BY <1>2, <1>4, <1>5, <4>1
        <4>. QED
          BY <1>14, <4>2
      <3>. QED
        BY <3>1
    <2>3. i # 1
      BY <1>3, <2>2
    <2>4. i - 1 \in 1 .. Len(queue') /\ (i - 1) + 1 = i
      BY <1>6, <2>3
    <2>5. queue'[i - 1] = queue[i]
      BY <1>7, <2>4
    <2>. QED
      BY <1>5, <2>1, <2>2, <2>4, <2>5
  <1>15. \A v, w \in Writes : v < w /\ outcome'[w] # "none" => outcome'[v] # "none"
    BY <1>10 DEF OrderInv
  <1>16. ASSUME NEW v \in Writes, NEW w \in Writes, v < w, outcome'[w] \in {"ok", "error"}
         PROVE  outcome'[v] # "pending"
    <2>1. CASE outcome[w] \in {"ok", "error"}
      BY <1>9, <1>16, <2>1 DEF OrderInv, CompletionsInOrder
    <2>2. CASE outcome[w] \notin {"ok", "error"}
      <3>1. w = b.w
        BY <1>8, <1>16, <2>2
      <3>2. outcome[v] # "pending"
        BY <1>4, <1>11, <1>16, <3>1
      <3>. QED
        BY <1>9, <3>2
    <2>. QED
      BY <2>1, <2>2
  <1>. QED
    BY <1>12, <1>13, <1>14, <1>15, <1>16, Zenon DEF OrderInv, CompletionsInOrder

(* A restart forgets the completions, and nobody waits any more. *)
LEMMA OrderAfterRelaunch ==
  ASSUME Inv, OrderInv, Relaunch
  PROVE  OrderInv'
  <1>1. /\ queue' = queue
        /\ outcome' = [w \in Writes |-> IF outcome[w] = "pending" THEN "lost" ELSE outcome[w]]
    BY Zenon DEF Relaunch, disk
  <1>2. /\ \A w \in Writes : outcome'[w] # "pending"
        /\ \A w \in Writes : outcome'[w] = "none" <=> outcome[w] = "none"
    BY <1>1
  <1>3. \A i \in 1 .. Len(queue) : queue[i].w \in Writes
    BY BatchFields DEF Inv, TypeOK
  <1>. QED
    BY <1>1, <1>2, <1>3 DEF OrderInv, CompletionsInOrder

(* Every step keeps the order. *)
LEMMA OrderNext == Inv /\ OrderInv /\ [Next]_vars => OrderInv'
  <1>. SUFFICES ASSUME Inv, OrderInv, [Next]_vars  PROVE OrderInv'
    OBVIOUS
  <1>1. CASE User
    BY <1>1, OrderOfNewWrite, Zenon DEF User
  <1>2. CASE MutationResult
    <2>1. /\ queue' = Without(Head(pipeline), queue)
          /\ callbacks' = callbacks \ {Head(pipeline)}
          /\ outcome' = IF Head(pipeline) \in callbacks
                        THEN [outcome EXCEPT ![Head(pipeline).w] = "ok"] ELSE outcome
      BY <1>2, Zenon DEF MutationResult
    <2>2. pipeline # <<>>
      <3>1. fromServer # <<>> /\ handshake
        BY <1>2, HelloOrCommit DEF MutationResult
      <3>2. /\ Read + Len(toServer) = Len(pipeline)
            /\ fromServer \in Seq(Nat) /\ toServer \in Seq(Requests)
        BY <3>1 DEF Inv, CallInv, InPlace, Placed, TypeOK
      <3>3. Read >= 1 /\ Read \in Nat /\ Len(toServer) \in Nat
        BY <3>1, <3>2 DEF Read
      <3>4. Len(pipeline) # 0
        BY <3>2, <3>3
      <3>. QED
        BY <3>4
    <2>. QED
      BY <2>1, <2>2, OrderOfCompletion
  <1>3. ASSUME NEW permanent \in BOOLEAN, CloseOnError(permanent)  PROVE OrderInv'
    <2>1. CASE permanent /\ handshake /\ pipeline # <<>>
      <3>1. RejectFront
        BY <1>3, <2>1, Zenon DEF CloseOnError
      <3>. QED
        BY <2>1, <3>1, OrderOfCompletion DEF RejectFront
    <2>2. CASE ~(permanent /\ handshake /\ pipeline # <<>>)
      <3>1. UNCHANGED <<queue, callbacks, outcome>>
        BY <1>3, <2>2, Zenon DEF CloseOnError
      <3>. QED
        BY <3>1, OrderKept
    <2>. QED
      BY <2>1, <2>2
  <1>4. CASE StreamEnds \/ ConnectivityChange
    <2>1. \E permanent \in BOOLEAN : CloseOnError(permanent)
      BY <1>4 DEF StreamEnds, ConnectivityChange
    <2>. QED
      BY <1>3, <2>1, Zenon
  <1>5. CASE Relaunch
    BY <1>5, OrderAfterRelaunch
  <1>6. CASE Token \/ TokenFails \/ BackoffElapsed \/ HandshakeComplete
    <2>1. UNCHANGED <<queue, callbacks, outcome>>
      BY <1>6, Zenon
         DEF Token, TokenArrives, TokenFails, BackoffElapsed, HandshakeComplete, disk
    <2>. QED
      BY <2>1, OrderKept
  <1>7. CASE IdleTimeout \/ DisableNetwork \/ EnableNetwork
    <2>1. UNCHANGED <<queue, callbacks, outcome>>
      BY <1>7, Zenon DEF IdleTimeout, DisableNetwork, EnableNetwork, disk
    <2>. QED
      BY <2>1, OrderKept
  <1>8. CASE ServerReads \/ CallFails
    <2>1. UNCHANGED <<queue, callbacks, outcome>>
      BY <1>8, Zenon DEF ServerReads, ServerHandshake, ServerApplies, ServerRefuses,
                         Server, CallFails, disk
    <2>. QED
      BY <2>1, OrderKept
  <1>9. CASE \/ \E n \in 1 .. Len(log) : WatchSnapshot(n)
             \/ \E d \in Docs : OtherWrite(d)
    <2>1. UNCHANGED <<queue, callbacks, outcome>>
      BY <1>9, Zenon DEF WatchSnapshot, OtherWrite, disk
    <2>. QED
      BY <2>1, OrderKept
  <1>10. CASE UNCHANGED vars
    <2>1. UNCHANGED <<queue, callbacks, outcome>>
      BY <1>10, Zenon DEF vars, disk
    <2>. QED
      BY <2>1, OrderKept
  <1>. QED
    BY <1>1, <1>2, <1>4, <1>5, <1>6, <1>7, <1>8, <1>9, <1>10, Zenon DEF Next, Response

(* Completions come in the order of the calls. *)
THEOREM CompletionsComeInOrder == Spec => []CompletionsInOrder
  <1>1. Init => OrderInv
    BY DEF Init, OrderInv, CompletionsInOrder
  <1>2. OrderInv => CompletionsInOrder
    BY DEF OrderInv
  <1>. QED
    BY InitInv, NextInv, OrderNext, <1>1, <1>2, PTL DEF Spec
=============================================================================
