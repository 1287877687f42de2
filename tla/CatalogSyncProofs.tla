------------------------- MODULE CatalogSyncProofs -------------------------
(***************************************************************************)
(* Theorems of CatalogSync, for every collection, every set of documents   *)
(* and every value of the bounds.                                          *)
(***************************************************************************)
EXTENDS CatalogSync, SequenceTheorems, TLAPS

USE CollectionAssumption, BoundsAssumption

-----------------------------------------------------------------------------
(* What a completion may do to one copy: nothing, free it, or start a      *)
(* download of the content the snapshot has.                               *)
LEMMA SyncedOutcomes ==
  ASSUME NEW d \in Docs, NEW k \in Slots, NEW s \in Statuses
  PROVE  \/ Synced(d, k, s) = copy[d][k]
         \/ Synced(d, k, s) = Free /\ ~Live(s)
         \/ Synced(d, k, s) = Loading(s) /\ Live(s)
  BY DEF Synced

(* And what it may do to a row of a document the snapshot has: a row of    *)
(* this very content is never touched.                                     *)
LEMMA SyncedRow ==
  ASSUME NEW d \in Docs, NEW k \in Slots, NEW s \in Statuses,
         IsRow(copy[d][k]), Live(s)
  PROVE  \/ Synced(d, k, s) = copy[d][k]
         \/ Synced(d, k, s) = Loading(s) /\ copy[d][k].ver # s
  BY DEF Synced, HasRow

(* The copies the actions build are copies. *)
LEMMA CopiesBuilt ==
  /\ Free \in Copies
  /\ \A v \in Versions : Loading(v) \in Copies /\ Row(v) \in Copies
  /\ Free.ver = 0 /\ Free.st = "free"
  /\ \A v \in Versions : Loading(v).ver = v /\ Row(v).ver = v
  /\ \A c \in Copies : c.ver \in Statuses
  /\ \A c \in Copies : c.st # "free" => c.ver \in Versions
  BY DEF Copies, Free, Loading, Row, Versions, Statuses, Gone

-----------------------------------------------------------------------------
(* Type correctness. *)
LEMMA InitTypeOK == Init => TypeOK
  BY CopiesBuilt DEF Init, TypeOK, Statuses, Gone

LEMMA ApplySnapshotTypeOK == TypeOK /\ ApplySnapshot => TypeOK'
  <1> SUFFICES ASSUME TypeOK, ApplySnapshot PROVE TypeOK'
    OBVIOUS
  <1>1. Head(inbox) \in [Docs -> Statuses] /\ Tail(inbox) \in Seq([Docs -> Statuses])
    BY DEF TypeOK, ApplySnapshot
  <1>2. \A d \in Docs, k \in Slots : Synced(d, k, Head(inbox)[d]) \in Copies
    BY <1>1, SyncedOutcomes, CopiesBuilt DEF TypeOK, Live
  <1>3. copy' \in [Docs -> [Slots -> Copies]]
    BY <1>2 DEF ApplySnapshot
  <1>. QED
    BY <1>1, <1>3 DEF TypeOK, ApplySnapshot

LEMMA CopyStepTypeOK ==
  ASSUME TypeOK, NEW d \in Docs, NEW k \in Slots,
         DownloadDone(d, k) \/ DownloadFailed(d, k)
           \/ DeleteRow(d, k) \/ ToggleFavorite(d, k)
  PROVE  TypeOK'
  <1>1. CASE DownloadDone(d, k)
    <2>1. copy[d][k].ver \in Versions
      BY <1>1, CopiesBuilt DEF DownloadDone, TypeOK
    <2>. QED
      BY <1>1, <2>1, CopiesBuilt DEF DownloadDone, TypeOK
  <1>2. CASE DownloadFailed(d, k)
    BY <1>2, CopiesBuilt DEF DownloadFailed, TypeOK
  <1>3. CASE DeleteRow(d, k)
    BY <1>3, CopiesBuilt DEF DeleteRow, TypeOK, Statuses, Gone
  <1>4. CASE ToggleFavorite(d, k)
    <2>1. copy[d][k] \in Copies /\ copy[d][k].st = "stored"
      BY <1>4 DEF ToggleFavorite, TypeOK, IsRow
    <2>2. copy[d][k] \in [st : {"loading", "stored"}, ver : Versions, fav : BOOLEAN]
      BY <2>1 DEF Copies, Free
    <2>3. [copy[d][k] EXCEPT !.fav = ~@] \in Copies
      BY <2>2, Zenon DEF Copies
    <2>. QED
      BY <1>4, <2>3 DEF ToggleFavorite, TypeOK
  <1>. QED
    BY <1>1, <1>2, <1>3, <1>4

LEMMA RelaunchTypeOK == TypeOK /\ Relaunch => TypeOK'
  BY CopiesBuilt DEF Relaunch, TypeOK

LEMMA NextTypeOK == TypeOK /\ [Next]_vars => TypeOK'
  <1> SUFFICES ASSUME TypeOK, [Next]_vars PROVE TypeOK'
    OBVIOUS
  <1>1. CASE Environment
    <2>1. ASSUME NEW d \in Docs, Publish(d) PROVE TypeOK'
      <3>1. 1 \in Statuses
        BY DEF Statuses, Gone
      <3>2. remote' \in [Docs -> Statuses] /\ cache' \in [Docs -> Statuses]
        BY <2>1, <3>1 DEF Publish, TypeOK
      <3>. QED
        BY <2>1, <3>2 DEF Publish, TypeOK
    <2>2. ASSUME NEW d \in Docs, Change(d) PROVE TypeOK'
      <3>1. remote[d] + 1 \in Statuses
        BY <2>2 DEF Change, Live, Versions, Statuses, Gone
      <3>2. remote' \in [Docs -> Statuses] /\ cache' \in [Docs -> Statuses]
        BY <2>2, <3>1 DEF Change, TypeOK
      <3>. QED
        BY <2>2, <3>2 DEF Change, TypeOK
    <2>3. ASSUME NEW d \in Docs, Remove(d) PROVE TypeOK'
      BY <2>3 DEF Remove, TypeOK, Statuses, Gone
    <2>. QED
      BY <1>1, <2>1, <2>2, <2>3 DEF Environment
  <1>2. CASE Refresh
    BY <1>2 DEF Refresh, TypeOK
  <1>3. CASE Answer
    <2>1. asked - 1 \in 0 .. MaxSyncs
      BY <1>3 DEF Answer, AnswerFromServer, AnswerFromCache, AnswerError, TypeOK
    <2>2. CASE AnswerFromServer
      BY <2>1, <2>2 DEF AnswerFromServer, TypeOK
    <2>3. CASE AnswerFromCache
      BY <2>1, <2>3 DEF AnswerFromCache, TypeOK
    <2>4. CASE AnswerError
      BY <2>1, <2>4 DEF AnswerError, TypeOK
    <2>. QED
      BY <1>3, <2>2, <2>3, <2>4 DEF Answer
  <1>4. CASE ApplySnapshot
    BY <1>4, ApplySnapshotTypeOK
  <1>5. CASE \E d \in Docs : Download(d)
    BY <1>5, CopyStepTypeOK, RelaunchTypeOK DEF Download, ImageUnreadable
  <1>6. CASE Relaunch
    BY <1>6, RelaunchTypeOK
  <1>7. CASE User
    BY <1>7, CopyStepTypeOK DEF User
  <1>8. CASE UNCHANGED vars
    BY <1>8 DEF vars, TypeOK
  <1>. QED
    BY <1>1, <1>2, <1>3, <1>4, <1>5, <1>6, <1>7, <1>8 DEF Next

(* Every variable keeps its type, whatever the values of the bounds. *)
THEOREM TypeCorrect == Spec => []TypeOK
  <1>. QED
    BY InitTypeOK, NextTypeOK, PTL DEF Spec

-----------------------------------------------------------------------------
(* NeverAhead is inductive: every chain                                    *)
(*   copies <= waiting snapshots, first to last <= cache <= server         *)
(* is kept by every step.                                                  *)
LEMMA InitNeverAhead == Init => NeverAhead
  BY DEF Init, NeverAhead, InboxInOrder, CopiesBehindInbox, CopiesBehindCache,
         CacheBehindServer, Free

(* Steps that leave the snapshots alone and bring in no new content. *)
LEMMA CopyStepNeverAhead ==
  ASSUME TypeOK, NeverAhead, UNCHANGED <<remote, cache, inbox>>,
         \A d \in Docs, k \in Slots :
           copy'[d][k].ver = copy[d][k].ver \/ copy'[d][k].ver = 0
  PROVE  NeverAhead'
  <1>1. InboxInOrder' /\ CacheBehindServer'
    BY DEF NeverAhead, InboxInOrder, CacheBehindServer
  <1>2. CopiesBehindInbox'
    <2> SUFFICES ASSUME NEW d \in Docs, NEW k \in Slots, NEW i \in 1 .. Len(inbox)
                 PROVE  copy'[d][k].ver <= inbox[i][d]
      BY DEF CopiesBehindInbox
    <2>1. copy[d][k].ver <= inbox[i][d] /\ inbox[i][d] \in Statuses
      BY DEF NeverAhead, CopiesBehindInbox, TypeOK
    <2>. QED
      BY <2>1 DEF Statuses, Gone
  <1>3. CopiesBehindCache'
    <2> SUFFICES ASSUME NEW d \in Docs, NEW k \in Slots
                 PROVE  copy'[d][k].ver <= cache[d]
      BY DEF CopiesBehindCache
    <2>1. copy[d][k].ver <= cache[d] /\ cache[d] \in Statuses
      BY DEF NeverAhead, CopiesBehindCache, TypeOK
    <2>. QED
      BY <2>1 DEF Statuses, Gone
  <1>. QED
    BY <1>1, <1>2, <1>3 DEF NeverAhead

(* The server moves every document forward. *)
LEMMA ServerMovesForward ==
  ASSUME TypeOK, [Next]_vars
  PROVE  \A d \in Docs : remote[d] <= remote'[d]
  <1>1. \A d \in Docs : remote[d] \in Statuses
    BY DEF TypeOK
  <1>2. CASE UNCHANGED remote
    BY <1>1, <1>2 DEF Statuses, Gone
  <1>3. ASSUME NEW e \in Docs, Publish(e)
        PROVE  \A d \in Docs : remote[d] <= remote'[d]
    BY <1>1, <1>3 DEF Publish, TypeOK, Statuses, Gone
  <1>4. ASSUME NEW e \in Docs, Change(e)
        PROVE  \A d \in Docs : remote[d] <= remote'[d]
    BY <1>1, <1>4 DEF Change, TypeOK, Statuses, Gone
  <1>5. ASSUME NEW e \in Docs, remote' = [remote EXCEPT ![e] = Gone]
        PROVE  \A d \in Docs : remote[d] <= remote'[d]
    BY <1>1, <1>5 DEF TypeOK, Statuses, Gone
  <1>6. CASE Environment
    BY <1>3, <1>4, <1>5, <1>6 DEF Environment, Remove
  <1>7. CASE User
    BY <1>2, <1>5, <1>7 DEF User, DeleteRow, ToggleFavorite
  <1>8. CASE Refresh \/ Answer \/ ApplySnapshot \/ Relaunch \/ UNCHANGED vars
    BY <1>2, <1>8 DEF Refresh, Answer, AnswerFromServer, AnswerFromCache,
                      AnswerError, ApplySnapshot, Relaunch, vars
  <1>9. CASE \E d \in Docs : Download(d)
    BY <1>2, <1>9 DEF Download, DownloadDone, DownloadFailed, ImageUnreadable,
                      Relaunch
  <1>. QED
    BY <1>6, <1>7, <1>8, <1>9 DEF Next

LEMMA EnvironmentNeverAhead ==
  ASSUME TypeOK, NeverAhead, Environment
  PROVE  NeverAhead'
  <1>1. UNCHANGED <<inbox, copy>>
    BY DEF Environment, Publish, Change, Remove
  <1>2. \A d \in Docs : remote[d] <= remote'[d]
    BY ServerMovesForward DEF Next
  <1>3. \A d \in Docs : /\ cache[d] \in Int /\ cache'[d] \in Int
                        /\ remote[d] \in Int /\ remote'[d] \in Int
    BY NextTypeOK DEF TypeOK, Next, Statuses, Gone
  <1>4. \A d \in Docs : cache'[d] = cache[d] \/ cache'[d] = remote'[d]
    <2>1. ASSUME NEW e \in Docs, Publish(e)
          PROVE  \A d \in Docs : cache'[d] = cache[d] \/ cache'[d] = remote'[d]
      BY <2>1 DEF Publish, TypeOK
    <2>2. ASSUME NEW e \in Docs, Change(e)
          PROVE  \A d \in Docs : cache'[d] = cache[d] \/ cache'[d] = remote'[d]
      BY <2>2 DEF Change, TypeOK
    <2>. QED
      BY <2>1, <2>2 DEF Environment, Remove
  <1>5. \A d \in Docs : cache[d] <= cache'[d] /\ cache'[d] <= remote'[d]
    BY <1>2, <1>3, <1>4 DEF NeverAhead, CacheBehindServer
  <1>6. \A i \in 1 .. Len(inbox), d \in Docs :
          inbox[i][d] \in Int /\ inbox[i][d] <= cache[d]
    BY DEF TypeOK, NeverAhead, InboxInOrder, Statuses, Gone
  <1>7. \A d \in Docs, k \in Slots :
          copy[d][k].ver \in Int /\ copy[d][k].ver <= cache[d]
    BY CopiesBuilt DEF TypeOK, NeverAhead, CopiesBehindCache, Statuses, Gone
  <1>8. InboxInOrder' /\ CopiesBehindInbox'
    BY <1>1, <1>3, <1>5, <1>6 DEF NeverAhead, InboxInOrder, CopiesBehindInbox
  <1>9. CopiesBehindCache' /\ CacheBehindServer'
    BY <1>1, <1>3, <1>5, <1>7 DEF CopiesBehindCache, CacheBehindServer
  <1>. QED
    BY <1>8, <1>9 DEF NeverAhead

LEMMA AnswerNeverAhead ==
  ASSUME TypeOK, NeverAhead, Answer
  PROVE  NeverAhead'
  <1>1. CASE AnswerError
    BY <1>1 DEF AnswerError, NeverAhead, InboxInOrder, CopiesBehindInbox,
                CopiesBehindCache, CacheBehindServer
  <1>2. ASSUME NEW s \in [Docs -> Statuses],
               inbox' = Append(inbox, s), cache' = s,
               \A d \in Docs : cache[d] <= s[d] /\ s[d] <= remote[d],
               UNCHANGED <<remote, copy>>
        PROVE  NeverAhead'
    <2>1. /\ Len(inbox') = Len(inbox) + 1
          /\ \A i \in 1 .. Len(inbox) : inbox'[i] = inbox[i]
          /\ inbox'[Len(inbox) + 1] = s
          /\ Len(inbox) \in Nat
      BY <1>2 DEF TypeOK
    <2>2. \A i \in 1 .. Len(inbox) : \A d \in Docs : inbox[i][d] <= s[d]
      <3> SUFFICES ASSUME NEW i \in 1 .. Len(inbox), NEW d \in Docs
                   PROVE  inbox[i][d] <= s[d]
        OBVIOUS
      <3>1. inbox[i][d] \in Int /\ cache[d] \in Int /\ s[d] \in Int
        BY DEF TypeOK, Statuses, Gone
      <3>2. inbox[i][d] <= cache[d] /\ cache[d] <= s[d]
        BY <1>2 DEF NeverAhead, InboxInOrder
      <3>. QED
        BY <3>1, <3>2
    <2>3. \A i \in 1 .. Len(inbox') : \A d \in Docs : inbox'[i][d] <= s[d]
      <3>1. \A d \in Docs : s[d] <= s[d]
        BY DEF Statuses, Gone
      <3>. QED
        BY <2>1, <2>2, <3>1
    <2>4. InboxInOrder'
      <3> SUFFICES ASSUME NEW i \in 1 .. Len(inbox'), NEW j \in 1 .. Len(inbox'),
                          i < j, NEW d \in Docs
                   PROVE  inbox'[i][d] <= inbox'[j][d]
        BY <2>3, <1>2 DEF InboxInOrder
      <3>1. CASE j \in 1 .. Len(inbox)
        BY <2>1, <3>1 DEF NeverAhead, InboxInOrder
      <3>2. CASE j = Len(inbox) + 1
        BY <2>1, <2>3, <3>2
      <3>. QED
        BY <2>1, <3>1, <3>2
    <2>5. \A d \in Docs, k \in Slots : copy[d][k].ver <= s[d]
      <3> SUFFICES ASSUME NEW d \in Docs, NEW k \in Slots
                   PROVE  copy[d][k].ver <= s[d]
        OBVIOUS
      <3>1. copy[d][k] \in Copies
        BY DEF TypeOK
      <3>2. copy[d][k].ver \in Statuses /\ cache[d] \in Int /\ s[d] \in Int
        BY <3>1, CopiesBuilt DEF TypeOK, Statuses, Gone
      <3>3. copy[d][k].ver <= cache[d] /\ cache[d] <= s[d]
        BY <1>2 DEF NeverAhead, CopiesBehindCache
      <3>. QED
        BY <3>2, <3>3 DEF Statuses, Gone
    <2>6. CopiesBehindInbox' /\ CopiesBehindCache'
      BY <1>2, <2>1, <2>5 DEF NeverAhead, CopiesBehindInbox, CopiesBehindCache
    <2>7. CacheBehindServer'
      BY <1>2 DEF CacheBehindServer
    <2>. QED
      BY <2>4, <2>6, <2>7 DEF NeverAhead
  <1>3. CASE AnswerFromServer
    <2>1. \A d \in Docs : cache[d] <= remote[d] /\ remote[d] <= remote[d]
      BY DEF NeverAhead, CacheBehindServer, TypeOK, Statuses, Gone
    <2>. QED
      BY <1>2, <1>3, <2>1 DEF AnswerFromServer, TypeOK
  <1>4. CASE AnswerFromCache
    <2>1. \A d \in Docs : cache[d] <= cache[d] /\ cache[d] <= remote[d]
      BY DEF NeverAhead, CacheBehindServer, TypeOK, Statuses, Gone
    <2>. QED
      BY <1>2, <1>4, <2>1 DEF AnswerFromCache, TypeOK
  <1>. QED
    BY <1>1, <1>3, <1>4 DEF Answer

LEMMA ApplySnapshotNeverAhead ==
  ASSUME TypeOK, NeverAhead, ApplySnapshot
  PROVE  NeverAhead'
  <1>1. /\ Len(inbox) \in Nat \ {0}
        /\ Len(inbox') = Len(inbox) - 1
        /\ \A i \in 1 .. Len(inbox') : inbox'[i] = inbox[i + 1]
        /\ Head(inbox) = inbox[1]
    BY DEF ApplySnapshot, TypeOK
  <1>2. InboxInOrder'
    <2>1. \A i, j \in 1 .. Len(inbox') : i < j =>
            i + 1 \in 1 .. Len(inbox) /\ j + 1 \in 1 .. Len(inbox) /\ i + 1 < j + 1
      BY <1>1
    <2>2. \A i \in 1 .. Len(inbox') : i + 1 \in 1 .. Len(inbox)
      BY <1>1
    <2>. QED
      BY <1>1, <2>1, <2>2 DEF NeverAhead, InboxInOrder, ApplySnapshot
  <1>3. ASSUME NEW d \in Docs, NEW k \in Slots
        PROVE  \/ copy'[d][k].ver = copy[d][k].ver
               \/ copy'[d][k].ver = 0
               \/ copy'[d][k].ver = inbox[1][d]
    <2>1. copy'[d][k] = Synced(d, k, Head(inbox)[d])
      BY DEF ApplySnapshot
    <2>2. Head(inbox)[d] \in Statuses
      BY DEF ApplySnapshot, TypeOK
    <2>. QED
      BY <1>1, <2>1, <2>2, SyncedOutcomes, CopiesBuilt DEF Live
  <1>4. ASSUME NEW d \in Docs, NEW k \in Slots, NEW n \in Statuses,
               inbox[1][d] <= n, copy[d][k].ver <= n
        PROVE  copy'[d][k].ver <= n
    BY <1>3, <1>4 DEF Statuses, Gone
  <1>5. CopiesBehindInbox'
    <2> SUFFICES ASSUME NEW d \in Docs, NEW k \in Slots, NEW i \in 1 .. Len(inbox')
                 PROVE  copy'[d][k].ver <= inbox'[i][d]
      BY DEF CopiesBehindInbox
    <2>1. i + 1 \in 1 .. Len(inbox) /\ 1 \in 1 .. Len(inbox) /\ 1 < i + 1
      BY <1>1
    <2>2. inbox[1][d] <= inbox[i + 1][d] /\ copy[d][k].ver <= inbox[i + 1][d]
      BY <2>1 DEF NeverAhead, InboxInOrder, CopiesBehindInbox
    <2>3. inbox[i + 1][d] \in Statuses
      BY <2>1 DEF TypeOK
    <2>. QED
      BY <1>1, <1>4, <2>2, <2>3
  <1>6. CopiesBehindCache'
    <2> SUFFICES ASSUME NEW d \in Docs, NEW k \in Slots
                 PROVE  copy'[d][k].ver <= cache[d]
      BY DEF CopiesBehindCache, ApplySnapshot
    <2>1. inbox[1][d] <= cache[d] /\ copy[d][k].ver <= cache[d]
      BY <1>1 DEF NeverAhead, InboxInOrder, CopiesBehindCache
    <2>2. cache[d] \in Statuses
      BY DEF TypeOK
    <2>. QED
      BY <1>4, <2>1, <2>2
  <1>. QED
    BY <1>2, <1>5, <1>6 DEF NeverAhead, CacheBehindServer, ApplySnapshot

LEMMA DownloadNeverAhead ==
  ASSUME TypeOK, NeverAhead, NEW d \in Docs, NEW k \in Slots,
         DownloadDone(d, k) \/ DownloadFailed(d, k) \/ ToggleFavorite(d, k)
  PROVE  NeverAhead'
  <1>1. CASE DownloadDone(d, k)
    <2>1. copy[d][k].ver \in Versions
      BY <1>1, CopiesBuilt DEF DownloadDone, TypeOK
    <2>2. copy'[d][k].ver = copy[d][k].ver
      BY <1>1, <2>1, CopiesBuilt DEF DownloadDone, TypeOK
    <2>3. \A e \in Docs, j \in Slots : copy'[e][j].ver = copy[e][j].ver
      BY <1>1, <2>2 DEF DownloadDone, TypeOK
    <2>. QED
      BY <1>1, <2>3, CopyStepNeverAhead DEF DownloadDone
  <1>2. CASE DownloadFailed(d, k)
    <2>1. \A e \in Docs, j \in Slots :
            copy'[e][j] = copy[e][j] \/ copy'[e][j] = Free
      BY <1>2 DEF DownloadFailed, TypeOK
    <2>. QED
      BY <1>2, <2>1, CopiesBuilt, CopyStepNeverAhead DEF DownloadFailed
  <1>3. CASE ToggleFavorite(d, k)
    <2>1. \A e \in Docs, j \in Slots :
            \/ copy'[e][j] = copy[e][j]
            \/ copy'[e][j] = [copy[e][j] EXCEPT !.fav = ~@]
      BY <1>3 DEF ToggleFavorite, TypeOK
    <2>2. \A e \in Docs, j \in Slots : copy[e][j] \in Copies
      BY DEF TypeOK
    <2>3. \A c \in Copies : [c EXCEPT !.fav = ~@].ver = c.ver
      BY DEF Copies, Free
    <2>. QED
      BY <1>3, <2>1, <2>2, <2>3, CopyStepNeverAhead DEF ToggleFavorite
  <1>. QED
    BY <1>1, <1>2, <1>3

LEMMA RelaunchNeverAhead ==
  ASSUME TypeOK, NeverAhead, Relaunch
  PROVE  NeverAhead'
  <1>1. InboxInOrder' /\ CopiesBehindInbox' /\ CacheBehindServer'
    BY DEF Relaunch, InboxInOrder, CopiesBehindInbox, NeverAhead, CacheBehindServer
  <1>2. CopiesBehindCache'
    <2> SUFFICES ASSUME NEW d \in Docs, NEW k \in Slots
                 PROVE  copy'[d][k].ver <= cache[d]
      BY DEF CopiesBehindCache, Relaunch
    <2>1. copy'[d][k] = copy[d][k] \/ copy'[d][k] = Free
      BY DEF Relaunch
    <2>2. copy[d][k].ver <= cache[d] /\ 0 <= cache[d]
      BY DEF NeverAhead, CopiesBehindCache, TypeOK, Statuses, Gone
    <2>. QED
      BY <2>1, <2>2, CopiesBuilt
  <1>. QED
    BY <1>1, <1>2 DEF NeverAhead

(* Gone is the last status, so the deleted document is ahead of everything. *)
LEMMA DeleteRowNeverAhead ==
  ASSUME TypeOK, NeverAhead, NEW d \in Docs, NEW k \in Slots, DeleteRow(d, k)
  PROVE  NeverAhead'
  <1>1. \A s \in Statuses : s <= Gone
    BY DEF Statuses, Gone
  <1>2. /\ \A e \in Docs : cache'[e] = IF e = d THEN Gone ELSE cache[e]
        /\ \A e \in Docs : remote'[e] = IF e = d THEN Gone ELSE remote[e]
    BY DEF DeleteRow, TypeOK
  <1>3. Gone <= Gone /\ Gone \in Statuses
    BY DEF Statuses, Gone
  <1>4. CacheBehindServer'
    BY <1>2, <1>3 DEF CacheBehindServer, NeverAhead
  <1>5. InboxInOrder'
    <2>1. \A i \in 1 .. Len(inbox), e \in Docs : inbox[i][e] \in Statuses
      BY DEF TypeOK
    <2>. QED
      BY <1>1, <1>2, <2>1 DEF InboxInOrder, NeverAhead, DeleteRow
  <1>6. ASSUME NEW e \in Docs, NEW j \in Slots
        PROVE  copy'[e][j] = copy[e][j] \/ copy'[e][j] = Free
    BY DEF DeleteRow, TypeOK
  <1>7. CopiesBehindInbox'
    <2> SUFFICES ASSUME NEW e \in Docs, NEW j \in Slots, NEW i \in 1 .. Len(inbox)
                 PROVE  copy'[e][j].ver <= inbox[i][e]
      BY DEF CopiesBehindInbox, DeleteRow
    <2>1. copy[e][j].ver <= inbox[i][e] /\ 0 <= inbox[i][e]
      BY DEF NeverAhead, CopiesBehindInbox, TypeOK, Statuses, Gone
    <2>. QED
      BY <2>1, <1>6, CopiesBuilt
  <1>8. CopiesBehindCache'
    <2> SUFFICES ASSUME NEW e \in Docs, NEW j \in Slots
                 PROVE  copy'[e][j].ver <= cache'[e]
      BY DEF CopiesBehindCache
    <2>1. copy[e][j].ver <= cache[e] /\ 0 <= cache[e] /\ 0 <= Gone
      BY DEF NeverAhead, CopiesBehindCache, TypeOK, Statuses, Gone
    <2>2. copy[e][j].ver <= Gone
      BY <1>1, CopiesBuilt DEF TypeOK
    <2>. QED
      BY <1>2, <1>6, <2>1, <2>2, CopiesBuilt
  <1>. QED
    BY <1>4, <1>5, <1>7, <1>8 DEF NeverAhead

LEMMA NextNeverAhead ==
  ASSUME TypeOK, NeverAhead, [Next]_vars
  PROVE  NeverAhead'
  <1>1. CASE Environment
    BY <1>1, EnvironmentNeverAhead
  <1>2. CASE Refresh \/ UNCHANGED vars
    BY <1>2 DEF Refresh, vars, NeverAhead, InboxInOrder, CopiesBehindInbox,
                CopiesBehindCache, CacheBehindServer
  <1>3. CASE Answer
    BY <1>3, AnswerNeverAhead
  <1>4. CASE ApplySnapshot
    BY <1>4, ApplySnapshotNeverAhead
  <1>5. CASE \E d \in Docs : Download(d)
    BY <1>5, DownloadNeverAhead, RelaunchNeverAhead DEF Download, ImageUnreadable
  <1>6. CASE Relaunch
    BY <1>6, RelaunchNeverAhead
  <1>7. CASE User
    BY <1>7, DownloadNeverAhead, DeleteRowNeverAhead DEF User
  <1>. QED
    BY <1>1, <1>2, <1>3, <1>4, <1>5, <1>6, <1>7 DEF Next

(* No row, download, waiting snapshot or cache entry is ever newer than what *)
(* will reach the device after it, however syncs overlap, fail, are answered *)
(* from the cache or are cut short by a restart.                             *)
THEOREM NeverAheadInvariant == Spec => []NeverAhead
  <1>. QED
    BY TypeCorrect, InitNeverAhead, NextNeverAhead, PTL DEF Spec

-----------------------------------------------------------------------------
(* The steps that touch a row of a document the server still has. *)
LEMMA NextKeepsLiveRows ==
  ASSUME TypeOK, NeverAhead, [Next]_vars,
         NEW d \in Docs, NEW k \in Slots,
         IsRow(copy[d][k]), Live(remote'[d])
  PROVE  LiveRowKept(d, k)
  <1>1. CASE UNCHANGED copy
    BY <1>1 DEF LiveRowKept
  <1>2. CASE ApplySnapshot
    <2> DEFINE s == inbox[1][d]
    <2>1. Len(inbox) \in Nat \ {0} /\ Head(inbox) = inbox[1]
      BY <1>2 DEF ApplySnapshot, TypeOK
    <2>2. copy[d][k].ver <= s /\ s <= cache[d] /\ cache[d] <= remote[d]
      BY <2>1 DEF NeverAhead, CopiesBehindInbox, InboxInOrder, CacheBehindServer
    <2>3. copy[d][k] \in Copies /\ copy[d][k].st # "free"
      BY DEF TypeOK, IsRow
    <2>4. copy[d][k].ver \in Versions
      BY <2>3, CopiesBuilt
    <2>5. s \in Statuses /\ cache[d] \in Statuses /\ remote[d] \in Versions
      BY <1>2, <2>1 DEF TypeOK, ApplySnapshot, Live
    <2>6. s \in Versions
      BY <2>2, <2>4, <2>5 DEF Versions, Statuses, Gone
    <2>7. copy'[d][k] = Synced(d, k, s)
      BY <1>2, <2>1 DEF ApplySnapshot
    <2>8. CASE Synced(d, k, s) = copy[d][k]
      BY <2>7, <2>8 DEF LiveRowKept
    <2>9. CASE Synced(d, k, s) = Loading(s) /\ copy[d][k].ver # s
      <3>1. copy[d][k].ver < s
        BY <2>2, <2>4, <2>6, <2>9 DEF Versions
      <3>. QED
        BY <2>7, <2>9, <3>1 DEF LiveRowKept, Loading
    <2> HIDE DEF s
    <2>. QED
      BY <2>5, <2>6, <2>8, <2>9, SyncedRow DEF Live
  <1>3. ASSUME NEW e \in Docs, NEW j \in Slots,
               DownloadDone(e, j) \/ DownloadFailed(e, j)
        PROVE  LiveRowKept(d, k)
    <2>1. <<e, j>> # <<d, k>>
      BY <1>3 DEF DownloadDone, DownloadFailed, IsRow
    <2>. QED
      BY <1>3, <2>1 DEF DownloadDone, DownloadFailed, TypeOK, LiveRowKept
  <1>4. CASE Relaunch
    BY <1>4 DEF Relaunch, LiveRowKept
  <1>5. ASSUME NEW e \in Docs, NEW j \in Slots, DeleteRow(e, j)
        PROVE  LiveRowKept(d, k)
    <2>1. e # d
      BY <1>5 DEF DeleteRow, TypeOK, Live, Versions, Gone
    <2>. QED
      BY <1>5, <2>1 DEF DeleteRow, TypeOK, LiveRowKept
  <1>6. ASSUME NEW e \in Docs, NEW j \in Slots, ToggleFavorite(e, j)
        PROVE  LiveRowKept(d, k)
    BY <1>6 DEF ToggleFavorite, TypeOK, LiveRowKept
  <1>7. CASE Environment \/ Refresh \/ Answer \/ UNCHANGED vars
    BY <1>1, <1>7 DEF Environment, Publish, Change, Remove, Refresh, Answer,
         AnswerFromServer, AnswerFromCache, AnswerError, vars
  <1>. QED
    BY <1>2, <1>3, <1>4, <1>5, <1>6, <1>7
    DEF Next, Download, ImageUnreadable, User

(* A row of a document that is still published is kept, star and all, or    *)
(* replaced by a newer content of it.                                       *)
THEOREM LiveRowsAreKept == Spec => LiveRowsKept
  <1>1. ASSUME TypeOK, NeverAhead, [Next]_vars
        PROVE  [\A d \in Docs, k \in Slots :
                  IsRow(copy[d][k]) /\ Live(remote'[d]) => LiveRowKept(d, k)]_vars
    BY <1>1, NextKeepsLiveRows
  <1>. QED
    BY <1>1, TypeCorrect, NeverAheadInvariant, PTL DEF Spec, LiveRowsKept

-----------------------------------------------------------------------------
(* The refinement of CatalogMirror. *)

(* A content on show was already there, as a row or as a download. *)
LEMMA RowsComeFromCopies ==
  ASSUME TypeOK, [Next]_vars, NEW d \in Docs, NEW k \in Slots,
         IsRow(copy'[d][k])
  PROVE  copy'[d][k].ver = copy[d][k].ver
  <1>1. CASE UNCHANGED copy
    BY <1>1
  <1>2. CASE ApplySnapshot
    <2>1. copy'[d][k] = Synced(d, k, Head(inbox)[d])
      BY <1>2 DEF ApplySnapshot
    <2>2. Head(inbox)[d] \in Statuses
      BY <1>2 DEF ApplySnapshot, TypeOK
    <2>. QED
      BY <2>1, <2>2, SyncedOutcomes DEF IsRow, Free, Loading
  <1>3. ASSUME NEW e \in Docs, NEW j \in Slots, DownloadDone(e, j)
        PROVE  copy'[d][k].ver = copy[d][k].ver
    BY <1>3 DEF DownloadDone, TypeOK, Row
  <1>4. ASSUME NEW e \in Docs, NEW j \in Slots,
               DownloadFailed(e, j) \/ DeleteRow(e, j)
        PROVE  copy'[d][k].ver = copy[d][k].ver
    <2>1. copy' = [copy EXCEPT ![e][j] = Free]
      BY <1>4 DEF DownloadFailed, DeleteRow
    <2>. QED
      BY <2>1 DEF TypeOK, IsRow, Free
  <1>5. CASE Relaunch
    BY <1>5 DEF Relaunch, IsRow, Free
  <1>6. ASSUME NEW e \in Docs, NEW j \in Slots, ToggleFavorite(e, j)
        PROVE  copy'[d][k].ver = copy[d][k].ver
    <2>1. copy'[d][k] = copy[d][k] \/ copy'[d][k] = [copy[d][k] EXCEPT !.fav = ~@]
      BY <1>6 DEF ToggleFavorite, TypeOK
    <2>2. copy[d][k] \in Copies
      BY DEF TypeOK
    <2>3. \A c \in Copies : [c EXCEPT !.fav = ~@].ver = c.ver
      BY DEF Copies, Free
    <2>. QED
      BY <2>1, <2>2, <2>3
  <1>7. CASE Environment \/ Refresh \/ Answer \/ UNCHANGED vars
    BY <1>1, <1>7 DEF Environment, Publish, Change, Remove, Refresh, Answer,
         AnswerFromServer, AnswerFromCache, AnswerError, vars
  <1>. QED
    BY <1>2, <1>3, <1>4, <1>5, <1>6, <1>7
    DEF Next, Download, ImageUnreadable, User

LEMMA InitImplementsMirror == Init => Mirror!Init
  BY DEF Init, Mirror!Init, ShownRows, IsRow, Free

LEMMA NextImplementsMirror ==
  ASSUME TypeOK, NeverAhead, [Next]_vars
  PROVE  Mirror!Next
  <1>1. TypeOK' /\ NeverAhead'
    BY NextTypeOK, NextNeverAhead
  <1>2. Mirror!ServerForward
    <2>1. remote' \in [Docs -> 0 .. MaxVersion + 1]
      BY <1>1 DEF TypeOK, Statuses, Gone
    <2>. QED
      BY <2>1, ServerMovesForward DEF Mirror!ServerForward
  <1>3. Mirror!OnlyPublishedAdded
    <2>1. ShownRows' \subseteq Docs \X Mirror!Contents
      BY DEF ShownRows, Mirror!Contents, Versions
    <2>2. ASSUME NEW r \in ShownRows' PROVE r[2] <= remote[r[1]]
      <3>1. r[1] \in Docs
        BY DEF ShownRows
      <3>2. PICK k \in Slots : IsRow(copy'[r[1]][k]) /\ copy'[r[1]][k].ver = r[2]
        BY DEF ShownRows
      <3>3. copy[r[1]][k].ver = r[2]
        BY <3>1, <3>2, RowsComeFromCopies
      <3>4. copy[r[1]][k].ver <= cache[r[1]] /\ cache[r[1]] <= remote[r[1]]
        BY <3>1 DEF NeverAhead, CopiesBehindCache, CacheBehindServer
      <3>5. r[2] \in Int /\ cache[r[1]] \in Int /\ remote[r[1]] \in Int
        BY <3>1 DEF ShownRows, Versions, TypeOK, Statuses, Gone
      <3>. QED
        BY <3>3, <3>4, <3>5
    <2>. QED
      BY <2>1, <2>2 DEF Mirror!OnlyPublishedAdded
  <1>4. Mirror!OnlyOutdatedDropped
    <2> SUFFICES ASSUME NEW r \in ShownRows, r \notin ShownRows'
                 PROVE  r[2] < remote'[r[1]]
      BY DEF Mirror!OnlyOutdatedDropped
    <2> DEFINE d == r[1]
    <2>1. r \in Docs \X Versions /\ d \in Docs /\ r[2] \in Versions
      BY DEF ShownRows
    <2>2. PICK k \in Slots : IsRow(copy[d][k]) /\ copy[d][k].ver = r[2]
      BY DEF ShownRows
    <2>3. remote[d] \in Statuses /\ remote'[d] \in Statuses /\ cache[d] \in Statuses
          /\ cache'[d] \in Statuses
      BY <1>1, <2>1 DEF TypeOK
    <2>4. remote[d] <= remote'[d] /\ r[2] <= cache[d] /\ cache[d] <= remote[d]
      BY <2>1, <2>2, ServerMovesForward DEF NeverAhead, CopiesBehindCache,
         CacheBehindServer
    <2>5. CASE Live(remote'[d])
      <3>1. LiveRowKept(d, k)
        BY <2>1, <2>2, <2>5, NextKeepsLiveRows
      <3>2. ~(IsRow(copy'[d][k]) /\ copy'[d][k].ver = r[2])
        BY <2>1 DEF ShownRows
      <3>3. copy[d][k] \in Copies
        BY <2>1 DEF TypeOK
      <3>4. \A c \in Copies : LET e == [c EXCEPT !.fav = ~@]
                              IN  e.ver = c.ver /\ e.st = c.st
        BY DEF Copies, Free
      <3>5. copy'[d][k].ver > r[2]
        BY <2>2, <3>1, <3>2, <3>3, <3>4 DEF LiveRowKept, IsRow
      <3>6. copy'[d][k].ver <= cache'[d] /\ cache'[d] <= remote'[d]
        BY <1>1, <2>1 DEF NeverAhead, CopiesBehindCache, CacheBehindServer
      <3>7. copy'[d][k] \in Copies
        BY <1>1, <2>1 DEF TypeOK
      <3>8. copy'[d][k].ver \in Int
        BY <3>7, CopiesBuilt DEF Statuses, Gone
      <3>. QED
        BY <2>1, <2>3, <3>5, <3>6, <3>8 DEF Statuses, Gone, Versions
    <2>6. CASE ~Live(remote'[d])
      BY <2>1, <2>3, <2>4, <2>6 DEF Live, Versions, Statuses, Gone
    <2>. QED
      BY <2>5, <2>6
  <1>. QED
    BY <1>2, <1>3, <1>4 DEF Mirror!Next

(* The sync implements the promise of CatalogMirror. *)
THEOREM ImplementsMirror == Spec => MirrorSpec
  <1>1. ASSUME TypeOK, NeverAhead, [Next]_vars
        PROVE  [Mirror!Next]_(Mirror!mirrorVars)
    BY <1>1, NextImplementsMirror
  <1>. QED
    BY <1>1, TypeCorrect, NeverAheadInvariant, InitImplementsMirror, PTL
    DEF Spec, MirrorSpec, Mirror!Spec
=============================================================================
