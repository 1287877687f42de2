---------------------------- MODULE CatalogSync ----------------------------
(***************************************************************************)
(* One Firestore collection (disconts, categoryService, masters or         *)
(* services) and its copy in the Realm database of one device.             *)
(*                                                                         *)
(* FirebaseManager.getData...OfFirebase asks for the whole collection; its *)
(* completion runs later, on the main queue, with a snapshot that may be   *)
(* old by then.  For a document that has no row the completion starts an   *)
(* image download, and only the end of the download, later still and again *)
(* on the main queue, adds the row.  So a sync has three phases that       *)
(* interleave with other syncs, with the administrators of other devices   *)
(* and with the user, and a kill of the app loses what is in flight.       *)
(*                                                                         *)
(* A document goes through the statuses 0 (not created yet), 1, 2, ...     *)
(* (the contents it had) and Gone; Firestore gives every document a fresh  *)
(* identifier, so a deleted document never comes back.                     *)
(***************************************************************************)
EXTENDS Integers, Sequences

CONSTANTS
  Collections,  \* the collections to choose from
  Docs,         \* the identifiers of documents that may ever exist
  MaxVersion,   \* bound: contents a document goes through
  MaxSyncs,     \* bound: syncs asked and not finished at a time
  MaxCopies     \* bound: rows and downloads of one document at a time

ASSUME CollectionAssumption ==
  Collections \subseteq {"disconts", "categoryService", "masters", "services"}

ASSUME BoundsAssumption ==
  /\ MaxVersion \in Nat \ {0}
  /\ MaxSyncs \in Nat \ {0}
  /\ MaxCopies \in Nat \ {0}

VARIABLES
  collection,  \* which of the syncs a behaviour is about; never changes
  remote,  \* status of each document on the Firestore server, as this
           \* device sees it online: its own writes included
  cache,   \* what Firestore's cache on the device holds (kept across launches)
  asked,   \* getDocuments calls whose answer has not arrived
  inbox,   \* snapshots whose completion waits in the main queue, in order
  copy     \* copy[d][k]: the k-th download or Realm row of document d

vars == <<collection, remote, cache, asked, inbox, copy>>

-----------------------------------------------------------------------------
Versions == 1 .. MaxVersion
Gone     == MaxVersion + 1
Statuses == 0 .. Gone
Slots    == 1 .. MaxCopies

Live(s) == s \in Versions

Free       == [st |-> "free", ver |-> 0, fav |-> FALSE]
Loading(v) == [st |-> "loading", ver |-> v, fav |-> FALSE]
Row(v)     == [st |-> "stored", ver |-> v, fav |-> FALSE]

Copies == {Free} \cup [st : {"loading", "stored"}, ver : Versions, fav : BOOLEAN]

(* Only getDataMastersOfFirebase compares the fields of the rows it has. *)
Tracked == collection = "masters"

(* The downloads of masters and services check that the image decodes; the *)
(* other two unwrap it with "!".                                           *)
GuardsImage == collection \in {"masters", "services"}

IsRow(c) == c.st = "stored"

(* realm.objects(...).filter("id CONTAINS[c] %@", documentID).count != 0 *)
HasRow(d) == \E k \in Slots : IsRow(copy[d][k])

(* The slot the next download of d takes. *)
HasRoom(d)  == \E k \in Slots : copy[d][k] = Free
FreeSlot(d) == CHOOSE k \in Slots : copy[d][k] = Free

-----------------------------------------------------------------------------
(* Faulty variants, each a bug the code could have and one of the properties *)
(* below would catch; none of them is part of the specification.             *)

(* Downloads also for documents the snapshot does not have. *)
SyncedUnchecked(d, k, s) ==
  IF ~HasRow(d) /\ HasRoom(d) /\ k = FreeSlot(d) THEN Loading(s) ELSE copy[d][k]

(* Replaces the rows it has without comparing them. *)
SyncedUncompared(d, k, s) ==
  CASE Live(s) /\ ~HasRow(d) /\ k = FreeSlot(d) -> Loading(s)
    [] Live(s) /\ IsRow(copy[d][k])             -> Loading(s)
    [] ~Live(s) /\ IsRow(copy[d][k])            -> Free
    [] OTHER                                    -> copy[d][k]

(* Adds what is missing, but removes and replaces nothing. *)
SyncedAddOnly(d, k, s) ==
  IF Live(s) /\ ~HasRow(d) /\ k = FreeSlot(d) THEN Loading(s) ELSE copy[d][k]

(* Runs the completions of getDocuments in the opposite order. *)
ApplyNewestFirst ==
  /\ inbox # <<>>
  /\ \A d \in Docs : HasRoom(d) \/ HasRow(d) \/ ~Live(inbox[Len(inbox)][d])
  /\ copy' = [d \in Docs |-> [k \in Slots |->
                IF Live(inbox[Len(inbox)][d]) /\ ~HasRow(d) /\ k = FreeSlot(d)
                THEN Loading(inbox[Len(inbox)][d]) ELSE copy[d][k]]]
  /\ inbox' = SubSeq(inbox, 1, Len(inbox) - 1)
  /\ UNCHANGED <<collection, remote, cache, asked>>

(* Deletes the row and forgets the document. *)
DeleteRowOnly(d, k) ==
  /\ collection # "categoryService"
  /\ IsRow(copy[d][k])
  /\ copy' = [copy EXCEPT ![d][k] = Free]
  /\ UNCHANGED <<collection, remote, cache, asked, inbox>>

-----------------------------------------------------------------------------
(* First start of the app: an empty Realm and an empty Firestore cache, and *)
(* LaunchVC.updataData has asked for the collection.                        *)
Init ==
  /\ collection \in Collections
  /\ remote = [d \in Docs |-> 0]
  /\ cache = [d \in Docs |-> 0]
  /\ asked = 1
  /\ inbox = <<>>
  /\ copy = [d \in Docs |-> [k \in Slots |-> Free]]

(* An administrator publishes d, on another device or on this one, whose    *)
(* Firestore cache has its own writes at once.                              *)
Publish(d) ==
  /\ remote[d] = 0
  /\ remote' = [remote EXCEPT ![d] = 1]
  /\ cache' \in {cache, [cache EXCEPT ![d] = 1]}
  /\ UNCHANGED <<collection, asked, inbox, copy>>

(* updataMaster: each of its four updateData calls is a new content of the *)
(* document.  Documents of the other collections are never updated.  This  *)
(* device can only edit a master it has a row of.                          *)
Change(d) ==
  /\ Tracked
  /\ Live(remote[d])
  /\ remote[d] < MaxVersion
  /\ remote' = [remote EXCEPT ![d] = @ + 1]
  /\ \/ UNCHANGED cache
     \/ HasRow(d) /\ cache' = [cache EXCEPT ![d] = remote[d] + 1]
  /\ UNCHANGED <<collection, asked, inbox, copy>>

(* Another device deletes the document of d. *)
Remove(d) ==
  /\ Live(remote[d])
  /\ remote' = [remote EXCEPT ![d] = Gone]
  /\ UNCHANGED <<collection, cache, asked, inbox, copy>>

(* Pull to refresh, or the unwind from the discount editor. *)
Refresh ==
  /\ asked + Len(inbox) < MaxSyncs
  /\ asked' = asked + 1
  /\ UNCHANGED <<collection, remote, cache, inbox, copy>>

(* Firestore answers with the state of the server ... *)
AnswerFromServer ==
  /\ asked > 0
  /\ asked' = asked - 1
  /\ cache' = remote
  /\ inbox' = Append(inbox, remote)
  /\ UNCHANGED <<collection, remote, copy>>

(* ... or, when the device is offline, with its cache and no error ... *)
AnswerFromCache ==
  /\ asked > 0
  /\ asked' = asked - 1
  /\ inbox' = Append(inbox, cache)
  /\ UNCHANGED <<collection, remote, cache, copy>>

(* ... or with an error, and the completion only logs it. *)
AnswerError ==
  /\ asked > 0
  /\ asked' = asked - 1
  /\ UNCHANGED <<collection, remote, cache, inbox, copy>>

(* What the completion makes of the k-th copy of d when the snapshot has d *)
(* in status s: a missing document starts a download, a changed row of a   *)
(* master is deleted and downloaded again, a row whose document is not in  *)
(* the snapshot is deleted.  Downloads in flight are not looked at.        *)
Synced(d, k, s) ==
  LET c == copy[d][k] IN
  CASE Live(s) /\ ~HasRow(d) /\ k = FreeSlot(d)     -> Loading(s)
    [] Live(s) /\ Tracked /\ IsRow(c) /\ c.ver # s  -> Loading(s)
    [] ~Live(s) /\ IsRow(c)                         -> Free
    [] OTHER                                        -> c

(* The completion of getDocuments, one block of the main queue. *)
ApplySnapshot ==
  /\ inbox # <<>>
  /\ \A d \in Docs : HasRoom(d) \/ HasRow(d) \/ ~Live(Head(inbox)[d])
  /\ copy' = [d \in Docs |-> [k \in Slots |-> Synced(d, k, Head(inbox)[d])]]
  /\ inbox' = Tail(inbox)
  /\ UNCHANGED <<collection, remote, cache, asked>>

(* The image arrived: the row is added, whatever happened meanwhile. *)
DownloadDone(d, k) ==
  /\ copy[d][k].st = "loading"
  /\ copy' = [copy EXCEPT ![d][k] = Row(copy[d][k].ver)]
  /\ UNCHANGED <<collection, remote, cache, asked, inbox>>

(* The download failed, or its status was not 200: no row, no retry. *)
DownloadFailed(d, k) ==
  /\ copy[d][k].st = "loading"
  /\ copy' = [copy EXCEPT ![d][k] = Free]
  /\ UNCHANGED <<collection, remote, cache, asked, inbox>>

(* The app dies and is launched again: rows and Firestore's cache are on    *)
(* disk, the rest is lost, and updataData asks for the collection anew.     *)
Relaunch ==
  /\ asked' = 1
  /\ inbox' = <<>>
  /\ copy' = [d \in Docs |-> [k \in Slots |->
                IF IsRow(copy[d][k]) THEN copy[d][k] ELSE Free]]
  /\ UNCHANGED <<collection, remote, cache>>

(* The bytes of the image do not decode. *)
ImageUnreadable(d, k) ==
  /\ copy[d][k].st = "loading"
  /\ IF GuardsImage THEN DownloadFailed(d, k) ELSE Relaunch

(* The user confirms the deletion of a row: the document goes (in the view  *)
(* this device has of the collection at once) and so does that one row.     *)
(* Categories have no such command.                                         *)
DeleteRow(d, k) ==
  /\ collection # "categoryService"
  /\ IsRow(copy[d][k])
  /\ remote' = [remote EXCEPT ![d] = Gone]
  /\ cache' = [cache EXCEPT ![d] = Gone]
  /\ copy' = [copy EXCEPT ![d][k] = Free]
  /\ UNCHANGED <<collection, asked, inbox>>

(* The star of a service: favoritesAction flips the flag of the first row   *)
(* with the identifier; which one that is, with several, Realm decides.     *)
ToggleFavorite(d, k) ==
  /\ collection = "services"
  /\ IsRow(copy[d][k])
  /\ copy' = [copy EXCEPT ![d][k].fav = ~@]
  /\ UNCHANGED <<collection, remote, cache, asked, inbox>>

Environment ==
  \E d \in Docs : Publish(d) \/ Change(d) \/ Remove(d)

Answer == AnswerFromServer \/ AnswerFromCache \/ AnswerError

Download(d) ==
  \E k \in Slots :
    DownloadDone(d, k) \/ DownloadFailed(d, k) \/ ImageUnreadable(d, k)

User ==
  \E d \in Docs, k \in Slots : DeleteRow(d, k) \/ ToggleFavorite(d, k)

Next ==
  \/ Environment
  \/ Refresh
  \/ Answer
  \/ ApplySnapshot
  \/ \E d \in Docs : Download(d)
  \/ Relaunch
  \/ User

Spec == Init /\ [][Next]_vars

(* The main queue runs its blocks; URLSession ends every download; and an  *)
(* image that is downloaded again and again arrives some time.             *)
Fairness ==
  /\ WF_vars(ApplySnapshot)
  /\ \A d \in Docs : \A k \in Slots :
       /\ WF_vars(DownloadDone(d, k) \/ DownloadFailed(d, k))
       /\ SF_vars(DownloadDone(d, k))

FairSpec == Spec /\ Fairness

-----------------------------------------------------------------------------
TypeOK ==
  /\ collection \in Collections
  /\ remote \in [Docs -> Statuses]
  /\ cache \in [Docs -> Statuses]
  /\ asked \in 0 .. MaxSyncs
  /\ inbox \in Seq([Docs -> Statuses])
  /\ copy \in [Docs -> [Slots -> Copies]]

(* What the device has is never newer than what reaches it next: no row and *)
(* no download of a document is newer than a waiting snapshot, no snapshot  *)
(* is newer than one behind it, than the cache or than the server.          *)
InboxInOrder ==
  /\ \A i, j \in 1 .. Len(inbox) :
       i < j => \A d \in Docs : inbox[i][d] <= inbox[j][d]
  /\ \A i \in 1 .. Len(inbox) : \A d \in Docs : inbox[i][d] <= cache[d]

CopiesBehindInbox ==
  \A d \in Docs : \A k \in Slots : \A i \in 1 .. Len(inbox) :
    copy[d][k].ver <= inbox[i][d]

CopiesBehindCache ==
  \A d \in Docs : \A k \in Slots : copy[d][k].ver <= cache[d]

CacheBehindServer == \A d \in Docs : cache[d] <= remote[d]

NeverAhead ==
  InboxInOrder /\ CopiesBehindInbox /\ CopiesBehindCache /\ CacheBehindServer

(* A row of a document that is still on the server is kept, with its star, *)
(* or given up for a newer content of the same document; no stale or       *)
(* offline snapshot, no failure and no restart takes it away.              *)
LiveRowKept(d, k) ==
  \/ copy'[d][k] = copy[d][k]
  \/ copy'[d][k] = [copy[d][k] EXCEPT !.fav = ~@]
  \/ /\ copy'[d][k].st = "loading"
     /\ copy'[d][k].ver > copy[d][k].ver

LiveRowsKept ==
  [][\A d \in Docs, k \in Slots :
       IsRow(copy[d][k]) /\ Live(remote'[d]) => LiveRowKept(d, k)]_vars

(* The comment on line 205 of FirebaseManager.swift, "if the database has no *)
(* such data": a document that has a row is not written a second time.       *)
OneRowPerDocument ==
  \A d \in Docs : \A j, k \in Slots :
    IsRow(copy[d][j]) /\ IsRow(copy[d][k]) => j = k

(* The device shows the server's collection: a row for every document, with *)
(* the content it has now, and no row of a document that is gone.           *)
Mirrored ==
  \A d \in Docs :
    /\ Live(remote[d]) => HasRow(d)
    /\ \A k \in Slots : IsRow(copy[d][k]) => copy[d][k].ver = remote[d]

(* While syncs keep getting the server's answer and running to the end, the *)
(* device comes to show the server's collection and goes on doing so.       *)
SyncsGoOn ==
  /\ []<><<AnswerFromServer>>_vars
  /\ []<><<ApplySnapshot>>_vars

EventuallyMirrored == SyncsGoOn => <>[]Mirrored

-----------------------------------------------------------------------------
(* The promise this module implements: the rows, as the screens list them. *)
ShownRows ==
  {r \in Docs \X Versions :
     \E k \in Slots : IsRow(copy[r[1]][k]) /\ copy[r[1]][k].ver = r[2]}

Mirror == INSTANCE CatalogMirror WITH rows <- ShownRows

MirrorSpec == Mirror!Spec
=============================================================================
