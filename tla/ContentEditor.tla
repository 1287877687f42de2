--------------------------- MODULE ContentEditor ---------------------------
(***************************************************************************)
(* The administrator's editors of one kind of content (AddNewDiscontVC,    *)
(* AddNewMasterVC, AddNewServiceVC), the documents of its collection in    *)
(* Firestore and the folder of its pictures in Firebase Storage.           *)
(*                                                                         *)
(* All three upload the picture to the path that is the name of the item   *)
(* and need the URL of it for the document.  The editor of discounts waits *)
(* five seconds for the URL and may be tried again; the other two publish  *)
(* in the completion that brings the URL.  Changing a discount deletes the *)
(* old document and picture first, changing a service deletes them last,   *)
(* and changing a master keeps the document and deletes the picture.       *)
(*                                                                         *)
(* Documents are as this device sees them: Firestore applies its own       *)
(* writes to its view at once and sends them in order.  Uploads and        *)
(* deletions in Storage are requests that end in any order, or fail.       *)
(***************************************************************************)
EXTENDS Integers

CONSTANTS
  Kinds,        \* which of the editors
  Names,        \* names of items, and so paths of pictures
  Ids,          \* bound: identifiers for documents
  MaxUploads,   \* bound: uploads in flight
  MaxRemovals,  \* bound: deletions in flight of one path
  NoId,
  NoName        \* the empty URL

ASSUME EditorAssumption ==
  /\ Kinds \subseteq {"discont", "master", "service"}
  /\ NoId \notin Ids
  /\ NoName \notin Names
  /\ MaxUploads \in Nat
  /\ MaxRemovals \in Nat

VARIABLES
  kind,      \* the kind of content, always the same
  docs,      \* the collection
  pictures,  \* the paths under which Storage has a picture
  uploads,   \* putData and downloadURL in flight
  removals,  \* deletions of each path in flight
  phase,     \* where the editor is; "closed" is the list of items
  edited,    \* the document to change, NoId if the item is new
  oldPath,   \* the path of the picture of that document
  name,      \* the name collected when the save button was tapped last
  url,       \* the URL for the document, given by its path
  made,      \* history: documents this editor has added
  alert,     \* whether the alert is on show
  okButton,  \* whether the alert has got its button
  timers,    \* save timers of this editor to come
  orphan     \* whether a timer of an editor that is gone is to come

storage == <<pictures, uploads, removals>>
session == <<edited, oldPath, name, made>>
screen  == <<phase, alert, okButton>>
clocks  == <<timers, orphan>>
vars == <<kind, docs, storage, session, url, screen, clocks>>

-----------------------------------------------------------------------------
Tags   == 1 .. MaxUploads
Phases == {"closed", "form", "waiting", "failed", "saved"}

Unused == [st |-> "unused", name |-> NoName, url |-> NoName]
Gone   == [st |-> "gone", name |-> NoName, url |-> NoName]
Documents == [st : {"unused", "live", "gone"},
              name : Names \cup {NoName}, url : Names \cup {NoName}]

Document(n, u) == [st |-> "live", name |-> n, url |-> u]

Live(i) == i \in Ids /\ docs[i].st = "live"

(* An upload belongs to the editor that is open, to one that is gone while  *)
(* the app goes on, or to an app that has died since.                       *)
NoUpload == [st |-> "none", owner |-> "dead", path |-> NoName]
Uploads  == {NoUpload} \cup
  [st : {"sent", "stored"}, owner : {"editor", "gone", "dead"}, path : Names]

OwnedBy(r, o) == [r EXCEPT !.owner = o]
Stored(r) == [r EXCEPT !.st = "stored"]

(* saveDiscont deletes before anything else is done.  (The other one is no  *)
(* part of the specification: a variant with a bug, for services too.)      *)
ServiceDeletesFirst == kind # "master"
DeletesFirst == kind = "discont"

(* Only the discounts wait for a timer. *)
HasTimer == kind = "discont"

-----------------------------------------------------------------------------
(* deleteImageOfFireBaseStorage: the path is read out of the URL. *)
RemovePicture(p) ==
  /\ removals[p] < MaxRemovals
  /\ removals' = [removals EXCEPT ![p] = @ + 1]

(* addDocument with a fresh identifier. *)
AddDocument(i, u) ==
  /\ docs[i] = Unused
  /\ docs' = [docs EXCEPT ![i] = Document(name, u)]
  /\ made' = made \cup {i}

(* Faulty variants, each a bug the code could have and one of the properties *)
(* below would catch; none of them is part of the specification.             *)

(* Does not disable the save button. *)
SaveAgain(n, t) ==
  /\ phase = "form" \/ (phase = "waiting" /\ ~alert)
  /\ uploads[t] = NoUpload
  /\ phase' = "waiting"
  /\ alert' = TRUE
  /\ name' = n
  /\ uploads' = [uploads EXCEPT ![t] =
                   [st |-> "sent", owner |-> "editor", path |-> n]]
  /\ timers' = IF HasTimer THEN timers + 1 ELSE timers
  /\ IF DeletesFirst /\ edited # NoId
     THEN /\ docs' = [docs EXCEPT ![edited] = Gone]
          /\ RemovePicture(oldPath)
     ELSE UNCHANGED <<docs, removals>>
  /\ UNCHANGED <<kind, pictures, edited, oldPath, url, made, okButton, orphan>>

(* Publishes without a look at the URL. *)
TimerUnchecked(i) ==
  /\ timers > 0
  /\ AddDocument(i, url)
  /\ timers' = timers - 1
  /\ phase' = "saved"
  /\ UNCHANGED <<kind, storage, edited, oldPath, name, url, alert, okButton, orphan>>

(* Is a timer that repeats. *)
TimerRepeats ==
  /\ timers > 0
  /\ url = NoName
  /\ ~okButton
  /\ phase' = "failed"
  /\ okButton' = TRUE
  /\ UNCHANGED <<kind, docs, storage, session, url, alert, clocks>>

-----------------------------------------------------------------------------
Init ==
  /\ kind \in Kinds
  /\ docs = [i \in Ids |-> Unused]
  /\ pictures = {}
  /\ uploads = [t \in Tags |-> NoUpload]
  /\ removals = [p \in Names |-> 0]
  /\ phase = "closed"
  /\ edited = NoId
  /\ oldPath = NoName
  /\ name = NoName
  /\ url = NoName
  /\ made = {}
  /\ alert = FALSE
  /\ okButton = FALSE
  /\ timers = 0
  /\ orphan = FALSE

(* A new editor, for a new item or for the one of a row of the list; the    *)
(* row is taken to be in step with the document.                            *)
OpenEditor(i) ==
  /\ phase = "closed"
  /\ i = NoId \/ Live(i)
  /\ phase' = "form"
  /\ edited' = i
  /\ oldPath' = IF i = NoId THEN NoName ELSE docs[i].url
  /\ UNCHANGED <<kind, docs, storage, name, url, made, alert, okButton, clocks>>

NoEditor ==
  /\ phase' = "closed"
  /\ edited' = NoId
  /\ oldPath' = NoName
  /\ name' = NoName
  /\ url' = NoName
  /\ made' = {}
  /\ alert' = FALSE
  /\ okButton' = FALSE
  /\ timers' = 0
  /\ UNCHANGED <<kind, docs, pictures, removals>>

(* The editor goes; its uploads, and perhaps a timer, go on without it. *)
Closed(forgotten) ==
  /\ NoEditor
  /\ orphan' = forgotten
  /\ uploads' = [t \in Tags |->
                   IF uploads[t].owner = "editor"
                   THEN OwnedBy(uploads[t], "gone") ELSE uploads[t]]

(* The administrator swipes the editor away, or taps its exit, which an     *)
(* alert on show prevents.                                                  *)
Leave ==
  /\ phase # "closed"
  /\ ~alert
  /\ Closed(orphan \/ timers > 0 \/ phase = "saved")

(* The app ends, and with it everything that is not on a server: a picture  *)
(* that has been sent may arrive, but nobody hears of it.                   *)
AppEnds ==
  /\ NoEditor
  /\ orphan' = FALSE
  /\ uploads' = [t \in Tags |->
                   IF uploads[t].st = "sent"
                   THEN OwnedBy(uploads[t], "dead") ELSE NoUpload]

(* The swipe action of the list: deleteDocument with the picture. *)
DeleteItem(i) ==
  /\ phase = "closed"
  /\ Live(i)
  /\ docs' = [docs EXCEPT ![i] = Gone]
  /\ RemovePicture(docs[i].url)
  /\ UNCHANGED <<kind, pictures, uploads, session, url, screen, clocks>>

(* The save button: saveDiscont, saveMaster, saveAction.  A discount gives  *)
(* up the old document and its picture here, at every attempt again.        *)
Save(n, t) ==
  /\ phase = "form"
  /\ uploads[t] = NoUpload
  /\ phase' = "waiting"
  /\ alert' = TRUE
  /\ name' = n
  /\ uploads' = [uploads EXCEPT ![t] =
                   [st |-> "sent", owner |-> "editor", path |-> n]]
  /\ timers' = IF HasTimer THEN timers + 1 ELSE timers
  /\ IF DeletesFirst /\ edited # NoId
     THEN /\ docs' = [docs EXCEPT ![edited] = Gone]
          /\ RemovePicture(oldPath)
     ELSE UNCHANGED <<docs, removals>>
  /\ UNCHANGED <<kind, pictures, edited, oldPath, url, made, okButton, orphan>>

(* The button the alert has got by a failure; it is there at the next       *)
(* attempt from the start.                                                  *)
TapOK ==
  /\ alert
  /\ okButton
  /\ alert' = FALSE
  /\ phase' = IF phase = "failed" THEN "form" ELSE phase
  /\ UNCHANGED <<kind, docs, storage, session, url, okButton, clocks>>

(* Five seconds later: the discount is published if the URL has come; if    *)
(* not, the alert gets a button to close it and the editor takes another    *)
(* attempt.  At the second failure the alert would get a second cancel      *)
(* button, which UIKit answers by ending the app.                           *)
TimerPublishes(i) ==
  /\ timers > 0
  /\ url # NoName
  /\ AddDocument(i, url)
  /\ timers' = timers - 1
  /\ phase' = "saved"
  /\ UNCHANGED <<kind, storage, edited, oldPath, name, url, alert, okButton, orphan>>

TimerFails ==
  /\ timers > 0
  /\ url = NoName
  /\ ~okButton
  /\ timers' = timers - 1
  /\ phase' = "failed"
  /\ okButton' = TRUE
  /\ UNCHANGED <<kind, docs, storage, session, url, alert, orphan>>

TimerFailsAgain ==
  /\ timers > 0
  /\ url = NoName
  /\ okButton
  /\ AppEnds

(* "self!" of a timer whose editor has been swiped away. *)
OrphanTimer ==
  /\ orphan
  /\ AppEnds

(* One second after "saved" the editor closes itself. *)
CloseTimer ==
  /\ phase = "saved"
  /\ Closed(orphan)

(* Storage has the picture, in place of what the path had before; the       *)
(* completion of putData asks for the URL.                                  *)
PutDone(t) ==
  /\ uploads[t].st = "sent"
  /\ pictures' = pictures \cup {uploads[t].path}
  /\ uploads' = [uploads EXCEPT ![t] =
                   IF @.owner = "dead" THEN NoUpload ELSE Stored(@)]
  /\ UNCHANGED <<kind, docs, removals, session, url, screen, clocks>>

(* putData or downloadURL ends in an error, which is only logged; so does   *)
(* downloadURL when the picture has been deleted meanwhile.                 *)
UploadFails(t) ==
  /\ uploads[t] # NoUpload
  /\ uploads' = [uploads EXCEPT ![t] = NoUpload]
  /\ UNCHANGED <<kind, docs, pictures, removals, session, url, screen, clocks>>

(* downloadURL has the URL, and its editor takes it. *)
HasURL(t) ==
  /\ uploads[t].st = "stored"
  /\ uploads[t].path \in pictures

TakeURL(t) ==
  /\ HasURL(t)
  /\ uploads[t].owner = "editor"
  /\ uploads' = [uploads EXCEPT ![t] = NoUpload]
  /\ url' = uploads[t].path

(* The editor of discounts keeps it for the timer, early or late. *)
URLForDiscont(t) ==
  /\ TakeURL(t)
  /\ HasTimer
  /\ UNCHANGED <<kind, docs, pictures, removals, session, screen, clocks>>

(* saveServiceToFirebase or saveMasterToFirebase of a new item. *)
URLForNew(t, i) ==
  /\ TakeURL(t)
  /\ ~HasTimer
  /\ edited = NoId
  /\ AddDocument(i, uploads[t].path)
  /\ phase' = "saved"
  /\ UNCHANGED <<kind, pictures, removals, edited, oldPath, name, alert, okButton, clocks>>

(* updataMaster: the four fields one after the other, then the old picture, *)
(* wherever the new one has been put.                                       *)
URLForMaster(t) ==
  /\ TakeURL(t)
  /\ kind = "master"
  /\ edited # NoId
  /\ docs' = [docs EXCEPT ![edited] = Document(name, uploads[t].path)]
  /\ RemovePicture(oldPath)
  /\ phase' = "saved"
  /\ UNCHANGED <<kind, pictures, session, alert, okButton, clocks>>

(* A changed service is a new document, and the old one goes. *)
URLForService(t, i) ==
  /\ TakeURL(t)
  /\ kind = "service"
  /\ edited # NoId
  /\ docs[i] = Unused
  /\ docs' = [docs EXCEPT ![i] = Document(name, uploads[t].path), ![edited] = Gone]
  /\ made' = made \cup {i}
  /\ RemovePicture(oldPath)
  /\ phase' = "saved"
  /\ UNCHANGED <<kind, pictures, edited, oldPath, name, alert, okButton, clocks>>

(* "self!" again: the editor that asked for the URL is gone. *)
URLForNobody(t) ==
  /\ HasURL(t)
  /\ uploads[t].owner = "gone"
  /\ AppEnds

(* A deletion takes effect, or is lost, which is logged. *)
RemovalDone(p) ==
  /\ removals[p] > 0
  /\ removals' = [removals EXCEPT ![p] = @ - 1]
  /\ pictures' \in {pictures, pictures \ {p}}
  /\ UNCHANGED <<kind, docs, uploads, session, url, screen, clocks>>

Administrator ==
  \/ \E i \in Ids \cup {NoId} : OpenEditor(i)
  \/ \E n \in Names, t \in Tags : Save(n, t)
  \/ \E i \in Ids : DeleteItem(i)
  \/ TapOK
  \/ Leave

Timer ==
  \/ \E i \in Ids : TimerPublishes(i)
  \/ TimerFails
  \/ TimerFailsAgain
  \/ OrphanTimer
  \/ CloseTimer

Storage ==
  \/ \E t \in Tags : PutDone(t) \/ UploadFails(t)
  \/ \E p \in Names : RemovalDone(p)

Completion(t) ==
  \/ URLForDiscont(t)
  \/ \E i \in Ids : URLForNew(t, i) \/ URLForService(t, i)
  \/ URLForMaster(t)
  \/ URLForNobody(t)

Next ==
  \/ Administrator
  \/ Timer
  \/ Storage
  \/ \E t \in Tags : Completion(t)
  \/ AppEnds

Spec == Init /\ [][Next]_vars

-----------------------------------------------------------------------------
TypeOK ==
  /\ kind \in Kinds
  /\ docs \in [Ids -> Documents]
  /\ pictures \in SUBSET Names
  /\ uploads \in [Tags -> Uploads]
  /\ removals \in [Names -> Nat]
  /\ phase \in Phases
  /\ edited \in Ids \cup {NoId}
  /\ oldPath \in Names \cup {NoName}
  /\ name \in Names \cup {NoName}
  /\ url \in Names \cup {NoName}
  /\ made \in SUBSET Ids
  /\ alert \in BOOLEAN
  /\ okButton \in BOOLEAN
  /\ timers \in 0 .. 1
  /\ orphan \in BOOLEAN

(* An editor leaves at most one document of its item behind, the one it was *)
(* opened for or the one it has added, whatever comes late, fails or is     *)
(* tried again.                                                             *)
OneDocument ==
  \A i, j \in made \cup {edited} : Live(i) /\ Live(j) => i = j

(* Changing a master or a service never leaves it without a document: the   *)
(* old one stays until the new one is there.                                *)
EditKeepsDocument ==
  kind # "discont" /\ edited # NoId => \E i \in made \cup {edited} : Live(i)

(* When the alert says that the item is saved, there is a document of it    *)
(* with the name that was on the form and a URL that Storage has given.     *)
SavedIsPublished ==
  phase = "saved" =>
    \E i \in made \cup {edited} : Live(i) /\ docs[i].name = name /\ docs[i].url \in Names

(* "Changing the information about a master" (README.md:46), "we update the  *)
(* data in the document" (AddNewMasterVC.swift:201): a saved item keeps its  *)
(* picture, once every request to Storage has ended.                         *)
PictureKept ==
  (\A t \in Tags : uploads[t] = NoUpload) /\ (\A p \in Names : removals[p] = 0) =>
    \A i \in Ids : Live(i) => docs[i].url \in pictures
=============================================================================
