------------------------ MODULE ContentEditorProofs ------------------------
(***************************************************************************)
(* Theorems of ContentEditor, for every set of kinds, names and            *)
(* identifiers and all bounds.                                             *)
(***************************************************************************)
EXTENDS ContentEditor, TLAPS

USE EditorAssumption

-----------------------------------------------------------------------------
(* What the phases of an editor stand for.  A save timer runs only while    *)
(* the editor of discounts waits: the disabled button sees to it.           *)
PhaseInv ==
  /\ timers > 0 => phase = "waiting" /\ HasTimer
  /\ phase # "saved" => made = {}
  /\ phase = "closed" => edited = NoId /\ ~okButton

(* The other editors have one upload, and only while they wait: their alert *)
(* has no button, so that there is no second attempt.                       *)
UploadInv ==
  ~HasTimer =>
    /\ \A t \in Tags : uploads[t].owner = "editor" => phase = "waiting"
    /\ \A t, u \in Tags :
         uploads[t].owner = "editor" /\ uploads[u].owner = "editor" => t = u

(* From the first attempt on, a discount to change is gone. *)
DeletedInv ==
  /\ HasTimer /\ edited # NoId
  /\ phase \in {"waiting", "failed", "saved"} \/ okButton
  => docs[edited].st = "gone"

IInv ==
  /\ TypeOK
  /\ PhaseInv
  /\ UploadInv
  /\ DeletedInv
  /\ OneDocument
  /\ EditKeepsDocument
  /\ SavedIsPublished
-----------------------------------------------------------------------------
(* The records the actions build. *)
LEMMA RecordsBuilt ==
  /\ Unused \in Documents /\ Unused.st = "unused"
  /\ Gone \in Documents /\ Gone.st = "gone"
  /\ NoUpload \in Uploads /\ NoUpload.owner = "dead" /\ NoUpload.st = "none"
  /\ \A n, u \in Names \cup {NoName} :
       /\ Document(n, u) \in Documents
       /\ Document(n, u).st = "live"
       /\ Document(n, u).name = n
       /\ Document(n, u).url = u
  /\ \A n \in Names :
       [st |-> "sent", owner |-> "editor", path |-> n] \in Uploads
  BY DEF Documents, Document, Unused, Gone, Uploads, NoUpload

(* What becomes of an upload in flight. *)
LEMMA UploadsInFlight ==
  ASSUME NEW r \in Uploads, r.st # "none"
  PROVE  /\ r.path \in Names
         /\ Stored(r) \in Uploads
         /\ Stored(r).owner = r.owner
         /\ \A o \in {"gone", "dead"} :
              OwnedBy(r, o) \in Uploads /\ OwnedBy(r, o).owner = o
  BY DEF Uploads, NoUpload, Stored, OwnedBy

LEMMA OwnedInFlight ==
  ASSUME NEW r \in Uploads
  PROVE  (r.owner # "dead" => r.st # "none") /\ (r # NoUpload <=> r.st # "none")
  BY DEF Uploads, NoUpload

LEMMA RemovalsCounted ==
  ASSUME removals \in [Names -> Nat], NEW p, RemovePicture(p)
  PROVE  removals' \in [Names -> Nat]
  <1>1. \A q \in Names : removals[q] + 1 \in Nat
    OBVIOUS
  <1>. QED
    BY <1>1 DEF RemovePicture

LEMMA InitIInv == Init => IInv
  <1> SUFFICES ASSUME Init PROVE IInv
    OBVIOUS
  <1>. USE DEF Init
  <1>1. TypeOK
    <2>1. timers \in 0 .. 1 /\ removals \in [Names -> Nat]
      OBVIOUS
    <2>2. alert \in BOOLEAN /\ okButton \in BOOLEAN /\ orphan \in BOOLEAN
      OBVIOUS
    <2>. QED
      BY <2>1, <2>2, RecordsBuilt DEF TypeOK, Phases
  <1>2. PhaseInv /\ UploadInv /\ DeletedInv
    BY RecordsBuilt DEF PhaseInv, UploadInv, DeletedInv
  <1>3. OneDocument /\ EditKeepsDocument /\ SavedIsPublished
    BY DEF OneDocument, EditKeepsDocument, SavedIsPublished
  <1>. QED
    BY <1>1, <1>2, <1>3 DEF IInv

(* The editor is gone: nothing of it is left that an invariant speaks of. *)
LEMMA ClosedStep ==
  ASSUME IInv, NoEditor, orphan' \in BOOLEAN,
         uploads' \in [Tags -> Uploads],
         \A t \in Tags : uploads'[t].owner # "editor"
  PROVE  IInv'
  <1>1. TypeOK'
    <2>1. timers' \in 0 .. 1
      BY DEF NoEditor
    <2>2. alert' \in BOOLEAN /\ okButton' \in BOOLEAN
      BY DEF NoEditor
    <2>. QED
      BY <2>1, <2>2 DEF IInv, TypeOK, NoEditor, Phases
  <1>2. PhaseInv' /\ UploadInv' /\ DeletedInv'
    BY DEF NoEditor, PhaseInv, UploadInv, DeletedInv, HasTimer
  <1>3. OneDocument' /\ EditKeepsDocument' /\ SavedIsPublished'
    BY DEF NoEditor, OneDocument, EditKeepsDocument, SavedIsPublished, Live
  <1>. QED
    BY <1>1, <1>2, <1>3 DEF IInv

LEMMA EditorCloses ==
  ASSUME IInv, Leave \/ CloseTimer \/ AppEnds
  PROVE  IInv'
  <1>1. CASE Leave \/ CloseTimer
    <2>1. PICK f \in BOOLEAN : Closed(f)
      BY <1>1 DEF Leave, CloseTimer, IInv, TypeOK
    <2>2. uploads' \in [Tags -> Uploads]
      BY <2>1, UploadsInFlight, OwnedInFlight DEF Closed, IInv, TypeOK
    <2>3. \A t \in Tags : uploads'[t].owner # "editor"
      BY <2>1, UploadsInFlight, OwnedInFlight DEF Closed, IInv, TypeOK
    <2>. QED
      BY <2>1, <2>2, <2>3, ClosedStep DEF Closed
  <1>2. CASE AppEnds
    <2>1. uploads' \in [Tags -> Uploads]
      BY <1>2, RecordsBuilt, UploadsInFlight DEF AppEnds, IInv, TypeOK
    <2>2. \A t \in Tags : uploads'[t].owner # "editor"
      BY <1>2, RecordsBuilt, UploadsInFlight DEF AppEnds, IInv, TypeOK
    <2>. QED
      BY <1>2, <2>1, <2>2, ClosedStep DEF AppEnds
  <1>. QED
    BY <1>1, <1>2

(* A step that touches neither documents nor editor, and makes no upload    *)
(* the editor's own.                                                        *)
LEMMA BackgroundStep ==
  ASSUME IInv, UNCHANGED <<kind, docs, session, screen, clocks>>,
         pictures' \in SUBSET Names, removals' \in [Names -> Nat],
         url' \in Names \cup {NoName},
         uploads' \in [Tags -> Uploads],
         \A t \in Tags : uploads'[t].owner = "editor" => uploads[t].owner = "editor"
  PROVE  IInv'
  <1>. USE DEF session, screen, clocks
  <1>1. TypeOK'
    BY DEF IInv, TypeOK
  <1>2. PhaseInv' /\ UploadInv' /\ DeletedInv'
    BY DEF IInv, PhaseInv, UploadInv, DeletedInv, HasTimer
  <1>3. OneDocument' /\ EditKeepsDocument' /\ SavedIsPublished'
    BY DEF IInv, OneDocument, EditKeepsDocument, SavedIsPublished, Live
  <1>. QED
    BY <1>1, <1>2, <1>3 DEF IInv

LEMMA StorageSteps ==
  ASSUME IInv, Storage \/ \E t \in Tags : URLForDiscont(t)
  PROVE  IInv'
  <1>1. ASSUME NEW t \in Tags, PutDone(t) PROVE IInv'
    <2>1. uploads[t] \in Uploads /\ uploads[t].st # "none"
      BY <1>1 DEF PutDone, IInv, TypeOK
    <2>2. pictures' \in SUBSET Names
      BY <1>1, <2>1, UploadsInFlight DEF PutDone, IInv, TypeOK
    <2>3. uploads'[t] \in Uploads /\ uploads'[t].owner \in {"dead", uploads[t].owner}
      <3>1. CASE uploads[t].owner = "dead"
        <4>1. uploads'[t] = NoUpload
          BY <1>1, <3>1 DEF PutDone, IInv, TypeOK
        <4>. QED
          BY <4>1, RecordsBuilt
      <3>2. CASE uploads[t].owner # "dead"
        <4>1. uploads'[t] = Stored(uploads[t])
          BY <1>1, <3>2 DEF PutDone, IInv, TypeOK
        <4>. QED
          BY <2>1, <4>1, UploadsInFlight
      <3>. QED
        BY <3>1, <3>2
    <2>4. uploads' \in [Tags -> Uploads]
      BY <1>1, <2>3 DEF PutDone, IInv, TypeOK
    <2>5. \A u \in Tags : uploads'[u].owner = "editor" => uploads[u].owner = "editor"
      BY <1>1, <2>3 DEF PutDone, IInv, TypeOK
    <2>. QED
      BY <1>1, <2>2, <2>4, <2>5, BackgroundStep DEF PutDone, IInv, TypeOK
  <1>2. ASSUME NEW t \in Tags, UploadFails(t) PROVE IInv'
    <2>1. /\ uploads' \in [Tags -> Uploads]
          /\ \A u \in Tags : uploads'[u].owner = "editor" => uploads[u].owner = "editor"
      BY <1>2, RecordsBuilt DEF UploadFails, IInv, TypeOK
    <2>. QED
      BY <1>2, <2>1, BackgroundStep DEF UploadFails, IInv, TypeOK
  <1>3. ASSUME NEW p \in Names, RemovalDone(p) PROVE IInv'
    <2>1. removals' \in [Names -> Nat] /\ pictures' \in SUBSET Names
      BY <1>3 DEF RemovalDone, IInv, TypeOK
    <2>. QED
      BY <1>3, <2>1, BackgroundStep DEF RemovalDone, IInv, TypeOK
  <1>4. ASSUME NEW t \in Tags, URLForDiscont(t) PROVE IInv'
    <2>1. /\ uploads' \in [Tags -> Uploads]
          /\ \A u \in Tags : uploads'[u].owner = "editor" => uploads[u].owner = "editor"
      BY <1>4, RecordsBuilt DEF URLForDiscont, TakeURL, IInv, TypeOK
    <2>2. url' \in Names
      BY <1>4 DEF URLForDiscont, TakeURL, HasURL, IInv, TypeOK
    <2>. QED
      BY <1>4, <2>1, <2>2, BackgroundStep DEF URLForDiscont, TakeURL, IInv, TypeOK
  <1>. QED
    BY <1>1, <1>2, <1>3, <1>4 DEF Storage

-----------------------------------------------------------------------------
(* The administrator's steps. *)
LEMMA OpenEditorStep ==
  ASSUME IInv, NEW i \in Ids \cup {NoId}, OpenEditor(i)
  PROVE  IInv'
  <1>. USE DEF OpenEditor, storage, clocks
  <1>1. TypeOK'
    <2>1. i # NoId => docs[i].url \in Names \cup {NoName}
      BY DEF IInv, TypeOK, Documents
    <2>. QED
      BY <2>1 DEF IInv, TypeOK, Phases
  <1>2. made = {} /\ ~okButton /\ ~(timers > 0)
    BY DEF IInv, PhaseInv
  <1>3. PhaseInv' /\ UploadInv' /\ DeletedInv'
    BY <1>2 DEF IInv, PhaseInv, UploadInv, DeletedInv, HasTimer
  <1>4. OneDocument' /\ EditKeepsDocument' /\ SavedIsPublished'
    BY <1>2 DEF OneDocument, EditKeepsDocument, SavedIsPublished, Live
  <1>. QED
    BY <1>1, <1>3, <1>4 DEF IInv

LEMMA DeleteItemStep ==
  ASSUME IInv, NEW i \in Ids, DeleteItem(i)
  PROVE  IInv'
  <1>. USE DEF DeleteItem, session, screen, clocks
  <1>1. TypeOK'
    <2>1. docs' \in [Ids -> Documents]
      BY RecordsBuilt DEF IInv, TypeOK
    <2>2. removals' \in [Names -> Nat]
      BY RemovalsCounted DEF IInv, TypeOK
    <2>. QED
      BY <2>1, <2>2 DEF IInv, TypeOK
  <1>2. edited = NoId /\ made = {}
    BY DEF IInv, PhaseInv
  <1>3. PhaseInv' /\ UploadInv' /\ DeletedInv'
    BY <1>2 DEF IInv, PhaseInv, UploadInv, DeletedInv, HasTimer
  <1>4. OneDocument' /\ EditKeepsDocument' /\ SavedIsPublished'
    BY <1>2 DEF OneDocument, EditKeepsDocument, SavedIsPublished, Live
  <1>. QED
    BY <1>1, <1>3, <1>4 DEF IInv

(* No timer and, but for discounts, no upload of the editor is left when    *)
(* the form takes a save.                                                   *)
LEMMA SaveStep ==
  ASSUME IInv, NEW n \in Names, NEW t \in Tags, Save(n, t)
  PROVE  IInv'
  <1>. USE DEF Save
  <1>1. timers = 0 /\ made = {}
    BY DEF IInv, TypeOK, PhaseInv
  <1>2. docs' \in [Ids -> Documents] /\ removals' \in [Names -> Nat]
    <2>1. CASE DeletesFirst /\ edited # NoId
      <3>1. docs' = [docs EXCEPT ![edited] = Gone] /\ RemovePicture(oldPath)
        BY <2>1
      <3>2. docs' \in [Ids -> Documents]
        BY <3>1, RecordsBuilt DEF IInv, TypeOK
      <3>3. removals' \in [Names -> Nat]
        BY <3>1, RemovalsCounted DEF IInv, TypeOK
      <3>. QED
        BY <3>2, <3>3
    <2>2. CASE ~(DeletesFirst /\ edited # NoId)
      BY <2>2 DEF IInv, TypeOK
    <2>. QED
      BY <2>1, <2>2
  <1>3. uploads' \in [Tags -> Uploads]
    BY RecordsBuilt DEF IInv, TypeOK
  <1>4. TypeOK'
    BY <1>1, <1>2, <1>3 DEF IInv, TypeOK, Phases
  <1>5. PhaseInv'
    BY <1>1 DEF PhaseInv, HasTimer
  <1>6. UploadInv'
    <2>1. ~HasTimer => \A u \in Tags : uploads'[u].owner = "editor" => u = t
      BY DEF IInv, TypeOK, UploadInv
    <2>. QED
      BY <2>1 DEF UploadInv, HasTimer
  <1>7. DeletedInv'
    BY RecordsBuilt DEF IInv, TypeOK, DeletedInv, HasTimer, DeletesFirst
  <1>8. OneDocument' /\ EditKeepsDocument' /\ SavedIsPublished'
    BY <1>1 DEF IInv, OneDocument, EditKeepsDocument, SavedIsPublished, Live,
                DeletesFirst
  <1>. QED
    BY <1>4, <1>5, <1>6, <1>7, <1>8 DEF IInv

LEMMA AlertSteps ==
  ASSUME IInv, TapOK \/ TimerFails
  PROVE  IInv'
  <1>. USE DEF TapOK, TimerFails, storage, session, clocks
  <1>1. TypeOK'
    <2>1. timers' \in 0 .. 1
      BY DEF IInv, TypeOK
    <2>2. phase' \in Phases /\ alert' \in BOOLEAN /\ okButton' \in BOOLEAN
      BY DEF IInv, TypeOK, Phases
    <2>. QED
      BY <2>1, <2>2 DEF IInv, TypeOK
  <1>2. PhaseInv'
    BY DEF IInv, TypeOK, PhaseInv, HasTimer
  <1>3. UploadInv'
    <2>1. TimerFails => HasTimer
      BY DEF IInv, PhaseInv
    <2>2. CASE TapOK
      BY <2>2 DEF IInv, UploadInv, HasTimer
    <2>. QED
      BY <2>1, <2>2 DEF UploadInv, HasTimer
  <1>4. DeletedInv'
    BY DEF IInv, PhaseInv, DeletedInv, HasTimer
  <1>5. OneDocument' /\ EditKeepsDocument' /\ SavedIsPublished'
    BY DEF IInv, OneDocument, EditKeepsDocument, SavedIsPublished, Live
  <1>. QED
    BY <1>1, <1>2, <1>3, <1>4, <1>5 DEF IInv

-----------------------------------------------------------------------------
(* Publication: nothing has been added before, and of the item at most the  *)
(* document to change is alive.                                             *)
LEMMA TimerPublishesStep ==
  ASSUME IInv, NEW i \in Ids, TimerPublishes(i)
  PROVE  IInv'
  <1>. USE DEF TimerPublishes, AddDocument, storage
  <1>1. phase = "waiting" /\ HasTimer /\ made = {} /\ timers = 1
    BY DEF IInv, TypeOK, PhaseInv
  <1>2. name \in Names \cup {NoName} /\ url \in Names
    BY DEF IInv, TypeOK
  <1>3. docs' \in [Ids -> Documents] /\ made' \in SUBSET Ids
    BY <1>2, RecordsBuilt DEF IInv, TypeOK
  <1>4. TypeOK'
    <2>1. timers' \in 0 .. 1
      BY <1>1
    <2>. QED
      BY <1>3, <2>1 DEF IInv, TypeOK, Phases
  <1>5. PhaseInv' /\ UploadInv'
    BY <1>1 DEF PhaseInv, UploadInv, HasTimer
  <1>6. edited # NoId => i # edited /\ docs[edited].st = "gone"
    BY <1>1, RecordsBuilt DEF IInv, DeletedInv
  <1>7. DeletedInv'
    BY <1>6, RecordsBuilt DEF IInv, TypeOK, DeletedInv, HasTimer
  <1>8. docs'[i] = Document(name, url)
    BY DEF IInv, TypeOK
  <1>9. OneDocument'
    BY <1>1, <1>6 DEF IInv, TypeOK, OneDocument, Live
  <1>10. EditKeepsDocument'
    BY <1>1 DEF EditKeepsDocument, HasTimer
  <1>11. SavedIsPublished'
    BY <1>2, <1>8, RecordsBuilt DEF SavedIsPublished, Live
  <1>. QED
    BY <1>4, <1>5, <1>7, <1>9, <1>10, <1>11 DEF IInv

(* What the three ways to take a URL in a completion have in common.        *)
LEMMA TakenURL ==
  ASSUME IInv, NEW t \in Tags, TakeURL(t), ~HasTimer
  PROVE  /\ phase = "waiting" /\ made = {} /\ timers = 0
         /\ uploads[t].path \in Names
         /\ uploads' \in [Tags -> Uploads]
         /\ \A u \in Tags : uploads'[u].owner # "editor"
  <1>. USE DEF TakeURL, HasURL
  <1>1. phase = "waiting" /\ uploads[t].path \in Names
    BY DEF IInv, TypeOK, UploadInv
  <1>2. made = {} /\ timers = 0
    BY <1>1 DEF IInv, TypeOK, PhaseInv
  <1>3. uploads' \in [Tags -> Uploads]
    BY RecordsBuilt DEF IInv, TypeOK
  <1>4. \A u \in Tags : uploads'[u].owner # "editor"
    BY RecordsBuilt DEF IInv, TypeOK, UploadInv
  <1>. QED
    BY <1>1, <1>2, <1>3, <1>4

LEMMA URLForNewStep ==
  ASSUME IInv, NEW t \in Tags, NEW i \in Ids, URLForNew(t, i)
  PROVE  IInv'
  <1>. USE DEF URLForNew, AddDocument, clocks
  <1>1. TakeURL(t) /\ ~HasTimer /\ edited = NoId
    OBVIOUS
  <1>2. /\ phase = "waiting" /\ made = {} /\ timers = 0
        /\ uploads[t].path \in Names
        /\ uploads' \in [Tags -> Uploads]
        /\ \A u \in Tags : uploads'[u].owner # "editor"
    BY <1>1, TakenURL
  <1>3. docs' \in [Ids -> Documents] /\ docs'[i] = Document(name, uploads[t].path)
    BY <1>2, RecordsBuilt DEF IInv, TypeOK
  <1>4. TypeOK'
    BY <1>1, <1>2, <1>3 DEF TakeURL, IInv, TypeOK, Phases
  <1>5. PhaseInv' /\ UploadInv' /\ DeletedInv'
    BY <1>1, <1>2 DEF PhaseInv, UploadInv, DeletedInv, HasTimer
  <1>6. OneDocument' /\ EditKeepsDocument'
    BY <1>1, <1>2 DEF OneDocument, EditKeepsDocument, Live
  <1>7. SavedIsPublished'
    BY <1>2, <1>3, RecordsBuilt DEF IInv, TypeOK, SavedIsPublished, Live
  <1>. QED
    BY <1>4, <1>5, <1>6, <1>7 DEF IInv

LEMMA URLForMasterStep ==
  ASSUME IInv, NEW t \in Tags, URLForMaster(t)
  PROVE  IInv'
  <1>. USE DEF URLForMaster, session, clocks
  <1>1. TakeURL(t) /\ ~HasTimer /\ edited \in Ids
    BY DEF IInv, TypeOK, HasTimer
  <1>2. /\ phase = "waiting" /\ made = {} /\ timers = 0
        /\ uploads[t].path \in Names
        /\ uploads' \in [Tags -> Uploads]
        /\ \A u \in Tags : uploads'[u].owner # "editor"
    BY <1>1, TakenURL
  <1>3. /\ docs' \in [Ids -> Documents]
        /\ docs'[edited] = Document(name, uploads[t].path)
    BY <1>1, <1>2, RecordsBuilt DEF IInv, TypeOK
  <1>4. removals' \in [Names -> Nat]
    BY RemovalsCounted DEF IInv, TypeOK
  <1>5. TypeOK'
    BY <1>1, <1>2, <1>3, <1>4 DEF TakeURL, IInv, TypeOK, Phases
  <1>6. PhaseInv' /\ UploadInv' /\ DeletedInv'
    BY <1>1, <1>2 DEF PhaseInv, UploadInv, DeletedInv, HasTimer
  <1>7. OneDocument'
    BY <1>2 DEF OneDocument
  <1>8. EditKeepsDocument' /\ SavedIsPublished'
    BY <1>1, <1>2, <1>3, RecordsBuilt
    DEF IInv, TypeOK, EditKeepsDocument, SavedIsPublished, Live
  <1>. QED
    BY <1>5, <1>6, <1>7, <1>8 DEF IInv

LEMMA URLForServiceStep ==
  ASSUME IInv, NEW t \in Tags, NEW i \in Ids, URLForService(t, i)
  PROVE  IInv'
  <1>. USE DEF URLForService, clocks
  <1>1. TakeURL(t) /\ ~HasTimer /\ edited \in Ids
    BY DEF IInv, TypeOK, HasTimer
  <1>2. /\ phase = "waiting" /\ made = {} /\ timers = 0
        /\ uploads[t].path \in Names
        /\ uploads' \in [Tags -> Uploads]
        /\ \A u \in Tags : uploads'[u].owner # "editor"
    BY <1>1, TakenURL
  <1>3. docs[edited].st = "live"
    BY <1>1, <1>2 DEF IInv, EditKeepsDocument, HasTimer, Live
  <1>4. i # edited
    BY <1>3, RecordsBuilt
  <1>5. /\ docs' \in [Ids -> Documents]
        /\ docs'[i] = Document(name, uploads[t].path)
        /\ docs'[edited] = Gone
    BY <1>1, <1>2, <1>4, RecordsBuilt DEF IInv, TypeOK
  <1>6. removals' \in [Names -> Nat]
    BY RemovalsCounted DEF IInv, TypeOK
  <1>7. TypeOK'
    BY <1>1, <1>2, <1>5, <1>6 DEF TakeURL, IInv, TypeOK, Phases
  <1>8. PhaseInv' /\ UploadInv' /\ DeletedInv'
    BY <1>1, <1>2 DEF PhaseInv, UploadInv, DeletedInv, HasTimer
  <1>9. OneDocument'
    BY <1>2, <1>5, RecordsBuilt DEF OneDocument, Live
  <1>10. EditKeepsDocument' /\ SavedIsPublished'
    BY <1>2, <1>5, RecordsBuilt
    DEF IInv, TypeOK, EditKeepsDocument, SavedIsPublished, Live
  <1>. QED
    BY <1>7, <1>8, <1>9, <1>10 DEF IInv

-----------------------------------------------------------------------------
LEMMA StutterIInv == IInv /\ UNCHANGED vars => IInv'
  <1> SUFFICES ASSUME IInv, UNCHANGED vars PROVE IInv'
    OBVIOUS
  <1>. USE DEF vars, storage, session, screen, clocks
  <1>. QED
    BY BackgroundStep DEF IInv, TypeOK

LEMMA NextIInv == IInv /\ [Next]_vars => IInv'
  <1> SUFFICES ASSUME IInv, [Next]_vars PROVE IInv'
    OBVIOUS
  <1>1. CASE Administrator
    BY <1>1, OpenEditorStep, SaveStep, DeleteItemStep, AlertSteps, EditorCloses
    DEF Administrator
  <1>2. CASE Timer
    BY <1>2, TimerPublishesStep, AlertSteps, EditorCloses
    DEF Timer, TimerFailsAgain, OrphanTimer
  <1>3. CASE Storage
    BY <1>3, StorageSteps
  <1>4. ASSUME NEW t \in Tags, Completion(t) PROVE IInv'
    BY <1>4, StorageSteps, URLForNewStep, URLForMasterStep, URLForServiceStep,
       EditorCloses
    DEF Completion, URLForNobody
  <1>5. CASE AppEnds
    BY <1>5, EditorCloses
  <1>6. CASE UNCHANGED vars
    BY <1>6, StutterIInv
  <1>. QED
    BY <1>1, <1>2, <1>3, <1>4, <1>5, <1>6 DEF Next

LEMMA Invariance == Spec => []IInv
  BY InitIInv, NextIInv, PTL DEF Spec

(* Every variable of the editors keeps its type; in particular no second    *)
(* save timer ever runs (AddNewDiscontVC.swift:148).                        *)
THEOREM EditorTypeCorrect == Spec => []TypeOK
  BY Invariance, PTL DEF IInv

(* An editor leaves at most one document of its item, whatever comes late,  *)
(* fails or is tried again (saveDiscont, saveMaster, saveAction).           *)
THEOREM OneDocumentInvariant == Spec => []OneDocument
  BY Invariance, PTL DEF IInv

(* Changing a master or a service never leaves it without a document        *)
(* (updataMaster; saveServiceToFirebase before deleteDocument).             *)
THEOREM EditKeepsDocumentInvariant == Spec => []EditKeepsDocument
  BY Invariance, PTL DEF IInv

(* What the alert calls saved has been published, with a URL from Storage.  *)
THEOREM SavedIsPublishedInvariant == Spec => []SavedIsPublished
  BY Invariance, PTL DEF IInv
=============================================================================
