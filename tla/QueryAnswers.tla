---------------------------- MODULE QueryAnswers ----------------------------
(***************************************************************************)
(* What getDocuments promises its callers, without streams, targets or     *)
(* timers: the device has a copy of the collection that lags behind the    *)
(* server and never goes back, whatever comes late, twice or not at all;   *)
(* an answer shows the copy as it is when the answer is given, so that no  *)
(* answer is older than one given before; an answer that is not marked as  *)
(* cached is a whole state of the server; and the completion of a call     *)
(* runs for the first answer to it only.                                   *)
(***************************************************************************)
EXTENDS Naturals, Sequences

CONSTANTS
  Docs,   \* documents
  Calls   \* calls of getDocuments

VARIABLES
  log,      \* the server: the writes it took; a version is an index
  copy,     \* the version of each document on the device, 0 for none
  answers,  \* answers on their way to their calls
  answered  \* how often the completion of a call has run

answersVars == <<log, copy, answers, answered>>

-----------------------------------------------------------------------------
(* Version v is one of document d, or none. *)
IsOf(d, v) == v = 0 \/ log[v].doc = d

(* The last version of document d among the first n. *)
VersionAt(d, n) ==
  CHOOSE v \in 0 .. n : IsOf(d, v) /\ \A i \in v + 1 .. n : ~IsOf(d, i)

(* What a query lists: the documents that exist. *)
Listed(c) == [d \in Docs |-> IF c[d] # 0 /\ log[c[d]].exists THEN c[d] ELSE 0]

Whole(docs) ==
  \E n \in 0 .. Len(log) : docs = Listed([d \in Docs |-> VersionAt(d, n)])

Init ==
  /\ log = <<>>
  /\ copy = [d \in Docs |-> 0]
  /\ answers = <<>>
  /\ answered = [c \in Calls |-> 0]

Write(d) ==
  /\ \E exists \in BOOLEAN : log' = Append(log, [doc |-> d, exists |-> exists])
  /\ UNCHANGED <<copy, answers, answered>>

(* The device comes to know later versions of some documents, and answers   *)
(* some calls.                                                              *)
Learn ==
  \A d \in Docs : copy'[d] \in copy[d] .. Len(log) /\ IsOf(d, copy'[d])

Answer(a) ==
  /\ a.call \in Calls
  /\ a.docs = Listed(copy')
  /\ a.cached \/ Whole(a.docs)

Tell ==
  /\ Learn
  /\ Len(answers) <= Len(answers')
  /\ SubSeq(answers', 1, Len(answers)) = answers
  /\ \A i \in Len(answers) + 1 .. Len(answers') : Answer(answers'[i])
  /\ UNCHANGED <<log, answered>>

(* The next answer arrives; the completion runs if it is the first. *)
Receive ==
  /\ answers # <<>>
  /\ answers' = Tail(answers)
  /\ LET c == Head(answers).call
     IN  answered' = IF answered[c] = 0 THEN [answered EXCEPT ![c] = 1] ELSE answered
  /\ UNCHANGED <<log, copy>>

(* The app is killed: the copy is on disk. *)
Restart ==
  /\ answers' = <<>>
  /\ UNCHANGED <<log, copy, answered>>

Next ==
  \/ \E d \in Docs : Write(d)
  \/ Tell
  \/ Receive
  \/ Restart

Spec == Init /\ [][Next]_answersVars
=============================================================================
