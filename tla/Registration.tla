---------------------------- MODULE Registration ----------------------------
(***************************************************************************)
(* Registering with a phone number: RegistrationVC asks the collection     *)
(* "users" for the number and, when the answer comes, creates a user or    *)
(* takes over the one there is; the Person in Realm is what the rest of    *)
(* the app calls the account.  Several devices register one number.        *)
(*                                                                         *)
(* Nothing keeps the button from being tapped again while a query runs.    *)
(* Answers wait on the app's queue, so that what one of them says may be   *)
(* out of date by the time its completion runs.                            *)
(***************************************************************************)
EXTENDS Integers, Sequences, FiniteSets

CONSTANTS
  Devices,
  MaxTaps     \* bound: taps on the button, on each device

VARIABLES
  users,    \* the server: users with the number, by device and tap
  queued,   \* users a device has added and the server does not have yet
  known,    \* users in the Firestore cache of a device
  screen,   \* "account", "registration", or "leaving" during the segue
  taps,     \* taps so far
  queries,  \* getDocuments calls in flight, for this screen or for nobody
  answers,  \* answers on the app's queue, in the order they came
  managed,  \* whether RegistrationVC.person is an object of Realm
  account   \* whether there is a Person in Realm

vars == <<users, queued, known, screen, taps, queries, answers, managed, account>>

-----------------------------------------------------------------------------
Users == Devices \X (1 .. MaxTaps)

(* An answer: the users it lists, and whether its screen is still there. *)
Answer(list, open) == [list |-> list, open |-> open]

Orphaned(s) == [i \in 1 .. Len(s) |-> [s[i] EXCEPT !.open = FALSE]]

Init ==
  /\ users = {}
  /\ queued = [d \in Devices |-> {}]
  /\ known = [d \in Devices |-> {}]
  /\ screen = [d \in Devices |-> "account"]
  /\ taps = [d \in Devices |-> 0]
  /\ queries = [d \in Devices |-> <<>>]
  /\ answers = [d \in Devices |-> <<>>]
  /\ managed = [d \in Devices |-> FALSE]
  /\ account = [d \in Devices |-> FALSE]

(* fillInTheData shows the button to log in while there is no Person. *)
OpenRegistration(d) ==
  /\ screen[d] = "account"
  /\ ~account[d]
  /\ screen' = [screen EXCEPT ![d] = "registration"]
  /\ managed' = [managed EXCEPT ![d] = FALSE]
  /\ UNCHANGED <<users, queued, known, taps, queries, answers, account>>

(* The controller is gone: calls and answers are for nobody. *)
ScreenGone(d) ==
  /\ screen' = [screen EXCEPT ![d] = "account"]
  /\ queries' = [queries EXCEPT ![d] = [i \in 1 .. Len(@) |-> FALSE]]
  /\ answers' = [answers EXCEPT ![d] = Orphaned(@)]

(* exitAction, or the end of the segue. *)
Leave(d) ==
  /\ screen[d] \in {"registration", "leaving"}
  /\ ScreenGone(d)
  /\ UNCHANGED <<users, queued, known, taps, managed, account>>

(* nextAction with a name and a complete number: checkDataNumberPhone.  The *)
(* name and the number are assigned to the person, which must not be done   *)
(* to an object of Realm; during the segue no button is tapped.             *)
TapNext(d) ==
  /\ screen[d] = "registration"
  /\ taps[d] < MaxTaps
  /\ taps' = [taps EXCEPT ![d] = @ + 1]
  /\ queries' = [queries EXCEPT ![d] = Append(@, TRUE)]
  /\ UNCHANGED <<users, queued, known, screen, answers, managed, account>>

(* An answer is put on the app's queue; own users are always in it.         *)
Answered(d, list) ==
  /\ queries[d] # <<>>
  /\ queries' = [queries EXCEPT ![d] = Tail(@)]
  /\ answers' = [answers EXCEPT ![d] = Append(@, Answer(list \cup queued[d], Head(queries[d])))]
  /\ UNCHANGED <<users, queued, screen, taps, managed, account>>

AnswerFromServer(d) ==
  Answered(d, users) /\ known' = [known EXCEPT ![d] = users]

AnswerFromCache(d) ==
  Answered(d, known[d]) /\ UNCHANGED known

(* An error is logged. *)
AnswerError(d) ==
  /\ queries[d] # <<>>
  /\ queries' = [queries EXCEPT ![d] = Tail(@)]
  /\ UNCHANGED <<users, queued, known, screen, taps, answers, managed, account>>

(* The app ends; Firestore's queue and cache, and Realm, are on disk. *)
Ends(d) ==
  /\ screen' = [screen EXCEPT ![d] = "account"]
  /\ queries' = [queries EXCEPT ![d] = <<>>]
  /\ answers' = [answers EXCEPT ![d] = <<>>]
  /\ managed' = [managed EXCEPT ![d] = FALSE]
  /\ UNCHANGED <<users, queued, known, taps, account>>

(* The completion lists nobody: savePersonToFirebase, saveObject, segue.    *)
CreateUser(d) ==
  /\ queued' = [queued EXCEPT ![d] =
                  @ \cup {<<d, 1 + Cardinality({u \in users \cup @ : u[1] = d})>>}]
  /\ managed' = [managed EXCEPT ![d] = TRUE]
  /\ account' = [account EXCEPT ![d] = TRUE]
  /\ screen' = [screen EXCEPT ![d] = "leaving"]
  /\ answers' = [answers EXCEPT ![d] = Tail(@)]
  /\ UNCHANGED <<users, known, taps, queries>>

(* It lists somebody, whose fields the person takes over. *)
AdoptUser(d) ==
  /\ managed' = [managed EXCEPT ![d] = TRUE]
  /\ account' = [account EXCEPT ![d] = TRUE]
  /\ screen' = [screen EXCEPT ![d] = "leaving"]
  /\ answers' = [answers EXCEPT ![d] = Tail(@)]
  /\ UNCHANGED <<users, queued, known, taps, queries>>

(* The next completion.  "self!" ends the app when the screen is gone, and  *)
(* so does assigning to a person that an earlier completion has stored.     *)
Completion(d) ==
  /\ answers[d] # <<>>
  /\ LET a == Head(answers[d])
     IN  \/ a.open /\ a.list = {} /\ CreateUser(d)
         \/ a.open /\ a.list # {} /\ ~managed[d] /\ AdoptUser(d)
         \/ (~a.open \/ (a.list # {} /\ managed[d])) /\ Ends(d)

ServerStores(d) ==
  \E u \in queued[d] :
    /\ users' = users \cup {u}
    /\ queued' = [queued EXCEPT ![d] = @ \ {u}]
    /\ known' = [known EXCEPT ![d] = @ \cup {u}]
    /\ UNCHANGED <<screen, taps, queries, answers, managed, account>>

Device(d) ==
  \/ OpenRegistration(d) \/ Leave(d) \/ TapNext(d)
  \/ AnswerFromServer(d) \/ AnswerFromCache(d) \/ AnswerError(d)
  \/ Completion(d)
  \/ Ends(d)
  \/ ServerStores(d)

Next == \E d \in Devices : Device(d)

Spec == Init /\ [][Next]_vars

-----------------------------------------------------------------------------
(* "A check for an existing account" (RegistrationVC.swift:42), "if there    *)
(* are no data, we create a new user" (54): the number has one user at most. *)
OneUserPerNumber == Cardinality(users) <= 1
=============================================================================
