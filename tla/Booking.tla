------------------------------ MODULE Booking ------------------------------
(***************************************************************************)
(* Making and cancelling an appointment: the form (MakeAppointmentVC), the *)
(* calendar (CelendarVC), the collection "service_enrty" on the Firestore  *)
(* server and the list of one's own appointments in Realm                  *)
(* (SampleServiceEmptyVC), for several devices.                            *)
(*                                                                         *)
(* The calendar asks Firestore for the busy times when a day is tapped and *)
(* draws the table of times when the answer arrives; queries of different  *)
(* days are answered in any order.  The form adds a document and leaves    *)
(* without waiting; the row in Realm is written when Firestore             *)
(* acknowledges the document, unless the app has been killed meanwhile.    *)
(*                                                                         *)
(* The clients have an account (DetailServiceVC.actionPresentMakeApp lets  *)
(* nobody else in) and fill in name and phone; days lie in the future, so  *)
(* the checks against the current time do not bite.                        *)
(***************************************************************************)
EXTENDS Integers, FiniteSets

CONSTANTS
  Clients,     \* devices
  Masters,     \* what the form may put in idMaster
  Times,       \* the rows of the table of times
  LastDay,     \* bound: the calendar's days are 1 .. LastDay
  MonthOf,     \* the month of each day
  Ids,         \* bound: identifiers for documents of service_enrty
  MaxQueries,  \* bound: queries of one device in flight
  NoValue

ASSUME BookingAssumption ==
  /\ LastDay \in Nat \ {0}
  /\ MonthOf \in [1 .. LastDay -> Nat]
  /\ MaxQueries \in Nat

VARIABLES
  entry,    \* the document behind an identifier: who, when, with whom
  stage,    \* where that document is between the device and the server
  reply,    \* what became of its acknowledgement on the device
  known,    \* documents of others in the Firestore cache of a device
  screen,   \* "service", "form" or "calendar"
  picked,   \* MakeAppointmentVC.dateEntry, once dataReceipt is filled in
  month,    \* the month on show, a global of the app
  cell,     \* the day whose cell is highlighted, 0 if none
  day,      \* CelendarVC.dateDate, 0 before the first tap
  shown,    \* whether the table of times is visible
  free,     \* the rows of the table that can be tapped
  busy,     \* CelendarVC.arrayTimesBlock
  query,    \* getDocuments calls of the calendar in flight
  heard     \* history: busy slots the last answer that covers the day
            \* tapped last has given, NoValue before there is one

documents == <<entry, stage, reply, known>>
form == <<screen, picked>>
calendar == <<month, cell, day, shown, free, busy, heard>>
vars == <<documents, form, calendar, query>>

-----------------------------------------------------------------------------
Days    == 1 .. LastDay
Slots   == Days \X Times
Entries == [client : Clients, slot : Slots, master : Masters]
Tags    == 1 .. MaxQueries

NoQuery == [asked |-> 0, open |-> FALSE]
Queries == {NoQuery} \cup [asked : Days, open : BOOLEAN]

Stages  == {"unused", "queued", "stored", "deleting", "gone", "refused"}
Replies == {"none", "waiting", "listed", "cancelled", "lost"}

Mine(c) == {i \in Ids : entry[i] # NoValue /\ entry[i].client = c}

(* Firestore shows a device its own writes at once; those of the others as  *)
(* the server has them, or as the cache has them when the device is offline. *)
OwnView(c)    == {i \in Mine(c) : stage[i] \in {"queued", "stored"}}
OthersView(c) == {i \in Ids \ Mine(c) : stage[i] \in {"stored", "deleting"}}

SlotsOf(ids) == {entry[i].slot : i \in ids}

(* Not part of the specification: a variant of FromDay with a bug, which     *)
(* leaves out the day itself.                                                *)
FromNextDay(d, slots) == {s \in slots : s[1] > d}

(* dttmEntry later than the midnight that begins day d *)
FromDay(d, slots) == {s \in slots : s[1] >= d}

(* cellForRowAt: the row of t is enabled unless the list has its time. *)
FreeRows(d, slots) == {t \in Times : <<d, t>> \notin slots}

-----------------------------------------------------------------------------
(* Faulty variants, each a bug the code could have and one of the properties *)
(* below would catch; none of them is part of the specification.             *)

(* Replaces the list of busy times by the last answer. *)
AnswerReplaces(c, n, ids) ==
  LET asked == query[c][n].asked
      got   == FromDay(asked, SlotsOf(ids))
  IN  /\ busy' = [busy EXCEPT ![c] = got]
      /\ free' = [free EXCEPT ![c] = FreeRows(day[c], got)]
      /\ shown' = [shown EXCEPT ![c] = TRUE]
      /\ query' = [query EXCEPT ![c][n] = NoQuery]
      /\ heard' = [heard EXCEPT ![c] =
                     IF asked <= day[c] THEN FromDay(day[c], got) ELSE @]
      /\ UNCHANGED <<form, month, cell, day>>

(* Hands the time of the row to the form without the day. *)
PickTimeOfDay(c, t) ==
  /\ screen[c] = "calendar"
  /\ shown[c]
  /\ t \in free[c]
  /\ picked' = [picked EXCEPT ![c] = t]
  /\ screen' = [screen EXCEPT ![c] = "form"]
  /\ UNCHANGED <<documents, calendar, query>>

(* Lists the appointment before the server has it. *)
ListAtOnce(c, i, m) ==
  /\ screen[c] = "form"
  /\ picked[c] # NoValue
  /\ stage[i] = "unused"
  /\ entry' = [entry EXCEPT ![i] = [client |-> c, slot |-> picked[c], master |-> m]]
  /\ stage' = [stage EXCEPT ![i] = "queued"]
  /\ reply' = [reply EXCEPT ![i] = "listed"]
  /\ screen' = [screen EXCEPT ![c] = "service"]
  /\ picked' = [picked EXCEPT ![c] = NoValue]
  /\ UNCHANGED <<known, calendar, query>>

-----------------------------------------------------------------------------
Init ==
  /\ entry = [i \in Ids |-> NoValue]
  /\ stage = [i \in Ids |-> "unused"]
  /\ reply = [i \in Ids |-> "none"]
  /\ known = [c \in Clients |-> {}]
  /\ screen = [c \in Clients |-> "service"]
  /\ picked = [c \in Clients |-> NoValue]
  /\ month = [c \in Clients |-> MonthOf[1]]
  /\ cell = [c \in Clients |-> 0]
  /\ day = [c \in Clients |-> 0]
  /\ shown = [c \in Clients |-> FALSE]
  /\ free = [c \in Clients |-> {}]
  /\ busy = [c \in Clients |-> {}]
  /\ query = [c \in Clients |-> [n \in Tags |-> NoQuery]]
  /\ heard = [c \in Clients |-> NoValue]

(* actionPresentMakeApp: a new form, nothing picked. *)
OpenForm(c) ==
  /\ screen[c] = "service"
  /\ screen' = [screen EXCEPT ![c] = "form"]
  /\ picked' = [picked EXCEPT ![c] = NoValue]
  /\ UNCHANGED <<documents, calendar, query>>

LeaveForm(c) ==
  /\ screen[c] = "form"
  /\ screen' = [screen EXCEPT ![c] = "service"]
  /\ picked' = [picked EXCEPT ![c] = NoValue]
  /\ UNCHANGED <<documents, calendar, query>>

(* The state of a calendar without a tap; the month on show is no part of it. *)
FreshCalendar(c) ==
  /\ cell' = [cell EXCEPT ![c] = 0]
  /\ day' = [day EXCEPT ![c] = 0]
  /\ shown' = [shown EXCEPT ![c] = FALSE]
  /\ free' = [free EXCEPT ![c] = {}]
  /\ busy' = [busy EXCEPT ![c] = {}]
  /\ heard' = [heard EXCEPT ![c] = NoValue]

OpenCalendar(c) ==
  /\ screen[c] = "form"
  /\ screen' = [screen EXCEPT ![c] = "calendar"]
  /\ FreshCalendar(c)
  /\ UNCHANGED <<documents, picked, month, query>>

(* The calendar goes with its state; its queries go on, but for nobody. *)
CalendarClosed(c) ==
  /\ screen' = [screen EXCEPT ![c] = "form"]
  /\ query' = [query EXCEPT ![c] =
                 [n \in Tags |-> [asked |-> @[n].asked, open |-> FALSE]]]
  /\ FreshCalendar(c)
  /\ UNCHANGED month

LeaveCalendar(c) ==
  /\ screen[c] = "calendar"
  /\ CalendarClosed(c)
  /\ UNCHANGED <<documents, picked>>

(* actionNextMonth, actionBackMonth: reloadData drops the highlight, the    *)
(* day tapped and the table stay.  Any month may come up: how far the two   *)
(* buttons let one go is left out.                                          *)
ChangeMonth(c, m) ==
  /\ screen[c] = "calendar"
  /\ m # month[c]
  /\ month' = [month EXCEPT ![c] = m]
  /\ cell' = [cell EXCEPT ![c] = 0]
  /\ UNCHANGED <<documents, form, day, shown, free, busy, heard, query>>

(* A tap on a day: didDeselectItemAt of the highlighted one hides the       *)
(* table, didSelectItemAt of the new one asks for its busy times.           *)
TapDay(c, d, n) ==
  /\ screen[c] = "calendar"
  /\ MonthOf[d] = month[c]
  /\ cell[c] # d
  /\ query[c][n] = NoQuery
  /\ cell' = [cell EXCEPT ![c] = d]
  /\ day' = [day EXCEPT ![c] = d]
  /\ shown' = [shown EXCEPT ![c] = @ /\ cell[c] = 0]
  /\ query' = [query EXCEPT ![c][n] = [asked |-> d, open |-> TRUE]]
  /\ heard' = [heard EXCEPT ![c] = NoValue]
  /\ UNCHANGED <<documents, form, month, free, busy>>

(* The app dies and is launched again, with r the acknowledgements so far:  *)
(* those it waits for reach nobody now.  Firestore's queue of writes, its   *)
(* cache and Realm are on disk.                                             *)
Restart(c, r) ==
  /\ reply' = [i \in Ids |-> IF i \in Mine(c) /\ r[i] = "waiting"
                             THEN "lost" ELSE r[i]]
  /\ screen' = [screen EXCEPT ![c] = "service"]
  /\ picked' = [picked EXCEPT ![c] = NoValue]
  /\ month' = [month EXCEPT ![c] = MonthOf[1]]
  /\ FreshCalendar(c)
  /\ query' = [query EXCEPT ![c] = [n \in Tags |-> NoQuery]]

Kill(c) == Restart(c, reply) /\ UNCHANGED <<entry, stage, known>>

(* The completion of query n with the documents ids: it adds to the list of *)
(* busy times, which nothing ever empties, and redraws the table for the    *)
(* day tapped last.                                                         *)
AnswerWith(c, n, ids) ==
  LET asked == query[c][n].asked
      got   == FromDay(asked, SlotsOf(ids))
  IN  /\ busy' = [busy EXCEPT ![c] = @ \cup got]
      /\ free' = [free EXCEPT ![c] = FreeRows(day[c], busy[c] \cup got)]
      /\ shown' = [shown EXCEPT ![c] = TRUE]
      /\ query' = [query EXCEPT ![c][n] = NoQuery]
      /\ heard' = [heard EXCEPT ![c] =
                     IF asked <= day[c] THEN FromDay(day[c], got) ELSE @]
      /\ UNCHANGED <<form, month, cell, day>>

(* The calendar the answer is for may be gone; "self!" then ends the app. *)
Answer(c, n, ids) ==
  /\ query[c][n] # NoQuery
  /\ \/ query[c][n].open /\ AnswerWith(c, n, ids) /\ UNCHANGED <<entry, stage, reply>>
     \/ ~query[c][n].open /\ Restart(c, reply) /\ UNCHANGED <<entry, stage>>

AnswerFromServer(c, n) ==
  /\ Answer(c, n, OwnView(c) \cup OthersView(c))
  /\ known' = [known EXCEPT ![c] = OthersView(c)]

AnswerFromCache(c, n) ==
  /\ Answer(c, n, OwnView(c) \cup known[c])
  /\ UNCHANGED known

(* An error is logged; the table stays as it is and the spinner spins on. *)
AnswerError(c, n) ==
  /\ query[c][n] # NoQuery
  /\ query' = [query EXCEPT ![c][n] = NoQuery]
  /\ UNCHANGED <<documents, form, calendar>>

(* A row scrolls out and in again and is drawn anew. *)
RedrawRow(c, t) ==
  /\ screen[c] = "calendar"
  /\ shown[c]
  /\ free' = [free EXCEPT ![c] =
                IF <<day[c], t>> \in busy[c] THEN @ \ {t} ELSE @ \cup {t}]
  /\ UNCHANGED <<documents, form, month, cell, day, shown, busy, heard, query>>

(* A tap on a row: the time of the row on the day tapped last goes to the   *)
(* form, whatever day the row was drawn for.                                *)
PickTime(c, t) ==
  /\ screen[c] = "calendar"
  /\ shown[c]
  /\ t \in free[c]
  /\ picked' = [picked EXCEPT ![c] = <<day[c], t>>]
  /\ CalendarClosed(c)
  /\ UNCHANGED documents

(* makeAppointment: the document is queued, the screen says it is created. *)
MakeAppointment(c, i, m) ==
  /\ screen[c] = "form"
  /\ picked[c] # NoValue
  /\ stage[i] = "unused"
  /\ entry' = [entry EXCEPT ![i] = [client |-> c, slot |-> picked[c], master |-> m]]
  /\ stage' = [stage EXCEPT ![i] = "queued"]
  /\ reply' = [reply EXCEPT ![i] = "waiting"]
  /\ screen' = [screen EXCEPT ![c] = "service"]
  /\ picked' = [picked EXCEPT ![c] = NoValue]
  /\ UNCHANGED <<known, calendar, query>>

(* The server takes a document, or refuses it; the completion logs that and *)
(* does nothing else.                                                       *)
ServerStores(i) ==
  /\ stage[i] = "queued"
  /\ stage' = [stage EXCEPT ![i] = "stored"]
  /\ UNCHANGED <<entry, reply, known, form, calendar, query>>

ServerRefuses(i) ==
  /\ stage[i] = "queued"
  /\ stage' = [stage EXCEPT ![i] = "refused"]
  /\ reply' = [reply EXCEPT ![i] = "lost"]
  /\ UNCHANGED <<entry, known, form, calendar, query>>

(* The completion of addDocument writes the row in Realm. *)
Acknowledge(i) ==
  /\ stage[i] = "stored"
  /\ reply[i] = "waiting"
  /\ reply' = [reply EXCEPT ![i] = "listed"]
  /\ UNCHANGED <<entry, stage, known, form, calendar, query>>

(* actionCancellaration: the row is deleted but stays in the array of the   *)
(* screen, which reads it in reloadData, and that ends the app.  The delete *)
(* of the document is only being handed over to Firestore at that moment;   *)
(* whether it is on disk by then nobody knows.                              *)
Cancel(c, i) ==
  /\ screen[c] = "service"
  /\ i \in Mine(c)
  /\ reply[i] = "listed"
  /\ stage' \in {stage, [stage EXCEPT ![i] = "deleting"]}
  /\ Restart(c, [reply EXCEPT ![i] = "cancelled"])
  /\ UNCHANGED <<entry, known>>

ServerDeletes(i) ==
  /\ stage[i] = "deleting"
  /\ stage' = [stage EXCEPT ![i] = "gone"]
  /\ UNCHANGED <<entry, reply, known, form, calendar, query>>

User(c) ==
  \/ OpenForm(c) \/ LeaveForm(c) \/ OpenCalendar(c) \/ LeaveCalendar(c)
  \/ \E d \in Days : ChangeMonth(c, MonthOf[d])
  \/ \E d \in Days, n \in Tags : TapDay(c, d, n)
  \/ \E t \in Times : RedrawRow(c, t) \/ PickTime(c, t)
  \/ \E i \in Ids, m \in Masters : MakeAppointment(c, i, m)
  \/ \E i \in Ids : Cancel(c, i)

Firestore(c) ==
  \E n \in Tags :
    AnswerFromServer(c, n) \/ AnswerFromCache(c, n) \/ AnswerError(c, n)

Server(i) == ServerStores(i) \/ ServerRefuses(i) \/ ServerDeletes(i)

Next ==
  \/ \E c \in Clients : User(c) \/ Firestore(c) \/ Kill(c)
  \/ \E i \in Ids : Server(i) \/ Acknowledge(i)

Spec == Init /\ [][Next]_vars

(* The server works through the writes it gets, and the main queue of an    *)
(* app runs the completions.                                                *)
Fairness ==
  \A i \in Ids :
    /\ WF_vars(ServerStores(i) \/ ServerRefuses(i))
    /\ WF_vars(ServerDeletes(i))
    /\ WF_vars(Acknowledge(i))

FairSpec == Spec /\ Fairness

-----------------------------------------------------------------------------
TypeOK ==
  /\ entry \in [Ids -> Entries \cup {NoValue}]
  /\ stage \in [Ids -> Stages]
  /\ reply \in [Ids -> Replies]
  /\ known \in [Clients -> SUBSET Ids]
  /\ screen \in [Clients -> {"service", "form", "calendar"}]
  /\ picked \in [Clients -> Slots \cup {NoValue}]
  /\ month \in [Clients -> {MonthOf[d] : d \in Days}]
  /\ cell \in [Clients -> 0 .. LastDay]
  /\ day \in [Clients -> 0 .. LastDay]
  /\ shown \in [Clients -> BOOLEAN]
  /\ free \in [Clients -> SUBSET Times]
  /\ busy \in [Clients -> SUBSET Slots]
  /\ query \in [Clients -> [Tags -> Queries]]
  /\ heard \in [Clients -> (SUBSET Slots) \cup {NoValue}]

(* An appointment listed in the account is on the server: what the client    *)
(* sees there is never an appointment the salon does not have.               *)
ListedIsBooked == \A i \in Ids : reply[i] = "listed" => stage[i] = "stored"

(* A time that an answer has reported busy for the day tapped last cannot be *)
(* tapped, however many late answers for other days redraw the table and     *)
(* whichever rows scroll.                                                    *)
HeardTimesClosed ==
  \A c \in Clients :
    screen[c] = "calendar" /\ shown[c] /\ heard[c] # NoValue =>
      \A t \in free[c] : <<day[c], t>> \notin heard[c]

(* Once the day tapped last has been answered for, from the server or from   *)
(* the cache, the client's own appointments of that day are closed to it,    *)
(* also those the server has not taken yet.                                  *)
OwnTimesClosed ==
  \A c \in Clients :
    screen[c] = "calendar" /\ shown[c] /\ heard[c] # NoValue =>
      \A t \in free[c] : <<day[c], t>> \notin SlotsOf(OwnView(c))

(* "We get all the busy times" (CelendarVC.swift:244) and deactivate them    *)
(* (316): no two appointments with a master at the same time.                *)
NoDoubleBooking ==
  \A i, j \in Ids :
    i # j /\ stage[i] = "stored" /\ stage[j] = "stored" =>
      \/ entry[i].slot # entry[j].slot
      \/ entry[i].master # entry[j].master

(* "The appointment is created" (DetailServiceVC.swift:64): an appointment   *)
(* the salon has is in the client's list, or about to be.                    *)
BookedIsListed ==
  \A i \in Ids : stage[i] = "stored" => reply[i] # "lost"

(* "Cancelling an appointment" (README.md:10): a cancelled appointment does  *)
(* not stay on the server.                                                   *)
CancelFreesTime ==
  \A i \in Ids : reply[i] = "cancelled" ~> stage[i] = "gone"
=============================================================================
