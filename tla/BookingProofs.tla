--------------------------- MODULE BookingProofs ---------------------------
(***************************************************************************)
(* Theorems of Booking, for every set of devices, masters, times and       *)
(* identifiers, every calendar and all bounds.                             *)
(***************************************************************************)
EXTENDS Booking, TLAPS

USE BookingAssumption

-----------------------------------------------------------------------------
(* A document that was ever written has an entry, those in a cache have     *)
(* been written, and what the account lists is on the server.               *)
DocumentsInv ==
  /\ \A i \in Ids : stage[i] # "unused" => entry[i] \in Entries
  /\ \A c \in Clients : \A i \in known[c] : stage[i] # "unused"
  /\ ListedIsBooked

(* The busy times of device c take in what was heard and, while the         *)
(* calendar is open, the own appointments of the day tapped last.  The      *)
(* table was drawn from them, once an answer for that day has come.         *)
HeardInv(c) ==
  /\ heard[c] \subseteq busy[c]
  /\ screen[c] = "calendar" =>
       \A i \in OwnView(c) : entry[i].slot[1] = day[c] => entry[i].slot \in busy[c]
  /\ shown[c] => \A t \in free[c] : <<day[c], t>> \notin busy[c]

(* A table on show has a day, and so has a query whose calendar is open.    *)
CalendarInv(c) ==
  /\ shown[c] => day[c] \in Days
  /\ \A n \in Tags : query[c][n].open => screen[c] = "calendar" /\ day[c] \in Days
  /\ heard[c] # NoValue => HeardInv(c)

IInv ==
  /\ TypeOK
  /\ DocumentsInv
  /\ \A c \in Clients : CalendarInv(c)

-----------------------------------------------------------------------------
(* Queries, with and without a calendar to answer to. *)
LEMMA QueryRecords ==
  /\ NoQuery \in Queries /\ NoQuery.open = FALSE
  /\ \A d \in Days : \A b \in BOOLEAN : [asked |-> d, open |-> b] \in Queries
  /\ \A q \in Queries :
       /\ [asked |-> q.asked, open |-> FALSE] \in Queries
       /\ q # NoQuery => q.asked \in Days
       /\ q.open \in BOOLEAN
  <1>1. NoQuery \in Queries /\ NoQuery.open = FALSE
    BY DEF NoQuery, Queries
  <1>2. \A d \in Days : \A b \in BOOLEAN : [asked |-> d, open |-> b] \in Queries
    BY DEF Queries
  <1>3. ASSUME NEW q \in Queries
        PROVE  /\ [asked |-> q.asked, open |-> FALSE] \in Queries
               /\ q # NoQuery => q.asked \in Days
               /\ q.open \in BOOLEAN
    <2>1. CASE q = NoQuery
      BY <2>1, <1>1 DEF NoQuery
    <2>2. CASE q \in [asked : Days, open : BOOLEAN]
      BY <2>2, <1>2
    <2>. QED
      BY <2>1, <2>2 DEF Queries
  <1>. QED
    BY <1>1, <1>2, <1>3

(* The times of documents that were written are slots. *)
LEMMA SlotsOfWritten ==
  ASSUME TypeOK, NEW ids \in SUBSET Ids, \A i \in ids : entry[i] \in Entries
  PROVE  SlotsOf(ids) \subseteq Slots
  BY DEF SlotsOf, Entries

(* What an answer holds has been written. *)
LEMMA AnswersAreWritten ==
  ASSUME IInv, NEW c \in Clients
  PROVE  /\ OwnView(c) \cup OthersView(c) \subseteq Ids
         /\ OwnView(c) \cup known[c] \subseteq Ids
         /\ \A i \in OwnView(c) \cup OthersView(c) \cup known[c] : entry[i] \in Entries
  BY DEF IInv, TypeOK, DocumentsInv, OwnView, OthersView, Mine

(* A device whose calendar is left alone, and whose own appointments are    *)
(* those it had or fewer.                                                   *)
LEMMA CalendarKept ==
  ASSUME NEW c \in Clients, CalendarInv(c),
         /\ screen'[c] = screen[c] /\ day'[c] = day[c] /\ shown'[c] = shown[c]
         /\ free'[c] = free[c] /\ busy'[c] = busy[c] /\ heard'[c] = heard[c]
         /\ \A n \in Tags : query'[c][n] = query[c][n] \/ ~query'[c][n].open,
         \A i \in OwnView(c)' : i \in OwnView(c) /\ entry'[i] = entry[i]
  PROVE  CalendarInv(c)'
  <1>1. /\ shown'[c] => day'[c] \in Days
        /\ \A n \in Tags : query'[c][n].open => screen'[c] = "calendar" /\ day'[c] \in Days
    BY DEF CalendarInv
  <1>2. heard'[c] # NoValue => HeardInv(c)'
    BY DEF CalendarInv, HeardInv
  <1>. QED
    BY <1>1, <1>2 DEF CalendarInv

(* A device without an open calendar. *)
LEMMA CalendarGone ==
  ASSUME NEW c \in Clients, ~shown'[c], heard'[c] = NoValue,
         \A n \in Tags : ~query'[c][n].open
  PROVE  CalendarInv(c)'
  BY DEF CalendarInv

(* No document changes its author, and no device gets a new one of its own. *)
LEMMA OwnViewKept ==
  ASSUME NEW c \in Clients, UNCHANGED entry,
         \A i \in Ids : stage'[i] \in {"queued", "stored"} => stage[i] \in {"queued", "stored"}
  PROVE  \A i \in OwnView(c)' : i \in OwnView(c) /\ entry'[i] = entry[i]
  BY DEF OwnView, Mine

-----------------------------------------------------------------------------
(* The initial states. *)
LEMMA InitIInv == Init => IInv
  <1> SUFFICES ASSUME Init PROVE IInv
    OBVIOUS
  <1>1. TypeOK
    <2>1. MonthOf[1] \in {MonthOf[d] : d \in Days} /\ 0 \in 0 .. LastDay
      BY DEF Days
    <2>2. [n \in Tags |-> NoQuery] \in [Tags -> Queries]
      BY QueryRecords
    <2>. QED
      BY <2>1, <2>2 DEF Init, TypeOK, Stages, Replies
  <1>2. DocumentsInv
    BY DEF Init, DocumentsInv, ListedIsBooked
  <1>3. ASSUME NEW c \in Clients PROVE CalendarInv(c)
    BY QueryRecords DEF Init, CalendarInv
  <1>. QED
    BY <1>1, <1>2, <1>3 DEF IInv

-----------------------------------------------------------------------------
(* The form. *)

LEMMA FormStep ==
  ASSUME IInv, NEW c \in Clients, OpenForm(c) \/ LeaveForm(c)
  PROVE  IInv'
  <1> USE DEF OpenForm, LeaveForm, documents, calendar
  <1>1. TypeOK'
    BY DEF IInv, TypeOK
  <1>2. DocumentsInv'
    BY DEF IInv, DocumentsInv, ListedIsBooked
  <1>3. ASSUME NEW k \in Clients PROVE CalendarInv(k)'
    <2>1. CASE k = c
      <3>1. /\ screen[c] # "calendar" /\ screen'[c] # "calendar"
            /\ UNCHANGED <<day, shown, free, busy, heard, query>>
        BY DEF IInv, TypeOK
      <3>. QED
        BY <2>1, <3>1 DEF IInv, CalendarInv, HeardInv
    <2>2. CASE k # c
      <3>1. screen'[k] = screen[k]
        BY <2>2 DEF IInv, TypeOK
      <3>2. \A i \in OwnView(k)' : i \in OwnView(k) /\ entry'[i] = entry[i]
        BY OwnViewKept
      <3>. QED
        BY <3>1, <3>2, CalendarKept DEF IInv
    <2>. QED
      BY <2>1, <2>2
  <1>. QED
    BY <1>1, <1>2, <1>3 DEF IInv

(* A calendar that opens or closes is a fresh one, and the others are left  *)
(* alone.                                                                   *)
LEMMA FreshStep ==
  ASSUME IInv, NEW c \in Clients, FreshCalendar(c), UNCHANGED <<entry, stage>>,
         \A k \in Clients : k # c =>
           screen'[k] = screen[k] /\ \A n \in Tags : query'[k][n] = query[k][n],
         \A n \in Tags : ~query'[c][n].open
  PROVE  \A k \in Clients : CalendarInv(k)'
  <1>1. ~shown'[c] /\ heard'[c] = NoValue
    BY DEF FreshCalendar, IInv, TypeOK
  <1>2. ASSUME NEW k \in Clients, k # c
        PROVE  CalendarInv(k)'
    <2>1. /\ day'[k] = day[k] /\ shown'[k] = shown[k] /\ free'[k] = free[k]
          /\ busy'[k] = busy[k] /\ heard'[k] = heard[k]
      BY <1>2 DEF FreshCalendar, IInv, TypeOK
    <2>2. \A i \in OwnView(k)' : i \in OwnView(k) /\ entry'[i] = entry[i]
      BY OwnViewKept
    <2>. QED
      BY <1>2, <2>1, <2>2, CalendarKept DEF IInv
  <1>. QED
    BY <1>1, <1>2, CalendarGone

LEMMA FreshTypes ==
  ASSUME TypeOK, NEW c \in Clients, FreshCalendar(c)
  PROVE  /\ cell' \in [Clients -> 0 .. LastDay] /\ day' \in [Clients -> 0 .. LastDay]
         /\ shown' \in [Clients -> BOOLEAN] /\ free' \in [Clients -> SUBSET Times]
         /\ busy' \in [Clients -> SUBSET Slots]
         /\ heard' \in [Clients -> (SUBSET Slots) \cup {NoValue}]
  BY DEF FreshCalendar, TypeOK

LEMMA OpenCalendarStep ==
  ASSUME IInv, NEW c \in Clients, OpenCalendar(c)
  PROVE  IInv'
  <1>1. /\ screen[c] = "form" /\ screen' = [screen EXCEPT ![c] = "calendar"]
        /\ FreshCalendar(c) /\ UNCHANGED <<documents, picked, month, query>>
    BY DEF OpenCalendar
  <1>2. TypeOK'
    BY <1>1, FreshTypes DEF documents, IInv, TypeOK
  <1>3. DocumentsInv'
    BY <1>1 DEF documents, IInv, DocumentsInv, ListedIsBooked
  <1>4. \A n \in Tags : ~query'[c][n].open
    BY <1>1 DEF IInv, CalendarInv
  <1>5. \A k \in Clients : CalendarInv(k)'
    <2>1. \A k \in Clients : k # c => screen'[k] = screen[k]
      BY <1>1 DEF IInv, TypeOK
    <2>. QED
      BY <1>1, <1>4, <2>1, FreshStep DEF documents
  <1>. QED
    BY <1>2, <1>3, <1>5 DEF IInv

(* A calendar that closes, with or without a time for the form. *)
LEMMA CalendarClosedStep ==
  ASSUME IInv, NEW c \in Clients, CalendarClosed(c), UNCHANGED documents,
         picked' \in [Clients -> Slots \cup {NoValue}]
  PROVE  IInv'
  <1> DEFINE q == [n \in Tags |-> [asked |-> query[c][n].asked, open |-> FALSE]]
  <1>1. /\ screen' = [screen EXCEPT ![c] = "form"] /\ query' = [query EXCEPT ![c] = q]
        /\ FreshCalendar(c) /\ UNCHANGED month
    BY DEF CalendarClosed
  <1>2. q \in [Tags -> Queries]
    BY QueryRecords DEF IInv, TypeOK
  <1>3. TypeOK'
    <2>1. query' \in [Clients -> [Tags -> Queries]]
      BY <1>1, <1>2 DEF IInv, TypeOK
    <2>. HIDE DEF q
    <2>. QED
      BY <1>1, <2>1, FreshTypes DEF documents, IInv, TypeOK
  <1>4. DocumentsInv'
    BY DEF documents, IInv, DocumentsInv, ListedIsBooked
  <1>5. \A n \in Tags : ~query'[c][n].open
    BY <1>1 DEF IInv, TypeOK
  <1>6. \A k \in Clients : k # c =>
          screen'[k] = screen[k] /\ \A n \in Tags : query'[k][n] = query[k][n]
    BY <1>1 DEF IInv, TypeOK
  <1>7. \A k \in Clients : CalendarInv(k)'
    BY <1>1, <1>5, <1>6, FreshStep DEF documents
  <1>. QED
    BY <1>3, <1>4, <1>7 DEF IInv

LEMMA LeaveCalendarStep ==
  ASSUME IInv, NEW c \in Clients, LeaveCalendar(c)
  PROVE  IInv'
  BY CalendarClosedStep DEF LeaveCalendar, IInv, TypeOK

(* The row that is tapped is on show, so there is a day to it. *)
LEMMA PickTimeStep ==
  ASSUME IInv, NEW c \in Clients, NEW t \in Times, PickTime(c, t)
  PROVE  IInv'
  <1>1. day[c] \in Days
    BY DEF PickTime, IInv, CalendarInv
  <1>2. picked' \in [Clients -> Slots \cup {NoValue}]
    BY <1>1 DEF PickTime, Slots, IInv, TypeOK
  <1>. QED
    BY <1>2, CalendarClosedStep DEF PickTime

LEMMA ChangeMonthStep ==
  ASSUME IInv, NEW c \in Clients, NEW d \in Days, ChangeMonth(c, MonthOf[d])
  PROVE  IInv'
  <1> USE DEF ChangeMonth, documents, form
  <1>1. TypeOK'
    BY DEF IInv, TypeOK
  <1>2. DocumentsInv'
    BY DEF IInv, DocumentsInv, ListedIsBooked
  <1>3. ASSUME NEW k \in Clients PROVE CalendarInv(k)'
    BY CalendarKept, OwnViewKept DEF IInv
  <1>. QED
    BY <1>1, <1>2, <1>3 DEF IInv

LEMMA TapDayStep ==
  ASSUME IInv, NEW c \in Clients, NEW d \in Days, NEW n \in Tags, TapDay(c, d, n)
  PROVE  IInv'
  <1>1. /\ screen[c] = "calendar"
        /\ cell' = [cell EXCEPT ![c] = d] /\ day' = [day EXCEPT ![c] = d]
        /\ shown' = [shown EXCEPT ![c] = @ /\ cell[c] = 0]
        /\ query' = [query EXCEPT ![c][n] = [asked |-> d, open |-> TRUE]]
        /\ heard' = [heard EXCEPT ![c] = NoValue]
        /\ UNCHANGED <<entry, stage, reply, known, screen, picked, month, free, busy>>
    BY DEF TapDay, documents, form
  <1>2. TypeOK'
    <2>1. query' \in [Clients -> [Tags -> Queries]]
      BY <1>1, QueryRecords DEF IInv, TypeOK
    <2>2. cell' \in [Clients -> 0 .. LastDay] /\ day' \in [Clients -> 0 .. LastDay]
      BY <1>1 DEF IInv, TypeOK, Days
    <2>3. shown' \in [Clients -> BOOLEAN]
      BY <1>1 DEF IInv, TypeOK
    <2>4. heard' \in [Clients -> (SUBSET Slots) \cup {NoValue}]
      BY <1>1 DEF IInv, TypeOK
    <2>. QED
      BY <1>1, <2>1, <2>2, <2>3, <2>4 DEF IInv, TypeOK
  <1>3. DocumentsInv'
    BY <1>1 DEF IInv, DocumentsInv, ListedIsBooked
  <1>4. CalendarInv(c)'
    <2>1. heard'[c] = NoValue /\ day'[c] \in Days /\ screen'[c] = "calendar"
      BY <1>1 DEF IInv, TypeOK
    <2>. QED
      BY <2>1 DEF CalendarInv
  <1>5. ASSUME NEW k \in Clients, k # c PROVE CalendarInv(k)'
    <2>1. /\ day'[k] = day[k] /\ shown'[k] = shown[k] /\ heard'[k] = heard[k]
          /\ query'[k] = query[k]
      BY <1>1, <1>5 DEF IInv, TypeOK
    <2>2. \A i \in OwnView(k)' : i \in OwnView(k) /\ entry'[i] = entry[i]
      BY <1>1, OwnViewKept
    <2>. QED
      BY <1>1, <2>1, <2>2, CalendarKept DEF IInv
  <1>. QED
    BY <1>2, <1>3, <1>4, <1>5 DEF IInv

LEMMA RedrawRowStep ==
  ASSUME IInv, NEW c \in Clients, NEW t \in Times, RedrawRow(c, t)
  PROVE  IInv'
  <1>1. /\ free' = [free EXCEPT ![c] = IF <<day[c], t>> \in busy[c]
                                       THEN @ \ {t} ELSE @ \cup {t}]
        /\ UNCHANGED <<entry, stage, reply, known, screen, picked, month, cell, day,
                       shown, busy, heard, query>>
    BY DEF RedrawRow, documents, form
  <1>2. TypeOK'
    <2>1. free' \in [Clients -> SUBSET Times]
      BY <1>1 DEF IInv, TypeOK
    <2>. QED
      BY <1>1, <2>1 DEF IInv, TypeOK
  <1>3. DocumentsInv'
    BY <1>1 DEF IInv, DocumentsInv, ListedIsBooked
  <1>4. ASSUME NEW k \in Clients PROVE CalendarInv(k)'
    <2>1. CASE k # c
      <3>1. free'[k] = free[k]
        BY <1>1, <2>1 DEF IInv, TypeOK
      <3>. QED
        BY <1>1, <3>1, OwnViewKept, CalendarKept DEF IInv
    <2>2. CASE k = c
      <3>1. \A u \in free'[c] : u \in free[c] \/ (u = t /\ <<day[c], t>> \notin busy[c])
        BY <1>1 DEF IInv, TypeOK
      <3>2. <<day[c], t>> \in busy[c] => t \notin free'[c]
        BY <1>1 DEF IInv, TypeOK
      <3>3. OwnView(c)' = OwnView(c)
        BY <1>1 DEF OwnView, Mine
      <3>. QED
        BY <1>1, <2>2, <3>1, <3>2, <3>3 DEF IInv, CalendarInv, HeardInv
    <2>. QED
      BY <2>1, <2>2
  <1>. QED
    BY <1>2, <1>3, <1>4 DEF IInv

-----------------------------------------------------------------------------
(* Restarts. *)

(* What a restart leaves of the acknowledgements r. *)
LEMMA RestartReplies ==
  ASSUME NEW c \in Clients, NEW r \in [Ids -> Replies], Restart(c, r)
  PROVE  /\ reply' \in [Ids -> Replies]
         /\ \A i \in Ids : reply'[i] = r[i] \/ reply'[i] = "lost"
  BY DEF Restart, Replies

(* A restart with the caches and documents that go with it. *)
LEMMA RestartStep ==
  ASSUME IInv, NEW c \in Clients, Restart(c, reply), UNCHANGED <<entry, stage>>,
         known' \in [Clients -> SUBSET Ids],
         \A k \in Clients : \A i \in known'[k] : stage[i] # "unused"
  PROVE  IInv'
  <1>1. /\ screen' = [screen EXCEPT ![c] = "service"]
        /\ picked' = [picked EXCEPT ![c] = NoValue]
        /\ month' = [month EXCEPT ![c] = MonthOf[1]]
        /\ FreshCalendar(c)
        /\ query' = [query EXCEPT ![c] = [n \in Tags |-> NoQuery]]
    BY DEF Restart
  <1>2. reply' \in [Ids -> Replies] /\ \A i \in Ids : reply'[i] = reply[i] \/ reply'[i] = "lost"
    BY RestartReplies DEF IInv, TypeOK
  <1>3. TypeOK'
    <2>1. MonthOf[1] \in {MonthOf[d] : d \in Days}
      BY DEF Days
    <2>2. month' \in [Clients -> {MonthOf[d] : d \in Days}]
      BY <1>1, <2>1 DEF IInv, TypeOK
    <2>3. query' \in [Clients -> [Tags -> Queries]]
      BY <1>1, QueryRecords DEF IInv, TypeOK
    <2>4. screen' \in [Clients -> {"service", "form", "calendar"}]
          /\ picked' \in [Clients -> Slots \cup {NoValue}]
      BY <1>1 DEF IInv, TypeOK
    <2>. QED
      BY <1>1, <1>2, <2>2, <2>3, <2>4, FreshTypes DEF IInv, TypeOK
  <1>4. DocumentsInv'
    BY <1>2 DEF IInv, DocumentsInv, ListedIsBooked
  <1>5. \A n \in Tags : ~query'[c][n].open
    BY <1>1, QueryRecords DEF IInv, TypeOK
  <1>6. \A k \in Clients : k # c =>
          screen'[k] = screen[k] /\ \A n \in Tags : query'[k][n] = query[k][n]
    BY <1>1 DEF IInv, TypeOK
  <1>7. \A k \in Clients : CalendarInv(k)'
    BY <1>1, <1>5, <1>6, FreshStep
  <1>. QED
    BY <1>3, <1>4, <1>7 DEF IInv

LEMMA KillStep ==
  ASSUME IInv, NEW c \in Clients, Kill(c)
  PROVE  IInv'
  BY RestartStep DEF Kill, IInv, TypeOK, DocumentsInv

(* Cancelling ends the app, too; the appointment may be on its way out.     *)
LEMMA CancelStep ==
  ASSUME IInv, NEW c \in Clients, NEW i \in Ids, Cancel(c, i)
  PROVE  IInv'
  <1> DEFINE r == [reply EXCEPT ![i] = "cancelled"]
  <1>1. /\ stage[i] = "stored"
        /\ \A j \in Ids : j # i => stage'[j] = stage[j]
        /\ stage'[i] \in {"stored", "deleting"}
        /\ stage' \in [Ids -> Stages]
    BY DEF Cancel, IInv, TypeOK, DocumentsInv, ListedIsBooked, Stages
  <1>2. UNCHANGED <<entry, known>> /\ Restart(c, r)
    BY DEF Cancel
  <1>3. /\ screen' = [screen EXCEPT ![c] = "service"]
        /\ picked' = [picked EXCEPT ![c] = NoValue]
        /\ month' = [month EXCEPT ![c] = MonthOf[1]]
        /\ FreshCalendar(c)
        /\ query' = [query EXCEPT ![c] = [n \in Tags |-> NoQuery]]
    BY <1>2 DEF Restart
  <1>4. r \in [Ids -> Replies]
    BY DEF IInv, TypeOK, Replies
  <1>5. /\ reply' \in [Ids -> Replies]
        /\ \A j \in Ids : reply'[j] = r[j] \/ reply'[j] = "lost"
    BY <1>2, <1>4, RestartReplies
  <1>6. TypeOK'
    <2>1. MonthOf[1] \in {MonthOf[d] : d \in Days}
      BY DEF Days
    <2>2. month' \in [Clients -> {MonthOf[d] : d \in Days}]
      BY <1>3, <2>1 DEF IInv, TypeOK
    <2>3. query' \in [Clients -> [Tags -> Queries]]
      BY <1>3, QueryRecords DEF IInv, TypeOK
    <2>4. screen' \in [Clients -> {"service", "form", "calendar"}]
          /\ picked' \in [Clients -> Slots \cup {NoValue}]
      BY <1>3 DEF IInv, TypeOK
    <2>. QED
      BY <1>1, <1>2, <1>3, <1>5, <2>2, <2>3, <2>4, FreshTypes DEF IInv, TypeOK
  <1>7. DocumentsInv'
    <2>1. \A j \in Ids : stage'[j] # "unused" <=> stage[j] # "unused"
      BY <1>1
    <2>2. ListedIsBooked'
      <3>1. \A j \in Ids : reply'[j] = "listed" => j # i /\ reply[j] = "listed"
        BY <1>5 DEF IInv, TypeOK
      <3>. QED
        BY <1>1, <3>1 DEF IInv, DocumentsInv, ListedIsBooked
    <2>. QED
      BY <1>2, <2>1, <2>2 DEF IInv, TypeOK, DocumentsInv
  <1>8. ASSUME NEW k \in Clients PROVE CalendarInv(k)'
    <2>1. CASE k = c
      <3>1. ~shown'[c] /\ heard'[c] = NoValue
        BY <1>3 DEF FreshCalendar, IInv, TypeOK
      <3>2. \A n \in Tags : ~query'[c][n].open
        BY <1>3, QueryRecords DEF IInv, TypeOK
      <3>. QED
        BY <2>1, <3>1, <3>2, CalendarGone
    <2>2. CASE k # c
      <3>1. /\ day'[k] = day[k] /\ shown'[k] = shown[k] /\ free'[k] = free[k]
            /\ busy'[k] = busy[k] /\ heard'[k] = heard[k]
        BY <1>3, <2>2 DEF FreshCalendar, IInv, TypeOK
      <3>2. screen'[k] = screen[k] /\ query'[k] = query[k]
        BY <1>3, <2>2 DEF IInv, TypeOK
      <3>3. \A j \in OwnView(k)' : j \in OwnView(k) /\ entry'[j] = entry[j]
        BY <1>1, <1>2, OwnViewKept
      <3>. QED
        BY <3>1, <3>2, <3>3, CalendarKept DEF IInv
    <2>. QED
      BY <2>1, <2>2
  <1>. QED
    BY <1>6, <1>7, <1>8 DEF IInv

-----------------------------------------------------------------------------
(* Answers to the calendar. *)

(* The caches after an answer hold documents that were written. *)
LEMMA KnownIsWritten ==
  ASSUME IInv, NEW c \in Clients,
         known' = known \/ known' = [known EXCEPT ![c] = OthersView(c)]
  PROVE  /\ known' \in [Clients -> SUBSET Ids]
         /\ \A k \in Clients : \A i \in known'[k] : stage[i] # "unused"
  <1>1. /\ known \in [Clients -> SUBSET Ids]
        /\ \A k \in Clients : \A i \in known[k] : stage[i] # "unused"
    BY DEF IInv, TypeOK, DocumentsInv
  <1>2. /\ OthersView(c) \in SUBSET Ids
        /\ \A i \in OthersView(c) : stage[i] # "unused"
    BY DEF OthersView
  <1>3. \A k \in Clients : known'[k] = known[k] \/ known'[k] = OthersView(c)
    BY <1>1
  <1>4. known' \in [Clients -> SUBSET Ids]
    BY <1>1, <1>2
  <1>. QED
    BY <1>1, <1>2, <1>3, <1>4

(* An answer adds to the list of busy times and draws the table from it; if *)
(* it covers the day tapped last, the own appointments are among what it    *)
(* holds.                                                                   *)
LEMMA AnswerWithStep ==
  ASSUME IInv, NEW c \in Clients, NEW n \in Tags, NEW ids \in SUBSET Ids,
         query[c][n].open, query[c][n] # NoQuery,
         OwnView(c) \subseteq ids, \A i \in ids : entry[i] \in Entries,
         AnswerWith(c, n, ids), UNCHANGED <<entry, stage, reply>>,
         known' \in [Clients -> SUBSET Ids],
         \A k \in Clients : \A i \in known'[k] : stage[i] # "unused"
  PROVE  IInv'
  <1> DEFINE asked == query[c][n].asked
             got == FromDay(asked, SlotsOf(ids))
             redrawn == FreeRows(day[c], busy[c] \cup got)
             told == IF asked <= day[c] THEN FromDay(day[c], got) ELSE heard[c]
  <1>1. /\ busy' = [busy EXCEPT ![c] = @ \cup got]
        /\ free' = [free EXCEPT ![c] = redrawn]
        /\ shown' = [shown EXCEPT ![c] = TRUE]
        /\ query' = [query EXCEPT ![c][n] = NoQuery]
        /\ heard' = [heard EXCEPT ![c] = told]
        /\ UNCHANGED <<screen, picked, month, cell, day>>
    BY DEF AnswerWith, form
  <1>2. asked \in Days /\ day[c] \in Days /\ screen[c] = "calendar"
    BY QueryRecords DEF IInv, TypeOK, CalendarInv
  <1>3. got \subseteq Slots /\ redrawn \subseteq Times
    BY SlotsOfWritten DEF FromDay, FreeRows, IInv
  <1>4. told \in (SUBSET Slots) \cup {NoValue}
    BY <1>3 DEF FromDay, IInv, TypeOK
  <1>5. told = heard[c] \/ (told \subseteq got /\ asked <= day[c])
    BY DEF FromDay
  <1>6. asked <= day[c] =>
          \A i \in OwnView(c) : entry[i].slot[1] = day[c] => entry[i].slot \in got
    BY DEF SlotsOf, FromDay
  <1>7. \A t \in redrawn : <<day[c], t>> \notin busy[c] \cup got
    BY DEF FreeRows
  <1>. HIDE DEF asked, got, redrawn, told
  <1>8. /\ busy'[c] = busy[c] \cup got /\ free'[c] = redrawn /\ heard'[c] = told
        /\ screen'[c] = screen[c] /\ day'[c] = day[c] /\ query'[c][n] = NoQuery
        /\ \A m \in Tags : m # n => query'[c][m] = query[c][m]
    BY <1>1 DEF IInv, TypeOK
  <1>9. TypeOK'
    <2>1. query' \in [Clients -> [Tags -> Queries]]
      BY <1>1, QueryRecords DEF IInv, TypeOK
    <2>2. busy' \in [Clients -> SUBSET Slots] /\ free' \in [Clients -> SUBSET Times]
      BY <1>1, <1>3 DEF IInv, TypeOK
    <2>3. shown' \in [Clients -> BOOLEAN]
      BY <1>1 DEF IInv, TypeOK
    <2>4. heard' \in [Clients -> (SUBSET Slots) \cup {NoValue}]
      BY <1>1, <1>4 DEF IInv, TypeOK
    <2>. QED
      BY <1>1, <2>1, <2>2, <2>3, <2>4 DEF IInv, TypeOK
  <1>10. DocumentsInv'
    BY DEF IInv, DocumentsInv, ListedIsBooked
  <1>11. CalendarInv(c)'
    <2>1. OwnView(c)' = OwnView(c)
      BY DEF OwnView, Mine
    <2>2. heard'[c] # NoValue => HeardInv(c)'
      <3>1. CASE told = heard[c]
        BY <1>2, <1>5, <1>6, <1>7, <1>8, <2>1, <3>1 DEF IInv, CalendarInv, HeardInv
      <3>2. CASE told \subseteq got /\ asked <= day[c]
        BY <1>6, <1>7, <1>8, <2>1, <3>2 DEF HeardInv
      <3>. QED
        BY <1>5, <3>1, <3>2
    <2>3. \A m \in Tags : query'[c][m].open => screen'[c] = "calendar" /\ day'[c] \in Days
      BY <1>2, <1>8
    <2>. QED
      BY <1>2, <1>8, <2>2, <2>3 DEF CalendarInv
  <1>12. ASSUME NEW k \in Clients, k # c PROVE CalendarInv(k)'
    <2>1. /\ busy'[k] = busy[k] /\ free'[k] = free[k] /\ shown'[k] = shown[k]
          /\ query'[k] = query[k] /\ heard'[k] = heard[k]
      BY <1>1, <1>12 DEF IInv, TypeOK
    <2>2. \A i \in OwnView(k)' : i \in OwnView(k) /\ entry'[i] = entry[i]
      BY OwnViewKept
    <2>. QED
      BY <1>1, <2>1, <2>2, CalendarKept DEF IInv
  <1>. QED
    BY <1>9, <1>10, <1>11, <1>12 DEF IInv

LEMMA AnswerStep ==
  ASSUME IInv, NEW c \in Clients, NEW n \in Tags,
         AnswerFromServer(c, n) \/ AnswerFromCache(c, n)
  PROVE  IInv'
  <1>1. PICK ids \in SUBSET Ids :
          /\ Answer(c, n, ids)
          /\ OwnView(c) \subseteq ids
          /\ \A i \in ids : entry[i] \in Entries
    BY AnswersAreWritten DEF AnswerFromServer, AnswerFromCache
  <1>2. /\ known' \in [Clients -> SUBSET Ids]
        /\ \A k \in Clients : \A i \in known'[k] : stage[i] # "unused"
    BY KnownIsWritten DEF AnswerFromServer, AnswerFromCache
  <1>3. CASE query[c][n].open /\ AnswerWith(c, n, ids) /\ UNCHANGED <<entry, stage, reply>>
    BY <1>1, <1>2, <1>3, AnswerWithStep DEF Answer
  <1>4. CASE ~query[c][n].open /\ Restart(c, reply) /\ UNCHANGED <<entry, stage>>
    BY <1>2, <1>4, RestartStep
  <1>. QED
    BY <1>1, <1>3, <1>4 DEF Answer

LEMMA AnswerErrorStep ==
  ASSUME IInv, NEW c \in Clients, NEW n \in Tags, AnswerError(c, n)
  PROVE  IInv'
  <1>1. /\ query' = [query EXCEPT ![c][n] = NoQuery]
        /\ UNCHANGED <<documents, form, calendar>>
    BY DEF AnswerError
  <1>2. TypeOK'
    <2>1. query' \in [Clients -> [Tags -> Queries]]
      BY <1>1, QueryRecords DEF IInv, TypeOK
    <2>. QED
      BY <1>1, <2>1 DEF documents, form, calendar, IInv, TypeOK
  <1>3. DocumentsInv'
    BY <1>1 DEF documents, IInv, DocumentsInv, ListedIsBooked
  <1>4. ASSUME NEW k \in Clients PROVE CalendarInv(k)'
    <2>1. \A m \in Tags : query'[k][m] = query[k][m] \/ ~query'[k][m].open
      BY <1>1, QueryRecords DEF IInv, TypeOK
    <2>2. \A i \in OwnView(k)' : i \in OwnView(k) /\ entry'[i] = entry[i]
      BY <1>1, OwnViewKept DEF documents
    <2>. QED
      BY <1>1, <2>1, <2>2, CalendarKept DEF form, calendar, IInv
  <1>. QED
    BY <1>2, <1>3, <1>4 DEF IInv

-----------------------------------------------------------------------------
(* The documents on their way. *)

(* Steps that leave the entries, the caches and all calendars alone. *)
LEMMA DocumentStep ==
  ASSUME IInv, UNCHANGED <<entry, known, form, calendar, query>>,
         stage' \in [Ids -> Stages], reply' \in [Ids -> Replies],
         \A i \in Ids : stage[i] = "unused" <=> stage'[i] = "unused",
         \A i \in Ids : stage'[i] \in {"queued", "stored"} => stage[i] \in {"queued", "stored"},
         ListedIsBooked'
  PROVE  IInv'
  <1>1. TypeOK'
    BY DEF form, calendar, IInv, TypeOK
  <1>2. DocumentsInv'
    BY DEF IInv, TypeOK, DocumentsInv
  <1>3. ASSUME NEW c \in Clients PROVE CalendarInv(c)'
    <2>1. \A i \in OwnView(c)' : i \in OwnView(c) /\ entry'[i] = entry[i]
      BY OwnViewKept
    <2>. QED
      BY <2>1, CalendarKept DEF form, calendar, IInv
  <1>. QED
    BY <1>1, <1>2, <1>3 DEF IInv

LEMMA ServerStep ==
  ASSUME IInv, NEW i \in Ids, Server(i)
  PROVE  IInv'
  <1>1. CASE ServerStores(i)
    <2>1. ListedIsBooked'
      BY <1>1 DEF ServerStores, IInv, TypeOK, DocumentsInv, ListedIsBooked
    <2>. QED
      BY <1>1, <2>1, DocumentStep DEF ServerStores, IInv, TypeOK, Stages
  <1>2. CASE ServerRefuses(i)
    <2>1. ListedIsBooked'
      BY <1>2 DEF ServerRefuses, IInv, TypeOK, DocumentsInv, ListedIsBooked
    <2>. QED
      BY <1>2, <2>1, DocumentStep DEF ServerRefuses, IInv, TypeOK, Stages, Replies
  <1>3. CASE ServerDeletes(i)
    <2>1. ListedIsBooked'
      BY <1>3 DEF ServerDeletes, IInv, TypeOK, DocumentsInv, ListedIsBooked
    <2>. QED
      BY <1>3, <2>1, DocumentStep DEF ServerDeletes, IInv, TypeOK, Stages
  <1>. QED
    BY <1>1, <1>2, <1>3 DEF Server

LEMMA AcknowledgeStep ==
  ASSUME IInv, NEW i \in Ids, Acknowledge(i)
  PROVE  IInv'
  <1>1. ListedIsBooked'
    BY DEF Acknowledge, IInv, TypeOK, DocumentsInv, ListedIsBooked
  <1>. QED
    BY <1>1, DocumentStep DEF Acknowledge, IInv, TypeOK, Replies

(* A new document belongs to a device whose calendar is closed, and takes   *)
(* an identifier nobody has seen.                                           *)
LEMMA MakeAppointmentStep ==
  ASSUME IInv, NEW c \in Clients, NEW i \in Ids, NEW m \in Masters,
         MakeAppointment(c, i, m)
  PROVE  IInv'
  <1> DEFINE e == [client |-> c, slot |-> picked[c], master |-> m]
  <1>1. /\ screen[c] = "form" /\ stage[i] = "unused"
        /\ entry' = [entry EXCEPT ![i] = e]
        /\ stage' = [stage EXCEPT ![i] = "queued"]
        /\ reply' = [reply EXCEPT ![i] = "waiting"]
        /\ screen' = [screen EXCEPT ![c] = "service"]
        /\ picked' = [picked EXCEPT ![c] = NoValue]
        /\ UNCHANGED <<known, calendar, query>>
    BY DEF MakeAppointment
  <1>2. e \in Entries /\ e.client = c
    BY DEF MakeAppointment, IInv, TypeOK, Entries
  <1>. HIDE DEF e
  <1>3. TypeOK'
    <2>1. /\ entry' \in [Ids -> Entries \cup {NoValue}]
          /\ stage' \in [Ids -> Stages] /\ reply' \in [Ids -> Replies]
      BY <1>1, <1>2 DEF IInv, TypeOK, Stages, Replies
    <2>2. /\ screen' \in [Clients -> {"service", "form", "calendar"}]
          /\ picked' \in [Clients -> Slots \cup {NoValue}]
      BY <1>1 DEF IInv, TypeOK
    <2>. QED
      BY <1>1, <2>1, <2>2 DEF calendar, IInv, TypeOK
  <1>4. DocumentsInv'
    BY <1>1, <1>2 DEF IInv, TypeOK, DocumentsInv, ListedIsBooked
  <1>5. CalendarInv(c)'
    <2>1. screen[c] # "calendar" /\ screen'[c] # "calendar"
      BY <1>1 DEF IInv, TypeOK
    <2>. QED
      BY <1>1, <2>1 DEF calendar, IInv, CalendarInv, HeardInv
  <1>6. ASSUME NEW k \in Clients, k # c PROVE CalendarInv(k)'
    <2>1. screen'[k] = screen[k]
      BY <1>1, <1>6 DEF IInv, TypeOK
    <2>2. \A j \in OwnView(k)' : j \in OwnView(k) /\ entry'[j] = entry[j]
      <3>1. /\ entry'[i] = e /\ \A j \in Ids : j # i => entry'[j] = entry[j]
            /\ \A j \in Ids : j # i => stage'[j] = stage[j]
        BY <1>1 DEF IInv, TypeOK
      <3>2. i \notin OwnView(k)'
        BY <1>2, <1>6, <3>1 DEF OwnView, Mine
      <3>. QED
        BY <3>1, <3>2 DEF OwnView, Mine
    <2>. QED
      BY <1>1, <2>1, <2>2, CalendarKept DEF calendar, IInv
  <1>. QED
    BY <1>3, <1>4, <1>5, <1>6 DEF IInv

-----------------------------------------------------------------------------
(* All steps. *)
LEMMA StutterStep == IInv /\ UNCHANGED vars => IInv'
  <1> SUFFICES ASSUME IInv, UNCHANGED vars PROVE IInv'
    OBVIOUS
  <1>1. UNCHANGED <<entry, known, form, calendar, query, stage, reply>>
    BY DEF vars, documents
  <1>. QED
    BY <1>1, DocumentStep DEF IInv, TypeOK, DocumentsInv, ListedIsBooked

LEMMA NextIInv == IInv /\ [Next]_vars => IInv'
  <1> SUFFICES ASSUME IInv, [Next]_vars PROVE IInv'
    OBVIOUS
  <1>1. ASSUME NEW c \in Clients, User(c) PROVE IInv'
    BY <1>1, FormStep, OpenCalendarStep, LeaveCalendarStep, ChangeMonthStep,
       TapDayStep, RedrawRowStep, PickTimeStep, MakeAppointmentStep, CancelStep
    DEF User
  <1>2. ASSUME NEW c \in Clients, Firestore(c) PROVE IInv'
    BY <1>2, AnswerStep, AnswerErrorStep DEF Firestore
  <1>3. ASSUME NEW c \in Clients, Kill(c) PROVE IInv'
    BY <1>3, KillStep
  <1>4. ASSUME NEW i \in Ids, Server(i) \/ Acknowledge(i) PROVE IInv'
    BY <1>4, ServerStep, AcknowledgeStep
  <1>. QED
    BY <1>1, <1>2, <1>3, <1>4, StutterStep DEF Next

LEMMA Invariance == Spec => []IInv
  BY InitIInv, NextIInv, PTL DEF Spec

-----------------------------------------------------------------------------
(* Every reachable state of Booking is one that the variables' types allow; *)
(* in particular, the time that goes to the form is a slot: no row can be   *)
(* tapped before a day was.                                                 *)
THEOREM BookingTypeCorrect == Spec => []TypeOK
  <1>1. IInv => TypeOK
    BY DEF IInv
  <1>. QED
    BY Invariance, <1>1, PTL

(* What the account lists (SampleServiceEmptyVC), the salon has, whatever   *)
(* order acknowledgements, refusals, cancellations and restarts come in.    *)
THEOREM ListedIsAlwaysBooked == Spec => []ListedIsBooked
  <1>1. IInv => ListedIsBooked
    BY DEF IInv, DocumentsInv
  <1>. QED
    BY Invariance, <1>1, PTL

(* A time that was heard busy for the day tapped last is closed in the      *)
(* table (CelendarVC), for any number of late answers and redrawn rows.     *)
THEOREM HeardTimesStayClosed == Spec => []HeardTimesClosed
  <1>1. IInv => HeardTimesClosed
    BY DEF IInv, TypeOK, CalendarInv, HeardInv, HeardTimesClosed
  <1>. QED
    BY Invariance, <1>1, PTL

(* Once the day has been answered for, a client's own appointments of that  *)
(* day are closed to the client (CelendarVC, over Firestore's cache).       *)
THEOREM OwnTimesStayClosed == Spec => []OwnTimesClosed
  <1>1. ASSUME IInv PROVE OwnTimesClosed
    <2> SUFFICES ASSUME NEW c \in Clients, screen[c] = "calendar", shown[c],
                        heard[c] # NoValue, NEW t \in free[c],
                        NEW i \in OwnView(c), <<day[c], t>> = entry[i].slot
                 PROVE  FALSE
      BY DEF OwnTimesClosed, SlotsOf
    <2>1. HeardInv(c)
      BY <1>1 DEF IInv, CalendarInv
    <2>2. entry[i].slot[1] = day[c]
      OBVIOUS
    <2>. QED
      BY <2>1, <2>2 DEF HeardInv
  <1>. QED
    BY Invariance, <1>1, PTL
=============================================================================
