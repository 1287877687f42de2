------------------------- MODULE RegistrationProofs -------------------------
(***************************************************************************)
(* What Registration does keep, for any number of devices and taps, beside *)
(* the one promise it breaks.                                              *)
(***************************************************************************)
EXTENDS Registration, FiniteSetTheorems, SequenceTheorems, TLAPS

(* The users that device d has made, delivered or not. *)
Own(d) == {u \in users \cup queued[d] : u[1] = d}

(* A device makes no more users than its button was tapped: every answer    *)
(* makes one at most.                                                       *)
UsersByTaps == \A d \in Devices : IsFiniteSet(Own(d)) /\ Cardinality(Own(d)) <= taps[d]

(* It takes a second tap to make a second user.                             *)
OneTapOneUser ==
  (\E d \in Devices : taps[d] <= 1 /\ \A e \in Devices \ {d} : taps[e] = 0)
    => OneUserPerNumber

(* A device with an account has a user for it, at the server or on its way, *)
(* although the answer that made the account may be out of date.            *)
AccountHasUser == \A d \in Devices : account[d] => users \cup queued[d] # {}

-----------------------------------------------------------------------------
(* The inductive invariant. *)

UserIds == Devices \X Nat
Answers == [list : SUBSET UserIds, open : BOOLEAN]

TypeInv ==
  /\ users \subseteq UserIds
  /\ queued \in [Devices -> SUBSET UserIds]
  /\ known \in [Devices -> SUBSET users]
  /\ taps \in [Devices -> Nat]
  /\ queries \in [Devices -> Seq(BOOLEAN)]
  /\ answers \in [Devices -> Seq(Answers)]
  /\ account \in [Devices -> BOOLEAN]

(* Each tap is a call in flight, an answer that waits, a user made, or none *)
(* of them any more.                                                        *)
TapsInv ==
  \A d \in Devices :
    /\ \A u \in queued[d] : u[1] = d
    /\ IsFiniteSet(Own(d))
    /\ Cardinality(Own(d)) + Len(queries[d]) + Len(answers[d]) <= taps[d]

(* An answer lists users that still exist. *)
ListsInv ==
  \A d \in Devices : \A i \in 1 .. Len(answers[d]) :
    answers[d][i].list \subseteq users \cup queued[d]

IInv == TypeInv /\ TapsInv /\ ListsInv /\ AccountHasUser

LEMMA InitIInv == Init => IInv
  <1> SUFFICES ASSUME Init PROVE IInv
    OBVIOUS
  <1>1. TypeInv
    BY DEF Init, TypeInv
  <1>2. \A d \in Devices : Own(d) = {}
    BY DEF Init, Own
  <1>3. IsFiniteSet({}) /\ Cardinality({}) = 0
    BY FS_EmptySet
  <1>4. \A d \in Devices : queries[d] = <<>> /\ answers[d] = <<>> /\ taps[d] = 0
                             /\ queued[d] = {} /\ account[d] = FALSE
    BY DEF Init
  <1>5. ASSUME NEW d \in Devices
        PROVE  /\ \A u \in queued[d] : u[1] = d
               /\ IsFiniteSet(Own(d))
               /\ Cardinality(Own(d)) + Len(queries[d]) + Len(answers[d]) <= taps[d]
    <2>1. Len(queries[d]) = 0 /\ Len(answers[d]) = 0
      BY <1>4
    <2>2. IsFiniteSet(Own(d)) /\ Cardinality(Own(d)) = 0
      BY <1>2, <1>3
    <2>. QED
      BY <1>4, <2>1, <2>2
  <1>. QED
    BY <1>1, <1>4, <1>5 DEF IInv, TapsInv, ListsInv, AccountHasUser

(* The types of what one device has. *)
LEMMA DeviceTypes ==
  ASSUME IInv, NEW d \in Devices
  PROVE  /\ queued[d] \in SUBSET UserIds /\ known[d] \subseteq users
         /\ taps[d] \in Nat /\ account[d] \in BOOLEAN
         /\ queries[d] \in Seq(BOOLEAN) /\ answers[d] \in Seq(Answers)
         /\ Len(queries[d]) \in Nat /\ Len(answers[d]) \in Nat
         /\ IsFiniteSet(Own(d)) /\ Cardinality(Own(d)) \in Nat
         /\ Cardinality(Own(d)) + Len(queries[d]) + Len(answers[d]) <= taps[d]
  <1>1. /\ queued[d] \in SUBSET UserIds /\ known[d] \subseteq users
        /\ taps[d] \in Nat /\ account[d] \in BOOLEAN
        /\ queries[d] \in Seq(BOOLEAN) /\ answers[d] \in Seq(Answers)
    <2>. HIDE DEF Answers, UserIds
    <2>. QED
      BY DEF IInv, TypeInv
  <1>2. /\ IsFiniteSet(Own(d))
        /\ Cardinality(Own(d)) + Len(queries[d]) + Len(answers[d]) <= taps[d]
    BY DEF IInv, TapsInv
  <1>3. Cardinality(Own(d)) \in Nat
    BY <1>2, FS_CardinalityType
  <1>. HIDE DEF Answers, UserIds
  <1>. QED
    BY <1>1, <1>2, <1>3

LEMMA StillWithin ==
  ASSUME NEW n \in Nat, NEW q \in Nat, NEW a \in Nat, NEW t \in Nat,
         NEW q2 \in Nat, NEW a2 \in Nat, NEW t2 \in Nat,
         n + q + a <= t, t2 - q2 - a2 >= t - q - a
  PROVE  n + q2 + a2 <= t2
  OBVIOUS

-----------------------------------------------------------------------------
(* Steps that make no user: calls and answers of device d may become fewer, *)
(* and what an answer lists is still there.                                 *)
LEMMA NobodyMade ==
  ASSUME IInv, NEW d \in Devices, UNCHANGED <<users, queued>>,
         known' \in [Devices -> SUBSET users],
         taps' \in [Devices -> Nat],
         queries' \in [Devices -> Seq(BOOLEAN)], answers' \in [Devices -> Seq(Answers)],
         account' \in [Devices -> BOOLEAN],
         account'[d] => account[d] \/ users \cup queued[d] # {},
         \A e \in Devices \ {d} :
           /\ taps'[e] = taps[e] /\ queries'[e] = queries[e] /\ answers'[e] = answers[e]
           /\ account'[e] = account[e],
         taps'[d] - Len(queries'[d]) - Len(answers'[d])
           >= taps[d] - Len(queries[d]) - Len(answers[d]),
         \A i \in 1 .. Len(answers'[d]) :
           answers'[d][i].list \subseteq users \cup queued[d]
  PROVE  IInv'
  <1>1. TypeInv'
    BY DEF IInv, TypeInv
  <1>2. TapsInv'
    <2> SUFFICES ASSUME NEW e \in Devices
        PROVE  /\ \A u \in queued'[e] : u[1] = e
               /\ IsFiniteSet(Own(e)')
               /\ Cardinality(Own(e)') + Len(queries'[e]) + Len(answers'[e]) <= taps'[e]
      BY DEF TapsInv
    <2>1. Own(e)' = Own(e)
      BY DEF Own
    <2>2. \A u \in queued'[e] : u[1] = e
      BY DEF IInv, TapsInv
    <2>3. /\ IsFiniteSet(Own(e)) /\ Cardinality(Own(e)) \in Nat
          /\ Len(queries[e]) \in Nat /\ Len(answers[e]) \in Nat /\ taps[e] \in Nat
          /\ Cardinality(Own(e)) + Len(queries[e]) + Len(answers[e]) <= taps[e]
      BY DeviceTypes
    <2>4. Len(queries'[e]) \in Nat /\ Len(answers'[e]) \in Nat /\ taps'[e] \in Nat
      <3>1. queries'[e] \in Seq(BOOLEAN) /\ answers'[e] \in Seq(Answers) /\ taps'[e] \in Nat
        <4>. HIDE DEF Answers
        <4>. QED
          OBVIOUS
      <3>. HIDE DEF Answers
      <3>. QED
        BY <3>1
    <2>5. Cardinality(Own(e)') + Len(queries'[e]) + Len(answers'[e]) <= taps'[e]
      <3>1. CASE e = d
        <4>1. Cardinality(Own(d)') = Cardinality(Own(d))
          BY <2>1, <3>1
        <4>2. /\ Cardinality(Own(d)) \in Nat /\ Len(queries[d]) \in Nat
              /\ Len(answers[d]) \in Nat /\ taps[d] \in Nat
              /\ Len(queries'[d]) \in Nat /\ Len(answers'[d]) \in Nat /\ taps'[d] \in Nat
              /\ Cardinality(Own(d)) + Len(queries[d]) + Len(answers[d]) <= taps[d]
          BY <2>3, <2>4, <3>1
        <4>3. Cardinality(Own(d)) + Len(queries'[d]) + Len(answers'[d]) <= taps'[d]
          BY <4>2, StillWithin
        <4>. QED
          BY <3>1, <4>1, <4>3
      <3>2. CASE e # d
        BY <2>1, <2>3, <3>2
      <3>. QED
        BY <3>1, <3>2
    <2>. QED
      BY <2>1, <2>2, <2>3, <2>5
  <1>3. ListsInv'
    <2> SUFFICES ASSUME NEW e \in Devices, NEW i \in 1 .. Len(answers'[e])
                 PROVE  answers'[e][i].list \subseteq users \cup queued[e]
      BY DEF ListsInv
    <2>1. CASE e = d
      BY <2>1
    <2>2. CASE e # d
      BY <2>2 DEF IInv, ListsInv
    <2>. QED
      BY <2>1, <2>2
  <1>4. AccountHasUser'
    <2> SUFFICES ASSUME NEW e \in Devices, account'[e]
                 PROVE  users \cup queued[e] # {}
      BY DEF AccountHasUser
    <2>1. account[e] \/ users \cup queued[e] # {}
      BY DeviceTypes
    <2>. QED
      BY <2>1 DEF IInv, AccountHasUser
  <1>. QED
    BY <1>1, <1>2, <1>3, <1>4 DEF IInv

-----------------------------------------------------------------------------
(* The screen. *)

LEMMA OpenKeeps ==
  ASSUME IInv, NEW d \in Devices, OpenRegistration(d)
  PROVE  IInv'
  <1>1. UNCHANGED <<users, queued, known, taps, queries, answers, account>>
    BY DEF OpenRegistration
  <1>. QED
    BY <1>1 DEF IInv, TypeInv, TapsInv, ListsInv, AccountHasUser, Own

LEMMA LeaveKeeps ==
  ASSUME IInv, NEW d \in Devices, Leave(d)
  PROVE  IInv'
  <1> DEFINE calls == [i \in 1 .. Len(queries[d]) |-> FALSE]
             left == Orphaned(answers[d])
  <1>1. /\ queries' = [queries EXCEPT ![d] = calls]
        /\ answers' = [answers EXCEPT ![d] = left]
        /\ UNCHANGED <<users, queued, known, taps, account>>
    BY DEF Leave, ScreenGone
  <1>2. /\ queries[d] \in Seq(BOOLEAN) /\ answers[d] \in Seq(Answers)
        /\ Len(queries[d]) \in Nat /\ Len(answers[d]) \in Nat /\ taps[d] \in Nat
    BY DeviceTypes
  <1>3. calls \in Seq(BOOLEAN) /\ Len(calls) = Len(queries[d])
    BY <1>2
  <1>4. /\ left \in Seq(Answers) /\ Len(left) = Len(answers[d])
        /\ \A i \in 1 .. Len(left) : left[i].list = answers[d][i].list
    <2>1. \A a \in Answers : [a EXCEPT !.open = FALSE] \in Answers
                             /\ [a EXCEPT !.open = FALSE].list = a.list
      BY DEF Answers
    <2>2. \A i \in 1 .. Len(answers[d]) : answers[d][i] \in Answers
      <3>. HIDE DEF Answers
      <3>. QED
        BY <1>2
    <2>3. left = [i \in 1 .. Len(answers[d]) |-> [answers[d][i] EXCEPT !.open = FALSE]]
      BY DEF Orphaned
    <2>. HIDE DEF Answers, left
    <2>4. \A i \in 1 .. Len(answers[d]) :
            left[i] \in Answers /\ left[i].list = answers[d][i].list
      BY <2>1, <2>2, <2>3
    <2>5. left \in Seq(Answers) /\ Len(left) = Len(answers[d])
      <3> DEFINE n == Len(answers[d])
      <3>1. n \in Nat /\ left \in [1 .. n -> Answers]
        BY <1>2, <2>3, <2>4
      <3>. HIDE DEF n
      <3>2. left \in Seq(Answers)
        BY <3>1
      <3>3. DOMAIN left = 1 .. n
        BY <3>1
      <3>4. Len(left) = n
        BY <3>1, <3>2, <3>3, LenProperties
      <3>. QED
        BY <3>2, <3>4 DEF n
    <2>. QED
      BY <2>4, <2>5
  <1>. HIDE DEF calls, left
  <1>5. /\ queries \in [Devices -> Seq(BOOLEAN)] /\ answers \in [Devices -> Seq(Answers)]
        /\ known \in [Devices -> SUBSET users] /\ taps \in [Devices -> Nat]
        /\ account \in [Devices -> BOOLEAN]
    BY DEF IInv, TypeInv
  <1>6. /\ queries'[d] = calls /\ answers'[d] = left
        /\ queries' \in [Devices -> Seq(BOOLEAN)] /\ answers' \in [Devices -> Seq(Answers)]
        /\ \A e \in Devices \ {d} : queries'[e] = queries[e] /\ answers'[e] = answers[e]
    <2>. HIDE DEF Answers
    <2>. QED
      BY <1>1, <1>3, <1>4, <1>5
  <1>7. \A i \in 1 .. Len(answers'[d]) : answers'[d][i].list \subseteq users \cup queued[d]
    BY <1>4, <1>6 DEF IInv, ListsInv
  <1>8. taps'[d] - Len(queries'[d]) - Len(answers'[d])
          >= taps[d] - Len(queries[d]) - Len(answers[d])
    BY <1>1, <1>2, <1>3, <1>4, <1>6
  <1>. QED
    BY <1>1, <1>5, <1>6, <1>7, <1>8, NobodyMade

(* A tap is a call in flight. *)
LEMMA TapKeeps ==
  ASSUME IInv, NEW d \in Devices, TapNext(d)
  PROVE  IInv'
  <1>1. /\ taps' = [taps EXCEPT ![d] = @ + 1]
        /\ queries' = [queries EXCEPT ![d] = Append(@, TRUE)]
        /\ UNCHANGED <<users, queued, known, answers, account>>
    BY DEF TapNext
  <1>2. /\ queries[d] \in Seq(BOOLEAN)
        /\ Len(queries[d]) \in Nat /\ Len(answers[d]) \in Nat /\ taps[d] \in Nat
    BY DeviceTypes
  <1>3. /\ queries \in [Devices -> Seq(BOOLEAN)] /\ answers \in [Devices -> Seq(Answers)]
        /\ known \in [Devices -> SUBSET users] /\ taps \in [Devices -> Nat]
        /\ account \in [Devices -> BOOLEAN]
    BY DEF IInv, TypeInv
  <1>4. /\ Append(queries[d], TRUE) \in Seq(BOOLEAN)
        /\ Len(Append(queries[d], TRUE)) = Len(queries[d]) + 1
    BY <1>2
  <1>5. /\ queries'[d] = Append(queries[d], TRUE) /\ taps'[d] = taps[d] + 1
        /\ queries' \in [Devices -> Seq(BOOLEAN)] /\ taps' \in [Devices -> Nat]
        /\ \A e \in Devices \ {d} : queries'[e] = queries[e] /\ taps'[e] = taps[e]
    <2> DEFINE calls == Append(queries[d], TRUE)
               tapped == taps[d] + 1
    <2>1. /\ queries' = [queries EXCEPT ![d] = calls] /\ taps' = [taps EXCEPT ![d] = tapped]
          /\ calls \in Seq(BOOLEAN) /\ tapped \in Nat
      BY <1>1, <1>2, <1>4
    <2>. HIDE DEF calls, tapped
    <2>2. /\ queries'[d] = calls /\ taps'[d] = tapped
          /\ queries' \in [Devices -> Seq(BOOLEAN)] /\ taps' \in [Devices -> Nat]
          /\ \A e \in Devices \ {d} : queries'[e] = queries[e] /\ taps'[e] = taps[e]
      BY <1>3, <2>1
    <2>. QED
      BY <2>2 DEF calls, tapped
  <1>6. taps'[d] - Len(queries'[d]) - Len(answers'[d])
          >= taps[d] - Len(queries[d]) - Len(answers[d])
    BY <1>1, <1>2, <1>4, <1>5
  <1>7. \A i \in 1 .. Len(answers'[d]) : answers'[d][i].list \subseteq users \cup queued[d]
    BY <1>1 DEF IInv, ListsInv
  <1>. QED
    BY <1>1, <1>3, <1>5, <1>6, <1>7, NobodyMade

-----------------------------------------------------------------------------
(* Answers. *)

(* The call leaves for an answer, or for nothing. *)
LEMMA CallTaken ==
  ASSUME IInv, NEW d \in Devices, queries[d] # <<>>,
         queries' = [queries EXCEPT ![d] = Tail(@)]
  PROVE  /\ Len(queries'[d]) = Len(queries[d]) - 1 /\ Head(queries[d]) \in BOOLEAN
         /\ queries' \in [Devices -> Seq(BOOLEAN)]
         /\ \A e \in Devices \ {d} : queries'[e] = queries[e]
  <1>1. queries[d] \in Seq(BOOLEAN) /\ queries \in [Devices -> Seq(BOOLEAN)]
    BY DeviceTypes DEF IInv, TypeInv
  <1>2. /\ Tail(queries[d]) \in Seq(BOOLEAN) /\ Head(queries[d]) \in BOOLEAN
        /\ Len(Tail(queries[d])) = Len(queries[d]) - 1
    BY <1>1
  <1>3. queries'[d] = Tail(queries[d])
    BY <1>1
  <1>. QED
    BY <1>1, <1>2, <1>3

LEMMA AnswerKeeps ==
  ASSUME IInv, NEW d \in Devices, NEW list \in SUBSET users, Answered(d, list),
         known' \in [Devices -> SUBSET users]
  PROVE  IInv'
  <1> DEFINE a == Answer(list \cup queued[d], Head(queries[d]))
  <1>1. /\ queries[d] # <<>>
        /\ queries' = [queries EXCEPT ![d] = Tail(@)]
        /\ answers' = [answers EXCEPT ![d] = Append(@, a)]
        /\ UNCHANGED <<users, queued, taps, account>>
    BY DEF Answered
  <1>2. /\ Len(queries'[d]) = Len(queries[d]) - 1 /\ Head(queries[d]) \in BOOLEAN
        /\ queries' \in [Devices -> Seq(BOOLEAN)]
        /\ \A e \in Devices \ {d} : queries'[e] = queries[e]
    BY <1>1, CallTaken
  <1>3. a \in Answers /\ a.list = list \cup queued[d]
    <2>1. users \subseteq UserIds /\ queued[d] \in SUBSET UserIds
      BY DeviceTypes DEF IInv, TypeInv
    <2>. HIDE DEF UserIds
    <2>. QED
      BY <1>2, <2>1 DEF Answers, Answer
  <1>4. /\ answers[d] \in Seq(Answers) /\ Len(answers[d]) \in Nat
        /\ Len(queries[d]) \in Nat /\ taps[d] \in Nat
        /\ answers \in [Devices -> Seq(Answers)]
        /\ taps \in [Devices -> Nat] /\ account \in [Devices -> BOOLEAN]
    BY DeviceTypes DEF IInv, TypeInv
  <1>. HIDE DEF a, Answers
  <1>5. /\ Append(answers[d], a) \in Seq(Answers)
        /\ Len(Append(answers[d], a)) = Len(answers[d]) + 1
        /\ \A i \in 1 .. Len(answers[d]) : Append(answers[d], a)[i] = answers[d][i]
        /\ Append(answers[d], a)[Len(answers[d]) + 1] = a
    BY <1>3, <1>4
  <1>6. /\ answers'[d] = Append(answers[d], a)
        /\ answers' \in [Devices -> Seq(Answers)]
        /\ \A e \in Devices \ {d} : answers'[e] = answers[e]
    BY <1>1, <1>4, <1>5
  <1>7. ASSUME NEW i \in 1 .. Len(answers'[d])
        PROVE  answers'[d][i].list \subseteq users \cup queued[d]
    <2>1. i \in 1 .. Len(answers[d]) \/ i = Len(answers[d]) + 1
      BY <1>4, <1>5, <1>6
    <2>2. CASE i \in 1 .. Len(answers[d])
      <3>1. answers'[d][i] = answers[d][i]
        BY <1>5, <1>6, <2>2
      <3>. QED
        BY <2>2, <3>1 DEF IInv, ListsInv
    <2>3. CASE i = Len(answers[d]) + 1
      <3>1. answers'[d][i] = a
        BY <1>5, <1>6, <2>3
      <3>. QED
        BY <1>3, <3>1
    <2>. QED
      BY <2>1, <2>2, <2>3
  <1>8. taps'[d] - Len(queries'[d]) - Len(answers'[d])
          >= taps[d] - Len(queries[d]) - Len(answers[d])
    BY <1>1, <1>2, <1>4, <1>5, <1>6
  <1>9. /\ taps' \in [Devices -> Nat] /\ account' \in [Devices -> BOOLEAN]
        /\ UNCHANGED <<users, queued>> /\ (account'[d] => account[d])
        /\ \A e \in Devices \ {d} : taps'[e] = taps[e] /\ account'[e] = account[e]
    BY <1>1, <1>4
  <1>. QED
    BY <1>2, <1>6, <1>7, <1>8, <1>9, NobodyMade

LEMMA AnswersKeep ==
  ASSUME IInv, NEW d \in Devices, AnswerFromServer(d) \/ AnswerFromCache(d)
  PROVE  IInv'
  <1>1. known \in [Devices -> SUBSET users] /\ known[d] \in SUBSET users
    BY DeviceTypes DEF IInv, TypeInv
  <1>2. CASE AnswerFromServer(d)
    <2>1. Answered(d, users) /\ known' \in [Devices -> SUBSET users]
      BY <1>1, <1>2 DEF AnswerFromServer
    <2>. QED
      BY <2>1, AnswerKeeps
  <1>3. CASE AnswerFromCache(d)
    <2>1. Answered(d, known[d]) /\ known' \in [Devices -> SUBSET users]
      BY <1>1, <1>3 DEF AnswerFromCache
    <2>. QED
      BY <1>1, <2>1, AnswerKeeps
  <1>. QED
    BY <1>2, <1>3

LEMMA ErrorKeeps ==
  ASSUME IInv, NEW d \in Devices, AnswerError(d)
  PROVE  IInv'
  <1>1. /\ queries[d] # <<>>
        /\ queries' = [queries EXCEPT ![d] = Tail(@)]
        /\ UNCHANGED <<users, queued, known, taps, answers, account>>
    BY DEF AnswerError
  <1>2. /\ Len(queries'[d]) = Len(queries[d]) - 1
        /\ queries' \in [Devices -> Seq(BOOLEAN)]
        /\ \A e \in Devices \ {d} : queries'[e] = queries[e]
    BY <1>1, CallTaken
  <1>3. /\ Len(answers[d]) \in Nat /\ Len(queries[d]) \in Nat /\ taps[d] \in Nat
        /\ answers \in [Devices -> Seq(Answers)] /\ known \in [Devices -> SUBSET users]
        /\ taps \in [Devices -> Nat] /\ account \in [Devices -> BOOLEAN]
    BY DeviceTypes DEF IInv, TypeInv
  <1>4. taps'[d] - Len(queries'[d]) - Len(answers'[d])
          >= taps[d] - Len(queries[d]) - Len(answers[d])
    BY <1>1, <1>2, <1>3
  <1>5. \A i \in 1 .. Len(answers'[d]) : answers'[d][i].list \subseteq users \cup queued[d]
    BY <1>1 DEF IInv, ListsInv
  <1>. QED
    BY <1>1, <1>2, <1>3, <1>4, <1>5, NobodyMade

LEMMA EndsKeeps ==
  ASSUME IInv, NEW d \in Devices, Ends(d)
  PROVE  IInv'
  <1>1. /\ queries' = [queries EXCEPT ![d] = <<>>]
        /\ answers' = [answers EXCEPT ![d] = <<>>]
        /\ UNCHANGED <<users, queued, known, taps, account>>
    BY DEF Ends
  <1>2. /\ Len(answers[d]) \in Nat /\ Len(queries[d]) \in Nat /\ taps[d] \in Nat
        /\ answers \in [Devices -> Seq(Answers)] /\ known \in [Devices -> SUBSET users]
        /\ queries \in [Devices -> Seq(BOOLEAN)]
        /\ taps \in [Devices -> Nat] /\ account \in [Devices -> BOOLEAN]
    BY DeviceTypes DEF IInv, TypeInv
  <1>3. /\ queries'[d] = <<>> /\ answers'[d] = <<>>
        /\ queries' \in [Devices -> Seq(BOOLEAN)] /\ answers' \in [Devices -> Seq(Answers)]
        /\ \A e \in Devices \ {d} : queries'[e] = queries[e] /\ answers'[e] = answers[e]
    <2>. HIDE DEF Answers
    <2>. QED
      BY <1>1, <1>2
  <1>4. Len(queries'[d]) = 0 /\ Len(answers'[d]) = 0
    BY <1>3
  <1>5. taps'[d] - Len(queries'[d]) - Len(answers'[d])
          >= taps[d] - Len(queries[d]) - Len(answers[d])
    BY <1>1, <1>2, <1>4
  <1>6. \A i \in 1 .. Len(answers'[d]) : answers'[d][i].list \subseteq users \cup queued[d]
    BY <1>4
  <1>. QED
    BY <1>1, <1>2, <1>3, <1>5, <1>6, NobodyMade

-----------------------------------------------------------------------------
(* The completion. *)

(* The answer it is run with lists users that exist. *)
LEMMA AnswerTaken ==
  ASSUME IInv, NEW d \in Devices, answers[d] # <<>>,
         answers' = [answers EXCEPT ![d] = Tail(@)]
  PROVE  /\ Len(answers'[d]) = Len(answers[d]) - 1
         /\ answers' \in [Devices -> Seq(Answers)]
         /\ \A e \in Devices \ {d} : answers'[e] = answers[e]
         /\ Head(answers[d]).list \subseteq users \cup queued[d]
         /\ \A i \in 1 .. Len(answers'[d]) :
              answers'[d][i].list \subseteq users \cup queued[d]
  <1> DEFINE waiting == answers[d]
  <1>1. /\ waiting \in Seq(Answers) /\ answers \in [Devices -> Seq(Answers)]
        /\ \A i \in 1 .. Len(waiting) : waiting[i].list \subseteq users \cup queued[d]
    BY DeviceTypes DEF IInv, TypeInv, ListsInv
  <1>. HIDE DEF waiting, Answers
  <1>2. waiting # <<>> /\ Len(waiting) \in Nat /\ Len(waiting) >= 1
    BY <1>1 DEF waiting
  <1>3. /\ Tail(waiting) \in Seq(Answers) /\ Len(Tail(waiting)) = Len(waiting) - 1
        /\ Head(waiting) = waiting[1]
        /\ \A i \in 1 .. Len(Tail(waiting)) : Tail(waiting)[i] = waiting[i + 1]
    BY <1>1, <1>2
  <1>4. answers' = [answers EXCEPT ![d] = Tail(waiting)]
    BY DEF waiting
  <1>5. /\ answers'[d] = Tail(waiting) /\ answers' \in [Devices -> Seq(Answers)]
        /\ \A e \in Devices \ {d} : answers'[e] = answers[e]
    BY <1>1, <1>3, <1>4
  <1>6. 1 \in 1 .. Len(waiting)
        /\ \A i \in 1 .. Len(Tail(waiting)) : i + 1 \in 1 .. Len(waiting)
    BY <1>2, <1>3
  <1>7. \A i \in 1 .. Len(Tail(waiting)) : Tail(waiting)[i].list \subseteq users \cup queued[d]
    BY <1>1, <1>3, <1>6
  <1>8. Head(waiting).list \subseteq users \cup queued[d]
    BY <1>1, <1>3, <1>6
  <1>. QED
    BY <1>3, <1>5, <1>7, <1>8 DEF waiting

(* An answer that waited is one user. *)
LEMMA CreateKeeps ==
  ASSUME IInv, NEW d \in Devices, answers[d] # <<>>, CreateUser(d)
  PROVE  IInv'
  <1> DEFINE new == <<d, 1 + Cardinality(Own(d))>>
  <1>1. /\ queued' = [queued EXCEPT ![d] = @ \cup {new}]
        /\ account' = [account EXCEPT ![d] = TRUE]
        /\ answers' = [answers EXCEPT ![d] = Tail(@)]
        /\ UNCHANGED <<users, known, taps, queries>>
    BY DEF CreateUser, Own
  <1>2. new \in UserIds /\ new[1] = d
    BY DeviceTypes DEF UserIds
  <1>. HIDE DEF new
  <1>3. /\ Len(answers'[d]) = Len(answers[d]) - 1
        /\ answers' \in [Devices -> Seq(Answers)]
        /\ \A e \in Devices \ {d} : answers'[e] = answers[e]
        /\ \A i \in 1 .. Len(answers'[d]) :
             answers'[d][i].list \subseteq users \cup queued[d]
    BY <1>1, AnswerTaken
  <1>4. /\ queued \in [Devices -> SUBSET UserIds] /\ queued[d] \in SUBSET UserIds
        /\ users \subseteq UserIds /\ account \in [Devices -> BOOLEAN]
        /\ known \in [Devices -> SUBSET users] /\ taps \in [Devices -> Nat]
        /\ queries \in [Devices -> Seq(BOOLEAN)]
    BY DeviceTypes DEF IInv, TypeInv
  <1>. HIDE DEF UserIds, Answers
  <1>5. /\ queued'[d] = queued[d] \cup {new}
        /\ queued' \in [Devices -> SUBSET UserIds]
        /\ \A e \in Devices \ {d} : queued'[e] = queued[e] /\ account'[e] = account[e]
        /\ account' \in [Devices -> BOOLEAN]
    BY <1>1, <1>2, <1>4
  <1>6. TypeInv'
    BY <1>1, <1>3, <1>4, <1>5 DEF TypeInv
  <1>7. TapsInv'
    <2> SUFFICES ASSUME NEW e \in Devices
        PROVE  /\ \A u \in queued'[e] : u[1] = e
               /\ IsFiniteSet(Own(e)')
               /\ Cardinality(Own(e)') + Len(queries'[e]) + Len(answers'[e]) <= taps'[e]
      BY DEF TapsInv
    <2>1. CASE e = d
      <3>1. \A u \in queued'[d] : u[1] = d
        BY <1>2, <1>5 DEF IInv, TapsInv
      <3>2. Own(d)' = Own(d) \cup {new}
        BY <1>1, <1>2, <1>5 DEF Own
      <3>3. /\ IsFiniteSet(Own(d)) /\ Cardinality(Own(d)) \in Nat
            /\ Len(queries[d]) \in Nat /\ Len(answers[d]) \in Nat /\ taps[d] \in Nat
            /\ Cardinality(Own(d)) + Len(queries[d]) + Len(answers[d]) <= taps[d]
        BY DeviceTypes
      <3>4. /\ IsFiniteSet(Own(d) \cup {new})
            /\ \/ Cardinality(Own(d) \cup {new}) = Cardinality(Own(d))
               \/ Cardinality(Own(d) \cup {new}) = Cardinality(Own(d)) + 1
        BY <3>3, FS_AddElement
      <3>5. Cardinality(Own(d)') + Len(queries'[d]) + Len(answers'[d]) <= taps'[d]
        BY <1>1, <1>3, <3>2, <3>3, <3>4
      <3>. QED
        BY <2>1, <3>1, <3>2, <3>4, <3>5
    <2>2. CASE e # d
      <3>1. queued'[e] = queued[e] /\ answers'[e] = answers[e]
        BY <1>3, <1>5, <2>2
      <3>2. Own(e)' = Own(e)
        BY <1>1, <3>1 DEF Own
      <3>. QED
        BY <1>1, <3>1, <3>2 DEF IInv, TapsInv
    <2>. QED
      BY <2>1, <2>2
  <1>8. ListsInv'
    <2> SUFFICES ASSUME NEW e \in Devices, NEW i \in 1 .. Len(answers'[e])
                 PROVE  answers'[e][i].list \subseteq users' \cup queued'[e]
      BY DEF ListsInv
    <2>1. CASE e = d
      BY <1>1, <1>3, <1>5, <2>1
    <2>2. CASE e # d
      BY <1>1, <1>3, <1>5, <2>2 DEF IInv, ListsInv
    <2>. QED
      BY <2>1, <2>2
  <1>9. AccountHasUser'
    <2> SUFFICES ASSUME NEW e \in Devices, account'[e]
                 PROVE  users' \cup queued'[e] # {}
      BY DEF AccountHasUser
    <2>1. CASE e = d
      BY <1>5, <2>1
    <2>2. CASE e # d
      BY <1>1, <1>5, <2>2 DEF IInv, AccountHasUser
    <2>. QED
      BY <2>1, <2>2
  <1>. QED
    BY <1>6, <1>7, <1>8, <1>9 DEF IInv

(* An answer that lists somebody lists a user that exists by now. *)
LEMMA AdoptKeeps ==
  ASSUME IInv, NEW d \in Devices, answers[d] # <<>>, Head(answers[d]).list # {}, AdoptUser(d)
  PROVE  IInv'
  <1>1. /\ account' = [account EXCEPT ![d] = TRUE]
        /\ answers' = [answers EXCEPT ![d] = Tail(@)]
        /\ UNCHANGED <<users, queued, known, taps, queries>>
    BY DEF AdoptUser
  <1>2. /\ Len(answers'[d]) = Len(answers[d]) - 1
        /\ answers' \in [Devices -> Seq(Answers)]
        /\ \A e \in Devices \ {d} : answers'[e] = answers[e]
        /\ Head(answers[d]).list \subseteq users \cup queued[d]
        /\ \A i \in 1 .. Len(answers'[d]) :
             answers'[d][i].list \subseteq users \cup queued[d]
    BY <1>1, AnswerTaken
  <1>3. users \cup queued[d] # {}
    BY <1>2
  <1>4. /\ account \in [Devices -> BOOLEAN] /\ known \in [Devices -> SUBSET users]
        /\ taps \in [Devices -> Nat] /\ queries \in [Devices -> Seq(BOOLEAN)]
        /\ Len(answers[d]) \in Nat /\ Len(queries[d]) \in Nat /\ taps[d] \in Nat
    BY DeviceTypes DEF IInv, TypeInv
  <1>5. /\ account' \in [Devices -> BOOLEAN]
        /\ \A e \in Devices \ {d} : account'[e] = account[e]
    BY <1>1, <1>4
  <1>6. taps'[d] - Len(queries'[d]) - Len(answers'[d])
          >= taps[d] - Len(queries[d]) - Len(answers[d])
    BY <1>1, <1>2, <1>4
  <1>. HIDE DEF Answers
  <1>. QED
    BY <1>1, <1>2, <1>3, <1>4, <1>5, <1>6, NobodyMade

LEMMA CompletionKeeps ==
  ASSUME IInv, NEW d \in Devices, Completion(d)
  PROVE  IInv'
  <1>1. /\ answers[d] # <<>>
        /\ \/ CreateUser(d)
           \/ Head(answers[d]).list # {} /\ AdoptUser(d)
           \/ Ends(d)
    BY DEF Completion
  <1>. QED
    BY <1>1, CreateKeeps, AdoptKeeps, EndsKeeps

-----------------------------------------------------------------------------
(* The server. *)

LEMMA StoreKeeps ==
  ASSUME IInv, NEW d \in Devices, ServerStores(d)
  PROVE  IInv'
  <1>1. PICK u \in queued[d] :
          /\ users' = users \cup {u}
          /\ queued' = [queued EXCEPT ![d] = @ \ {u}]
          /\ known' = [known EXCEPT ![d] = @ \cup {u}]
          /\ UNCHANGED <<taps, queries, answers, account>>
    BY DEF ServerStores
  <1>2. /\ queued \in [Devices -> SUBSET UserIds] /\ queued[d] \in SUBSET UserIds
        /\ users \subseteq UserIds /\ known \in [Devices -> SUBSET users]
        /\ known[d] \subseteq users
    BY DeviceTypes DEF IInv, TypeInv
  <1>3. u[1] = d
    BY DEF IInv, TapsInv
  <1>. HIDE DEF UserIds, Answers
  <1>4. /\ queued'[d] = queued[d] \ {u} /\ queued' \in [Devices -> SUBSET UserIds]
        /\ \A e \in Devices \ {d} : queued'[e] = queued[e]
    BY <1>1, <1>2
  <1>5. known' \in [Devices -> SUBSET users']
    <2>1. known \in [Devices -> SUBSET users']
      BY <1>1, <1>2
    <2>2. known[d] \cup {u} \in SUBSET users'
      BY <1>1, <1>2
    <2>. QED
      BY <1>1, <2>1, <2>2
  <1>6. TypeInv'
    BY <1>1, <1>2, <1>4, <1>5 DEF IInv, TypeInv
  <1>7. \A e \in Devices : users \cup queued[e] \subseteq users' \cup queued'[e]
    BY <1>1, <1>4
  <1>8. ASSUME NEW e \in Devices PROVE Own(e)' = Own(e)
    <2>1. CASE e = d
      <3>1. users' \cup queued'[e] = users \cup queued[e]
        BY <1>1, <1>4, <2>1
      <3>. QED
        BY <3>1 DEF Own
    <2>2. CASE e # d
      <3>1. users' \cup queued'[e] = (users \cup queued[e]) \cup {u}
        BY <1>1, <1>4, <2>2
      <3>. QED
        BY <1>3, <2>2, <3>1 DEF Own
    <2>. QED
      BY <2>1, <2>2
  <1>9. TapsInv'
    <2> SUFFICES ASSUME NEW e \in Devices
        PROVE  /\ \A w \in queued'[e] : w[1] = e
               /\ IsFiniteSet(Own(e)')
               /\ Cardinality(Own(e)') + Len(queries'[e]) + Len(answers'[e]) <= taps'[e]
      BY DEF TapsInv
    <2>1. queued'[e] \subseteq queued[e]
      BY <1>4
    <2>2. \A w \in queued'[e] : w[1] = e
      BY <2>1 DEF IInv, TapsInv
    <2>3. /\ IsFiniteSet(Own(e))
          /\ Cardinality(Own(e)) + Len(queries[e]) + Len(answers[e]) <= taps[e]
      BY DEF IInv, TapsInv
    <2>4. Own(e)' = Own(e)
      BY <1>8
    <2>. QED
      BY <1>1, <2>2, <2>3, <2>4
  <1>10. ListsInv'
    <2> SUFFICES ASSUME NEW e \in Devices, NEW i \in 1 .. Len(answers[e])
                 PROVE  answers[e][i].list \subseteq users' \cup queued'[e]
      BY <1>1 DEF ListsInv
    <2>. QED
      BY <1>7 DEF IInv, ListsInv
  <1>11. AccountHasUser'
    BY <1>1, <1>7 DEF IInv, AccountHasUser
  <1>. QED
    BY <1>6, <1>9, <1>10, <1>11 DEF IInv

-----------------------------------------------------------------------------
LEMMA NextIInv == IInv /\ [Next]_vars => IInv'
  <1> SUFFICES ASSUME IInv, [Next]_vars PROVE IInv'
    OBVIOUS
  <1>1. CASE UNCHANGED vars
    BY <1>1 DEF vars, IInv, TypeInv, TapsInv, ListsInv, AccountHasUser, Own
  <1>2. CASE Next
    <2>1. PICK d \in Devices : Device(d)
      BY <1>2 DEF Next
    <2>2. CASE OpenRegistration(d)
      BY <2>2, OpenKeeps
    <2>3. CASE Leave(d)
      BY <2>3, LeaveKeeps
    <2>4. CASE TapNext(d)
      BY <2>4, TapKeeps
    <2>5. CASE AnswerFromServer(d) \/ AnswerFromCache(d)
      BY <2>5, AnswersKeep
    <2>6. CASE AnswerError(d)
      BY <2>6, ErrorKeeps
    <2>7. CASE Completion(d)
      BY <2>7, CompletionKeeps
    <2>8. CASE Ends(d)
      BY <2>8, EndsKeeps
    <2>9. CASE ServerStores(d)
      BY <2>9, StoreKeeps
    <2>. QED
      BY <2>1, <2>2, <2>3, <2>4, <2>5, <2>6, <2>7, <2>8, <2>9 DEF Device
  <1>. QED
    BY <1>1, <1>2

LEMMA IInvAlways == Spec => []IInv
  BY InitIInv, NextIInv, PTL DEF Spec

-----------------------------------------------------------------------------
(* However the answers are ordered, delayed or out of date, a device makes  *)
(* at most one user for each tap on its button (checkDataNumberPhone).      *)
THEOREM UsersAreByTaps == Spec => []UsersByTaps
  <1>1. IInv => UsersByTaps
    <2> SUFFICES ASSUME IInv, NEW d \in Devices
                 PROVE  IsFiniteSet(Own(d)) /\ Cardinality(Own(d)) <= taps[d]
      BY DEF UsersByTaps
    <2>1. /\ IsFiniteSet(Own(d)) /\ Cardinality(Own(d)) \in Nat
          /\ Len(queries[d]) \in Nat /\ Len(answers[d]) \in Nat /\ taps[d] \in Nat
          /\ Cardinality(Own(d)) + Len(queries[d]) + Len(answers[d]) <= taps[d]
      BY DeviceTypes
    <2>. QED
      BY <2>1
  <1>. QED
    BY <1>1, IInvAlways, PTL

(* OneUserPerNumber, which the code breaks, holds as long as the button was *)
(* tapped once, on one device: every second user is from a second tap.      *)
THEOREM ASecondUserTakesASecondTap == Spec => []OneTapOneUser
  <1>1. IInv => OneTapOneUser
    <2> SUFFICES ASSUME IInv, NEW d \in Devices, taps[d] <= 1,
                        \A e \in Devices \ {d} : taps[e] = 0
                 PROVE  Cardinality(users) <= 1
      BY DEF OneTapOneUser, OneUserPerNumber
    <2>1. \A e \in Devices :
            /\ IsFiniteSet(Own(e)) /\ Cardinality(Own(e)) \in Nat
            /\ Cardinality(Own(e)) <= taps[e]
      <3> SUFFICES ASSUME NEW e \in Devices
                   PROVE  /\ IsFiniteSet(Own(e)) /\ Cardinality(Own(e)) \in Nat
                          /\ Cardinality(Own(e)) <= taps[e]
        OBVIOUS
      <3>1. /\ IsFiniteSet(Own(e)) /\ Cardinality(Own(e)) \in Nat
            /\ Len(queries[e]) \in Nat /\ Len(answers[e]) \in Nat /\ taps[e] \in Nat
            /\ Cardinality(Own(e)) + Len(queries[e]) + Len(answers[e]) <= taps[e]
        BY DeviceTypes
      <3>. QED
        BY <3>1
    <2>2. \A e \in Devices \ {d} : Own(e) = {}
      <3> SUFFICES ASSUME NEW e \in Devices \ {d} PROVE Own(e) = {}
        OBVIOUS
      <3>1. IsFiniteSet(Own(e)) /\ Cardinality(Own(e)) = 0
        BY <2>1
      <3>. QED
        BY <3>1, FS_EmptySet
    <2>3. ASSUME NEW u \in users PROVE u \in Own(d)
      <3>1. u[1] \in Devices /\ u \in Own(u[1])
        BY DEF IInv, TypeInv, UserIds, Own
      <3>. QED
        BY <2>2, <3>1
    <2>4. users \subseteq Own(d)
      BY <2>3
    <2>5. IsFiniteSet(users) /\ Cardinality(users) \in Nat
          /\ Cardinality(users) <= Cardinality(Own(d))
      BY <2>1, <2>4, FS_Subset, FS_CardinalityType
    <2>6. taps[d] \in Nat /\ Cardinality(Own(d)) <= taps[d]
      BY <2>1, DeviceTypes
    <2>. QED
      BY <2>1, <2>5, <2>6
  <1>. QED
    BY <1>1, IInvAlways, PTL

(* The account in Realm always has a user, stored or queued, however out of *)
(* date the answer was that made it: RegistrationVC never leaves a Person   *)
(* for a user that nobody has made.                                         *)
THEOREM AccountsHaveUsers == Spec => []AccountHasUser
  <1>1. IInv => AccountHasUser
    BY DEF IInv
  <1>. QED
    BY <1>1, IInvAlways, PTL
=============================================================================
