--------------------------- MODULE WriteDelivery ---------------------------
(***************************************************************************)
(* What the write half of the Firestore client promises, without streams,  *)
(* batches or backoff: writes are delivered in the order in which they     *)
(* were issued; a write leaves the device only when the server has applied *)
(* it and said so, or has refused a write; after a break the writes not    *)
(* acknowledged yet are delivered again from the first of them, so that    *)
(* one may be applied several times, but never after its acknowledgement.  *)
(* A refusal takes the first write that waits, which need not be the one   *)
(* refused: acknowledgements on their way are lost with the connection.    *)
(* Other devices write between them.                                       *)
(***************************************************************************)
EXTENDS Naturals, Sequences

CONSTANTS
  Writes,  \* the writes of this device
  Other    \* a write of another device

VARIABLES
  pending,  \* writes the device holds, in the order issued
  taken,    \* how many of them this connection has applied, unacknowledged
  halted,   \* whether the next one has been refused on this connection
  applied   \* what the server has applied, in order

deliveryVars == <<pending, taken, halted, applied>>

Init ==
  /\ pending = <<>>
  /\ taken = 0
  /\ halted = FALSE
  /\ applied = <<>>

(* A write is issued once. *)
Issue(w) ==
  /\ \A i \in 1 .. Len(pending) : pending[i] # w
  /\ \A i \in 1 .. Len(applied) : applied[i] # w
  /\ pending' = Append(pending, w)
  /\ UNCHANGED <<taken, halted, applied>>

Apply ==
  /\ ~halted
  /\ taken < Len(pending)
  /\ applied' = Append(applied, pending[taken + 1])
  /\ taken' = taken + 1
  /\ UNCHANGED <<pending, halted>>

Refuse ==
  /\ ~halted
  /\ taken < Len(pending)
  /\ halted' = TRUE
  /\ UNCHANGED <<pending, taken, applied>>

Acknowledge ==
  /\ taken > 0
  /\ pending' = Tail(pending)
  /\ taken' = taken - 1
  /\ UNCHANGED <<halted, applied>>

Reject ==
  /\ halted
  /\ pending' = Tail(pending)
  /\ taken' = 0
  /\ halted' = FALSE
  /\ UNCHANGED applied

Break ==
  /\ taken' = 0
  /\ halted' = FALSE
  /\ UNCHANGED <<pending, applied>>

OtherApplies ==
  /\ applied' = Append(applied, Other)
  /\ UNCHANGED <<pending, taken, halted>>

Next ==
  \/ \E w \in Writes : Issue(w)
  \/ Apply \/ Refuse
  \/ Acknowledge \/ Reject
  \/ Break
  \/ OtherApplies

Spec == Init /\ [][Next]_deliveryVars
=============================================================================
