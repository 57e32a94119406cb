------------------------ MODULE OrderLifecycle_proofs ------------------------
(***************************************************************************)
(* Proofs about OrderLifecycle, for every set of ids and of quantities.    *)
(* StatusMatchesFills is inductive once the types are known: each method   *)
(* of Order changes one order, whose status follows from its fill count.   *)
(***************************************************************************)
EXTENDS OrderLifecycle, TLAPS

(* What the invariants say of one order, and of a whole book.              *)
Consistent(o) ==
  /\ o \in OrderState
  /\ o.filled <= o.quantity
  /\ o.status = "filled" <=> o.filled = o.quantity
  /\ o.status \in {"pending", "rejected"} => o.filled = 0
  /\ o.status = "partially_filled" => o.filled > 0

ConsistentBook(b) ==
  /\ DOMAIN b \subseteq OrderIds
  /\ b = [k \in DOMAIN b |-> b[k]]
  /\ \A k \in DOMAIN b : Consistent(b[k])

IInv == ConsistentBook(book)

(* The inductive invariant is the conjunction of the two checked ones.     *)
LEMMA InvariantsAreIInv == IInv => TypeOK /\ StatusMatchesFills
  BY DEF IInv, ConsistentBook, Consistent, TypeOK, StatusMatchesFills

(* Order.record_fill keeps an order consistent, adds to its fills and      *)
(* leaves its quantity alone.                                              *)
LEMMA FilledConsistent ==
  ASSUME NEW o, Consistent(o), IsOpen(o), NEW q \in 1..Remaining(o)
  PROVE  /\ Consistent(Filled(o, q))
         /\ Filled(o, q).filled >= o.filled
<1> DEFINE n == Filled(o, q)
<1>1. o \in OrderState /\ o.quantity \in Nat \ {0} /\ o.filled \in Nat
  BY QuantitiesAssumption DEF QuantitiesAssumption, Consistent, OrderState
<1>2. q \in Nat \ {0} /\ o.filled + q <= o.quantity
  BY <1>1 DEF Remaining
<1>3. /\ n.quantity = o.quantity /\ n.filled = o.filled + q
      /\ n.status = IF q = Remaining(o) THEN "filled" ELSE "partially_filled"
  BY <1>1 DEF Filled, OrderState
<1>4. n \in OrderState
  <2>1. \A f \in Nat, s \in Statuses : [o EXCEPT !.filled = f, !.status = s] \in OrderState
    BY <1>1 DEF OrderState
  <2>2. o.filled + q \in Nat /\ "filled" \in Statuses /\ "partially_filled" \in Statuses
    BY <1>1, <1>2 DEF Statuses
  <2> QED BY <2>1, <2>2 DEF Filled
<1>5. q = Remaining(o) <=> n.filled = n.quantity
  BY <1>1, <1>2, <1>3 DEF Remaining
<1> HIDE DEF n
<1>6. Consistent(n)
  BY <1>1, <1>2, <1>3, <1>4, <1>5 DEF Consistent
<1>7. n.filled >= o.filled
  BY <1>1, <1>2, <1>3
<1> QED BY <1>6, <1>7 DEF n

(* Order.expire keeps an order consistent and its fills as they are.       *)
LEMMA ExpiredConsistent ==
  ASSUME NEW o, Consistent(o)
  PROVE  /\ Consistent(Expired(o))
         /\ Expired(o).filled = o.filled
         /\ o.status \in TerminalStatuses => Expired(o) = o
  BY QuantitiesAssumption
     DEF QuantitiesAssumption, Consistent, IsOpen, Remaining, Expired, OrderState, Statuses, TerminalStatuses

(* An open order is not terminal, and cancelling or rejecting it is        *)
(* consistent if nothing it traded contradicts the new status.             *)
LEMMA ClosedConsistent ==
  ASSUME NEW o, Consistent(o), IsOpen(o),
         NEW s \in {"cancelled", "rejected"}, s = "rejected" => o.filled = 0
  PROVE  Consistent([o EXCEPT !.status = s])
  BY QuantitiesAssumption
     DEF QuantitiesAssumption, Consistent, IsOpen, Remaining, OrderState, Statuses, TerminalStatuses

(* One order changes to a consistent order that has no fewer fills and is  *)
(* the same if it was terminal: every method of Order does this much.      *)
LEMMA OneOrderChanges ==
  ASSUME IInv, NEW k \in DOMAIN book, NEW n, Consistent(n),
         n.filled >= book[k].filled,
         book[k].status \in TerminalStatuses => n = book[k],
         book' = [book EXCEPT ![k] = n]
  PROVE  IInv' /\ KeepsHistory
<1>1. \A j \in DOMAIN book : book[j].filled \in Nat
  BY DEF IInv, ConsistentBook, Consistent, OrderState
<1>2. DOMAIN book' = DOMAIN book /\ \A j \in DOMAIN book : book'[j] = IF j = k THEN n ELSE book[j]
  BY DEF IInv, ConsistentBook
<1>3. IInv'
  BY <1>2 DEF IInv, ConsistentBook
<1>4. KeepsHistory
  BY <1>1, <1>2 DEF KeepsHistory
<1> QED BY <1>3, <1>4

(* A new batch leaves the orders of the book as they are.                  *)
LEMMA BatchJoins ==
  ASSUME IInv, Submit
  PROVE  IInv' /\ KeepsHistory
<1>a. PICK ids \in SUBSET (OrderIds \ DOMAIN book) :
        \E new \in [ids -> NewOrder] :
          book' = [k \in DOMAIN book \union ids |-> IF k \in ids THEN new[k] ELSE book[k]]
  BY DEF Submit
<1>1. PICK new \in [ids -> NewOrder] :
        book' = [k \in DOMAIN book \union ids |-> IF k \in ids THEN new[k] ELSE book[k]]
  BY <1>a
<1>2. ASSUME NEW o \in NewOrder PROVE Consistent(o)
  <2>1. o.quantity \in Nat \ {0} /\ o.filled = 0 /\ o.status \in {"pending", "rejected"}
    BY QuantitiesAssumption DEF QuantitiesAssumption, NewOrder
  <2>2. o \in OrderState
    BY DEF NewOrder, OrderState, Statuses
  <2> QED BY <2>1, <2>2 DEF Consistent
<1>3. \A j \in DOMAIN book : book[j].filled \in Nat
  BY DEF IInv, ConsistentBook, Consistent, OrderState
<1>4. /\ DOMAIN book' = DOMAIN book \union ids
      /\ \A k \in ids : book'[k] = new[k]
      /\ \A k \in DOMAIN book : book'[k] = book[k]
  BY <1>1
<1>5. IInv'
  BY <1>1, <1>2, <1>4 DEF IInv, ConsistentBook
<1>6. KeepsHistory
  BY <1>3, <1>4 DEF KeepsHistory
<1> QED BY <1>5, <1>6

(* Each disjunct of Next changes one order by one method, or adds a batch. *)
LEMMA StepKeepsIInv ==
  ASSUME IInv, Next
  PROVE  IInv' /\ KeepsHistory
<1>1. CASE Submit
  BY <1>1, BatchJoins
<1>2. ASSUME NEW k \in DOMAIN book,
             \/ RecordFill(k) \/ RecordFillAndExpire(k) \/ Expire(k) \/ Cancel(k) \/ Reject(k)
      PROVE  IInv' /\ KeepsHistory
  <2> DEFINE o == book[k]
  <2>1. Consistent(o) /\ o.filled \in Nat /\ (IsOpen(o) => o.status \notin TerminalStatuses)
    BY DEF IInv, ConsistentBook, Consistent, OrderState, IsOpen
  <2>2. CASE RecordFill(k)
    <3>1. PICK q \in 1..Remaining(o) : book' = [book EXCEPT ![k] = Filled(o, q)]
      BY <2>2 DEF RecordFill
    <3>2. Consistent(Filled(o, q)) /\ Filled(o, q).filled >= o.filled
      BY <2>1, <2>2, FilledConsistent DEF RecordFill
    <3> QED BY <2>1, <2>2, <3>1, <3>2, OneOrderChanges DEF RecordFill
  <2>3. CASE RecordFillAndExpire(k)
    <3>1. PICK q \in 1..Remaining(o) : book' = [book EXCEPT ![k] = Expired(Filled(o, q))]
      BY <2>3 DEF RecordFillAndExpire
    <3>2. Consistent(Filled(o, q)) /\ Filled(o, q).filled >= o.filled
      BY <2>1, <2>3, FilledConsistent DEF RecordFillAndExpire
    <3>3. Consistent(Expired(Filled(o, q))) /\ Expired(Filled(o, q)).filled >= o.filled
      BY <3>2, ExpiredConsistent
    <3> QED BY <2>1, <2>3, <3>1, <3>3, OneOrderChanges DEF RecordFillAndExpire
  <2>4. CASE Expire(k)
    <3>1. book' = [book EXCEPT ![k] = Expired(o)]
      BY <2>4 DEF Expire
    <3>2. /\ Consistent(Expired(o)) /\ Expired(o).filled = o.filled
          /\ o.status \in TerminalStatuses => Expired(o) = o
      BY <2>1, ExpiredConsistent
    <3>3. Expired(o).filled >= o.filled
      BY <2>1, <3>2
    <3> QED BY <2>1, <3>1, <3>2, <3>3, OneOrderChanges
  <2>5. ASSUME NEW s \in {"cancelled", "rejected"}, s = "rejected" => o.filled = 0,
               IsOpen(o), book' = [book EXCEPT ![k].status = s]
        PROVE  IInv' /\ KeepsHistory
    <3> DEFINE n == [o EXCEPT !.status = s]
    <3>1. book' = [book EXCEPT ![k] = n]
      BY <2>5
    <3>2. Consistent(n)
      BY <2>1, <2>5, ClosedConsistent
    <3>3. n.filled >= o.filled
      BY <2>1 DEF Consistent, OrderState
    <3> HIDE DEF n
    <3> QED BY <2>1, <2>5, <3>1, <3>2, <3>3, OneOrderChanges
  <2> QED BY <1>2, <2>2, <2>3, <2>4, <2>5 DEF Cancel, Reject
<1> QED BY <1>1, <1>2 DEF Next

(* The initial book is empty.                                              *)
LEMMA InitIInv == Init => IInv
  BY DEF Init, IInv, ConsistentBook

(* The inductive invariant holds of every reachable book.                  *)
LEMMA IInvHolds == Spec => []IInv
<1>1. IInv /\ [Next]_book => IInv'
  BY StepKeepsIInv DEF IInv
<1> QED BY <1>1, InitIInv, PTL DEF Spec

(* Orders of every reachable book are well typed (domain/models.py).       *)
THEOREM TypesCorrect == Spec => []TypeOK
  BY IInvHolds, InvariantsAreIInv, PTL

(* The status of an order always agrees with its fills.                    *)
THEOREM StatusesCorrect == Spec => []StatusMatchesFills
  BY IInvHolds, InvariantsAreIInv, PTL

(* Terminal orders never change and fills are never taken back.            *)
THEOREM HistoryKept == Spec => TerminalIsFinal
<1>1. IInv /\ [Next]_book => [KeepsHistory]_book
  BY StepKeepsIInv
<1> QED BY <1>1, IInvHolds, PTL DEF Spec, TerminalIsFinal
=============================================================================
