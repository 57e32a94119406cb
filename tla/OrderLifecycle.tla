--------------------------- MODULE OrderLifecycle ---------------------------
(***************************************************************************)
(* The lifecycle of integer-share orders (domain/models.py, class Order).  *)
(*                                                                         *)
(* An order is created with a positive quantity and is then changed only   *)
(* by its own methods: record_fill, expire, cancel, and by the direct      *)
(* assignment of OrderStatus.REJECTED that the engine and the broker make  *)
(* when an attempt fails before the first fill.  record_attempt writes     *)
(* audit fields this module does not keep, so it is a stuttering step.     *)
(*                                                                         *)
(* The module is the abstract specification that BacktestEngine            *)
(* implements: it knows nothing of prices, sessions or cash.               *)
(***************************************************************************)
EXTENDS Integers

CONSTANTS
  OrderIds,     \* identities an order may get
  Quantities    \* quantities an order may be created with

ASSUME QuantitiesAssumption == Quantities \subseteq Nat \ {0}

VARIABLE
  book          \* the orders created so far: [id -> order]

Statuses == {"pending", "partially_filled", "filled", "rejected",
             "cancelled", "expired"}

TerminalStatuses == {"filled", "rejected", "cancelled", "expired"}

OrderState == [quantity : Quantities, filled : Nat, status : Statuses]

Remaining(o) == o.quantity - o.filled

IsOpen(o) == o.status \notin TerminalStatuses /\ Remaining(o) > 0

(* The orders Order.__init__ makes, or that are rejected on creation       *)
(* because their ticker is outside the active universe.                    *)
NewOrder == [quantity : Quantities, filled : {0}, status : {"pending", "rejected"}]

(* Order.record_fill with a sale booked as negative: a mutant of Filled.   *)
FilledBackwards(o, q) ==
  [o EXCEPT !.filled = @ - q,
            !.status = IF q = Remaining(o) THEN "filled" ELSE "partially_filled"]

(* Order.record_fill: q more shares, and the status that follows.          *)
Filled(o, q) ==
  [o EXCEPT !.filled = @ + q,
            !.status = IF q = Remaining(o) THEN "filled" ELSE "partially_filled"]

(* Order.expire without its guard: the mutant of Expired.                  *)
ExpiredUnguarded(o) == [o EXCEPT !.status = "expired"]

(* Order.expire leaves an order that is no longer open alone.              *)
Expired(o) == IF IsOpen(o) THEN [o EXCEPT !.status = "expired"] ELSE o

-----------------------------------------------------------------------------
Init == book = << >>

(* A batch of orders joins the book; earlier orders are kept as they are.  *)
Submit ==
  \E ids \in SUBSET (OrderIds \ DOMAIN book) :
    \E new \in [ids -> NewOrder] :
      book' = [k \in DOMAIN book \union ids |->
                 IF k \in ids THEN new[k] ELSE book[k]]

RecordFill(k) ==
  /\ IsOpen(book[k])
  /\ \E q \in 1..Remaining(book[k]) : book' = [book EXCEPT ![k] = Filled(@, q)]

(* A DAY order's single attempt fills a part and expires the remainder     *)
(* before anyone else sees the order.                                      *)
RecordFillAndExpire(k) ==
  /\ IsOpen(book[k])
  /\ \E q \in 1..Remaining(book[k]) :
       book' = [book EXCEPT ![k] = Expired(Filled(@, q))]

Expire(k) == book' = [book EXCEPT ![k] = Expired(@)]

Cancel(k) ==
  /\ IsOpen(book[k])
  /\ book' = [book EXCEPT ![k].status = "cancelled"]

(* Only an order nothing of which was filled is ever rejected.             *)
Reject(k) ==
  /\ IsOpen(book[k]) /\ book[k].filled = 0
  /\ book' = [book EXCEPT ![k].status = "rejected"]

Next ==
  \/ Submit
  \/ \E k \in DOMAIN book :
       \/ RecordFill(k)
       \/ RecordFillAndExpire(k)
       \/ Expire(k)
       \/ Cancel(k)
       \/ Reject(k)

Spec == Init /\ [][Next]_book
-----------------------------------------------------------------------------
(* Every order ever created carries a quantity, a fill count and one of    *)
(* the six statuses of OrderStatus.                                        *)
TypeOK == DOMAIN book \subseteq OrderIds /\ book \in [DOMAIN book -> OrderState]

(* What a status says about the fill count.  A filled order is complete    *)
(* and a complete order is filled; a rejected one never traded; a          *)
(* partially filled one has traded some but not all.  orders.csv and the   *)
(* paper-state store read the status alone and rely on it.                 *)
StatusMatchesFills ==
  \A k \in DOMAIN book :
    LET o == book[k] IN
      /\ o.filled <= o.quantity
      /\ o.status = "filled" <=> o.filled = o.quantity
      /\ o.status \in {"pending", "rejected"} => o.filled = 0
      /\ o.status = "partially_filled" => o.filled > 0

(* A terminal order is history: no later attempt, expiry or rejection may  *)
(* change its status or its fills, and fills are never taken back.         *)
KeepsHistory ==
  \A k \in DOMAIN book :
    /\ k \in DOMAIN book'
    /\ book'[k].filled >= book[k].filled
    /\ book[k].status \in TerminalStatuses => book'[k] = book[k]

TerminalIsFinal == [][KeepsHistory]_book
=============================================================================
