------------------------------ MODULE OrderMoney ------------------------------
(***************************************************************************)
(* The money of one order: its amounts, edited by the order desk           *)
(* (api/v1/orders.py), and whether it is finished, paid and rebated, which *)
(* the order desk and the finance desk (api/v1/finance.py) decide.         *)
(*                                                                         *)
(* Nothing is locked before the writes: a request decides on the snapshot  *)
(* its first query opened, and the ORM sends the columns that differ from  *)
(* what it loaded.                                                         *)
(***************************************************************************)
EXTENDS Integers

CONSTANTS
  Desks,     \* the places of requests in flight; each serves any number of them
  Amounts,
  MaxWrites  \* bound on the requests

Parts == {"commercial_amount", "vehicle_tax_amount"}
Info == [Parts \cup {"premium_total"} -> Nat]
Order == [finished : BOOLEAN, paid : BOOLEAN, rebate : BOOLEAN]

VARIABLES
  order,   \* is_finished, is_paid and is_rebate of the order
  info,    \* its amounts and their total
  pc,
  saw,     \* the snapshot of each request
  writes,  \* the number of requests so far
  excused, \* history: the order was reopened as paid, or paid and returned at once
  mixed    \* history: the amounts come from edits that overlapped

vars == <<order, info, pc, saw, writes, excused, mixed>>

Fresh == [order |-> [finished |-> FALSE, paid |-> FALSE, rebate |-> FALSE],
          info |-> [c \in Parts \cup {"premium_total"} |-> 0]]

\* create_order_draft.
Init ==
  /\ order = Fresh.order /\ info = Fresh.info
  /\ pc = [d \in Desks |-> "idle"]
  /\ saw = [d \in Desks |-> Fresh]
  /\ writes = 0
  /\ excused = FALSE /\ mixed = FALSE

-----------------------------------------------------------------------------
\* What the UPDATE of a row leaves: the columns that differ from what was loaded are sent.
\* An amount loaded as a Decimal may differ from the same amount computed as a float, so
\* columns in `resent` are sent though nobody changed them.
Updated(row, loaded, new, resent) ==
  [c \in DOMAIN row |-> IF new[c] # loaded[c] \/ c \in resent THEN new[c] ELSE row[c]]

\* The sum of the amounts; the code has two more of them.
Total(amounts) == amounts["commercial_amount"] + amounts["vehicle_tax_amount"]

\* Mutant: the total is computed before the patch is applied.
Derived_Early(loaded, patch) ==
  [c \in DOMAIN loaded |->
     IF c = "premium_total" THEN Total(loaded)
     ELSE IF c \in DOMAIN patch THEN patch[c] ELSE loaded[c]]

\* _apply_order_info_patch and _recalc_order_info_derived
Derived(loaded, patch) ==
  LET amounts == [p \in Parts |-> IF p \in DOMAIN patch THEN patch[p] ELSE loaded[p]] IN
  [c \in DOMAIN loaded |-> IF c = "premium_total" THEN Total(amounts) ELSE amounts[c]]

Odd(o) == ~o.finished /\ (o.paid \/ o.rebate)

Leave(d) ==
  /\ pc' = [pc EXCEPT ![d] = "idle"]
  /\ saw' = [saw EXCEPT ![d] = Fresh]

Begin(d) ==
  /\ pc[d] = "idle" /\ writes < MaxWrites
  /\ pc' = [pc EXCEPT ![d] = "writing"]
  /\ saw' = [saw EXCEPT ![d] = [order |-> order, info |-> info]]
  /\ writes' = writes + 1
  /\ UNCHANGED <<order, info, excused, mixed>>

\* update_order_detail refuses finished orders to sales; finalize, which takes the same
\* patch, does not.
Edit(d) ==
  /\ pc[d] = "writing"
  /\ \E P \in (SUBSET Parts) \ {{}}, resent \in SUBSET DOMAIN info : \E patch \in [P -> Amounts] :
       info' = Updated(info, saw[d].info, Derived(saw[d].info, patch), resent)
  /\ mixed' = (saw[d].info # info)
  /\ Leave(d)
  /\ UNCHANGED <<order, writes, excused>>

WriteOrder(d, new, reopened) ==
  /\ order' = Updated(order, saw[d].order, new, {})
  /\ excused' = (reopened \/ saw[d].order # order \/ (excused /\ Odd(order)))
  /\ Leave(d)
  /\ UNCHANGED <<info, writes, mixed>>

\* update_order_status: a manager may reopen an order, which leaves it paid.
SetFinished(d) ==
  /\ pc[d] = "writing"
  /\ \E finished \in BOOLEAN, role \in {"sales", "manager"} :
       /\ saw[d].order.finished /\ ~finished => role = "manager"
       /\ WriteOrder(d, [saw[d].order EXCEPT !.finished = finished], ~finished)

\* _ensure_finance_order_access
FinanceMayWrite(d) == pc[d] = "writing" /\ saw[d].order.finished

\* update_finance_order_status
Settle(d) ==
  /\ FinanceMayWrite(d)
  /\ \E paid, rebate \in BOOLEAN :
       WriteOrder(d, [saw[d].order EXCEPT !.paid = paid, !.rebate = rebate], FALSE)

\* Mutant: a returned order stays rebated.
Returned_Rebated(o) == [o EXCEPT !.finished = FALSE, !.paid = FALSE]

Returned(o) == [o EXCEPT !.finished = FALSE, !.paid = FALSE, !.rebate = FALSE]

\* return_finance_order_to_unfinished
Return(d) == FinanceMayWrite(d) /\ WriteOrder(d, Returned(saw[d].order), FALSE)

\* The request is refused, a lock wait times out, the connection is lost.
Abort(d) == pc[d] = "writing" /\ Leave(d) /\ UNCHANGED <<order, info, writes, excused, mixed>>

Next ==
  \E d \in Desks : Begin(d) \/ Edit(d) \/ SetFinished(d) \/ Settle(d) \/ Return(d) \/ Abort(d)

Spec == Init /\ [][Next]_vars

-----------------------------------------------------------------------------
TypeOK ==
  /\ order \in Order /\ info \in Info
  /\ pc \in [Desks -> {"idle", "writing"}]
  /\ \A d \in Desks : saw[d].order \in Order /\ saw[d].info \in Info
  /\ writes \in 0 .. MaxWrites
  /\ excused \in BOOLEAN /\ mixed \in BOOLEAN

\* An order that is not finished is neither paid nor rebated, unless a manager reopened it
\* so, or one of two requests that overlapped decided on what the other was changing.
PaidMeansFinished == Odd(order) => excused

\* The total is the sum of the amounts, unless edits overlapped and no later one repaired it.
TotalsAddUp == info["premium_total"] = Total(info) \/ mixed

(* The two desks that work on one order, each on its snapshot, leave its status and its *)
(* amounts fit together: PaidMeansFinished and TotalsAddUp.                             *)
MoneyFitsTogether == PaidMeansFinished /\ TotalsAddUp
===============================================================================
