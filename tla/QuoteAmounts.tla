----------------------------- MODULE QuoteAmounts -----------------------------
(***************************************************************************)
(* The amounts of a conversation's quotes: built from the response of PICC *)
(* (picc/business.py), proved before they are kept or shown                *)
(* (quote_result_validation.py), and redrawn with another premium for the  *)
(* joint sale ("非车 398", quote_assistant_service.py) without asking the   *)
(* platform for a new quote.                                               *)
(*                                                                         *)
(* Every amount is kept several times: with its provenance (`amounts`), on *)
(* the card the image is drawn from, in the price items and as the total   *)
(* to pay.  A dictionary is a function on the names it has.                *)
(***************************************************************************)
EXTENDS Integers, Sequences

CONSTANTS
  Premiums,  \* the premiums a user may ask for the joint sale; 0 is none
  Offered,   \* those of them, never 0, the platform has a plan for
  Bills,     \* what the platform may charge
  Reports,   \* the sets of amounts its response may name
  MaxTasks   \* bound on the quotes and redraws of a conversation

VARIABLES
  bill,   \* what the platform charges in this conversation
  tasks   \* the quote tasks of the conversation, oldest first

vars == <<bill, tasks>>

Car == {"commercial", "compulsory", "tax"}
Totals == {"before", "after"}  \* the totals before and after vehicle tax
Names == Car \cup Totals \cup {"joint"}

Nothing == [n \in {} |-> 0]
Amount(amounts, n) == IF n \in DOMAIN amounts THEN amounts[n] ELSE 0
Only(amounts, names) == [n \in DOMAIN amounts \cap names |-> amounts[n]]

\* A dictionary with another premium for the joint sale, and without it for 0.
WithJoint(amounts, premium) ==
  [n \in (DOMAIN amounts \ {"joint"}) \cup (IF premium > 0 THEN {"joint"} ELSE {}) |->
     IF n = "joint" THEN premium ELSE amounts[n]]

\* `payable` is premium_total, `source` joint_sales_source, `planned` whether the result
\* names the plan.
NoResult ==
  [amounts |-> Nothing, card |-> Nothing, items |-> Nothing, payable |-> Nothing,
   source |-> "none", planned |-> FALSE]

Ids == DOMAIN tasks
Redraws == {i \in Ids : tasks[i].kind = "redraw"}
Successes == {i \in Ids : tasks[i].status = "success"}

Init ==
  /\ bill \in Bills
  /\ tasks = <<>>

-----------------------------------------------------------------------------
\* The premium of the plan found, 0 for none: 0 asks for none, and the lookup may fail.
Found(premium) == {0} \cup ({premium} \cap Offered)

\* A plan counts where the platform quotes no joint sale of its own.
Planned(plan) == IF bill.joint > 0 THEN 0 ELSE plan

\* _build_motor_quote_result_from_response: a total the response lacks is added up, and
\* stays unknown without one of its parts.
Built(report, plan) ==
  LET joint == bill.joint + Planned(plan)
      car == bill.commercial + bill.compulsory
      before == "sum" \in report \/ {"commercial", "compulsory"} \subseteq report
      known == [commercial |-> bill.commercial, compulsory |-> bill.compulsory, tax |-> bill.tax,
                joint |-> joint, before |-> car + joint,
                after |-> car + bill.tax + IF "total" \in report THEN bill.joint ELSE joint]
      amounts == Only(known, (report \cap Car)
                   \cup (IF joint > 0 THEN {"joint"} ELSE {})
                   \cup (IF before THEN {"before"} ELSE {})
                   \cup (IF "total" \in report \/ (before /\ "tax" \in report) THEN {"after"} ELSE {})) IN
  [amounts |-> amounts, card |-> amounts, items |-> Only(amounts, Car \cup {"joint"}),
   payable |-> Only(amounts, {"after"}),
   source |-> IF bill.joint > 0 THEN "platform" ELSE IF plan > 0 THEN "plan" ELSE "none",
   planned |-> plan > 0]

\* What a dictionary shows has its provenance.
Proved(shown, amounts) ==
  \A n \in DOMAIN shown : n \in DOMAIN amounts /\ shown[n] = amounts[n]

JointHasSource(result) ==
  Amount(result.card, "joint") > 0 \/ Amount(result.items, "joint") > 0 =>
    result.source = "platform" \/ (result.source = "plan" /\ result.planned)

HasCore(result) ==
  \E n \in {"commercial", "compulsory"} : Amount(result.card, n) > 0 \/ Amount(result.items, n) > 0

\* quote_result_real_data_error finds nothing.
Real(result) ==
  /\ DOMAIN result.amounts # {} /\ DOMAIN result.card # {}
  /\ JointHasSource(result)
  /\ Proved(result.card, result.amounts) /\ Proved(result.items, result.amounts)
  /\ Proved(result.payable, result.amounts)
  /\ HasCore(result)

\* _stored_quote_task_has_real_result: a redraw is as good as what it was made from.
StoredReal ==
  UNION {S \in SUBSET Successes : \A i \in S :
           /\ Real(tasks[i].result)
           /\ tasks[i].kind = "redraw" => tasks[i].source < i /\ tasks[i].source \in S}

-----------------------------------------------------------------------------
\* Mutant: the premium already counted is forgotten.
Delta_WithoutOld(result, premium) == premium

Delta(result, premium) == premium - Amount(result.amounts, "joint")

Moved(amounts, delta) ==
  [n \in DOMAIN amounts |-> IF n \in Totals THEN amounts[n] + delta ELSE amounts[n]]

\* _apply_joint_sales_image_adjustment, and the display's copies made to agree with it.
Redrawn(result, premium) ==
  LET delta == Delta(result, premium)
      amounts == WithJoint(Moved(result.amounts, delta), premium) IN
  [result EXCEPT !.amounts = amounts, !.card = amounts, !.items = WithJoint(@, premium),
                 !.payable = Moved(@, delta)]

\* Tasks cancelled by a newer one of the case.
Cancelled ==
  [i \in Ids |-> IF tasks[i].status = "running" THEN [tasks[i] EXCEPT !.status = "cancelled"] ELSE tasks[i]]

Begin(kind, source, premium) ==
  /\ Len(tasks) < MaxTasks
  /\ tasks' = Append(Cancelled,
       [kind |-> kind, source |-> source, premium |-> premium, status |-> "running", open |-> TRUE,
        why |-> "none", gap |-> 0, result |-> NoResult])
  /\ UNCHANGED bill

\* A quote with the joint sale its case asks for.
BeginQuote == \E premium \in Premiums : Begin("quote", 0, premium)

\* The latest success that stands; its row is not locked.
BeginRedraw ==
  /\ StoredReal # {}
  /\ \E premium \in Premiums :
       Begin("redraw", CHOOSE i \in StoredReal : \A j \in StoredReal : j <= i, premium)

End(i, status, why, gap, result) ==
  /\ tasks' = [tasks EXCEPT ![i].status = status, ![i].open = FALSE, ![i].why = why,
                            ![i].gap = gap, ![i].result = result]
  /\ UNCHANGED bill

\* A result is kept only when it can be proved.
Kept(i, result, gap) ==
  IF Real(result) THEN End(i, "success", "none", gap, result)
  ELSE End(i, "failed", "result", 0, NoResult)

\* A cancellation may be seen, or hidden by the snapshot opened before the platform call.
SeesCancelled(i) ==
  /\ tasks[i].open /\ tasks[i].status = "cancelled"
  /\ tasks' = [tasks EXCEPT ![i].open = FALSE]
  /\ UNCHANGED bill

\* `gap` is history: the plan's premium that the platform's own total leaves out.
FinishQuote(i) ==
  /\ tasks[i].open /\ tasks[i].kind = "quote"
  /\ \/ \E report \in Reports, plan \in Found(tasks[i].premium) :
          Kept(i, Built(report, plan), IF "total" \in report THEN Planned(plan) ELSE 0)
     \/ End(i, "failed", "platform", 0, NoResult)

\* _handle_joint_sales_image_adjustment_message after its commit: no lookup for 0.
FinishRedraw(i) ==
  LET source == tasks[tasks[i].source] IN
  /\ tasks[i].open /\ tasks[i].kind = "redraw"
  /\ \/ /\ tasks[i].premium > 0
        /\ End(i, "failed", "lookup", 0, NoResult)
     \/ /\ tasks[i].premium = 0 \/ tasks[i].premium \in Offered
        /\ Kept(i, Redrawn(source.result, tasks[i].premium), source.gap)

\* A lost worker leaves the task running.
Lost(i) ==
  /\ tasks[i].open
  /\ tasks' = [tasks EXCEPT ![i].open = FALSE]
  /\ UNCHANGED bill

Next ==
  \/ BeginQuote \/ BeginRedraw
  \/ \E i \in Ids : FinishQuote(i) \/ FinishRedraw(i) \/ SeesCancelled(i) \/ Lost(i)

Spec == Init /\ [][Next]_vars

-----------------------------------------------------------------------------
Dictionary(d) == DOMAIN d \subseteq Names /\ \A n \in DOMAIN d : d[n] \in Int

TypeOK ==
  /\ bill \in Bills
  /\ Len(tasks) <= MaxTasks
  /\ \A i \in Ids :
       /\ tasks[i].kind \in {"quote", "redraw"} /\ tasks[i].source \in 0 .. i - 1
       /\ tasks[i].status \in {"running", "cancelled", "failed", "success"}
       /\ \A part \in {"amounts", "card", "items", "payable"} : Dictionary(tasks[i].result[part])

(* Whatever is shown, after any chain of redraws, is what the platform charges and offers: *)
(* its own car premiums and tax, a joint sale it quoted or has a plan for, and totals that *)
(* add up to these; only the total the platform gave itself leaves a plan's premium out.   *)
(* And it stands when it is used again.                                                    *)
AmountsTrue ==
  /\ Successes \subseteq StoredReal
  /\ \A i \in Successes :
       LET a == tasks[i].result.amounts
           before == bill.commercial + bill.compulsory + Amount(a, "joint") IN
       /\ \A n \in Car \cap DOMAIN a : a[n] = bill[n]
       /\ Amount(a, "joint") \in {0, bill.joint} \cup Offered
       /\ "before" \in DOMAIN a => a.before = before
       /\ "after" \in DOMAIN a => a.after = before + bill.tax - tasks[i].gap
===============================================================================
