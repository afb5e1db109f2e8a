------------------------------- MODULE PiccQuote -------------------------------
(***************************************************************************)
(* One quote at the platform PICC                                          *)
(* (quote_platforms/platforms/picc/business.py): the session is probed,    *)
(* the form prepared and submitted, and what the platform objects to is    *)
(* corrected and submitted again, in at most six rounds: the vehicle it    *)
(* knows under another code, and the dates on which the commercial (bi)    *)
(* and the compulsory (ci) insurance start.                                *)
(*                                                                         *)
(* A form is reduced to those dates, the hours they start at, the hour of  *)
(* its vehicle part and the vehicle.  Day 1 is the first the platform      *)
(* sells, day 0 the past.                                                  *)
(***************************************************************************)
EXTENDS Naturals

CONSTANT LastDay

VARIABLES
  wants,   \* what the platform would accept; the program learns it from objections only
  renewal, \* whether the form renews a policy
  pc,
  body,    \* the form as the rounds carry it on
  sent,    \* the form last submitted
  answer,  \* the platform's answer to it
  round,
  why      \* why the quote failed

vars == <<wants, renewal, pc, body, sent, answer, round, why>>

\* Mutant: two attempts.
TwoRounds == 2

Rounds == 6
NextDay == 1
Insurances == {"bi", "ci"}
Days == 0 .. LastDay
Hours == {0, 14}
Starts == [day : Days, hour : Hours]
Forms == [start : [Insurances -> Starts], hour : Hours, vehicle : {"ours", "theirs"}]

\* How a vehicle is corrected: found under the platform's code, taken from its precise
\* answer, or not at all.
Corrections == {"rebuild", "accept", "none"}

\* `named` are the insurances whose older policies the platform knows and names with a
\* quote; `dated`: its objections name the date too.
Wants == [start : [Insurances -> Starts], named : SUBSET Insurances, dated : BOOLEAN,
          vehicle : {"fine"} \cup Corrections]

Answers == [kind : {"none", "mismatch", "objection", "quote", "refusal"},
            about : SUBSET Insurances, dated : SUBSET Insurances]
Nothing(kind) == [kind |-> kind, about |-> {}, dated |-> {}]

NotBefore(a, b) == a.day > b.day \/ (a.day = b.day /\ a.hour >= b.hour)
TooEarly(form) == {k \in Insurances : ~NotBefore(form.start[k], wants.start[k])}
Known(form) == wants.vehicle = "fine" \/ form.vehicle = "theirs"

Init ==
  /\ wants \in Wants
  /\ renewal \in BOOLEAN
  /\ pc = "probe"
  /\ \E h \in Hours :
       body = [start |-> [k \in Insurances |-> [day |-> 0, hour |-> h]], hour |-> h, vehicle |-> "ours"]
  /\ sent = body
  /\ answer = Nothing("none")
  /\ round = 1
  /\ why = "none"

Fail(reason) == pc' = "failed" /\ why' = reason

-----------------------------------------------------------------------------
\* The authenticated request before everything else; an expired session ends the quote.
Probe ==
  /\ pc = "probe"
  /\ \/ pc' = "prepare" /\ UNCHANGED why
     \/ Fail("session")
  /\ UNCHANGED <<wants, renewal, body, sent, answer, round>>

\* Mutant: the newest notice wins.
NewestDay(a, b) == a

\* The later of a notice's day and the form's.
LaterDay(a, b) == IF a >= b THEN a ELSE b

\* A vehicle the platform has insured before is quoted from the next day on.
FromNextDay(form) ==
  [form EXCEPT !.start = [k \in Insurances |-> [@[k] EXCEPT !.day = LaterDay(form.start[k].day, NextDay)]]]

\* The form from the customer's data, or no form without a vehicle.
Prepare ==
  /\ pc = "prepare"
  /\ \/ \E days \in [Insurances -> Days], insured \in BOOLEAN :
          LET form == [body EXCEPT !.start = [k \in Insurances |-> [@[k] EXCEPT !.day = days[k]]]] IN
          /\ body' = IF insured THEN FromNextDay(form) ELSE form
          /\ pc' = "submit"
          /\ UNCHANGED why
     \/ Fail("prepare") /\ UNCHANGED body
  /\ UNCHANGED <<wants, renewal, sent, answer, round>>

\* The platform's possible answers to a form: it reports the dates it objects to together
\* or one after another, and quotes a form whose early dates it names with the quote.
AnswersTo(form) ==
  {Nothing("refusal")}
  \cup (IF Known(form) THEN {} ELSE {Nothing("mismatch")})
  \cup (IF Known(form) /\ TooEarly(form) \subseteq wants.named
        THEN {[kind |-> "quote", about |-> wants.named, dated |-> wants.named]} ELSE {})
  \cup {[kind |-> "objection", about |-> ks, dated |-> IF wants.dated THEN ks ELSE {}] :
          ks \in (SUBSET TooEarly(form)) \ {{}}}

\* A refusal (the quota is used up, a duplicate, an expired session, no usable answer)
\* ends the quote.
Submit ==
  /\ pc = "submit"
  /\ sent' = body
  /\ \E a \in AnswersTo(body) :
       /\ answer' = a
       /\ CASE a.kind = "refusal" -> Fail("refused")
            [] a.kind = "mismatch" -> pc' = "correct" /\ UNCHANGED why
            [] OTHER -> pc' = "adjust" /\ UNCHANGED why
  /\ UNCHANGED <<wants, renewal, body, round>>

\* A rebuilt form has the days and the hour of its vehicle part, of which an adjustment
\* changes the days only.
Corrected(form) ==
  LET rebuilt == [form EXCEPT !.start = [k \in Insurances |-> [@[k] EXCEPT !.hour = form.hour]]] IN
  [(IF wants.vehicle = "rebuild" THEN rebuilt ELSE form) EXCEPT !.vehicle = "theirs"]

\* The vehicle is corrected and submitted once more within the round.
Resubmit ==
  /\ pc = "correct"
  /\ \/ /\ wants.vehicle # "none"
        /\ sent' = Corrected(body)
        /\ \E a \in AnswersTo(Corrected(body)) :
             /\ answer' = a
             /\ IF a.kind = "refusal" THEN Fail("refused") ELSE pc' = "adjust" /\ UNCHANGED why
     \/ /\ wants.vehicle = "none"
        /\ Fail("vehicle")
        /\ UNCHANGED <<sent, answer>>
  /\ UNCHANGED <<wants, renewal, body, round>>

\* The day asked for: the one the platform names or the next one, and none before that.
DayAsked(k) == IF k \in answer.dated THEN LaterDay(wants.start[k].day, NextDay) ELSE NextDay

\* A compulsory insurance that ends the day before the commercial one starts at two o'clock,
\* as the platform's page has it; the policy being renewed keeps its own hour.
InTheAfternoon(k) ==
  /\ k = "ci" /\ answer.kind = "quote" /\ ~renewal
  /\ "bi" \in answer.about /\ DayAsked("bi") = DayAsked("ci") + 1

\* The start the program asks for: the platform's hour belongs to the platform's day.
Asked(k) ==
  LET named == k \in answer.dated /\ wants.start[k].day = DayAsked(k) IN
  [day |-> DayAsked(k),
   hour |-> IF named THEN wants.start[k].hour ELSE IF InTheAfternoon(k) THEN 14 ELSE 0]

\* A later date of the form is kept, with the hour asked for.
Target(form, k) == [Asked(k) EXCEPT !.day = LaterDay(@, form.start[k].day)]

\* Of the starts answered, those that differ from their target.
Needed(form) == {k \in answer.about : form.start[k] # Target(form, k)}

Adjusted(form) ==
  [form EXCEPT !.start = [k \in Insurances |-> IF k \in Needed(form) THEN Target(form, k) ELSE @[k]]]

NextRound ==
  IF round = Rounds THEN Fail("rounds") /\ UNCHANGED round
  ELSE pc' = "submit" /\ round' = round + 1 /\ UNCHANGED why

\* After an objection the form of the round's beginning is adjusted, not the corrected
\* one; without a change the objection stands.
AdjustAfterObjection ==
  /\ pc = "adjust" /\ answer.kind = "objection"
  /\ body' = Adjusted(body)
  /\ IF body' = body THEN Fail("objection") /\ UNCHANGED round ELSE NextRound
  /\ UNCHANGED <<wants, renewal, sent, answer>>

\* Mutant: a quote is a quote.
AnyQuoteTaken ==
  /\ pc = "adjust" /\ answer.kind = "quote"
  /\ body' = sent
  /\ pc' = "result"
  /\ UNCHANGED <<wants, renewal, sent, answer, round, why>>

\* A quote that names other dates is not taken but asked for again with those.
AdjustAfterQuote ==
  /\ pc = "adjust" /\ answer.kind = "quote"
  /\ body' = Adjusted(sent)
  /\ IF body' = sent THEN pc' = "result" /\ UNCHANGED <<round, why>> ELSE NextRound
  /\ UNCHANGED <<wants, renewal, sent, answer>>

\* The result needs a real premium; what follows is done as well as it can be.
Result ==
  /\ pc = "result"
  /\ \/ pc' = "quoted" /\ UNCHANGED why
     \/ Fail("premium")
  /\ UNCHANGED <<wants, renewal, body, sent, answer, round>>

Next ==
  \/ Probe \/ Prepare \/ Submit \/ Resubmit
  \/ AdjustAfterObjection \/ AdjustAfterQuote \/ Result

Spec == Init /\ [][Next]_vars

-----------------------------------------------------------------------------
TypeOK ==
  /\ wants \in Wants /\ renewal \in BOOLEAN
  /\ pc \in {"probe", "prepare", "submit", "correct", "adjust", "result", "quoted", "failed"}
  /\ body \in Forms /\ sent \in Forms /\ answer \in Answers
  /\ round \in 1 .. Rounds
  /\ why \in {"none", "session", "prepare", "refused", "vehicle", "objection", "rounds", "premium"}

Satisfiable ==
  /\ wants.dated
  /\ wants.vehicle = "rebuild" => \A k \in Insurances : wants.start[k].hour = 0
  /\ wants.vehicle # "none"

\* "Old platform notices must never make a newer date go backwards": whatever the platform
\* objects to, in whatever order, no date of the form moves to an earlier day.
NeverEarlier == pc # "prepare" => \A k \in Insurances : body'.start[k].day >= body.start[k].day

\* The quote shown is the platform's answer to the form kept with it, and that form starts
\* no insurance earlier than the platform asked for, although it quotes such forms too.
ShownIsAsked == pc = "quoted" => sent = body /\ Known(body) /\ TooEarly(body) = {}

\* A platform that names the dates it wants gets them within the six rounds, one at a time
\* or together, as objections or with a quote, with the vehicle before, between or after:
\* only a rebuilt form, which loses the adjusted hours, fails.
Met == Satisfiable => why \notin {"objection", "rounds", "vehicle"}

(* The rounds with the platform never move a start date back, meet every objection that   *)
(* can be met, and end with a quote of what was asked for last or with none.              *)
QuotedAsAsked == [][NeverEarlier /\ ShownIsAsked' /\ Met']_vars
===============================================================================
