------------------------------- MODULE Notices --------------------------------
(***************************************************************************)
(* What the platform says during a quote, and how it reaches the chat      *)
(* (picc/business.py, quote_assistant_service.py).  The thread that talks  *)
(* to the platform publishes each notice through a coroutine with a        *)
(* transaction of its own and waits three seconds for it; what it could    *)
(* not publish travels in the result, from where the transaction of the    *)
(* quote appends it.  A failed attempt may be followed by one on another   *)
(* account, or by one that confirms a duplicate.                           *)
(*                                                                         *)
(* Rows are the messages about one quote, all of one trace.                *)
(***************************************************************************)
EXTENDS Naturals, Sequences

CONSTANTS
  Texts,       \* what the platform may say, without blanks
  Contains,    \* pairs <<a, b>>: a contains b, itself included
  Long,        \* texts of 24 characters or more
  Own,         \* a text of the program's own
  Bounds,      \* bounds on the notices of each attempt, one chosen at the start
  MaxTroubles

VARIABLES
  maxSaid,
  isolation,   \* set by the server
  rows,        \* committed messages
  view,        \* how many of them the transaction's snapshot shows
  own,         \* messages it has appended
  attempt, confirmed, pc,
  said,        \* the notices of the attempt as the adapter keeps them
  shown,       \* texts the rounds have tried to publish
  waits,       \* the thread waits for the last notice
  sending,     \* notices being published: the coroutines, and whether they have looked
  kept,        \* the notices the result carries
  answer,      \* what the result says
  seen,        \* texts of `kept` dealt with
  dropped,     \* history: texts neither published nor carried on
  troubles     \* publications that failed or came late

vars == <<maxSaid, isolation, rows, view, own, attempt, confirmed, pc, said, shown, waits, sending,
          kept, answer, seen, dropped, troubles>>

setting == <<maxSaid, isolation>>
quoteVars == <<view, own, attempt, confirmed>>
adapterVars == <<said, shown, waits>>
resultVars == <<kept, answer, seen>>

Types == {"insurance_date_adjust", "duplicate_quote_notice", "platform_notice"}
Carried == 3
Nothing == [kind |-> "none", text |-> Own]

Elements(s) == {s[i] : i \in DOMAIN s}
Notice(type, text) == [type |-> type, text |-> text, emitted |-> FALSE, attempt |-> attempt]
Row(n) == [type |-> n.type, text |-> n.text, attempt |-> n.attempt]

-----------------------------------------------------------------------------
\* Mutant: only the same text is the same notice.
Overlaps_Equal(a, b) == a = b

\* _quote_auto_notice_message_overlaps: a summary and its full text are one notice.
Overlaps(a, b) ==
  a = b \/ ({a, b} \subseteq Long /\ (<<a, b>> \in Contains \/ <<b, a>> \in Contains))

\* Either is part of the other, however short.
Related(a, b) == <<a, b>> \in Contains \/ <<b, a>> \in Contains

\* Mutant: the key leaves the text out.
Key_WithoutText(n) == <<n.attempt, n.type>>

\* _quote_auto_notice_dedupe_key, the unique message id
Key(n) == <<n.attempt, n.type, n.text>>

\* _quote_auto_notice_already_persisted; an answer counts when it says just the same.
Persisted(messages, text) ==
  \E m \in Elements(messages) :
    m.text = text \/ (m.type # "answer" /\ Overlaps(m.text, text))

\* The unique id refuses a second message of the same key.
Refused(messages, n) ==
  \E m \in Elements(messages) : m.type # "answer" /\ Key(m) = Key(n)

Visible ==
  (IF isolation = "read committed" THEN rows ELSE SubSeq(rows, 1, view)) \o own

-----------------------------------------------------------------------------
\* Publishing: the thread waits for the coroutine it has scheduled.
Publish(n) ==
  /\ said' = Append(said, n)
  /\ sending' = sending \cup {[notice |-> n, looked |-> FALSE]}
  /\ waits' = TRUE

Keep(n) == said' = Append(said, n) /\ UNCHANGED <<sending, waits>>

Speaking == ~waits /\ Len(said) < maxSaid[attempt]

\* A duplicate the platform reports before the first round.
SayBefore ==
  /\ Speaking /\ pc = "speak" /\ said = <<>>
  /\ \E text \in Texts : Publish(Notice("duplicate_quote_notice", text))
  /\ UNCHANGED <<setting, rows, quoteVars, pc, shown, resultVars, dropped, troubles>>

\* remember_notice: each objection to a date, unless a text published contains it.
SayDate ==
  /\ Speaking /\ pc = "speak"
  /\ \E text \in Texts :
       LET n == Notice("insurance_date_adjust", text) IN
       IF \E previous \in shown : <<previous, text>> \in Contains
       THEN Keep(n) /\ UNCHANGED shown
       ELSE Publish(n) /\ shown' = shown \cup {text}
  /\ UNCHANGED <<setting, rows, quoteVars, pc, resultVars, dropped, troubles>>

\* remember_platform_notice: an answer without a result ends the rounds.
SayLast ==
  /\ Speaking /\ pc = "speak"
  /\ pc' = "said"
  /\ \E text \in Texts :
       LET n == Notice("platform_notice", text) IN
       IF \E previous \in shown : Related(previous, text)
       THEN Keep([n EXCEPT !.emitted = TRUE]) /\ UNCHANGED shown
       ELSE Publish(n) /\ shown' = shown \cup {text}
  /\ UNCHANGED <<setting, rows, quoteVars, resultVars, dropped, troubles>>

\* What comes with a result: a duplicate, unless there was a notice, and anything new.
SayAfter ==
  /\ Speaking /\ pc = "speak"
  /\ pc' = "said"
  /\ \E text \in Texts, type \in Types \ {"insurance_date_adjust"} :
       /\ IF type = "duplicate_quote_notice" THEN said = <<>>
          ELSE \A n \in Elements(said) : ~Related(n.text, text)
       /\ Publish(Notice(type, text))
  /\ UNCHANGED <<setting, rows, quoteVars, shown, resultVars, dropped, troubles>>

\* The coroutine looks for the notice in a transaction of its own ...
Settle(s, ok) ==
  /\ sending' = sending \ {s}
  /\ IF waits /\ s.notice = said[Len(said)]
     THEN waits' = FALSE /\ said' = [said EXCEPT ![Len(said)].emitted = ok]
     ELSE UNCHANGED <<waits, said>>

Look(s) ==
  /\ ~s.looked
  /\ IF Persisted(rows, s.notice.text) THEN Settle(s, TRUE)
     ELSE /\ sending' = (sending \ {s}) \cup {[s EXCEPT !.looked = TRUE]}
          /\ UNCHANGED <<said, waits>>
  /\ UNCHANGED <<setting, rows, quoteVars, pc, shown, resultVars, dropped, troubles>>

\* ... and appends it, unless its id is there; the session's row is locked for it.
AppendNotice(s) ==
  /\ s.looked /\ own = <<>>
  /\ rows' = IF Refused(rows, s.notice) THEN rows ELSE Append(rows, Row(s.notice))
  /\ Settle(s, TRUE)
  /\ UNCHANGED <<setting, quoteVars, pc, shown, resultVars, dropped, troubles>>

PublishFails(s) ==
  /\ troubles < MaxTroubles /\ troubles' = troubles + 1
  /\ Settle(s, FALSE)
  /\ UNCHANGED <<setting, rows, quoteVars, pc, shown, resultVars, dropped>>

\* The thread goes on after three seconds; the coroutine does too.
WaitedEnough ==
  /\ waits /\ troubles < MaxTroubles
  /\ waits' = FALSE /\ troubles' = troubles + 1
  /\ UNCHANGED <<setting, rows, quoteVars, pc, said, shown, sending, resultVars, dropped>>

-----------------------------------------------------------------------------
Unpublished(notices) == {n.text : n \in {m \in Elements(notices) : ~m.emitted}}

Left(notices) == SubSeq(notices, 1, IF Len(notices) < Carried THEN Len(notices) ELSE Carried)

\* _runtime_platform_auto_notice_message_for_failure: the notice a failure is about.
About(kind, text, notices) ==
  LET overlapping == SelectSeq(notices, LAMBDA n : Overlaps(text, n.text)) IN
  IF overlapping # <<>> THEN Head(overlapping).text
  ELSE IF kind = "premium" /\ Len(notices) = 1 THEN notices[1].text ELSE text

\* A result, a business error and a result without a premium carry all notices, another
\* error those from before the rounds; three are looked at.
Returned ==
  /\ pc \in {"speak", "said"} /\ ~waits
  /\ \E kind \in {"result", "business", "premium", "duplicate", "quota_full", "expired", "error"} :
       LET all == kind \in {"result", "business", "premium"}
           before == SubSeq(said, 1,
             IF said # <<>> /\ said[1].type = "duplicate_quote_notice" THEN 1 ELSE 0)
           carried == IF all THEN said ELSE before IN
       /\ pc = "said" => kind \in {"result", "premium"}
       /\ kept' = Left(carried)
       /\ dropped' = dropped \cup (Unpublished(said) \ Unpublished(kept'))
       /\ \E text \in IF kind \in {"business", "duplicate"} THEN Texts ELSE {Own} :
            answer' = [kind |-> kind, text |-> text, about |-> About(kind, text, kept')]
  /\ pc' = "look" /\ seen' = {}
  /\ UNCHANGED <<setting, rows, quoteVars, adapterVars, sending, troubles>>

\* _persist_unemitted_quote_auto_notices, one notice at a time: passed over when it was
\* published, dealt with, or is found in the chat.
LookKept ==
  /\ pc = "look" /\ kept # <<>>
  /\ LET n == Head(kept)
         known == ~n.emitted /\ \E text \in seen : Overlaps(n.text, text) IN
     /\ seen' = IF known THEN seen ELSE seen \cup {n.text}
     /\ IF n.emitted \/ known \/ Persisted(Visible, n.text)
        THEN kept' = Tail(kept) /\ UNCHANGED pc
        ELSE pc' = "append" /\ UNCHANGED kept
  /\ UNCHANGED <<setting, rows, quoteVars, adapterVars, sending, answer, dropped, troubles>>

\* The insert meets the unique id of rows the snapshot does not show, too.
Appended(n) == IF Refused(rows \o own, n) THEN own ELSE Append(own, Row(n))

AppendKept ==
  /\ pc = "append"
  /\ own' = Appended(Head(kept))
  /\ kept' = Tail(kept) /\ pc' = "look"
  /\ UNCHANGED <<setting, rows, view, attempt, confirmed, adapterVars, sending, answer, seen, dropped, troubles>>

Commit(messages) == rows' = rows \o messages /\ own' = <<>>

\* A further attempt begins with a commit and, at its first read, a new snapshot.
Again(messages, duplicateConfirmed) ==
  /\ attempt < Len(maxSaid)
  /\ attempt' = attempt + 1 /\ confirmed' = duplicateConfirmed
  /\ Commit(messages) /\ view' = Len(rows')
  /\ pc' = "speak" /\ said' = <<>> /\ shown' = {}
  /\ kept' = <<>> /\ seen' = {} /\ answer' = Nothing
  /\ UNCHANGED waits

End(messages) ==
  /\ Commit(messages)
  /\ pc' = "done"
  /\ kept' = <<>> /\ seen' = {}
  /\ UNCHANGED <<view, attempt, confirmed, adapterVars, answer>>

\* A failure that is in the chat already is not answered.
Answered(text) == Append(own, [type |-> "answer", text |-> text, attempt |-> attempt])
Told(text) == IF Persisted(Visible, text) THEN own ELSE Answered(text)

\* _respond_after_quote_runtime_failure
Respond ==
  /\ pc = "look" /\ kept = <<>>
  /\ \/ /\ answer.kind = "result" /\ End(own)
     \/ /\ answer.kind = "duplicate" /\ ~confirmed
        /\ LET n == Notice("duplicate_quote_notice", answer.text) IN
           Again(IF Persisted(Visible, n.text) THEN own ELSE Appended(n), TRUE)
     \/ /\ answer.kind = "duplicate" /\ confirmed
        /\ End(Told(answer.text))
     \/ /\ answer.kind \in {"expired", "quota_full"}
        /\ Again(own, confirmed)
     \/ /\ answer.kind = "expired" /\ End(Answered(Own))
     \/ /\ answer.kind \in {"business", "premium", "quota_full", "error"}
        /\ End(IF Persisted(Visible, answer.about) THEN own ELSE Told(answer.text))
  /\ UNCHANGED <<setting, sending, dropped, troubles>>

Init ==
  /\ maxSaid \in Bounds
  /\ isolation \in {"read committed", "repeatable read"}
  /\ rows = <<>> /\ view = 0 /\ own = <<>>
  /\ attempt = 1 /\ confirmed = FALSE /\ pc = "speak"
  /\ said = <<>> /\ shown = {} /\ waits = FALSE /\ sending = {}
  /\ kept = <<>> /\ seen = {} /\ answer = Nothing
  /\ dropped = {} /\ troubles = 0

Next ==
  \/ SayBefore \/ SayDate \/ SayLast \/ SayAfter \/ WaitedEnough
  \/ \E s \in sending : Look(s) \/ AppendNotice(s) \/ PublishFails(s)
  \/ Returned \/ LookKept \/ AppendKept \/ Respond

Spec == Init /\ [][Next]_vars

-----------------------------------------------------------------------------
Messages == [type : Types \cup {"answer"}, text : Texts \cup {Own}, attempt : DOMAIN maxSaid]
Notices == [type : Types, text : Texts, emitted : BOOLEAN, attempt : DOMAIN maxSaid]

TypeOK ==
  /\ maxSaid \in Bounds
  /\ isolation \in {"read committed", "repeatable read"}
  /\ Elements(rows) \cup Elements(own) \subseteq Messages
  /\ view \in 0 .. Len(rows) /\ attempt \in DOMAIN maxSaid /\ confirmed \in BOOLEAN
  /\ pc \in {"speak", "said", "look", "append", "done"}
  /\ Elements(said) \cup Elements(kept) \subseteq Notices
  /\ Len(said) <= maxSaid[attempt] /\ Len(kept) <= Carried
  /\ waits \in BOOLEAN /\ troubles \in 0 .. MaxTroubles
  /\ sending \subseteq [notice : Notices, looked : BOOLEAN]
  /\ shown \cup seen \cup dropped \subseteq Texts

\* Notices of the attempt that are part of one another, all of them.
Family(texts) ==
  /\ texts # {}
  /\ \A text \in texts, n \in Elements(said) : Related(text, n.text) => n.text \in texts

(* Once an attempt is over, everything the platform said in it is in the chat: of the      *)
(* notices that contain one another, one or a text that contains it or is part of it,      *)
(* published at once, late, or by the transaction of the quote.  What is missing could not *)
(* be published and was not carried on either: a fourth notice, or one of an attempt that  *)
(* broke off.                                                                              *)
NoticesTold ==
  pc = "done" \/ (pc = "look" /\ kept = <<>>) =>
    \A texts \in SUBSET {n.text : n \in Elements(said)} : Family(texts) =>
      \/ \E m \in Elements(rows \o own), text \in texts : Related(m.text, text)
      \/ troubles > 0 /\ \E lost \in dropped, text \in texts : Related(lost, text)

Repeats(a, b) == a = b \/ ({a, b} \subseteq Long /\ Related(a, b))

(* The chat never says the same twice, over all attempts and whoever says it, unless a     *)
(* publication failed or came late.  At the default isolation what the failure is answered *)
(* with, or the warning of a duplicate, may repeat a notice: the look for it is at the     *)
(* snapshot from before the platform call.                                                 *)
ToldOnce ==
  \A i, j \in DOMAIN rows : i < j /\ Repeats(rows[i].text, rows[j].text) =>
    \/ troubles > 0
    \/ isolation = "repeatable read" /\ rows[j].type \in {"answer", "duplicate_quote_notice"}

(* What the platform says is told, and told once: NoticesTold and ToldOnce. *)
ToldExactlyOnce == NoticesTold /\ ToldOnce
===============================================================================
