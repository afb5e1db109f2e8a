---------------------------- MODULE NoticesProofs ----------------------------
(***************************************************************************)
(* What the platform says is told, and told once, for any texts and any    *)
(* containment between them, any number of notices and attempts.  At the   *)
(* end, the theorems on the image of a result (ResultImage) and on the     *)
(* retries of messages (ChatMessages), which share no state with them.     *)
(***************************************************************************)
EXTENDS Notices, FiniteSetTheorems, SequenceTheorems, WellFoundedInduction, TLAPS

(* A text contains itself, a text that contains a long one is long, and the program's own  *)
(* text is none of the platform's.                                                         *)
TextsFit ==
  /\ Own \notin Texts
  /\ Contains \subseteq (Texts \X Texts) \cup {<<Own, Own>>}
  /\ \A text \in Texts : <<text, text>> \in Contains
  /\ \A pair \in Contains : pair[2] \in Long => pair[1] \in Long
  /\ MaxTroubles \in Nat
  /\ \A bounds \in Bounds : bounds \in Seq(Nat) /\ bounds # <<>>

-----------------------------------------------------------------------------
(***************************************************************************)
(* Sequences of messages.                                                  *)
(***************************************************************************)

LEMMA ElementsIn ==
  ASSUME NEW S, NEW s \in Seq(S)
  PROVE  /\ Elements(s) \subseteq S
         /\ \A i \in 1 .. Len(s) : s[i] \in Elements(s)
         /\ \A e \in Elements(s) : \E i \in 1 .. Len(s) : s[i] = e
BY ElementOfSeq, LenProperties DEF Elements

LEMMA ElementsAppend ==
  ASSUME NEW S, NEW s \in Seq(S), NEW e \in S
  PROVE  Elements(Append(s, e)) = Elements(s) \cup {e}
<1> DEFINE se == Append(s, e)
<1>1. /\ Len(s) \in Nat /\ DOMAIN s = 1 .. Len(s) /\ DOMAIN se = 1 .. (Len(s) + 1)
      /\ \A i \in 1 .. Len(s) : se[i] = s[i]
      /\ se[Len(s) + 1] = e
  OBVIOUS
<1>2. DOMAIN se = (1 .. Len(s)) \cup {Len(s) + 1}
  BY <1>1
<1>3. {se[i] : i \in DOMAIN se} = {s[i] : i \in DOMAIN s} \cup {e}
  BY <1>1, <1>2
<1> QED
  BY <1>3 DEF Elements

LEMMA ElementsConcat ==
  ASSUME NEW S, NEW s \in Seq(S), NEW t \in Seq(S)
  PROVE  Elements(s \o t) = Elements(s) \cup Elements(t)
<1> DEFINE st == s \o t
<1>1. /\ st \in Seq(S) /\ Len(st) = Len(s) + Len(t) /\ Len(s) \in Nat /\ Len(t) \in Nat
      /\ \A i \in 1 .. Len(s) + Len(t) : st[i] = IF i <= Len(s) THEN s[i] ELSE t[i - Len(s)]
  BY ConcatProperties, LenProperties
<1>2. \A i \in 1 .. Len(s) : st[i] = s[i] /\ i \in 1 .. Len(st)
  BY <1>1
<1>3. \A i \in 1 .. Len(t) : st[i + Len(s)] = t[i] /\ i + Len(s) \in 1 .. Len(st)
  BY <1>1
<1>4. \A i \in 1 .. Len(st) : i \in 1 .. Len(s) \/ i - Len(s) \in 1 .. Len(t)
  BY <1>1
<1>5. Elements(st) \subseteq Elements(s) \cup Elements(t)
  <2> SUFFICES ASSUME NEW e \in Elements(st) PROVE e \in Elements(s) \cup Elements(t)
    OBVIOUS
  <2>1. PICK i \in 1 .. Len(st) : st[i] = e
    BY <1>1, ElementsIn
  <2>2. CASE i \in 1 .. Len(s)
    BY <2>1, <2>2, <1>2, ElementsIn
  <2>3. CASE i - Len(s) \in 1 .. Len(t)
    <3>1. st[i] = t[i - Len(s)]
      BY <2>3, <1>3, <1>1
    <3> QED
      BY <2>1, <2>3, <3>1, ElementsIn
  <2> QED
    BY <1>4, <2>2, <2>3
<1>6. Elements(s) \subseteq Elements(st)
  <2>1. \A e \in Elements(s) : \E i \in 1 .. Len(s) : s[i] = e
    BY ElementsIn
  <2>2. \A i \in 1 .. Len(st) : st[i] \in Elements(st)
    BY <1>1, ElementsIn
  <2> QED
    BY <2>1, <2>2, <1>2
<1>7. Elements(t) \subseteq Elements(st)
  <2>1. \A e \in Elements(t) : \E i \in 1 .. Len(t) : t[i] = e
    BY ElementsIn
  <2>2. \A i \in 1 .. Len(st) : st[i] \in Elements(st)
    BY <1>1, ElementsIn
  <2> QED
    BY <2>1, <2>2, <1>3
<1> QED
  BY <1>5, <1>6, <1>7

\* A message appended to what is not yet committed is appended to the chat.
LEMMA AppendConcat ==
  ASSUME NEW S, NEW s \in Seq(S), NEW t \in Seq(S), NEW e \in S
  PROVE  s \o Append(t, e) = Append(s \o t, e)
BY ConcatProperties, SeqEqual

LEMMA EmptyElements == Elements(<<>>) = {}
BY DEF Elements

LEMMA SmallestIndex ==
  ASSUME NEW T, T \subseteq Nat, T # {}
  PROVE  \E i \in T : \A j \in T : ~(j < i)
<1>1. \E i \in T : \A j \in T : ~(<<j, i>> \in OpToRel(<, Nat))
  BY NatLessThanWellFounded, WFMin
<1>2. OpToRel(<, Nat) = {pair \in Nat \X Nat : pair[1] < pair[2]}
  BY Zenon DEF OpToRel
<1>3. \E i \in T : \A j \in T : ~(<<j, i>> \in {pair \in Nat \X Nat : pair[1] < pair[2]})
  BY <1>1, <1>2, Zenon
<1> QED
  BY <1>3

-----------------------------------------------------------------------------
(***************************************************************************)
(* Types.                                                                  *)
(***************************************************************************)

TypingChat ==
  /\ maxSaid \in Bounds
  /\ isolation \in {"read committed", "repeatable read"}
  /\ rows \in Seq(Messages) /\ own \in Seq(Messages)
  /\ view \in 0 .. Len(rows) /\ attempt \in DOMAIN maxSaid /\ confirmed \in BOOLEAN

TypingSaid ==
  /\ said \in Seq(Notices) /\ Len(said) <= maxSaid[attempt]
  /\ waits \in BOOLEAN /\ (waits => said # <<>>)
  /\ sending \subseteq [notice : Notices, looked : BOOLEAN]
  /\ shown \subseteq Texts

TypingResult ==
  /\ pc \in {"speak", "said", "look", "append", "done"}
  /\ kept \in Seq(Notices) /\ Len(kept) <= Carried
  /\ seen \subseteq Texts /\ dropped \subseteq Texts
  /\ answer.text \in Texts \cup {Own}
  /\ answer.kind = "duplicate" => answer.text \in Texts
  /\ troubles \in 0 .. MaxTroubles

Typing == TypingChat /\ TypingSaid /\ TypingResult

LEMMA TypingTypes == Typing => TypeOK
BY ElementsIn DEF Typing, TypingChat, TypingSaid, TypingResult, TypeOK

\* What a notice is, and what row it becomes.
LEMMA NoticeTyped ==
  ASSUME TextsFit, Typing, NEW text \in Texts, NEW type \in Types
  PROVE  Notice(type, text) \in Notices
BY DEF Typing, TypingChat, TypingSaid, TypingResult, Notice, Notices

LEMMA RowTyped ==
  ASSUME NEW n \in Notices
  PROVE  Row(n) \in Messages /\ Row(n).text = n.text /\ Row(n).type # "answer"
BY DEF Row, Messages, Notices, Types

\* The four ways of saying something have this in common.  What is published is contained
\* in nothing the rounds have tried to publish; what is only kept is related to it.
Says(n) ==
  /\ pc = "speak" /\ pc' \in {"speak", "said"} /\ ~waits
  /\ Len(said) < maxSaid[attempt]
  /\ n \in Notices /\ said' = Append(said, n)
  /\ UNCHANGED <<setting, rows, quoteVars, resultVars, dropped, troubles>>
  /\ \/ /\ ~n.emitted /\ waits' = TRUE
        /\ sending' = sending \cup {[notice |-> n, looked |-> FALSE]}
        /\ \A text \in shown : <<text, n.text>> \notin Contains
        /\ shown' \in {shown, shown \cup {n.text}}
     \/ /\ \E text \in shown : Related(text, n.text) /\ (~n.emitted => <<text, n.text>> \in Contains)
        /\ UNCHANGED <<waits, sending, shown>>

ShownSaid == \A text \in shown : \E i \in DOMAIN said : said[i].text = text

LEMMA SayingSays ==
  ASSUME TextsFit, Typing, ShownSaid, SayBefore \/ SayDate \/ SayLast \/ SayAfter
  PROVE  \E n : Says(n)
<1>n. \A text \in Texts, type \in Types :
        /\ Notice(type, text) \in Notices
        /\ Notice(type, text).text = text /\ ~Notice(type, text).emitted
        /\ [Notice(type, text) EXCEPT !.emitted = TRUE] \in Notices
        /\ [Notice(type, text) EXCEPT !.emitted = TRUE].text = text
        /\ [Notice(type, text) EXCEPT !.emitted = TRUE].emitted
  BY NoticeTyped DEF Notice, Notices
<1>t. /\ "insurance_date_adjust" \in Types /\ "duplicate_quote_notice" \in Types
      /\ "platform_notice" \in Types
  BY DEF Types
<1>s. ASSUME said = <<>> PROVE shown = {}
  BY <1>s DEF ShownSaid
<1>1. CASE SayBefore
  <2>1. PICK text \in Texts : Publish(Notice("duplicate_quote_notice", text))
    BY <1>1 DEF SayBefore
  <2>2. Says(Notice("duplicate_quote_notice", text))
    BY <1>1, <2>1, <1>n, <1>t, <1>s DEF SayBefore, Speaking, Publish, Says
  <2> QED
    BY <2>2
<1>2. CASE SayDate
  <2>1. PICK text \in Texts :
          LET n == Notice("insurance_date_adjust", text) IN
          IF \E previous \in shown : <<previous, text>> \in Contains
          THEN Keep(n) /\ UNCHANGED shown
          ELSE Publish(n) /\ shown' = shown \cup {text}
    BY <1>2 DEF SayDate
  <2>2. Says(Notice("insurance_date_adjust", text))
    BY <1>2, <2>1, <1>n, <1>t DEF SayDate, Speaking, Publish, Keep, Says, Related
  <2> QED
    BY <2>2
<1>3. CASE SayLast
  <2>1. PICK text \in Texts :
          LET n == Notice("platform_notice", text) IN
          IF \E previous \in shown : Related(previous, text)
          THEN Keep([n EXCEPT !.emitted = TRUE]) /\ UNCHANGED shown
          ELSE Publish(n) /\ shown' = shown \cup {text}
    BY <1>3 DEF SayLast
  <2>2. CASE \E previous \in shown : Related(previous, text)
    <3>1. Says([Notice("platform_notice", text) EXCEPT !.emitted = TRUE])
      BY <1>3, <2>1, <2>2, <1>n, <1>t DEF SayLast, Speaking, Keep, Says
    <3> QED
      BY <3>1
  <2>3. CASE ~\E previous \in shown : Related(previous, text)
    <3>1. Says(Notice("platform_notice", text))
      BY <1>3, <2>1, <2>3, <1>n, <1>t DEF SayLast, Speaking, Publish, Says, Related
    <3> QED
      BY <3>1
  <2> QED
    BY <2>2, <2>3
<1>4. CASE SayAfter
  <2>1. PICK text \in Texts, type \in Types \ {"insurance_date_adjust"} :
          /\ IF type = "duplicate_quote_notice" THEN said = <<>>
             ELSE \A n \in Elements(said) : ~Related(n.text, text)
          /\ Publish(Notice(type, text))
    BY <1>4 DEF SayAfter
  <2>2. \A previous \in shown : <<previous, text>> \notin Contains
    <3>1. CASE said = <<>>
      BY <3>1, <1>s
    <3>2. CASE \A n \in Elements(said) : ~Related(n.text, text)
      BY <3>2 DEF ShownSaid, Elements, Related
    <3> QED
      BY <2>1, <3>1, <3>2
  <2>3. Says(Notice(type, text))
    BY <1>4, <2>1, <2>2, <1>n, <1>t DEF SayAfter, Speaking, Publish, Says
  <2> QED
    BY <2>3
<1> QED
  BY <1>1, <1>2, <1>3, <1>4

\* A publication that ends is noted on the notice the thread still waits for.
LEMMA SettleEffect ==
  ASSUME Typing, NEW s \in sending, NEW ok \in BOOLEAN, Settle(s, ok)
  PROVE  /\ sending' = sending \ {s}
         /\ said' \in Seq(Notices) /\ Len(said') = Len(said)
         /\ \A i \in 1 .. Len(said) :
              said'[i].text = said[i].text /\ (i # Len(said) => said'[i] = said[i])
         /\ \/ /\ waits /\ waits' = FALSE /\ s.notice = said[Len(said)]
               /\ said'[Len(said)].emitted = ok
            \/ waits' = waits /\ said' = said
<1>1. sending' = sending \ {s}
  BY DEF Settle
<1>2. CASE waits /\ s.notice = said[Len(said)]
  <2>0. said \in Seq(Notices) /\ said # <<>>
    BY <1>2 DEF Typing, TypingChat, TypingSaid, TypingResult
  <2>1. Len(said) \in 1 .. Len(said) /\ said \in Seq(Notices)
    BY <2>0, EmptySeq
  <2> DEFINE n == said[Len(said)]
             out == [n EXCEPT !.emitted = ok]
  <2>2. n \in Notices
    BY <2>1, ElementOfSeq
  <2>3. out \in Notices /\ out.text = n.text /\ out.emitted = ok
    BY <2>2 DEF Notices
  <2>4. waits' = FALSE /\ said' = [said EXCEPT ![Len(said)] = out]
    BY <1>2 DEF Settle
  <2>5. /\ said' \in Seq(Notices) /\ Len(said') = Len(said)
        /\ \A i \in 1 .. Len(said) : said'[i] = IF i = Len(said) THEN out ELSE said[i]
    BY <2>1, <2>3, <2>4, ExceptSeq
  <2> QED
    BY <1>1, <1>2, <2>1, <2>3, <2>4, <2>5
<1>3. CASE ~(waits /\ s.notice = said[Len(said)])
  BY <1>1, <1>3 DEF Settle, Typing, TypingChat, TypingSaid, TypingResult
<1> QED
  BY <1>2, <1>3

\* What ends an attempt: the messages not yet committed, and at most one more.
Responds(messages) ==
  /\ pc = "look" /\ kept = <<>>
  /\ \/ messages = own
     \/ \E m \in Messages :
          /\ messages = Append(own, m)
          /\ m.type = "answer" => pc' = "done"
          /\ m.type \in {"answer", "duplicate_quote_notice"}
          /\ m.type # "answer" => m.text \in Texts
          /\ m.text = Own \/ ~Persisted(Visible, m.text)
  /\ rows' = rows \o messages /\ own' = <<>> /\ kept' = <<>> /\ seen' = {}
  /\ UNCHANGED <<setting, sending, dropped, troubles, waits>>
  /\ \/ /\ pc' = "speak" /\ said' = <<>> /\ shown' = {} /\ view' = Len(rows')
        /\ attempt < Len(maxSaid) /\ attempt' = attempt + 1 /\ confirmed' \in BOOLEAN
        /\ answer' = Nothing
     \/ pc' = "done" /\ UNCHANGED <<view, attempt, confirmed, adapterVars, answer>>

LEMMA RespondResponds ==
  ASSUME TextsFit, Typing, Respond
  PROVE  \E messages : Responds(messages)
<1>l. pc = "look" /\ kept = <<>> /\ UNCHANGED <<setting, sending, dropped, troubles>>
  BY DEF Respond
<1>a. \A messages : messages = own /\ End(messages) => Responds(messages)
  BY <1>l DEF End, Commit, Responds, adapterVars
<1>b. ASSUME NEW duplicate \in BOOLEAN, Again(own, duplicate)
      PROVE  Responds(own)
  BY <1>l, <1>b DEF Again, Commit, Responds
<1>c. ASSUME NEW text \in Texts \cup {Own}, NEW messages, End(messages),
             messages = Answered(text), text = Own \/ ~Persisted(Visible, text)
      PROVE  Responds(messages)
  <2> DEFINE m == [type |-> "answer", text |-> text, attempt |-> attempt]
  <2>1. m \in Messages
    BY DEF Typing, TypingChat, TypingSaid, TypingResult, Messages
  <2>2. messages = Append(own, m) /\ m.type = "answer" /\ m.text = text
    BY <1>c DEF Answered
  <2>3. /\ pc' = "done" /\ UNCHANGED <<view, attempt, confirmed, adapterVars, answer>>
        /\ rows' = rows \o messages /\ own' = <<>> /\ kept' = <<>> /\ seen' = {} /\ waits' = waits
    BY <1>c DEF End, Commit, adapterVars
  <2> HIDE DEF m
  <2> QED
    BY <1>l, <1>c, <2>1, <2>2, <2>3 DEF Responds
<1>d. ASSUME NEW text \in Texts \cup {Own}, End(Told(text)) PROVE \E messages : Responds(messages)
  <2>1. CASE Persisted(Visible, text)
    <3>1. Told(text) = own
      BY <2>1 DEF Told
    <3> QED
      BY <3>1, <1>a, <1>d
  <2>2. CASE ~Persisted(Visible, text)
    <3>1. Told(text) = Answered(text)
      BY <2>2 DEF Told
    <3> QED
      BY <3>1, <2>2, <1>c, <1>d
  <2> QED
    BY <2>1, <2>2
<1>t. answer.text \in Texts \cup {Own} /\ (answer.kind = "duplicate" => answer.text \in Texts)
  BY DEF Typing, TypingChat, TypingSaid, TypingResult
<1>1. CASE answer.kind = "result" /\ End(own)
  BY <1>1, <1>a
<1>2. CASE /\ answer.kind = "duplicate" /\ ~confirmed
           /\ LET n == Notice("duplicate_quote_notice", answer.text) IN
              Again(IF Persisted(Visible, n.text) THEN own ELSE Appended(n), TRUE)
  <2> DEFINE n == Notice("duplicate_quote_notice", answer.text)
             messages == IF Persisted(Visible, n.text) THEN own ELSE Appended(n)
  <2>1. n \in Notices /\ n.text = answer.text /\ n.type = "duplicate_quote_notice"
    BY <1>2, <1>t, NoticeTyped DEF Notice, Types
  <2>2. /\ Row(n) \in Messages /\ Row(n).text = answer.text
        /\ Row(n).type = "duplicate_quote_notice"
    BY <2>1, RowTyped DEF Row
  <2>3. Again(messages, TRUE)
    BY <1>2
  <2> HIDE DEF n
  <2>4. messages = own \/ (messages = Append(own, Row(n)) /\ ~Persisted(Visible, n.text))
    BY DEF Appended
  <2> HIDE DEF messages
  <2>5. CASE messages = own
    <3>1. Again(own, TRUE)
      BY <2>3, <2>5
    <3> QED
      BY <3>1, <1>b
  <2>6. CASE messages = Append(own, Row(n)) /\ ~Persisted(Visible, n.text)
    <3>1. Responds(messages)
      BY <1>l, <1>t, <1>2, <2>1, <2>2, <2>3, <2>6 DEF Again, Commit, Responds
    <3> QED
      BY <3>1
  <2> QED
    BY <2>4, <2>5, <2>6
<1>3. CASE answer.kind = "duplicate" /\ confirmed /\ End(Told(answer.text))
  BY <1>3, <1>d, <1>t
<1>4. CASE answer.kind \in {"expired", "quota_full"} /\ Again(own, confirmed)
  <2>1. confirmed \in BOOLEAN
    BY DEF Typing, TypingChat, TypingSaid, TypingResult
  <2> QED
    BY <1>4, <2>1, <1>b
<1>5. CASE answer.kind = "expired" /\ End(Answered(Own))
  BY <1>5, <1>c
<1>6. CASE /\ answer.kind \in {"business", "premium", "quota_full", "error"}
           /\ End(IF Persisted(Visible, answer.about) THEN own ELSE Told(answer.text))
  BY <1>6, <1>a, <1>d, <1>t
<1> QED
  BY <1>1, <1>2, <1>3, <1>4, <1>5, <1>6 DEF Respond

LEMMA LeftIsPrefix ==
  ASSUME NEW S, NEW s \in Seq(S), NEW k \in 0 .. Len(s)
  PROVE  \E q \in 0 .. Len(s) : q <= Carried /\ Left(SubSeq(s, 1, k)) = SubSeq(s, 1, q)
<1> DEFINE t == SubSeq(s, 1, k)
           q == IF k < Carried THEN k ELSE Carried
<1>1. /\ t \in Seq(S) /\ Len(t) = k /\ \A i \in 1 .. k : t[i] = s[i]
  <2>1. Len(s) \in Nat /\ \A i \in 1 .. k : s[i] \in S
    BY ElementOfSeq
  <2>2. /\ t \in Seq(S) /\ Len(t) = IF 1 <= k THEN k - 1 + 1 ELSE 0
        /\ \A i \in 1 .. k - 1 + 1 : t[i] = s[1 + i - 1]
    BY <2>1, SubSeqProperties
  <2> QED
    BY <2>2
<1>2. q \in 0 .. k /\ q <= Carried /\ q \in 0 .. Len(s)
  BY DEF Carried
<1>3. Left(t) = SubSeq(t, 1, q)
  BY <1>1 DEF Left
<1>4. SubSeq(t, 1, q) = SubSeq(s, 1, q)
  <2> DEFINE a == SubSeq(t, 1, q)
             b == SubSeq(s, 1, q)
  <2>1. (\A i \in 1 .. q : t[i] \in S) /\ (\A i \in 1 .. q : s[i] \in S)
    BY <1>1, <1>2, ElementOfSeq
  <2>2. /\ a \in Seq(S) /\ Len(a) = IF 1 <= q THEN q - 1 + 1 ELSE 0
        /\ \A i \in 1 .. q - 1 + 1 : a[i] = t[1 + i - 1]
    BY <1>2, <2>1, SubSeqProperties
  <2>3. /\ b \in Seq(S) /\ Len(b) = IF 1 <= q THEN q - 1 + 1 ELSE 0
        /\ \A i \in 1 .. q - 1 + 1 : b[i] = s[1 + i - 1]
    BY <1>2, <2>1, SubSeqProperties
  <2>4. Len(a) = Len(b) /\ \A i \in 1 .. Len(a) : a[i] = b[i]
    BY <1>1, <1>2, <2>2, <2>3
  <2> QED
    BY <2>2, <2>3, <2>4, SeqEqual
<1> QED
  BY <1>2, <1>3, <1>4

\* The result carries the first notices; of the others what was not published is dropped.
LEMMA ReturnedCarries ==
  ASSUME Typing, Returned
  PROVE  /\ pc \in {"speak", "said"} /\ ~waits /\ pc' = "look" /\ seen' = {}
         /\ UNCHANGED <<setting, rows, quoteVars, adapterVars, sending, troubles>>
         /\ dropped \subseteq dropped' /\ dropped' \subseteq Texts
         /\ answer'.text \in Texts \cup {Own}
         /\ answer'.kind = "duplicate" => answer'.text \in Texts
         /\ \E q \in 0 .. Len(said) :
              /\ q <= Carried /\ kept' = SubSeq(said, 1, q)
              /\ \A j \in 1 .. Len(said) : ~said[j].emitted /\ j > q =>
                   said[j].text \in dropped' \/ \E i \in 1 .. q : said[i].text = said[j].text
<1>t. said \in Seq(Notices) /\ dropped \subseteq Texts /\ Len(said) \in Nat
  <2>1. said \in Seq(Notices) /\ dropped \subseteq Texts
    BY DEF Typing, TypingChat, TypingSaid, TypingResult
  <2> QED
    BY <2>1, LenProperties
<1>1. PICK kind \in {"result", "business", "premium", "duplicate", "quota_full", "expired", "error"} :
        LET all == kind \in {"result", "business", "premium"}
            before == SubSeq(said, 1,
              IF said # <<>> /\ said[1].type = "duplicate_quote_notice" THEN 1 ELSE 0)
            carried == IF all THEN said ELSE before IN
        /\ pc = "said" => kind \in {"result", "premium"}
        /\ kept' = Left(carried)
        /\ dropped' = dropped \cup (Unpublished(said) \ Unpublished(kept'))
        /\ \E text \in IF kind \in {"business", "duplicate"} THEN Texts ELSE {Own} :
             answer' = [kind |-> kind, text |-> text, about |-> About(kind, text, kept')]
  BY Zenon DEF Returned
<1>2. PICK k \in 0 .. Len(said) : kept' = Left(SubSeq(said, 1, k))
  <2> DEFINE one == IF said # <<>> /\ said[1].type = "duplicate_quote_notice" THEN 1 ELSE 0
  <2>1. one \in 0 .. Len(said)
    BY <1>t, EmptySeq
  <2>2. Len(said) \in 0 .. Len(said) /\ SubSeq(said, 1, Len(said)) = said
    BY <1>t, SubSeqFull
  <2>3. kept' = Left(said) \/ kept' = Left(SubSeq(said, 1, one))
    BY <1>1
  <2> QED
    BY <2>1, <2>2, <2>3
<1>3. PICK q \in 0 .. Len(said) : q <= Carried /\ kept' = SubSeq(said, 1, q)
  BY <1>t, <1>2, LeftIsPrefix
<1>4. dropped' = dropped \cup (Unpublished(said) \ Unpublished(kept'))
  BY <1>1
<1>5. Unpublished(said) \subseteq Texts
  <2>1. Elements(said) \subseteq Notices
    BY <1>t, ElementsIn
  <2> QED
    BY <2>1 DEF Unpublished, Notices
<1>6. ASSUME NEW j \in 1 .. Len(said), ~said[j].emitted
      PROVE  said[j].text \in dropped' \/ \E i \in 1 .. q : said[i].text = said[j].text
  <2>1. said[j].text \in Unpublished(said)
    BY <1>6, <1>t, ElementsIn DEF Unpublished
  <2>2. CASE said[j].text \in Unpublished(kept')
    <3>1. \A i \in 1 .. q : said[i] \in Notices
      BY <1>t, ElementOfSeq
    <3>2. /\ kept' \in Seq(Notices) /\ Len(kept') = IF 1 <= q THEN q - 1 + 1 ELSE 0
          /\ \A i \in 1 .. q - 1 + 1 : kept'[i] = said[1 + i - 1]
      BY <1>3, <3>1, SubSeqProperties
    <3>3. PICK m \in Elements(kept') : m.text = said[j].text
      BY <2>2 DEF Unpublished
    <3>4. PICK i \in 1 .. Len(kept') : kept'[i] = m
      BY <3>2, ElementsIn
    <3> QED
      BY <3>2, <3>3, <3>4
  <2>3. CASE said[j].text \notin Unpublished(kept')
    BY <2>1, <2>3, <1>4
  <2> QED
    BY <2>2, <2>3
<1>7. answer'.text \in Texts \cup {Own} /\ (answer'.kind = "duplicate" => answer'.text \in Texts)
  BY <1>1
<1> QED
  BY <1>3, <1>4, <1>5, <1>6, <1>7, <1>t DEF Returned


\* The parts of the typing that a step leaves alone.
LEMMA MessagesStay == ASSUME maxSaid' = maxSaid PROVE Messages' = Messages /\ Notices' = Notices
BY DEF Messages, Notices

LEMMA ChatTypingStays ==
  ASSUME TypingChat, UNCHANGED <<setting, quoteVars>>, rows' \in Seq(Messages), Len(rows') >= Len(rows)
  PROVE  TypingChat'
<1>1. UNCHANGED <<maxSaid, isolation, view, own, attempt, confirmed>>
  BY DEF setting, quoteVars
<1>2. /\ maxSaid \in Bounds /\ isolation \in {"read committed", "repeatable read"}
      /\ own \in Seq(Messages) /\ rows \in Seq(Messages)
      /\ view \in 0 .. Len(rows) /\ attempt \in DOMAIN maxSaid /\ confirmed \in BOOLEAN
  BY DEF TypingChat
<1>3. Len(rows) \in Nat /\ Len(rows') \in Nat
  BY <1>2, LenProperties
<1>4. view \in 0 .. Len(rows')
  <2>1. \A m, n \in Nat : n >= m => \A v \in 0 .. m : v \in 0 .. n
    OBVIOUS
  <2> QED
    BY <1>2, <1>3, <2>1
<1> QED
  BY <1>1, <1>2, <1>4, MessagesStay DEF TypingChat

LEMMA SaidTypingStays ==
  ASSUME TypingSaid, maxSaid' = maxSaid, attempt' = attempt, UNCHANGED <<said, shown, waits, sending>>
  PROVE  TypingSaid'
BY MessagesStay DEF TypingSaid

LEMMA ResultTypingStays ==
  ASSUME TypingResult, maxSaid' = maxSaid, UNCHANGED <<resultVars, dropped>>,
         pc' \in {"speak", "said", "look", "append", "done"}, troubles' \in 0 .. MaxTroubles
  PROVE  TypingResult'
BY MessagesStay DEF TypingResult, resultVars

LEMMA TypingStarts == TextsFit /\ Init => Typing
<1> SUFFICES ASSUME TextsFit, Init PROVE Typing
  OBVIOUS
<1>1. maxSaid \in Seq(Nat) /\ maxSaid # <<>> /\ maxSaid \in Bounds
  BY DEF TextsFit, Init
<1>2. 1 \in DOMAIN maxSaid /\ maxSaid[1] \in Nat
  BY <1>1
<1>3. <<>> \in Seq(Messages) /\ <<>> \in Seq(Notices) /\ Len(<<>>) = 0
  BY EmptySeq
<1>4. TypingChat
  <2>1. /\ isolation \in {"read committed", "repeatable read"} /\ rows = <<>> /\ own = <<>>
        /\ view = 0 /\ attempt = 1 /\ confirmed = FALSE
    BY DEF Init
  <2>2. view = 0 /\ Len(rows) = 0
    BY <1>3, <2>1
  <2> QED
    <3>1. view \in 0 .. Len(rows)
      BY <2>2
    <3>2. rows \in Seq(Messages) /\ own \in Seq(Messages)
      BY <1>3, <2>1
    <3>3. attempt \in DOMAIN maxSaid /\ confirmed \in BOOLEAN
      BY <1>2, <2>1
    <3> QED
      BY <1>1, <2>1, <3>1, <3>2, <3>3 DEF TypingChat
<1>5. TypingSaid
  <2>1. said = <<>> /\ waits = FALSE /\ sending = {} /\ shown = {} /\ attempt = 1
    BY DEF Init
  <2>2. Len(said) <= maxSaid[attempt]
    BY <1>2, <1>3, <2>1
  <2> QED
    BY <1>3, <2>1, <2>2 DEF TypingSaid
<1>6. TypingResult
  <2>1. /\ kept = <<>> /\ seen = {} /\ dropped = {} /\ answer = Nothing /\ pc = "speak" /\ troubles = 0
    BY DEF Init
  <2>2. MaxTroubles \in Nat
    BY DEF TextsFit
  <2> QED
    BY <2>1, <2>2, <1>3 DEF TypingResult, Nothing, Carried
<1> QED
  BY <1>4, <1>5, <1>6 DEF Typing

LEMMA SettleTyped ==
  ASSUME Typing, NEW s \in sending, NEW ok \in BOOLEAN, Settle(s, ok),
         maxSaid' = maxSaid, attempt' = attempt, shown' = shown
  PROVE  TypingSaid'
<1>1. said' \in Seq(Notices) /\ Len(said') = Len(said) /\ sending' = sending \ {s}
  BY SettleEffect
<1>2. waits' = FALSE \/ (waits' = waits /\ said' = said)
  BY SettleEffect
<1>3. /\ Len(said) <= maxSaid[attempt] /\ waits \in BOOLEAN /\ (waits => said # <<>>)
      /\ sending \subseteq [notice : Notices, looked : BOOLEAN] /\ shown \subseteq Texts
  BY DEF Typing, TypingSaid
<1>4. waits' \in BOOLEAN /\ (waits' => said' # <<>>)
  <2>1. CASE waits' = FALSE
    BY <2>1
  <2>2. CASE waits' = waits /\ said' = said
    BY <2>2, <1>3
  <2> QED
    BY <1>2, <2>1, <2>2
<1> QED
  BY <1>1, <1>3, <1>4, MessagesStay DEF TypingSaid

LEMMA TypingStep ==
  ASSUME TextsFit, Typing, ShownSaid, [Next]_vars,
         pc = "append" => kept # <<>>, pc = "look" => ~waits
  PROVE  Typing'
<1>b. /\ maxSaid \in Seq(Nat) /\ Len(maxSaid) \in Nat /\ maxSaid[attempt] \in Nat
      /\ attempt \in 1 .. Len(maxSaid)
  <2>1. maxSaid \in Seq(Nat) /\ attempt \in DOMAIN maxSaid
    BY DEF TextsFit, Typing, TypingChat
  <2>2. Len(maxSaid) \in Nat /\ DOMAIN maxSaid = 1 .. Len(maxSaid)
    BY <2>1, LenProperties
  <2> QED
    BY <2>1, <2>2, ElementOfSeq
<1>c. rows \in Seq(Messages) /\ Len(rows) \in Nat /\ own \in Seq(Messages)
  BY LenProperties DEF Typing, TypingChat
<1>t. troubles \in 0 .. MaxTroubles /\ MaxTroubles \in Nat
  BY DEF TextsFit, Typing, TypingResult
<1>p. pc \in {"speak", "said", "look", "append", "done"}
  BY DEF Typing, TypingResult
<1>u. ASSUME rows' = rows PROVE rows' \in Seq(Messages) /\ Len(rows') >= Len(rows)
  BY <1>u, <1>c
<1>1. ASSUME SayBefore \/ SayDate \/ SayLast \/ SayAfter PROVE Typing'
  <2>1. PICK n : Says(n)
    BY <1>1, SayingSays
  <2>2. /\ UNCHANGED <<setting, rows, quoteVars, resultVars, dropped>> /\ troubles' = troubles
        /\ maxSaid' = maxSaid /\ attempt' = attempt
        /\ n \in Notices /\ said' = Append(said, n) /\ pc' \in {"speak", "said"}
        /\ Len(said) < maxSaid[attempt]
    BY <2>1 DEF Says, setting, quoteVars
  <2>3. said \in Seq(Notices) /\ Len(said) \in Nat
    BY LenProperties DEF Typing, TypingSaid
  <2>4. said' \in Seq(Notices) /\ Len(said') <= maxSaid[attempt] /\ said' # <<>>
    BY <2>2, <2>3, <1>b, SMTT(30)
  <2>5. shown' \subseteq Texts
    BY <2>1, <2>2 DEF Says, Typing, TypingSaid, Notices
  <2>6. waits' \in BOOLEAN /\ sending' \subseteq [notice : Notices, looked : BOOLEAN]
    <3>1. waits \in BOOLEAN /\ sending \subseteq [notice : Notices, looked : BOOLEAN]
      BY DEF Typing, TypingSaid
    <3>2. [notice |-> n, looked |-> FALSE] \in [notice : Notices, looked : BOOLEAN]
      BY <2>2
    <3>3. \/ waits' = TRUE /\ sending' = sending \cup {[notice |-> n, looked |-> FALSE]}
          \/ waits' = waits /\ sending' = sending
      BY <2>1 DEF Says
    <3> QED
      BY <3>1, <3>2, <3>3, Zenon
  <2>7. TypingSaid'
    BY <2>2, <2>4, <2>5, <2>6, MessagesStay DEF TypingSaid
  <2>8. TypingChat'
    BY <2>2, <1>u, ChatTypingStays DEF Typing
  <2>9. TypingResult'
    BY <2>2, <1>t, ResultTypingStays DEF Typing
  <2> QED
    BY <2>7, <2>8, <2>9 DEF Typing
<1>2. CASE WaitedEnough
  <2>1. /\ UNCHANGED <<setting, rows, quoteVars, pc, said, shown, sending, resultVars, dropped>>
        /\ maxSaid' = maxSaid /\ attempt' = attempt /\ waits' = FALSE
        /\ troubles < MaxTroubles /\ troubles' = troubles + 1
    BY <1>2 DEF WaitedEnough, setting, quoteVars
  <2>2. TypingSaid'
    BY <2>1, MessagesStay DEF Typing, TypingSaid
  <2>3. TypingChat'
    BY <2>1, <1>u, ChatTypingStays DEF Typing
  <2>4. troubles' \in 0 .. MaxTroubles
    BY <2>1, <1>t
  <2>5. TypingResult'
    BY <2>1, <2>4, <1>p, ResultTypingStays DEF Typing
  <2> QED
    BY <2>2, <2>3, <2>5 DEF Typing
<1>3. ASSUME NEW s \in sending, Look(s) PROVE Typing'
  <2>1. /\ UNCHANGED <<setting, rows, quoteVars, pc, shown, resultVars, dropped, troubles>>
        /\ maxSaid' = maxSaid /\ attempt' = attempt /\ shown' = shown
    BY <1>3 DEF Look, setting, quoteVars
  <2>2. ASSUME Settle(s, TRUE) PROVE TypingSaid'
    BY <2>1, <2>2, SettleTyped
  <2>3. ASSUME sending' = (sending \ {s}) \cup {[s EXCEPT !.looked = TRUE]},
               UNCHANGED <<said, waits>>
        PROVE  TypingSaid'
    <3>1. sending' \subseteq [notice : Notices, looked : BOOLEAN]
      BY <2>3 DEF Typing, TypingSaid
    <3> QED
      BY <2>1, <2>3, <3>1, MessagesStay DEF Typing, TypingSaid
  <2>4. TypingSaid'
    BY <1>3, <2>2, <2>3, Zenon DEF Look
  <2>5. TypingChat'
    BY <2>1, <1>u, ChatTypingStays DEF Typing
  <2>6. TypingResult'
    BY <2>1, <1>t, <1>p, ResultTypingStays DEF Typing
  <2> QED
    BY <2>4, <2>5, <2>6 DEF Typing
<1>4. ASSUME NEW s \in sending, AppendNotice(s) PROVE Typing'
  <2>1. /\ UNCHANGED <<setting, quoteVars, pc, shown, resultVars, dropped, troubles>>
        /\ maxSaid' = maxSaid /\ attempt' = attempt /\ shown' = shown /\ Settle(s, TRUE)
        /\ rows' = rows \/ rows' = Append(rows, Row(s.notice))
    BY <1>4 DEF AppendNotice, setting, quoteVars
  <2>2. rows' \in Seq(Messages) /\ Len(rows') >= Len(rows)
    <3>1. s.notice \in Notices
      BY DEF Typing, TypingSaid
    <3>2. Row(s.notice) \in Messages
      BY <3>1, RowTyped
    <3> QED
      BY <2>1, <3>2, <1>c
  <2>3. TypingSaid'
    BY <2>1, SettleTyped
  <2>4. TypingChat'
    BY <2>1, <2>2, ChatTypingStays DEF Typing
  <2>5. TypingResult'
    BY <2>1, <1>t, <1>p, ResultTypingStays DEF Typing
  <2> QED
    BY <2>3, <2>4, <2>5 DEF Typing
<1>5. ASSUME NEW s \in sending, PublishFails(s) PROVE Typing'
  <2>1. /\ UNCHANGED <<setting, rows, quoteVars, pc, shown, resultVars, dropped>>
        /\ maxSaid' = maxSaid /\ attempt' = attempt /\ shown' = shown /\ Settle(s, FALSE)
        /\ troubles < MaxTroubles /\ troubles' = troubles + 1
    BY <1>5 DEF PublishFails, setting, quoteVars
  <2>2. TypingSaid'
    BY <2>1, SettleTyped
  <2>3. TypingChat'
    BY <2>1, <1>u, ChatTypingStays DEF Typing
  <2>4. troubles' \in 0 .. MaxTroubles
    BY <2>1, <1>t
  <2>5. TypingResult'
    BY <2>1, <2>4, <1>p, ResultTypingStays DEF Typing
  <2> QED
    BY <2>2, <2>3, <2>5 DEF Typing
<1>6. CASE Returned
  <2>1. PICK q \in 0 .. Len(said) : q <= Carried /\ kept' = SubSeq(said, 1, q)
    BY <1>6, ReturnedCarries
  <2>2. kept' \in Seq(Notices) /\ Len(kept') <= Carried
    <3>1. said \in Seq(Notices) /\ Len(said) \in Nat
      BY LenProperties DEF Typing, TypingSaid
    <3>2. \A i \in 1 .. q : said[i] \in Notices
      BY <3>1, ElementOfSeq
    <3>3. kept' \in Seq(Notices) /\ Len(kept') = IF 1 <= q THEN q - 1 + 1 ELSE 0
      BY <2>1, <3>1, <3>2, SubSeqProperties
    <3> QED
      BY <2>1, <3>1, <3>3 DEF Carried
  <2>3. /\ pc' = "look" /\ seen' = {} /\ dropped' \subseteq Texts
        /\ UNCHANGED <<setting, rows, quoteVars, adapterVars, sending, troubles>>
        /\ answer'.text \in Texts \cup {Own}
        /\ answer'.kind = "duplicate" => answer'.text \in Texts
    BY <1>6, ReturnedCarries
  <2>4. maxSaid' = maxSaid /\ attempt' = attempt /\ UNCHANGED <<said, shown, waits, sending>>
    BY <2>3 DEF setting, quoteVars, adapterVars
  <2>5. TypingSaid'
    BY <2>4, SaidTypingStays DEF Typing
  <2>6. TypingChat'
    BY <2>3, <1>u, ChatTypingStays DEF Typing
  <2>7. TypingResult'
    BY <2>2, <2>3, <2>4, <1>t, MessagesStay DEF TypingResult
  <2> QED
    BY <2>5, <2>6, <2>7 DEF Typing
<1>h. ASSUME kept # <<>>
      PROVE  Head(kept) \in Notices /\ Tail(kept) \in Seq(Notices) /\ Len(Tail(kept)) <= Carried
  <2>1. kept \in Seq(Notices) /\ Len(kept) <= 3 /\ Len(kept) \in Nat
    BY LenProperties DEF Typing, TypingResult, Carried
  <2>2. Head(kept) \in Notices /\ Tail(kept) \in Seq(Notices) /\ Len(Tail(kept)) = Len(kept) - 1
    BY <1>h, <2>1
  <2> QED
    BY <2>1, <2>2 DEF Carried
<1>7. CASE LookKept
  <2>1. /\ UNCHANGED <<setting, rows, quoteVars, adapterVars, sending, answer, dropped, troubles>>
        /\ kept # <<>> /\ pc = "look"
        /\ seen' = seen \/ seen' = seen \cup {Head(kept).text}
        /\ kept' = kept \/ kept' = Tail(kept)
        /\ pc' = pc \/ pc' = "append"
    BY <1>7 DEF LookKept
  <2>2. seen' \subseteq Texts
    BY <2>1, <1>h DEF Typing, TypingResult, Notices
  <2>3. maxSaid' = maxSaid /\ attempt' = attempt /\ UNCHANGED <<said, shown, waits, sending>>
    BY <2>1 DEF setting, quoteVars, adapterVars
  <2>4. TypingSaid'
    BY <2>3, SaidTypingStays DEF Typing
  <2>5. TypingChat'
    BY <2>1, <1>u, ChatTypingStays DEF Typing
  <2>6. kept' \in Seq(Notices) /\ Len(kept') <= Carried
    BY <2>1, <1>h DEF Typing, TypingResult
  <2>7. TypingResult'
    BY <2>1, <2>2, <2>3, <2>6, MessagesStay DEF Typing, TypingResult
  <2> QED
    BY <2>4, <2>5, <2>7 DEF Typing
<1>8. CASE AppendKept
  <2>1. /\ UNCHANGED <<setting, rows, view, attempt, confirmed, adapterVars, sending, answer, seen, dropped, troubles>>
        /\ kept # <<>> /\ kept' = Tail(kept) /\ pc' = "look"
        /\ own' = own \/ own' = Append(own, Row(Head(kept)))
    BY <1>8 DEF AppendKept, Appended
  <2>2. own' \in Seq(Messages)
    <3>1. Row(Head(kept)) \in Messages
      BY <2>1, <1>h, RowTyped
    <3> QED
      BY <2>1, <3>1, <1>c
  <2>3. /\ maxSaid' = maxSaid /\ isolation' = isolation /\ UNCHANGED <<attempt, said, shown, waits, sending>>
    BY <2>1 DEF setting, adapterVars
  <2>4. TypingSaid'
    BY <2>3, SaidTypingStays DEF Typing
  <2>5. TypingChat'
    BY <2>1, <2>2, <2>3, MessagesStay DEF Typing, TypingChat
  <2>6. kept' \in Seq(Notices) /\ Len(kept') <= Carried
    BY <2>1, <1>h
  <2>7. TypingResult'
    BY <2>1, <2>3, <2>6, MessagesStay DEF Typing, TypingResult
  <2> QED
    BY <2>4, <2>5, <2>7 DEF Typing
<1>9. CASE Respond
  <2>1. PICK messages : Responds(messages)
    BY <1>9, RespondResponds
  <2>2. /\ maxSaid' = maxSaid /\ isolation' = isolation /\ rows' = rows \o messages /\ own' = <<>>
        /\ kept' = <<>> /\ seen' = {} /\ UNCHANGED <<sending, dropped, troubles, waits>>
        /\ pc = "look"
    BY <2>1 DEF Responds, setting
  <2>3. messages \in Seq(Messages)
    <3>1. messages = own \/ \E m \in Messages : messages = Append(own, m)
      BY <2>1 DEF Responds
    <3> QED
      BY <3>1, <1>c
  <2>4. rows' \in Seq(Messages) /\ Len(rows') \in Nat /\ Len(rows') = Len(rows) + Len(messages)
        /\ Len(messages) \in Nat
    BY <2>2, <2>3, <1>c, ConcatProperties, LenProperties
  <2>5. <<>> \in Seq(Messages) /\ <<>> \in Seq(Notices) /\ Len(<<>>) = 0
    BY EmptySeq
  <2>6. CASE pc' = "done" /\ UNCHANGED <<view, attempt, confirmed, adapterVars, answer>>
    <3>1. UNCHANGED <<view, attempt, confirmed, said, shown, waits, sending, answer>>
      BY <2>2, <2>6 DEF adapterVars
    <3>2. view \in 0 .. Len(rows')
      <4>1. view \in 0 .. Len(rows)
        BY DEF Typing, TypingChat
      <4> QED
        BY <4>1, <2>4, <1>c
    <3>3. TypingChat'
      BY <2>2, <2>4, <2>5, <3>1, <3>2, MessagesStay DEF Typing, TypingChat
    <3>4. TypingSaid'
      BY <2>2, <3>1, SaidTypingStays DEF Typing
    <3>5. Len(kept') <= Carried /\ kept' \in Seq(Notices)
      BY <2>2, <2>5 DEF Carried
    <3>6. TypingResult'
      BY <2>2, <2>6, <3>1, <3>5, MessagesStay DEF Typing, TypingResult
    <3> QED
      BY <3>3, <3>4, <3>6 DEF Typing
  <2>7. CASE /\ pc' = "speak" /\ said' = <<>> /\ shown' = {} /\ view' = Len(rows')
             /\ attempt < Len(maxSaid) /\ attempt' = attempt + 1 /\ confirmed' \in BOOLEAN
             /\ answer' = Nothing
    <3>1. attempt' \in 1 .. Len(maxSaid) /\ maxSaid[attempt'] \in Nat
      BY <2>7, <1>b
    <3>2. view' \in 0 .. Len(rows')
      BY <2>4, <2>7
    <3>3. TypingChat'
      <4>1. attempt' \in DOMAIN maxSaid
        BY <3>1, <1>b
      <4> QED
        BY <2>2, <2>4, <2>5, <2>7, <3>2, <4>1, MessagesStay DEF Typing, TypingChat
    <3>4. said' \in Seq(Notices) /\ Len(said') <= maxSaid[attempt']
      BY <2>5, <2>7, <3>1
    <3>5. waits' = FALSE
      BY <2>2 DEF Typing, TypingSaid
    <3>6. TypingSaid'
      BY <2>2, <2>7, <3>4, <3>5, MessagesStay DEF Typing, TypingSaid
    <3>7. Len(kept') <= Carried /\ kept' \in Seq(Notices)
      BY <2>2, <2>5 DEF Carried
    <3>8. TypingResult'
      BY <2>2, <2>7, <3>7, MessagesStay DEF Typing, TypingResult, Nothing
    <3> QED
      BY <3>3, <3>6, <3>8 DEF Typing
  <2> QED
    BY <2>1, <2>6, <2>7 DEF Responds
<1>10. CASE UNCHANGED vars
  <2>1. /\ UNCHANGED <<setting, rows, quoteVars, pc, said, shown, waits, sending, resultVars, dropped, troubles>>
        /\ maxSaid' = maxSaid /\ attempt' = attempt
    BY <1>10 DEF vars, setting, quoteVars, resultVars
  <2> QED
    BY <2>1, <1>u, <1>t, <1>p, ChatTypingStays, SaidTypingStays, ResultTypingStays DEF Typing
<1> QED
  BY <1>1, <1>2, <1>3, <1>4, <1>5, <1>6, <1>7, <1>8, <1>9, <1>10 DEF Next

-----------------------------------------------------------------------------
(***************************************************************************)
(* The inductive invariant.  A notice of the attempt is in the chat, still *)
(* with the result, dropped, or about the same as an earlier one; while    *)
(* nothing has failed, one is published at a time, and what is not         *)
(* published is part of one that was.                                      *)
(***************************************************************************)
Chat == rows \o own

Known(chat, text) == \E m \in Elements(chat) : Related(m.text, text)
Fresh(chat, text) == \A m \in Elements(chat) : ~Repeats(m.text, text)

\* An earlier notice contains this one or is part of it.
Earlier(notices, i) == \E j \in 1 .. (i - 1) : Related(notices[j].text, notices[i].text)

\* An earlier notice that the rounds published contains it.
Covered(notices, i) ==
  \E j \in 1 .. (i - 1) :
    notices[j].emitted /\ <<notices[j].text, notices[i].text>> \in Contains

Phases ==
  /\ pc \in {"speak", "said", "done"} => own = <<>>
  /\ pc \in {"look", "append", "done"} => ~waits
  /\ pc = "append" => kept # <<>> /\ ~Head(kept).emitted
  /\ pc # "done" => \A m \in Elements(Chat) : m.type # "answer" /\ m.text \in Texts

Spoken ==
  /\ ShownSaid
  /\ \A i \in 1 .. Len(said) : said[i].emitted => Known(Chat, said[i].text) \/ Earlier(said, i)

\* The result still has the notices from p to q; those before p are dealt with.
Carries(p, q) ==
  /\ kept = SubSeq(said, p, q)
  /\ \A j \in 1 .. (p - 1) : said[j].emitted => said[j].text \in seen
  /\ \A text \in seen : \E j \in 1 .. p :
       said[j].text = text /\ (j = p => pc = "append")
  /\ \A j \in 1 .. Len(said) : ~said[j].emitted =>
       j \in p .. q \/ Known(Chat, said[j].text) \/ said[j].text \in dropped \/ Earlier(said, j)

Carrying ==
  pc \in {"look", "append"} => \E q \in 0 .. Len(said) : \E p \in 1 .. (q + 1) : Carries(p, q)

Settled ==
  pc = "done" =>
    \A j \in 1 .. Len(said) : ~said[j].emitted =>
      Known(Chat, said[j].text) \/ said[j].text \in dropped \/ Earlier(said, j)

Accounted == Phases /\ Spoken /\ Carrying /\ Settled

OneAtATime ==
  IF waits
  THEN /\ pc \in {"speak", "said"}
       /\ ~said[Len(said)].emitted
       /\ \E looked \in BOOLEAN :
            /\ sending = {[notice |-> said[Len(said)], looked |-> looked]}
            /\ looked => ~Persisted(rows, said[Len(said)].text)
       /\ \A i \in 1 .. (Len(said) - 1) : ~said[i].emitted => said[i].text # said[Len(said)].text
  ELSE sending = {}

Pending(i) == waits /\ i = Len(said)

\* What the rounds tried to publish they published, or are still publishing ...
ShownPublished ==
  \A text \in shown : \E j \in 1 .. Len(said) :
    said[j].text = text /\ (said[j].emitted \/ Pending(j))

\* ... and the notices they kept back are part of one of these.
UnpublishedCovered ==
  \A i \in 1 .. Len(said) : ~said[i].emitted =>
    Pending(i) \/ (Covered(said, i) /\ \E text \in shown : <<text, said[i].text>> \in Contains)

\* Rows the snapshot does not show are notices of this attempt, and none kept back
\* before them says the same.
NewRows ==
  pc # "done" =>
    \A r \in (view + 1) .. Len(rows) : \E j \in 1 .. Len(said) :
      /\ said[j].emitted /\ said[j].text = rows[r].text
      /\ \A i \in 1 .. (j - 1) : ~said[i].emitted => said[i].text # said[j].text

Once(level, chat) ==
  \A i, j \in 1 .. Len(chat) : i < j /\ Repeats(chat[i].text, chat[j].text) =>
    level = "repeatable read" /\ chat[j].type \in {"answer", "duplicate_quote_notice"}

Quietly ==
  /\ OneAtATime /\ ShownPublished /\ UnpublishedCovered /\ NewRows
  /\ Once(isolation, Chat)
  /\ pc = "append" => Fresh(Chat, Head(kept).text)

IInv == Typing /\ Accounted /\ (troubles = 0 => Quietly)

-----------------------------------------------------------------------------
\* Texts that contain one another.
LEMMA RelatedSelf ==
  ASSUME TextsFit
  PROVE  /\ \A text \in Texts : Related(text, text)
         /\ \A a, b : Related(a, b) => Related(b, a)
         /\ \A a \in Texts : \A b : Overlaps(a, b) \/ Overlaps(b, a) => Related(a, b)
BY DEF TextsFit, Related, Overlaps

\* A look that finds the text has found it in the chat, and one that does not finds
\* nothing that repeats it.
LEMMA LookTells ==
  ASSUME TextsFit, NEW messages, NEW text \in Texts
  PROVE  /\ Persisted(messages, text) => Known(messages, text)
         /\ (\A m \in Elements(messages) : m.type # "answer") /\ ~Persisted(messages, text)
              => Fresh(messages, text)
BY RelatedSelf DEF Persisted, Known, Fresh, Repeats, Overlaps, Related

LEMMA KnownGrows ==
  ASSUME NEW chat, NEW more, Elements(chat) \subseteq Elements(more), NEW text, Known(chat, text)
  PROVE  Known(more, text)
BY DEF Known

\* The key of a notice includes its text.
LEMMA RefusedTells ==
  ASSUME TextsFit, NEW messages, NEW n \in Notices, n.text \in Texts, Refused(messages, n)
  PROVE  Known(messages, n.text) /\ ~Fresh(messages, n.text)
         /\ Persisted(messages, n.text)
<1>1. PICK m \in Elements(messages) : Key(m) = Key(n)
  BY DEF Refused
<1>2. m.text = n.text
  BY <1>1 DEF Key
<1> QED
  BY <1>1, <1>2, RelatedSelf DEF Known, Fresh, Repeats, Persisted

LEMMA NoticeText == ASSUME NEW n \in Notices PROVE n.text \in Texts /\ n.emitted \in BOOLEAN
BY DEF Notices

LEMMA ChatIs ==
  ASSUME Typing
  PROVE  /\ Chat \in Seq(Messages) /\ Len(Chat) = Len(rows) + Len(own)
         /\ Elements(Chat) = Elements(rows) \cup Elements(own)
         /\ own = <<>> => Chat = rows
         /\ rows \in Seq(Messages) /\ own \in Seq(Messages)
         /\ Len(rows) \in Nat /\ Len(own) \in Nat
         /\ \A i \in 1 .. Len(rows) : Chat[i] = rows[i]
<1>1. rows \in Seq(Messages) /\ own \in Seq(Messages)
  BY DEF Typing, TypingChat
<1>2. Len(rows) \in Nat /\ Len(own) \in Nat
  BY <1>1, LenProperties
<1>3. /\ Chat \in Seq(Messages) /\ Len(Chat) = Len(rows) + Len(own)
      /\ \A i \in 1 .. Len(rows) + Len(own) : Chat[i] = IF i <= Len(rows) THEN rows[i] ELSE own[i - Len(rows)]
  BY <1>1, ConcatProperties DEF Chat
<1>4. own = <<>> => Chat = rows
  BY <1>1, ConcatEmptySeq DEF Chat
<1> QED
  BY <1>1, <1>2, <1>3, <1>4, ElementsConcat DEF Chat

LEMMA SaidIs ==
  ASSUME Typing
  PROVE  /\ said \in Seq(Notices) /\ Len(said) \in Nat
         /\ \A i \in 1 .. Len(said) : said[i] \in Notices /\ said[i].text \in Texts
         /\ waits => Len(said) \in 1 .. Len(said)
<1>1. said \in Seq(Notices) /\ Len(said) \in Nat /\ (waits => said # <<>>)
  BY LenProperties DEF Typing, TypingSaid
<1>2. said # <<>> => Len(said) \in 1 .. Len(said)
  BY <1>1, EmptySeq
<1> QED
  BY <1>1, <1>2, ElementOfSeq, NoticeText

\* The visible part of the chat.
LEMMA VisibleIs ==
  ASSUME Typing
  PROVE  /\ Elements(Visible) \subseteq Elements(Chat)
         /\ isolation = "read committed" => Visible = Chat
         /\ \A m \in Elements(Chat) : m \in Elements(Visible) \/
              \E r \in (view + 1) .. Len(rows) : rows[r] = m
<1>1. CASE isolation = "read committed"
  BY <1>1 DEF Visible, Chat
<1>2. CASE isolation # "read committed"
  <2> DEFINE old == SubSeq(rows, 1, view)
  <2>1. rows \in Seq(Messages) /\ own \in Seq(Messages) /\ Len(rows) \in Nat
    BY ChatIs
  <2>2. view \in 0 .. Len(rows)
    BY DEF Typing, TypingChat
  <2>3. \A i \in 1 .. view : rows[i] \in Messages
    BY <2>1, <2>2, ElementOfSeq
  <2>4. /\ old \in Seq(Messages) /\ Len(old) = IF 1 <= view THEN view - 1 + 1 ELSE 0
        /\ \A i \in 1 .. view - 1 + 1 : old[i] = rows[1 + i - 1]
    BY <2>2, <2>3, SubSeqProperties
  <2>5. Len(old) = view /\ \A i \in 1 .. view : old[i] = rows[i]
    BY <2>2, <2>4
  <2> HIDE DEF old
  <2>6. Elements(old) \subseteq Elements(rows)
    <3>1. \A e \in Elements(old) : \E i \in 1 .. view : rows[i] = e
      <4>1. \A e \in Elements(old) : \E i \in 1 .. Len(old) : old[i] = e
        BY <2>4, ElementsIn
      <4> QED
        BY <2>5, <4>1
    <3>2. \A i \in 1 .. view : rows[i] \in Elements(rows)
      BY <2>1, <2>2, ElementsIn
    <3> QED
      BY <3>1, <3>2
  <2>7. \A m \in Elements(rows) : m \in Elements(old) \/ \E r \in (view + 1) .. Len(rows) : rows[r] = m
    <3>1. \A m \in Elements(rows) : \E i \in 1 .. Len(rows) : rows[i] = m
      BY <2>1, ElementsIn
    <3>2. \A i \in 1 .. view : rows[i] \in Elements(old)
      BY <2>4, <2>5, ElementsIn
    <3>3. \A i \in 1 .. Len(rows) : i \in 1 .. view \/ i \in (view + 1) .. Len(rows)
      BY <2>1, <2>2
    <3> QED
      BY <3>1, <3>2, <3>3
  <2>8. Elements(Visible) = Elements(old) \cup Elements(own)
    BY <1>2, <2>1, <2>4, ElementsConcat, ZenonT(40) DEF Visible, old
  <2>9. Elements(Chat) = Elements(rows) \cup Elements(own)
    BY ChatIs
  <2> QED
    BY <1>2, <2>6, <2>7, <2>8, <2>9
<1> QED
  BY <1>1, <1>2

-----------------------------------------------------------------------------
(***************************************************************************)
(* Every notice is accounted for.                                          *)
(***************************************************************************)

\* Indices below an index of a sequence are indices of it.
LEMMA EarlierHolds ==
  ASSUME NEW n \in Nat, NEW i \in 1 .. n
  PROVE  /\ \A j \in 1 .. (i - 1) : j \in 1 .. n /\ j < i
         /\ \A j \in 1 .. n : j < i => j \in 1 .. (i - 1)
OBVIOUS

LEMMA AccountedStarts == TextsFit /\ Init => Accounted
<1> SUFFICES ASSUME TextsFit, Init PROVE Accounted
  OBVIOUS
<1>1. /\ rows = <<>> /\ own = <<>> /\ pc = "speak" /\ said = <<>> /\ shown = {} /\ waits = FALSE
  BY DEF Init
<1>2. Chat = <<>>
  BY <1>1 DEF Chat
<1>3. Phases
  BY <1>1, <1>2, EmptyElements DEF Phases
<1>4. Spoken
  BY <1>1, EmptySeq DEF Spoken, ShownSaid
<1>5. Carrying /\ Settled
  BY <1>1 DEF Carrying, Settled
<1> QED
  BY <1>3, <1>4, <1>5 DEF Accounted

\* A step that leaves the attempt alone but for messages that come into the chat.
LEMMA AccountedStays ==
  ASSUME Accounted, UNCHANGED <<pc, said, shown, kept, seen, dropped>>,
         own' = own \/ pc = "append",
         Elements(Chat) \subseteq Elements(Chat'),
         \A m \in Elements(Chat') : m \in Elements(Chat) \/ (m.type # "answer" /\ m.text \in Texts),
         waits' => waits
  PROVE  Accounted'
<1>k. ASSUME NEW text, Known(Chat, text) PROVE Known(Chat', text)
  BY <1>k, KnownGrows
<1>1. Phases'
  BY DEF Accounted, Phases
<1>2. Spoken'
  BY <1>k DEF Accounted, Spoken, ShownSaid
<1>3. ASSUME NEW p, NEW q, Carries(p, q) PROVE Carries(p, q)'
  BY <1>3, <1>k DEF Carries
<1>4. Carrying'
  BY <1>3 DEF Accounted, Carrying
<1>5. Settled'
  BY <1>k DEF Accounted, Settled
<1> QED
  BY <1>1, <1>2, <1>4, <1>5 DEF Accounted

LEMMA AccountedSays ==
  ASSUME TextsFit, Typing, Accounted, NEW n, Says(n)
  PROVE  Accounted'
<1>1. /\ pc = "speak" /\ pc' \in {"speak", "said"} /\ n \in Notices /\ said' = Append(said, n)
      /\ UNCHANGED <<rows, own, kept, seen, dropped>>
  BY DEF Says, quoteVars, resultVars
<1>2. said \in Seq(Notices) /\ Len(said) \in Nat
  BY SaidIs
<1>3. /\ Len(said') = Len(said) + 1 /\ said'[Len(said) + 1] = n
      /\ \A i \in 1 .. Len(said) : said'[i] = said[i]
  BY <1>1, <1>2
<1>4. Chat' = Chat
  BY <1>1 DEF Chat
<1>5. Phases'
  BY <1>1, <1>4 DEF Accounted, Phases
<1>6. ShownSaid /\ ShownSaid'
  <2>1. ShownSaid
    BY DEF Accounted, Spoken
  <2>2. DOMAIN said = 1 .. Len(said) /\ DOMAIN said' = 1 .. (Len(said) + 1)
    BY <1>1, <1>2
  <2>3. shown' \subseteq shown \cup {n.text}
    BY DEF Says
  <2>4. Len(said) + 1 \in 1 .. (Len(said) + 1) /\ \A i \in 1 .. Len(said) : i \in 1 .. (Len(said) + 1)
    BY <1>2
  <2>5. ASSUME NEW text \in shown' PROVE \E i \in DOMAIN said' : said'[i].text = text
    <3>1. CASE text = n.text
      BY <3>1, <2>2, <2>4, <1>3
    <3>2. CASE text \in shown
      BY <3>2, <2>1, <2>2, <2>4, <1>3 DEF ShownSaid
    <3> QED
      BY <2>3, <3>1, <3>2
  <2> QED
    BY <2>1, <2>5 DEF ShownSaid
<1>7. ASSUME NEW i \in 1 .. Len(said'), said'[i].emitted
      PROVE  Known(Chat', said'[i].text) \/ Earlier(said', i)
  <2>1. CASE i \in 1 .. Len(said)
    <3>1. Known(Chat, said[i].text) \/ Earlier(said, i)
      BY <2>1, <1>3, <1>7 DEF Accounted, Spoken
    <3>2. Earlier(said, i) => Earlier(said', i)
      <4>1. \A j \in 1 .. (i - 1) : j \in 1 .. Len(said)
        BY <2>1, <1>2, EarlierHolds
      <4> QED
        BY <2>1, <4>1, <1>3 DEF Earlier
    <3> QED
      BY <2>1, <3>1, <3>2, <1>3, <1>4
  <2>2. CASE i = Len(said) + 1
    <3>1. n.emitted /\ \E text \in shown : Related(text, n.text)
      BY <2>2, <1>3, <1>7 DEF Says
    <3>2. PICK j \in DOMAIN said : Related(said[j].text, n.text)
      BY <3>1, <1>6 DEF ShownSaid
    <3>3. j \in 1 .. Len(said) /\ j \in 1 .. (i - 1)
      BY <3>2, <2>2, <1>2
    <3>4. Related(said'[j].text, said'[i].text)
      BY <3>2, <3>3, <2>2, <1>3
    <3> QED
      BY <3>3, <3>4 DEF Earlier
  <2> QED
    BY <2>1, <2>2, <1>2, <1>3
<1>8. Spoken'
  BY <1>6, <1>7 DEF Spoken
<1>9. Carrying' /\ Settled'
  BY <1>1 DEF Carrying, Settled
<1> QED
  BY <1>5, <1>8, <1>9 DEF Accounted

LEMMA AccountedSettles ==
  ASSUME TextsFit, Typing, Accounted, NEW s \in sending, NEW ok \in BOOLEAN, Settle(s, ok),
         UNCHANGED <<pc, own, shown, kept, seen, dropped>>,
         Elements(Chat) \subseteq Elements(Chat'),
         \A m \in Elements(Chat') : m \in Elements(Chat) \/ (m.type # "answer" /\ m.text \in Texts),
         ok => Known(Chat', s.notice.text)
  PROVE  Accounted'
<1>1. CASE waits' = waits /\ said' = said
  <2>1. UNCHANGED <<pc, said, shown, kept, seen, dropped>> /\ own' = own /\ (waits' => waits)
    BY <1>1
  <2> QED
    BY <2>1, AccountedStays
<1>2. CASE /\ waits /\ waits' = FALSE /\ s.notice = said[Len(said)]
           /\ said'[Len(said)].emitted = ok
  <2>1. pc \in {"speak", "said"} /\ pc' = pc
    BY <1>2 DEF Accounted, Phases, Typing, TypingResult
  <2>2. /\ said \in Seq(Notices) /\ Len(said) \in Nat /\ Len(said) \in 1 .. Len(said)
        /\ Len(said') = Len(said) /\ said' \in Seq(Notices)
        /\ \A i \in 1 .. Len(said) :
             said'[i].text = said[i].text /\ (i # Len(said) => said'[i] = said[i])
    BY <1>2, SaidIs, SettleEffect
  <2>3. Phases'
    BY <2>1 DEF Accounted, Phases
  <2>4. ShownSaid'
    <3>1. DOMAIN said' = 1 .. Len(said) /\ DOMAIN said = 1 .. Len(said)
      BY <2>2, LenProperties
    <3>2. \A text \in shown : \E i \in 1 .. Len(said) : said[i].text = text
      BY <3>1 DEF Accounted, Spoken, ShownSaid
    <3>3. \A text \in shown : \E i \in 1 .. Len(said) : said'[i].text = text
      BY <3>2, <2>2
    <3> QED
      BY <3>1, <3>3 DEF ShownSaid
  <2>5. ASSUME NEW i \in 1 .. Len(said), Earlier(said, i) PROVE Earlier(said', i)
    <3>1. \A j \in 1 .. (i - 1) : j \in 1 .. Len(said)
      BY <2>2, EarlierHolds
    <3> QED
      BY <2>5, <3>1, <2>2 DEF Earlier
  <2>6. ASSUME NEW i \in 1 .. Len(said), said'[i].emitted
        PROVE  Known(Chat', said'[i].text) \/ Earlier(said', i)
    <3>1. CASE i = Len(said)
      BY <3>1, <2>2, <2>6, <1>2
    <3>2. CASE i # Len(said)
      <4>1. Known(Chat, said[i].text) \/ Earlier(said, i)
        BY <3>2, <2>2, <2>6 DEF Accounted, Spoken
      <4> QED
        BY <4>1, <2>2, <2>5, KnownGrows
    <3> QED
      BY <3>1, <3>2
  <2>7. Spoken'
    BY <2>2, <2>4, <2>6 DEF Spoken
  <2>8. Carrying' /\ Settled'
    BY <2>1 DEF Carrying, Settled
  <2> QED
    BY <2>3, <2>7, <2>8 DEF Accounted
<1> QED
  BY <1>1, <1>2, SettleEffect

LEMMA AccountedPublishes ==
  ASSUME TextsFit, Typing, Accounted, Typing', NEW s \in sending,
         Look(s) \/ AppendNotice(s) \/ PublishFails(s)
  PROVE  Accounted'
<1>n. s.notice \in Notices /\ s.notice.text \in Texts
  BY NoticeText DEF Typing, TypingSaid
<1>1. ASSUME rows' = rows, own' = own
      PROVE  /\ Chat' = Chat /\ Elements(Chat) \subseteq Elements(Chat')
             /\ \A m \in Elements(Chat') :
                  m \in Elements(Chat) \/ (m.type # "answer" /\ m.text \in Texts)
  BY <1>1 DEF Chat
<1>2. CASE Look(s)
  <2>1. UNCHANGED <<rows, own, pc, shown, kept, seen, dropped>>
    BY <1>2 DEF Look, quoteVars, resultVars
  <2>2. ASSUME Persisted(rows, s.notice.text), Settle(s, TRUE) PROVE Accounted'
    <3>1. Known(Chat, s.notice.text)
      <4>1. Known(rows, s.notice.text)
        BY <2>2, <1>n, LookTells
      <4>2. Elements(rows) \subseteq Elements(Chat)
        BY ChatIs
      <4> QED
        BY <4>1, <4>2, KnownGrows
    <3> QED
      BY <2>1, <2>2, <3>1, <1>1, AccountedSettles
  <2>3. ASSUME UNCHANGED <<said, waits>> PROVE Accounted'
    <3>1. UNCHANGED <<pc, said, shown, kept, seen, dropped>> /\ own' = own /\ (waits' => waits)
      BY <2>1, <2>3
    <3> QED
      BY <2>1, <3>1, <1>1, AccountedStays
  <2> QED
    BY <1>2, <2>2, <2>3 DEF Look
<1>3. CASE AppendNotice(s)
  <2>1. /\ UNCHANGED <<own, pc, shown, kept, seen, dropped>> /\ Settle(s, TRUE)
        /\ rows' = IF Refused(rows, s.notice) THEN rows ELSE Append(rows, Row(s.notice))
    BY <1>3 DEF AppendNotice, quoteVars, resultVars
  <2>2. /\ Row(s.notice) \in Messages /\ Row(s.notice).text = s.notice.text
        /\ Row(s.notice).type # "answer"
    BY <1>n, RowTyped
  <2>3. CASE Refused(rows, s.notice)
    <3>1. rows' = rows
      BY <2>1, <2>3
    <3>2. Known(rows, s.notice.text)
      BY <2>3, <1>n, RefusedTells
    <3>3. Known(Chat', s.notice.text)
      BY <2>1, <3>1, <3>2, <1>1, ChatIs, KnownGrows, SMTT(30)
    <3> QED
      BY <2>1, <3>1, <3>3, <1>1, AccountedSettles
  <2>4. CASE ~Refused(rows, s.notice)
    <3>1. rows' = Append(rows, Row(s.notice)) /\ rows \in Seq(Messages) /\ own \in Seq(Messages)
      BY <2>1, <2>4, ChatIs
    <3>2. Elements(rows') = Elements(rows) \cup {Row(s.notice)}
      BY <3>1, <2>2, ElementsAppend
    <3>3. rows' \in Seq(Messages)
      BY <3>1, <2>2
    <3>4. Elements(Chat') = Elements(rows') \cup Elements(own)
      <4>1. Chat' = rows' \o own
        BY <2>1 DEF Chat
      <4> QED
        BY <3>1, <3>3, <4>1, ElementsConcat
    <3>5. Elements(Chat') = Elements(Chat) \cup {Row(s.notice)}
      BY <3>2, <3>4, ChatIs
    <3>6. Known(Chat', s.notice.text)
      BY <3>5, <2>2, <1>n, RelatedSelf DEF Known
    <3>7. \A m \in Elements(Chat') :
            m \in Elements(Chat) \/ (m.type # "answer" /\ m.text \in Texts)
      BY <3>5, <2>2, <1>n
    <3> QED
      BY <2>1, <3>5, <3>6, <3>7, AccountedSettles
  <2> QED
    BY <2>3, <2>4
<1>4. CASE PublishFails(s)
  <2>1. UNCHANGED <<rows, own, pc, shown, kept, seen, dropped>> /\ Settle(s, FALSE)
    BY <1>4 DEF PublishFails, quoteVars, resultVars
  <2> QED
    BY <2>1, <1>1, AccountedSettles
<1> QED
  BY <1>2, <1>3, <1>4

LEMMA AccountedReturns ==
  ASSUME TextsFit, Typing, Accounted, Returned
  PROVE  Accounted'
<1>1. /\ pc \in {"speak", "said"} /\ ~waits /\ pc' = "look" /\ seen' = {}
      /\ UNCHANGED <<rows, own, said, shown, waits>>
      /\ dropped \subseteq dropped'
  BY ReturnedCarries DEF quoteVars, adapterVars
<1>2. PICK q \in 0 .. Len(said) :
        /\ kept' = SubSeq(said, 1, q)
        /\ \A j \in 1 .. Len(said) : ~said[j].emitted /\ j > q =>
             said[j].text \in dropped' \/ \E i \in 1 .. q : said[i].text = said[j].text
  BY ReturnedCarries
<1>3. Chat' = Chat
  BY <1>1 DEF Chat
<1>4. Phases'
  BY <1>1, <1>3 DEF Accounted, Phases
<1>5. Spoken'
  BY <1>1, <1>3 DEF Accounted, Spoken, ShownSaid
<1>6. Len(said) \in Nat /\ \A i \in 1 .. Len(said) : said[i].text \in Texts
  BY SaidIs
<1>7. ASSUME NEW j \in 1 .. Len(said), ~said[j].emitted
      PROVE  j \in 1 .. q \/ said[j].text \in dropped' \/ Earlier(said, j)
  <2>1. CASE j > q /\ said[j].text \notin dropped'
    <3>1. PICK i \in 1 .. q : said[i].text = said[j].text
      BY <2>1, <1>2, <1>7
    <3>2. i \in 1 .. (j - 1)
      BY <2>1, <1>6
    <3> QED
      BY <3>1, <3>2, <1>6, RelatedSelf DEF Earlier
  <2> QED
    BY <2>1, <1>6
<1>8. Carries(1, q)'
  BY <1>1, <1>2, <1>7 DEF Carries
<1>9. Carrying'
  <2>1. 1 \in 1 .. (q + 1) /\ q \in 0 .. Len(said')
    BY <1>1, <1>6
  <2> QED
    BY <2>1, <1>8 DEF Carrying
<1>10. Settled'
  BY <1>1 DEF Settled
<1> QED
  BY <1>4, <1>5, <1>9, <1>10 DEF Accounted

\* What the result still carries: its first notice, and the others.
LEMMA KeptIs ==
  ASSUME NEW S, NEW s \in Seq(S), NEW q \in 0 .. Len(s), NEW p \in 1 .. (q + 1),
         SubSeq(s, p, q) # <<>>
  PROVE  /\ p \in 1 .. q /\ p \in 1 .. Len(s)
         /\ Head(SubSeq(s, p, q)) = s[p]
         /\ Tail(SubSeq(s, p, q)) = SubSeq(s, p + 1, q)
<1> DEFINE k == SubSeq(s, p, q)
           t == SubSeq(s, p + 1, q)
<1>1. Len(s) \in Nat /\ \A i \in p .. q : s[i] \in S
  BY ElementOfSeq, LenProperties
<1>2. /\ k \in Seq(S) /\ Len(k) = IF p <= q THEN q - p + 1 ELSE 0
      /\ \A i \in 1 .. q - p + 1 : k[i] = s[p + i - 1]
  BY <1>1, SubSeqProperties
<1>3. p <= q
  <2>1. Len(k) # 0
    BY <1>2, EmptySeq
  <2> QED
    BY <2>1, <1>2
<1>4. p \in 1 .. q /\ p \in 1 .. Len(s)
  BY <1>1, <1>3
<1>5. Head(k) = s[p]
  <2>1. Head(k) = k[1] /\ 1 \in 1 .. q - p + 1
    BY <1>2, <1>3, <1>4
  <2>2. k[1] = s[p + 1 - 1]
    BY <2>1, <1>2
  <2> QED
    BY <2>1, <2>2
<1>6. /\ t \in Seq(S) /\ Len(t) = IF p + 1 <= q THEN q - (p + 1) + 1 ELSE 0
      /\ \A i \in 1 .. q - (p + 1) + 1 : t[i] = s[(p + 1) + i - 1]
  <2>1. p + 1 \in 1 .. (q + 1) /\ \A i \in (p + 1) .. q : s[i] \in S
    BY <1>1, <1>3
  <2> QED
    BY <2>1, <1>1, SubSeqProperties
<1>7. /\ Tail(k) \in Seq(S) /\ Len(Tail(k)) = Len(k) - 1
      /\ \A i \in 1 .. Len(Tail(k)) : Tail(k)[i] = k[i + 1]
  <2>1. Len(k) \in Nat /\ Len(k) > 0
    BY <1>2, <1>3, <1>1
  <2> QED
    BY <2>1, <1>2, HeadTailProperties, EmptySeq
<1>8. Len(Tail(k)) = Len(t) /\ \A i \in 1 .. Len(t) : Tail(k)[i] = t[i]
  <2>1. Len(k) = q - p + 1 /\ Len(Tail(k)) = q - p
    BY <1>1, <1>2, <1>3, <1>4, <1>7
  <2>2. Len(t) = q - p
    BY <1>1, <1>3, <1>4, <1>6
  <2>3. ASSUME NEW i \in 1 .. (q - p) PROVE Tail(k)[i] = t[i]
    <3>1. i \in 1 .. Len(Tail(k)) /\ i + 1 \in 1 .. q - p + 1 /\ i \in 1 .. q - (p + 1) + 1
      BY <2>1, <1>1, <1>3, <1>4
    <3>2. Tail(k)[i] = k[i + 1] /\ k[i + 1] = s[p + (i + 1) - 1] /\ t[i] = s[(p + 1) + i - 1]
      BY <3>1, <1>2, <1>6, <1>7
    <3>3. p + (i + 1) - 1 = (p + 1) + i - 1
      BY <1>4, <3>1
    <3> QED
      BY <3>2, <3>3
  <2> QED
    BY <2>1, <2>2, <2>3
<1>9. Tail(k) = t
  BY <1>6, <1>7, <1>8, SeqEqual
<1> QED
  BY <1>4, <1>5, <1>9

\* The notice looked at is dealt with, and the next one is looked at.
LEMMA NextCarries ==
  ASSUME Typing, NEW q \in 0 .. Len(said), NEW p \in 1 .. q, Carries(p, q),
         kept' = SubSeq(said, p + 1, q), pc' = "look",
         UNCHANGED <<said, dropped>>, seen \subseteq seen', seen' \subseteq seen \cup {said[p].text},
         \A text : Known(Chat, text) => Known(Chat', text),
         said[p].emitted => said[p].text \in seen',
         ~said[p].emitted => Known(Chat', said[p].text) \/ Earlier(said, p)
  PROVE  Carries(p + 1, q)'
<1>1. Len(said) \in Nat
  BY SaidIs
<1>2. ASSUME NEW j \in 1 .. p, said[j].emitted PROVE said[j].text \in seen'
  <2>1. CASE j = p
    BY <2>1, <1>2
  <2>2. CASE j # p
    <3>1. j \in 1 .. (p - 1)
      BY <2>2, <1>1
    <3> QED
      BY <3>1, <1>2 DEF Carries
  <2> QED
    BY <2>1, <2>2
<1>3. ASSUME NEW text \in seen' PROVE \E j \in 1 .. p : said[j].text = text
  <2>1. CASE text \in seen
    BY <2>1 DEF Carries
  <2>2. CASE text = said[p].text
    BY <2>2, <1>1
  <2> QED
    BY <2>1, <2>2
<1>4. ASSUME NEW j \in 1 .. Len(said), ~said[j].emitted
      PROVE  \/ j \in (p + 1) .. q \/ Known(Chat', said[j].text)
             \/ said[j].text \in dropped \/ Earlier(said, j)
  <2>1. CASE j = p
    BY <2>1, <1>4
  <2>2. CASE j # p
    <3>1. j \in p .. q \/ Known(Chat, said[j].text) \/ said[j].text \in dropped \/ Earlier(said, j)
      BY <1>4 DEF Carries
    <3>2. j \in p .. q => j \in (p + 1) .. q
      BY <2>2, <1>1
    <3> QED
      BY <3>1, <3>2
  <2> QED
    BY <2>1, <2>2
<1>5. p + 1 - 1 = p
  BY <1>1
<1>6. \A text \in seen' : \E j \in 1 .. (p + 1) : said[j].text = text /\ (j = p + 1 => pc' = "append")
  <2>1. \A j \in 1 .. p : j \in 1 .. (p + 1) /\ j # p + 1
    BY <1>1
  <2> QED
    BY <2>1, <1>3
<1> QED
  BY <1>2, <1>4, <1>5, <1>6 DEF Carries

LEMMA NextKept ==
  ASSUME Typing, Accounted, pc \in {"look", "append"}, kept # <<>>
  PROVE  \E q \in 0 .. Len(said) : \E p \in 1 .. q :
           /\ Carries(p, q) /\ Head(kept) = said[p] /\ Tail(kept) = SubSeq(said, p + 1, q)
           /\ said[p] \in Notices /\ p \in 1 .. Len(said)
<1>q. PICK q \in 0 .. Len(said) : \E p \in 1 .. (q + 1) : Carries(p, q)
  BY DEF Accounted, Carrying
<1>2. PICK p \in 1 .. (q + 1) : Carries(p, q)
  BY <1>q
<1>3. kept = SubSeq(said, p, q) /\ said \in Seq(Notices)
  BY <1>2, SaidIs DEF Carries
<1>4. /\ p \in 1 .. q /\ p \in 1 .. Len(said)
      /\ Head(kept) = said[p] /\ Tail(kept) = SubSeq(said, p + 1, q)
  BY <1>3, KeptIs
<1> QED
  BY <1>2, <1>4, SaidIs

LEMMA AccountedLooks ==
  ASSUME TextsFit, Typing, Accounted, LookKept
  PROVE  Accounted'
<1>q. PICK q \in 0 .. Len(said) : \E p \in 1 .. q :
        /\ Carries(p, q) /\ Head(kept) = said[p] /\ Tail(kept) = SubSeq(said, p + 1, q)
        /\ said[p] \in Notices /\ p \in 1 .. Len(said)
  <2>1. pc \in {"look", "append"} /\ kept # <<>>
    BY DEF LookKept
  <2> QED
    BY <2>1, NextKept
<1>1. PICK p \in 1 .. q :
        /\ Carries(p, q) /\ Head(kept) = said[p] /\ Tail(kept) = SubSeq(said, p + 1, q)
        /\ said[p] \in Notices /\ p \in 1 .. Len(said)
  BY <1>q
<1> DEFINE n == said[p]
           known == ~n.emitted /\ \E text \in seen : Overlaps(n.text, text)
<1>2. /\ pc = "look" /\ kept # <<>>
      /\ UNCHANGED <<rows, own, said, shown, waits, dropped>>
      /\ seen' = IF known THEN seen ELSE seen \cup {n.text}
      /\ IF n.emitted \/ known \/ Persisted(Visible, n.text)
         THEN kept' = Tail(kept) /\ UNCHANGED pc
         ELSE pc' = "append" /\ UNCHANGED kept
  BY <1>1, Zenon DEF LookKept, quoteVars, adapterVars
<1>3. Chat' = Chat
  BY <1>2 DEF Chat
<1>4. n.text \in Texts /\ n.emitted \in BOOLEAN /\ Len(said) \in Nat
  BY <1>1, NoticeText, SaidIs
<1>5. Spoken'
  BY <1>2, <1>3 DEF Accounted, Spoken, ShownSaid
<1>6. ~waits'
  BY <1>2 DEF Accounted, Phases
<1>7. \A m \in Elements(Chat') : m.type # "answer" /\ m.text \in Texts
  BY <1>2, <1>3 DEF Accounted, Phases
<1>8. Settled'
  BY <1>2 DEF Settled
<1>9. known => Earlier(said, p)
  <2> SUFFICES ASSUME known PROVE Earlier(said, p)
    OBVIOUS
  <2>1. PICK text \in seen : Overlaps(n.text, text)
    OBVIOUS
  <2>2. PICK j \in 1 .. p : said[j].text = text /\ (j = p => pc = "append")
    BY <2>1, <1>1 DEF Carries
  <2>3. j \in 1 .. (p - 1)
    BY <2>2, <1>2, <1>4
  <2>4. Related(text, n.text)
    BY <2>1, <1>4, RelatedSelf
  <2> QED
    BY <2>2, <2>3, <2>4 DEF Earlier
<1>10. CASE n.emitted \/ known \/ Persisted(Visible, n.text)
  <2>1. kept' = SubSeq(said, p + 1, q) /\ pc' = "look"
    BY <1>1, <1>2, <1>10
  <2>2. Phases'
    BY <2>1, <1>6, <1>7 DEF Phases
  <2>3. ~n.emitted => Known(Chat', n.text) \/ Earlier(said, p)
    <3>1. CASE Persisted(Visible, n.text)
      <4>1. Known(Visible, n.text)
        BY <3>1, <1>4, LookTells
      <4>2. Elements(Visible) \subseteq Elements(Chat')
        BY <1>3, VisibleIs
      <4> QED
        BY <4>1, <4>2, KnownGrows
    <3> QED
      BY <3>1, <1>9, <1>10
  <2>4. n.emitted => n.text \in seen'
    BY <1>2
  <2>5. seen \subseteq seen' /\ seen' \subseteq seen \cup {n.text}
    BY <1>2
  <2>6. Carries(p + 1, q)'
    <3>1. \A text : Known(Chat, text) => Known(Chat', text)
      BY <1>3
    <3>2. UNCHANGED <<said, dropped>>
      BY <1>2
    <3> HIDE DEF known
    <3> QED
      BY <2>1, <2>3, <2>4, <2>5, <3>1, <3>2, <1>1, NextCarries
  <2>7. Carrying'
    <3>1. p + 1 \in 1 .. (q + 1) /\ q \in 0 .. Len(said')
      BY <1>2, <1>4
    <3> QED
      BY <2>6, <3>1 DEF Carrying
  <2> QED
    BY <2>2, <2>7, <1>5, <1>8 DEF Accounted
<1>11. CASE ~(n.emitted \/ known \/ Persisted(Visible, n.text))
  <2>1. pc' = "append" /\ kept' = kept /\ seen' = seen \cup {n.text}
    BY <1>2, <1>11
  <2>2. Phases'
    BY <2>1, <1>1, <1>2, <1>6, <1>7, <1>11 DEF Phases
  <2>3. Carries(p, q)'
    <3>1. kept' = SubSeq(said', p, q)
      BY <2>1, <1>1, <1>2 DEF Carries
    <3>2. \A j \in 1 .. (p - 1) : said'[j].emitted => said'[j].text \in seen'
      BY <2>1, <1>1, <1>2 DEF Carries
    <3>3. \A text \in seen' : \E j \in 1 .. p : said'[j].text = text /\ (j = p => pc' = "append")
      <4>1. p \in 1 .. p
        BY <1>4
      <4> QED
        BY <4>1, <2>1, <1>1, <1>2 DEF Carries
    <3>4. \A j \in 1 .. Len(said') : ~said'[j].emitted =>
            j \in p .. q \/ Known(Chat', said'[j].text) \/ said'[j].text \in dropped' \/ Earlier(said', j)
      BY <1>1, <1>2, <1>3 DEF Carries
    <3> QED
      BY <3>1, <3>2, <3>3, <3>4 DEF Carries
  <2>4. Carrying'
    <3>1. p \in 1 .. (q + 1) /\ q \in 0 .. Len(said')
      BY <1>2, <1>4
    <3> QED
      BY <2>3, <3>1 DEF Carrying
  <2> QED
    BY <2>2, <2>4, <1>5, <1>8 DEF Accounted
<1> QED
  BY <1>10, <1>11

\* The insert of a notice puts it into the chat, unless its id is there.
LEMMA AppendedTells ==
  ASSUME TextsFit, Typing, NEW n \in Notices, rows' = rows, own' = Appended(n)
  PROVE  /\ Elements(Chat) \subseteq Elements(Chat')
         /\ Elements(Chat') \subseteq Elements(Chat) \cup {Row(n)}
         /\ Known(Chat', n.text)
         /\ \/ Refused(Chat, n) /\ Chat' = Chat
            \/ Chat' = Append(Chat, Row(n))
<1>1. Row(n) \in Messages /\ Row(n).text = n.text /\ n.text \in Texts
  BY RowTyped, NoticeText
<1>2. CASE Refused(rows \o own, n)
  <2>1. Chat' = Chat /\ Refused(Chat, n)
    BY <1>2 DEF Appended, Chat
  <2> QED
    BY <2>1, <1>1, RefusedTells
<1>3. CASE ~Refused(rows \o own, n)
  <2>1. own' = Append(own, Row(n)) /\ rows \in Seq(Messages) /\ own \in Seq(Messages)
    BY <1>3, ChatIs DEF Appended
  <2>2. Chat' = Append(Chat, Row(n))
    BY <2>1, <1>1, AppendConcat DEF Chat
  <2>3. Elements(Chat') = Elements(Chat) \cup {Row(n)}
    BY <2>2, <1>1, ChatIs, ElementsAppend
  <2>4. Known(Chat', n.text)
    BY <2>3, <1>1, RelatedSelf DEF Known
  <2> QED
    BY <2>2, <2>3, <2>4
<1> QED
  BY <1>2, <1>3

LEMMA AccountedAppends ==
  ASSUME TextsFit, Typing, Accounted, AppendKept
  PROVE  Accounted'
<1>1. /\ pc = "append" /\ own' = Appended(Head(kept)) /\ kept' = Tail(kept) /\ pc' = "look"
      /\ UNCHANGED <<rows, said, shown, waits, seen, dropped>>
  BY DEF AppendKept, adapterVars
<1>2. kept # <<>> /\ ~Head(kept).emitted /\ ~waits
      /\ \A m \in Elements(Chat) : m.type # "answer" /\ m.text \in Texts
  BY <1>1 DEF Accounted, Phases
<1>q. PICK q \in 0 .. Len(said) : \E p \in 1 .. q :
        /\ Carries(p, q) /\ Head(kept) = said[p] /\ Tail(kept) = SubSeq(said, p + 1, q)
        /\ said[p] \in Notices /\ p \in 1 .. Len(said)
  BY <1>1, <1>2, NextKept
<1>3. PICK p \in 1 .. q :
        /\ Carries(p, q) /\ Head(kept) = said[p] /\ Tail(kept) = SubSeq(said, p + 1, q)
        /\ said[p] \in Notices /\ p \in 1 .. Len(said)
  BY <1>q
<1>4. /\ Elements(Chat) \subseteq Elements(Chat')
      /\ Elements(Chat') \subseteq Elements(Chat) \cup {Row(said[p])}
      /\ Known(Chat', said[p].text)
  BY <1>1, <1>3, AppendedTells
<1>5. Row(said[p]).type # "answer" /\ Row(said[p]).text \in Texts
  BY <1>3, RowTyped, NoticeText
<1>k. \A text : Known(Chat, text) => Known(Chat', text)
  BY <1>4, KnownGrows
<1>6. Phases'
  BY <1>1, <1>2, <1>4, <1>5 DEF Phases
<1>7. Spoken'
  BY <1>1, <1>k DEF Accounted, Spoken, ShownSaid
<1>8. Carrying'
  <2>1. Carries(p + 1, q)'
    <3>1. seen \subseteq seen' /\ seen' \subseteq seen \cup {said[p].text}
      BY <1>1
    <3>2. kept' = SubSeq(said, p + 1, q) /\ pc' = "look" /\ UNCHANGED <<said, dropped>>
      BY <1>1, <1>3
    <3>3. ~said[p].emitted
      BY <1>2, <1>3
    <3> QED
      BY <3>1, <3>2, <3>3, <1>3, <1>4, <1>k, NextCarries
  <2>2. p + 1 \in 1 .. (q + 1) /\ q \in 0 .. Len(said')
    BY <1>1, SaidIs
  <2> QED
    BY <2>1, <2>2 DEF Carrying
<1>9. Settled'
  BY <1>1 DEF Settled
<1> QED
  BY <1>6, <1>7, <1>8, <1>9 DEF Accounted

\* What is committed at the end of an attempt is the chat, and at most one message more.
LEMMA RespondsTells ==
  ASSUME Typing, NEW messages, Responds(messages)
  PROVE  \/ messages = own /\ Chat' = Chat
         \/ \E m \in Messages :
              /\ messages = Append(own, m) /\ Chat' = Append(Chat, m)
              /\ Elements(Chat') = Elements(Chat) \cup {m}
              /\ m.type = "answer" => pc' = "done"
              /\ m.type \in {"answer", "duplicate_quote_notice"}
              /\ m.type # "answer" => m.text \in Texts
              /\ m.text = Own \/ ~Persisted(Visible, m.text)
<1>1. rows \in Seq(Messages) /\ own \in Seq(Messages) /\ Chat \in Seq(Messages)
  BY ChatIs
<1>2. rows' = rows \o messages /\ own' = <<>>
  BY DEF Responds
<1>3. CASE messages = own
  <2>1. rows' = Chat
    BY <1>2, <1>3 DEF Chat
  <2> QED
    BY <2>1, <1>1, <1>2, <1>3, ConcatEmptySeq DEF Chat
<1>4. ASSUME NEW m \in Messages, messages = Append(own, m)
      PROVE  Chat' = Append(Chat, m) /\ Elements(Chat') = Elements(Chat) \cup {m}
  <2>1. rows' = Append(Chat, m)
    BY <1>1, <1>2, <1>4, AppendConcat DEF Chat
  <2>2. rows' \in Seq(Messages)
    BY <2>1, <1>1
  <2>3. Chat' = Append(Chat, m)
    BY <2>1, <2>2, <1>2, ConcatEmptySeq DEF Chat
  <2> QED
    BY <2>3, <1>1, ElementsAppend
<1> QED
  BY <1>3, <1>4 DEF Responds

\* A result that carries no more notices is through with them.
LEMMA NothingKept ==
  ASSUME Typing, NEW q \in 0 .. Len(said), NEW p \in 1 .. (q + 1), Carries(p, q), kept = <<>>
  PROVE  p .. q = {}
<1>1. said \in Seq(Notices) /\ Len(said) \in Nat /\ \A i \in p .. q : said[i] \in Notices
  BY SaidIs
<1>2. SubSeq(said, p, q) = <<>>
  BY DEF Carries
<1>3. Len(SubSeq(said, p, q)) = IF p <= q THEN q - p + 1 ELSE 0
  BY <1>1, SubSeqProperties
<1>4. ~(p <= q)
  BY <1>2, <1>3, EmptySeq
<1> QED
  BY <1>1, <1>4

LEMMA AccountedResponds ==
  ASSUME TextsFit, Typing, Accounted, Respond
  PROVE  Accounted'
<1>1. PICK messages : Responds(messages)
  BY RespondResponds
<1>2. /\ pc = "look" /\ kept = <<>> /\ own' = <<>> /\ kept' = <<>> /\ UNCHANGED <<dropped, waits>>
      /\ \/ pc' = "speak" /\ said' = <<>> /\ shown' = {}
         \/ pc' = "done" /\ UNCHANGED <<said, shown>>
  BY <1>1 DEF Responds, adapterVars
<1>3. ~waits /\ \A m \in Elements(Chat) : m.type # "answer" /\ m.text \in Texts
  BY <1>2 DEF Accounted, Phases
<1>4. /\ Elements(Chat) \subseteq Elements(Chat')
      /\ pc' # "done" => \A m \in Elements(Chat') : m.type # "answer" /\ m.text \in Texts
  BY <1>1, <1>3, RespondsTells
<1>k. \A text : Known(Chat, text) => Known(Chat', text)
  BY <1>4, KnownGrows
<1>5. Phases'
  BY <1>2, <1>3, <1>4 DEF Phases
<1>6. CASE pc' = "speak" /\ said' = <<>> /\ shown' = {}
  <2>1. Spoken'
    BY <1>6, EmptySeq DEF Spoken, ShownSaid
  <2>2. Carrying' /\ Settled'
    BY <1>6 DEF Carrying, Settled
  <2> QED
    BY <2>1, <2>2, <1>5 DEF Accounted
<1>7. CASE pc' = "done" /\ UNCHANGED <<said, shown>>
  <2>1. Spoken'
    BY <1>7, <1>k DEF Accounted, Spoken, ShownSaid
  <2>2. Carrying'
    BY <1>7 DEF Carrying
  <2>q. PICK q \in 0 .. Len(said) : \E p \in 1 .. (q + 1) : Carries(p, q)
    BY <1>2 DEF Accounted, Carrying
  <2>3. PICK p \in 1 .. (q + 1) : Carries(p, q)
    BY <2>q
  <2>4. p .. q = {}
    BY <2>3, <1>2, NothingKept
  <2>5. Settled'
    BY <2>3, <2>4, <1>2, <1>7, <1>k DEF Settled, Carries
  <2> QED
    BY <2>1, <2>2, <2>5, <1>5 DEF Accounted
<1> QED
  BY <1>2, <1>6, <1>7

LEMMA AccountedStep ==
  ASSUME TextsFit, Typing, Accounted, Typing', [Next]_vars
  PROVE  Accounted'
<1>0. ShownSaid
  BY DEF Accounted, Spoken
<1>u. ASSUME UNCHANGED <<rows, own, pc, said, shown, kept, seen, dropped>>, waits' => waits
      PROVE  Accounted'
  <2>1. Chat' = Chat
    BY <1>u DEF Chat
  <2> QED
    BY <1>u, <2>1, AccountedStays
<1>1. ASSUME SayBefore \/ SayDate \/ SayLast \/ SayAfter PROVE Accounted'
  BY <1>0, <1>1, SayingSays, AccountedSays
<1>2. CASE WaitedEnough
  <2>1. UNCHANGED <<rows, own, pc, said, shown, kept, seen, dropped>> /\ (waits' => waits)
    BY <1>2 DEF WaitedEnough, quoteVars, resultVars
  <2> QED
    BY <2>1, <1>u
<1>3. CASE UNCHANGED vars
  <2>1. UNCHANGED <<rows, own, pc, said, shown, kept, seen, dropped>> /\ (waits' => waits)
    BY <1>3 DEF vars
  <2> QED
    BY <2>1, <1>u
<1> QED
  BY <1>1, <1>2, <1>3, AccountedPublishes, AccountedReturns, AccountedLooks, AccountedAppends,
     AccountedResponds DEF Next

-----------------------------------------------------------------------------
(***************************************************************************)
(* Nothing is told twice while no publication fails or comes late.         *)
(***************************************************************************)

LEMMA AppendIs ==
  ASSUME NEW S, NEW s \in Seq(S), NEW e \in S
  PROVE  /\ Append(s, e)[Len(s) + 1] = e
         /\ \A i \in 1 .. Len(s) : Append(s, e)[i] = s[i]
         /\ \A i, j \in 1 .. Len(Append(s, e)) : i < j =>
              i \in 1 .. Len(s) /\ (j \in 1 .. Len(s) \/ j = Len(s) + 1)
<1>1. Len(s) \in Nat /\ Len(Append(s, e)) = Len(s) + 1
  BY LenProperties
<1>2. \A i, j \in 1 .. (Len(s) + 1) : i < j =>
        i \in 1 .. Len(s) /\ (j \in 1 .. Len(s) \/ j = Len(s) + 1)
  BY <1>1
<1>3. Append(s, e)[Len(s) + 1] = e /\ \A i \in 1 .. Len(s) : Append(s, e)[i] = s[i]
  OBVIOUS
<1> QED
  BY <1>1, <1>2, <1>3

LEMMA OnceAppend ==
  ASSUME NEW level, NEW chat \in Seq(Messages), NEW m \in Messages, Once(level, chat),
         \A c \in Elements(chat) : Repeats(c.text, m.text) =>
           level = "repeatable read" /\ m.type \in {"answer", "duplicate_quote_notice"}
  PROVE  Once(level, Append(chat, m))
<1> DEFINE more == Append(chat, m)
<1>1. /\ more[Len(chat) + 1] = m
      /\ \A i \in 1 .. Len(chat) : more[i] = chat[i]
      /\ \A i, j \in 1 .. Len(more) : i < j =>
           i \in 1 .. Len(chat) /\ (j \in 1 .. Len(chat) \/ j = Len(chat) + 1)
  BY AppendIs
<1> HIDE DEF more
<1>2. ASSUME NEW i \in 1 .. Len(more), NEW j \in 1 .. Len(more), i < j,
             Repeats(more[i].text, more[j].text)
      PROVE  level = "repeatable read" /\ more[j].type \in {"answer", "duplicate_quote_notice"}
  <2>1. i \in 1 .. Len(chat)
    BY <1>1, <1>2
  <2>2. CASE j \in 1 .. Len(chat)
    <3>1. more[i] = chat[i] /\ more[j] = chat[j]
      BY <2>1, <2>2, <1>1
    <3> QED
      BY <2>1, <2>2, <3>1, <1>2 DEF Once
  <2>3. CASE j = Len(chat) + 1
    <3>1. more[i] = chat[i] /\ more[j] = m /\ chat[i] \in Elements(chat)
      BY <2>1, <2>3, <1>1, ElementsIn
    <3> QED
      BY <3>1, <1>2
  <2> QED
    BY <2>2, <2>3, <1>1, <1>2
<1>3. Once(level, more)
  BY <1>2 DEF Once
<1> QED
  BY <1>3 DEF more

LEMMA QuietStarts == TextsFit /\ Init => Quietly
<1> SUFFICES ASSUME TextsFit, Init PROVE Quietly
  OBVIOUS
<1>1. /\ rows = <<>> /\ own = <<>> /\ view = 0 /\ pc = "speak" /\ said = <<>> /\ shown = {}
      /\ waits = FALSE /\ sending = {}
  BY DEF Init
<1>2. Chat = <<>> /\ Len(Chat) = 0 /\ Len(rows) = 0 /\ Len(said) = 0
  BY <1>1, EmptySeq DEF Chat
<1>3. OneAtATime /\ ShownPublished /\ UnpublishedCovered
  BY <1>1, <1>2 DEF OneAtATime, ShownPublished, UnpublishedCovered
<1>4. NewRows /\ Once(isolation, Chat)
  BY <1>1, <1>2 DEF NewRows, Once
<1> QED
  BY <1>1, <1>3, <1>4 DEF Quietly

LEMMA QuietSays ==
  ASSUME TextsFit, Typing, Accounted, Quietly, NEW n, Says(n)
  PROVE  Quietly'
<1>1. /\ pc = "speak" /\ pc' \in {"speak", "said"} /\ ~waits /\ n \in Notices
      /\ said' = Append(said, n) /\ UNCHANGED <<rows, own, view, isolation>>
  BY DEF Says, setting, quoteVars
<1>2. said \in Seq(Notices) /\ Len(said) \in Nat
  BY SaidIs
<1>3. /\ Len(said') = Len(said) + 1 /\ said'[Len(said) + 1] = n
      /\ \A i \in 1 .. Len(said) : said'[i] = said[i] /\ i \in 1 .. Len(said')
      /\ Len(said) + 1 \in 1 .. Len(said')
      /\ \A i \in 1 .. Len(said') : i \in 1 .. Len(said) \/ i = Len(said) + 1
  <2>1. /\ Len(said') = Len(said) + 1 /\ said'[Len(said) + 1] = n
        /\ \A i \in 1 .. Len(said) : said'[i] = said[i]
    BY <1>1, <1>2
  <2> QED
    BY <2>1, <1>2
<1>4. sending = {}
  BY <1>1 DEF Quietly, OneAtATime
<1>5. \A text \in shown : \E j \in 1 .. Len(said) : said[j].text = text /\ said[j].emitted
  BY <1>1 DEF Quietly, ShownPublished, Pending
<1>6. \A i \in 1 .. Len(said) : ~said[i].emitted =>
        Covered(said, i) /\ \E text \in shown : <<text, said[i].text>> \in Contains
  BY <1>1 DEF Quietly, UnpublishedCovered, Pending
<1>7. ASSUME NEW i \in 1 .. Len(said), Covered(said, i) PROVE Covered(said', i)
  <2>1. \A j \in 1 .. (i - 1) : j \in 1 .. Len(said)
    BY <1>2, EarlierHolds
  <2> QED
    BY <1>7, <2>1, <1>3 DEF Covered
<1>8. shown \subseteq shown'
  BY DEF Says
<1>9. NewRows'
  <2>1. ASSUME NEW r \in (view + 1) .. Len(rows)
        PROVE  \E j \in 1 .. Len(said') :
                 /\ said'[j].emitted /\ said'[j].text = rows[r].text
                 /\ \A i \in 1 .. (j - 1) : ~said'[i].emitted => said'[i].text # said'[j].text
    <3>1. PICK j \in 1 .. Len(said) :
            /\ said[j].emitted /\ said[j].text = rows[r].text
            /\ \A i \in 1 .. (j - 1) : ~said[i].emitted => said[i].text # said[j].text
      BY <1>1 DEF Quietly, NewRows
    <3>2. \A i \in 1 .. (j - 1) : i \in 1 .. Len(said)
      BY <1>2, EarlierHolds
    <3> QED
      BY <3>1, <3>2, <1>3
  <2> QED
    BY <2>1, <1>1 DEF NewRows
<1>10. Once(isolation, Chat)' /\ (pc' = "append" => Fresh(Chat, Head(kept).text)')
  BY <1>1 DEF Quietly, Once, Chat
<1>11. CASE /\ ~n.emitted /\ waits' = TRUE
            /\ sending' = sending \cup {[notice |-> n, looked |-> FALSE]}
            /\ \A text \in shown : <<text, n.text>> \notin Contains
            /\ shown' \in {shown, shown \cup {n.text}}
  <2>1. OneAtATime'
    <3>1. said'[Len(said')] = n /\ Len(said') - 1 = Len(said)
      BY <1>2, <1>3
    <3>2. sending' = {[notice |-> said'[Len(said')], looked |-> FALSE]}
      BY <1>4, <1>11, <3>1
    <3>3. ASSUME NEW i \in 1 .. Len(said), ~said'[i].emitted PROVE said'[i].text # n.text
      BY <3>3, <1>3, <1>6, <1>11
    <3>4. ~said'[Len(said')].emitted
      BY <3>1, <1>11
    <3>5. \A i \in 1 .. (Len(said') - 1) : ~said'[i].emitted => said'[i].text # said'[Len(said')].text
      BY <3>1, <3>3
    <3>6. waits' /\ pc' \in {"speak", "said"} /\ FALSE \in BOOLEAN
      BY <1>1, <1>11
    <3> QED
      BY <3>2, <3>4, <3>5, <3>6 DEF OneAtATime
  <2>2. ASSUME NEW text \in shown'
        PROVE  \E j \in 1 .. Len(said') : said'[j].text = text /\ (said'[j].emitted \/ (waits' /\ j = Len(said')))
    <3>1. CASE text \in shown
      BY <3>1, <1>3, <1>5
    <3>2. CASE text = n.text
      BY <3>2, <1>3, <1>11
    <3> QED
      BY <3>1, <3>2, <1>11
  <2>3. ShownPublished'
    BY <2>2 DEF ShownPublished, Pending
  <2>4. ASSUME NEW i \in 1 .. Len(said'), ~said'[i].emitted
        PROVE  \/ waits' /\ i = Len(said')
               \/ Covered(said', i) /\ \E text \in shown' : <<text, said'[i].text>> \in Contains
    <3>1. CASE i = Len(said) + 1
      BY <3>1, <1>3, <1>11
    <3>2. CASE i \in 1 .. Len(said)
      BY <3>2, <2>4, <1>3, <1>6, <1>7, <1>8
    <3> QED
      BY <3>1, <3>2, <1>3
  <2>5. UnpublishedCovered'
    BY <2>4 DEF UnpublishedCovered, Pending
  <2> QED
    BY <2>1, <2>3, <2>5, <1>9, <1>10 DEF Quietly
<1>12. CASE /\ \E text \in shown : Related(text, n.text) /\ (~n.emitted => <<text, n.text>> \in Contains)
            /\ UNCHANGED <<waits, sending, shown>>
  <2>1. OneAtATime'
    BY <1>1, <1>4, <1>12 DEF OneAtATime
  <2>2. ASSUME NEW text \in shown' PROVE \E j \in 1 .. Len(said') : said'[j].text = text /\ said'[j].emitted
    BY <1>3, <1>5, <1>12
  <2>3. ShownPublished'
    BY <2>2 DEF ShownPublished
  <2>4. ASSUME NEW i \in 1 .. Len(said'), ~said'[i].emitted
        PROVE  Covered(said', i) /\ \E text \in shown' : <<text, said'[i].text>> \in Contains
    <3>1. CASE i = Len(said) + 1
      <4>1. said'[i] = n
        BY <3>1, <1>3
      <4>2. PICK text \in shown : <<text, n.text>> \in Contains
        BY <4>1, <2>4, <1>12
      <4>3. PICK j \in 1 .. Len(said) : said[j].text = text /\ said[j].emitted
        BY <1>5
      <4>4. j \in 1 .. (i - 1) /\ said'[j] = said[j]
        BY <3>1, <1>2, <1>3
      <4> QED
        BY <4>1, <4>2, <4>3, <4>4, <1>12 DEF Covered
    <3>2. CASE i \in 1 .. Len(said)
      BY <3>2, <2>4, <1>3, <1>6, <1>7, <1>8
    <3> QED
      BY <3>1, <3>2, <1>3
  <2>5. UnpublishedCovered'
    BY <2>4 DEF UnpublishedCovered
  <2> QED
    BY <2>1, <2>3, <2>5, <1>9, <1>10 DEF Quietly
<1> QED
  BY <1>11, <1>12 DEF Says

\* Only the last notice is being published.
LEMMA QuietSending ==
  ASSUME Typing, Quietly, NEW s \in sending
  PROVE  /\ waits /\ s.notice = said[Len(said)] /\ ~said[Len(said)].emitted
         /\ sending = {s} /\ pc \in {"speak", "said"}
         /\ s.looked => ~Persisted(rows, said[Len(said)].text)
         /\ \A i \in 1 .. (Len(said) - 1) : ~said[i].emitted => said[i].text # said[Len(said)].text
<1>1. waits
  BY DEF Quietly, OneAtATime
<1>2. PICK looked \in BOOLEAN :
        /\ sending = {[notice |-> said[Len(said)], looked |-> looked]}
        /\ looked => ~Persisted(rows, said[Len(said)].text)
  BY <1>1 DEF Quietly, OneAtATime
<1>3. s = [notice |-> said[Len(said)], looked |-> looked]
  BY <1>2
<1> QED
  BY <1>1, <1>2, <1>3 DEF Quietly, OneAtATime

\* It has been published: found in the chat, or appended to it.
LEMMA QuietSettles ==
  ASSUME TextsFit, Typing, Accounted, Quietly, NEW s \in sending, Settle(s, TRUE),
         UNCHANGED <<isolation, view, own, pc, shown>>,
         rows' = rows
           \/ (rows' = Append(rows, Row(s.notice)) /\ ~Persisted(rows, s.notice.text))
  PROVE  Quietly'
<1>1. /\ waits /\ s.notice = said[Len(said)] /\ ~said[Len(said)].emitted
      /\ sending = {s} /\ pc \in {"speak", "said"}
      /\ \A i \in 1 .. (Len(said) - 1) : ~said[i].emitted => said[i].text # said[Len(said)].text
  BY QuietSending
<1>2. /\ said \in Seq(Notices) /\ Len(said) \in Nat /\ Len(said) \in 1 .. Len(said)
  BY <1>1, SaidIs
<1>3. waits' = FALSE /\ said' = [said EXCEPT ![Len(said)].emitted = TRUE] /\ sending' = {}
  BY <1>1 DEF Settle
<1>4. /\ Len(said') = Len(said)
      /\ \A i \in 1 .. Len(said) :
           said'[i].text = said[i].text /\ (i # Len(said) => said'[i] = said[i])
  BY SettleEffect
<1>5. said'[Len(said)].emitted
  BY <1>1, <1>3, SettleEffect
<1>6. ASSUME NEW i \in 1 .. Len(said), said[i].emitted PROVE said'[i].emitted
  BY <1>4, <1>5, <1>6
<1>7. OneAtATime'
  BY <1>3 DEF OneAtATime
<1>8. ShownPublished'
  <2>1. ASSUME NEW text \in shown PROVE \E j \in 1 .. Len(said) : said'[j].text = text /\ said'[j].emitted
    <3>1. PICK j \in 1 .. Len(said) : said[j].text = text /\ (said[j].emitted \/ j = Len(said))
      BY DEF Quietly, ShownPublished, Pending
    <3> QED
      BY <3>1, <1>4, <1>5, <1>6
  <2> QED
    BY <2>1, <1>4 DEF ShownPublished
<1>9. UnpublishedCovered'
  <2>1. ASSUME NEW i \in 1 .. Len(said), ~said'[i].emitted
        PROVE  Covered(said', i) /\ \E text \in shown : <<text, said'[i].text>> \in Contains
    <3>1. i # Len(said) /\ said'[i] = said[i]
      BY <2>1, <1>4, <1>5
    <3>2. Covered(said, i) /\ \E text \in shown : <<text, said[i].text>> \in Contains
      BY <2>1, <3>1 DEF Quietly, UnpublishedCovered, Pending
    <3>3. \A j \in 1 .. (i - 1) : j \in 1 .. Len(said)
      BY <1>2, EarlierHolds
    <3>4. Covered(said', i)
      BY <3>1, <3>2, <3>3, <1>4, <1>6 DEF Covered
    <3> QED
      BY <3>1, <3>2, <3>4
  <2> QED
    BY <2>1, <1>4 DEF UnpublishedCovered
<1>10. ASSUME NEW r \in (view + 1) .. Len(rows)
       PROVE  \E j \in 1 .. Len(said) :
                /\ said'[j].emitted /\ said'[j].text = rows[r].text
                /\ \A i \in 1 .. (j - 1) : ~said'[i].emitted => said'[i].text # said'[j].text
  <2>1. PICK j \in 1 .. Len(said) :
          /\ said[j].emitted /\ said[j].text = rows[r].text
          /\ \A i \in 1 .. (j - 1) : ~said[i].emitted => said[i].text # said[j].text
    BY <1>1 DEF Quietly, NewRows
  <2>2. \A i \in 1 .. (j - 1) : i \in 1 .. Len(said)
    BY <1>2, EarlierHolds
  <2> QED
    BY <2>1, <2>2, <1>4, <1>6
<1>11. ~(pc' = "append")
  BY <1>1
<1>12. CASE rows' = rows
  <2>1. NewRows' /\ Once(isolation, Chat)'
    BY <1>10, <1>12, <1>4 DEF Quietly, NewRows, Once, Chat
  <2> QED
    BY <2>1, <1>7, <1>8, <1>9, <1>11 DEF Quietly
<1>13. CASE rows' = Append(rows, Row(s.notice)) /\ ~Persisted(rows, s.notice.text)
  <2>1. /\ rows \in Seq(Messages) /\ Len(rows) \in Nat /\ own = <<>> /\ Chat = rows
        /\ \A m \in Elements(rows) : m.type # "answer"
    BY <1>1, ChatIs DEF Accounted, Phases
  <2>2. /\ Row(s.notice) \in Messages /\ Row(s.notice).text = said[Len(said)].text
        /\ s.notice.text \in Texts /\ s.notice \in Notices
    <3>1. s.notice \in Notices
      BY DEF Typing, TypingSaid
    <3> QED
      BY <3>1, <1>1, RowTyped, NoticeText
  <2>3. Chat' = Append(Chat, Row(s.notice))
    <3>1. rows' \in Seq(Messages)
      BY <2>1, <2>2, <1>13
    <3> QED
      BY <3>1, <2>1, <1>13, ConcatEmptySeq DEF Chat
  <2>4. Fresh(rows, s.notice.text)
    BY <2>1, <2>2, <1>13, LookTells
  <2>5. Once(isolation, Append(rows, Row(s.notice)))
    <3>1. Once(isolation, rows)
      BY <2>1 DEF Quietly
    <3>2. \A c \in Elements(rows) : ~Repeats(c.text, Row(s.notice).text)
      BY <2>2, <2>4, <1>1 DEF Fresh
    <3> QED
      BY <3>1, <3>2, <2>1, <2>2, OnceAppend
  <2>6. Once(isolation, Chat)'
    BY <2>1, <2>3, <2>5 DEF Once
  <2>7. NewRows'
    <3>1. /\ Len(rows') = Len(rows) + 1 /\ rows'[Len(rows) + 1] = Row(s.notice)
          /\ \A r \in 1 .. Len(rows) : rows'[r] = rows[r]
      BY <2>1, <2>2, <1>13
    <3>2. view \in 0 .. Len(rows)
      BY DEF Typing, TypingChat
    <3>3. ASSUME NEW r \in (view + 1) .. Len(rows')
          PROVE  \E j \in 1 .. Len(said') :
                   /\ said'[j].emitted /\ said'[j].text = rows'[r].text
                   /\ \A i \in 1 .. (j - 1) : ~said'[i].emitted => said'[i].text # said'[j].text
      <4>1. CASE r \in (view + 1) .. Len(rows)
        <5>1. rows'[r] = rows[r]
          BY <4>1, <3>1, <3>2, <2>1
        <5> QED
          BY <4>1, <5>1, <1>4, <1>10
      <4>2. CASE r = Len(rows) + 1
        <5>1. said'[Len(said)].text = rows'[r].text
          BY <4>2, <3>1, <2>2, <1>2, <1>4
        <5>2. ASSUME NEW i \in 1 .. (Len(said) - 1), ~said'[i].emitted
              PROVE  said'[i].text # said'[Len(said)].text
          <6>1. i \in 1 .. Len(said) /\ i # Len(said)
            BY <1>2
          <6>2. said'[i] = said[i] /\ said'[Len(said)].text = said[Len(said)].text
            BY <6>1, <1>2, <1>4
          <6> QED
            BY <5>2, <6>2, <1>1
        <5> QED
          BY <5>1, <5>2, <1>2, <1>4, <1>5
      <4> QED
        BY <4>1, <4>2, <3>1, <3>2, <2>1
    <3> QED
      BY <3>3 DEF NewRows
  <2> QED
    BY <2>6, <2>7, <1>7, <1>8, <1>9, <1>11 DEF Quietly
<1> QED
  BY <1>12, <1>13

LEMMA QuietPublishes ==
  ASSUME TextsFit, Typing, Accounted, Quietly, NEW s \in sending, Look(s) \/ AppendNotice(s)
  PROVE  Quietly'
<1>1. CASE Look(s)
  <2>1. UNCHANGED <<isolation, rows, view, own, pc, shown, kept>>
    BY <1>1 DEF Look, setting, quoteVars, resultVars
  <2>2. ASSUME Settle(s, TRUE) PROVE Quietly'
    BY <2>1, <2>2, QuietSettles
  <2>3. ASSUME ~Persisted(rows, s.notice.text), UNCHANGED <<said, waits>>,
               sending' = (sending \ {s}) \cup {[s EXCEPT !.looked = TRUE]}
        PROVE  Quietly'
    <3>1. /\ waits /\ s.notice = said[Len(said)] /\ ~said[Len(said)].emitted
          /\ sending = {s} /\ pc \in {"speak", "said"}
          /\ \A i \in 1 .. (Len(said) - 1) : ~said[i].emitted => said[i].text # said[Len(said)].text
      BY QuietSending
    <3>2. sending' = {[notice |-> said[Len(said)], looked |-> TRUE]}
      <4>1. s \in [notice : Notices, looked : BOOLEAN]
        BY DEF Typing, TypingSaid
      <4>2. \A t \in [notice : Notices, looked : BOOLEAN] :
              [t EXCEPT !.looked = TRUE] = [notice |-> t.notice, looked |-> TRUE]
        <5> TAKE t \in [notice : Notices, looked : BOOLEAN]
        <5> DEFINE u == [t EXCEPT !.looked = TRUE]
        <5>1. u \in [notice : Notices, looked : BOOLEAN] /\ u.notice = t.notice /\ u.looked = TRUE
          OBVIOUS
        <5>2. \A r \in [notice : Notices, looked : BOOLEAN] : r = [notice |-> r.notice, looked |-> r.looked]
          OBVIOUS
        <5> HIDE DEF u
        <5>3. u = [notice |-> t.notice, looked |-> TRUE]
          BY <5>1, <5>2
        <5> QED
          BY <5>3 DEF u
      <4> QED
        BY <4>1, <4>2, <3>1, <2>3
    <3>3. OneAtATime'
      BY <3>1, <3>2, <2>1, <2>3 DEF OneAtATime
    <3>4. ShownPublished' /\ UnpublishedCovered'
      BY <2>1, <2>3 DEF Quietly, ShownPublished, UnpublishedCovered, Pending
    <3>5. NewRows'
      BY <2>1, <2>3 DEF Quietly, NewRows
    <3>6. Once(isolation, Chat)'
      BY <2>1 DEF Quietly, Once, Chat
    <3> QED
      BY <3>1, <3>3, <3>4, <3>5, <3>6, <2>1 DEF Quietly
  <2> QED
    BY <1>1, <2>2, <2>3 DEF Look
<1>2. CASE AppendNotice(s)
  <2>1. /\ UNCHANGED <<isolation, view, own, pc, shown>> /\ Settle(s, TRUE) /\ s.looked
        /\ rows' = rows \/ rows' = Append(rows, Row(s.notice))
    BY <1>2 DEF AppendNotice, setting, quoteVars
  <2>2. ~Persisted(rows, s.notice.text)
    BY <2>1, QuietSending
  <2> QED
    BY <2>1, <2>2, QuietSettles
<1> QED
  BY <1>1, <1>2

LEMMA QuietReturns ==
  ASSUME Typing, Quietly, Returned
  PROVE  Quietly'
<1>1. /\ pc \in {"speak", "said"} /\ ~waits /\ pc' = "look"
      /\ UNCHANGED <<isolation, rows, own, view, said, shown, waits, sending>>
  BY ReturnedCarries DEF setting, quoteVars, adapterVars
<1>2. OneAtATime' /\ ShownPublished' /\ UnpublishedCovered'
  BY <1>1 DEF Quietly, OneAtATime, ShownPublished, UnpublishedCovered, Pending
<1>3. NewRows'
  BY <1>1 DEF Quietly, NewRows
<1>4. Once(isolation, Chat)'
  BY <1>1 DEF Quietly, Once, Chat
<1> QED
  BY <1>1, <1>2, <1>3, <1>4 DEF Quietly

\* A notice that is neither known from the result nor found in what the snapshot shows
\* is in no row behind it either.
LEMMA UnknownIsFresh ==
  ASSUME TextsFit, Typing, Accounted, Quietly, pc = "look",
         NEW q \in 0 .. Len(said), NEW p \in 1 .. q, Carries(p, q), p \in 1 .. Len(said),
         ~said[p].emitted, \A text \in seen : ~Overlaps(said[p].text, text),
         ~Persisted(Visible, said[p].text)
  PROVE  Fresh(Chat, said[p].text)
<1> DEFINE n == said[p]
<1>1. Len(said) \in Nat /\ n.text \in Texts /\ ~waits /\ \A m \in Elements(Chat) : m.type # "answer"
  BY SaidIs DEF Accounted, Phases
<1>2. ASSUME NEW m \in Elements(Chat), Repeats(m.text, n.text) PROVE FALSE
  <2>1. CASE m \in Elements(Visible)
    <3>1. \A e \in Elements(Visible) : e.type # "answer"
      BY <1>1, VisibleIs
    <3>2. Fresh(Visible, n.text)
      BY <3>1, <1>1, LookTells
    <3> QED
      BY <2>1, <3>2, <1>2 DEF Fresh
  <2>2. ASSUME NEW r \in (view + 1) .. Len(rows), rows[r] = m PROVE FALSE
    <3>1. CASE m.text = n.text
      <4>1. PICK j \in 1 .. Len(said) :
              /\ said[j].emitted /\ said[j].text = n.text
              /\ \A i \in 1 .. (j - 1) : ~said[i].emitted => said[i].text # n.text
        BY <2>2, <3>1 DEF Quietly, NewRows
      <4>2. CASE j < p
        <5>1. j \in 1 .. (p - 1)
          BY <4>2, <1>1
        <5>2. said[j].text \in seen
          BY <4>1, <5>1 DEF Carries
        <5> QED
          BY <4>1, <5>2 DEF Overlaps
      <4>3. CASE j = p
        BY <4>1, <4>3
      <4>4. CASE p < j
        <5>1. p \in 1 .. (j - 1)
          BY <4>4, <1>1
        <5> QED
          BY <4>1, <5>1
      <4> QED
        BY <4>2, <4>3, <4>4, <1>1
    <3>2. CASE {m.text, n.text} \subseteq Long
      <4>1. Covered(said, p)
        BY <1>1 DEF Quietly, UnpublishedCovered, Pending
      <4>2. PICK j \in 1 .. (p - 1) : said[j].emitted /\ <<said[j].text, n.text>> \in Contains
        BY <4>1 DEF Covered
      <4>3. said[j].text \in seen
        BY <4>2 DEF Carries
      <4>4. said[j].text \in Long
        BY <4>2, <3>2 DEF TextsFit
      <4> QED
        BY <4>2, <4>3, <4>4, <3>2 DEF Overlaps
    <3> QED
      BY <3>1, <3>2, <1>2 DEF Repeats
  <2> QED
    BY <2>1, <2>2, VisibleIs
<1> QED
  BY <1>2 DEF Fresh

LEMMA QuietLooks ==
  ASSUME TextsFit, Typing, Accounted, Quietly, LookKept
  PROVE  Quietly'
<1>q. PICK q \in 0 .. Len(said) : \E p \in 1 .. q :
        /\ Carries(p, q) /\ Head(kept) = said[p] /\ Tail(kept) = SubSeq(said, p + 1, q)
        /\ said[p] \in Notices /\ p \in 1 .. Len(said)
  <2>1. pc \in {"look", "append"} /\ kept # <<>>
    BY DEF LookKept
  <2> QED
    BY <2>1, NextKept
<1>1. PICK p \in 1 .. q : Carries(p, q) /\ Head(kept) = said[p] /\ p \in 1 .. Len(said)
  BY <1>q
<1> DEFINE n == said[p]
           known == ~n.emitted /\ \E text \in seen : Overlaps(n.text, text)
<1>2. /\ pc = "look"
      /\ UNCHANGED <<isolation, rows, own, view, said, shown, waits, sending>>
      /\ IF n.emitted \/ known \/ Persisted(Visible, n.text)
         THEN kept' = Tail(kept) /\ UNCHANGED pc
         ELSE pc' = "append" /\ UNCHANGED kept
  BY <1>1, Zenon DEF LookKept, setting, quoteVars, adapterVars
<1>3. OneAtATime' /\ ShownPublished' /\ UnpublishedCovered'
  <2>1. ~waits
    BY <1>2 DEF Accounted, Phases
  <2> QED
    BY <2>1, <1>2 DEF Quietly, OneAtATime, ShownPublished, UnpublishedCovered, Pending
<1>4. NewRows'
  BY <1>2 DEF Quietly, NewRows
<1>5. Chat' = Chat /\ Once(isolation, Chat)'
  BY <1>2 DEF Quietly, Once, Chat
<1>6. pc' = "append" => Fresh(Chat, Head(kept).text)'
  <2> SUFFICES ASSUME pc' = "append" PROVE Fresh(Chat', Head(kept').text)
    OBVIOUS
  <2>1. ~(n.emitted \/ known \/ Persisted(Visible, n.text)) /\ kept' = kept
    BY <1>2
  <2>2. Fresh(Chat, n.text)
    BY <2>1, <1>1, <1>2, UnknownIsFresh
  <2> QED
    BY <2>1, <2>2, <1>1, <1>5
<1> QED
  BY <1>3, <1>4, <1>5, <1>6 DEF Quietly

LEMMA QuietAppends ==
  ASSUME TextsFit, Typing, Accounted, Quietly, AppendKept
  PROVE  Quietly'
<1>1. /\ pc = "append" /\ own' = Appended(Head(kept)) /\ pc' = "look"
      /\ UNCHANGED <<isolation, rows, view, said, shown, waits, sending>>
  BY DEF AppendKept, setting, adapterVars
<1>2. kept # <<>> /\ ~waits
  BY <1>1 DEF Accounted, Phases
<1>3. Head(kept) \in Notices
  <2>1. kept \in Seq(Notices)
    BY DEF Typing, TypingResult
  <2> QED
    BY <2>1, <1>2
<1>4. Fresh(Chat, Head(kept).text)
  BY <1>1 DEF Quietly
<1>5. OneAtATime' /\ ShownPublished' /\ UnpublishedCovered'
  BY <1>1, <1>2 DEF Quietly, OneAtATime, ShownPublished, UnpublishedCovered, Pending
<1>6. NewRows'
  BY <1>1 DEF Quietly, NewRows
<1>7. Once(isolation, Chat)'
  <2>1. Row(Head(kept)) \in Messages /\ Row(Head(kept)).text = Head(kept).text
    BY <1>3, RowTyped
  <2>2. Chat' = Append(Chat, Row(Head(kept))) \/ Chat' = Chat
    BY <1>1, <1>3, AppendedTells
  <2>3. \A c \in Elements(Chat) : ~Repeats(c.text, Row(Head(kept)).text)
    BY <2>1, <1>4 DEF Fresh
  <2>4. Once(isolation, Chat) /\ Chat \in Seq(Messages)
    BY ChatIs DEF Quietly
  <2>5. Once(isolation, Append(Chat, Row(Head(kept))))
    BY <2>1, <2>3, <2>4, OnceAppend
  <2> QED
    BY <2>2, <2>4, <2>5, <1>1 DEF Once
<1> QED
  BY <1>1, <1>5, <1>6, <1>7 DEF Quietly

LEMMA QuietResponds ==
  ASSUME TextsFit, Typing, Accounted, Quietly, Respond
  PROVE  Quietly'
<1>1. PICK messages : Responds(messages)
  BY RespondResponds
<1>2. /\ pc = "look" /\ UNCHANGED <<isolation, sending, waits>>
      /\ \/ pc' = "speak" /\ said' = <<>> /\ shown' = {} /\ view' = Len(rows')
         \/ pc' = "done" /\ UNCHANGED <<said, shown>>
  BY <1>1 DEF Responds, setting, adapterVars
<1>3. ~waits /\ \A m \in Elements(Chat) : m.type # "answer" /\ m.text \in Texts
  BY <1>2 DEF Accounted, Phases
<1>4. OneAtATime'
  BY <1>2, <1>3 DEF Quietly, OneAtATime
<1>5. ShownPublished' /\ UnpublishedCovered'
  <2>1. CASE said' = <<>> /\ shown' = {}
    <3>1. Len(said') = 0
      BY <2>1, EmptySeq
    <3> QED
      BY <2>1, <3>1 DEF ShownPublished, UnpublishedCovered
  <2>2. CASE UNCHANGED <<said, shown>>
    BY <2>2, <1>2, <1>3 DEF Quietly, ShownPublished, UnpublishedCovered, Pending
  <2> QED
    BY <2>1, <2>2, <1>2
<1>6. NewRows'
  <2>1. CASE pc' = "speak" /\ view' = Len(rows')
    <3>1. rows' \in Seq(Messages)
      <4>1. rows \in Seq(Messages) /\ own \in Seq(Messages) /\ rows' = rows \o messages
        BY <1>1, ChatIs DEF Responds
      <4>2. messages \in Seq(Messages)
        <5>1. messages = own \/ \E m \in Messages : messages = Append(own, m)
          BY <1>1 DEF Responds
        <5>2. \A m \in Messages : Append(own, m) \in Seq(Messages)
          BY <4>1
        <5> QED
          BY <4>1, <5>1, <5>2
      <4> QED
        BY <4>1, <4>2, ConcatProperties
    <3>2. Len(rows') \in Nat
      BY <3>1, LenProperties
    <3>3. (view' + 1) .. Len(rows') = {}
      BY <2>1, <3>2
    <3> QED
      BY <3>3 DEF NewRows
  <2>2. CASE pc' = "done"
    BY <2>2 DEF NewRows
  <2> QED
    BY <2>1, <2>2, <1>2
<1>7. Once(isolation, Chat)'
  <2>1. Once(isolation, Chat) /\ Chat \in Seq(Messages)
    BY ChatIs DEF Quietly
  <2>2. CASE Chat' = Chat
    BY <2>1, <2>2, <1>2 DEF Once
  <2>3. ASSUME NEW m \in Messages, Chat' = Append(Chat, m),
               m.type \in {"answer", "duplicate_quote_notice"},
               m.text = Own \/ ~Persisted(Visible, m.text)
        PROVE  Once(isolation, Chat)'
    <3>1. m.text \in Texts \cup {Own}
      BY DEF Messages
    <3>2. ASSUME NEW c \in Elements(Chat), Repeats(c.text, m.text)
          PROVE  isolation = "repeatable read"
      <4>1. c.text \in Texts /\ c.type # "answer"
        BY <1>3
      <4>2. m.text # Own
        BY <3>2, <4>1 DEF TextsFit, Repeats, Related
      <4>3. ASSUME isolation = "read committed" PROVE FALSE
        <5>1. Fresh(Visible, m.text) /\ Visible = Chat
          BY <2>3, <3>1, <4>2, <4>3, <1>3, LookTells, VisibleIs
        <5> QED
          BY <5>1, <3>2 DEF Fresh
      <4> QED
        BY <4>3 DEF Typing, TypingChat
    <3>3. Once(isolation, Append(Chat, m))
      BY <2>1, <2>3, <3>2, OnceAppend
    <3> QED
      BY <2>3, <3>3, <1>2 DEF Once
  <2> QED
    BY <2>2, <2>3, <1>1, RespondsTells
<1> QED
  BY <1>2, <1>4, <1>5, <1>6, <1>7 DEF Quietly

LEMMA QuietStep ==
  ASSUME TextsFit, Typing, Accounted, Quietly, [Next]_vars, troubles = 0, troubles' = 0
  PROVE  Quietly'
<1>1. ASSUME SayBefore \/ SayDate \/ SayLast \/ SayAfter PROVE Quietly'
  BY <1>1, SayingSays, QuietSays DEF Accounted, Spoken
<1>2. ~WaitedEnough /\ \A s \in sending : ~PublishFails(s)
  BY DEF WaitedEnough, PublishFails
<1>3. CASE UNCHANGED vars
  <2>1. UNCHANGED <<isolation, rows, own, view, pc, said, shown, waits, sending, kept>>
    BY <1>3 DEF vars
  <2>2. OneAtATime' /\ ShownPublished' /\ UnpublishedCovered'
    BY <2>1 DEF Quietly, OneAtATime, ShownPublished, UnpublishedCovered, Pending
  <2>3. NewRows'
    BY <2>1 DEF Quietly, NewRows
  <2>4. Chat' = Chat /\ Once(isolation, Chat)'
    BY <2>1 DEF Quietly, Once, Chat
  <2> QED
    BY <2>1, <2>2, <2>3, <2>4 DEF Quietly
<1> QED
  BY <1>1, <1>2, <1>3, QuietPublishes, QuietReturns, QuietLooks, QuietAppends, QuietResponds DEF Next

-----------------------------------------------------------------------------
(* The invariant holds in every state.                                                     *)
THEOREM NoticesAccountedFor ==
  ASSUME TextsFit
  PROVE  Spec => []IInv
<1>1. Init => IInv
  BY TypingStarts, AccountedStarts, QuietStarts DEF IInv
<1>2. IInv /\ [Next]_vars => IInv'
  <2> SUFFICES ASSUME IInv, [Next]_vars PROVE IInv'
    OBVIOUS
  <2>1. Typing /\ Accounted /\ (troubles = 0 => Quietly)
    BY DEF IInv
  <2>2. ShownSaid /\ (pc = "append" => kept # <<>>) /\ (pc = "look" => ~waits)
    BY <2>1 DEF Accounted, Spoken, Phases
  <2>3. Typing'
    BY <2>1, <2>2, TypingStep
  <2>4. Accounted'
    BY <2>1, <2>3, AccountedStep
  <2>5. ASSUME troubles' = 0 PROVE Quietly'
    <3>1. troubles = 0
      <4>1. troubles \in Nat
        BY <2>1 DEF Typing, TypingResult
      <4>2. troubles' = troubles \/ troubles' = troubles + 1
        BY DEF Next, SayBefore, SayDate, SayLast, SayAfter, WaitedEnough, Look, AppendNotice,
               PublishFails, Returned, LookKept, AppendKept, Respond, vars
      <4> QED
        BY <4>1, <4>2, <2>5
    <3> QED
      BY <2>1, <2>5, <3>1, QuietStep
  <2> QED
    BY <2>3, <2>4, <2>5 DEF IInv
<1> QED
  BY <1>1, <1>2, PTL DEF Spec

\* The first notice of a family cannot be related to an earlier one.
LEMMA AccountedTells ==
  ASSUME TextsFit, IInv
  PROVE  NoticesTold
<1> SUFFICES ASSUME pc = "done" \/ (pc = "look" /\ kept = <<>>),
                    NEW texts \in SUBSET {n.text : n \in Elements(said)}, Family(texts)
             PROVE  \/ \E m \in Elements(rows \o own), text \in texts : Related(m.text, text)
                    \/ troubles > 0 /\ \E lost \in dropped, text \in texts : Related(lost, text)
  BY Zenon DEF NoticesTold
<1>t. Typing /\ Accounted /\ (troubles = 0 => Quietly)
  BY DEF IInv
<1>0. /\ said \in Seq(Notices) /\ Len(said) \in Nat
      /\ \A i \in 1 .. Len(said) : said[i].text \in Texts /\ said[i] \in Elements(said)
      /\ \A n \in Elements(said) : \E i \in 1 .. Len(said) : said[i] = n
  BY <1>t, SaidIs, ElementsIn
<1> DEFINE members == {i \in 1 .. Len(said) : said[i].text \in texts}
<1>1. members # {}
  <2>1. PICK text \in texts : TRUE
    BY DEF Family
  <2>2. PICK n \in Elements(said) : n.text = text
    BY <2>1
  <2> QED
    BY <2>1, <2>2, <1>0
<1>2. members \subseteq Nat
  BY <1>0
<1>3. PICK i \in members : \A j \in members : ~(j < i)
  <2> HIDE DEF members
  <2> QED
    BY <1>1, <1>2, SmallestIndex
<1>4. i \in 1 .. Len(said) /\ said[i].text \in texts
  OBVIOUS
<1>5. ~Earlier(said, i)
  <2> SUFFICES ASSUME Earlier(said, i) PROVE FALSE
    OBVIOUS
  <2>1. PICK j \in 1 .. (i - 1) : Related(said[j].text, said[i].text)
    BY DEF Earlier
  <2>2. j \in 1 .. Len(said) /\ j < i
    BY <1>0, <1>4
  <2>3. Related(said[i].text, said[j].text)
    BY <2>1 DEF Related
  <2>4. said[j].text \in texts
    BY <2>2, <2>3, <1>0, <1>4 DEF Family
  <2> QED
    BY <2>2, <2>4, <1>3
<1>6. ~waits
  BY <1>t DEF Accounted, Phases
<1>7. Known(Chat, said[i].text) \/ (~said[i].emitted /\ said[i].text \in dropped)
  <2>1. CASE said[i].emitted
    BY <2>1, <1>t, <1>4, <1>5 DEF Accounted, Spoken
  <2>2. CASE ~said[i].emitted /\ pc = "done"
    BY <2>2, <1>t, <1>4, <1>5 DEF Accounted, Settled
  <2>3. CASE ~said[i].emitted /\ pc = "look" /\ kept = <<>>
    <3>q. PICK q \in 0 .. Len(said) : \E p \in 1 .. (q + 1) : Carries(p, q)
      BY <2>3, <1>t DEF Accounted, Carrying
    <3>1. PICK p \in 1 .. (q + 1) : Carries(p, q)
      BY <3>q
    <3>2. p .. q = {}
      BY <3>1, <2>3, <1>t, NothingKept
    <3> QED
      BY <3>1, <3>2, <2>3, <1>4, <1>5 DEF Carries
  <2> QED
    BY <2>1, <2>2, <2>3
<1>8. CASE Known(Chat, said[i].text)
  BY <1>4, <1>8 DEF Known, Chat
<1>9. CASE ~said[i].emitted /\ said[i].text \in dropped
  <2>1. troubles # 0
    <3> SUFFICES ASSUME troubles = 0 PROVE FALSE
      OBVIOUS
    <3>1. Covered(said, i)
      BY <1>t, <1>4, <1>6, <1>9 DEF Quietly, UnpublishedCovered, Pending
    <3>2. Earlier(said, i)
      BY <3>1 DEF Covered, Earlier, Related
    <3> QED
      BY <3>2, <1>5
  <2>2. troubles > 0
    <3>1. troubles \in Nat
      BY <1>t DEF Typing, TypingResult
    <3> QED
      BY <3>1, <2>1
  <2>3. Related(said[i].text, said[i].text)
    BY <1>0, <1>4, RelatedSelf
  <2> QED
    BY <2>2, <2>3, <1>4, <1>9
<1> QED
  BY <1>7, <1>8, <1>9

LEMMA QuietTellsOnce ==
  ASSUME TextsFit, IInv
  PROVE  ToldOnce
<1>t. Typing /\ (troubles = 0 => Quietly)
  BY DEF IInv
<1>1. /\ rows \in Seq(Messages) /\ Len(rows) \in Nat /\ DOMAIN rows = 1 .. Len(rows)
      /\ Len(Chat) = Len(rows) + Len(own) /\ Len(own) \in Nat
      /\ \A i \in 1 .. Len(rows) : Chat[i] = rows[i]
  BY <1>t, ChatIs, LenProperties
<1>2. \A i \in 1 .. Len(rows) : i \in 1 .. Len(Chat)
  BY <1>1
<1>3. ASSUME NEW i \in 1 .. Len(rows), NEW j \in 1 .. Len(rows), i < j,
             Repeats(rows[i].text, rows[j].text), ~(troubles > 0)
      PROVE  isolation = "repeatable read" /\ rows[j].type \in {"answer", "duplicate_quote_notice"}
  <2>1. troubles = 0
    BY <1>t, <1>3 DEF Typing, TypingResult
  <2> QED
    BY <2>1, <1>t, <1>1, <1>2, <1>3 DEF Quietly, Once
<1> QED
  BY <1>1, <1>3 DEF ToldOnce

(* Everything the platform says during a quote is in the chat when the attempt is over, or *)
(* was lost with a publication that failed or came late; and no text, and no long text     *)
(* with its excerpt, is there twice unless one did.  This for every set of texts and every *)
(* containment between them, any number of attempts and notices.                           *)
THEOREM AllToldOnce ==
  ASSUME TextsFit
  PROVE  Spec => []ToldExactlyOnce
<1>1. IInv => ToldExactlyOnce
  BY AccountedTells, QuietTellsOnce DEF ToldExactlyOnce
<1> QED
  BY <1>1, NoticesAccountedFor, PTL

THEOREM NoticesTyped ==
  ASSUME TextsFit
  PROVE  Spec => []TypeOK
<1>1. IInv => TypeOK
  BY TypingTypes DEF IInv
<1> QED
  BY <1>1, NoticesAccountedFor, PTL

-----------------------------------------------------------------------------
(* The image of a result (ResultImage), in the metadata of a message of its own.            *)
CONSTANTS ImageWorkers, NoWorker, MaxJobFaults, MaxRecalls

VARIABLES meta, scheduled, job, jobView, holds, claim, recall, recallView, recalls, jobFaults, loose

Pictures == INSTANCE ResultImage WITH
  Workers <- ImageWorkers, MaxFaults <- MaxJobFaults, view <- jobView, faults <- jobFaults

\* The mark of no worker is no worker.
Staffed == NoWorker \notin ImageWorkers /\ MaxJobFaults \in Nat /\ MaxRecalls \in Nat

\* Unless one worked without its claim: a job that is past its claim has it ...
ClaimsHeld ==
  ~loose =>
    /\ \A w \in ImageWorkers : job[w] \in {"load", "render", "save", "clear", "give up"} => w \in holds
    /\ \A w \in holds : claim = w

\* ... what a job is about to write an image for has none ...
ImageWanted ==
  ~loose => \A w \in ImageWorkers : job[w] \in {"render", "save", "give up"} => meta.image = "pending"

\* ... and an image that a recall has read is still there.
RecallKnows ==
  ~loose /\ recall = "marking" /\ recallView.image # "pending" => meta.image = recallView.image

PictureInv == Pictures!TypeOK /\ ClaimsHeld /\ ImageWanted /\ RecallKnows

\* Faults are counted up to their bound.
LEMMA FaultsBounded ==
  ASSUME Staffed, PictureInv, jobFaults' = jobFaults \/ (jobFaults < MaxJobFaults /\ jobFaults' = jobFaults + 1)
  PROVE  jobFaults' \in 0 .. MaxJobFaults
<1>1. jobFaults \in 0 .. MaxJobFaults
  BY DEF PictureInv, Pictures!TypeOK
<1> QED  BY <1>1 DEF Staffed

\* Without a claim lost there is one job that works.
LEMMA OneWorks ==
  ASSUME PictureInv, ~loose, NEW v \in ImageWorkers, NEW w \in ImageWorkers,
         job[v] \in {"load", "render", "save", "clear", "give up"},
         job[w] \in {"load", "render", "save", "clear", "give up"}
  PROVE  v = w
  BY DEF PictureInv, ClaimsHeld

\* A claim is given where there is none, or the job goes on without.
LEMMA ClaimStep ==
  ASSUME Staffed, PictureInv, NEW w \in ImageWorkers, Pictures!Claim(w)
  PROVE  PictureInv' /\ meta' = meta
<1>1. /\ UNCHANGED <<meta, scheduled, jobView, recall, recallView, recalls>>
      /\ job[w] = "claim"
      /\ \/ /\ claim = NoWorker /\ job' = [job EXCEPT ![w] = "load"]
            /\ claim' = w /\ holds' = holds \cup {w} /\ jobFaults' = jobFaults /\ loose' = loose
         \/ /\ job' = [job EXCEPT ![w] = "release"] /\ UNCHANGED <<claim, holds, loose, jobFaults>>
         \/ /\ job' = [job EXCEPT ![w] = "load"] /\ UNCHANGED <<claim, holds>>
            /\ jobFaults < MaxJobFaults /\ jobFaults' = jobFaults + 1 /\ loose' = TRUE
  BY DEF Pictures!Claim, Pictures!Step, Pictures!SameRecall, Pictures!NoFault, Pictures!MayFail, Pictures!Taken
<1>2. Pictures!TypeOK'
  <2>1. jobFaults' \in 0 .. MaxJobFaults
    BY <1>1, FaultsBounded
  <2>2. loose' \in BOOLEAN /\ holds' \subseteq ImageWorkers /\ claim' \in ImageWorkers \cup {NoWorker}
    BY <1>1 DEF PictureInv, Pictures!TypeOK
  <2>3. job' \in [ImageWorkers -> {"idle", "claim", "load", "render", "save", "clear", "give up", "release"}]
    BY <1>1 DEF PictureInv, Pictures!TypeOK
  <2> QED  BY <1>1, <2>1, <2>2, <2>3 DEF PictureInv, Pictures!TypeOK
<1>3. ClaimsHeld'
  <2>1. job \in [ImageWorkers -> {"idle", "claim", "load", "render", "save", "clear", "give up", "release"}]
        /\ holds \subseteq ImageWorkers /\ ClaimsHeld
    BY DEF PictureInv, Pictures!TypeOK
  <2>2. CASE claim = NoWorker /\ job' = [job EXCEPT ![w] = "load"] /\ claim' = w /\ holds' = holds \cup {w} /\ loose' = loose
    <3>1. ~loose => holds = {}
      BY <2>1, <2>2 DEF Staffed, ClaimsHeld
    <3> QED  BY <2>1, <2>2, <3>1 DEF ClaimsHeld
  <2>3. CASE job' = [job EXCEPT ![w] = "release"] /\ UNCHANGED <<claim, holds, loose>>
    BY <2>1, <2>3 DEF ClaimsHeld
  <2>4. CASE loose'
    BY <2>4 DEF ClaimsHeld
  <2> QED  BY <1>1, <2>2, <2>3, <2>4
<1>4. ImageWanted' /\ RecallKnows'
  BY <1>1 DEF PictureInv, Pictures!TypeOK, ImageWanted, RecallKnows
<1> QED  BY <1>1, <1>2, <1>3, <1>4 DEF PictureInv

\* A job that works reads, or writes the image into metadata that have none.
LEMMA WorkStep ==
  ASSUME Staffed, PictureInv, NEW w \in ImageWorkers,
         \/ Pictures!Load(w) \/ Pictures!Render(w) \/ Pictures!Save(w)
         \/ Pictures!Clear(w) \/ Pictures!GiveUp(w)
  PROVE  PictureInv' /\ (~loose /\ meta' # meta => meta.image = "pending")
<1> DEFINE after == {"render", "save", "clear", "give up", "release"}
<1>1. /\ UNCHANGED <<scheduled, holds, claim, recall, recallView, recalls, loose>>
      /\ jobFaults' = jobFaults \/ (jobFaults < MaxJobFaults /\ jobFaults' = jobFaults + 1)
      /\ job[w] \in {"load", "render", "save", "clear", "give up"}
      /\ \E to \in after :
           /\ job' = [job EXCEPT ![w] = to]
           /\ to \in {"render", "give up"} => meta' = meta /\ meta.image = "pending"
           /\ to = "save" => meta' = meta /\ job[w] = "render"
           /\ meta' = meta \/ (/\ to = "release" /\ job[w] \in {"save", "give up"}
                               /\ \E i \in {"done", "failed"} : meta' = [jobView[w] EXCEPT !.image = i])
      /\ jobView' = jobView \/ jobView' = [jobView EXCEPT ![w] = meta]
  <2>1. CASE Pictures!Load(w)
    BY <2>1 DEF Pictures!Load, Pictures!Step, Pictures!SameRecall, Pictures!NoFault, Pictures!MayFail
  <2>2. CASE Pictures!Render(w)
    BY <2>2 DEF Pictures!Render, Pictures!Step, Pictures!SameRecall, Pictures!NoFault
  <2>3. CASE Pictures!Save(w)
    BY <2>3 DEF Pictures!Save, Pictures!Step, Pictures!SameRecall, Pictures!NoFault, Pictures!MayFail
  <2>4. CASE Pictures!Clear(w)
    BY <2>4 DEF Pictures!Clear, Pictures!Step, Pictures!SameRecall, Pictures!NoFault
  <2>5. CASE Pictures!GiveUp(w)
    BY <2>5 DEF Pictures!GiveUp, Pictures!Step, Pictures!SameRecall, Pictures!NoFault, Pictures!MayFail
  <2> QED  BY <2>1, <2>2, <2>3, <2>4, <2>5
<1>2. PICK to \in after :
        /\ job' = [job EXCEPT ![w] = to]
        /\ to \in {"render", "give up"} => meta' = meta /\ meta.image = "pending"
        /\ to = "save" => meta' = meta /\ job[w] = "render"
        /\ meta' = meta \/ (/\ to = "release" /\ job[w] \in {"save", "give up"}
                            /\ \E i \in {"done", "failed"} : meta' = [jobView[w] EXCEPT !.image = i])
  BY <1>1
<1>3. ~loose /\ meta' # meta => meta.image = "pending"
  BY <1>2 DEF PictureInv, ImageWanted
<1>4. meta' \in Pictures!Metadata
  <2>1. jobView[w] \in Pictures!Metadata /\ meta \in Pictures!Metadata
    BY DEF PictureInv, Pictures!TypeOK
  <2> QED  BY <1>2, <2>1 DEF Pictures!Metadata
<1>5. Pictures!TypeOK'
  <2>1. jobFaults' \in 0 .. MaxJobFaults
    BY <1>1, FaultsBounded
  <2>2. job' \in [ImageWorkers -> {"idle", "claim", "load", "render", "save", "clear", "give up", "release"}]
    BY <1>2 DEF PictureInv, Pictures!TypeOK
  <2>3. jobView' \in [ImageWorkers -> Pictures!Metadata]
    BY <1>1 DEF PictureInv, Pictures!TypeOK
  <2> QED  BY <1>1, <1>4, <2>1, <2>2, <2>3 DEF PictureInv, Pictures!TypeOK
<1>6. ClaimsHeld'
  BY <1>1, <1>2 DEF PictureInv, Pictures!TypeOK, ClaimsHeld
<1>7. ImageWanted'
  <2>1. SUFFICES ASSUME ~loose, NEW v \in ImageWorkers, job'[v] \in {"render", "save", "give up"}
                 PROVE  meta'.image = "pending"
    BY <1>1 DEF ImageWanted
  <2>2. CASE v = w
    <3>1. job'[w] = to
      BY <1>2 DEF PictureInv, Pictures!TypeOK
    <3> QED  BY <1>2, <2>1, <2>2, <3>1 DEF PictureInv, ImageWanted
  <2>3. CASE v # w
    <3>1. job'[v] = job[v]
      BY <1>2, <2>3 DEF PictureInv, Pictures!TypeOK
    <3> QED  BY <1>1, <2>1, <2>3, <3>1, OneWorks
  <2> QED  BY <2>2, <2>3
<1>8. RecallKnows'
  BY <1>1, <1>3 DEF PictureInv, RecallKnows
<1> QED  BY <1>3, <1>5, <1>6, <1>7, <1>8 DEF PictureInv

\* A job begins, and a job ends or is lost, with its claim or without it.
LEMMA EndsStep ==
  ASSUME Staffed, PictureInv, NEW w \in ImageWorkers,
         Pictures!Schedule(w) \/ Pictures!Release(w) \/ Pictures!Crash(w)
  PROVE  PictureInv' /\ meta' = meta
<1>1. /\ UNCHANGED <<meta, recall, recallView, recalls, loose>>
      /\ jobFaults' = jobFaults \/ (jobFaults < MaxJobFaults /\ jobFaults' = jobFaults + 1)
      /\ \/ /\ job' = [job EXCEPT ![w] = "claim"] /\ scheduled' = scheduled \cup {w}
            /\ UNCHANGED <<jobView, holds, claim>>
         \/ /\ job' = [job EXCEPT ![w] = "idle"] /\ scheduled' = scheduled \ {w}
            /\ jobView' = [jobView EXCEPT ![w] = Pictures!Unread] /\ holds' = holds \ {w}
            /\ claim' = claim \/ (w \in holds /\ claim = w /\ claim' = NoWorker)
  <2>1. CASE Pictures!Schedule(w)
    BY <2>1 DEF Pictures!Schedule, Pictures!Step, Pictures!SameRecall, Pictures!NoFault
  <2>2. CASE Pictures!Release(w)
    BY <2>2 DEF Pictures!Release, Pictures!Step, Pictures!SameRecall, Pictures!NoFault, Pictures!Discarded
  <2>3. CASE Pictures!Crash(w)
    BY <2>3 DEF Pictures!Crash, Pictures!SameRecall, Pictures!MayFail
  <2> QED  BY <2>1, <2>2, <2>3
<1>2. Pictures!TypeOK'
  <2>1. jobFaults' \in 0 .. MaxJobFaults
    BY <1>1, FaultsBounded
  <2>2. job' \in [ImageWorkers -> {"idle", "claim", "load", "render", "save", "clear", "give up", "release"}]
    BY <1>1 DEF PictureInv, Pictures!TypeOK
  <2>3. jobView' \in [ImageWorkers -> Pictures!Metadata]
    <3>1. Pictures!Unread \in Pictures!Metadata
      BY DEF Pictures!Unread, Pictures!Metadata
    <3> QED  BY <1>1, <3>1 DEF PictureInv, Pictures!TypeOK
  <2>4. scheduled' \subseteq ImageWorkers /\ holds' \subseteq ImageWorkers /\ claim' \in ImageWorkers \cup {NoWorker}
    BY <1>1 DEF PictureInv, Pictures!TypeOK
  <2> QED  BY <1>1, <2>1, <2>2, <2>3, <2>4 DEF PictureInv, Pictures!TypeOK
<1>3. \A v \in ImageWorkers : job'[v] = job[v] \/ job'[v] \in {"idle", "claim"}
  BY <1>1 DEF PictureInv, Pictures!TypeOK
<1>4. ClaimsHeld'
  <2>1. SUFFICES ASSUME ~loose  PROVE ClaimsHeld'
    BY <1>1 DEF ClaimsHeld
  <2>2. CASE job' = [job EXCEPT ![w] = "claim"] /\ UNCHANGED <<holds, claim>>
    BY <1>1, <1>3, <2>1, <2>2 DEF PictureInv, ClaimsHeld
  <2>3. CASE /\ job' = [job EXCEPT ![w] = "idle"] /\ holds' = holds \ {w}
             /\ claim' = claim \/ (w \in holds /\ claim = w /\ claim' = NoWorker)
    BY <1>1, <1>3, <2>1, <2>3 DEF PictureInv, Pictures!TypeOK, ClaimsHeld
  <2> QED  BY <1>1, <2>2, <2>3
<1>5. ImageWanted' /\ RecallKnows'
  BY <1>1, <1>3 DEF PictureInv, ImageWanted, RecallKnows
<1> QED  BY <1>1, <1>2, <1>4, <1>5 DEF PictureInv

\* A claim goes that nobody holds, or the job that holds it is no longer alone.
LEMMA LapseStep ==
  ASSUME Staffed, PictureInv, Pictures!OrphanExpires \/ Pictures!Lapse
  PROVE  PictureInv' /\ meta' = meta
<1>1. /\ UNCHANGED <<meta, scheduled, job, jobView, holds, recall, recallView, recalls>>
      /\ claim' = NoWorker
      /\ jobFaults' = jobFaults \/ (jobFaults < MaxJobFaults /\ jobFaults' = jobFaults + 1)
      /\ (claim \notin holds /\ loose' = loose) \/ loose' = TRUE
  BY DEF Pictures!OrphanExpires, Pictures!Lapse, Pictures!SameRecall, Pictures!NoFault, Pictures!MayFail
<1>2. Pictures!TypeOK'
  <2>1. jobFaults' \in 0 .. MaxJobFaults
    BY <1>1, FaultsBounded
  <2> QED  BY <1>1, <2>1 DEF PictureInv, Pictures!TypeOK
<1>3. ClaimsHeld'
  <2>1. CASE claim \notin holds /\ loose' = loose
    <3>1. ~loose => holds = {}
      BY <2>1 DEF PictureInv, ClaimsHeld
    <3> QED  BY <1>1, <2>1, <3>1 DEF PictureInv, ClaimsHeld
  <2> QED  BY <1>1, <2>1 DEF ClaimsHeld
<1>4. ~loose' => ~loose
  BY <1>1
<1>5. ImageWanted'
  <2>1. CASE loose'
    BY <2>1 DEF ImageWanted
  <2>2. CASE ~loose'
    BY <1>1, <1>4, <2>2 DEF PictureInv, ImageWanted
  <2> QED  BY <2>1, <2>2
<1>6. RecallKnows'
  BY <1>1, <1>4 DEF PictureInv, RecallKnows
<1> QED  BY <1>1, <1>2, <1>3, <1>5, <1>6 DEF PictureInv

\* A recall marks what it has read, which was there and, but for an image that came meanwhile, is.
LEMMA RecallStep ==
  ASSUME Staffed, PictureInv, Pictures!StartRecall \/ Pictures!EndRecall
  PROVE  PictureInv' /\ (meta' # meta => Pictures!EndRecall /\ meta'.image = recallView.image)
<1>1. UNCHANGED <<scheduled, job, jobView, holds, claim, jobFaults, loose>>
  BY DEF Pictures!StartRecall, Pictures!EndRecall
<1>2. ClaimsHeld'
  BY <1>1 DEF PictureInv, ClaimsHeld
<1>3. CASE Pictures!StartRecall
  <2>1. /\ recalls < MaxRecalls /\ recall' = "marking" /\ recallView' = meta /\ recalls' = recalls + 1 /\ meta' = meta
    BY <1>3 DEF Pictures!StartRecall
  <2>2. recalls' \in 0 .. MaxRecalls
    <3>1. recalls \in 0 .. MaxRecalls
      BY DEF PictureInv, Pictures!TypeOK
    <3> QED  BY <2>1, <3>1 DEF Staffed
  <2>3. Pictures!TypeOK'
    BY <1>1, <2>1, <2>2 DEF PictureInv, Pictures!TypeOK
  <2>4. ImageWanted' /\ RecallKnows'
    BY <1>1, <2>1 DEF PictureInv, ImageWanted, RecallKnows
  <2> QED  BY <1>2, <2>1, <2>3, <2>4 DEF PictureInv
<1>4. CASE Pictures!EndRecall
  <2>1. /\ recall = "marking" /\ recall' = "idle" /\ recallView' = Pictures!Unread /\ recalls' = recalls
        /\ meta' = meta \/ meta' = [recallView EXCEPT !.recalled = TRUE]
    BY <1>4 DEF Pictures!EndRecall, Pictures!Marked
  <2>2. recallView \in Pictures!Metadata /\ meta \in Pictures!Metadata
    BY DEF PictureInv, Pictures!TypeOK
  <2>3. meta' \in Pictures!Metadata /\ (meta' # meta => meta'.image = recallView.image)
    BY <2>1, <2>2 DEF Pictures!Metadata
  <2>4. Pictures!TypeOK'
    BY <1>1, <2>1, <2>3 DEF PictureInv, Pictures!TypeOK, Pictures!Metadata, Pictures!Unread
  <2>5. ImageWanted'
    BY <1>1, <2>1, <2>3 DEF PictureInv, ImageWanted, RecallKnows
  <2>6. RecallKnows'
    BY <2>1 DEF RecallKnows
  <2> QED  BY <1>2, <1>4, <2>3, <2>4, <2>5, <2>6 DEF PictureInv
<1> QED  BY <1>3, <1>4

(* An image that is there stays, but for a recall that has read the message before and for   *)
(* a job without its claim, for any number of workers, faults and recalls.                   *)
THEOREM ImagesStay ==
  ASSUME Staffed
  PROVE  Pictures!Spec => []Pictures!TypeOK /\ Pictures!ImageKept
<1> DEFINE Stays == meta.image = "done" /\ meta'.image # "done" =>
                      loose \/ (Pictures!EndRecall /\ recallView.image # "done")
<1>1. Pictures!Init => PictureInv
  <2> SUFFICES ASSUME Pictures!Init  PROVE PictureInv
    OBVIOUS
  <2>1. PICK w \in ImageWorkers :
          scheduled = {w} /\ job = [v \in ImageWorkers |-> IF v = w THEN "claim" ELSE "idle"]
    BY DEF Pictures!Init
  <2>2. /\ meta = Pictures!Unread /\ jobView = [v \in ImageWorkers |-> Pictures!Unread]
        /\ holds = {} /\ claim = NoWorker /\ recall = "idle" /\ recallView = Pictures!Unread
        /\ recalls = 0 /\ jobFaults = 0 /\ loose = FALSE
    BY DEF Pictures!Init
  <2>3. Pictures!Unread \in Pictures!Metadata
    BY DEF Pictures!Unread, Pictures!Metadata
  <2>4. 0 \in 0 .. MaxRecalls /\ 0 \in 0 .. MaxJobFaults
    BY DEF Staffed
  <2>5. Pictures!TypeOK
    BY <2>1, <2>2, <2>3, <2>4 DEF Pictures!TypeOK
  <2> QED  BY <2>1, <2>2, <2>5 DEF PictureInv, ClaimsHeld, ImageWanted, RecallKnows
<1>2. PictureInv /\ [Pictures!Next]_(Pictures!vars) => PictureInv' /\ Stays
  <2>1. ASSUME PictureInv, UNCHANGED Pictures!vars  PROVE PictureInv' /\ Stays
    BY <2>1 DEF Pictures!vars, PictureInv, Pictures!TypeOK, ClaimsHeld, ImageWanted, RecallKnows
  <2>2. ASSUME PictureInv, NEW w \in ImageWorkers, Pictures!JobStep(w)  PROVE PictureInv' /\ Stays
    BY <2>2, ClaimStep, WorkStep, EndsStep DEF Pictures!JobStep
  <2>3. ASSUME PictureInv, NEW w \in ImageWorkers, Pictures!Schedule(w) \/ Pictures!Crash(w)
        PROVE  PictureInv' /\ Stays
    BY <2>3, EndsStep
  <2>4. ASSUME PictureInv, Pictures!OrphanExpires \/ Pictures!Lapse  PROVE PictureInv' /\ Stays
    BY <2>4, LapseStep
  <2>5. ASSUME PictureInv, Pictures!StartRecall \/ Pictures!EndRecall  PROVE PictureInv' /\ Stays
    BY <2>5, RecallStep
  <2> QED  BY <2>1, <2>2, <2>3, <2>4, <2>5 DEF Pictures!Next
<1>3. PictureInv => Pictures!TypeOK
  BY DEF PictureInv
<1> QED  BY <1>1, <1>2, <1>3, PTL DEF Pictures!Spec, Pictures!ImageKept

-----------------------------------------------------------------------------
(* The messages of a conversation and the retries of the frontend, which belong to the     *)
(* same conversation: ChatMessages.                                                        *)
CONSTANTS Callers, WorkerOf, SentMessages, QuoteMessages, Followups, NoMessage, NoOne,
          MaxSends, MaxChatNotices

VARIABLES messages, hidden, chatPc, msg, lock, writer, begun, sends, replies

Talk == INSTANCE ChatMessages WITH
  Messages <- SentMessages, MaxNotices <- MaxChatNotices, rows <- messages, pc <- chatPc

\* The marks of no request and no message are none.
Marked == NoOne \notin Callers /\ NoMessage \notin SentMessages /\ MaxSends \in Nat

\* Where a request is once it handles its message.
Handling == {"append", "dispatch", "platform", "back"}

TalkTyped ==
  /\ messages \in Seq(Talk!Row)
  /\ hidden \subseteq SentMessages \ Followups
  /\ chatPc \in [Callers -> {"idle", "waiting"} \cup Handling]
  /\ msg \in [Callers -> SentMessages \cup {NoMessage}]
  /\ lock \in [Callers -> {"none", "chat", "interrupt"}]
  /\ writer \in Callers \cup {NoOne}
  /\ begun \in [Callers -> Nat]
  /\ sends \in 0 .. MaxSends

\* A message of the user is there once, and what is said to it comes after it.
UsersUnique == \A m \in SentMessages : \A j, k \in Talk!UserRow(m) : j = k

RowsFollow ==
  \A k \in DOMAIN messages :
    \/ messages[k].role = "user" \/ messages[k].to \in Followups
    \/ \E u \in Talk!UserRow(messages[k].to) : u < k

\* Another message of the user stands between a message and row a.
Parted(m, a) == \E u \in Talk!UserRow(m), v \in Talk!UserRows : u < v /\ v < a

\* A request that handles a message has been refused every answer there was when it began,
\* and whoever appends the message of the user appends the first.
RequestOK(c) ==
  /\ chatPc[c] # "idle" => msg[c] \in SentMessages
  /\ chatPc[c] = "append" => msg[c] \notin Followups
  /\ writer = c => chatPc[c] = "dispatch" /\ msg[c] \notin Followups /\ Talk!UserRow(msg[c]) = {}
  /\ chatPc[c] \in {"dispatch", "platform", "back"} =>
       writer = c \/ msg[c] \in Followups \/ Talk!UserRow(msg[c]) # {}
  /\ chatPc[c] \in Handling =>
       /\ begun[c] <= Len(messages)
       /\ msg[c] \notin Followups =>
            \A a \in Talk!Positions("answer", msg[c]) : begun[c] < a \/ Parted(msg[c], a)

RepliesKnown == \A r \in replies : r[1] \in SentMessages /\ r[2] \in DOMAIN messages

TalkInv ==
  /\ TalkTyped /\ UsersUnique /\ RowsFollow /\ RepliesKnown
  /\ \A c \in Callers : RequestOK(c)
  /\ Talk!AnsweredOnce /\ Talk!RetryGetsOwnAnswer

\* What is appended leaves the rows there were where they are.
LEMMA RowsGrow ==
  ASSUME messages \in Seq(Talk!Row), NEW s \in Seq(Talk!Row), messages' = messages \o s
  PROVE  /\ messages' \in Seq(Talk!Row) /\ Len(messages) \in Nat
         /\ DOMAIN messages = 1 .. Len(messages)
         /\ DOMAIN messages' = 1 .. Len(messages) + Len(s)
         /\ Len(messages') = Len(messages) + Len(s)
         /\ \A k \in DOMAIN messages : k \in DOMAIN messages' /\ messages'[k] = messages[k]
         /\ \A k \in DOMAIN messages' \ DOMAIN messages :
              k - Len(messages) \in 1 .. Len(s) /\ messages'[k] = s[k - Len(messages)]
         /\ \A role, m : /\ Talk!Positions(role, m) \subseteq Talk!Positions(role, m)'
                         /\ \A k \in Talk!Positions(role, m)' :
                              k \in DOMAIN messages => k \in Talk!Positions(role, m)
         /\ Talk!UserRows \subseteq Talk!UserRows'
         /\ \A m, a : Parted(m, a) => Parted(m, a)'
<1>1. /\ messages' \in Seq(Talk!Row) /\ Len(messages) \in Nat
      /\ DOMAIN messages = 1 .. Len(messages)
      /\ DOMAIN messages' = 1 .. Len(messages) + Len(s)
      /\ Len(messages') = Len(messages) + Len(s)
  OBVIOUS
<1>2. \A k \in DOMAIN messages : k \in DOMAIN messages' /\ messages'[k] = messages[k]
  OBVIOUS
<1>3. \A k \in DOMAIN messages' \ DOMAIN messages :
        k - Len(messages) \in 1 .. Len(s) /\ messages'[k] = s[k - Len(messages)]
  OBVIOUS
<1>4. \A role, m : /\ Talk!Positions(role, m) \subseteq Talk!Positions(role, m)'
                   /\ \A k \in Talk!Positions(role, m)' :
                        k \in DOMAIN messages => k \in Talk!Positions(role, m)
  BY <1>2, Zenon DEF Talk!Positions
<1>5. Talk!UserRows \subseteq Talk!UserRows'
  BY <1>4, Zenon DEF Talk!UserRows, Talk!UserRow
<1>6. \A m, a : Parted(m, a) => Parted(m, a)'
  BY <1>4, <1>5, Zenon DEF Parted, Talk!UserRow
<1> QED  BY <1>1, <1>2, <1>3, <1>4, <1>5, <1>6

\* What a request may append: its message if it has that to append, then what is said to it.
Appends(c, s) ==
  /\ s \in Seq(Talk!Row)
  /\ \A i \in 1 .. Len(s) :
       /\ s[i].to = msg[c] /\ s[i].begun = begun[c]
       /\ s[i].role = "user" => i = 1 /\ writer = c
       /\ s[i].role = "answer" => i = Len(s)
       /\ s[i].role # "user" /\ writer = c => i > 1 /\ s[1].role = "user"

\* Appending keeps what the rows promise.
LEMMA RowsKept ==
  ASSUME TalkInv, NEW c \in Callers, chatPc[c] \in Handling \ {"append"},
         NEW s, Appends(c, s), messages' = messages \o s, replies' = replies
  PROVE  UsersUnique' /\ RowsFollow' /\ RepliesKnown' /\ Talk!AnsweredOnce' /\ Talk!RetryGetsOwnAnswer'
<1>1. s \in Seq(Talk!Row) /\ messages \in Seq(Talk!Row) /\ msg[c] \in SentMessages
  BY DEF Appends, TalkInv, TalkTyped, RequestOK, Handling
<1> DEFINE n == Len(messages)
<1>2. /\ n \in Nat /\ DOMAIN messages = 1 .. n /\ DOMAIN messages' \subseteq Nat
      /\ \A k \in DOMAIN messages : k \in DOMAIN messages' /\ messages'[k] = messages[k]
      /\ \A k \in DOMAIN messages' \ DOMAIN messages :
           /\ k > n /\ k - n \in 1 .. Len(s) /\ messages'[k] = s[k - n]
  BY <1>1, RowsGrow
<1>3. /\ \A role, m : /\ Talk!Positions(role, m) \subseteq Talk!Positions(role, m)'
                      /\ \A k \in Talk!Positions(role, m)' :
                           k \in DOMAIN messages => k \in Talk!Positions(role, m)
      /\ Talk!UserRows \subseteq Talk!UserRows'
      /\ \A m, a : Parted(m, a) => Parted(m, a)'
  BY <1>1, RowsGrow, Zenon
<1>4. ASSUME NEW role, NEW m, NEW k \in Talk!Positions(role, m)', k \notin DOMAIN messages
      PROVE  /\ k \in DOMAIN messages' \ DOMAIN messages /\ k > n /\ m = msg[c]
             /\ messages'[k].begun = begun[c] /\ s[k - n].role = role
             /\ k - n \in 1 .. Len(s)
             /\ role = "user" => k = n + 1 /\ writer = c
             /\ role = "answer" => k = n + Len(s)
  <2>1. k \in DOMAIN messages' \ DOMAIN messages /\ messages'[k].role = role /\ messages'[k].to = m
    BY <1>4 DEF Talk!Positions
  <2>2. k - n \in 1 .. Len(s) /\ messages'[k] = s[k - n] /\ k > n /\ k \in Nat
    BY <1>2, <2>1
  <2>3. s[k - n].role = role /\ s[k - n].to = m
    BY <2>1, <2>2
  <2>4. /\ s[k - n].to = msg[c] /\ s[k - n].begun = begun[c]
        /\ s[k - n].role = "user" => k - n = 1 /\ writer = c
        /\ s[k - n].role = "answer" => k - n = Len(s)
    BY <2>2, Zenon DEF Appends
  <2> HIDE DEF n
  <2>5. Len(s) \in Nat
    BY <1>1
  <2>6. role = "user" => k = n + 1 /\ writer = c
    BY <1>2, <2>2, <2>3, <2>4
  <2>7. role = "answer" => k = n + Len(s)
    BY <1>2, <2>2, <2>3, <2>4, <2>5
  <2> QED  BY <2>1, <2>2, <2>3, <2>4, <2>6, <2>7
<1>5. writer = c => Talk!UserRow(msg[c]) = {}
  BY DEF TalkInv, RequestOK
<1>6. UsersUnique'
  <2> SUFFICES ASSUME NEW m \in SentMessages, NEW j \in Talk!Positions("user", m)', NEW k \in Talk!Positions("user", m)'
               PROVE  j = k
    BY DEF UsersUnique, Talk!UserRow
  <2>1. j \in DOMAIN messages => j \in Talk!UserRow(m)
    BY <1>3 DEF Talk!UserRow
  <2>2. k \in DOMAIN messages => k \in Talk!UserRow(m)
    BY <1>3 DEF Talk!UserRow
  <2>3. j \notin DOMAIN messages => j = n + 1 /\ m = msg[c] /\ writer = c
    BY <1>4
  <2>4. k \notin DOMAIN messages => k = n + 1 /\ m = msg[c] /\ writer = c
    BY <1>4
  <2> QED  BY <1>5, <2>1, <2>2, <2>3, <2>4, Zenon DEF TalkInv, UsersUnique
<1>7. RowsFollow'
  <2> SUFFICES ASSUME NEW k \in DOMAIN messages', NEW m, m = messages'[k].to,
                      messages'[k].role # "user", m \notin Followups
               PROVE  \E u \in Talk!UserRow(m)' : u < k
    BY Zenon DEF RowsFollow
  <2>1. CASE k \in DOMAIN messages
    <3>1. messages'[k] = messages[k]
      BY <1>2, <2>1
    <3>2. \E u \in Talk!UserRow(m) : u < k
      BY <2>1, <3>1, Zenon DEF TalkInv, RowsFollow
    <3> QED  BY <1>3, <3>2, Zenon DEF Talk!UserRow
  <2>2. CASE k \notin DOMAIN messages
    <3>1. k > n /\ k - n \in 1 .. Len(s) /\ messages'[k] = s[k - n] /\ k \in Nat
      BY <1>2, <2>2
    <3>2. m = msg[c] /\ (writer = c => k - n > 1 /\ s[1].role = "user")
      BY <3>1 DEF Appends
    <3>3. CASE writer = c
      <4>1. 1 \in 1 .. Len(s) /\ n + 1 < k /\ s[1].role = "user"
        BY <1>1, <1>2, <3>1, <3>2, <3>3
      <4>2. n + 1 \in DOMAIN messages' /\ messages'[n + 1] = s[1]
        BY <1>1, <1>2, <4>1, RowsGrow
      <4>3. s[1].to = m
        BY <3>2, <4>1 DEF Appends
      <4>4. n + 1 \in Talk!UserRow(m)'
        BY <4>1, <4>2, <4>3 DEF Talk!UserRow, Talk!Positions
      <4> QED  BY <4>1, <4>4
    <3>4. CASE writer # c
      <4>1. PICK u \in Talk!UserRow(m) : TRUE
        BY <3>2, <3>4, Zenon DEF TalkInv, RequestOK, Handling
      <4>2. u \in DOMAIN messages
        BY <4>1 DEF Talk!UserRow, Talk!Positions
      <4>3. Talk!UserRow(m) \subseteq Talk!UserRow(m)'
        BY <1>3, Zenon DEF Talk!UserRow
      <4> QED  BY <1>2, <3>1, <4>1, <4>2, <4>3
    <3> QED  BY <3>3, <3>4
  <2> QED  BY <2>1, <2>2
<1>8. RepliesKnown'
  BY <1>2, Zenon DEF TalkInv, RepliesKnown
<1>9. Talk!AnsweredOnce'
  <2> SUFFICES ASSUME NEW m \in SentMessages \ Followups, NEW a \in Talk!Positions("answer", m)',
                      NEW b \in Talk!Positions("answer", m)', a < b
               PROVE  messages'[b].begun < a \/ Parted(m, a)'
    BY Zenon DEF Talk!AnsweredOnce, Parted
  <2>1. CASE b \in DOMAIN messages
    <3>1. a \in DOMAIN messages' /\ a \in Nat /\ b \in Nat /\ a <= n
      BY <1>2, <2>1 DEF Talk!Positions
    <3>2. a \in DOMAIN messages
      BY <1>2, <3>1
    <3>3. a \in Talk!Positions("answer", m) /\ b \in Talk!Positions("answer", m) /\ messages'[b] = messages[b]
      BY <1>2, <1>3, <2>1, <3>2
    <3>4. messages[b].begun < a \/ Parted(m, a)
      BY <3>3, Zenon DEF TalkInv, Talk!AnsweredOnce, Parted
    <3> QED  BY <1>3, <3>3, <3>4, Zenon
  <2>2. CASE b \notin DOMAIN messages
    <3>1. m = msg[c] /\ messages'[b].begun = begun[c] /\ b = n + Len(s)
      BY <1>4, <2>2
    <3>2. a \in DOMAIN messages
      <4>1. a \notin DOMAIN messages => a = n + Len(s)
        BY <1>4, Zenon
      <4> QED  BY <2>2, <3>1, <4>1
    <3>3. a \in Talk!Positions("answer", m)
      BY <1>3, <3>2
    <3>4. begun[c] < a \/ Parted(m, a)
      BY <3>1, <3>3, Zenon DEF TalkInv, RequestOK, Handling
    <3> QED  BY <1>3, <3>1, <3>4, Zenon
  <2> QED  BY <2>1, <2>2
<1>10. Talk!RetryGetsOwnAnswer'
  <2> SUFFICES ASSUME NEW r \in replies, NEW m, m = r[1], NEW found, found = messages'[r[2]].to,
                      found # m, found \notin Followups
               PROVE  \E u \in Talk!UserRow(m)', v \in Talk!UserRow(found)' : v < u
    BY Zenon DEF Talk!RetryGetsOwnAnswer
  <2>1. r[2] \in DOMAIN messages /\ messages'[r[2]] = messages[r[2]]
    BY <1>2, Zenon DEF TalkInv, RepliesKnown
  <2>2. \E u \in Talk!UserRow(m), v \in Talk!UserRow(found) : v < u
    BY <2>1, Zenon DEF TalkInv, Talk!RetryGetsOwnAnswer
  <2> QED  BY <1>3, <2>2, Zenon DEF Talk!UserRow
<1> QED  BY <1>6, <1>7, <1>8, <1>9, <1>10

\* Among some of the rows there is a last one.
LEMMA LastRow ==
  ASSUME NEW n \in Nat, NEW S \in SUBSET (1 .. n), S # {}
  PROVE  Talk!Max(S) \in S
<1> DEFINE T == {n - i : i \in S}
<1>1. \A i \in S : i \in 1 .. n /\ n - i \in Nat
  OBVIOUS
<1>2. T \subseteq Nat /\ T # {}
  BY <1>1
<1>3. \E k \in T : \A l \in T : ~(<<l, k>> \in OpToRel(<, Nat))
  BY <1>2, NatLessThanWellFounded, WFMin
<1>4. OpToRel(<, Nat) = {pair \in Nat \X Nat : pair[1] < pair[2]}
  BY Zenon DEF OpToRel
<1>5. PICK k \in T : \A l \in T : ~(l < k)
  BY <1>2, <1>3, <1>4
<1>6. PICK i \in S : k = n - i
  OBVIOUS
<1>7. ASSUME NEW j \in S  PROVE i >= j
  <2>1. n - j \in T
    OBVIOUS
  <2>2. ~(n - j < n - i)
    BY <1>5, <1>6, <2>1
  <2> QED  BY <1>1, <2>2
<1> QED  BY <1>7 DEF Talk!Max

\* A request stays as it was while others append, and while it appends what is said.
LEMMA HandlingKept ==
  ASSUME TalkInv, NEW s \in Seq(Talk!Row), messages' = messages \o s,
         NEW d \in Callers, chatPc[d] \in Handling, msg'[d] = msg[d], begun'[d] = begun[d]
  PROVE  (/\ begun[d] <= Len(messages)
          /\ msg[d] \notin Followups =>
               \A a \in Talk!Positions("answer", msg[d]) : begun[d] < a \/ Parted(msg[d], a))'
<1>1. messages \in Seq(Talk!Row) /\ begun[d] \in Nat /\ begun[d] <= Len(messages)
  BY DEF TalkInv, TalkTyped, RequestOK
<1>2. /\ Len(messages) \in Nat /\ Len(messages') = Len(messages) + Len(s) /\ Len(s) \in Nat
      /\ \A k \in DOMAIN messages' \ DOMAIN messages : k \in Nat /\ k > Len(messages)
  BY <1>1, RowsGrow
<1>3. /\ \A role, m : \A k \in Talk!Positions(role, m)' : k \in DOMAIN messages => k \in Talk!Positions(role, m)
      /\ \A m, a : Parted(m, a) => Parted(m, a)'
  BY <1>1, RowsGrow, Zenon
<1>4. ASSUME NEW m, m = msg[d], m \notin Followups, NEW a \in Talk!Positions("answer", m)'
      PROVE  begun[d] < a \/ Parted(m, a)'
  <2>1. CASE a \in DOMAIN messages
    <3>1. a \in Talk!Positions("answer", m)
      BY <1>3, <2>1
    <3>2. begun[d] < a \/ Parted(m, a)
      BY <1>4, <3>1, Zenon DEF TalkInv, RequestOK
    <3> QED  BY <1>3, <3>2, Zenon
  <2>2. CASE a \notin DOMAIN messages
    <3>1. a \in DOMAIN messages' \ DOMAIN messages
      BY <2>2 DEF Talk!Positions
    <3> QED  BY <1>1, <1>2, <3>1
  <2> QED  BY <2>1, <2>2
<1>5. begun'[d] <= Len(messages')
  BY <1>1, <1>2
<1>6. PICK m : m = msg[d]
  OBVIOUS
<1> QED  BY <1>4, <1>5, <1>6, Zenon

LEMMA OthersKept ==
  ASSUME TalkInv, NEW c \in Callers, NEW s, Appends(c, s), messages' = messages \o s,
         NEW d \in Callers \ {c}, chatPc'[d] = chatPc[d], msg'[d] = msg[d], begun'[d] = begun[d],
         writer' = d <=> writer = d
  PROVE  RequestOK(d)'
<1>1. s \in Seq(Talk!Row) /\ messages \in Seq(Talk!Row)
  BY DEF Appends, TalkInv, TalkTyped
<1>2. PICK m : m = msg[d] /\ m = msg'[d]
  OBVIOUS
<1>3. /\ chatPc[d] # "idle" => m \in SentMessages
      /\ chatPc[d] = "append" => m \notin Followups
      /\ writer = d => chatPc[d] = "dispatch" /\ m \notin Followups /\ Talk!UserRow(m) = {}
      /\ chatPc[d] \in {"dispatch", "platform", "back"} =>
           writer = d \/ m \in Followups \/ Talk!UserRow(m) # {}
  BY <1>2, Zenon DEF TalkInv, RequestOK
<1>4. Talk!UserRow(m) \subseteq Talk!UserRow(m)'
  BY <1>1, RowsGrow, Zenon DEF Talk!UserRow
<1>5. writer = d => Talk!UserRow(m)' = {}
  <2> SUFFICES ASSUME writer = d, NEW k \in Talk!Positions("user", m)'  PROVE FALSE
    BY Zenon DEF Talk!UserRow
  <2>1. k \notin DOMAIN messages
    BY <1>1, <1>3, RowsGrow, Zenon DEF Talk!UserRow
  <2>2. k \in DOMAIN messages' \ DOMAIN messages /\ messages'[k].role = "user"
    BY <2>1 DEF Talk!Positions
  <2>3. k - Len(messages) \in 1 .. Len(s) /\ messages'[k] = s[k - Len(messages)]
    BY <1>1, <2>2, RowsGrow
  <2> QED  BY <2>2, <2>3, Zenon DEF Appends
<1>6. chatPc[d] \in Handling =>
        (/\ begun[d] <= Len(messages)
         /\ msg[d] \notin Followups =>
              \A a \in Talk!Positions("answer", msg[d]) : begun[d] < a \/ Parted(msg[d], a))'
  BY <1>1, HandlingKept
<1> QED  BY <1>2, <1>3, <1>4, <1>5, <1>6, Zenon DEF RequestOK

\* Without a new row everything read in them stays.
LEMMA RowsStand ==
  ASSUME TalkInv, messages' = messages
  PROVE  /\ UsersUnique' /\ RowsFollow' /\ Talk!AnsweredOnce'
         /\ replies' = replies => RepliesKnown' /\ Talk!RetryGetsOwnAnswer'
         /\ \A d \in Callers :
              /\ chatPc'[d] = chatPc[d] /\ msg'[d] = msg[d] /\ begun'[d] = begun[d]
              /\ writer' = d <=> writer = d
              => RequestOK(d)'
<1>1. /\ UsersUnique' /\ RowsFollow' /\ Talk!AnsweredOnce'
  BY DEF TalkInv, UsersUnique, RowsFollow, Talk!AnsweredOnce, Talk!UserRow, Talk!UserRows, Talk!Positions
<1>2. replies' = replies => RepliesKnown' /\ Talk!RetryGetsOwnAnswer'
  BY DEF TalkInv, RepliesKnown, Talk!RetryGetsOwnAnswer, Talk!UserRow, Talk!Positions
<1>3. ASSUME NEW d \in Callers, chatPc'[d] = chatPc[d], msg'[d] = msg[d], begun'[d] = begun[d],
             writer' = d <=> writer = d
      PROVE  RequestOK(d)'
  BY <1>3 DEF TalkInv, RequestOK, Parted, Talk!UserRow, Talk!UserRows, Talk!Positions
<1> QED  BY <1>1, <1>2, <1>3

\* A request that leaves holds nothing back.
LEMMA LeavesClean ==
  ASSUME TalkInv, Marked, NEW c \in Callers, Talk!Leave(c)
  PROVE  /\ chatPc' \in [Callers -> {"idle", "waiting"} \cup Handling]
         /\ msg' \in [Callers -> SentMessages \cup {NoMessage}]
         /\ lock' \in [Callers -> {"none", "chat", "interrupt"}]
         /\ writer' \in Callers \cup {NoOne} /\ begun' \in [Callers -> Nat]
         /\ RequestOK(c)'
         /\ \A d \in Callers \ {c} : /\ chatPc'[d] = chatPc[d] /\ msg'[d] = msg[d] /\ begun'[d] = begun[d]
                                     /\ writer' = d <=> writer = d
<1>1. /\ chatPc' \in [Callers -> {"idle", "waiting"} \cup Handling]
      /\ msg' \in [Callers -> SentMessages \cup {NoMessage}]
      /\ lock' \in [Callers -> {"none", "chat", "interrupt"}]
      /\ writer' \in Callers \cup {NoOne} /\ begun' \in [Callers -> Nat]
      /\ chatPc'[c] = "idle" /\ writer' # c
  BY DEF TalkInv, TalkTyped, Talk!Leave, Marked
<1>2. RequestOK(c)'
  BY <1>1 DEF RequestOK, Handling
<1>3. \A d \in Callers \ {c} : /\ chatPc'[d] = chatPc[d] /\ msg'[d] = msg[d] /\ begun'[d] = begun[d]
                               /\ writer' = d <=> writer = d
  BY DEF TalkInv, TalkTyped, Talk!Leave, Marked
<1> QED  BY <1>1, <1>2, <1>3

\* The instance counts as this module does.
LEMMA TalkCounts == \A S : Talk!Cardinality(S) = Cardinality(S)
  BY DEF Talk!Cardinality, Cardinality

LEMMA TalkTypes == TalkInv => Talk!TypeOK
<1> SUFFICES ASSUME TalkInv  PROVE Talk!TypeOK
  OBVIOUS
<1>1. ASSUME NEW m \in SentMessages  PROVE Talk!Cardinality(Talk!UserRow(m)) <= 1
  <2>1. CASE Talk!UserRow(m) = {}
    BY <2>1, FS_EmptySet, TalkCounts
  <2>2. CASE Talk!UserRow(m) # {}
    <3>1. PICK u \in Talk!UserRow(m) : TRUE
      BY <2>2
    <3>2. Talk!UserRow(m) = {u}
      BY <3>1, Zenon DEF TalkInv, UsersUnique
    <3>3. Cardinality({u}) = 1
      BY FS_Singleton
    <3> QED  BY <3>2, <3>3, TalkCounts
  <2> QED  BY <2>1, <2>2
<1> QED  BY <1>1 DEF TalkInv, TalkTyped, Talk!TypeOK, Handling

LEMMA TalkBegins == Marked /\ Talk!Init => TalkInv
<1> SUFFICES ASSUME Marked, Talk!Init  PROVE TalkInv
  OBVIOUS
<1>1. messages \in Seq(Talk!Row) /\ DOMAIN messages = {} /\ messages = <<>> /\ replies = {}
  BY DEF Talk!Init
<1>2. TalkTyped
  BY <1>1 DEF Talk!Init, TalkTyped, Marked
<1>3. \A role, m : Talk!Positions(role, m) = {}
  BY <1>1 DEF Talk!Positions
<1>4. UsersUnique /\ RowsFollow /\ RepliesKnown /\ Talk!AnsweredOnce /\ Talk!RetryGetsOwnAnswer
  BY <1>1, <1>3 DEF UsersUnique, RowsFollow, RepliesKnown, Talk!AnsweredOnce, Talk!RetryGetsOwnAnswer, Talk!UserRow
<1>5. \A c \in Callers : RequestOK(c)
  BY DEF Talk!Init, RequestOK, Marked, Handling
<1> QED  BY <1>2, <1>4, <1>5 DEF TalkInv

\* A step that appends.
LEMMA TalkAppends ==
  ASSUME Marked, TalkInv, NEW c \in Callers, chatPc[c] \in Handling \ {"append"},
         NEW s, Appends(c, s), messages' = messages \o s, replies' = replies, TalkTyped', RequestOK(c)',
         \A d \in Callers \ {c} : /\ chatPc'[d] = chatPc[d] /\ msg'[d] = msg[d] /\ begun'[d] = begun[d]
                                  /\ writer' = d <=> writer = d
  PROVE  TalkInv'
<1>1. \A d \in Callers \ {c} : RequestOK(d)'
  BY OthersKept
<1>2. UsersUnique' /\ RowsFollow' /\ RepliesKnown' /\ Talk!AnsweredOnce' /\ Talk!RetryGetsOwnAnswer'
  BY RowsKept
<1> QED  BY <1>1, <1>2, Zenon DEF TalkInv

\* A step that appends nothing.
LEMMA TalkStands ==
  ASSUME Marked, TalkInv, NEW c \in Callers, messages' = messages, TalkTyped', RequestOK(c)',
         replies' = replies \/ (RepliesKnown' /\ Talk!RetryGetsOwnAnswer'),
         \A d \in Callers \ {c} : /\ chatPc'[d] = chatPc[d] /\ msg'[d] = msg[d] /\ begun'[d] = begun[d]
                                  /\ writer' = d <=> writer = d
  PROVE  TalkInv'
<1>1. \A d \in Callers \ {c} : RequestOK(d)'
  BY RowsStand
<1>2. UsersUnique' /\ RowsFollow' /\ Talk!AnsweredOnce' /\ RepliesKnown' /\ Talk!RetryGetsOwnAnswer'
  BY RowsStand
<1> QED  BY <1>1, <1>2, Zenon DEF TalkInv

\* What is remembered of a message was said to it, before it, or to what nobody typed.
LEMMA RememberedIsOwn ==
  ASSUME TalkInv, NEW m \in SentMessages, NEW k \in Talk!Remembered(m)
  PROVE  /\ k \in DOMAIN messages
         /\ \A found : found = messages[k].to =>
              found = m \/ found \in Followups \/ \E u \in Talk!UserRow(m), v \in Talk!UserRow(found) : v < u
<1>1. PICK u \in Talk!UserRow(m) :
        k \in DOMAIN messages /\ messages[k].role # "user" /\ k > u /\ \A n \in Talk!NextUser(u) : k < n
  BY Zenon DEF Talk!Remembered
<1>2. ASSUME NEW found, found = messages[k].to, found # m, found \notin Followups
      PROVE  \E v \in Talk!UserRow(found) : v < u
  <2>1. PICK v \in Talk!UserRow(found) : v < k
    <3>1. \/ messages[k].role = "user" \/ messages[k].to \in Followups
          \/ \E v \in Talk!UserRow(messages[k].to) : v < k
      BY <1>1, Zenon DEF TalkInv, RowsFollow
    <3> QED  BY <1>1, <1>2, <3>1
  <2>2. messages \in Seq(Talk!Row) /\ found \in SentMessages
    <3>1. messages \in Seq(Talk!Row)
      BY DEF TalkInv, TalkTyped
    <3>2. messages[k] \in Talk!Row
      BY <1>1, <3>1
    <3> QED  BY <1>2, <3>1, <3>2 DEF Talk!Row
  <2>3. v \in Talk!UserRows
    BY <2>1, <2>2, Zenon DEF Talk!UserRows
  <2>4. v \in Nat /\ u \in Nat /\ k \in Nat /\ messages[v].to = found /\ messages[u].to = m
    BY <1>1, <2>1, <2>2 DEF Talk!UserRow, Talk!Positions
  <2>5. ~(v > u)
    BY <1>1, <2>1, <2>3, <2>4 DEF Talk!NextUser
  <2> QED  BY <1>2, <2>1, <2>4, <2>5
<1> QED  BY <1>1, <1>2, Zenon

\* Where nothing is remembered, another message stands before every answer.
LEMMA ForgottenIsParted ==
  ASSUME TalkInv, NEW m \in SentMessages \ Followups, Talk!Remembered(m) = {},
         NEW a \in Talk!Positions("answer", m)
  PROVE  Parted(m, a)
<1>1. a \in DOMAIN messages /\ messages[a].role = "answer" /\ messages[a].to = m
  BY DEF Talk!Positions
<1>2. PICK u \in Talk!UserRow(m) : u < a
  BY <1>1, Zenon DEF TalkInv, RowsFollow
<1>3. messages \in Seq(Talk!Row)
  BY DEF TalkInv, TalkTyped
<1>4. a \in Nat /\ u \in Nat
  BY <1>1, <1>2, <1>3 DEF Talk!UserRow, Talk!Positions
<1>5. PICK v \in Talk!NextUser(u) : ~(a < v)
  <2>1. a > u
    BY <1>2, <1>4
  <2>2. a \notin {k \in DOMAIN messages : /\ messages[k].role # "user" /\ k > u
                                         /\ \A n \in Talk!NextUser(u) : k < n}
    BY <1>2, Zenon DEF Talk!Remembered
  <2> QED  BY <1>1, <2>1, <2>2
<1>6. v \in Talk!UserRows /\ u < v
  BY <1>4, <1>5 DEF Talk!NextUser
<1>7. v \in Nat /\ messages[v].role = "user"
  BY <1>3, <1>6 DEF Talk!UserRows, Talk!UserRow, Talk!Positions
<1>8. v < a
  BY <1>1, <1>4, <1>5, <1>7
<1> QED  BY <1>2, <1>6, <1>8, Zenon DEF Parted

LEMMA TalkStep == Marked /\ TalkInv /\ [Talk!Next]_(Talk!vars) => TalkInv'
<1> SUFFICES ASSUME Marked, TalkInv, [Talk!Next]_(Talk!vars)  PROVE TalkInv'
  OBVIOUS
<1> USE DEF Handling
<1>1. TalkTyped /\ messages \in Seq(Talk!Row) /\ Len(messages) \in Nat /\ NoOne \notin Callers
  BY DEF TalkInv, TalkTyped, Marked
<1>2. \A c \in Callers : RequestOK(c)
  BY DEF TalkInv
<1>3. ASSUME NEW c \in Callers, Talk!Send(c)  PROVE TalkInv'
  <2>1. TalkTyped'
    BY <1>1, <1>3 DEF TalkTyped, Talk!Send, Marked
  <2>2. writer # c
    BY <1>2, <1>3 DEF RequestOK, Talk!Send
  <2>3. RequestOK(c)'
    BY <1>1, <1>3, <2>2 DEF TalkTyped, Talk!Send, RequestOK
  <2> QED  BY <1>1, <1>3, <2>1, <2>3, TalkStands DEF TalkTyped, Talk!Send
<1>4. ASSUME NEW c \in Callers, Talk!ServeAgain(c)  PROVE TalkInv'
  <2>1. /\ chatPc' \in [Callers -> {"idle", "waiting"} \cup Handling]
        /\ msg' \in [Callers -> SentMessages \cup {NoMessage}]
        /\ lock' \in [Callers -> {"none", "chat", "interrupt"}]
        /\ writer' \in Callers \cup {NoOne} /\ begun' \in [Callers -> Nat]
        /\ RequestOK(c)'
        /\ \A d \in Callers \ {c} : /\ chatPc'[d] = chatPc[d] /\ msg'[d] = msg[d] /\ begun'[d] = begun[d]
                                    /\ writer' = d <=> writer = d
    BY <1>4, LeavesClean DEF Talk!ServeAgain
  <2>2. TalkTyped' /\ messages' = messages
    BY <1>1, <1>4, <2>1 DEF TalkTyped, Talk!ServeAgain
  <2>3. replies' = replies \/ (RepliesKnown' /\ Talk!RetryGetsOwnAnswer')
    <3> SUFFICES ASSUME Talk!Remembered(msg[c]) # {},
                        replies' = replies \cup {<<msg[c], Talk!Max(Talk!Remembered(msg[c]))>>}
                 PROVE  RepliesKnown' /\ Talk!RetryGetsOwnAnswer'
      BY <1>4, Zenon DEF Talk!ServeAgain
    <3>1. PICK m : m = msg[c]
      OBVIOUS
    <3>2. m \in SentMessages
      BY <1>2, <1>4, <3>1 DEF RequestOK, Talk!ServeAgain, Talk!Begin
    <3>3. Talk!Remembered(m) \subseteq 1 .. Len(messages)
      BY <1>1 DEF Talk!Remembered
    <3>4. PICK k \in Talk!Remembered(m) : k = Talk!Max(Talk!Remembered(m))
      BY <1>1, <3>1, <3>3, LastRow
    <3>5. replies' = replies \cup {<<m, k>>}
      BY <3>1, <3>4
    <3>6. /\ k \in DOMAIN messages
          /\ \A found : found = messages[k].to =>
               found = m \/ found \in Followups \/ \E u \in Talk!UserRow(m), v \in Talk!UserRow(found) : v < u
      BY <3>2, RememberedIsOwn, Zenon
    <3>7. RepliesKnown'
      BY <2>2, <3>2, <3>5, <3>6 DEF TalkInv, RepliesKnown
    <3>8. \A n : Talk!UserRow(n)' = Talk!UserRow(n)
      BY <2>2, Zenon DEF Talk!UserRow, Talk!Positions
    <3>9. Talk!RetryGetsOwnAnswer'
      <4> SUFFICES ASSUME NEW r \in replies', NEW n, n = r[1], NEW found, found = messages'[r[2]].to,
                          found # n, found \notin Followups
                   PROVE  \E u \in Talk!UserRow(n)', v \in Talk!UserRow(found)' : v < u
        BY Zenon DEF Talk!RetryGetsOwnAnswer
      <4>1. CASE r \in replies
        <5>1. found = messages[r[2]].to
          BY <2>2
        <5>2. \E u \in Talk!UserRow(n), v \in Talk!UserRow(found) : v < u
          BY <4>1, <5>1, Zenon DEF TalkInv, Talk!RetryGetsOwnAnswer
        <5> QED  BY <3>8, <5>2
      <4>2. CASE r = <<m, k>>
        <5>1. n = m /\ found = messages[k].to
          BY <2>2, <4>2
        <5>2. \E u \in Talk!UserRow(n), v \in Talk!UserRow(found) : v < u
          BY <3>6, <5>1, Zenon
        <5> QED  BY <3>8, <5>2
      <4> QED  BY <3>5, <4>1, <4>2
    <3> QED  BY <3>7, <3>9
  <2> QED  BY <2>1, <2>2, <2>3, TalkStands
<1>5. ASSUME NEW c \in Callers, Talk!Handle(c)  PROVE TalkInv'
  <2>1. TalkTyped' /\ messages' = messages /\ replies' = replies
    BY <1>1, <1>5 DEF TalkTyped, Talk!Handle
  <2>2. writer # c /\ msg[c] \in SentMessages
    BY <1>2, <1>5 DEF RequestOK, Talk!Handle, Talk!Begin
  <2>3. \A role, m : Talk!Positions(role, m)' = Talk!Positions(role, m)
    BY <2>1, Zenon DEF Talk!Positions
  <2>4. PICK m : m = msg[c]
    OBVIOUS
  <2>5. m \notin Followups => \A a \in Talk!Positions("answer", m) : Parted(m, a)
    BY <1>5, <2>2, <2>4, ForgottenIsParted DEF Talk!Handle
  <2>6. \A a : Parted(m, a)' <=> Parted(m, a)
    BY <2>3, Zenon DEF Parted, Talk!UserRow, Talk!UserRows
  <2>7. begun'[c] = Len(messages) /\ msg'[c] = m /\ writer' = writer
    BY <1>1, <1>5, <2>4 DEF TalkTyped, Talk!Handle
  <2>8. \/ chatPc'[c] = "dispatch" /\ (m \in Followups \/ Talk!UserRow(m) # {})
        \/ chatPc'[c] = "append" /\ m \notin Followups
    BY <1>1, <1>5, <2>4 DEF TalkTyped, Talk!Handle
  <2>9. begun'[c] <= Len(messages')
    BY <1>1, <2>1, <2>7
  <2>10. RequestOK(c)'
    BY <2>2, <2>3, <2>4, <2>5, <2>6, <2>7, <2>8, <2>9, Zenon DEF RequestOK, Talk!UserRow
  <2> QED  BY <1>1, <1>5, <2>1, <2>10, TalkStands DEF TalkTyped, Talk!Handle
<1>6. ASSUME NEW c \in Callers, Talk!AppendUser(c)  PROVE TalkInv'
  <2>1. TalkTyped' /\ messages' = messages /\ replies' = replies
    BY <1>1, <1>6 DEF TalkTyped, Talk!AppendUser
  <2>2. PICK m : m = msg[c] /\ m = msg'[c]
    BY <1>6 DEF Talk!AppendUser
  <2>3. \A role, n : Talk!Positions(role, n)' = Talk!Positions(role, n)
    BY <2>1, Zenon DEF Talk!Positions
  <2>4. \A a : Parted(m, a)' <=> Parted(m, a)
    BY <2>3, Zenon DEF Parted, Talk!UserRow, Talk!UserRows
  <2>5. chatPc'[c] = "dispatch" /\ writer' = c /\ begun' = begun /\ chatPc[c] = "append" /\ Talk!UserRow(m) = {}
    BY <1>1, <1>6, <2>2 DEF TalkTyped, Talk!AppendUser
  <2>6. /\ m \in SentMessages /\ m \notin Followups /\ begun[c] <= Len(messages)
        /\ \A a \in Talk!Positions("answer", m) : begun[c] < a \/ Parted(m, a)
    BY <1>2, <2>2, <2>5, Zenon DEF RequestOK
  <2>7. RequestOK(c)'
    BY <2>1, <2>2, <2>3, <2>4, <2>5, <2>6, Zenon DEF RequestOK, Talk!UserRow
  <2>8. \A d \in Callers \ {c} : /\ chatPc'[d] = chatPc[d] /\ msg'[d] = msg[d] /\ begun'[d] = begun[d]
                                 /\ writer' = d <=> writer = d
    BY <1>1, <1>6 DEF TalkTyped, Talk!AppendUser
  <2> QED  BY <2>1, <2>7, <2>8, TalkStands
<1>7. ASSUME NEW c \in Callers  PROVE Talk!NewRow("user", c) = [role |-> "user", to |-> msg[c], begun |-> begun[c]]
                                 /\ Talk!Pending(c) = IF writer = c THEN <<Talk!NewRow("user", c)>> ELSE <<>>
  BY DEF Talk!NewRow, Talk!Pending
<1>8. ASSUME NEW c \in Callers, chatPc[c] \in Handling, NEW role \in {"user", "answer", "notice"}
      PROVE  Talk!NewRow(role, c) \in Talk!Row /\ Talk!NewRow(role, c).role = role
             /\ Talk!NewRow(role, c).to = msg[c] /\ Talk!NewRow(role, c).begun = begun[c]
  BY <1>1, <1>2, <1>8 DEF Talk!NewRow, Talk!Row, RequestOK, TalkTyped
<1>9. ASSUME NEW c \in Callers, Talk!StartQuote(c)  PROVE TalkInv'
  <2> DEFINE s == Talk!Pending(c)
  <2>1. TalkTyped' /\ messages' = messages \o s /\ replies' = replies /\ s \in Seq(Talk!Row)
    BY <1>1, <1>8, <1>9 DEF TalkTyped, Talk!StartQuote, Talk!Pending
  <2>2. Appends(c, s)
    BY <1>8, <1>9, <2>1 DEF Appends, Talk!Pending, Talk!StartQuote
  <2>3. /\ chatPc[c] = "dispatch" /\ chatPc'[c] = "platform" /\ msg' = msg /\ begun' = begun
        /\ writer' = IF writer = c THEN NoOne ELSE writer
    BY <1>1, <1>9 DEF TalkTyped, Talk!StartQuote
  <2>4. PICK m : m = msg[c] /\ m = msg'[c]
    BY <2>3
  <2>5. m \in SentMessages /\ (writer = c \/ m \in Followups \/ Talk!UserRow(m) # {})
    BY <1>2, <2>3, <2>4, Zenon DEF RequestOK
  <2>6. m \in Followups \/ Talk!UserRow(m)' # {}
    <3>1. CASE writer = c
      <4>1. s = <<Talk!NewRow("user", c)>>
        BY <3>1 DEF Talk!Pending
      <4>2. Len(messages) + 1 \in DOMAIN messages' /\ messages'[Len(messages) + 1] = Talk!NewRow("user", c)
        BY <1>1, <2>1, <4>1
      <4>3. Len(messages) + 1 \in Talk!UserRow(m)'
        BY <1>8, <2>3, <2>4, <4>2 DEF Talk!UserRow, Talk!Positions
      <4> QED  BY <4>3
    <3>2. CASE writer # c
      <4>1. Talk!UserRow(m) \subseteq Talk!UserRow(m)'
        BY <1>1, <2>1, RowsGrow, Zenon DEF Talk!UserRow
      <4> QED  BY <2>5, <3>2, <4>1
    <3> QED  BY <3>1, <3>2
  <2>7. (/\ begun[c] <= Len(messages)
         /\ msg[c] \notin Followups =>
              \A a \in Talk!Positions("answer", msg[c]) : begun[c] < a \/ Parted(msg[c], a))'
    BY <2>1, <2>3, HandlingKept
  <2>8. writer' # c
    BY <1>1, <2>3
  <2>9. RequestOK(c)'
    BY <2>3, <2>4, <2>5, <2>6, <2>7, <2>8, Zenon DEF RequestOK
  <2>10. \A d \in Callers \ {c} : /\ chatPc'[d] = chatPc[d] /\ msg'[d] = msg[d] /\ begun'[d] = begun[d]
                                  /\ writer' = d <=> writer = d
    BY <1>1, <1>9, <2>3 DEF TalkTyped, Talk!StartQuote
  <2> HIDE DEF s
  <2> QED  BY <2>1, <2>2, <2>3, <2>9, <2>10, TalkAppends
<1>10. ASSUME NEW c \in Callers, Talk!Notice(c)  PROVE TalkInv'
  <2> DEFINE s == <<Talk!NewRow("notice", c)>>
  <2>1. TalkTyped' /\ messages' = messages \o s /\ replies' = replies /\ s \in Seq(Talk!Row)
    BY <1>1, <1>8, <1>10 DEF TalkTyped, Talk!Notice
  <2>2. Appends(c, s)
    BY <1>1, <1>8, <1>10, <2>1 DEF Appends, Talk!Notice
  <2>3. chatPc[c] = "platform" /\ chatPc' = chatPc /\ msg' = msg /\ begun' = begun /\ writer' = writer /\ writer = NoOne
    BY <1>10 DEF Talk!Notice
  <2>4. PICK m : m = msg[c] /\ m = msg'[c]
    BY <2>3
  <2>5. m \in SentMessages /\ (m \in Followups \/ Talk!UserRow(m) # {})
    BY <1>1, <1>2, <2>3, <2>4, Zenon DEF RequestOK
  <2>6. Talk!UserRow(m) \subseteq Talk!UserRow(m)'
    BY <1>1, <2>1, RowsGrow, Zenon DEF Talk!UserRow
  <2>7. (/\ begun[c] <= Len(messages)
         /\ msg[c] \notin Followups =>
              \A a \in Talk!Positions("answer", msg[c]) : begun[c] < a \/ Parted(msg[c], a))'
    BY <2>1, <2>3, HandlingKept
  <2>8. m \in Followups \/ Talk!UserRow(m)' # {}
    BY <2>5, <2>6
  <2>9. RequestOK(c)'
    BY <1>1, <2>3, <2>4, <2>5, <2>7, <2>8, Zenon DEF RequestOK
  <2>10. chatPc[c] \in Handling \ {"append"}
    BY <2>3
  <2> HIDE DEF s
  <2> QED  BY <2>1, <2>2, <2>3, <2>9, <2>10, TalkAppends
<1>11. ASSUME NEW c \in Callers, Talk!QuoteReturns(c)  PROVE TalkInv'
  <2>1. TalkTyped' /\ messages' = messages /\ replies' = replies
    BY <1>1, <1>11 DEF TalkTyped, Talk!QuoteReturns
  <2>2. chatPc[c] = "platform" /\ chatPc'[c] = "back" /\ msg' = msg /\ begun' = begun /\ writer' = writer
    BY <1>1, <1>11 DEF TalkTyped, Talk!QuoteReturns
  <2>3. RequestOK(c)'
    BY <1>2, <2>1, <2>2 DEF RequestOK, Parted, Talk!UserRow, Talk!UserRows, Talk!Positions
  <2> QED  BY <1>1, <1>11, <2>1, <2>3, TalkStands DEF TalkTyped, Talk!QuoteReturns
<1>12. ASSUME NEW c \in Callers, Talk!Answer(c)  PROVE TalkInv'
  <2>1. /\ chatPc' \in [Callers -> {"idle", "waiting"} \cup Handling]
        /\ msg' \in [Callers -> SentMessages \cup {NoMessage}]
        /\ lock' \in [Callers -> {"none", "chat", "interrupt"}]
        /\ writer' \in Callers \cup {NoOne} /\ begun' \in [Callers -> Nat]
        /\ RequestOK(c)'
        /\ \A d \in Callers \ {c} : /\ chatPc'[d] = chatPc[d] /\ msg'[d] = msg[d] /\ begun'[d] = begun[d]
                                    /\ writer' = d <=> writer = d
    BY <1>12, LeavesClean DEF Talk!Answer
  <2>2. chatPc[c] \in {"dispatch", "back"} /\ replies' = replies /\ sends' = sends /\ msg[c] \in SentMessages
    BY <1>2, <1>12 DEF Talk!Answer, RequestOK
  <2>3. PICK s : /\ s \in {Talk!Pending(c), Talk!Pending(c) \o <<Talk!NewRow("answer", c)>>}
                 /\ messages' = messages \o s
    <3>1. Talk!Pending(c) \in Seq(Talk!Row) /\ <<Talk!NewRow("answer", c)>> \in Seq(Talk!Row)
      BY <1>8, <2>2 DEF Talk!Pending
    <3>2. (messages \o Talk!Pending(c)) \o <<Talk!NewRow("answer", c)>>
          = messages \o (Talk!Pending(c) \o <<Talk!NewRow("answer", c)>>)
      BY <1>1, <3>1, ConcatAssociative
    <3> QED  BY <1>12, <3>2 DEF Talk!Answer
  <2>4. Appends(c, s)
    <3>1. CASE writer = c
      <4>1. Talk!Pending(c) = <<Talk!NewRow("user", c)>>
        BY <3>1 DEF Talk!Pending
      <4>2. s = <<Talk!NewRow("user", c)>> \/ s = <<Talk!NewRow("user", c), Talk!NewRow("answer", c)>>
        BY <2>3, <4>1
      <4>3. /\ Talk!NewRow("user", c) \in Talk!Row /\ Talk!NewRow("answer", c) \in Talk!Row
            /\ Talk!NewRow("user", c).role = "user" /\ Talk!NewRow("answer", c).role = "answer"
            /\ \A role \in {"user", "answer"} : /\ Talk!NewRow(role, c).to = msg[c]
                                               /\ Talk!NewRow(role, c).begun = begun[c]
        BY <1>8, <2>2
      <4>4. CASE s = <<Talk!NewRow("user", c)>>
        BY <3>1, <4>3, <4>4 DEF Appends
      <4>5. CASE s = <<Talk!NewRow("user", c), Talk!NewRow("answer", c)>>
        <5>1. s \in Seq(Talk!Row) /\ Len(s) = 2 /\ s[1] = Talk!NewRow("user", c) /\ s[2] = Talk!NewRow("answer", c)
          BY <4>3, <4>5
        <5>2. \A i \in 1 .. Len(s) : i = 1 \/ i = 2
          BY <5>1
        <5> QED  BY <3>1, <4>3, <5>1, <5>2 DEF Appends
      <4> QED  BY <4>2, <4>4, <4>5
    <3>2. CASE writer # c
      <4>1. Talk!Pending(c) = <<>>
        BY <3>2 DEF Talk!Pending
      <4>2. s = <<>> \/ s = <<Talk!NewRow("answer", c)>>
        BY <2>3, <4>1
      <4>3. /\ Talk!NewRow("answer", c) \in Talk!Row /\ Talk!NewRow("answer", c).role = "answer"
            /\ Talk!NewRow("answer", c).to = msg[c] /\ Talk!NewRow("answer", c).begun = begun[c]
        BY <1>8, <2>2
      <4>4. CASE s = <<>>
        BY <4>4 DEF Appends
      <4>5. CASE s = <<Talk!NewRow("answer", c)>>
        BY <3>2, <4>3, <4>5 DEF Appends
      <4> QED  BY <4>2, <4>4, <4>5
    <3> QED  BY <3>1, <3>2
  <2>5. messages' \in Seq(Talk!Row)
    BY <1>1, <2>3, <2>4, RowsGrow DEF Appends
  <2>6. TalkTyped'
    BY <1>1, <1>12, <2>1, <2>2, <2>5 DEF TalkTyped, Talk!Answer
  <2>7. chatPc[c] \in Handling \ {"append"}
    BY <2>2
  <2> QED  BY <2>1, <2>2, <2>3, <2>4, <2>6, <2>7, TalkAppends
<1>13. ASSUME NEW c \in Callers, Talk!Fail(c)  PROVE TalkInv'
  <2>1. /\ chatPc' \in [Callers -> {"idle", "waiting"} \cup Handling]
        /\ msg' \in [Callers -> SentMessages \cup {NoMessage}]
        /\ lock' \in [Callers -> {"none", "chat", "interrupt"}]
        /\ writer' \in Callers \cup {NoOne} /\ begun' \in [Callers -> Nat]
        /\ RequestOK(c)'
        /\ \A d \in Callers \ {c} : /\ chatPc'[d] = chatPc[d] /\ msg'[d] = msg[d] /\ begun'[d] = begun[d]
                                    /\ writer' = d <=> writer = d
    BY <1>13, LeavesClean DEF Talk!Fail
  <2>2. TalkTyped' /\ messages' = messages /\ replies' = replies
    BY <1>1, <1>13, <2>1 DEF TalkTyped, Talk!Fail
  <2> QED  BY <2>1, <2>2, TalkStands
<1>14. CASE UNCHANGED Talk!vars
  BY <1>14 DEF Talk!vars, TalkInv, TalkTyped, UsersUnique, RowsFollow, RepliesKnown, RequestOK, Parted,
               Talk!AnsweredOnce, Talk!RetryGetsOwnAnswer, Talk!UserRow, Talk!UserRows, Talk!Positions
<1> QED  BY <1>3, <1>4, <1>5, <1>6, <1>9, <1>10, <1>11, <1>12, <1>13, <1>14 DEF Talk!Next

(* However often a message is sent and whatever fails, it is answered once, and by an      *)
(* answer of its own, for any number of requests, messages and workers.                    *)
THEOREM RetriesStayAnswered ==
  ASSUME Marked
  PROVE  Talk!Spec => [](Talk!TypeOK /\ Talk!RetriesAnswered)
<1>1. TalkInv => Talk!TypeOK /\ Talk!RetriesAnswered
  BY TalkTypes DEF TalkInv, Talk!RetriesAnswered
<1> QED  BY TalkBegins, TalkStep, <1>1, PTL DEF Talk!Spec
=============================================================================
