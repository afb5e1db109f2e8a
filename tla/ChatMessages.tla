----------------------------- MODULE ChatMessages -----------------------------
(***************************************************************************)
(* The messages of one conversation and the retries of the frontend        *)
(* (ai_assistant_service.py, send_message): a retry carries the id of its  *)
(* message and is served from what the conversation remembers, if it finds *)
(* an answer there.                                                        *)
(*                                                                         *)
(* A transaction that appends a message locks the row of the session until *)
(* it ends, so messages become visible in the order of their ids.  A quote *)
(* commits the user's message, gives up the chat lock for the call of the  *)
(* platform, whose notices are appended meanwhile, and answers later.      *)
(***************************************************************************)
EXTENDS Naturals, Sequences, FiniteSetsExt

CONSTANTS
  Callers,     \* the places of requests in flight; each serves any number of them
  WorkerOf,    \* the worker process of each
  Messages,
  QuoteMessages, \* the messages that may start a quote
  Followups,   \* messages the frontend sends by itself, which leave no message of the user
  NoMessage, NoOne,
  MaxSends, MaxNotices  \* bounds on the requests and on the notices

VARIABLES
  rows,     \* what is committed of quote_assistant_message, in the order of ids
  hidden,   \* the user's messages that keep an answer not to be shown
  pc, msg,
  lock,     \* the lock a request waits for, holds or takes again: "none", "chat" or "interrupt"
  writer,   \* the request that has the row of the session locked
  begun,    \* begun[c]: the messages that were visible when the handling began
  sends,    \* the number of requests so far
  replies   \* history: <<m, k>>, when a request with m was answered with row k

vars == <<rows, hidden, pc, msg, lock, writer, begun, sends, replies>>

Row == [role : {"user", "answer", "notice"}, to : Messages, begun : Nat]
NewRow(role, c) == [role |-> role, to |-> msg[c], begun |-> begun[c]]

Positions(role, m) == {k \in DOMAIN rows : rows[k].role = role /\ rows[k].to = m}
UserRow(m) == Positions("user", m)
UserRows == UNION {UserRow(m) : m \in Messages}

Init ==
  /\ rows = <<>> /\ hidden = {}
  /\ pc = [c \in Callers |-> "idle"]
  /\ msg = [c \in Callers |-> NoMessage]
  /\ lock = [c \in Callers |-> "none"]
  /\ writer = NoOne
  /\ begun = [c \in Callers |-> 0]
  /\ sends = 0
  /\ replies = {}

-----------------------------------------------------------------------------
\* A request in platform I/O has given up the chat lock, but not the interrupt lock.
Holds(c, kind) ==
  lock[c] = kind /\ pc[c] # "waiting" /\ ~(kind = "chat" /\ pc[c] = "platform")

Free(c, kind) == \A d \in Callers \ {c} : WorkerOf[d] = WorkerOf[c] => ~Holds(d, kind)

\* Mutant: a message bounds its own answers.
NextUser_Itself(u) == {k \in UserRows : k >= u}

\* Mutant: nothing bounds the answers.
NextUser_None(u) == {}

NextUser(u) == {k \in UserRows : k > u}

\* _db_cached_response_after_user_message: the last row of the assistant before the next
\* message of the user.
Remembered(m) ==
  UNION {{k \in DOMAIN rows : /\ rows[k].role # "user" /\ k > u
                              /\ \A n \in NextUser(u) : k < n} : u \in UserRow(m)}

Leave(c) ==
  /\ pc' = [pc EXCEPT ![c] = "idle"]
  /\ msg' = [msg EXCEPT ![c] = NoMessage]
  /\ lock' = [lock EXCEPT ![c] = "none"]
  /\ begun' = [begun EXCEPT ![c] = 0]
  /\ writer' = IF writer = c THEN NoOne ELSE writer

\* ai_chat chooses the chat lock, or for what may interrupt a quote that runs the
\* interrupt lock, and waits for it.
Send(c) ==
  /\ pc[c] = "idle" /\ sends < MaxSends
  /\ \E m \in Messages, kind \in {"chat", "interrupt"} :
       /\ kind = "interrupt" => \E d \in Callers : pc[d] \in {"platform", "back"}
       /\ msg' = [msg EXCEPT ![c] = m]
       /\ lock' = [lock EXCEPT ![c] = kind]
  /\ pc' = [pc EXCEPT ![c] = "waiting"]
  /\ sends' = sends + 1
  /\ UNCHANGED <<rows, hidden, writer, begun, replies>>

\* With the lock the message is handled in a fresh transaction.
Begin(c) == pc[c] = "waiting" /\ Free(c, lock[c])

ServeAgain(c) ==
  /\ Begin(c)
  /\ \/ msg[c] \in hidden /\ UNCHANGED replies
     \/ /\ msg[c] \notin hidden /\ Remembered(msg[c]) # {}
        /\ replies' = replies \cup {<<msg[c], Max(Remembered(msg[c]))>>}
  /\ Leave(c)
  /\ UNCHANGED <<rows, hidden, sends>>

\* A message that is known but has no answer is dispatched again.
Handle(c) ==
  /\ Begin(c) /\ msg[c] \notin hidden /\ Remembered(msg[c]) = {}
  /\ begun' = [begun EXCEPT ![c] = Len(rows)]
  /\ pc' = [pc EXCEPT ![c] =
              IF msg[c] \in Followups \/ UserRow(msg[c]) # {} THEN "dispatch" ELSE "append"]
  /\ UNCHANGED <<rows, hidden, msg, lock, writer, sends, replies>>

\* The public id of a message is unique: a retry that has not seen it fails (see Fail).
AppendUser(c) ==
  /\ pc[c] = "append" /\ writer = NoOne /\ UserRow(msg[c]) = {}
  /\ writer' = c
  /\ pc' = [pc EXCEPT ![c] = "dispatch"]
  /\ UNCHANGED <<rows, hidden, msg, lock, begun, sends, replies>>

\* The user's message this request has appended and not committed.
Pending(c) == IF writer = c THEN <<NewRow("user", c)>> ELSE <<>>

StartQuote(c) ==
  /\ pc[c] = "dispatch" /\ msg[c] \in QuoteMessages
  /\ rows' = rows \o Pending(c)
  /\ writer' = IF writer = c THEN NoOne ELSE writer
  /\ pc' = [pc EXCEPT ![c] = "platform"]
  /\ UNCHANGED <<hidden, msg, lock, begun, sends, replies>>

\* A prompt of the platform is shown at once, in a transaction of its own.
Notice(c) ==
  /\ pc[c] = "platform" /\ writer = NoOne
  /\ Cardinality({k \in DOMAIN rows : rows[k].role = "notice"}) < MaxNotices
  /\ rows' = Append(rows, NewRow("notice", c))
  /\ UNCHANGED <<hidden, pc, msg, lock, writer, begun, sends, replies>>

QuoteReturns(c) ==
  /\ pc[c] = "platform" /\ Free(c, lock[c])
  /\ pc' = [pc EXCEPT ![c] = "back"]
  /\ UNCHANGED <<rows, hidden, msg, lock, writer, begun, sends, replies>>

\* The answer, or the error of the dispatch, becomes a message; an answer not to be shown
\* is kept with the message of the user.
Answer(c) ==
  /\ pc[c] \in {"dispatch", "back"} /\ writer \in {NoOne, c}
  /\ \/ /\ rows' = rows \o Pending(c) \o <<NewRow("answer", c)>>
        /\ UNCHANGED hidden
     \/ /\ rows' = rows \o Pending(c)
        /\ hidden' = hidden \cup ({msg[c]} \ Followups)
  /\ Leave(c)
  /\ UNCHANGED <<sends, replies>>

\* A duplicate id, a lost connection, a crash: what is not committed is gone.
Fail(c) ==
  /\ pc[c] # "idle"
  /\ Leave(c)
  /\ UNCHANGED <<rows, hidden, sends, replies>>

Next ==
  \E c \in Callers :
    \/ Send(c)
    \/ ServeAgain(c)
    \/ Handle(c)
    \/ AppendUser(c)
    \/ StartQuote(c)
    \/ Notice(c)
    \/ QuoteReturns(c)
    \/ Answer(c)
    \/ Fail(c)

Spec == Init /\ [][Next]_vars

-----------------------------------------------------------------------------
TypeOK ==
  /\ rows \in Seq(Row) /\ \A m \in Messages : Cardinality(UserRow(m)) <= 1
  /\ hidden \subseteq Messages \ Followups
  /\ pc \in [Callers -> {"idle", "waiting", "append", "dispatch", "platform", "back"}]
  /\ msg \in [Callers -> Messages \cup {NoMessage}]
  /\ lock \in [Callers -> {"none", "chat", "interrupt"}]
  /\ writer \in Callers \cup {NoOne}
  /\ begun \in [Callers -> Nat]
  /\ sends \in 0 .. MaxSends

\* A message is answered a second time only if the first answer was not there when the
\* second handling began, or another message of the user stands between the two.
AnsweredOnce ==
  \A m \in Messages \ Followups : \A a, b \in Positions("answer", m) :
    a < b => \/ rows[b].begun < a
             \/ \E u \in UserRow(m), v \in UserRows : u < v /\ v < a

\* What a retry is served belongs to its message, to one that came before it, or to one
\* the frontend sent by itself, never to a message that came after it.
RetryGetsOwnAnswer ==
  \A r \in replies :
    LET m == r[1]  found == rows[r[2]].to IN
    found = m \/ found \in Followups \/ \E u \in UserRow(m), v \in UserRow(found) : v < u

(* However often a message is sent, it is answered once and by an answer of its own:       *)
(* AnsweredOnce and RetryGetsOwnAnswer.                                                    *)
RetriesAnswered == AnsweredOnce /\ RetryGetsOwnAnswer
===============================================================================
