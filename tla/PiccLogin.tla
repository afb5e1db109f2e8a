------------------------------- MODULE PiccLogin -------------------------------
(***************************************************************************)
(* A login at PICC and the tokens of its session (platforms/picc/login.py, *)
(* base.py, the short operations of business.py): one account, one         *)
(* operation at a time, each with a client made from the session that is   *)
(* kept.  Copies, versions and leases of the session are AccountSession.   *)
(*                                                                         *)
(* A web session of the platform (JSESSIONID) is named by its number, a    *)
(* token (USER_TOKEN) by the time it was issued.                           *)
(***************************************************************************)
EXTENDS Naturals, Sequences, FiniteSets, FiniteSetsExt

CONSTANTS None, MaxOps, MaxWebs, MaxTokens \* bounds

VARIABLES
  kept,   \* the session: st, web, tok, cookie (the jar's token), pending (the context of
          \* a login), back (the session put aside during a login, or None)
  webs,   \* the platform: per web session, is its slide passed, is it logged in
  issued, \* the platform: the web session of each token
  op, code, pc,
  client, \* web, tok, cookie of the client that runs
  before, \* the session a login or a challenge began with
  ops,
  restarted, \* this login was begun anew
  seen,   \* the newest token received for each web session
  dropped,\* web sessions of which an operation ended without keeping its token
  lapses, trouble \* of the challenge: slides refused, anything else that failed

vars == <<kept, webs, issued, op, code, pc, client, before, ops, restarted, seen, dropped, lapses, trouble>>
platform == <<webs, issued>>
history == <<seen, dropped, lapses, trouble>>

Usable(s) == s.st \in {"authenticated", "degraded"}
Nobody == [web |-> 0, tok |-> 0, cookie |-> 0]

\* A session that is put aside, and one that comes back.
Aside(s) == IF Usable(s) THEN [web |-> s.web, tok |-> s.tok, cookie |-> s.cookie] ELSE None
Restored(b) ==
  [st |-> "degraded", web |-> b.web, tok |-> b.tok, cookie |-> b.cookie, pending |-> FALSE, back |-> None]

-----------------------------------------------------------------------------
\* Tokens.

\* Mutant: whatever token came last.
Install_Any(c, tok) == IF tok = 0 THEN c ELSE [c EXCEPT !.tok = tok, !.cookie = tok]

\* install_token: an older one than that in use is not taken, and stays in the jar.
Install(c, tok) == IF tok = 0 \/ tok < c.tok THEN c ELSE [c EXCEPT !.tok = tok, !.cookie = tok]

\* _best_valid_token of the header and the jar
Best(header, jar) == Max({header, jar})

Received(c, header, set) ==
  LET jar == IF set = 0 THEN c.cookie ELSE set IN
  Install([c EXCEPT !.cookie = jar], Best(header, jar))

\* capture_snapshot takes the jar's token if it is not older.
Captured(c) == Install(c, c.cookie)

Issue(w) == IF Len(issued) < MaxTokens THEN {issued, Append(issued, w)} ELSE {issued}

\* An answer with its tokens: none, one of this web session, or a new one, in a header and as
\* a cookie.
Answered(next) ==
  /\ \E some \in Issue(client.web) :
       /\ issued' = some
       /\ \E header, set \in {0} \cup {t \in DOMAIN some : some[t] = client.web} :
            /\ client' = Received(client, header, set)
            /\ seen' = [seen EXCEPT ![client.web] = Max({@, header, set})]
  /\ pc' = next

-----------------------------------------------------------------------------
\* How a login or a challenge ends, in the session manager.

Idle == pc' = "idle" /\ op' = None /\ code' = None /\ client' = Nobody /\ restarted' = FALSE

\* needs_code with a new login
Asks ==
  /\ kept' = [st |-> "waiting", web |-> client.web, tok |-> client.tok, cookie |-> client.cookie,
              pending |-> TRUE, back |-> IF op = "login" THEN Aside(before) ELSE None]
  /\ Idle

\* needs_code with the login that waits
AsksAgain == kept' = before /\ Idle

\* failed: the session from before comes back.
Fails ==
  /\ kept' = IF op = "login" /\ Usable(before) THEN [before EXCEPT !.st = "degraded"]
             ELSE IF op = "challenge" /\ before.back # None THEN Restored(before.back)
             ELSE [before EXCEPT !.st = "failed"]
  /\ Idle

\* Mutant: the login that waits is asked for again.
Restarts_Again == AsksAgain

\* _restart_security_code_challenge: once.
Restarts ==
  /\ IF restarted THEN Fails
     ELSE pc' = "init" /\ restarted' = TRUE /\ UNCHANGED <<kept, op, code, client>>

\* Something else than one lapse of the slide went wrong.
Troubled == trouble' = TRUE /\ UNCHANGED <<seen, dropped, lapses>>

-----------------------------------------------------------------------------
\* AccountSessionActor.login
BeginLogin ==
  /\ pc = "idle" /\ ops < MaxOps /\ ops' = ops + 1
  /\ LET s == IF kept.st = "waiting" /\ kept.back # None THEN Restored(kept.back) ELSE kept IN
     kept' = s /\ before' = s
  /\ op' = "login" /\ pc' = "init" /\ trouble' = FALSE /\ lapses' = 0
  /\ UNCHANGED <<platform, code, client, restarted, seen, dropped>>

\* start_waiting_security_code up to the slide: a new web session and its context
BeginWeb ==
  /\ pc = "init" /\ Len(webs) < MaxWebs
  /\ \/ /\ webs' = Append(webs, [slide |-> FALSE, logged |-> FALSE])
        /\ seen' = Append(seen, 0)
        /\ client' = [Nobody EXCEPT !.web = Len(webs) + 1]
        /\ pc' = "slide"
        /\ UNCHANGED <<kept, op, code, restarted, dropped, lapses, trouble>>
     \/ Fails /\ Troubled /\ UNCHANGED webs
  /\ UNCHANGED <<issued, before, ops>>

\* solve, of several rounds: it passes, or none of them did.
SolveToAsk ==
  /\ pc = "slide"
  /\ \/ webs' = [webs EXCEPT ![client.web].slide = TRUE] /\ Asks /\ UNCHANGED history
     \/ Restarts /\ Troubled /\ UNCHANGED webs
  /\ UNCHANGED <<issued, before, ops>>

\* submit_challenge: a code of another form is asked for again; without a context the login
\* is begun anew.
BeginChallenge ==
  /\ pc = "idle" /\ kept.st = "waiting" /\ ops < MaxOps /\ ops' = ops + 1
  /\ op' = "challenge" /\ before' = kept
  /\ code' \in {"right", "wrong", "malformed"}
  /\ client' = [web |-> kept.web, tok |-> kept.tok, cookie |-> kept.cookie]
  /\ lapses' = 0 /\ trouble' = FALSE
  /\ pc' = "form"
  /\ UNCHANGED <<kept, platform, restarted, seen, dropped>>

CheckForm ==
  /\ pc = "form"
  /\ \/ code = "malformed" /\ AsksAgain /\ UNCHANGED history
     \/ code # "malformed" /\ ~before.pending /\ Restarts /\ Troubled
     \/ code # "malformed" /\ before.pending /\ pc' = "solve"
        /\ UNCHANGED <<kept, op, code, client, restarted, history>>
  /\ UNCHANGED <<platform, before, ops>>

\* Mutant: a slide that lapsed again ends the attempt.
Lapsed_Ends == Restarts

\* A slide that lapsed again is passed once more; after that nothing but a new login helps.
Lapsed ==
  IF lapses = 0 THEN pc' = "solve" /\ UNCHANGED <<kept, op, code, client, restarted>> ELSE Restarts

\* The slide may have lapsed since: it is passed again before the code is sent.  Where it
\* cannot be passed, the platform's words may read like those of a lapse.
SolveToSend ==
  /\ pc = "solve"
  /\ \/ /\ webs' = [webs EXCEPT ![client.web].slide = TRUE]
        /\ pc' = "precheck"
        /\ UNCHANGED <<kept, op, code, client, restarted, history>>
     \/ (Restarts \/ (lapses = 0 /\ Fails)) /\ Troubled /\ UNCHANGED webs
     \/ lapses = 0 /\ Lapsed /\ lapses' = 1 /\ trouble' = TRUE /\ UNCHANGED <<webs, seen, dropped>>
  /\ UNCHANGED <<issued, before, ops>>

\* _precheck
Precheck ==
  /\ pc = "precheck"
  /\ LET passed == webs[client.web].slide IN
     \/ ~passed /\ Lapsed /\ lapses' = lapses + 1 /\ trouble' = (lapses > 0) /\ UNCHANGED <<seen, dropped>>
     \/ passed /\ code = "right" /\ pc' = "formal"
        /\ UNCHANGED <<kept, op, code, client, restarted, history>>
     \/ passed /\ code = "wrong" /\ (IF lapses = 0 THEN AsksAgain ELSE Restarts) /\ UNCHANGED history
     \/ passed /\ (Restarts \/ (lapses = 0 /\ Fails)) /\ Troubled
  /\ UNCHANGED <<platform, before, ops>>

\* _formal_login: the platform issues a token, or its answer lacks something, or is a page
\* that speaks of the code.
FormalLogin ==
  /\ pc = "formal"
  /\ \/ /\ Len(issued) < MaxTokens
        /\ issued' = Append(issued, client.web)
        /\ webs' = [webs EXCEPT ![client.web].logged = TRUE]
        /\ client' = Captured([client EXCEPT !.cookie = Len(issued')])
        /\ seen' = [seen EXCEPT ![client.web] = Len(issued')]
        /\ pc' = "validate"
        /\ UNCHANGED <<kept, op, code, restarted, dropped, lapses, trouble>>
     \/ (Fails \/ Restarts \/ AsksAgain) /\ Troubled /\ UNCHANGED platform
  /\ UNCHANGED <<before, ops>>

\* The first request with the new token, and the session that is kept if it is answered.
Validate ==
  /\ pc = "validate"
  /\ \/ Answered("loggedIn") /\ UNCHANGED <<kept, op, code, restarted, dropped, lapses, trouble>>
     \/ Fails /\ Troubled /\ UNCHANGED issued
  /\ UNCHANGED <<webs, before, ops>>

KeepLogin ==
  /\ pc = "loggedIn"
  /\ LET c == Captured(client) IN
     kept' = [st |-> "authenticated", web |-> c.web, tok |-> c.tok, cookie |-> c.cookie,
              pending |-> FALSE, back |-> None]
  /\ Idle
  /\ UNCHANGED <<platform, before, ops, history>>

-----------------------------------------------------------------------------
\* The operations of a session that is logged in: a keepalive; the check of the quota, which
\* asks for the times used with a second client; queries and quotes, after a probe.

BeginBusiness ==
  /\ pc = "idle" /\ ops < MaxOps /\ ops' = ops + 1
  /\ \E s \in {kept} \cup (IF kept.st = "waiting" /\ kept.back # None THEN {Restored(kept.back)} ELSE {}) :
       /\ Usable(s)
       /\ kept' = s
       /\ client' = [web |-> s.web, tok |-> s.tok, cookie |-> s.cookie]
  /\ op' \in {"keepalive", "check_quota", "query", "quote"}
  /\ pc' = "first"
  /\ UNCHANGED <<platform, code, before, restarted, history>>

\* _snapshot_from_business_runtime with what success_data captured, or without
Keeps(st) ==
  LET c == Captured(client) IN
  /\ kept' = [kept EXCEPT !.st = st, !.tok = c.tok, !.cookie = c.cookie]
  /\ dropped' = IF c.tok >= seen[c.web] THEN dropped \ {c.web} ELSE dropped
  /\ UNCHANGED <<seen, lapses, trouble>>

Forgets(st) ==
  /\ kept' = [kept EXCEPT !.st = st]
  /\ dropped' = IF seen[client.web] > kept.tok THEN dropped \cup {client.web} ELSE dropped
  /\ UNCHANGED <<seen, lapses, trouble>>

Light == op \in {"keepalive", "check_quota"}
Unsuccessful == IF Light THEN "degraded" ELSE "authenticated"

\* request_json: an answer with a token; a GET is repeated after a bad gateway, which does
\* not change anything here.
Request ==
  /\ pc \in {"first", "second"}
  /\ Answered(IF pc = "second" \/ op = "keepalive" THEN "answered"
              ELSE IF op = "check_quota" THEN "usage" ELSE "second")
  /\ UNCHANGED <<kept, webs, op, code, before, ops, restarted, dropped, lapses, trouble>>

\* Status 16 or a token that ran out; no answer from the gateway; a refusal, which is an
\* answer like any other; an answer that is none.
RequestFails ==
  /\ pc \in {"first", "second"}
  /\ \/ Forgets("expired")
     \/ Forgets(Unsuccessful)
     \/ ~Light /\ Keeps("authenticated")
  /\ Idle
  /\ UNCHANGED <<platform, before, ops>>

Refused ==
  /\ pc \in {"second", "answered", "usage"}
  /\ Keeps(Unsuccessful) /\ Idle
  /\ UNCHANGED <<platform, before, ops>>

\* The second client starts from the session as it was; what it receives is not kept.
Usage ==
  /\ pc = "usage"
  /\ \E some \in Issue(client.web) : \E t \in {0} \cup {u \in DOMAIN some : some[u] = client.web} :
       /\ issued' = some
       /\ seen' = [seen EXCEPT ![client.web] = Max({@, t})]
       /\ LET c == Captured(client) IN
          /\ kept' = [kept EXCEPT !.st = "authenticated", !.tok = c.tok, !.cookie = c.cookie]
          /\ dropped' = IF t > seen[client.web] THEN dropped \cup {client.web}
                        ELSE IF c.tok >= seen[c.web] THEN dropped \ {c.web} ELSE dropped
  /\ Idle
  /\ UNCHANGED <<webs, before, ops, lapses, trouble>>

KeepBusiness ==
  /\ pc = "answered"
  /\ Keeps("authenticated") /\ Idle
  /\ UNCHANGED <<platform, before, ops>>

\* The platform forgets that a slide was passed.
SlideLapses ==
  /\ \E w \in DOMAIN webs : webs[w].slide /\ webs' = [webs EXCEPT ![w].slide = FALSE]
  /\ pc = "precheck" \/ pc = "idle"
  /\ UNCHANGED <<kept, issued, op, code, pc, client, before, ops, restarted, history>>

-----------------------------------------------------------------------------
\* Nothing is kept yet, a login from before, or one that waits without a context.
Init ==
  /\ \E st \in {"none", "authenticated", "waiting"} :
       kept = [st |-> st, web |-> 1, tok |-> IF st = "waiting" THEN 0 ELSE 1,
               cookie |-> IF st = "waiting" THEN 0 ELSE 1, pending |-> FALSE, back |-> None]
  /\ webs = <<[slide |-> FALSE, logged |-> TRUE]>> /\ issued = <<1>>
  /\ op = None /\ code = None /\ pc = "idle" /\ client = Nobody /\ before = kept
  /\ ops = 0 /\ restarted = FALSE
  /\ seen = <<kept.tok>> /\ dropped = {} /\ lapses = 0 /\ trouble = FALSE

Next ==
  \/ BeginLogin \/ BeginWeb \/ SolveToAsk
  \/ BeginChallenge \/ CheckForm \/ SolveToSend \/ Precheck \/ FormalLogin \/ Validate \/ KeepLogin
  \/ BeginBusiness \/ Request \/ RequestFails \/ Refused \/ Usage \/ KeepBusiness
  \/ SlideLapses

Spec == Init /\ [][Next]_vars

-----------------------------------------------------------------------------
Sessions ==
  [st : {"none", "waiting", "authenticated", "degraded", "failed", "expired"}, web : 1 .. MaxWebs,
   tok : 0 .. MaxTokens, cookie : 0 .. MaxTokens, pending : BOOLEAN,
   back : {None} \cup [web : 1 .. MaxWebs, tok : 1 .. MaxTokens, cookie : 0 .. MaxTokens]]

TypeOK ==
  /\ kept \in Sessions /\ before \in Sessions
  /\ \A w \in DOMAIN webs : webs[w] \in [slide : BOOLEAN, logged : BOOLEAN]
  /\ \A t \in DOMAIN issued : issued[t] \in DOMAIN webs
  /\ op \in {None, "login", "challenge", "keepalive", "check_quota", "query", "quote"}
  /\ code \in {None, "right", "wrong", "malformed"}
  /\ client.web \in 0 .. Len(webs) /\ client.tok \in 0 .. Len(issued) /\ client.cookie \in 0 .. Len(issued)
  /\ seen \in [DOMAIN webs -> 0 .. Len(issued)] /\ dropped \subseteq DOMAIN webs
  /\ ops \in 0 .. MaxOps /\ restarted \in BOOLEAN /\ trouble \in BOOLEAN /\ lapses \in 0 .. 2

\* A session that is used was logged in by the platform, and its token is of that login and
\* the newest that came for it, but for answers the code throws away; a code is asked for
\* the web session that was begun last, of which the context is there.
KeptIsTrue ==
  pc = "idle" =>
    /\ Usable(kept) =>
         /\ webs[kept.web].logged /\ issued[kept.tok] = kept.web /\ ~kept.pending
         /\ kept.web \notin dropped => kept.tok = seen[kept.web]
    /\ kept.st = "waiting" => kept.web = Len(webs) /\ (kept.pending \/ kept.web = 1)

\* With nothing worse than one lapse of the slide, a right code logs in; a wrong one costs
\* nothing but the next try, unless the slide lapsed as well.
CodesCount ==
  pc # "idle" /\ pc' = "idle" /\ op = "challenge" /\ ~trouble' =>
    /\ code = "right" => kept'.st = "authenticated"
    /\ code # "right" /\ lapses' = 0 => kept' = before

\* The token of a session that goes on is never an older one.
TokensForward ==
  Usable(kept) /\ Usable(kept') /\ kept.web = kept'.web => kept'.tok >= kept.tok

(* Whatever the slide, the code, the gateway and the tokens of an account's operations do,  *)
(* one after the other: what is kept of a session is true, a code counts for what it is,    *)
(* and tokens go forward.                                                                   *)
SessionSound == [][KeptIsTrue' /\ CodesCount /\ TokensForward]_vars
===============================================================================
