-------------------------- MODULE SessionLifecycle --------------------------
(***************************************************************************)
(* What the session manager promises about one account, seen by whoever    *)
(* loads its session: one session at a time, whose version grows by one    *)
(* with every step, that moves through the states of a login and never     *)
(* gives up a login the platform accepted before it has a newer one.       *)
(***************************************************************************)
EXTENDS Naturals

VARIABLE session  \* [status, version, gen, kept]; gen and kept name logins, 0 for none

Usable == session.status \in {"authenticated", "degraded"}
AwaitsCode == session.status = "waiting_challenge"
LoggingIn == session.status = "logging_in"

\* The accepted login the account can still be brought back to.
Login == IF AwaitsCode THEN session.kept ELSE session.gen

Becomes(status, gen, kept) ==
  session' = [status |-> status, version |-> session.version + 1,
              gen |-> gen, kept |-> kept]

Init == session = [status |-> "none", version |-> 0, gen |-> 0, kept |-> 0]

StartLogin == ~(AwaitsCode /\ Login # 0) /\ Becomes("logging_in", Login, 0)

Accept ==
  /\ LoggingIn \/ AwaitsCode
  /\ session'.gen > Login
  /\ Becomes("authenticated", session'.gen, 0)

AskForCode == (LoggingIn \/ AwaitsCode) /\ Becomes("waiting_challenge", 0, Login)

Reject ==
  /\ LoggingIn \/ AwaitsCode
  /\ Login = 0
  /\ Becomes("login_failed", 0, 0)

FallBack ==
  /\ LoggingIn \/ AwaitsCode
  /\ Login # 0
  /\ Becomes("degraded", Login, 0)

Use ==
  /\ Usable
  /\ \E status \in {"authenticated", "degraded"} : Becomes(status, session.gen, 0)

Next == StartLogin \/ Accept \/ AskForCode \/ Reject \/ FallBack \/ Use

Spec == Init /\ [][Next]_session
=============================================================================
