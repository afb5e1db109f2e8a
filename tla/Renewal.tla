------------------------------- MODULE Renewal --------------------------------
(***************************************************************************)
(* Quotes that renew a policy (quote_assistant_service.py, picc/           *)
(* business.py): the policies PICC finds for a car are scored, the best    *)
(* one is kept in the case and used by this quote and by later ones as     *)
(* long as it fits the car.  A normal quote of a used car looks for one    *)
(* first and goes on without if there is none.                             *)
(*                                                                         *)
(* One conversation in one worker: a message is handled under the chat     *)
(* lock, which is given up during the lookup.  A message that changes the  *)
(* case cancels the lookup; whether the request sees that afterwards       *)
(* depends on its snapshot (QuoteTask), so both are possible here.         *)
(***************************************************************************)
EXTENDS Integers

CONSTANTS
  Callers,     \* messages handled at a time
  Cars,        \* the material of a case: the marks of a car and its licence type
  Policies,    \* what the platform may find: marks, licence type, worth of its flags
  Types,       \* licence types
  Sums,     \* sums a user may ask of a product, never 0
  Configured,  \* the operator's default for it, 0 if there is none
  BuiltIn,     \* the program's own default for it
  Missing,     \* an unknown mark, no choice, no policy
  MaxMessages  \* bound on messages and uploads

VARIABLES
  case,      \* the case: its car, the policy found, what the user chose, the flow
  pc,        \* caller -> "idle" or "lookup"
  mine,      \* caller -> the case as its lookup knows it, whether to go on without a
             \* policy, whether the lookup was cancelled
  quoted,    \* the last quote sent
  messages,  \* messages and uploads so far
  asked,     \* history: the licence type and sum the user asked for last
  mixed      \* history: a cancelled lookup has gone on

vars == <<case, pc, mine, quoted, messages, asked, mixed>>

Marks == {"plate", "vin", "engine"}
NoLookup == [case |-> Missing, auto |-> FALSE, cancelled |-> FALSE]
NoQuote == [car |-> Missing, policy |-> Missing, type |-> Missing, amount |-> 0, beside |-> FALSE]

-----------------------------------------------------------------------------
\* Mutant: what the policy says wins over what the user chose.
Decision_RenewalFirst(c) ==
  IF c.decision.source = "renewal" THEN c.decision
  ELSE [type |-> IF c.chosen # Missing THEN c.chosen ELSE c.car.type, source |-> "material"]

\* _resolve_license_type_decision: a type the user chose or a policy confirmed stays.
Decision(c) ==
  IF c.chosen # Missing THEN [type |-> c.chosen, source |-> "user"]
  ELSE IF c.decision.source = "renewal" THEN c.decision
  ELSE [type |-> c.car.type, source |-> "material"]

Normalized(c) == [c EXCEPT !.decision = Decision(c)]

Match(left, right, matched, mismatched) ==
  IF Missing \in {left, right} THEN 0 ELSE IF left = right THEN matched ELSE -mismatched

Differs(left, right) == Missing \notin {left, right} /\ left # right

\* Mutant: another car's frame number weighs as much as another engine number.
Score_VinAsEngine(p, c) ==
  Match(p.plate, c.car.plate, 100, 160) + Match(p.vin, c.car.vin, 120, 220)
    + Match(p.engine, c.car.engine, 90, 220) + Match(p.type, c.decision.type, 50, 120)
    + p.flags + (IF p.encoded THEN 20 ELSE 0) - p.days

\* `flags` is what the renewal flag, the related policy and the kind of risk are worth, at
\* most 60; `days` how far the policy's end is from the start asked for, at most 365.
Score(p, c) ==
  Match(p.plate, c.car.plate, 100, 160) + Match(p.vin, c.car.vin, 120, 420)
    + Match(p.engine, c.car.engine, 90, 220) + Match(p.type, c.decision.type, 50, 120)
    + p.flags + (IF p.encoded THEN 20 ELSE 0) - p.days

\* A car is searched for by what ends its engine number and its frame number, each under
\* three licence types.
Searches(c) == {m \in {"engine", "vin"} : c.car[m] # Missing} \X Types

\* What the searches bring together, each policy once: without a plate or a search nothing.
Answers(c) == IF c.car.plate = Missing \/ Searches(c) = {} THEN {{}} ELSE SUBSET Policies

\* The policies that may be selected among those found; ties go by date and risk.
Selected(found, c) ==
  LET score == [p \in found |-> Score(p, c)] IN
  {p \in found : score[p] >= 0 /\ \A q \in found : score[q] <= score[p]}

Reusable(c) ==
  /\ c.policy # Missing /\ c.policy.encoded
  /\ \A m \in Marks : ~Differs(c.policy[m], c.car[m])
  /\ c.policy.type = c.decision.type

\* The user's sum, the operator's, the old policy's, the program's.
Amount(c, renewed) ==
  IF c.amount # 0 THEN c.amount
  ELSE IF Configured # 0 THEN Configured
  ELSE IF renewed /\ c.policy.amount > 0 THEN c.policy.amount ELSE BuiltIn

\* A quote without a policy, or with the case's policy, which must be encoded.
Quote(c, beside) ==
  quoted' = [car |-> c.car, policy |-> Missing, type |-> c.decision.type,
             amount |-> Amount(c, FALSE), beside |-> beside]

QuoteRenewal(c, beside) ==
  IF c.policy.encoded
  THEN quoted' = [car |-> c.car, policy |-> c.policy,
                  type |-> IF c.chosen # Missing THEN c.chosen ELSE c.policy.type,
                  amount |-> Amount(c, TRUE), beside |-> beside]
  ELSE UNCHANGED quoted

-----------------------------------------------------------------------------
\* _cancel_active_quote_tasks_for_case
CancelLookups == [r \in Callers |-> [mine[r] EXCEPT !.cancelled = @ \/ pc[r] = "lookup"]]

\* A changed choice stays in the flow the case is in.
Renews(command, changed) == command = "renewal" \/ (changed /\ (case.renewal \/ Reusable(case)))

\* _should_auto_probe_renewal_before_normal_quote, for a used car
Probes(c) == ~Reusable(c) /\ c.car.plate # Missing /\ {c.car.vin, c.car.engine} # {Missing}

\* handle_quote_message with a command, changed choices or new pictures, up to its lookup
\* or quote.
Message(r) ==
  \E car \in Cars, chosen \in Types \cup {case.chosen}, amount \in Sums \cup {case.amount},
     command \in {"renewal", "quote"} :
    LET changed == chosen # case.chosen \/ amount # case.amount
        renewal == Renews(command, changed)
        now == Normalized([case EXCEPT !.car = car, !.chosen = chosen, !.amount = amount,
                                       !.renewal = @ \/ renewal])
        probe == ~renewal /\ Probes(now)
        lookup == probe \/ (renewal /\ ~Reusable(now)) IN
    /\ pc[r] = "idle" /\ messages < MaxMessages
    /\ case' = now
    /\ messages' = messages + 1
    /\ asked' = [chosen |-> chosen, amount |-> amount]
    /\ IF lookup
       THEN /\ pc' = [pc EXCEPT ![r] = "lookup"]
            /\ mine' = [CancelLookups EXCEPT ![r] = [case |-> now, auto |-> probe, cancelled |-> FALSE]]
            /\ UNCHANGED quoted
       ELSE /\ IF renewal THEN QuoteRenewal(now, FALSE) ELSE Quote(now, FALSE)
            /\ mine' = CancelLookups
            /\ UNCHANGED pc
    /\ UNCHANGED mixed

\* Pictures uploaded without a command to quote.
Upload ==
  /\ messages < MaxMessages
  /\ messages' = messages + 1
  /\ \E car \in Cars \ {case.car} : case' = Normalized([case EXCEPT !.car = car])
  /\ mine' = CancelLookups
  /\ UNCHANGED <<pc, quoted, asked, mixed>>

Return(r) ==
  /\ pc[r] = "lookup"
  /\ pc' = [pc EXCEPT ![r] = "idle"]
  /\ mine' = [mine EXCEPT ![r] = NoLookup]
  /\ UNCHANGED <<messages, asked>>

SeesCancelled(r) ==
  /\ Return(r)
  /\ mine[r].cancelled
  /\ UNCHANGED <<case, quoted, mixed>>

GoesOn(r) ==
  /\ Return(r)
  /\ mixed' = (mixed \/ mine[r].cancelled)

\* The lookup fails or finds nothing that fits.
NotFound(r) ==
  /\ GoesOn(r)
  /\ IF mine[r].auto THEN Quote(mine[r].case, mine[r].cancelled) ELSE UNCHANGED quoted
  /\ UNCHANGED case

\* _complete_renewal_lookup_without_sms: the policy goes into the case as the request
\* loaded it; the pictures are read again.
FoundPolicy(r) ==
  /\ GoesOn(r)
  /\ \E p \in UNION {Selected(found, mine[r].case) : found \in Answers(mine[r].case)} :
       LET now == Normalized([mine[r].case EXCEPT
             !.car = case.car, !.policy = p, !.renewal = TRUE,
             !.decision = [type |-> p.type, source |-> "renewal"]]) IN
       /\ case' = now
       /\ QuoteRenewal(now, mine[r].cancelled)

Init ==
  /\ \E car \in Cars :
       case = Normalized([car |-> car, policy |-> Missing, chosen |-> Missing, amount |-> 0,
                          renewal |-> FALSE, decision |-> [type |-> car.type, source |-> "material"]])
  /\ pc = [r \in Callers |-> "idle"]
  /\ mine = [r \in Callers |-> NoLookup]
  /\ quoted = NoQuote /\ messages = 0 /\ mixed = FALSE
  /\ asked = [chosen |-> Missing, amount |-> 0]

Next ==
  \/ Upload
  \/ \E r \in Callers : Message(r) \/ SeesCancelled(r) \/ NotFound(r) \/ FoundPolicy(r)

Spec == Init /\ [][Next]_vars

-----------------------------------------------------------------------------
CaseType ==
  [car : Cars, policy : Policies \cup {Missing}, chosen : Types \cup {Missing},
   amount : Sums \cup {0}, renewal : BOOLEAN,
   decision : [type : Types, source : {"material", "user", "renewal"}]]

TypeOK ==
  /\ case \in CaseType
  /\ pc \in [Callers -> {"idle", "lookup"}]
  /\ mine \in [Callers -> [case : CaseType \cup {Missing}, auto : BOOLEAN, cancelled : BOOLEAN]]
  /\ \/ quoted = NoQuote
     \/ quoted \in [car : Cars, policy : Policies \cup {Missing}, type : Types,
                    amount : Sums \cup {Configured, BuiltIn} \cup {p.amount : p \in Policies},
                    beside : BOOLEAN]
  /\ messages \in 0 .. MaxMessages
  /\ asked \in [chosen : Types \cup {Missing}, amount : Sums \cup {0}]
  /\ mixed \in BOOLEAN

(* A policy that is renewed is this car's: its frame number is never another one's, and    *)
(* where another mark differs one of the three agrees.  It holds for the policy kept from  *)
(* an earlier lookup too, whatever was uploaded since, and ends only where a lookup goes   *)
(* on that was cancelled for a change of the material.                                     *)
PolicyFits ==
  quoted.policy # Missing /\ ~quoted.beside =>
    LET differing == {m \in Marks : Differs(quoted.policy[m], quoted.car[m])}
        agreeing == {m \in Marks : quoted.policy[m] = quoted.car[m] /\ quoted.car[m] # Missing} IN
    "vin" \notin differing /\ (differing # {} => differing # Marks \ {"vin"} /\ agreeing # {})

(* What the user asked for last is what the quote says, with a policy or without, unless a *)
(* cancelled lookup wrote the case back as it knew it.                                     *)
AskedIsQuoted ==
  ~mixed =>
    /\ asked.chosen # Missing => quoted.type = asked.chosen
    /\ asked.amount # 0 => quoted.amount = asked.amount

(* Every quote is for the car's own policy and for what the user asked, after any lookups, *)
(* uploads and choices, however they overlap.                                              *)
RenewedAsAsked == [][ quoted' # quoted => PolicyFits' /\ AskedIsQuoted' ]_vars
===============================================================================
