----------------------------- MODULE VehicleChoice -----------------------------
(***************************************************************************)
(* Which vehicle of PICC's catalogue a quote is for                        *)
(* (quote_platforms/platforms/picc/business.py): the terms the catalogue   *)
(* is searched for, the rows that may be used, the row that is picked, its *)
(* confirmation, the parts of the form that follow from it, and the        *)
(* correction when the platform answers that it knows the car under        *)
(* another code.                                                           *)
(*                                                                         *)
(* A family is what a search for a sales name or a model code returns.     *)
(* All rows are of the car's brand.  A term is known by its kind and the   *)
(* family it names:                                                        *)
(*   code, name    a model code, a sales name                              *)
(*   brand, body   the brand or the kind of body, also with each other     *)
(*   energy        brand or body with the kind of energy                   *)
(*   vin           the first eight characters of the frame number, also    *)
(*                 behind the brand                                        *)
(* Only the first two name a family.                                       *)
(***************************************************************************)
EXTENDS Naturals, FiniteSets, Sequences

CONSTANTS
  Catalogue, \* rows of the platform; months since 1900
  Cars,      \* what is known of the car, and its family
  Seeds,     \* the car an earlier quote was for
  Configs,   \* the account's profile and configuration, the user's decision
  None,
  MaxTries   \* bound on the corrections

VARIABLES
  car, seed, config,
  pc, why,
  left,      \* the places in Terms that are still to ask for
  by,        \* the terms whose rows were accepted
  found,     \* the rows accepted last
  wanted,    \* the codes the platform named, none before it did
  selected, precise,
  form,      \* the form last filled
  corrected, \* how: "no", "rebuilt", "accepted"
  tries

vars == <<car, seed, config, pc, why, left, by, found, wanted, selected, precise, form, corrected, tries>>

Term(kind, of) == [kind |-> kind, of |-> of]
Names == {"code", "name"}
OneOf(s) == IF s = None THEN <<>> ELSE <<s>>
First(a, b) == IF a = None THEN b ELSE a

-----------------------------------------------------------------------------
\* What an earlier form may be used for.

\* Mutant: one mark that agrees is enough.
SameCar_OneMark(it) == \E m \in DOMAIN it.marks : car.marks[m] # None /\ it.marks[m] = car.marks[m]

\* _vehicle_seed_identifier_matches_current
SameCar(it) ==
  LET both == {m \in DOMAIN it.marks : it.marks[m] # None /\ car.marks[m] # None} IN
  both # {} /\ \A m \in both : it.marks[m] = car.marks[m]

HasVin == car.marks["vin"] # None

\* _vehicle_model_hint_is_usable: a sales name, as far as the code can tell
Usable(term) == term # None /\ term.kind \in Names \cup {"brand"}

\* _vehicle_term_lacks_sales_specificity, for a car whose model is said to be `model`
Vague(term, model) ==
  \/ term.kind \in {"brand", "body", "vin"}
  \/ term.kind = "name" /\ term = model

\* _vehicle_query_term_requires_vin_correlation; a brand is known as one if the papers say so.
NeedsVin(term) == term.kind = "vin" \/ (term.kind = "brand" /\ car.brand)

\* _vehicle_model_seed_terms
SeedTerm ==
  IF seed # None /\ SameCar(seed) /\ Usable(seed.term) /\ ~Vague(seed.term, car.model)
  THEN seed.term ELSE None

\* _apply_vehicle_model_seed_hints
Hint == IF Usable(car.hint) THEN car.hint ELSE SeedTerm
Model == IF Usable(car.model) \/ SeedTerm = None THEN car.model ELSE SeedTerm

\* _vehicle_energy_model_suffix
SaidElectric == car.electric \/ config.fuel = "electric"

\* _used_fuel_model_query_terms: model codes first, the frame number last.
Rebuilt ==
  (IF Model.kind = "code" THEN <<Model>> ELSE <<>>)
  \o OneOf(Hint)
  \o (IF SaidElectric /\ Model.kind \in {"brand", "body"} THEN <<Term("energy", None)>> ELSE <<>>)
  \o <<Model>>
  \o (IF HasVin THEN <<Term("vin", None)>> ELSE <<>>)

\* The terms of _query_vehicle_candidates, which asks for the brand at last where the
\* frame number can tell its rows apart.
Terms ==
  LET trusted == IF SeedTerm # None /\ ~Vague(SeedTerm, Model) THEN <<SeedTerm>> ELSE <<>>
      specific == Usable(Model) /\ ~Vague(Model, Model) IN
  (IF specific THEN Rebuilt \o trusted ELSE trusted \o Rebuilt)
  \o (IF HasVin /\ car.brand THEN <<Term("brand", None)>> ELSE <<>>)

-----------------------------------------------------------------------------
\* Which row is picked.

\* Mutant: a row of a later generation passes.
Compatible_AnyGeneration(r) ==
  /\ car.registered # None /\ r.year # None => r.year <= car.registered + 18
  /\ car.seats # None /\ r.seats # None => r.seats = car.seats

\* _vehicle_candidate_compatibility
Compatible(r) ==
  /\ car.registered # None /\ r.year # None => r.year <= car.registered + 18
  /\ car.registered # None /\ r.from # None => r.from <= car.registered + 6
  /\ car.seats # None /\ r.seats # None => r.seats = car.seats

\* _vehicle_transition_candidates
Covers(r) ==
  /\ car.registered # None /\ r.from # None
  /\ r.from <= car.registered /\ (r.to = None \/ car.registered <= r.to)
Ambiguous(rows) == Cardinality({r.from : r \in {q \in rows : Covers(q)}}) > 1

\* _vehicle_candidate_score; every row has the car's brand.
Score(r) ==
  LET known == car.registered # None
      gap == car.registered - r.year IN
  (CASE ~HasVin \/ r.vin = "other" -> 0 [] r.vin = "exact" -> 1000 [] OTHER -> 500)
  + (IF ((Model.kind = "code" \/ ~HasVin) /\ r.of = Model.of) \/ (HasVin /\ r.vin # "other") THEN 100 ELSE 0)
  + (IF Hint # None /\ r.of = Hint.of THEN 15 ELSE 0)
  + (IF Covers(r) THEN 40 ELSE 0)
  + (IF known /\ r.year # None /\ r.year <= car.registered /\ gap < 24 THEN 24 - gap ELSE 0)
  + (IF car.seats # None /\ r.seats = car.seats THEN 8 ELSE 0)
  + (IF SaidElectric /\ "electric" \in {r.energy, r.fuel} THEN 10 ELSE 0)

\* _pick_best_vehicle_candidate: among the best the cheapest, or the cheapest that is
\* worth the sum the user insures.  Equal rows are taken in the platform's order.
Picks(rows) ==
  LET fit == {r \in rows : Compatible(r)}
      best == {r \in fit : \A q \in fit : Score(q) <= Score(r)}
      worth == {r \in best : 13 * r.price >= 10 * car.sum}
      cheapest(s) == {r \in s : \A q \in s : r.price <= q.price}
      dearest(s) == {r \in s : \A q \in s : r.price >= q.price} IN
  CASE fit = {} \/ Ambiguous(fit) -> {}
    [] worth = {} -> dearest(best)
    [] OTHER -> cheapest(worth)

-----------------------------------------------------------------------------
\* What follows from the rows in the form.

\* _resolve_vehicle_energy_fields, electric or not
Electric(sel, pre) ==
  LET stated == First(pre.energy, sel.energy)
      fuel == First(First(pre.fuel, sel.fuel), config.fuel) IN
  fuel = "electric" \/ SaidElectric \/ stated = "electric"

\* Mutant: what was estimated before the row was known wins.
Licence_Estimated(electric, early) ==
  CASE config.decided # None -> config.decided
    [] config.default # None -> config.default
    [] early # None -> early
    [] electric -> "52"
    [] OTHER -> IF config.fuel = "electric" THEN "52" ELSE "02"

\* _profile_license_fields, `early` the estimate
Licence(electric, early) ==
  LET own == IF electric \/ config.fuel = "electric" THEN "52" ELSE "02" IN
  CASE config.decided # None -> config.decided
    [] config.default # None -> config.default
    [] early = own -> early
    [] OTHER -> own

Blank == [id |-> None, energy |-> None, fuel |-> None]

\* _base_used_fuel_vehicle
Early == Licence(Electric(Blank, Blank), car.licence)

\* Of the form: the vehicle's two codes, whose price, the energy and the licence type.
\* _build_used_fuel_quote_form, where `code` is the one the platform named
Filled(sel, pre, code) ==
  [model |-> sel.id, code |-> IF code = None THEN First(pre.id, sel.id) ELSE code, price |-> sel.id,
   electric |-> Electric(sel, pre), licence |-> Licence(Electric(sel, pre), Early)]

\* Mutant: only the second code is taken over.
Accepted_CodeOnly == [form EXCEPT !.code = precise.id]

\* _accept_platform_returned_vehicle_body
Accepted == IF corrected = "rebuilt" THEN form ELSE [form EXCEPT !.model = precise.id, !.code = precise.id]

\* _validate_picc_quote_form_before_submit
Valid(f) == IF config.fuel = "electric" THEN f.electric /\ f.licence = "52" ELSE f.licence # "52"

-----------------------------------------------------------------------------
Fail(reason) == pc' = "failed" /\ why' = reason

\* What a search may return: nothing, or the rows the term names.
Fits(term) ==
  CASE term.kind \in Names -> {r \in Catalogue : r.of = term.of}
    [] term.kind = "vin" -> {r \in Catalogue : r.vin # "other"}
    [] OTHER -> Catalogue

\* Mutant: the rows of a brand are used as they are.
Usables_AsTheyAre(term, rows) == rows

\* The rows of an answer that may be used: those of a vague term only where the frame
\* number, or a sales name for all but the brand, identifies them.
Usables(term, rows) ==
  IF NeedsVin(term) \/ (Vague(term, Model) /\ ~Usable(Hint))
  THEN IF HasVin THEN {r \in rows : r.vin # "other"} ELSE {}
  ELSE rows

\* The first term that is left; no term is asked for twice.
Ask ==
  /\ pc = "search"
  /\ \E i \in left :
       /\ \A j \in left : i <= j
       /\ \/ /\ UNCHANGED why
             /\ \E rows \in {{}, Fits(Terms[i])} :
                  IF Usables(Terms[i], rows) = {}
                  THEN left' = {j \in left : Terms[j] # Terms[i]} /\ UNCHANGED <<pc, by, found>>
                  ELSE /\ found' = Usables(Terms[i], rows) /\ by' = by \cup {Terms[i]}
                       /\ pc' = "pick" /\ left' = {}
          \/ Fail("platform") /\ UNCHANGED <<left, by, found>>
  /\ UNCHANGED <<car, seed, config, wanted, selected, precise, form, corrected, tries>>

\* A correction that finds nothing leaves the body as it was and takes the confirmed
\* vehicle over, if there is one and that changes something, be it not of these fields.
NoRebuild ==
  /\ \/ /\ precise # Blank /\ corrected # "accepted"
        /\ form' = Accepted /\ corrected' = "accepted" /\ pc' = "send" /\ UNCHANGED why
     \/ /\ precise = Blank \/ Accepted = form
        /\ Fail("mismatch") /\ UNCHANGED <<form, corrected>>
  /\ UNCHANGED <<selected, precise>>

Nothing ==
  /\ pc = "search" /\ left = {}
  /\ IF wanted = {}
     THEN Fail("vehicle") /\ UNCHANGED <<selected, precise, form, corrected>>
     ELSE NoRebuild
  /\ UNCHANGED <<car, seed, config, left, by, found, wanted, tries>>

\* The first row, or the row with a code the platform named.
Pick ==
  LET rows == IF wanted = {} THEN found ELSE {r \in found : r.id \in wanted} IN
  /\ pc = "pick"
  /\ \/ \E r \in Picks(rows) :
          selected' = r /\ pc' = "confirm" /\ UNCHANGED <<precise, form, corrected, why>>
     \/ /\ Picks(rows) = {}
        /\ IF wanted = {}
           THEN Fail("vehicle") /\ UNCHANGED <<selected, precise, form, corrected>>
           ELSE NoRebuild
  /\ UNCHANGED <<car, seed, config, left, by, found, wanted, tries>>

\* The precise query knows the car by its frame number; which of the rows it returns is
\* the same car the program must tell, and may not.
Confirm ==
  /\ pc = "confirm"
  /\ \/ \E rows \in SUBSET {r \in Catalogue : r.of = selected.of} :
        \E p \in Picks(rows) \cup (IF Picks(rows) = {} THEN {Blank} ELSE {}) :
          /\ precise' = p
          /\ form' = Filled(selected, p, IF wanted = {} THEN None ELSE selected.id)
          /\ corrected' = IF wanted = {} THEN "no" ELSE "rebuilt"
          /\ pc' = "send"
          /\ UNCHANGED why
     \/ Fail("platform") /\ UNCHANGED <<precise, form, corrected>>
  /\ UNCHANGED <<car, seed, config, left, by, found, wanted, selected, tries>>

\* The platform takes the form, or knows the car under another code, which it may name.
Send ==
  /\ pc = "send"
  /\ \/ /\ IF Valid(form) THEN pc' = "sent" /\ UNCHANGED why ELSE Fail("form")
        /\ UNCHANGED <<left, wanted, selected, precise, form, corrected, tries>>
     \/ /\ Valid(form) /\ tries < MaxTries /\ tries' = tries + 1
        /\ \/ /\ \E r \in Catalogue : wanted' = {r.id}
              /\ pc' = "search" /\ left' = DOMAIN Terms
              /\ UNCHANGED <<why, selected, precise, form, corrected>>
           \/ NoRebuild /\ UNCHANGED <<left, wanted>>
  /\ UNCHANGED <<car, seed, config, by, found>>

Init ==
  /\ car \in Cars /\ seed \in Seeds \cup {None} /\ config \in Configs
  /\ pc = "search" /\ why = "none"
  /\ left = DOMAIN Terms
  /\ by = {} /\ found = {} /\ wanted = {}
  /\ selected = Blank /\ precise = Blank
  /\ form = None /\ corrected = "no" /\ tries = 0

Next == Ask \/ Nothing \/ Pick \/ Confirm \/ Send

Spec == Init /\ [][Next]_vars

-----------------------------------------------------------------------------
Searched == {"code", "name", "brand", "body", "energy", "vin"}
Ids == {r.id : r \in Catalogue}

TypeOK ==
  /\ car \in Cars /\ seed \in Seeds \cup {None} /\ config \in Configs
  /\ pc \in {"search", "pick", "confirm", "send", "sent", "failed"}
  /\ why \in {"none", "vehicle", "platform", "mismatch", "form"}
  /\ left \subseteq DOMAIN Terms
  /\ \A t \in by : t.kind \in Searched
  /\ found \subseteq Catalogue /\ wanted \subseteq Ids
  /\ selected \in Catalogue \cup {Blank} /\ precise \in Catalogue \cup {Blank}
  /\ form = None \/ form \in [model : Ids, code : Ids, price : Ids, electric : BOOLEAN, licence : {"02", "52"}]
  /\ corrected \in {"no", "rebuilt", "accepted"} /\ tries \in 0 .. MaxTries

(* The code cannot tell the family from the searched term: a kind of body next to a sales   *)
(* name, brand and energy together, a brand the papers do not name as one, or the term of a *)
(* car of the same plate whose frame number cannot be compared.                             *)
Blind == \E t \in by :
  \/ t.kind \in {"body", "energy"}
  \/ t.kind = "brand" /\ ~car.brand
  \/ t = SeedTerm /\ (~HasVin \/ seed.marks["vin"] = None)

(* A form is never for another family of cars than the papers and the frame number name,   *)
(* and not for a generation or a number of seats that contradicts them: neither after a    *)
(* search for the brand, nor with the words of an earlier quote, nor corrected.            *)
RightCar ==
  \A r \in Catalogue : pc = "send" /\ r.id \in {form.model, form.code, form.price} =>
    /\ r.of = car.of \/ Blind
    /\ car.registered # None /\ r.from # None => r.from <= car.registered + 6
    /\ car.seats # None /\ r.seats # None => r.seats = car.seats

(* What is sent agrees with itself: unless the user or the configuration decided the kind  *)
(* of licence it is that of the energy sent, whatever was estimated before the vehicle was *)
(* known, and a corrected form names one vehicle.                                          *)
OneVehicle ==
  pc = "sent" =>
    /\ config.decided = None /\ config.default = None => (form.licence = "52" <=> form.electric)
    /\ corrected # "no" => form.model = form.code

VehicleTrue == RightCar /\ OneVehicle
===============================================================================
