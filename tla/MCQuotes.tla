------------------------------- MODULE MCQuotes -------------------------------
(***************************************************************************)
(* Seven sides of a quote for TLC, one of them chosen at the start: the      *)
(* tasks of a conversation (QuoteTask), its messages (ChatMessages), the   *)
(* material of a case (QuoteMaterial), the rounds with the platform        *)
(* (PiccQuote), the amounts of its results (QuoteAmounts), the policy it   *)
(* renews (Renewal) and the vehicle it is for (VehicleChoice).  The parts  *)
(* that are not chosen stand still.                                        *)
(***************************************************************************)
EXTENDS MCQuoteTask

CONSTANTS i1, i2, recall, quoting, chatting, followup

VARIABLES
  part,
  wants, renewal, piccPc, body, sent, reply, round, why,
  rows, case, messagePc, lock, saw, changes, beside, excused,
  messages, hidden, chatPc, msg, chatLock, writer, begun, sends, replies,
  bill, results,
  renewing, renewPc, lookups, renewed, requests, asked, mixed,
  car, seed, config, vehiclePc, vehicleWhy, left, by, found, wanted,
  selected, precise, form, corrected, tries

Picc == INSTANCE PiccQuote WITH LastDay <- 2, pc <- piccPc, answer <- reply

\* A certificate of new energy, and a licence or identity card of fuel.
Chatters == {r1, r2}
OneWorker == [c \in Chatters |-> n1]
Pictures == {i1, i2}
WhatTheySay ==
  [i \in Pictures |-> IF i = i1 THEN {"vin", "plate_no", "energy_type"}
                      ELSE {"plate_no", "energy_type", "owner_name", "id_name"}]
Typed == {"energy_type"}
NewEnergy == {i1, r1}

Material == INSTANCE QuoteMaterial WITH
  Chats <- Chatters, Recalls <- {recall}, ServedBy <- OneWorker, Images <- Pictures, Nothing <- NoOne,
  MaxChanges <- 3, pc <- messagePc, reads <- WhatTheySay, ByHand <- Typed, Electric <- NewEnergy

\* Two requests of one worker and one of another.
Chat == INSTANCE ChatMessages WITH
  Callers <- {r1, r2, r3}, WorkerOf <- [c \in {r1, r2, r3} |-> IF c = r3 THEN n2 ELSE n1],
  Messages <- {quoting, chatting, followup}, QuoteMessages <- {quoting, followup},
  Followups <- {followup}, NoMessage <- NoOne, MaxSends <- 3, MaxNotices <- 1,
  rows <- messages, pc <- chatPc, lock <- chatLock

\* A joint sale the platform quotes itself or has a plan for; one premium has no plan.
Charges == {[commercial |-> c, compulsory |-> 2, tax |-> 1, joint |-> j] : c \in {0, 8}, j \in {0, 4}}
Named == {{"commercial", "compulsory", "tax", "sum", "total"}, {"commercial", "compulsory", "tax"},
          {"compulsory", "tax", "total"}, {"commercial", "tax", "sum"}}

Amounts == INSTANCE QuoteAmounts WITH
  Premiums <- {0, 3, 5}, Offered <- {3}, Bills <- Charges, Reports <- Named,
  MaxTasks <- 3, tasks <- results

\* Two cars, one of them also without its frame number, and policies of both, of another
\* car with this one's plate and engine, and of one with another engine.
Car(plate, vin, engine, type) == [plate |-> plate, vin |-> vin, engine |-> engine, type |-> type]
Policy(of, flags, encoded, amount) ==
  [plate |-> of.plate, vin |-> of.vin, engine |-> of.engine, type |-> of.type,
   flags |-> flags, encoded |-> encoded, days |-> 0, amount |-> amount]

OurCars == {Car("P", "V", "E", "02"), Car("P", NoOne, "E", "02"), Car("Q", "W", "F", "52")}
OldPolicies ==
  {Policy(Car("P", "V", "E", "02"), 60, TRUE, 0), Policy(Car("P", "W", "E", "02"), 60, TRUE, 2),
   Policy(Car("P", "V", "F", "52"), 0, FALSE, 2), Policy(Car("Q", "W", "F", "52"), 0, TRUE, 2)}

Renew == INSTANCE Renewal WITH
  Callers <- {r1, r2}, Types <- {"02", "52"}, Sums <- {1}, Configured <- 0, BuiltIn <- 3,
  Missing <- NoOne, MaxMessages <- 3, Cars <- OurCars, Policies <- OldPolicies,
  case <- renewing, pc <- renewPc, mine <- lookups, quoted <- renewed, messages <- requests

\* Four vehicles of one brand, three of the car's family: of its generation, of the next
\* one, and with more seats.  Papers with a code, a name, the brand, the kind of body or
\* the frame number for a model, a brand they do not name, and cars of unknown or late
\* registration.  An earlier quote of the same car or of another car with the same plate,
\* also where its frame number is unknown.
Vehicle(id, of, vin, years, year, seats, price, energy) ==
  [id |-> id, of |-> of, vin |-> vin, from |-> years[1], to |-> years[2], year |-> year,
   seats |-> seats, price |-> price, energy |-> energy, fuel |-> energy]

Known(model, hint, brand, vin, electric, registered, seats, sum) ==
  [of |-> "ours", model |-> model, hint |-> hint, brand |-> brand, electric |-> electric,
   registered |-> registered, seats |-> seats, sum |-> sum, licence |-> NoOne,
   marks |-> [vin |-> vin, plate |-> "P"]]

Says(sort) == [kind |-> sort, of |-> IF sort \in {"code", "name"} THEN "ours" ELSE NoOne]

Earlier(of, vin) == [term |-> [kind |-> "code", of |-> of], marks |-> [vin |-> vin, plate |-> "P"]]

Settings(fuel, decided, default) == [fuel |-> fuel, decided |-> decided, default |-> default]
Usual == Settings("fuel", NoOne, NoOne)

Rows ==
  {Vehicle(1, "ours", "exact", <<90, 110>>, 95, 5, 10, NoOne),
   Vehicle(2, "ours", "within", <<108, NoOne>>, 110, 5, 12, "fuel"),
   Vehicle(3, "ours", "other", <<NoOne, NoOne>>, NoOne, 7, 8, "electric"),
   Vehicle(4, "theirs", "other", <<80, NoOne>>, 99, NoOne, 5, NoOne)}
Papers ==
  {Known(Says(m), h, TRUE, v, FALSE, 100, NoOne, 0) :
     m \in {"code", "name", "brand", "body"}, h \in {NoOne, Says("name")}, v \in {NoOne, "V"}}
  \cup {Known(Says("brand"), h, FALSE, "V", FALSE, 100, NoOne, 0) : h \in {NoOne, Says("brand")}}
  \cup {Known(Says("vin"), NoOne, TRUE, "V", FALSE, 100, NoOne, 0)}
  \cup {Known(Says("name"), NoOne, TRUE, v, e, r, 5, s) :
           v \in {NoOne, "V"}, e \in BOOLEAN, r \in {NoOne, 109}, s \in {0, 15}}
EarlierQuotes == {Earlier("ours", "V"), Earlier("ours", NoOne), Earlier("theirs", "W"), Earlier("theirs", NoOne)}
AllSettings ==
  {Usual, Settings("electric", NoOne, NoOne), Settings("fuel", "02", NoOne), Settings("fuel", NoOne, "02")}

Choice == INSTANCE VehicleChoice WITH
  None <- NoOne, MaxTries <- 2, Catalogue <- Rows, Cars <- Papers, Seeds <- EarlierQuotes,
  Configs <- AllSettings, pc <- vehiclePc, why <- vehicleWhy

piccVars == <<wants, renewal, piccPc, body, sent, reply, round, why>>
materialVars == <<rows, case, messagePc, lock, saw, changes, beside, excused>>
chatVars == <<messages, hidden, chatPc, msg, chatLock, writer, begun, sends, replies>>
amountVars == <<bill, results>>
renewVars == <<renewing, renewPc, lookups, renewed, requests, asked, mixed>>
vehicleVars == <<car, seed, config, vehiclePc, vehicleWhy, left, by, found, wanted,
                 selected, precise, form, corrected, tries>>

PartsInit ==
  /\ part \in {"tasks", "messages", "material", "rounds", "amounts", "renewal", "vehicle"}
  /\ Init
  /\ Material!Init
  /\ Chat!Init
  /\ Choice!Init
  /\ seed = NoOne \/ config = Usual
  /\ car.registered = 100 => config = Usual
  /\ part # "vehicle" =>
       seed = NoOne /\ config = Usual /\ car = Known(Says("code"), NoOne, TRUE, "V", FALSE, 100, NoOne, 0)
  /\ Renew!Init
  /\ part # "renewal" => renewing.car.type = "02" /\ renewing.car.vin = "V"
  /\ Amounts!Init
  /\ part # "amounts" => bill.commercial = 8 /\ bill.joint = 4
  /\ Picc!Init
  /\ part # "rounds" =>
       /\ ~renewal /\ body.hour = 0
       /\ wants = [start |-> [k \in Picc!Insurances |-> [day |-> 0, hour |-> 0]],
                   named |-> {}, dated |-> TRUE, vehicle |-> "fine"]

PartsNext ==
  /\ UNCHANGED part
  /\ \/ part = "tasks" /\ Next /\ UNCHANGED <<piccVars, materialVars, chatVars, amountVars, renewVars, vehicleVars>>
     \/ part = "rounds" /\ Picc!Next /\ UNCHANGED <<vars, materialVars, chatVars, amountVars, renewVars, vehicleVars>>
     \/ part = "material" /\ Material!Next /\ UNCHANGED <<vars, piccVars, chatVars, amountVars, renewVars, vehicleVars>>
     \/ part = "amounts" /\ Amounts!Next /\ UNCHANGED <<vars, piccVars, materialVars, chatVars, renewVars, vehicleVars>>
     \/ part = "renewal" /\ Renew!Next /\ UNCHANGED <<vars, piccVars, materialVars, chatVars, amountVars, vehicleVars>>
     \/ part = "messages" /\ Chat!Next /\ UNCHANGED <<vars, piccVars, materialVars, amountVars, renewVars, vehicleVars>>
     \/ part = "vehicle" /\ Choice!Next
        /\ UNCHANGED <<vars, piccVars, materialVars, chatVars, amountVars, renewVars>>

PartsSpec == PartsInit /\ [][PartsNext]_<<part, vars, piccVars, materialVars, chatVars, amountVars, renewVars,
                                    vehicleVars>>

(* The type invariant of the part that runs.                                               *)
PartsTypeOK ==
  /\ part = "tasks" => TypeOK
  /\ part = "rounds" => Picc!TypeOK
  /\ part = "material" => Material!TypeOK
  /\ part = "messages" => Chat!TypeOK
  /\ part = "amounts" => Amounts!TypeOK
  /\ part = "renewal" => Renew!TypeOK
  /\ part = "vehicle" => Choice!TypeOK

(* PiccQuote!QuotedAsAsked *)
QuotedAsAsked == Picc!QuotedAsAsked

(* QuoteMaterial!RecallForgets *)
RecallForgets == Material!RecallForgets

(* QuoteMaterial!AdjustmentsKept *)
AdjustmentsKept == Material!AdjustmentsKept

(* ChatMessages!RetriesAnswered *)
RetriesAnswered == Chat!RetriesAnswered

(* QuoteAmounts!AmountsTrue *)
AmountsTrue == Amounts!AmountsTrue

(* Renewal!RenewedAsAsked *)
RenewedAsAsked == Renew!RenewedAsAsked

(* VehicleChoice!VehicleTrue *)
VehicleTrue == Choice!VehicleTrue
===============================================================================
