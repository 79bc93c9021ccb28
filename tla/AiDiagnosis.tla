---------------------------- MODULE AiDiagnosis ----------------------------
(***************************************************************************)
(* One call of diagnose (modules/ai/services/ai-diagnosis.service.ts): the *)
(* vehicle is looked up, a language model is asked, a rule-based diagnosis *)
(* steps in for it whenever it does not give a usable answer, the result is*)
(* stored.  Calls share nothing, so there is one.                          *)
(*                                                                         *)
(* A message is the set of words in it that the rules look for, one word   *)
(* for those that are treated alike; or it is blank.                       *)
(***************************************************************************)
EXTENDS Naturals, Sequences

CONSTANT
  Word          \* bound: words that messages may contain

VARIABLES
  car,          \* the vehicle named: "none", "kept" or "deleted"
  ask,          \* the call
  stored        \* the diagnoses collection

diagnosisVars == << car, ask, stored >>

Message == { m \in [ words : SUBSET Word, blank : BOOLEAN ] : m.blank => m.words = {} }

Level == { "LOW", "MEDIUM", "HIGH", "CRITICAL" }

\* aiDiagnosisResultSchema.  Its texts have a character at least: it may be a
\* space.
AiDiagnosisResult ==
  [ severity : Level, safeToDrive : BOOLEAN, emergencyLevel : Level \cup { "NONE" },
    recommendedProvider : { "MECHANIC", "TOWING", "FUEL_DELIVERY",
                            "BATTERY_SUPPORT", "EV_SUPPORT" },
    blankText : BOOLEAN ]

\* Answers of the model that TLC tries: one that follows the prompt, one that
\* is reckless, one whose texts are blank.
Answer ==
  { r \in AiDiagnosisResult :
      /\ r.recommendedProvider = "TOWING" /\ r.emergencyLevel = r.severity
      /\ r.severity \in { "LOW", "CRITICAL" }
      /\ r.safeToDrive <=> r.severity = "LOW" }

NotYet == [ severity |-> "LOW", safeToDrive |-> FALSE, emergencyLevel |-> "NONE",
            recommendedProvider |-> "MECHANIC", blankText |-> FALSE ]

DiagnosisInit ==
  /\ car \in { "none", "kept", "deleted" }
  /\ \E m \in Message, key \in BOOLEAN :           \* is OPENAI_API_KEY set?
       ask = [ pc |-> "vehicle", message |-> m, hasKey |-> key,
               result |-> NotYet, source |-> "none" ]
  /\ stored = {}

-----------------------------------------------------------------------------
(***************************************************************************)
(* fallbackDiagnosis: the first rule that finds one of its words.          *)
(***************************************************************************)
Rule(words, severity, emergency, provider) ==
  [ words |-> words,
    gives |-> [ severity |-> severity, safeToDrive |-> FALSE,
                emergencyLevel |-> emergency, recommendedProvider |-> provider,
                blankText |-> FALSE ] ]

FirstRules ==
  << Rule({ "accident", "smoke" }, "CRITICAL", "CRITICAL", "TOWING"),
     Rule({ "fuel" }, "MEDIUM", "LOW", "FUEL_DELIVERY"),
     Rule({ "battery" }, "MEDIUM", "LOW", "BATTERY_SUPPORT"),
     Rule({ "flat" }, "MEDIUM", "MEDIUM", "MECHANIC"),
     Rule({ "ev" }, "MEDIUM", "MEDIUM", "EV_SUPPORT") >>

EngineRule == Rule({ "engine", "smoke" }, "HIGH", "HIGH", "TOWING")

\* Mutated: the engine is asked about first.
Rules_EngineFirst == << EngineRule >> \o FirstRules

Rules == Append(FirstRules, EngineRule)

Otherwise == Rule({}, "MEDIUM", "LOW", "MECHANIC").gives

fallbackDiagnosis(message) ==
  LET found == { i \in DOMAIN Rules : Rules[i].words \cap message.words # {} } IN
  IF found = {} THEN Otherwise
  ELSE Rules[CHOOSE i \in found : \A j \in found : i <= j].gives

-----------------------------------------------------------------------------
\* validateVehicleOwnership: a 404, or on to the model, when there is a key.
FindVehicle ==
  /\ ask.pc = "vehicle"
  /\ ask' = CASE car = "deleted" -> [ask EXCEPT !.pc = "refused"]
              [] car # "deleted" /\ ask.hasKey -> [ask EXCEPT !.pc = "model"]
              [] OTHER -> [ask EXCEPT !.pc = "create", !.source = "fallback",
                             !.result = fallbackDiagnosis(ask.message)]
  /\ UNCHANGED << car, stored >>

ModelAnswers(r) ==
  /\ ask.pc = "model"
  /\ ask' = [ask EXCEPT !.pc = "create", !.source = "openai", !.result = r]
  /\ UNCHANGED << car, stored >>

\* No connection, a status that is not 2xx, no choice, no JSON, or JSON that
\* the schema rejects.
ModelFails ==
  /\ ask.pc = "model"
  /\ ask' = [ask EXCEPT !.pc = "create", !.source = "fallback",
                        !.result = fallbackDiagnosis(ask.message)]
  /\ UNCHANGED << car, stored >>

\* ai-diagnosis.schema.ts trims the texts, then requires them.
Storable == ~ ask.message.blank /\ ~ ask.result.blankText

Create ==
  /\ ask.pc = "create"
  /\ IF Storable
     THEN /\ stored' = stored \cup { [ message |-> ask.message, car |-> car,
                                       result |-> ask.result, source |-> ask.source ] }
          /\ ask' = [ask EXCEPT !.pc = "answered"]
     ELSE /\ ask' = [ask EXCEPT !.pc = "failed"]
          /\ UNCHANGED stored
  /\ UNCHANGED car

\* The owner deletes the vehicle meanwhile: nobody looks again.
DeleteCar ==
  /\ car = "kept"
  /\ car' = "deleted"
  /\ UNCHANGED << ask, stored >>

DiagnosisNext ==
  \/ FindVehicle \/ ModelFails \/ Create \/ DeleteCar
  \/ \E r \in Answer : ModelAnswers(r)

DiagnosisSpec == DiagnosisInit /\ [][DiagnosisNext]_diagnosisVars

-----------------------------------------------------------------------------
(***************************************************************************)
(* Properties                                                              *)
(***************************************************************************)
\* Without the model, whatever else a message talks about: an accident, a
\* fire or smoke is critical, and never safe to drive with, as the prompt asks
\* of the model (openai-diagnosis.service.ts:25, 66-90).
CriticalComesFirst ==
  \A d \in stored :
    (d.source = "fallback" /\ d.message.words \cap { "accident", "smoke" } # {}) =>
      /\ d.result.severity = "CRITICAL" /\ d.result.emergencyLevel = "CRITICAL"
      /\ ~ d.result.safeToDrive

\* A customer whose vehicle was found is left without a diagnosis only when a
\* text is blank: the request's or the model's, which the validators let
\* through and the collection does not take.  No failure of the model is an
\* error of the call (openai-diagnosis.service.ts:240-246, ai.validator.ts:6,
\* ai-diagnosis.schema.ts:12-18).
OnlyBlankFails ==
  ask.pc = "failed" => ask.message.blank \/ ask.result.blankText

\* With or without the model, a customer is warned and served: both of the
\* above (openai-diagnosis.service.ts:192-249).
DiagnosisHolds == CriticalComesFirst /\ OnlyBlankFails

=============================================================================
