---------------------------- MODULE MCApiServer ----------------------------
(* Model-checking instance of ApiServer: one entity of each domain, each   *)
(* with its own key, plus a key no entity has.                            *)
EXTENDS ApiServer

CONSTANTS sw, btn, sen, kSw, kBtn, kSen, kNone, pwCfg, pwBad

\* The entity section of the sample app: a GPIO switch, a template button
\* and a temperature sensor.
MCOrder == <<sw, btn, sen>>

\* A build with the switch component only.
MCOrderSwitchOnly == <<sw>>

\* The esphome_sensor_entity section of each build.
MCSensorSection == <<sen>>
MCSensorSectionNone == <<>>

MCKind == [e \in Entities |-> CASE e = sw  -> "switch"
                                [] e = btn -> "button"
                                [] e = sen -> "sensor"]

MCKeyOf == [e \in Entities |-> CASE e = sw  -> kSw
                                 [] e = btn -> kBtn
                                 [] e = sen -> kSen]
=============================================================================
