------------------------- MODULE HBridgeSwitchProofs -------------------------
(***************************************************************************)
(* Proofs about the H-bridge switch model: type correctness, that a       *)
(* SwitchCommand whose set_state succeeded leaves the coils released and   *)
(* the relay, data->state and the response on the requested side, and     *)
(* that no coil pair is driven together before a pin write fails, for    *)
(* every bound on failing pin writes.                                      *)
(***************************************************************************)
EXTENDS HBridgeSwitch, TLAPS

USE HBridgeAssumption

(***************************************************************************)
(* The strengthening.  SuccessfulCommandTakesEffect speaks only of the idle *)
(* thread; it holds there because each step of a set_state that has not   *)
(* failed so far leaves the pins where that step put them, and once the    *)
(* pulse has slept the relay is on the requested side (a coil that stays   *)
(* energized is the requested one, so CoilPull cannot move it back).       *)
(***************************************************************************)
Pulsing ==
  /\ pc = "pulseOff" => onPin = req
  /\ pc = "sleep" => onPin = req /\ offPin = 1 - req
  /\ pc = "releaseOn" => onPin = req /\ offPin = 1 - req /\ relay = req
  /\ pc = "releaseOff" => onPin = 0 /\ offPin = 1 - req /\ relay = req

Settled ==
  /\ onPin = 0 /\ offPin = 0 /\ relay = req /\ state = req

\* Before any pin write has failed, the pins a set_state has not yet
\* written are released: the calls so far all ended in both releases.
Clean ==
  failures = 0 =>
    /\ ret = "ok"
    /\ pc \in {"idle", "pulseOn", "respond"} => onPin = 0 /\ offPin = 0
    /\ pc = "pulseOff" => offPin = 0

IInv ==
  /\ TypeOK
  /\ Pulsing
  /\ Clean
  /\ (pc = "respond" /\ ret = "ok") => Settled
  /\ (pc = "idle" /\ ret = "ok" /\ state # Unknown) => Settled /\ reported = req

LEMMA InitIInv == Init => IInv
BY DEF Init, IInv, TypeOK, Pulsing, Clean, Settled, Steps

LEMMA NextIInv == IInv /\ [Next]_vars => IInv'
<1> SUFFICES ASSUME IInv, [Next]_vars PROVE IInv'
  OBVIOUS
<1> USE DEF IInv, TypeOK, Pulsing, Clean, Settled, Steps
<1>1. CASE SwitchCommand
  BY <1>1 DEF SwitchCommand
<1>2. CASE PinWriteFails
  BY <1>2 DEF PinWriteFails
<1>3. CASE PulseOn
  BY <1>3 DEF PulseOn
<1>4. CASE PulseOff
  BY <1>4 DEF PulseOff
<1>5. CASE Sleep
  BY <1>5 DEF Sleep, SleepPulls, Latched
<1>6. CASE ReleaseOn
  BY <1>6 DEF ReleaseOn
<1>7. CASE ReleaseOff
  BY <1>7 DEF ReleaseOff
<1>8. CASE Respond
  BY <1>8 DEF Respond, Reported
<1>9. CASE CoilPull
  BY <1>9 DEF CoilPull, Latched
<1>10. CASE UNCHANGED vars
  BY <1>10 DEF vars
<1>11. QED
  BY <1>1, <1>2, <1>3, <1>4, <1>5, <1>6, <1>7, <1>8, <1>9, <1>10 DEF Next

\* set_state that returned 0 leaves the coils released, and the relay,
\* data->state and the SwitchStateResponse on the requested side, in every
\* behaviour of SwitchCommandRequestCb whatever the failure bound.
THEOREM CommandTakesEffect == Spec => []SuccessfulCommandTakesEffect
<1>1. IInv => SuccessfulCommandTakesEffect
  BY DEF IInv, Settled, SuccessfulCommandTakesEffect
<1>2. QED
  BY <1>1, InitIInv, NextIInv, PTL DEF Spec

\* Every pin, data->state and the reported bool keep their types.
THEOREM HBridgeTypeCorrect == Spec => []TypeOK
<1>1. IInv => TypeOK
  BY DEF IInv
<1>2. QED
  BY <1>1, InitIInv, NextIInv, PTL DEF Spec

\* Until a gpio_pin_set_dt of set_state fails, the two coils of the relay
\* are never driven together, for every bound on failing writes: the
\* on_pin-before-off_pin order of esphome_switch_hbridge_gpios is safe as
\* long as every earlier call ended in its release.
THEOREM CoilsExclusive == Spec => []CoilsExclusiveUntilFailure
<1>1. IInv => CoilsExclusiveUntilFailure
  BY DEF IInv, TypeOK, Pulsing, Clean, Steps, CoilsExclusiveUntilFailure
<1>2. QED
  BY <1>1, InitIInv, NextIInv, PTL DEF Spec
====
