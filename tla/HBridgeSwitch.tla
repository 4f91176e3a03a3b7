---------------------------- MODULE HBridgeSwitch ----------------------------
(***************************************************************************)
(* The H-bridge switch driver (switch/hbridge.c) under SwitchCommandRequestCb *)
(* (api/api.c): a latching relay with an "on" and an "off" coil.           *)
(* set_state pulses the coil of the requested side, sleeps wait_time,       *)
(* releases both coils and only then stores data->state; each of its four   *)
(* gpio_pin_set_dt calls may fail, which returns at once and leaves the     *)
(* pins as they are.  The callback ignores set_state's result and reports   *)
(* get_state in the SwitchStateResponse.                                    *)
(*                                                                          *)
(* The relay is the physical state: it moves to the side of a coil that is  *)
(* energized alone, at the latest by the end of the pulse's sleep.          *)
(***************************************************************************)
EXTENDS Integers

CONSTANTS
  Unknown,      \* -EINVAL, data->state before the first successful set_state
  MaxFailures   \* pin writes that may fail in a behaviour

ASSUME HBridgeAssumption ==
  /\ Unknown \notin {0, 1}
  /\ MaxFailures \in Nat

VARIABLES
  pc,        \* where the RPC thread is in SwitchCommandRequestCb
  req,       \* request->state of the command being served
  onPin,     \* level of on_pin
  offPin,    \* level of off_pin
  state,     \* data->state
  ret,       \* what the last set_state returned: "ok" or "err"
  reported,  \* response.state of the last SwitchStateResponse
  relay,     \* the side the relay is latched on
  failures   \* pin writes that have failed

vars == << pc, req, onPin, offPin, state, ret, reported, relay, failures >>

Steps == {"idle", "pulseOn", "pulseOff", "sleep", "releaseOn", "releaseOff",
          "respond"}

TypeOK ==
  /\ pc \in Steps
  /\ req \in {0, 1}
  /\ onPin \in {0, 1} /\ offPin \in {0, 1}
  /\ state \in {Unknown, 0, 1}
  /\ ret \in {"ok", "err"}
  /\ reported \in {0, 1}
  /\ relay \in {0, 1}
  /\ failures \in 0..MaxFailures

\* esphome_switch_hbridge_init: both pins configured low, data->state
\* -EINVAL; the relay keeps whatever side it was latched on.
Init ==
  /\ pc = "idle"
  /\ req = 0
  /\ onPin = 0 /\ offPin = 0
  /\ state = Unknown
  /\ ret = "ok"
  /\ reported = 0
  /\ relay \in {0, 1}
  /\ failures = 0

\* SwitchCommandRequestCb for this switch's key calls set_state(request->state).
SwitchCommand ==
  /\ pc = "idle"
  /\ \E s \in {0, 1} : req' = s
  /\ pc' = "pulseOn"
  /\ UNCHANGED << onPin, offPin, state, ret, reported, relay, failures >>

\* A gpio_pin_set_dt that fails: set_state returns the error at once.
PinWriteFails ==
  /\ pc \in {"pulseOn", "pulseOff", "releaseOn", "releaseOff"}
  /\ failures < MaxFailures
  /\ failures' = failures + 1
  /\ ret' = "err"
  /\ pc' = "respond"
  /\ UNCHANGED << req, onPin, offPin, state, reported, relay >>

\* esphome_switch_hbridge_gpios(dev, state, !state): on_pin, then off_pin.
PulseOn ==
  /\ pc = "pulseOn"
  /\ onPin' = req /\ pc' = "pulseOff"
  /\ UNCHANGED << req, offPin, state, ret, reported, relay, failures >>

\* Mutant of PulseOff: esphome_switch_hbridge_gpios(dev, state, state), the
\* negation of the off level dropped.
PulseOffSameSide ==
  /\ pc = "pulseOff"
  /\ offPin' = req /\ pc' = "sleep"
  /\ UNCHANGED << req, onPin, state, ret, reported, relay, failures >>

PulseOff ==
  /\ pc = "pulseOff"
  /\ offPin' = 1 - req /\ pc' = "sleep"
  /\ UNCHANGED << req, onPin, state, ret, reported, relay, failures >>

\* The relay has moved to the side of a lone energized coil.
Latched(r) == IF onPin # offPin THEN onPin ELSE r

\* k_sleep(wait_time), long enough for the energized coil to pull the relay.
SleepSkipped == relay' = relay
SleepPulls == relay' = Latched(relay)

Sleep ==
  /\ pc = "sleep"
  /\ SleepPulls
  /\ pc' = "releaseOn"
  /\ UNCHANGED << req, onPin, offPin, state, ret, reported, failures >>

\* esphome_switch_hbridge_gpios(dev, 0, 0), then data->state = state.
ReleaseOn ==
  /\ pc = "releaseOn"
  /\ onPin' = 0 /\ pc' = "releaseOff"
  /\ UNCHANGED << req, offPin, state, ret, reported, relay, failures >>

ReleaseOff ==
  /\ pc = "releaseOff"
  /\ offPin' = 0 /\ state' = req /\ ret' = "ok" /\ pc' = "respond"
  /\ UNCHANGED << req, onPin, reported, relay, failures >>

\* response.state is a protobuf bool: any nonzero int, -EINVAL included,
\* is packed as true.
ReportedRaw(st) == st
Reported(st) == IF st # 0 THEN 1 ELSE 0

\* esphome_switch_get_state into response.state, SwitchStateResponseWrite.
Respond ==
  /\ pc = "respond"
  /\ reported' = Reported(state)
  /\ pc' = "idle"
  /\ UNCHANGED << req, onPin, offPin, state, ret, relay, failures >>

\* A coil left energized (or still energized while the thread runs) pulls
\* the relay to its side.
CoilPull ==
  /\ Latched(relay) # relay
  /\ relay' = Latched(relay)
  /\ UNCHANGED << pc, req, onPin, offPin, state, ret, reported, failures >>

Next ==
  \/ SwitchCommand \/ PinWriteFails
  \/ PulseOn \/ PulseOff \/ Sleep \/ ReleaseOn \/ ReleaseOff \/ Respond
  \/ CoilPull

Spec == Init /\ [][Next]_vars

-----------------------------------------------------------------------------
(* Properties *)

\* A SwitchCommand whose set_state returned 0 leaves both coils released,
\* the relay on the requested side, data->state equal to it and the
\* SwitchStateResponse reporting it, whatever failed in earlier commands.
SuccessfulCommandTakesEffect ==
  (pc = "idle" /\ ret = "ok" /\ state # Unknown)
    => /\ onPin = 0 /\ offPin = 0
       /\ relay = req /\ state = req /\ reported = req

\* The two coils of the relay (the two inputs of the bridge) are never
\* driven high together, across set_state calls that fail part way.
BothCoilsNeverDriven == ~(onPin = 1 /\ offPin = 1)

\* Until a gpio_pin_set_dt fails, set_state never drives both coils at
\* once: every call finds both coils released, raises on_pin to the
\* requested level and off_pin to the other, and releases both before it
\* returns.  (After a failed write BothCoilsNeverDriven is violated.)
CoilsExclusiveUntilFailure == failures = 0 => ~(onPin = 1 /\ offPin = 1)
====
