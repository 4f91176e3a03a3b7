---------------------------- MODULE WifiReconnect ----------------------------
(***************************************************************************)
(* The WiFi connection manager (wifi/wifi.c, wifi/wifi_credentials.c).     *)
(* Three actors share it: the system work queue running the delayable      *)
(* work item wifi_connect_work_cb (wifi_disconnect, then wifi_connect with *)
(* the next credential), the WiFi driver that completes a connection       *)
(* attempt or loses the link and raises net_mgmt events, and the net_mgmt  *)
(* thread that runs wifi_mgmt_event_handler on those events in order.      *)
(*                                                                         *)
(* Time is abstracted: the work's delay (1 s after init, 15 s after a      *)
(* failure) is assumed to outlast a connection attempt and the delivery of *)
(* its events, so the work fires only when no attempt is in flight and no  *)
(* event is queued.  Driver faults (refused requests, lost links) are      *)
(* bounded by MaxFaults.                                                    *)
(***************************************************************************)
EXTENDS Naturals, Sequences

CONSTANTS
  Count,      \* wifi_cfg.count, the credentials in the devicetree
  Good,       \* the credentials the access point accepts
  MaxFaults   \* refused connect requests and lost links in a behaviour

ASSUME WifiAssumption ==
  /\ Count \in 0..255
  /\ Good \subseteq 0..(Count - 1)
  /\ MaxFaults \in Nat

Events == [type : {"connect", "disconnect"}, status : {0, 1}]

VARIABLES
  pending,   \* the delayable work item is scheduled
  workPc,    \* where wifi_connect_work_cb is: "idle", "disconnect", "connect"
  selected,  \* wifi_data.selected of wifi_credentials.c
  attempt,   \* the credential of the last connect request
  link,      \* the driver's station: "down", "connecting", "up"
  events,    \* net_mgmt events raised and not yet handled
  faults     \* driver faults so far

vars == << pending, workPc, selected, attempt, link, events, faults >>

\* esphome_wifi_init: the work item is scheduled 1000 ms ahead.
Init ==
  /\ pending = TRUE
  /\ workPc = "idle"
  /\ selected = 0
  /\ attempt = 0
  /\ link = "down"
  /\ events = << >>
  /\ faults = 0

\* k_work_schedule: no effect on a work item that is already scheduled.
Schedule == pending' = TRUE

\* The delay expires and the work queue starts wifi_connect_work_cb.
WorkStart ==
  /\ pending /\ workPc = "idle"
  /\ link # "connecting" /\ events = << >>
  /\ pending' = FALSE /\ workPc' = "disconnect"
  /\ UNCHANGED << selected, attempt, link, events, faults >>

\* wifi_disconnect: NET_REQUEST_WIFI_DISCONNECT.  On a station that is not
\* connected the request fails and is only logged.  (No event schedules the
\* work while the station is up, so under the timing above it runs on a
\* station that is down.)
WorkDisconnect ==
  /\ workPc = "disconnect"
  /\ workPc' = "connect"
  /\ IF link = "up"
       THEN /\ link' = "down"
            /\ \E s \in {0, 1} :
                 events' = Append(events, [type |-> "disconnect", status |-> s])
       ELSE UNCHANGED << link, events >>
  /\ UNCHANGED << pending, selected, attempt, faults >>

\* wifi_credentials_get_next: the selected credential, then selected++ wrapped
\* at count.
NextSelectedOffByOne(sel) == IF sel + 1 > Count THEN 0 ELSE sel + 1
NextSelectedStuck(sel) == sel
NextSelected(sel) == IF sel + 1 >= Count THEN 0 ELSE sel + 1

\* wifi_connect: the next credential and NET_REQUEST_WIFI_CONNECT; a refused
\* request schedules the work again in 15 s.
WorkConnect ==
  /\ workPc = "connect"
  /\ workPc' = "idle"
  /\ attempt' = selected
  /\ selected' = NextSelected(selected)
  /\ \/ /\ link' = "connecting"
        /\ UNCHANGED << pending, faults >>
     \/ /\ faults < MaxFaults /\ faults' = faults + 1
        /\ Schedule
        /\ UNCHANGED link
  /\ UNCHANGED events

\* The driver completes the attempt: CONNECT_RESULT 0 with a credential the
\* access point accepts, otherwise a nonzero status, which some drivers
\* follow with a nonzero DISCONNECT_RESULT.
DriverResult ==
  /\ link = "connecting"
  /\ \/ /\ attempt \in Good
        /\ link' = "up"
        /\ events' = Append(events, [type |-> "connect", status |-> 0])
     \/ /\ attempt \notin Good
        /\ link' = "down"
        /\ \/ events' = Append(events, [type |-> "connect", status |-> 1])
           \/ events' = events \o << [type |-> "connect", status |-> 1],
                                    [type |-> "disconnect", status |-> 1] >>
  /\ UNCHANGED << pending, workPc, selected, attempt, faults >>

\* The access point goes away; the reason code may be 0.
LinkLoss ==
  /\ link = "up"
  /\ faults < MaxFaults /\ faults' = faults + 1
  /\ link' = "down"
  /\ \E s \in {0, 1} : events' = Append(events, [type |-> "disconnect", status |-> s])
  /\ UNCHANGED << pending, workPc, selected, attempt >>

\* Mutant of HandleEvent: the status test of the result handlers inverted,
\* a successful connect or a clean disconnect schedules the work.
HandleEventInverted ==
  /\ events # << >>
  /\ events' = Tail(events)
  /\ IF Head(events).status = 0 THEN Schedule ELSE UNCHANGED pending
  /\ UNCHANGED << workPc, selected, attempt, link, faults >>

\* wifi_mgmt_event_handler: handle_wifi_connect_result and
\* handle_wifi_disconnect_result schedule the work on a nonzero status; a
\* zero status only calls the on_connect or on_disconnect hook.
HandleEvent ==
  /\ events # << >>
  /\ events' = Tail(events)
  /\ IF Head(events).status # 0 THEN Schedule ELSE UNCHANGED pending
  /\ UNCHANGED << workPc, selected, attempt, link, faults >>

Next ==
  \/ WorkStart \/ WorkDisconnect \/ WorkConnect
  \/ DriverResult \/ LinkLoss \/ HandleEvent

Spec == Init /\ [][Next]_vars

\* The work queue runs a due item, the driver reports the outcome of every
\* attempt, and the net_mgmt thread delivers every event.
FairSpec ==
  /\ Spec
  /\ WF_vars(WorkStart) /\ WF_vars(WorkDisconnect) /\ WF_vars(WorkConnect)
  /\ WF_vars(DriverResult) /\ WF_vars(HandleEvent)

-----------------------------------------------------------------------------
(* Properties *)

\* The credential a connect request is made with (what
\* wifi_credentials_get_next copied out) is an entry of the credentials
\* table, over any number of failed attempts and wraps of the round robin.
CredentialInTable == link = "connecting" => attempt \in 0..(Count - 1)

\* Once a reconnect is scheduled with the station down, the round robin of
\* wifi_connect_work_cb brings the station up.
ScheduledReconnectSucceeds == (link = "down" /\ pending) ~> (link = "up")

\* Whenever the station goes down, it comes back up.
LossIsRecovered == (link = "down") ~> (link = "up")

-----------------------------------------------------------------------------
(* The refinement *)

\* A reconnect is owed: the work item is scheduled or running, or an event
\* with a nonzero status is queued, which the handler turns into a
\* k_work_schedule.
RetryOwed ==
  \/ pending
  \/ workPc # "idle"
  \/ \E i \in DOMAIN events : events[i].status # 0

Station == INSTANCE WifiStation
             WITH station <- link, retry <- RetryOwed, cred <- attempt,
                  next <- selected

\* The work item, the driver and the event handler together implement the
\* manager's promise: one request at a time, only while the station is
\* down and a reconnect is owed, each with the next credential, round
\* robin; never a disconnect of a station that is up (wifi_disconnect
\* in wifi_connect_work_cb always finds the station down).
WifiRefinement == Station!Spec
====
