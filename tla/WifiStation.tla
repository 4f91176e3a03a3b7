----------------------------- MODULE WifiStation -----------------------------
(***************************************************************************)
(* What the WiFi connection manager promises, with no work item, no event *)
(* queue and no net_mgmt thread: the station is connected by one request  *)
(* at a time, made only while the station is down and a retry is owed;    *)
(* each request takes the next credential of the table, round robin; a    *)
(* request succeeds only with a credential the access point accepts; a    *)
(* failed or refused request owes a retry; the manager never takes down a *)
(* station that is up, and when the link is lost a retry may or may not  *)
(* be owed (the reason code decides).  WifiReconnect implements this      *)
(* specification (WifiRefinement).                                        *)
(***************************************************************************)
EXTENDS Naturals

CONSTANTS
  Count,   \* entries of the credentials table
  Good     \* the entries the access point accepts

VARIABLES
  station,  \* "down", "connecting" or "up"
  retry,    \* a connection request is owed
  cred,     \* the entry of the last request
  next      \* the entry the next request takes

vars == << station, retry, cred, next >>

Init ==
  /\ station = "down"
  /\ retry = TRUE
  /\ cred = 0
  /\ next = 0

\* A request with the next entry; the driver takes it up or refuses it.
Request ==
  /\ station = "down" /\ retry
  /\ cred' = next
  /\ next' = (next + 1) % Count
  /\ \/ station' = "connecting" /\ retry' = FALSE
     \/ station' = "down" /\ retry' = TRUE

\* The attempt ends: up with an accepted entry, otherwise down owing a retry.
Result ==
  /\ station = "connecting"
  /\ \/ cred \in Good /\ station' = "up" /\ UNCHANGED retry
     \/ cred \notin Good /\ station' = "down" /\ retry' = TRUE
  /\ UNCHANGED << cred, next >>

\* The access point goes away.
Loss ==
  /\ station = "up"
  /\ station' = "down"
  /\ retry' \in BOOLEAN
  /\ UNCHANGED << cred, next >>

Next == Request \/ Result \/ Loss

Spec == Init /\ [][Next]_vars
====
