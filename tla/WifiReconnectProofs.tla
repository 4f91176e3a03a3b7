------------------------- MODULE WifiReconnectProofs -------------------------
(***************************************************************************)
(* Proofs about the WiFi connection manager: the round robin of            *)
(* wifi_credentials_get_next never leaves the credentials table, and the  *)
(* work item, driver and event handler implement WifiStation, for every   *)
(* table of one to 255 entries and any number of failures.                *)
(***************************************************************************)
EXTENDS WifiReconnect, TLAPS

USE WifiAssumption

\* wifi_data.selected, and the credential of the last request, are indices
\* of the table.
IndexInv ==
  /\ selected \in 0 .. (Count - 1)
  /\ attempt \in 0 .. (Count - 1)

\* The wrap of wifi_credentials_get_next keeps an index of a non-empty
\* table in the table.
LEMMA NextSelectedRange ==
  ASSUME Count # 0, NEW sel \in 0 .. (Count - 1)
  PROVE  NextSelected(sel) \in 0 .. (Count - 1)
BY DEF NextSelected

LEMMA InitIndexInv ==
  ASSUME Count # 0
  PROVE  Init => IndexInv
BY DEF Init, IndexInv

\* Only wifi_connect moves either index: it copies selected out, then
\* advances it with the wrap.
LEMMA NextIndexInv ==
  ASSUME Count # 0
  PROVE  IndexInv /\ [Next]_vars => IndexInv'
<1> SUFFICES ASSUME IndexInv, [Next]_vars PROVE IndexInv'
  OBVIOUS
<1>1. CASE WorkConnect
  <2>1. attempt' = selected /\ selected' = NextSelected(selected)
    BY <1>1 DEF WorkConnect
  <2> QED
    BY <2>1, NextSelectedRange DEF IndexInv
<1>2. CASE WorkStart \/ WorkDisconnect \/ DriverResult \/ LinkLoss \/ HandleEvent
  BY <1>2 DEF WorkStart, WorkDisconnect, DriverResult, LinkLoss, HandleEvent, IndexInv
<1>3. CASE UNCHANGED vars
  BY <1>3 DEF vars, IndexInv
<1> QED
  BY <1>1, <1>2, <1>3 DEF Next

\* Every connect request is made with an entry of the credentials table,
\* whatever number of requests fail or are refused and however often the
\* round robin wraps, for every build with at least one credential (with
\* none, wifi_credentials_get_next reads credentials[0] of an empty table,
\* which MCWifiReconnect_Empty.cfg shows).
THEOREM CredentialIndexInTable ==
  ASSUME Count # 0
  PROVE  Spec => []CredentialInTable
<1>1. IndexInv => CredentialInTable
  BY DEF IndexInv, CredentialInTable
<1> QED
  BY <1>1, InitIndexInv, NextIndexInv, PTL DEF Spec

-----------------------------------------------------------------------------
(* The refinement of WifiStation *)

\* The variables keep their types.
Types ==
  /\ pending \in BOOLEAN
  /\ workPc \in {"idle", "disconnect", "connect"}
  /\ link \in {"down", "connecting", "up"}
  /\ events \in Seq(Events)
  /\ faults \in 0 .. MaxFaults

\* What the timing of the delayable work guarantees: the work item runs
\* only on a station that is down, with no event queued and nothing
\* scheduled; an attempt in flight has the manager to itself; and while
\* the station is up nothing is scheduled and every queued event reports
\* success.  The last conjunct is what keeps a scheduled work item, and
\* so wifi_disconnect, away from a station that is up.
Quiet ==
  /\ workPc # "idle" => link = "down" /\ events = << >> /\ ~pending
  /\ link = "connecting" => workPc = "idle" /\ events = << >> /\ ~pending
  /\ link = "up" => ~pending /\ \A i \in DOMAIN events : events[i].status = 0

RInv == Types /\ IndexInv /\ Quiet

\* The wrap of wifi_credentials_get_next is the successor modulo Count.
LEMMA NextSelectedMod ==
  ASSUME Count # 0, NEW sel \in 0 .. (Count - 1)
  PROVE  NextSelected(sel) = (sel + 1) % Count
BY DEF NextSelected

LEMMA InitRInv ==
  ASSUME Count # 0
  PROVE  Init => RInv
BY DEF Init, RInv, Types, IndexInv, Quiet

LEMMA NextRInv ==
  ASSUME Count # 0
  PROVE  RInv /\ [Next]_vars => RInv'
<1> SUFFICES ASSUME RInv, [Next]_vars PROVE RInv'
  OBVIOUS
<1>1. IndexInv'
  BY NextIndexInv DEF RInv
<1>2. CASE WorkStart
  BY <1>1, <1>2 DEF WorkStart, RInv, Types, Quiet
<1>3. CASE WorkDisconnect
  <2>1. link = "down" /\ events = << >> /\ ~pending
    BY <1>3 DEF WorkDisconnect, RInv, Quiet
  <2>2. UNCHANGED << link, events >>
    BY <1>3, <2>1 DEF WorkDisconnect
  <2> QED
    BY <1>1, <1>3, <2>1, <2>2 DEF WorkDisconnect, RInv, Types, Quiet
<1>4. CASE WorkConnect
  <2>1. link = "down" /\ events = << >> /\ ~pending
    BY <1>4 DEF WorkConnect, RInv, Quiet
  <2>2. workPc' = "idle" /\ UNCHANGED events
    BY <1>4 DEF WorkConnect
  <2>3. CASE link' = "connecting" /\ UNCHANGED << pending, faults >>
    BY <1>1, <2>1, <2>2, <2>3 DEF RInv, Types, Quiet
  <2>4. CASE faults < MaxFaults /\ faults' = faults + 1 /\ Schedule /\ UNCHANGED link
    BY <1>1, <2>1, <2>2, <2>4 DEF Schedule, RInv, Types, Quiet
  <2> QED
    BY <1>4, <2>3, <2>4 DEF WorkConnect
<1>5. CASE DriverResult
  <2>1. workPc = "idle" /\ events = << >> /\ ~pending
    BY <1>5 DEF DriverResult, RInv, Quiet
  <2>2. [type |-> "connect", status |-> 0] \in Events
        /\ [type |-> "connect", status |-> 1] \in Events
        /\ [type |-> "disconnect", status |-> 1] \in Events
    BY DEF Events
  <2>3. UNCHANGED << pending, workPc, faults >>
    BY <1>5 DEF DriverResult
  <2>4. CASE attempt \in Good /\ link' = "up"
             /\ events' = Append(events, [type |-> "connect", status |-> 0])
    <3>1. events' = << [type |-> "connect", status |-> 0] >>
      BY <2>1, <2>4
    <3>2. events' \in Seq(Events) /\ \A i \in DOMAIN events' : events'[i].status = 0
      BY <3>1, <2>2
    <3> QED
      BY <1>1, <2>1, <2>3, <2>4, <3>2 DEF RInv, Types, Quiet
  <2>5. CASE attempt \notin Good /\ link' = "down"
    <3>1. \/ events' = << [type |-> "connect", status |-> 1] >>
          \/ events' = << [type |-> "connect", status |-> 1],
                          [type |-> "disconnect", status |-> 1] >>
      BY <1>5, <2>1, <2>5 DEF DriverResult
    <3>2. events' \in Seq(Events)
      <4>1. << [type |-> "connect", status |-> 1] >> \in Seq(Events)
        BY <2>2
      <4>2. << [type |-> "connect", status |-> 1],
               [type |-> "disconnect", status |-> 1] >> \in Seq(Events)
        BY <2>2
      <4> QED
        BY <3>1, <4>1, <4>2
    <3> QED
      BY <1>1, <2>1, <2>3, <2>5, <3>2 DEF RInv, Types, Quiet
  <2> QED
    BY <1>5, <2>4, <2>5 DEF DriverResult
<1>6. CASE LinkLoss
  <2>1. workPc = "idle"
    BY <1>6 DEF LinkLoss, RInv, Quiet
  <2>2. \A s \in {0, 1} : [type |-> "disconnect", status |-> s] \in Events
    BY DEF Events
  <2> QED
    BY <1>1, <1>6, <2>1, <2>2 DEF LinkLoss, RInv, Types, Quiet
<1>7. CASE HandleEvent
  <2>1. workPc = "idle"
    BY <1>7 DEF HandleEvent, RInv, Quiet
  <2>2. events' \in Seq(Events)
    BY <1>7 DEF HandleEvent, RInv, Types
  <2>3. link = "up" => /\ Head(events).status = 0
                       /\ \A i \in DOMAIN events' : events'[i].status = 0
    BY <1>7 DEF HandleEvent, RInv, Types, Quiet
  <2> QED
    BY <1>1, <1>7, <2>1, <2>2, <2>3 DEF HandleEvent, Schedule, RInv, Types, Quiet
<1>8. CASE UNCHANGED vars
  BY <1>8 DEF vars, RInv, Types, IndexInv, Quiet
<1> QED
  BY <1>2, <1>3, <1>4, <1>5, <1>6, <1>7, <1>8 DEF Next

\* The work item starts or runs wifi_disconnect on a station that is down:
\* a reconnect stays owed, nothing the manager promises about changes.
LEMMA WorkStutters ==
  ASSUME RInv, WorkStart \/ WorkDisconnect
  PROVE  UNCHANGED Station!vars
<1>1. RetryOwed /\ RetryOwed'
  BY DEF WorkStart, WorkDisconnect, RetryOwed
<1>2. link = "down" \/ WorkStart
  BY DEF WorkDisconnect, RInv, Quiet
<1>3. UNCHANGED << link, attempt, selected >>
  BY <1>2 DEF WorkStart, WorkDisconnect
<1> QED
  BY <1>1, <1>3, Zenon DEF Station!vars

\* wifi_connect is a request with the next credential.
LEMMA WorkConnectMaps ==
  ASSUME Count # 0, RInv, WorkConnect
  PROVE  Station!Request
<1>1. link = "down" /\ events = << >> /\ ~pending
  BY DEF WorkConnect, RInv, Quiet
<1>2. RetryOwed
  BY DEF WorkConnect, RetryOwed
<1>3. attempt' = selected /\ selected' = (selected + 1) % Count
  BY NextSelectedMod DEF WorkConnect, RInv, IndexInv
<1>4. workPc' = "idle" /\ events' = << >>
  BY <1>1 DEF WorkConnect
<1>5. CASE link' = "connecting" /\ UNCHANGED pending
  <2>1. ~RetryOwed'
    BY <1>1, <1>4, <1>5 DEF RetryOwed
  <2> QED
    BY <1>1, <1>2, <1>3, <1>5, <2>1 DEF Station!Request
<1>6. CASE pending' = TRUE /\ UNCHANGED link
  BY <1>1, <1>2, <1>3, <1>6 DEF Station!Request, RetryOwed
<1> QED
  BY <1>5, <1>6 DEF WorkConnect, Schedule

\* The driver's CONNECT_RESULT is the end of the attempt.
LEMMA DriverResultMaps ==
  ASSUME RInv, DriverResult
  PROVE  Station!Result
<1>1. workPc = "idle" /\ events = << >> /\ ~pending
  BY DEF DriverResult, RInv, Quiet
<1>2. ~RetryOwed
  BY <1>1 DEF RetryOwed
<1>3. UNCHANGED << pending, workPc, attempt, selected >>
  BY DEF DriverResult
<1>4. CASE attempt \in Good /\ link' = "up"
           /\ events' = Append(events, [type |-> "connect", status |-> 0])
  <2>1. events' = << [type |-> "connect", status |-> 0] >>
    BY <1>1, <1>4
  <2>2. ~RetryOwed'
    BY <1>1, <1>3, <2>1 DEF RetryOwed
  <2>3. RetryOwed' = RetryOwed
    BY <1>2, <2>2, Zenon DEF RetryOwed
  <2> QED
    BY <1>3, <1>4, <2>3 DEF DriverResult, Station!Result
<1>5. CASE attempt \notin Good /\ link' = "down"
  <2>1. events'[1] = [type |-> "connect", status |-> 1] /\ 1 \in DOMAIN events'
    BY <1>1, <1>5 DEF DriverResult
  <2>2. RetryOwed'
    BY <2>1 DEF RetryOwed
  <2> QED
    BY <1>3, <1>5, <2>2 DEF DriverResult, Station!Result
<1> QED
  BY <1>4, <1>5 DEF DriverResult

\* A lost link is a Loss, whatever its reason code.
LEMMA LinkLossMaps ==
  ASSUME LinkLoss
  PROVE  Station!Loss
<1>1. RetryOwed' \in BOOLEAN
  BY DEF RetryOwed
<1> QED
  BY <1>1 DEF LinkLoss, Station!Loss

\* The handler consumes an event: a nonzero status turns the owed
\* reconnect into a scheduled one, a zero status owed none.
LEMMA HandleEventStutters ==
  ASSUME RInv, HandleEvent
  PROVE  UNCHANGED Station!vars
<1>1. events \in Seq(Events) /\ events # << >>
  BY DEF HandleEvent, RInv, Types
<1>2. UNCHANGED << workPc, link, attempt, selected >>
  BY DEF HandleEvent
<1>3. CASE Head(events).status # 0
  <2>1. RetryOwed /\ RetryOwed'
    BY <1>1, <1>3 DEF HandleEvent, Schedule, RetryOwed
  <2> QED
    BY <1>2, <2>1, Zenon DEF Station!vars
<1>4. CASE Head(events).status = 0
  <2>1. UNCHANGED pending
    BY <1>4 DEF HandleEvent
  <2>1a. events' = Tail(events)
    BY DEF HandleEvent
  <2>1b. /\ DOMAIN events' = 1 .. (Len(events) - 1)
         /\ \A i \in DOMAIN events' : events'[i] = events[i + 1]
         /\ DOMAIN events = 1 .. Len(events) /\ Len(events) >= 1
         /\ Head(events) = events[1]
    BY <1>1, <2>1a
  <2>2. (\E i \in DOMAIN events' : events'[i].status # 0)
          <=> (\E i \in DOMAIN events : events[i].status # 0)
    <3>1. ASSUME NEW i \in DOMAIN events, events[i].status # 0
          PROVE  \E j \in DOMAIN events' : events'[j].status # 0
      <4>1. i # 1
        BY <1>4, <2>1b, <3>1
      <4>2. i - 1 \in DOMAIN events' /\ events'[i - 1] = events[i]
        BY <2>1b, <4>1
      <4> QED
        BY <3>1, <4>2
    <3>2. ASSUME NEW j \in DOMAIN events', events'[j].status # 0
          PROVE  \E i \in DOMAIN events : events[i].status # 0
      <4>1. j + 1 \in DOMAIN events /\ events[j + 1] = events'[j]
        BY <2>1b
      <4> QED
        BY <3>2, <4>1
    <3> QED
      BY <3>1, <3>2
  <2>3. RetryOwed' = RetryOwed
    BY <1>2, <2>1, <2>2 DEF RetryOwed
  <2> QED
    BY <1>2, <2>3 DEF Station!vars
<1> QED
  BY <1>3, <1>4

LEMMA StepMaps ==
  ASSUME Count # 0
  PROVE  RInv /\ [Next]_vars => [Station!Next]_Station!vars
<1> SUFFICES ASSUME RInv, [Next]_vars PROVE [Station!Next]_Station!vars
  OBVIOUS
<1>1. CASE WorkStart \/ WorkDisconnect
  BY <1>1, WorkStutters
<1>2. CASE WorkConnect
  BY <1>2, WorkConnectMaps DEF Station!Next
<1>3. CASE DriverResult
  BY <1>3, DriverResultMaps DEF Station!Next
<1>4. CASE LinkLoss
  BY <1>4, LinkLossMaps DEF Station!Next
<1>5. CASE HandleEvent
  BY <1>5, HandleEventStutters
<1>6. CASE UNCHANGED vars
  BY <1>6 DEF vars, Station!vars, RetryOwed
<1> QED
  BY <1>1, <1>2, <1>3, <1>4, <1>5, <1>6 DEF Next

\* The work item, the driver and the net_mgmt handler implement the
\* manager's promise (WifiStation): connect requests only while the station
\* is down and a reconnect is owed, one at a time, with the credentials in
\* round robin, and never a wifi_disconnect of a station that is up; for
\* every table of 1 to 255 credentials (with none, the round robin has no
\* next entry: see CredentialIndexInTable).
THEOREM WifiImplementsStation ==
  ASSUME Count # 0
  PROVE  Spec => WifiRefinement
<1>1. Init => Station!Init
  BY DEF Init, Station!Init, RetryOwed
<1>2. Init => RInv
  BY InitRInv
<1>3. RInv /\ [Next]_vars => RInv'
  BY NextRInv
<1>4. RInv /\ [Next]_vars => [Station!Next]_Station!vars
  BY StepMaps
<1> QED
  BY <1>1, <1>2, <1>3, <1>4, PTL DEF Spec, WifiRefinement, Station!Spec
====
