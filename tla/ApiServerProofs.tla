-------------------------- MODULE ApiServerProofs --------------------------
(* Proofs about ApiServer for every value of its constants: the type      *)
(* invariant, and that a GPIO switch's recorded state never disagrees     *)
(* with the level its pin is driven to.                                   *)
EXTENDS ApiServer, SequenceTheorems, TLAPS

USE ConstAssumption

\* The fields of the frames a client sends.
LEMMA ClientFrameFields ==
  ASSUME NEW f \in ClientFrames
  PROVE  /\ f.state \in {0, 1}
         /\ f.form \in {"ok", "badMarker", "undecodable"}
BY DEF ClientFrames, Frame

\* Send keeps a well-typed output stream well typed.
LEMMA SendType ==
  ASSUME out \in Seq(OutRec), NEW o \in Seq(OutRec)
  PROVE  Send(o) \in Seq(OutRec)
BY DEF Send

\* Appending one frame the server may send.
LEMMA AppendOut ==
  ASSUME out \in Seq(OutRec), NEW t \in OutTypes, NEW e \in Entities \cup {NoEnt},
         NEW v \in OutVals, NEW from \in {"rpc", "sensor"}
  PROVE  /\ Append(out, Out(t, e, v, from)) \in Seq(OutRec)
         /\ Send(Append(out, Out(t, e, v, from))) \in Seq(OutRec)
<1>1. Out(t, e, v, from) \in OutRec
  BY DEF Out, OutRec
<1>2. Append(out, Out(t, e, v, from)) \in Seq(OutRec)
  BY <1>1, AppendProperties
<1>. QED
  BY <1>2, SendType

-----------------------------------------------------------------------------
(* Type correctness, one lemma per action.                                *)

LEMMA InitTypeOK == Init => TypeOK
BY DEF Init, TypeOK

LEMMA AcceptConnectionTypeOK == TypeOK /\ AcceptConnection => TypeOK'
BY DEF TypeOK, AcceptConnection

LEMMA AcceptFailedTypeOK == TypeOK /\ AcceptFailed => TypeOK'
BY DEF TypeOK, AcceptFailed

LEMMA ReadHeaderTypeOK == TypeOK /\ (ReadHeaderEOF \/ ReadHeaderError) => TypeOK'
BY DEF TypeOK, ReadHeaderEOF, ReadHeaderError

LEMMA ReadFrameFailedTypeOK == TypeOK /\ ReadFrameFailed => TypeOK'
<1>. SUFFICES ASSUME TypeOK, ReadFrameFailed PROVE TypeOK'
  OBVIOUS
<1>1. inbox # <<>> /\ inbox \in Seq(ClientFrames \cup CutFrames)
  BY DEF ReadFrameFailed, TypeOK
<1>2. inbox' \in Seq(ClientFrames \cup CutFrames)
  BY <1>1, HeadTailProperties DEF ReadFrameFailed
<1>3. heap' \in 0 .. HeapSize
  BY DEF ReadFrameFailed, TypeOK
<1>. QED
  BY <1>2, <1>3 DEF ReadFrameFailed, TypeOK

LEMMA DecodeFailedTypeOK == TypeOK /\ DecodeFailed => TypeOK'
<1>. SUFFICES ASSUME TypeOK, DecodeFailed PROVE TypeOK'
  OBVIOUS
<1>1. inbox # <<>> /\ inbox \in Seq(ClientFrames \cup CutFrames)
  BY DEF DecodeFailed, TypeOK
<1>2. inbox' \in Seq(ClientFrames \cup CutFrames)
  BY <1>1, HeadTailProperties DEF DecodeFailed
<1>3. heap' \in 0 .. HeapSize
  BY DEF DecodeFailed, TypeOK
<1>. QED
  BY <1>2, <1>3 DEF DecodeFailed, TypeOK
\* Reading a frame keeps the client's stream and the request history typed.
LEMMA ReceiveType ==
  ASSUME TypeOK, NEW f \in ClientFrames, Receive(f)
  PROVE  /\ inbox' \in Seq(ClientFrames \cup CutFrames)
         /\ served' \in Seq(ClientFrames)
<1>1. inbox # <<>> /\ inbox \in Seq(ClientFrames \cup CutFrames)
  BY DEF Receive, TypeOK
<1>2. inbox' \in Seq(ClientFrames \cup CutFrames)
  BY <1>1, HeadTailProperties DEF Receive
<1>3. served' \in Seq(ClientFrames)
  BY AppendProperties DEF Receive, TypeOK
<1>. QED
  BY <1>2, <1>3

\* A handler that reads a payload keeps the heap within its bound.
LEMMA HeapAfterType ==
  ASSUME TypeOK, NEW f \in ClientFrames, PayloadFits(f)
  PROVE  HeapAfter(f) \in 0 .. HeapSize
BY DEF TypeOK, PayloadFits, HeapAfter

\* The next value of pc set by Finish.
LEMMA FinishType ==
  ASSUME NEW r, Finish(r)
  PROVE  pc' \in {"listen", "serve", "spin", "fault"}
BY DEF Finish

LEMMA HelloRequestCbTypeOK == TypeOK /\ HelloRequestCb => TypeOK'
<1>. SUFFICES ASSUME TypeOK, NEW f \in ClientFrames,
                     f.msg = "Hello", Receive(f), PayloadFits(f), Decodes(f),
                     heap' = HeapAfter(f),
                     out' = IF ReplyFits(f) THEN Send(Append(out, Out("HelloResponse", NoEnt, 0, "rpc"))) ELSE out,
                     Finish(IF ReplyFits(f) THEN 0 ELSE -1),
                     UNCHANGED <<sock, conns, peer, sent, swState, pin, sensorIdx>>
              PROVE  TypeOK'
  BY DEF HelloRequestCb
<1>1. out' \in Seq(OutRec)
  BY AppendOut DEF TypeOK, OutTypes, OutVals
<1>. QED
  BY <1>1, ReceiveType, HeapAfterType, FinishType DEF TypeOK

LEMMA ConnectRequestCbTypeOK == TypeOK /\ ConnectRequestCb => TypeOK'
<1>. SUFFICES ASSUME TypeOK, NEW f \in ClientFrames,
                     f.msg = "Connect", Receive(f), PayloadFits(f), Decodes(f),
                     heap' = HeapAfter(f),
                     out' = IF ReplyFits(f)
                            THEN Send(Append(out, Out("ConnectResponse", NoEnt, IF f.pwd = Password THEN 0 ELSE 1, "rpc")))
                            ELSE out,
                     Finish(IF ReplyFits(f) THEN 0 ELSE -1),
                     UNCHANGED <<sock, conns, peer, sent, swState, pin, sensorIdx>>
              PROVE  TypeOK'
  BY DEF ConnectRequestCb
<1>1. out' \in Seq(OutRec)
  BY AppendOut DEF TypeOK, OutTypes, OutVals
<1>. QED
  BY <1>1, ReceiveType, HeapAfterType, FinishType DEF TypeOK

\* The handlers whose reply is one frame on a stack buffer.
LEMMA StackReplyTypeOK ==
  TypeOK /\ (DisconnectRequestCb \/ PingRequestCb \/ DeviceInfoRequestCb) => TypeOK'
<1>. SUFFICES ASSUME TypeOK, NEW f \in ClientFrames, Receive(f),
                     NEW t \in {"DisconnectResponse", "PingResponse", "DeviceInfoResponse"},
                     \/ out' = out
                     \/ out' = Send(Append(out, Out(t, NoEnt, 0, "rpc"))),
                     pc' \in {"listen", "serve"},
                     UNCHANGED <<sock, conns, peer, sent, heap, swState, pin, sensorIdx>>
              PROVE  TypeOK'
  BY DEF DisconnectRequestCb, PingRequestCb, DeviceInfoRequestCb, Finish
<1>1. out' \in Seq(OutRec)
  <2>1. Send(Append(out, Out(t, NoEnt, 0, "rpc"))) \in Seq(OutRec)
    BY AppendOut DEF TypeOK, OutTypes, OutVals
  <2>. QED
    BY <2>1 DEF TypeOK
<1>. QED
  BY <1>1, ReceiveType DEF TypeOK
LEMMA ListEntitiesRequestCbTypeOK == TypeOK /\ ListEntitiesRequestCb => TypeOK'
<1>. SUFFICES ASSUME TypeOK, NEW f \in ClientFrames, Receive(f),
                     ListEntitiesRequestCb,
                     UNCHANGED <<sock, conns, peer, sent, heap, swState, pin, sensorIdx>>
              PROVE  TypeOK'
  BY DEF ListEntitiesRequestCb
<1>. DEFINE entries == IF Room(heap)
                       THEN [i \in DOMAIN Order |-> Out("ListEntitiesEntry", Order[i], 0, "rpc")]
                       ELSE <<>>
<1>1. entries \in Seq(OutRec)
  <2>1. DOMAIN Order = 1 .. Len(Order) /\ Len(Order) \in Nat
    BY LenProperties
  <2>2. \A i \in 1 .. Len(Order) : Out("ListEntitiesEntry", Order[i], 0, "rpc") \in OutRec
    BY ElementOfSeq DEF Out, OutRec, OutTypes, OutVals
  <2>. QED
    BY <2>1, <2>2, EmptySeq
<1>2. out \o entries \o <<Out("ListEntitiesDone", NoEnt, 0, "rpc")>> \in Seq(OutRec)
  <2>1. <<Out("ListEntitiesDone", NoEnt, 0, "rpc")>> \in Seq(OutRec)
    BY DEF Out, OutRec, OutTypes, OutVals
  <2>. QED
    BY <1>1, <2>1, ConcatProperties DEF TypeOK
<1>3. out' = Send(out \o entries \o <<Out("ListEntitiesDone", NoEnt, 0, "rpc")>>)
  BY DEF ListEntitiesRequestCb, Receive
<1>4. pc' = "serve"
  BY DEF ListEntitiesRequestCb, Finish
<1>. QED
  BY <1>2, <1>3, <1>4, SendType, ReceiveType DEF TypeOK

LEMMA SubscribeStatesRequestCbTypeOK == TypeOK /\ SubscribeStatesRequestCb => TypeOK'
BY ReceiveType DEF SubscribeStatesRequestCb, Finish, TypeOK

\* The handlers that end with a return code and send nothing.
LEMMA SilentRequestTypeOK == TypeOK /\ (ButtonCommandRequestCb \/ RejectedRequest) => TypeOK'
<1>. SUFFICES ASSUME TypeOK, NEW f \in ClientFrames, Receive(f), PayloadFits(f),
                     heap' = HeapAfter(f),
                     pc' \in {"listen", "serve", "fault"},
                     UNCHANGED <<sock, conns, peer, sent, out, swState, pin, sensorIdx>>
              PROVE  TypeOK'
  BY DEF ButtonCommandRequestCb, RejectedRequest, Finish
<1>. QED
  BY ReceiveType, HeapAfterType DEF TypeOK
LEMMA SwitchCommandRequestCbTypeOK == TypeOK /\ SwitchCommandRequestCb => TypeOK'
<1>. SUFFICES ASSUME TypeOK, NEW f \in ClientFrames,
                     f.msg = "SwitchCommand", Receive(f), PayloadFits(f), Decodes(f),
                     heap' = HeapAfter(f),
                     LET e == FindByKey(f.key) IN
                       \/ /\ e = NoEnt
                          /\ Finish(-1)
                          /\ UNCHANGED <<out, swState, pin>>
                       \/ /\ e \in Entities \ Switches
                          /\ pc' = "fault"
                          /\ UNCHANGED <<out, swState, pin>>
                       \/ /\ e \in Switches
                          /\ \E ok \in BOOLEAN :
                               /\ GpioSetState(e, f.state, ok)
                               /\ out' = IF ReplyFits(f)
                                         THEN Send(Append(out, Out("SwitchState", e, swState'[e], "rpc")))
                                         ELSE out
                          /\ Finish(IF ReplyFits(f) THEN 0 ELSE -1),
                     UNCHANGED <<sock, conns, peer, sent, sensorIdx>>
              PROVE  TypeOK'
  BY DEF SwitchCommandRequestCb
<1>. DEFINE e == FindByKey(f.key)
<1>1. CASE e \in Switches
  <2>1. PICK ok \in BOOLEAN :
          /\ GpioSetState(e, f.state, ok)
          /\ out' = IF ReplyFits(f)
                    THEN Send(Append(out, Out("SwitchState", e, swState'[e], "rpc")))
                    ELSE out
    BY <1>1, NoEnt \notin Entities DEF Switches
  <2>2. swState' \in [Switches -> {Unknown, 0, 1}] /\ pin' \in [Switches -> {0, 1}]
    BY <1>1, <2>1, ClientFrameFields DEF GpioSetState, TypeOK
  <2>3. swState'[e] \in OutVals
    BY <1>1, <2>2 DEF OutVals
  <2>4. out' \in Seq(OutRec)
    BY <1>1, <2>1, <2>3, AppendOut DEF TypeOK, OutTypes, Switches
  <2>5. pc' \in {"listen", "serve", "spin", "fault"}
    BY <1>1, FinishType DEF Switches
  <2>. QED
    BY <2>2, <2>4, <2>5, ReceiveType, HeapAfterType DEF TypeOK
<1>2. CASE e \notin Switches
  <2>1. /\ pc' \in {"listen", "serve", "fault"}
        /\ UNCHANGED <<out, swState, pin>>
    BY <1>2 DEF Finish
  <2>. QED
    BY <2>1, ReceiveType, HeapAfterType DEF TypeOK
<1>. QED
  BY <1>1, <1>2

LEMMA SensorSendStateTypeOK == TypeOK /\ SensorSendState => TypeOK'
<1>. SUFFICES ASSUME TypeOK, SensorSendState PROVE TypeOK'
  OBVIOUS
<1>1. Len(SensorSection) \in Nat /\ Len(SensorSection) > 0
  BY LenProperties DEF SensorSendState
<1>2. sensorIdx \in 1 .. Len(SensorSection)
  BY <1>1 DEF TypeOK
<1>3. SensorSection[sensorIdx] \in Entities
  BY <1>2, ElementOfSeq
<1>4. out' \in Seq(OutRec)
  <2>1. Append(out, Out("SensorState", SensorSection[sensorIdx], 0, "sensor")) \in Seq(OutRec)
    BY <1>3, AppendOut DEF TypeOK, OutTypes, OutVals
  <2>. QED
    BY <2>1 DEF SensorSendState, TypeOK
<1>5. sensorIdx' \in 1 .. Len(SensorSection) \cup {1}
  BY <1>1, <1>2 DEF SensorSendState
<1>. QED
  BY <1>4, <1>5 DEF SensorSendState, TypeOK

LEMMA ClientTypeOK == TypeOK /\ Client => TypeOK'
<1>. SUFFICES ASSUME TypeOK, Client PROVE TypeOK'
  OBVIOUS
<1>1. CASE ClientSend
  <2>1. PICK f \in ClientFrames : inbox' = Append(inbox, f)
    BY <1>1 DEF ClientSend
  <2>2. inbox' \in Seq(ClientFrames \cup CutFrames)
    BY <2>1, AppendProperties DEF TypeOK
  <2>. QED
    BY <1>1, <2>2 DEF ClientSend, TypeOK
<1>2. CASE ClientClose
  <2>1. inbox' \in Seq(ClientFrames \cup CutFrames)
    <3>1. CASE UNCHANGED inbox
      BY <3>1 DEF TypeOK
    <3>2. CASE \E c \in CutFrames : inbox' = Append(inbox, c)
      BY <3>2, AppendProperties DEF TypeOK
    <3>. QED
      BY <1>2, <3>1, <3>2 DEF ClientClose
  <2>. QED
    BY <1>2, <2>1 DEF ClientClose, TypeOK
<1>3. CASE ClientReset
  BY <1>3, EmptySeq DEF ClientReset, TypeOK
<1>. QED
  BY <1>1, <1>2, <1>3 DEF Client
LEMMA NextTypeOK == TypeOK /\ [Next]_vars => TypeOK'
<1>. SUFFICES ASSUME TypeOK, [Next]_vars PROVE TypeOK'
  OBVIOUS
<1>1. CASE RpcThread
  BY <1>1, AcceptConnectionTypeOK, AcceptFailedTypeOK, ReadHeaderTypeOK,
     ReadFrameFailedTypeOK, DecodeFailedTypeOK, HelloRequestCbTypeOK,
     ConnectRequestCbTypeOK, StackReplyTypeOK, ListEntitiesRequestCbTypeOK,
     SubscribeStatesRequestCbTypeOK, SwitchCommandRequestCbTypeOK,
     SilentRequestTypeOK
  DEF RpcThread
<1>2. CASE SensorSendState
  BY <1>2, SensorSendStateTypeOK
<1>3. CASE Client
  BY <1>3, ClientTypeOK
<1>4. CASE UNCHANGED vars
  BY <1>4 DEF vars, TypeOK
<1>. QED
  BY <1>1, <1>2, <1>3, <1>4 DEF Next

\* Type correctness of the model: every variable of the RPC thread, the
\* sensor thread and the client stays in its type in every reachable state.
THEOREM TypeCorrect == Spec => []TypeOK
BY InitTypeOK, NextTypeOK, PTL DEF Spec

-----------------------------------------------------------------------------
(* esphome_gpio_switch_set_state stores data->state only after the GPIO    *)
(* write succeeded.  TypeOK /\ SwitchStateMatchesPin is inductive.        *)

\* Every step but a SwitchCommand leaves the switches alone.
LEMMA SwitchesUntouched ==
  ASSUME [Next]_vars, ~SwitchCommandRequestCb
  PROVE  UNCHANGED <<swState, pin>>
<1>1. CASE RpcThread
  BY <1>1 DEF RpcThread, AcceptConnection, AcceptFailed, ReadHeaderEOF,
     ReadHeaderError, ReadFrameFailed, DecodeFailed, HelloRequestCb,
     ConnectRequestCb, DisconnectRequestCb, PingRequestCb,
     DeviceInfoRequestCb, ListEntitiesRequestCb, SubscribeStatesRequestCb,
     ButtonCommandRequestCb, RejectedRequest
<1>2. CASE SensorSendState \/ Client
  BY <1>2 DEF SensorSendState, Client, ClientSend, ClientClose, ClientReset
<1>3. CASE UNCHANGED vars
  BY <1>3 DEF vars
<1>. QED
  BY <1>1, <1>2, <1>3 DEF Next

LEMMA SwitchCommandKeepsPin ==
  ASSUME TypeOK, SwitchStateMatchesPin, SwitchCommandRequestCb
  PROVE  SwitchStateMatchesPin'
<1>. PICK f \in ClientFrames :
       /\ f.msg = "SwitchCommand"
       /\ LET e == FindByKey(f.key) IN
            \/ /\ e \notin Switches
               /\ UNCHANGED <<swState, pin>>
            \/ /\ e \in Switches
               /\ \E ok \in BOOLEAN : GpioSetState(e, f.state, ok)
  BY NoEnt \notin Entities DEF SwitchCommandRequestCb, Switches
<1>. DEFINE e == FindByKey(f.key)
<1>1. CASE e \notin Switches
  BY <1>1 DEF SwitchStateMatchesPin
<1>2. CASE e \in Switches
  <2>. PICK ok \in BOOLEAN : GpioSetState(e, f.state, ok)
    BY <1>2
  <2>1. CASE ok
    <3>1. pin' = [pin EXCEPT ![e] = f.state] /\ swState' = [swState EXCEPT ![e] = f.state]
      BY <2>1 DEF GpioSetState
    <3>. QED
      BY <1>2, <3>1 DEF SwitchStateMatchesPin, TypeOK
  <2>2. CASE ~ok
    BY <2>2 DEF GpioSetState, SwitchStateMatchesPin
  <2>. QED
    BY <2>1, <2>2
<1>. QED
  BY <1>1, <1>2

\* A GPIO switch whose state is known is driven to that level, in every
\* reachable state: data->state is only written after gpio_pin_set_dt
\* succeeded (esphome_gpio_switch_set_state), whatever the client sends.
THEOREM SwitchStateInvariant == Spec => []SwitchStateMatchesPin
<1>1. Init => TypeOK /\ SwitchStateMatchesPin
  BY InitTypeOK DEF Init, SwitchStateMatchesPin
<1>2. TypeOK /\ SwitchStateMatchesPin /\ [Next]_vars => SwitchStateMatchesPin'
  <2>. SUFFICES ASSUME TypeOK, SwitchStateMatchesPin, [Next]_vars
                PROVE  SwitchStateMatchesPin'
    OBVIOUS
  <2>1. CASE SwitchCommandRequestCb
    BY <2>1, SwitchCommandKeepsPin
  <2>2. CASE ~SwitchCommandRequestCb
    BY <2>2, SwitchesUntouched DEF SwitchStateMatchesPin
  <2>. QED
    BY <2>1, <2>2
<1>. QED
  BY <1>1, <1>2, NextTypeOK, PTL DEF Spec
====
