----------------------------- MODULE ApiServer -----------------------------
(***************************************************************************)
(* The ESPHome native-API server of components/api: the RPC thread of     *)
(* esphome_rpc.c (accept loop, esphome_read_request and its dispatch       *)
(* switch), the request callbacks of api.c, the entity lookup of entity.c, *)
(* the GPIO switch driver of switch/gpio.c, and the periodic sensor thread *)
(* of sensor/sensor.c that writes to the same socket.  The client (the     *)
(* home-automation controller) is the environment.                        *)
(*                                                                         *)
(* Data is abstracted: a frame is a record naming its message, a payload   *)
(* is one heap unit, a key is a model value.  The control of the code is  *)
(* kept: every early return, every error path, and the order of sends.    *)
(***************************************************************************)
EXTENDS Integers, Sequences, FiniteSets

CONSTANTS
  Order,          \* the esphome_entity linker section, in iteration order
  SensorSection,  \* the esphome_sensor_entity section, in iteration order
  Kind,           \* entity -> "switch" | "button" | "sensor"
  KeyOf,          \* entity -> its key (fnv1_hash of its object id)
  ForeignKey,     \* a key no entity has
  Password,       \* config->password ("" when none is configured)
  WrongPassword,  \* a password the client may present that is not Password
  HeapSize,       \* units of the k_malloc heap
  MaxConns,       \* bound: connections accepted
  MaxFrames,      \* bound: frames a client sends on one connection
  MaxOut          \* bound: frames the server sends on one connection

Entities == {Order[i] : i \in DOMAIN Order}
Keys == {KeyOf[e] : e \in Entities} \cup {ForeignKey}
Passwords == {Password, WrongPassword}

\* The entity of a frame about no entity; find_device_entity_by_key's NULL.
NoEnt == "none"

ASSUME ConstAssumption ==
  /\ Order \in Seq(Entities)
  /\ \A i, j \in DOMAIN Order : i # j => Order[i] # Order[j]
  /\ Kind \in [Entities -> {"switch", "button", "sensor"}]
  /\ KeyOf \in [Entities -> Keys]
  /\ NoEnt \notin Entities
  /\ ForeignKey \notin {KeyOf[e] : e \in Entities}
  /\ Password # WrongPassword
  /\ SensorSection \in Seq(Entities)
  /\ {SensorSection[i] : i \in DOMAIN SensorSection} = {e \in Entities : Kind[e] = "sensor"}
  /\ HeapSize \in Nat
  /\ MaxConns \in Nat /\ MaxFrames \in Nat /\ MaxOut \in Nat

Switches == {e \in Entities : Kind[e] = "switch"}
Buttons  == {e \in Entities : Kind[e] = "button"}

-----------------------------------------------------------------------------
(* Frames a client can put on the wire.  msg names the case of the        *)
(* dispatch switch; "WeakDefault" is any id whose callback is the __weak   *)
(* default, "UnknownId" an id outside the switch.  form says whether the  *)
(* frame is well formed, or where it is broken.                           *)

NoKey == "none"
NoPwd == "none"
\* Message ids whose request carries a protobuf payload (len > 0).
PayloadMsgs == {"Hello", "Connect", "SwitchCommand", "ButtonCommand",
                "LightCommand", "WeakDefault", "UnknownId"}
\* Message ids whose frames the model tells apart by their id alone.
FieldlessMsgs == {"Disconnect", "Ping", "DeviceInfo", "ListEntities",
              "SubscribeStates", "Hello", "LightCommand", "WeakDefault",
              "UnknownId"}

Frame(m, k, s, p, form) == [msg |-> m, key |-> k, state |-> s, pwd |-> p, form |-> form]

ClientFrames ==
     {Frame(m, NoKey, 0, NoPwd, "ok") : m \in FieldlessMsgs}
  \cup {Frame("Connect", NoKey, 0, p, "ok") : p \in Passwords}
  \cup {Frame("SwitchCommand", k, s, NoPwd, "ok") : k \in Keys, s \in {0, 1}}
  \cup {Frame("ButtonCommand", k, 0, NoPwd, "ok") : k \in Keys}
  \cup {Frame("Ping", NoKey, 0, NoPwd, "badMarker"),
        Frame("SwitchCommand", NoKey, 0, NoPwd, "undecodable")}

\* What a peer that closes in the middle of a frame leaves in the stream.
CutFrames ==
  {Frame("Ping", NoKey, 0, NoPwd, "cutHeader"),
   Frame("SwitchCommand", NoKey, 0, NoPwd, "cutPayload")}

\* A frame the server sends: its message, the entity it is about, a value.
Out(t, e, v, from) == [type |-> t, ent |-> e, val |-> v, from |-> from]

\* data->state of a GPIO switch before its first successful set: -EINVAL.
Unknown == -1

\* Types and values of the frames the server sends.
OutTypes == {"HelloResponse", "ConnectResponse", "DisconnectResponse",
             "PingResponse", "DeviceInfoResponse", "ListEntitiesEntry",
             "ListEntitiesDone", "SwitchState", "SensorState"}
OutVals == {Unknown, 0, 1}

-----------------------------------------------------------------------------
VARIABLES
  pc,        \* RPC thread: "listen", "serve", "spin" or "fault"
  sock,      \* rpc_data->socket: 0 (static init), -1, or a connection number
  conns,     \* connections accepted so far
  peer,      \* the client end of the current connection: "open", "fin", "rst"
  inbox,     \* frames the client sent that the server has not read yet
  sent,      \* frames the client has sent on the current connection
  served,    \* requests dispatched on the current connection (history)
  out,       \* frames the server sent on the current connection
  heap,      \* k_malloc units in use
  swState,   \* esphome_gpio_switch_data.state of each switch
  pin,       \* the level each switch GPIO is driven to
  sensorIdx  \* position of esphome_sensor_service in SensorSection

vars == <<pc, sock, conns, peer, inbox, sent, served, out, heap,
          swState, pin, sensorIdx>>

\* A frame the server may send.
OutRec == [type : OutTypes, ent : Entities \cup {NoEnt}, val : OutVals, from : {"rpc", "sensor"}]

TypeOK ==
  /\ pc \in {"listen", "serve", "spin", "fault"}
  /\ sock \in {-1} \cup 0 .. MaxConns
  /\ conns \in 0 .. MaxConns
  /\ peer \in {"open", "fin", "rst"}
  /\ inbox \in Seq(ClientFrames \cup CutFrames)
  /\ sent \in 0 .. MaxFrames
  /\ served \in Seq(ClientFrames)
  /\ out \in Seq(OutRec)
  /\ heap \in 0 .. HeapSize
  /\ swState \in [Switches -> {Unknown, 0, 1}]
  /\ pin \in [Switches -> {0, 1}]
  /\ sensorIdx \in 1 .. Len(SensorSection) \cup {1}

Init ==
  /\ pc = "listen"
  /\ sock = 0
  /\ conns = 0
  /\ peer = "open"
  /\ inbox = <<>>
  /\ sent = 0
  /\ served = <<>>
  /\ out = <<>>
  /\ heap = 0
  \* esphome_gpio_switch_init: pin configured GPIO_OUTPUT_LOW, state -EINVAL
  /\ swState = [e \in Switches |-> Unknown]
  /\ pin = [e \in Switches |-> 0]
  /\ sensorIdx = 1

-----------------------------------------------------------------------------
(* Helpers of esphome_rpc.c and entity.c.                                  *)

\* A transient k_malloc of one unit (response buffer, unpacked message)
\* succeeds when the heap has room after the payload buffer h.
Room(h) == h < HeapSize

\* esphome_rpc_send: zsock_send on the current socket, result ignored.  The
\* bytes reach the client unless the connection was reset.
Send(o) == IF peer = "rst" THEN out ELSE o

\* find_device_entity_by_key: the first entity of the section with the key.
FindByKey(k) ==
  LET hits == {i \in DOMAIN Order : KeyOf[Order[i]] = k}
  IN IF hits = {} THEN NoEnt ELSE Order[CHOOSE i \in hits : \A j \in hits : i <= j]

\* The loop of esphome_rpc_service after esphome_read_request returned
\* ret: 0 reads the next request, anything else closes the socket.
Finish(ret) == pc' = IF ret = 0 THEN "serve" ELSE "listen"

\* Start of esphome_read_request for a well-formed frame: read the header,
\* k_malloc the payload buffer (never freed: there is no k_free(data)), read
\* the payload.  The caller is the dispatch case of f.msg.
Receive(f) ==
  /\ pc = "serve"
  /\ inbox # <<>>
  /\ Head(inbox) = f
  /\ f.form = "ok"
  /\ inbox' = Tail(inbox)
  /\ served' = Append(served, f)

\* The heap after reading f's payload.
HeapAfter(f) == IF f.msg \in PayloadMsgs THEN heap + 1 ELSE heap

\* The payload buffer (if any) could be allocated.
PayloadFits(f) == f.msg \notin PayloadMsgs \/ heap < HeapSize

\* An unpacked message also comes from the heap: unpack fails without room.
\* An id outside the switch is never unpacked.
Decodes(f) == f.msg \notin PayloadMsgs \ {"UnknownId"} \/ Room(HeapAfter(f))

\* esphome_<Msg>Read frees the unpacked message only after the callback
\* returns: the callback's response buffer is allocated while it is live.
ReplyFits(f) == Room(HeapAfter(f) + 1)

-----------------------------------------------------------------------------
(* The RPC thread: esphome_rpc_service.                                    *)

\* zsock_accept returns a new connection; rpc_data->socket is set to it.
AcceptConnection ==
  /\ pc = "listen"
  /\ conns < MaxConns
  /\ conns' = conns + 1
  /\ sock' = conns + 1
  /\ pc' = "serve"
  /\ peer' = "open"
  /\ inbox' = <<>>
  /\ sent' = 0
  /\ served' = <<>>
  /\ out' = <<>>
  /\ UNCHANGED <<heap, swState, pin, sensorIdx>>

\* zsock_accept fails: rpc_data->socket = -1, the loop continues.
AcceptFailed ==
  /\ pc = "listen"
  /\ sock' = -1
  /\ UNCHANGED <<pc, conns, peer, inbox, sent, served, out, heap, swState, pin, sensorIdx>>

\* esphome_read_header on a stream the peer closed: zsock_recv returns 0
\* and the do/while (ret == 0) loop retries for ever.
ReadHeaderEOF ==
  /\ pc = "serve"
  /\ inbox = <<>>
  /\ peer = "fin"
  /\ pc' = "spin"
  /\ UNCHANGED <<sock, conns, peer, inbox, sent, served, out, heap, swState, pin, sensorIdx>>

\* esphome_read_header on a reset connection: zsock_recv < 0, returned.
ReadHeaderError ==
  /\ pc = "serve"
  /\ inbox = <<>>
  /\ peer = "rst"
  /\ pc' = "listen"
  /\ UNCHANGED <<sock, conns, peer, inbox, sent, served, out, heap, swState, pin, sensorIdx>>

\* A frame that fails before dispatch: marker byte not 0x00 (-EIO), peer
\* gone inside a varint (-EOF), short payload read (-EIO, buffer leaked),
\* or the payload buffer k_malloc fails (-ENOMEM).  The socket is closed.
ReadFrameFailed ==
  /\ pc = "serve"
  /\ inbox # <<>>
  /\ LET f == Head(inbox) IN
       \/ /\ f.form \in {"badMarker", "cutHeader"}
          /\ UNCHANGED heap
       \/ /\ f.form = "cutPayload"
          /\ heap < HeapSize
          /\ heap' = heap + 1
       \/ /\ f.form \in {"ok", "undecodable", "cutPayload"}
          /\ f.msg \in PayloadMsgs
          /\ heap = HeapSize
          /\ UNCHANGED heap
  /\ inbox' = Tail(inbox)
  /\ pc' = "listen"
  /\ UNCHANGED <<sock, conns, peer, sent, served, out, swState, pin, sensorIdx>>

\* esphome_<Msg>Read: the payload does not unpack (malformed bytes or no
\* heap for the unpacked message): -EIO, the payload buffer is leaked.
DecodeFailed ==
  /\ pc = "serve"
  /\ inbox # <<>>
  /\ LET f == Head(inbox) IN
       /\ f.msg \in PayloadMsgs \ {"UnknownId"}
       /\ heap < HeapSize
       /\ (f.form = "undecodable" \/ (f.form = "ok" /\ ~Decodes(f)))
  /\ heap' = heap + 1
  /\ inbox' = Tail(inbox)
  /\ pc' = "listen"
  /\ UNCHANGED <<sock, conns, peer, sent, served, out, swState, pin, sensorIdx>>

-----------------------------------------------------------------------------
(* The dispatch cases and the callbacks of api.c.  Each action is one     *)
(* esphome_read_request call for a frame that decoded.                    *)

\* HelloRequestCb: HelloResponseWrite (k_malloc'd buffer, -ENOMEM if none).
HelloRequestCb ==
  \E f \in ClientFrames :
    /\ f.msg = "Hello"
    /\ Receive(f)
    /\ PayloadFits(f) /\ Decodes(f)
    /\ heap' = HeapAfter(f)
    /\ out' = IF ReplyFits(f) THEN Send(Append(out, Out("HelloResponse", NoEnt, 0, "rpc"))) ELSE out
    /\ Finish(IF ReplyFits(f) THEN 0 ELSE -1)
    /\ UNCHANGED <<sock, conns, peer, sent, swState, pin, sensorIdx>>

\* ConnectRequestCb: invalid_password = strcmp(config->password, password).
ConnectRequestCb ==
  \E f \in ClientFrames :
    /\ f.msg = "Connect"
    /\ Receive(f)
    /\ PayloadFits(f) /\ Decodes(f)
    /\ heap' = HeapAfter(f)
    /\ out' = IF ReplyFits(f)
              THEN Send(Append(out, Out("ConnectResponse", NoEnt, IF f.pwd = Password THEN 0 ELSE 1, "rpc")))
              ELSE out
    /\ Finish(IF ReplyFits(f) THEN 0 ELSE -1)
    /\ UNCHANGED <<sock, conns, peer, sent, swState, pin, sensorIdx>>

\* Mutant of DisconnectRequestCb: returns -ENOTCONN without writing the
\* DisconnectResponse first.
DisconnectRequestCbNoReply ==
  \E f \in ClientFrames :
    /\ f.msg = "Disconnect"
    /\ Receive(f)
    /\ Finish(-1)
    /\ UNCHANGED <<sock, conns, peer, sent, out, heap, swState, pin, sensorIdx>>

\* DisconnectRequestCb: DisconnectResponseWrite (stack buffer), then
\* -ENOTCONN so that the connection is closed.
DisconnectRequestCb ==
  \E f \in ClientFrames :
    /\ f.msg = "Disconnect"
    /\ Receive(f)
    /\ out' = Send(Append(out, Out("DisconnectResponse", NoEnt, 0, "rpc")))
    /\ Finish(-1)
    /\ UNCHANGED <<sock, conns, peer, sent, heap, swState, pin, sensorIdx>>

\* PingRequestCb: PingResponseWrite (stack buffer).
PingRequestCb ==
  \E f \in ClientFrames :
    /\ f.msg = "Ping"
    /\ Receive(f)
    /\ out' = Send(Append(out, Out("PingResponse", NoEnt, 0, "rpc")))
    /\ Finish(0)
    /\ UNCHANGED <<sock, conns, peer, sent, heap, swState, pin, sensorIdx>>

\* DeviceInfoRequestCb: DeviceInfoResponseWrite (k_malloc'd buffer).
DeviceInfoRequestCb ==
  \E f \in ClientFrames :
    /\ f.msg = "DeviceInfo"
    /\ Receive(f)
    /\ out' = IF Room(heap) THEN Send(Append(out, Out("DeviceInfoResponse", NoEnt, 0, "rpc"))) ELSE out
    /\ Finish(IF Room(heap) THEN 0 ELSE -1)
    /\ UNCHANGED <<sock, conns, peer, sent, heap, swState, pin, sensorIdx>>

\* ListEntitiesRequestCb: list_entity of every entity in section order (a
\* failed k_malloc drops that entity silently, list_entity returns 0), then
\* ListEntitiesDoneResponseWrite (stack buffer).
ListEntitiesRequestCb ==
  \E f \in ClientFrames :
    /\ f.msg = "ListEntities"
    /\ Receive(f)
    /\ LET entries == IF Room(heap)
                      THEN [i \in DOMAIN Order |-> Out("ListEntitiesEntry", Order[i], 0, "rpc")]
                      ELSE <<>>
       IN out' = Send(out \o entries \o <<Out("ListEntitiesDone", NoEnt, 0, "rpc")>>)
    /\ Finish(0)
    /\ UNCHANGED <<sock, conns, peer, sent, heap, swState, pin, sensorIdx>>

\* SubscribeStatesRequestCb and the two Subscribe*HomeAssistant* callbacks
\* return 0 and do nothing.
SubscribeStatesRequestCb ==
  \E f \in ClientFrames :
    /\ f.msg = "SubscribeStates"
    /\ Receive(f)
    /\ Finish(0)
    /\ UNCHANGED <<sock, conns, peer, sent, out, heap, swState, pin, sensorIdx>>

\* Mutant of GpioSetState: data->state is stored before the result of
\* gpio_pin_set_dt is checked.
GpioSetStateUnchecked(e, s, ok) ==
  /\ pin' = IF ok THEN [pin EXCEPT ![e] = s] ELSE pin
  /\ swState' = [swState EXCEPT ![e] = s]

\* esphome_gpio_switch_set_state: gpio_pin_set_dt may fail (ok = FALSE),
\* then neither the pin nor data->state changes.
GpioSetState(e, s, ok) ==
  IF ok THEN /\ pin' = [pin EXCEPT ![e] = s]
             /\ swState' = [swState EXCEPT ![e] = s]
        ELSE UNCHANGED <<pin, swState>>

\* SwitchCommandRequestCb: find the device by key (-ENODEV if none); call
\* the switch API of whatever device has the key; read the state back and
\* send SwitchStateResponse.  A button has no API (NULL dev->api) and a
\* sensor's API is not a switch API: the call faults.
SwitchCommandRequestCb ==
  \E f \in ClientFrames :
    /\ f.msg = "SwitchCommand"
    /\ Receive(f)
    /\ PayloadFits(f) /\ Decodes(f)
    /\ heap' = HeapAfter(f)
    /\ LET e == FindByKey(f.key) IN
         \/ /\ e = NoEnt
            /\ Finish(-1)
            /\ UNCHANGED <<out, swState, pin>>
         \/ /\ e \in Entities \ Switches
            /\ pc' = "fault"
            /\ UNCHANGED <<out, swState, pin>>
         \/ /\ e \in Switches
            /\ \E ok \in BOOLEAN :
                 /\ GpioSetState(e, f.state, ok)
                 /\ out' = IF ReplyFits(f)
                           THEN Send(Append(out, Out("SwitchState", e, swState'[e], "rpc")))
                           ELSE out
            /\ Finish(IF ReplyFits(f) THEN 0 ELSE -1)
    /\ UNCHANGED <<sock, conns, peer, sent, sensorIdx>>

\* ButtonCommandRequestCb: find the device by key (-ENODEV if none) and
\* return config->on_press(dev) (the template callbacks return 0).  A
\* device that is not a button has no esphome_button_config: it faults.
ButtonCommandRequestCb ==
  \E f \in ClientFrames :
    /\ f.msg = "ButtonCommand"
    /\ Receive(f)
    /\ PayloadFits(f) /\ Decodes(f)
    /\ heap' = HeapAfter(f)
    /\ LET e == FindByKey(f.key) IN
         \/ /\ e = NoEnt
            /\ Finish(-1)
         \/ /\ e \in Buttons
            /\ Finish(0)
         \/ /\ e \in Entities \ Buttons
            /\ pc' = "fault"
    /\ UNCHANGED <<sock, conns, peer, sent, out, swState, pin, sensorIdx>>

\* LightCommandRequestCb returns -ENOTSUP; the __weak default callbacks
\* return -1; an id outside the switch returns -ENOTSUP before any
\* callback.  All of them close the connection.
RejectedRequest ==
  \E f \in ClientFrames :
    /\ f.msg \in {"LightCommand", "WeakDefault", "UnknownId"}
    /\ Receive(f)
    /\ PayloadFits(f) /\ Decodes(f)
    /\ heap' = HeapAfter(f)
    /\ Finish(-1)
    /\ UNCHANGED <<sock, conns, peer, sent, out, swState, pin, sensorIdx>>

-----------------------------------------------------------------------------
(* The sensor thread: esphome_sensor_service sends one SensorStateResponse *)
(* per sensor on rpc_data->socket, whatever connection that is.  It only   *)
(* reaches a client when the socket is the open current connection.       *)

\* The sensor thread's bytes reach a client: rpc_data->socket is the open
\* current connection.
SocketOpen == pc \in {"serve", "spin"} /\ sock = conns /\ peer # "rst"

\* Mutant of SensorSendState: the walk over the section runs one past its end.
SensorSendStateNoWrap ==
  /\ pc # "fault"
  /\ Len(SensorSection) > 0
  /\ LET e == SensorSection[sensorIdx] IN
       IF SocketOpen /\ Room(heap)
       THEN /\ Len(out) < MaxOut
            /\ out' = Append(out, Out("SensorState", e, 0, "sensor"))
       ELSE UNCHANGED out
  /\ sensorIdx' = IF sensorIdx > Len(SensorSection) THEN 1 ELSE sensorIdx + 1
  /\ UNCHANGED <<pc, sock, conns, peer, inbox, sent, served, heap, swState, pin>>

SensorSendState ==
  /\ pc # "fault"
  /\ Len(SensorSection) > 0
  /\ LET e == SensorSection[sensorIdx] IN
       IF SocketOpen /\ Room(heap)
       THEN /\ Len(out) < MaxOut
            /\ out' = Append(out, Out("SensorState", e, 0, "sensor"))
       ELSE UNCHANGED out
  /\ sensorIdx' = IF sensorIdx = Len(SensorSection) THEN 1 ELSE sensorIdx + 1
  /\ UNCHANGED <<pc, sock, conns, peer, inbox, sent, served, heap, swState, pin>>

-----------------------------------------------------------------------------
(* The client.                                                             *)

ClientSend ==
  /\ pc # "fault"
  /\ peer = "open"
  /\ sent < MaxFrames
  /\ \E f \in ClientFrames : inbox' = Append(inbox, f)
  /\ sent' = sent + 1
  /\ UNCHANGED <<pc, sock, conns, peer, served, out, heap, swState, pin, sensorIdx>>

\* The client closes its end (FIN), possibly in the middle of a frame.
ClientClose ==
  /\ pc # "fault"
  /\ peer = "open"
  /\ peer' = "fin"
  /\ \/ UNCHANGED inbox
     \/ \E c \in CutFrames : inbox' = Append(inbox, c)
  /\ UNCHANGED <<pc, sock, conns, sent, served, out, heap, swState, pin, sensorIdx>>

\* The connection is reset: unread bytes are dropped, reads and sends fail.
ClientReset ==
  /\ pc # "fault"
  /\ peer = "open"
  /\ peer' = "rst"
  /\ inbox' = <<>>
  /\ UNCHANGED <<pc, sock, conns, sent, served, out, heap, swState, pin, sensorIdx>>

-----------------------------------------------------------------------------
RpcThread ==
  \/ AcceptConnection \/ AcceptFailed
  \/ ReadHeaderEOF \/ ReadHeaderError \/ ReadFrameFailed \/ DecodeFailed
  \/ HelloRequestCb \/ ConnectRequestCb \/ DisconnectRequestCb
  \/ PingRequestCb \/ DeviceInfoRequestCb \/ ListEntitiesRequestCb
  \/ SubscribeStatesRequestCb \/ SwitchCommandRequestCb
  \/ ButtonCommandRequestCb \/ RejectedRequest

Client == ClientSend \/ ClientClose \/ ClientReset

Next == RpcThread \/ SensorSendState \/ Client

Spec == Init /\ [][Next]_vars

\* The RPC thread is a kernel thread that runs whenever it is not blocked.
FairSpec == Spec /\ WF_vars(RpcThread)


-----------------------------------------------------------------------------
(* Properties.                                                            *)

\* The replies a request is answered with, in the order the callback of
\* its dispatch case writes them (list entries aside: their number depends
\* on the heap).  A SwitchCommand for a switch key is answered with a
\* SwitchStateResponse; every other request whose callback writes nothing
\* is answered with nothing.
ReplyTo(f) ==
  CASE f.msg = "Hello"        -> <<"HelloResponse">>
    [] f.msg = "Connect"      -> <<"ConnectResponse">>
    [] f.msg = "Disconnect"   -> <<"DisconnectResponse">>
    [] f.msg = "Ping"         -> <<"PingResponse">>
    [] f.msg = "DeviceInfo"   -> <<"DeviceInfoResponse">>
    [] f.msg = "ListEntities" -> <<"ListEntitiesDone">>
    [] f.msg = "SwitchCommand" /\ FindByKey(f.key) \in Switches -> <<"SwitchState">>
    [] OTHER                  -> <<>>

\* The replies owed to the first n requests served on this connection.
RepliesOwed(n) ==
  LET R[i \in 0 .. n] == IF i = 0 THEN <<>> ELSE R[i - 1] \o ReplyTo(served[i])
  IN R[n]

\* The replies whose Write k_mallocs the output buffer (the others use a
\* buffer on the stack and cannot fail).
AllocatedReplies == {"HelloResponse", "ConnectResponse", "DeviceInfoResponse", "SwitchState"}

\* The types of the frames the RPC thread sent, list entries left out.
RpcReplies ==
  LET r == SelectSeq(out, LAMBDA o : o.from = "rpc" /\ o.type # "ListEntitiesEntry")
  IN [i \in DOMAIN r |-> r[i].type]

\* Request/response pairing on a connection the client did not reset:
\* the RPC thread has answered every request it served, in order, with
\* exactly the frames its callback writes, and only the request that
\* closed the connection may have gone unanswered, and only when its
\* reply needs a k_malloc'd buffer (the Write returned -ENOMEM).  The
\* sensor thread's frames on the same socket never stand in for one.
RepliesInOrder ==
  peer # "rst" =>
    \/ RpcReplies = RepliesOwed(Len(served))
    \/ /\ pc # "serve"
       /\ Len(served) > 0
       /\ \A i \in DOMAIN ReplyTo(served[Len(served)]) :
            ReplyTo(served[Len(served)])[i] \in AllocatedReplies
       /\ RpcReplies = RepliesOwed(Len(served) - 1)

\* esphome_gpio_switch_set_state updates data->state only once the GPIO
\* write succeeded: a switch whose state is known is driven to that level.
SwitchStateMatchesPin ==
  \A e \in Switches : swState[e] # Unknown => swState[e] = pin[e]

\* Every SwitchStateResponse the server sends reports, as the protobuf bool
\* the controller decodes, the level the switch is driven to (the spec: the
\* response carries the switch's resulting state).
ReportedStateMatchesPin ==
  [][\A i \in Len(out) + 1 .. Len(out') :
       out'[i].type = "SwitchState" => ((out'[i].val # 0) = (pin'[out'[i].ent] = 1))]_vars

\* A command for a key no entity has is an application error, which the
\* spec's dispatch rules treat as non-fatal: the connection stays open.
AppErrorKeepsConnection ==
  [][(/\ pc = "serve"
      /\ Len(served') = Len(served) + 1
      /\ served'[Len(served')].msg \in {"SwitchCommand", "ButtonCommand"}
      /\ FindByKey(served'[Len(served')].key) = NoEnt)
     => pc' = "serve"]_vars

\* The payload buffer of a request is freed once it has been handled: no
\* heap is held between two requests.
PayloadBuffersFreed == heap = 0

\* A command is only ever applied through the API of an entity of its own
\* domain: the RPC thread never calls a NULL or foreign device API.
CommandsReachOwnDomain == pc # "fault"

\* A connection the client closed (FIN) is eventually closed by the server,
\* which goes back to accepting connections.
PeerCloseReturnsToListen ==
  (pc = "serve" /\ peer = "fin") ~> (pc = "listen")

=============================================================================
