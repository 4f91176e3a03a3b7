# A TLA+ model of the Zephyr ESPHome native-API server

This directory holds a verification project for the firmware under `src/`. The firmware is a Zephyr
implementation of the ESPHome native API: a home-automation controller connects over TCP, and the
device answers protobuf requests about its entities (switches, buttons, sensors). The project has:

- TLA+ modules that model the firmware's components;
- TLC configurations that model-check those modules on small instances;
- TLAPS proofs of the properties that matter most, for every value of the constants.

Paths below are relative to `src/subsys/net/lib/esphome/` unless they start with `src/`.

## 1. The system

### Threads

| thread | code | what it does |
|---|---|---|
| RPC thread | `esphome_rpc_service`, `components/api/rpc/esphome_rpc.c:8397-8507`, started by `K_THREAD_DEFINE` in `components/api/service.c:48` | Accepts one connection at a time. For each request it calls `esphome_read_request`, and closes the socket on the first nonzero return. |
| sensor thread | `esphome_sensor_service`, `components/sensor/sensor.c:14-25` | Once a second, sends a `SensorStateResponse` for every sensor. It writes on `rpc_data->socket` with no lock, whatever connection that socket is. |
| OTA thread | `esphome_ota_service`, `components/ota/esphome_ota.c:307-418` | Accepts OTA connections and runs the flash-update protocol (`esphome_ota_run`, lines 199-305). |
| esphome thread | `esphome_service`, `components/esphome.c:22-29` | Calls the user actions `on_boot` and `on_loop`. |
| system work queue | `wifi_connect_work_cb` (`components/wifi/wifi.c`) and the OpenThread callbacks | Reconnect and SRP registration. |

### Components: state, operations and interactions

- **Connection loop** (`esphome_rpc.c` 7833-8507).
  - *State:* the listening socket, and `rpc_data->socket`, the current connection, which the sensor thread shares.
  - *Operations:* `zsock_accept`; `esphome_read_header`, which reads the marker byte and two varints; `esphome_read_request`, which reads the header, `k_malloc`s the payload, reads it and dispatches on the message id; `esphome_rpc_send`.
  - *Error paths:* any nonzero return closes the connection. That includes application errors, `-ENOTSUP` for an unknown id, and `-ENOMEM`.
  - *Hard behaviours:*
    - a zero-byte `recv` (the peer's FIN) makes `esphome_read_header` loop for ever;
    - the payload buffer is never freed;
    - send errors are ignored.
- **Dispatch and generated codecs** (`esphome_rpc.c` 2043-7752).
  - `esphome_<Msg>Read` unpacks with the `k_malloc` allocator (`-EIO` if that fails), then calls `<Msg>Cb` and frees the unpacked message.
  - Every `<Msg>Cb` the application does not define is a `__weak` default that returns -1.
  - `<Msg>Write` computes the size, `k_malloc`s a buffer (`-ENOMEM` if that fails), encodes the header, packs and sends. The zero-payload writes use a stack buffer instead.
- **API callbacks** (`components/api/api.c`).
  - Hello, Connect (checks the password but enforces nothing), DeviceInfo.
  - ListEntities (one `list_entity` per entity, then Done).
  - SwitchCommand and ButtonCommand (look up the key, then call the device's API).
  - LightCommand (`-ENOTSUP`), the Subscribe* callbacks (do nothing), Ping.
  - Disconnect (replies, then returns `-ENOTCONN` so that the loop closes the connection).
- **Entity registry** (`components/api/entity.c`).
  - *State:* `esphome_entity_init` computes each entity's key as `fnv1_hash(object_id)`.
  - *Lookup:* `find_device_entity_by_key` returns the *device* of the first entity with that key, whatever its domain.
- **GPIO switch** (`components/switch/gpio.c`).
  - *State:* `data->state` starts at `-EINVAL`.
  - *set_state:* writes the pin and stores the state only if the write succeeded.
  - *get_state:* returns the stored state.
- **H-bridge switch** (`components/switch/hbridge.c`): `set_state` pulses one of two pins for `wait_time`, clears both, then stores the state. Any pin write can fail in between.
- **Sensors**: the sensor thread above; `temperature.c` and `timestamp.c` are the read functions.
- **Buttons** (`components/button/template.c`, `app/src/main.c`): `on_press` is a user callback.
- **OTA** (`components/ota/esphome_ota.c`).
  - *Protocol:* magic, version, features, auth, size, MD5, then 1024-byte chunks written with `flash_img_buffered_write`.
  - *Acks:* a `CHUNK_OK` per 8192 bytes.
  - *Commit:* `boot_request_upgrade`, then `UPDATE_END_OK`, the final ack and a reboot.
  - *Setup:* `flash_img_init` runs once, before the accept loop.
- **WiFi** (`components/wifi/`): a delayed work item tries the credentials round-robin. A failed connect, or a disconnect with a nonzero status, reschedules it after 15 s.
- **OpenThread SRP** (`components/openthread/`): registers the SRP service once, when the role changes.

## 2. Modules

| module | models | kind |
|---|---|---|
| `ApiServer` | the RPC thread (accept loop, `esphome_read_header`, `esphome_read_request`, the dispatch cases the application implements, the weak defaults, `-ENOTSUP`), the `api.c` callbacks, `find_device_entity_by_key`, the GPIO switch driver, and the sensor thread writing on the shared socket. The client is the environment: it may send well-formed or broken frames, close (FIN, possibly in the middle of a frame) or reset. | state machine |
| `FrameCodec` | the byte level of the same loop: `varint_encode`, `encode_header`, the header size and layout of a `<Msg>Write`, `esphome_read_header`, `read_decode_varint` with its 64-bit accumulator, its overflow check and the casts, and the payload read of `esphome_read_request`. | state machine, recursive encoder (TLC only) |
| `OtaTransfer` | the OTA thread: `esphome_ota_service` and every step of `esphome_ota_run`, with the one flash context across connections, `size_t` arithmetic, a client that may drop at any step and a device that may reset. | state machine |
| `HBridgeSwitch` | `set_state` of the H-bridge driver as its four pin writes and the sleep, any write failing, under `SwitchCommandRequestCb`, with the latching relay as the physical state. | state machine |
| `WifiReconnect` | the WiFi work item (`wifi_connect_work_cb`, `wifi_disconnect`, `wifi_connect`, `wifi_credentials_get_next`) and the net_mgmt event handler, against a driver that accepts, refuses or drops. | state machine with fairness |
| `OtaSession` | what the OTA service promises the uploading tool, without chunks, buffers or `size_t`: bytes taken in order only when no `CHUNK_OK` is owed, one `CHUNK_OK` per block, `RECEIVE_OK` only for a whole acknowledged image, the slot marked only after it | abstract specification |
| `ApiServerProofs`, `OtaTransferProofs`, `HBridgeSwitchProofs`, `WifiReconnectProofs` | the TLAPS proofs of invariants and action properties (and, in `WifiReconnectProofs`, the refinement of `WifiStation`) | proofs |
| `OtaTransferRefinement` | the TLAPS proof that `OtaTransfer` implements `OtaSession` | proofs |
| `WifiStation` | what the WiFi manager promises, without work item, event queue or handler thread: one connect request at a time, only while the station is down and a reconnect is owed, the credentials in round robin, success only with an accepted credential, never a disconnect of a station that is up | abstract specification |
| `MC*` | the TLC instances (constants that a `.cfg` cannot write: model-value sets, negative numbers) | instances |

### How ApiServer corresponds to the code

**State**

| variable | stands for |
|---|---|
| `pc` | where the RPC thread is: in `zsock_accept` (`"listen"`), serving requests (`"serve"`), spinning in `esphome_read_header`'s `do … while (ret == 0)` (`"spin"`), or crashed on a call through a wrong device API (`"fault"`) |
| `sock` | `rpc_data->socket` |
| `heap` | the `k_malloc` units held. Only leaked payload buffers stay allocated; every other allocation is transient and shows up through `Room`. A callback's response buffer is allocated while its unpacked request is still live (`ReplyFits`), so a request can unpack and still fail its reply with `-ENOMEM` after the switch was set. |
| `swState`, `pin` | each GPIO switch's `data->state`, and the level its pin is driven to |
| `sensorIdx` | the sensor thread's position in the `esphome_sensor_entity` section |
| `inbox`, `peer`, `sent` | the client: the frames it sent that the server has not read yet, how its end stands, and how many frames it sent on this connection |
| `served`, `out` | histories used by the properties: the requests dispatched, and the frames sent |

**Actions.** Each dispatch case is one action (`HelloRequestCb` … `ButtonCommandRequestCb`, and `RejectedRequest` for `LightCommand`, the weak defaults and an unknown id). Each covers the whole `esphome_read_request` call: header, `k_malloc` and payload read, unpack, callback and its `Write`, and the return code the service loop acts on (`Finish`). The error paths are actions of their own: `ReadHeaderEOF`, `ReadHeaderError`, `ReadFrameFailed`, `DecodeFailed`.

**Abstractions.** A frame is a record naming its dispatch case, key, state, password and whether it decodes; a payload is one heap unit; keys and passwords are model values. The bytes of a frame are `FrameCodec`'s subject.

### How FrameCodec corresponds to the code

- The wire is a sequence of byte values. `PeerWrite` puts a frame laid out as a `<Msg>Write` lays it out (`WriteFrame`: `HeaderSize`, `EncodeHeader` with `VarintEncode`, then the payload at `hdr_len`); `PeerSendRaw` puts a header whose length is any value of the accumulator, or noise (a wrong marker, an overlong varint, a truncated one). The peer then closes or resets.
- The reader's variables are the locals of the code: `val`, `result`, `bitpos` of `read_decode_varint`, `lenRaw`, `len`, `msgId` of `esphome_read_header`, and `data` of `esphome_read_request`. `phase` is its program counter. `RecvVarintByte` is one turn of the decode loop, including the `recv` error path whose `val` is the byte left over from the previous call (the uninitialized local, resolved to what the build leaves in that slot).
- The widths are scaled: a group is `G` bits under a continuation bit, the accumulator is `W` bits, and the header fields are cast to `T` bits. `MCFrameCodec` uses G = 3, W = 10, T = 5, so the overflow check sits at the fourth byte exactly as it sits at the tenth in the code (63 = 9 × 7; 9 = 3 × 3), and the fourth byte may add only its low bit.

### How OtaTransfer corresponds to the code

- `pc` is the step of `esphome_ota_run` (`magic` … `finalAck`) or of the service (`listen`, `stopped` when a setup call failed). `otaSize`, `total`, `sizeAck` are the `size_t` locals, computed modulo `Wrap = Radix^4`. `acks` counts the `CHUNK_OK` bytes sent on this connection. `slot` is the sequence of bytes the service's one `flash_img_context` has written since `flash_img_init`; a byte is `<<connection, position>>`. `upgrade` is the `boot_request_upgrade` mark.
- Every step of the protocol is one action that succeeds or fails as a whole (`Step`), and a failure returns to the accept loop without touching the flash context (`Fail`). `ReadChunk` and `SendChunkOk` are one turn of the chunk loop and of the acknowledgement loop. `Boot` (after the final ack, or `DeviceReset`) clears RAM and the upgrade mark.
- Sizes are scaled: a unit is 512 bytes, so a chunk is 2 units and a block 4.
- `FlashWrite` is the `flash_img_buffered_write` call of line 261: the bytes just read follow what the context holds.
- The refinement mapping `Phase(pc)` sends the service's steps to the session phases: the accept loop and `stopped` to `idle`, the handshake steps to `handshake`, `data` to `receiving`, `endOk` to `received`, `finalAck` to `committing`. `otaSize`, `total`, `acks` and `upgrade` are `size`, `received`, `acked` and `marked`.

### How HBridgeSwitch corresponds to the code

- `pc` is the step of `SwitchCommandRequestCb` and of `set_state` in it: `pulseOn`, `pulseOff` (the two writes of `esphome_switch_hbridge_gpios(dev, state, !state)`), `sleep`, `releaseOn`, `releaseOff` (the release), `respond`. `onPin`, `offPin`, `state` (`data->state`), `ret` and `reported` (`response.state`) are the code's; `relay` is the physical latch, moved by a coil energized alone (`Latched`, `CoilPull`).
- `PinWriteFails` is the early return of any of the four writes. `Reported` packs the `int` state into the protobuf bool.

### How WifiReconnect corresponds to the code

- `pending` is the delayable work item being scheduled (`k_work_schedule` on a scheduled item changes nothing: `Schedule`); `workPc` is where `wifi_connect_work_cb` is; `selected` is `wifi_data.selected`; `attempt` the credential of the last request; `link` the driver's station; `events` the net_mgmt events not yet handled, in order.
- `WorkConnect` is `wifi_connect` with `wifi_credentials_get_next` (`NextSelected`) and the refused-request path that reschedules. `HandleEvent` is `wifi_mgmt_event_handler` with both result handlers: a nonzero status reschedules, zero only calls the user hook. `DriverResult` and `LinkLoss` are the driver.
- Time is abstracted: the 1 s and 15 s delays are taken to outlast an attempt and the delivery of its events, so the work fires only when no attempt is in flight and no event is queued.
- The refinement mapping to `WifiStation`: `link` is `station`, `attempt` is `cred`, `selected` is `next`, and `retry` is `RetryOwed`: the work is scheduled or running, or an event with a nonzero status is queued (the handler will schedule it).

## 3. Runs

| run | cfg | expect | checks |
|---|---|---|---|
| `api_core` | `MCApiServer.cfg` | pass | `TypeOK`, `RepliesInOrder`, `SwitchStateMatchesPin` |
| `api_peer_close` | `MCApiServer_PeerClose.cfg` | violation | `PeerCloseReturnsToListen`, under `FairSpec` |
| `api_leak` | `MCApiServer_Leak.cfg` | violation | `PayloadBuffersFreed` |
| `api_domain` | `MCApiServer_Domain.cfg` | violation | `CommandsReachOwnDomain` |
| `ota_core` | `MCOtaTransfer.cfg` | pass | `TypeOK`, `AcksMatchBlocks`, `UpgradeSlotEndsWithImage`, `OtaRefinement`, `SessionTerminates` under `FairSpec` |
| `ota_stale_context` | `MCOtaTransfer_Stale.cfg` | violation | `UpgradeRequestsSentImage` |
| `ota_failed_commit` | `MCOtaTransfer_Commit.cfg` | violation | `FailedSessionNeverCommits` |
| `frame_codec` | `MCFrameCodec.cfg` | pass | `TypeOK`, `HeaderRoundTrip`, `WrittenFrameDispatched` |
| `frame_recv_error` | `MCFrameCodec_RecvError.cfg` | violation | `RecvErrorNeverDispatched` |
| `hbridge_core` | `MCHBridgeSwitch.cfg` | pass | `TypeOK`, `SuccessfulCommandTakesEffect`, `CoilsExclusiveUntilFailure` |
| `wifi_core` | `MCWifiReconnect.cfg` | pass | `CredentialInTable`, `ScheduledReconnectSucceeds` under `FairSpec`, `WifiRefinement` |
| `wifi_loss` | `MCWifiReconnect_Loss.cfg` | violation | `LossIsRecovered` under `FairSpec` |

Five more configurations state what the spec or the code's own comments promise and are found violated; they stand beside the runs above and are listed in the hazards of `PROJECT.json`:

- `MCApiServer_AppError.cfg` (`AppErrorKeepsConnection`): a command for an unknown key closes the connection, though the spec says an application error is not fatal.
- `MCApiServer_Report.cfg` (`ReportedStateMatchesPin`): after a failed first `set_state`, `get_state` returns `-EINVAL`, packed as `true` while the pin is low.
- `MCOtaTransfer_Room.cfg` (`ImageThatFitsIsAccepted`): after an aborted upload, an image that fits the slot is refused for want of room, because the flash context is never reset.
- `MCHBridgeSwitch_Coils.cfg` (`BothCoilsNeverDriven`): a failed release write leaves the off coil high; the next `set_state(1)` raises the on coil before it lowers the off coil, and both are driven.
- `MCWifiReconnect_Empty.cfg` (`CredentialInTable` with no credentials): `wifi_credentials_get_next` reads `credentials[0]` of an empty table.

### Bounds and why they are enough

- **ApiServer**: 2 connections, 2 client frames per connection, a heap of 3 units, 4 server frames per connection. That is a request after an error, a second connection after a leak, the three `-ENOMEM` paths (payload buffer, unpacked message, response buffer after a successful unpack), and replies interleaved with sensor frames.
- **FrameCodec**: every length the 10-bit accumulator can hold is offered as a raw header (so every varint length, the overflow byte and every truncation happen), ids at each varint boundary and at the top of the 5-bit cast, and payloads of 0 to 2 bytes. 420 thousand states.
- **OtaTransfer**: chunk 2, block 4, byte radix 2 (size_t wraps at 16), slot 8, sizes up to 10 (above the slot, so `-ENOMEM` happens), 2 connections and 1 reset. Images of one, two and three blocks, whole and partial, and an upload after an aborted one.
- **HBridgeSwitch**: up to 2 failing writes, at any of the four steps, over any number of commands.
- **WifiReconnect**: four credentials of which only the third is accepted, so the round robin skips refused ones and wraps; 3 faults (refused requests and lost links).

### What the passing runs check

- **`RepliesInOrder`**: on a connection the client did not reset, the frames the RPC thread sent are exactly the replies its callbacks write to the requests served, in order. Only the request that closed the connection may be unanswered, and only when its reply needs a `k_malloc`ed buffer. Sensor frames interleave but never stand in for a reply.
- **`SwitchStateMatchesPin`**: a GPIO switch whose state is known is driven to that level.
- **`HeaderRoundTrip`**: once the reader has a header of a frame a `Write` laid out, its length and id are the ones encoded, for every length of the accumulator and the ids at every boundary.
- **`WrittenFrameDispatched`**: a complete frame laid out by a `Write` is dispatched with its id and exactly its payload; it is never failed or misread, which needs the header size the writer computes to agree with the bytes the encoder puts.
- **`AcksMatchBlocks`**: whenever the acknowledgement loop has run dry, the `CHUNK_OK`s sent are the whole blocks received, or all the blocks once the image is in: none early, none missing, none from a wrapping `size_t` sum.
- **`SessionTerminates`**: every accepted upload ends, in the accept loop or a reboot.
- **`UpgradeSlotEndsWithImage`** (action property): when `boot_request_upgrade` runs, the last `ota_size` bytes of the flash context are this connection's image, byte for byte and in order. Writing the whole buffer instead of the bytes read breaks it.
- **`OtaRefinement`**: every behaviour of the service is a behaviour of `OtaSession` under the mapping above. Acknowledging a block one chunk late (`AckDueStrict`) breaks it.
- **`SuccessfulCommandTakesEffect`**: a SwitchCommand whose `set_state` returned 0 leaves both coils released and the relay, `data->state` and the response on the requested side, whatever failed before.
- **`CredentialInTable`**: every connect request uses an entry of the credentials table, over any number of failures and wraps.
- **`ScheduledReconnectSucceeds`**: once a reconnect is scheduled with the station down, the station comes up.
- **`CoilsExclusiveUntilFailure`**: until a pin write fails, the two coils are never driven together. A pulse that writes `state` to both pins (`PulseOffSameSide`) breaks it. Its unconditional form, `BothCoilsNeverDriven`, is violated (`MCHBridgeSwitch_Coils.cfg`).
- **`WifiRefinement`**: the work item, driver and handler implement `WifiStation` under the mapping above. Result handlers that test the status the wrong way round (`HandleEventInverted`) schedule the work on a connected station, whose `wifi_disconnect` then tears it down; the refinement check catches it.

### What the violation runs show

Each is a finding in `PROJECT.json`.

- **`api_peer_close`**: a client that closes its end leaves the RPC thread spinning in `esphome_read_header`; no other client is ever accepted.
- **`api_leak`**: every payload buffer leaks; the heap runs out and every reply that needs a buffer fails.
- **`api_domain`**: a command carrying another domain's key calls that device through the wrong API (NULL for a button).
- **`ota_stale_context`**: after an aborted upload the next complete one is written behind the old bytes, and that slot is marked for boot.
- **`ota_failed_commit`**: a session that fails after `RECEIVE_OK` leaves the upgrade request in place.
- **`frame_recv_error`**: a reset in the middle of a header makes `read_decode_varint` decode its uninitialized byte, and a request nobody sent is dispatched.
- **`wifi_loss`**: a link lost with reason 0 is never reconnected: nothing schedules the work again.

### Fairness and deadlock

- `ApiServer` and `OtaTransfer`: weak fairness of the RPC thread, respectively the OTA thread, only. Each is a kernel thread that runs whenever it is not blocked. Clients, the sensor thread and resets get none.
- `WifiReconnect`: weak fairness of the work queue (a due item runs), the driver's reporting of an attempt (every connect request completes), and the net_mgmt thread (every event is delivered). Link losses get none.
- `CHECK_DEADLOCK FALSE` is set where the system really stops: the RPC thread blocked on an idle client or after a fault, the OTA thread stopped after a failed setup, the frame reader spinning after a FIN, and a connected WiFi station with nothing to do.

## 4. Proofs

| module | theorem | statement |
|---|---|---|
| `ApiServerProofs` | `TypeCorrect` | `Spec => []TypeOK` |
| `ApiServerProofs` | `SwitchStateInvariant` | `Spec => []SwitchStateMatchesPin` |
| `OtaTransferProofs` | `AcksExact` | `Spec => []AcksMatchBlocks` |
| `OtaTransferProofs` | `OtaTypeCorrect` | `Spec => []TypeOK` |
| `HBridgeSwitchProofs` | `CommandTakesEffect` | `Spec => []SuccessfulCommandTakesEffect` |
| `HBridgeSwitchProofs` | `HBridgeTypeCorrect` | `Spec => []TypeOK` |
| `OtaTransferProofs` | `UpgradeImage` | `Spec => UpgradeSlotEndsWithImage` |
| `OtaTransferRefinement` | `OtaImplementsSession` | `Spec => OtaRefinement` |
| `WifiReconnectProofs` | `CredentialIndexInTable` | `Count # 0 => (Spec => []CredentialInTable)` |
| `WifiReconnectProofs` | `WifiImplementsStation` | `Count # 0 => (Spec => WifiRefinement)` |
| `HBridgeSwitchProofs` | `CoilsExclusive` | `Spec => []CoilsExclusiveUntilFailure` |

- **ApiServer**, from `ConstAssumption`: one lemma per action for `TypeOK`, with lemmas on `Send`, `Append` and `Receive`. `TypeOK /\ SwitchStateMatchesPin` is inductive: every step but a SwitchCommand leaves the switches alone (`SwitchesUntouched`), and `GpioSetState` writes both pin and state, or neither.
- **OtaTransfer**, from `OtaAssumption` (which requires `SlotSize + 2 * Block <= Wrap`: a slot is far below 4 GiB). `AcksMatchBlocks` alone is not inductive; `IInv` adds that the bytes received are among those the flash context took and never pass the slot, that nothing is counted before the chunk loop, and that in and after it `size_acknowledged = acks * Block` and `acks` never passes what is due (`Due`). The headroom is what keeps `size_acknowledged + Block` from wrapping. Lemmas on floor division (`FloorMul`, `FloorLe`, `MulMono`), on `Due` (`DueType`, `DueMono`), on the acknowledgement test (`AckBound`, `AckDueIff`) and one per action.
- **HBridgeSwitch**, from `HBridgeAssumption`: `IInv` adds `Pulsing` (each step of a `set_state` that has not failed leaves the pins where that step put them, and after the sleep the relay is on the requested side) and `Settled` at `respond` after success. It is needed because the property only speaks of the idle thread, and a failure earlier must not leave a coil that `CoilPull` can use to move the relay back.

- **`UpgradeImage`** adds `SlotTail` to `IInv`: the last `total` bytes of the flash context are `<<conns, 1>> .. <<conns, total>>`. `ReadChunk` keeps it because the chunk is the next `Requested` bytes of the image (`ChunkBytes`) and `FlashWrite` appends exactly them (`ReadChunkTail`); every other step leaves `slot` and `total` alone or resets `total` to 0. At `endOk`, `total = otaSize`, so the tail is the whole image.
- **`OtaImplementsSession`** rests on the same `IInv`: the initial state maps to `OtaSession!Init`, and one lemma per action maps each step to an abstract step or a stutter (`ReadSizeMaps` to `Announce`, `ReadChunkMaps` to `Receive`, `SendChunkOkMaps` to `Ack`, `SendReceiveOkMaps` to `Complete`, `RequestUpgradeMaps` to `Commit`, a failure to `Abort`, a boot to `Reboot`). The key fact is that, with `size_acknowledged = acks * Block`, the code's test `size_acknowledged + Block <= total` (or `< ota_size + Block` once the image is in) holds exactly when `acks < Owed(total, ota_size)` (`AckDueIff`, `OwedIsDue`).
- **WifiReconnect**: `IndexInv` (`selected` and the last request's credential are in `0 .. Count - 1`) is inductive for `Count # 0`. The hypothesis is needed: with no credentials the code reads `credentials[0]` of an empty table, as `MCWifiReconnect_Empty.cfg` shows.
- **`WifiImplementsStation`**, for `Count # 0` as well (with no credentials the round robin has no next entry). `RInv` adds to `IndexInv` the types and `Quiet`. `Quiet` says that the work runs only on a station that is down, with no event queued and nothing scheduled, and that an attempt in flight has the manager to itself. It also says that while the station is up, nothing is scheduled and every queued event reports success. The last conjunct is the one that keeps `wifi_disconnect` away from a connected station; it is inductive because a success event is queued only by a successful `CONNECT_RESULT`, which starts from an empty queue. Each action then maps to one abstract step or a stutter:
  - `WorkStart`, `WorkDisconnect` and `HandleEvent` are stutters. A nonzero event swaps a queued failure for a scheduled item, and a zero one changes nothing owed.
  - `WorkConnect` is `Request`; `NextSelectedMod` shows the code's wrap is `(sel + 1) % Count`.
  - `DriverResult` is `Result`, and `LinkLoss` is `Loss`.
- **`CoilsExclusive`**: `IInv` of the H-bridge gains `Clean`: before any failure, `ret` is `ok` and the pins that the current `set_state` has not yet written are released. So `pulseOn` raises one coil while the other is low, and `pulseOff` lowers or keeps low the one that is not requested.

Each `IInv` was checked with TLC on the run's instance before it was proved.

Only TLC checks:

- **Liveness** (`SessionTerminates`, `ScheduledReconnectSucceeds`, and the violated `PeerCloseReturnsToListen`, `LossIsRecovered`): the prover cannot handle fairness or ENABLED.
- **`RepliesInOrder`**: it rests on a recursive function and `SelectSeq`, and needs induction over sequences.
- **FrameCodec**: the encoder is a RECURSIVE operator and the decoder uses Bitwise, neither of which a proved module may reach. Rewriting them in closed form would not help: a round trip for every `G` and `W` needs the laws of `x^k` for a variable `k` (`2^(k+1) = 2 * 2^k`), and the SMT backend proves none of them. Without induction over `k` they cannot be derived either.

## 5. Plan

1. **`SharedSocket`**: compose the RPC, sensor and OTA threads over a file-descriptor table, to check the sensor thread writing on a closed and reused `rpc_data->socket`.
2. **`EntityKeys`**: `fnv1_hash` in 32-bit arithmetic and key collisions across domains (TLC only, Bitwise).
3. **`ApiConnection`**: an abstract connection loop (accept, request/response pairs, close) with `ApiServer` shown to refine it when the peer-close spin is excluded.

## 6. Not modelled

- **The generated codec bodies** (`Dump`, the `Read`/`Write` internals, protobuf-c): pure data conversion. Their control (allocation failure, decode failure, stack or heap buffer) is kept in `ApiServer`, and the framing bytes in `FrameCodec`.
- **The logger**, `wifi_status` and the WiFi hooks: output or user code only.
- **`esphome_service`'s user actions**: they keep no state.
- **The fake GPIO driver**: a test double; its failures are the `ok` choice of `GpioSetState` and `PinWriteFails`.
- **The sensor read functions**: no property tells a value apart.
- **OpenThread SRP**: a one-shot registration guarded by a flag, with nothing to interleave.
- **MD5**: `esphome_ota_read_md5` reads the digest and keeps it nowhere; the model reads and discards it likewise.
