# A TLA+ model of the ZCloud agent of ZCloud-WM

The repository is the SDK of a WinnerMicro Wi-Fi module with an IoT agent on top
of it, the *ZC* agent, which connects a device (the *module*, a microcontroller
behind a UART) to a cloud service and to clients in the same network. This
directory models the agent (its message queues, connection protocol, timers,
buffers, clients, configuration and firmware update, and the tasks that share
them) and what of the SDK it stands on: the kernel's scheduler, events and timers,
and the way from a Wi-Fi event through DHCP to the call that wakes the agent up.

## 1. The system

### Components, their state and their operations

| Component | Source (`src/App/Adapter/...`) | State | Operations |
|---|---|---|---|
| Message queues | `ZC/src/zc/zc_message_queue.c` | two rings for 3 buffer pointers each (`g_struRecvQueue`, `g_struSendQueue`) | `MSG_InitQueue`, `MSG_PushMsg`, `MSG_PopMsg` |
| Message buffers | `zc_message_queue.c`, `zc_protocol_controller.c` | one receive buffer, one client buffer, three send buffers, each `IDLE`, `FULL`, `SEGMENT_NOHEAD` or `SEGMENT_HEAD`; the retransmission buffer | `MSG_Init`, `MSG_RecvData`, `MSG_RecvDataFromCloud`, `MSG_SendDataToCloud`, `PCT_SendMsgToCloud` |
| Protocol controller | `ZC/src/zc/zc_protocol_controller.c` | `u8MainState`, `u8keyRecv`, `RandMsg`, session key, timer handles, `u8ReSendMoudleNum`, OTA progress | `PCT_Run` and the handlers it calls, `PCT_WakeUp`, `PCT_Sleep`, the timeouts |
| Timers | `ZC/src/zc/zc_timer.c`, `HF_SetTimer`/`HF_StopTimer`/`HF_timer_callback` | ten slots (status, type, first-interval flag) over ten OS timers | `TIMER_Init`, `TIMER_FindIdleTimer`, `TIMER_AllocateTimer`, `TIMER_StopTimer`, `TIMER_TimeoutAction` |
| Security engine | `ZC/src/zc/zc_sec_engine.c` | session key and IV (in the controller) | `SEC_Encrypt`, `SEC_Decrypt` |
| Module manager | `ZC/src/zc/zc_moudle_manager.c` | UART assembly buffer | `ZC_AssemblePkt`, `ZC_Moudlefunc`, `ZC_RecvDataFromMoudle`, `ZC_DealSessionOpt` |
| Client manager | `ZC/src/zc/zc_client_manager.c` | four client slots, the busy client | `ZC_ClientConnect`, `ZC_ClientDisconnect`, `ZC_RecvDataFromClient`, ... |
| Configuration | `ZC/src/zc/zc_configuration.c`, flash part of the adapter | `g_struZcConfigDb` and its copy in flash | `ZC_ConfigPara`, `ZC_Store*` |
| Events, broadcast | `ZC/src/zc/zc_cloud_event.c`, `zc_bc.c` | none / broadcast counter | message builders, `ZC_SendBc` |
| Adapter and tasks | `zc_hf_adpter.c` | the sockets, the OS timers, two tasks | `HF_Cloudfunc`, `HF_CloudRecvfunc`, `HF_ConnectToCloud`, `HF_SendTcpData`, `HF_FirmwareUpdate`, `HF_WakeUp`, `HF_Sleep` |
| System task | `src/Src/Sys/tls_sys.c`, `src/Src/Network/lwip1.4.1/ethernet.c` | its message queue, where it is in a sequence of lwIP calls | `tls_sys_task`, `sys_net_up`, `sys_net_down`, `tls_auto_reconnect`, status callbacks |
| DHCP client, interface | `src/Src/Network/lwip1.4.1/core/dhcp.c`, `netif.c` | client state, tries, timeouts, offered address; UP flag and address | `dhcp_start`, `dhcp_recv`, `dhcp_fine_tmr`, `dhcp_coarse_tmr`, `netif_set_up`, ... |
| Kernel | `src/Src/OS/uCOS-II/source/os_core.c`, `os_sem.c`, `os_mbox.c`, `os_q.c`, `os_time.c`, `os_task.c` | ready table, task control blocks, event control blocks, nesting counters | pend, post, abort, accept, delete, delay, suspend, resume, lock, tick, interrupts |
| OS timers | `src/Src/OS/uCOS-II/source/os_tmr.c` | timer wheel, free list, time, semaphore | create, start, stop, delete, tick, the timer task |
| Device side | `AC/src/ac_api.c`, `AC/src/ac_hal.c`, `src/App/user/*.c` | device status, key scan, two-copy flash record | message parsing and building, user task |
| Firmware update | `src/Src/Common/fwup/wm_fwup.c`, fast write of `src/Src/Drivers/flash/wm_fls.c` | update session, wait list, received and written length, sector cache; in flash two image slots and the boot footer | `tls_fwup_enter`, `tls_fwup_exit`, `tls_fwup_request_sync`, `fwup_scheduler`, `tls_fls_fast_write` |

The rest of the vendored and hardware code (TCP and sockets of lwIP, FreeRTOS,
tropicssl, drivers, boot code) is outside the model; where the agent uses it (a TCP
connection, the Wi-Fi driver) the model states what the agent relies on and marks it
external. `Pct` uses the OS timers as slots that may expire; `OsTimer` models what is
behind them.

### Who runs when

uC/OS-II runs the task with the highest priority (the smallest number) that is
not blocked:

| Task | Priority | What it does for the agent |
|---|---|---|
| update engine (`fwup_scheduler`) | 26 | handles update requests one after the other; waits for a message and for the flash |
| device (`AppTask`) | 31 | answers events, sends reports and, where a device does so, update messages (`ZC_RecvDataFromMoudle`) |
| user task (`UserTaskProc`) | 50 | takes the messages about the link: `HF_WakeUp` and `HF_Sleep` |
| cloud task (`HF_Cloudfunc`) | 59 | `PCT_Run`, then reconnects or sends one queued message, then broadcasts; blocks in `gethostbyname()`, `connect()`, `send()` and its delay |
| receive task (`HF_CloudRecvfunc`) | 60 | selects on the cloud, listening and client sockets, calls `MSG_RecvDataFromCloud`, `ZC_RecvDataFromClient`, or `PCT_DisConnectCloud` after a loss |
| timer task of the OS | 61 | `HF_timer_callback`, with the scheduler locked: nothing overtakes a callback |

They share every structure of the table above without a lock (the mutex in
`HF_timer_callback` guards the callback against itself only). So each task is
overtaken by the ones above it between any two instructions and overtakes the
ones below it.

`HF_WakeUp` and `HF_Sleep` do not alternate. `HF_Sleep` runs when Wi-Fi is lost, but
`HF_WakeUp` runs on every NET_UP (`user_main.c:175`), and the interface comes up again
(`netif.c:455`) without a loss of Wi-Fi whenever DHCP loses its address to a NAK
(`dhcp.c:197`) or to the end of the lease (`dhcp.c:413`) and then gets another one:
`netif_status_changed` (`ethernet.c:29`) tells nobody that it went down. `NetLink` has these
steps; in `Pct`, `SendPath` and `ClientManager` therefore `WakeUp` comes to an agent that
sleeps or is awake, in any state.

### What is hard here, and what makes each part correct

| Part | Hard because | Correct when |
|---|---|---|
| Connection protocol | Wi-Fi goes down in the middle of a handler; messages of an earlier connection arrive late; three tasks notice the same loss | a session rests on this connection's random number; a loss leads to a new attempt; no handshake waits for ever |
| Timers | ten slots for all; handles outlive their timers, and timers their handles; errors of `HF_SetTimer` are dropped | every wait of the controller has a running timer, and a handle never points at somebody else's |
| Sockets | closed by three tasks; descriptors are given out again; the link comes up without having gone down | `u32Socket` never names a closed descriptor; no client's socket and no listener is lost |
| Event delivery | the device answers inside the call, late, or never | the next event gets its turn; retransmissions end |
| Framing | TCP and the UART cut the stream anywhere; announced lengths may be anything; buffers are emptied by other tasks | copies stay in the buffer; a message ends where its header says |
| Clients | one buffer for four clients; a client is lost in the middle of a message | bytes of two clients never make one message |
| Queues | wrap-around, full, empty, reinitialised | a bounded FIFO |
| Firmware update | power loss at any moment; sessions given up and restarted; two tasks with one session | the device boots from an image that was checked |
| Send buffers | `MSG_Init` from five places while a buffer is popped, encrypted or inside a blocking `send()` | each buffer is queued once, no message of an old connection goes out on a new one |
| Configuration | two tasks store without a lock around the record; one sector, erased before it is written; addresses that stopped working | flash follows memory, an old token never returns, the agent finds the cloud again |
| System task, DHCP | Wi-Fi events overtake a sequence of calls; lost, late and refused answers; the application hears of changes through side effects | up means an address; the agent is awake when the link is usable; nobody stops trying |
| Kernel | interrupts between "enter the waiting list" and "switch"; a post, a timeout and a suspension of the same task | no token is lost or doubled, no wakeup is lost, a timeout ends a wait |
| OS timers | callbacks change the list that is being walked; the time wraps | each timer goes off in the tick it was set for |

`PROJECT.json` lists the hazards one by one, at their lines.

## 2. Modules

| Module | Models | Extended by |
|---|---|---|
| `MsgFifo` | what the queues promise: a bounded FIFO | |
| `MsgQueue` | the ring of buffer pointers, which implements `MsgFifo` | `MCMsgQueue`, `MessageProofs` |
| `Pct` | protocol controller, timers, cloud and receive task, Wi-Fi, device | `MCPct`, `PctProofs` |
| `RecvFramer` | `MSG_RecvData` | `UartFramer` |
| `UartFramer` | `ZC_AssemblePkt`, `ZC_Moudlefunc` | `MCUartFramer`, `MessageProofs` |
| `ClientManager` | clients of the local network | `MCClientManager`, `ClientManagerProofs` |
| `FirmwareUpdate` | update messages, update engine, sector cache, boot footer | `MCFirmwareUpdate`, `FirmwareUpdateProofs` |
| `SendPath` | send buffers and queue between the cloud task and all others | `MCSendPath`, `SendPathProofs` |
| `ConfigStore` | configuration in memory and in flash, the choice of the cloud's address | `MCConfigStore`, `ConfigStoreProofs` |
| `NetLink` | Wi-Fi events, system task, DHCP client, user task | `MCNetLink`, `NetLinkProofs` |
| `Kernel` | scheduler, events, delays, suspension, interrupts of uC/OS-II | `MCKernel`, `KernelProofs` |
| `TmrCountdown` | what the OS timers promise: counting down together, expiring in time | |
| `OsTimer` | the timer wheel, which implements `TmrCountdown` | `MCOsTimer`, `KernelProofs` |

Operators named `Mut...` stand next to the definition they are a mutated form
of. No specification uses them: with one in the place of the original, the
property it is listed with in `PROJECT.json` fails, which shows that the
property depends on that piece of code.

### MsgQueue

`PushMsg`, `PopMsg` and `InitQueue` are the three functions. The ring has one
node more than it holds messages: it is full when the node after the tail is the
head and empty when they are the same; no count is kept. `Contents` reads
the queue off the ring and is the refinement mapping to `MsgFifo`. The functions
are atomic in the model; the code pushes and pops from several tasks without a
lock; `SendPath` models what the tasks do to the send queue.

### Pct

Variables and code: `state` is `u8MainState`, `keyRecv` is `u8keyRecv`, `timer`
the slots of `g_struTimer`, `handle` the five timer handles of the controller
(`u8ReconnectTimer`, `u8AccessTimer`, ...), `resend` is `u8ReSendMoudleNum`,
`rbuf` the receive buffer with its queue entry, `sock` is `u32Socket` (0 stands for
`PCT_INVAILD_SOCKET`). `open` is the TCP/IP stack's view, `cloudPc` and `recvd` are
where the two tasks are, and `auth` is a history variable: what this connection's
random number has vouched for.

| Actions | Code |
|---|---|
| `RunIdle`, `ConnectCloud`, `PopRecv`, ... (`Run`) | `PCT_Run` up to the point where a handler has taken its input |
| `SendCloudAccessMsg1`, `RecvAccessMsg2`, `RecvAccessMsg4`, `HandleEvent` | the rest of the handlers |
| `CreateSocket`, `ConnectOk`, `ConnectFail` | `HF_ConnectToCloud` around `gethostbyname()` and `connect()` |
| `AfterRun` | the rest of a turn of `HF_Cloudfunc`, with its disconnection branch |
| `Recv`, `RecvDataFromCloud`, `RecvClosed` | `HF_CloudRecvfunc`: `recv()`, and what follows it |
| `TimerCallback` | `HF_timer_callback` with `TIMER_TimeoutAction` |
| `WakeUp`, `Sleep` | `HF_WakeUp`, `HF_Sleep` with `PCT_WakeUp`, `PCT_Sleep` |
| `DeviceMessage` | `ZC_RecvDataFromMoudle` |

Messages are abstracted to their code, whether the CRC is right, and whose random
number they carry. `recv()` may deliver every such message, something that does not
decrypt, or the end of the connection, at any time; a message that was read or
buffered before a reconnection becomes `stale`.

Assumptions on granularity: a handler is split once, between taking its input and
its effects, which is where it calls into encryption, the send queue and the
trace; other places at which it could be overtaken are not modelled. The device
task runs inside the call that sends it an event, or later. `closesocket()` does
not block. Blocking in `send()` at the end of a turn equals being idle for the
controller. The `REGISTER` timer never runs, because `HF_WakeUp` stops it in the same
call that sets it. `SetTimer` has both errors of `HF_SetTimer`, no idle slot and no OS
timer. Two OS timers are never taken for one: that a late `TIMER_StopTimer` deletes an OS
timer which somebody outside the agent has got since is not modelled. A repeated `WakeUp`
keeps socket and timers, as the code does: `HF_ConnectToCloud` then overwrites `u32Socket`,
and the socket it named stays open. The repository's device program never sends the two
codes (`ZC_CODE_REGSITER`, `ZC_CODE_EQ_BEGIN`) that would start a registration.

### RecvFramer and UartFramer

`RecvData(b, data)` is `MSG_RecvData` as a function on the buffer, one operator per
case of its `switch`, with every `memcpy`. `Recv` feeds it every piece of every
length; `uart_framer` checks it inside the larger module, and the proofs are about
it alone. `since` (the bytes since the buffer was idle) and `extent` (the end of the
farthest write) are history variables. `Release` is every place that empties the
buffer, at any time. `UartFramer` adds the magic number, the length left over and the
recursion of `ZC_Moudlefunc`, one level per step. Nothing in this build calls
`ZC_Moudlefunc`: the device program hands its messages over directly. The module is about
the function that a device on a UART would use.

### ClientManager

The slots, the busy client and the state of `g_struClientInfo`; `from` is whose bytes
are in the client buffer. The receive task is split after `listen()`, `recv()` and
`accept()` and while a message is handled. Wi-Fi and the cloud task's `MSG_Init` may
run between any two steps. `bind()` is assumed to fail while another socket listens
on the port. `EnterInit` and `LeaveInit` are the reconnections of the cloud task: `PCT_WakeUp`
wakes the client manager in PCT_STATE_INIT only, and a repeated one then finds it with a
listener open and clients connected.

### FirmwareUpdate

`ota` is `struOtaInfo`, `gsid` is `g_u32session_id`, `fw` is `struct tls_fwup`, `list` and
`started` are the wait list and the engine's message queue, `cache` the sector cache;
`footer` and `good` are the flash: the slot the boot footer names, and the slots
whose contents passed the check and were not written to since.

| Actions | Code |
|---|---|
| `FileBegin`, `Chunk`, `ChunkRefused`, `End` | `PCT_HandleOta...`, `PCT_ModuleOta...`, `HF_FirmwareUpdate...`, `tls_fwup_enter`, `tls_fwup_exit` |
| `Request`, `RequestRefused`, `StartEngine`, `Return` | `tls_fwup_request_sync`, `tls_fwup_request_async` |
| `Take`, `HandleEnded`, `HandleBytes`, `HandleHeader`, `Written`, `VerifyFails`, `Verify`, `EraseFooter`, `WriteFooter`, `Complete` | `fwup_scheduler`, cut where it waits for the flash |
| `PowerLoss` | at any moment; RAM is lost, the flash stays |

Assumptions: images (and one more chunk) fit into their slot and data files aim
behind the slots or beyond the flash, none of which the engine checks; the sector
cache can be allocated; `tls_sys_reset`, which lets the watchdog expire after 0x100
ticks, resets at once; the busy test of `tls_fwup_enter` and its critical section are
one step. Contents are not modelled: signature and checksum are choices.

`Tasks` is the set of tasks that send update messages. The repository's programs
leave that to the cloud task, so the runs use `{"cloud"}`; the agent also takes
update messages from the device (`zc_moudle_manager.c:194`). With
`Tasks = {"cloud", "module"}` TLC finds that `RequestReturns` and `BootSafe` fail:

* a request appended while the engine handles the last one is never handled, as
  `dl_list_for_each_safe` has read the successor already and the list was not
  empty; its task, and every later one, waits for ever;
* an END between another task's `dl_list_add_tail` and the engine's start passes
  the busy test of `tls_fwup_exit`; a new session then clears `program_base`,
  `total_len` and the header while the engine waits for the flash, the empty image
  has the checksum of the cleared header, and a footer with base 0 is written.

Before a device program that updates itself is added, both need a fix.

### SendPath

`buf` and `queue` are `g_struSendBuffer` and `g_struSendQueue`; each message carries the
connection it was made for and its number (`num` counts those accepted), so that the
properties can speak of old connections and of order. `cloud` is the cloud task: a turn
is the program `todo` of the operations its handler performs (`Handlers` translates the
handlers of `PCT_Run`), each a step, and the Wi-Fi task may come between any two.

| Actions | Code |
|---|---|
| `RunIdle`, `Handle`, `ConnectCloud`, `ConnectOk`, `ConnectFail` | `PCT_Run` and `HF_ConnectToCloud` |
| `Encrypt`, `PushMsg`, `SendFail` | the two halves of `PCT_SendMsgToCloud`, or its failure |
| `TakeKey`, `RestartHeart`, `SetState`, `HandleMoudleMsg`, `Refuse` | what the handlers do around it |
| `ReconnectCloud`, `PopMsg`, `StartSend`, `SendDone` | the rest of a turn: `PCT_ReconnectCloud`, `MSG_SendDataToCloud`, `send()` |
| `RecvClosed`, the timeouts, `WakeUp`, `Sleep` | the other tasks, of which each may call `MSG_Init` |

In DISCONNECT_CLOUD the bookkeeping may break: `MSG_Init` has freed the buffer that
`send()` works on, a heartbeat takes and queues it, and the end of the send marks it idle.
`PCT_ReconnectCloud` and `HF_Sleep` repair it with their `MSG_Init`, unless `HF_WakeUp` comes to
an awake agent first: it goes on to ACCESS_NET without either. The history variable `skipped`
marks the time from such a call to the next reconnection or `HF_Sleep`, and the four safety
properties except it, and nothing else: an `HF_WakeUp` in any other state, with messages of
the old connection in the queue or a `send()` under way, is within what they claim. `BufferFreed`
holds without the exception. `timer` has "stale" for access timers that no handle names any
more. Assumed: no LAN client that does not take
its data blocks the device task in `send()` while the cloud task is inside
`PCT_SendMsgToCloud` (`zc_protocol_controller.c:1120`); both would take the same buffer,
and `QueueSound` fails without the assumption.

### ConfigStore

`ram` and `flash` are `g_struZcConfigDb` and its sector, as a first page ("head": switches,
token, cloud name) and a second ("tail": server address). `job` is where each of the two
tasks is in its store; `tls_fls_write` is cut at each access to the flash and at its
semaphore (`Acquire`, `CopyHead`, `CopyTail`, `Erase`, `WritePage0`, `WritePage1`, `Release`,
`WriteFails`), `ZC_ConfigPara` before its assignment. `PowerLoss` comes between any two
steps; `Boot` is `HF_Init` with `HF_ReadDataFromFlash`. `ConnectOk`, `ConnectFails` and
`ResolveFails` are `HF_ConnectToCloud`, with its count of failures and its fallback.

### NetLink

`sysPc` is where the system task is between two calls of lwIP, each of which is a step
of the TCP/IP thread; `dhcp` is the client with the request the server has got and the
answer in the mailbox. `event` is the Wi-Fi event of which the system task has been
told and the user task not yet. The functions of `dhcp.c` keep their names; `Timeout...`
and `GiveUp` are the branches of `dhcp_timeout`, `Recv...` those of `dhcp_recv`.
`JoinOk`, `JoinFails`, `Disconnect`, `Connect` and the `Reply...` actions are external: the
driver and the server. Assumed: the queues have room (the code drops the result of
`tls_os_queue_send`; they hold 20 messages), a DHCP message that cannot be allocated
counts as lost, and two random transaction identifiers differ.

### Kernel

A critical section is a step. `Several` says which sets of events each task may call `OSEventPendMulti` with;
`EventTypeError` is its return from the middle, on an event that was deleted under it, which leaves
`OSTCBStat` and `OSTCBEventMultiPtr` as they are. (`OSTCBStatPend` and `OSTCBEventPtr` it leaves
too, but nothing reads them outside a pend call; the variables `pend` and `eptr` keep a
fixed value there. Of `OSTCBEventMultiPtr` the model keeps whether it is null: a later post
follows the pointer to the array of the earlier call, which is assumed to be intact.) A service that
waits has three: entering the waiting lists, `OS_Sched`, and what follows when the task runs
again (`Wake`); a service that readies a task has two. `OSIntEnter`, `OSIntExit`, `TickStart` and `TickTask` (one task
of the loop of `OSTimeTick`, which enables interrupts in between) come wherever interrupts are
enabled, and services run in them. Semaphores, mailboxes and queues are one kind of event
with a limit. `OSEventPendMulti`, `OSQPendAbort`, `OSSemSet`, deletion, suspension and the
scheduler lock are there; mutexes, flags, memory partitions, and the deletion of tasks are
compiled out. `balance` is a history variable, posts minus takes.

### OsTimer

`tmr` holds the timers, the spokes and the free list with their pointers. Services take
the scheduler lock, and so does the walk: a service is a step and comes in
no walk, the tick anywhere. `StartWalk`, `Visit` and `EndWalk` are the body of
`OSTmr_Task`. A callback does what `HF_timer_callback` can do: nothing, restart its
timer, or set another one and then delete its own. `Chain` is the list that begins at a
timer, as the least set that holds it and is closed under `next`. `Left` is the refinement
mapping to `TmrCountdown`. `OS_ARG_CHK_EN` is 0 and `tls_os_timer_create` the only creator, so a
timer has a period of at least a tick and no delay of its own.

## 3. Runs

Some invariants are conjunctions of named parts, given in brackets; each part is
defined and explained on its own in its module.

| Run | Checks | Shows |
|---|---|---|
| `msg_queue` | `RingConsistent`, `RefinesFifo` | the ring implements the bounded FIFO (933 states) |
| `pct_safety` | `TypeOK`, `SessionAuthentic`, `SocketUse`, `TimersSound` (`ReconnectArmed`, `HandshakeTimed`, `HeartAlive`, `EventTimed`, `SlotLeft`) | the session is authentic, the socket the agent's own, and every wait has its timer, under every interleaving (about 3,087,000 states) |
| `pct_live` | `Reconnects`, `HandshakeEnds`, `EventsDrain` | under fair scheduling nothing gets stuck (about 144,000 states) |
| `uart_framer` | `UartSound` (types, `WithinBuffer`, `PacketWhole`), `Framed`, `Returns` | messages are framed right for every cut, only whole packets reach the agent and the recursion ends, resets included (about 260,000 states) |
| `client_manager` | `SocketsAccounted`, `OneSender` | no client's socket and no listener is lost, no message is mixed (about 122,000 states) |
| `firmware_update` | `BootSafe`, `UpdateSound` (types, `OffsetsAgree`, `WritesAimed`), `RequestReturns` | updates and power losses leave a bootable device, where one task updates (about 74,000 states) |
| `send_path` | `BuffersSound` (types, `QueueSound`, `FullQueued`), `SendStable`, `NoStaleMessage`, `InOrder`, `BufferFreed` | send buffers survive `MSG_Init` at any moment, unless `HF_WakeUp` skips a reconnection (about 492,000 states) |
| `config_store` | `StoreSound` (types, `PagesClean`, `Persisted`), `TokenNeverBack`, `FindsCloud` | the configuration survives two writers and a power loss (about 1,389,000 states) |
| `net_link` | `LinkSound` (types, `UpHasAddr`, `TriesOn`), `UserTold`, `ComesUp`, `Rejoins`, `LeaseEnds` | from the Wi-Fi event to the agent nothing is forgotten (about 167,000 states) |
| `kernel` | `EventsSound` (types, `NoTokenWaits`, `ListsMatch`), `TokensConserved`, `HighestRuns`, `NoLostWakeup`, `SuspensionHolds`, `TimeoutEnds` | the kernel's events under interrupts, the tick and deletion (about 319,000 states) |
| `os_timer` | `WheelSound` (with types), `WalkReachesDue`, `OnTime`, `RunningEnds` | the wheel implements timers that count down (about 568,000 states) |

One run shows where the code disagrees with what it says of itself, and TLC violates
its statement: `client_listen`. Wi-Fi goes down and up while a client's message is
handled; `ZC_SetClientFree` overwrites WAKEUP with IDLE, the state in which, says the
comment at `zc_client_manager.c:159`, the agent waits for clients, and the agent no
longer listens.

### Disagreements the models contain, without a run of their own

The properties above except these cases by name, or hold in spite of them:

* `zc_timer.c:100`: Wi-Fi goes down while Msg1 is being sent and comes up again; the
  access timer that the handler then sets survives into the next session and ends
  it. A heartbeat timer can survive in the same way (`zc_protocol_controller.c:80`).
* `user_main.c:175`, `zc_hf_adpter.c:767`: a NET_UP without a loss of Wi-Fi wakes an agent
  that is awake. From there:
  - `zc_hf_adpter.c:560`: the next connection overwrites `u32Socket`; the socket it named is
    leaked, one of the stack's eight each time.
  - `zc_protocol_controller.c:229`: the next Msg1 sets an access timer without stopping
    the one that runs, which later ends the new session. Ever more NET_UPs within its 120
    seconds would use up the slots; see `MaxStale` below.
  - `zc_message_queue.c:315`: when the agent was in DISCONNECT_CLOUD, a buffer may be queued
    twice, or marked idle while it is queued, and a message goes out twice, out of order
    or on the wrong connection, until the next reconnection (`skipped` in `SendPath`).
  - `zc_client_manager.c:153`: when it was in PCT_STATE_INIT, the client manager goes to
    WAKEUP with its listener open; `bind()` fails from then on, WAKEUP stays, and only the busy
    client is served until Wi-Fi goes down.
* `zc_hf_adpter.c:393`: when Msg1 is overtaken by Wi-Fi in this way (`zc_timer.c:100`), the
  receive task puts `PCT_INVAILD_SOCKET` into its descriptor set.
* `zc_moudle_manager.c:311`: after a packet that came in two pieces `ZC_Moudlefunc` goes
  on with all of the second piece instead of what is left of it.
* `zc_hf_adpter.c:262`: a chunk that the engine refuses is acknowledged, as errors are
  positive and the adapter tests for negative ones (`ack.gap` in `FirmwareUpdate`).
* `zc_hf_adpter.c:235`: after a file that was begun twice, END is acknowledged but leaves
  the session open, and no update is possible until a restart.
* `wm_fls.c:228`: every failure in `tls_fls_write` but that of the allocation releases
  `fls_lock` twice, which lets two tasks into it from then on (`failed` in `ConfigStore`).
* `zc_hf_adpter.c:118`, `zc_protocol_controller.c:908`: a failed store is not noticed;
  RESET_NETWORK restores the defaults in memory only.
* `dhcp.c:1627`: an OFFER without server identifier stops the timeout of a client that
  then waits for an offer (`deaf`); only another OFFER or a new join gets it out.
* `tls_sys.c:75`: `dhcp_start` fails for lack of memory; nothing tries again before the
  next join. `ComesUp` excepts these two.
* `dhcp.c:1603`: a late ACK that is handled after Wi-Fi is lost brings the interface up
  and wakes the agent without a link.
* `os_task.c:832`: a task in `OSEventPendMulti` is suspended, one of its events is posted,
  it is resumed: `OSTaskResume` takes it to be waiting still. Nothing here calls
    `OSEventPendMulti`; `NoLostWakeup` excepts it.
* `os_core.c:522`: `OSEventPendMulti` returns OS_ERR_EVENT_TYPE and leaves `OSTCBStat` as it is. A
  task that is suspended after that stays so when it is resumed (`os_task.c:833`): only the end
  of a later wait clears the bits. `NoLostWakeup` excepts a task with `OSTCBEventMultiPtr`
  set, which is this one and the one above.

### Bounds, and why they are enough

* `MsgQueue`: the real ring size (3) and one message more.
* `Pct`: five timer slots instead of ten, five OS timers left for them, and `MaxStale` 1. An
  agent that is woken up from sleep alone needs four slots: it has five handles, one
  of which never has a running timer, and one idle slot is always left (`SlotLeft`). Each
  access timer that a repeated NET_UP finds running may take one more, so `SlotLeft`
  needs `MaxStale` + 4 slots, and without `MaxStale` it fails for any number.
  `MaxStale` bounds the guard of `WakeUp` alone: at most that many access timers run when a
  NET_UP comes. For the code it is 3, by its times: a repeated NET_UP needs a NAK or
  the end of the lease after a tick of `dhcp_coarse_tmr`, which comes every 60 seconds
  (a NAK before the lease has brought no NET_UP yet), and an access timer lasts 120
  seconds after Msg1 and 10 after Msg3. So 7 slots of ten are needed (`ZC_TIMER_MAX_NUM`), and of
  the 20 OS timers (`OS_TMR_CFG_MAX`) the application uses two others (`KeyScanTimer`,
  `udp_broad_timer`); what the binary libraries use is not known. The model runs with the
  smallest numbers with which a NET_UP can find an access timer running; the proof
  has all others, and with four slots TLC violates `SlotLeft`. The guard never holds up a
  NET_UP after `Sleep`: at most one access timer runs then. `MaxResend` is 2 (1 for
  liveness) instead of 4: first, middle and last retransmission. Two sockets: u32Socket
  and the one being connected, or one leaked by a repeated NET_UP and the one that follows;
  1 for liveness, which takes too long with two, so that no connection follows a leaked
  socket there. All message codes that the controller tells apart; for liveness those
  that change its state.
* Framers: a header of 2 bytes and buffers of 4 have every case (part of a header,
  header only, part of a message, exact, too much); announced lengths up to one
  byte too many; pieces up to 3 (4 for the UART) bytes, so that a piece can end one
  packet and begin another.
* `ClientManager`: two slots and four sockets: the listener, two clients, and one
  more that finds no free slot.
* `FirmwareUpdate`: sectors of 3 bytes, slots of 3 sectors, chunks of up to 3 bytes,
  so that a chunk can cross a sector; files that end at a sector's end and inside
  one; payload lengths shorter than the request header, equal to it, and too long;
  the 32-bit arithmetic on 5 bits.

* `SendPath`: two buffers, one in flight while the other is filled, which fill the queue;
  two connections, so that what is left of one meets the next; five messages each, so
  that the buffers fill and are used again. Liveness with the three buffers of
  the code takes too long for a run; safety was also checked with three buffers and six
  messages (4,538,705 states), and the proofs are for any number.
* `ConfigStore`: an address that accepts and one that does not, two tokens, one
  configuration by the device, one power loss, one failed write; the fallback after
  two failures instead of 22, the counter being compared in the same way.
* `NetLink`: queues of two messages, so that join, loss and join overlap; one repeated
  request before the client gives up; `tries` wraps at three instead of 256, within reach
  of SELECTING and of RENEWING.
* `Kernel`: two tasks and the idle task, a semaphore and a queue with room for one token
  each, so that a post finds them empty, full or waited for; the lower task also waits for
  both at once (with both tasks doing so safety was checked too, in 1,166,216 states;
  liveness then takes too long for a run); timeouts of up to two ticks; one level of interrupts
  (which tick and post) and of the scheduler lock. An interrupt within another is only in
  the proofs, which are for any nesting; in the run an interrupt's own services come
  between two tasks of its tick.
* `OsTimer`: three timers (one in the middle of a list), two spokes, periods shorter than,
  as long as and longer than a turn of the wheel, a time that wraps after four ticks,
  and a semaphore that is full with one signal.

No symmetry reduction and no state constraint is used. Deadlock is checked except
in the firmware run: a device that lost power while its footer was rewritten stops.

### Fairness

* `Pct`: weak fairness for the cloud task: it is an endless loop with a bounded delay,
  and `connect()` returns. Strong fairness for the receive task's use of what it
  received and for the timers of each type: both have lower priorities, so they are
  held up again and again, but the cloud task sleeps in every turn. Of several timers of
  a type that stay set one goes off; that one in particular does is not assumed, since it
  may be stopped and set again. Nothing is assumed of the cloud, the device, Wi-Fi
  or `recv()`.
* `UartFramer`: weak fairness for `ZC_Moudlefunc`, a sequential recursion.
* `FirmwareUpdate`: weak fairness for the engine, the task with the highest priority;
  strong fairness for a task inside a request, which is held up while the engine
  works. Nothing is assumed about the arrival of messages.
* `SendPath`: weak fairness for the cloud task, as in `Pct`; `send()` and `connect()` return.
* `ConfigStore`: weak fairness for the writes of both tasks and for a failing connection
  attempt, strong fairness for `ConnectOk`: an attempt at the cloud's name, or at an
  address that works, succeeds now and then. Nothing is assumed of dead addresses.
* `NetLink`: weak fairness for the system task, the user task, the delivery of a Wi-Fi
  event and the timers of lwIP. Strong fairness for a server that answers now and then
  and for taking its answer before the next timeout, a second or more later, makes it
  worthless. Nothing is assumed of Wi-Fi, nor of NAKs.
* `Kernel`: interrupts end, and the tick comes again and again: its hardware timer
  stops for nobody. Strong fairness, as interrupts that are being served delay it.
* `OsTimer`: weak fairness for the tick and for the timer task. The task is not the
  highest one (61), but the application's tasks all sleep in their loops.

## 4. Proofs

All theorems hold for every value of the constants that the named assumptions allow.

* `MessageProofs`, the ring: `RingSafe` (type and `RingConsistent`) and `RingRefinesFifo`. The
  invariant says that the ring links all nodes in order and that exactly the
  nodes between head and tail hold messages; it is needed because the code keeps
  no count and tells full from empty by the two pointers alone. The refinement follows
  step by step from what a push and a pop do to the positions
  (`PushPositions`, `PopPositions`).
* `PctProofs`: `TypeCorrect`, `SessionIsAuthentic`, `SocketIsOpen`, all from the invariant
  `IInv == TypeOK /\ SessionInv /\ SocketInv`. `SessionAuthentic` is not inductive: a
  handler that has popped Msg4 and is overtaken by `PCT_Sleep` must still have the
  key of this connection (`SessionInv`). `SocketUse` is not either: the socket being
  connected must be open and not u32Socket, and a running reconnection timer
  excludes both a socket and an attempt (`SocketInv`). There is one lemma per action,
  and the lemmas on the timer table (`SetTimerOK`, `StopTimerOK`, `CancelOK`, ...) say
  what the helpers preserve.
  `TimersAreSound` adds `TimerInv`, one predicate on the table, the state, Wi-Fi and the
  place of the cloud task. `HF_SetTimer` drops its result when no slot is idle, so that a
  wait has its timer only if one is left; to see that, one must count what can be running:
  one timer per handle, and the access timers that no handle points at, left over from
  handshakes that Wi-Fi or a NET_UP interrupted. A running access timer therefore has two
  reasons, which `TimerInv` keeps apart. The theorem assumes `MaxStale` + 4 slots and as
  many OS timers; with one fewer it is false. The other theorems of the module assume neither.
* `MessageProofs`, the framers: `FramerCorrect` is about `MSG_RecvData`. Its three invariants support each
  other, so they are proved together, as a predicate `Good` on the buffer and the bytes
  received, with one lemma per case of the function (`FirstGood`, `MoreGood`, `HeadGood`).
  `UartIsSound` and `UartFramed` carry them over to `ZC_AssemblePkt` and the recursion: a
  level of it is a call of the same function, refused or handed on, and `UartInv` adds that
  a buffer is never left full between two levels and that a header in it was checked for
  the magic number when its first part came, which the second part relies on.
* `ClientManagerProofs`: `NoSocketLost` and `BufferHasOneSender`. The first is
  strengthened by what the receive task holds at each point (`TaskHolds`) and by
  the fact that a slot it has read from still has its client or no socket
  (`GotLive`); the second by the fact that the task opens a listener only while
  nobody is served (`ListenFree`).
* `KernelProofs`: `EventBlocksAreSound`, `NoTokenIsLost`, `SchedulerIsPreemptive` and
  `NoTaskIsForgotten`. The invariant relates, for each task, the point of the pend call it is
  at, its control block and the lists it is in (`Blocks`): a post, a timeout, an abort or a
  deletion takes it out of all lists at once but leaves the call to be finished later, with
  interrupts in between, and the result it will return must be the one that took it out.
  A task that `OSEventPendMulti` has left with OS_ERR_EVENT_TYPE keeps bits of that call; the
  invariant allows them with `OSTCBEventMultiPtr` set, in its own code and in later waits, and that
  exception is the one of `NoTaskIsForgotten`.
  The token count is needed together with that: a token handed over is counted by the
  control block until the task runs. `OnlyResumeEndsSuspension` follows step by step: the
  end of a pend call clears all of `OSTCBStat`, and a task that runs is not suspended.
* `KernelProofs`, the timers: `TimerListsAreSound`, `WalkMissesNoTimer` and `WheelCountsDown`. The
  prover cannot follow a list by recursion; `ListOf(next, h, L)` says without it that `next`
  links exactly the timers of `L` from the head `h`: nothing leads back to `h`, no timer has
  two predecessors, and no smaller part of `L` holds `h` and is closed. What a push, the
  removal of the head and the removal of another timer do to a list are three lemmas
  (`ListPush`, `ListPop`, `ListCut`); `LinkSound`, `UnlinkSound`, `FreeSound` and
  `CreatedSound` carry them over to all lists at once (`Sound`). For the walk the
  invariant `TmrInv` has a set `D` that is the rest of the spoke, begins at `ptmr` and holds all
  that is due (`Rest`); outside a walk nothing is due (`NoneDue`). That `D` survives a callback
  is the point of the proof: whatever the callback does to its own timer and to new ones, no
  other running timer changes its time, and its successor only if that was the timer called
  back; others can only be started for a later tick (`Touches`, which composes over the
  operations of a callback, and `Settled`). `ptmr` was already moved on by then, which is
  why the code reads it first. The refinement goes step by step (`WheelStep`): the start of a walk is
  a tick of `TmrCountdown`, a timer that is due expires, a service is a change, and the rest
  stutters. It needs `NoneDue`, as time may go on only then, and `WrapTick` for a clock that wraps.
* `ConfigStoreProofs`: `StoresAreSound` and `OldTokensStayAway`. The code has no lock around
  the record in memory, only one around a write of the flash. The invariant counts that lock
  against its holders (`LockCount`; each failure gives one release too many) and says
  where a change can be on its way: for each half of the record, some task has yet to copy
  it, or one has a copy equal to memory that is yet to be programmed, or flash has it
  (`HeadKept`, `TailKept`). `TokensInOrder` compares the tokens in memory, in a copy and in
  flash. These parts hold until a write fails, the last two while no change that the code keeps in memory
  only is pending (`volatile`), as do the properties.
* `NetLinkProofs`: `LinkIsSound` and `UserIsTold`. `LinkSound` needs that the way by DHCP and
  the one by the stored address exclude each other (`OneWay`) and that a lease has an address
  (`AddressKnown`). `UserTold` speaks of the moment when everything is quiet; to get there
  one has to follow the wakeup through both queues: joins and losses alternate in the
  queue of the system task (`Alternate`), and with a stored address, where nothing but
  `netif_set_up` wakes the agent, a loss comes before every next join (`DownFirst`).
* `SendPathProofs`: `BuffersAreSound`, `SendIsStable`, `NoMessageIsStale`, `MessagesInOrder`,
  for any number of buffers. Each full buffer has one place, in the queue or in `send()`
    (`Placed`), so that a push finds room. Not always: `MSG_Init` in the middle of a send
  breaks this (`Messy`), but only while a connection is being given up, and the reconnection
  repairs it before a message can be made for the next one. Messages of the latest
  connection come last in the queue (`Ages`), and their numbers continue those sent (`Order`),
  until the connection is lost. These (`Sound`) are claimed only until an `HF_WakeUp` skips a
  reconnection, so the invariant is `Typed /\ Waits /\ Deaf /\ Recent /\ (skipped \/ Sound)`: the
  first four hold even then. That `Sound` is back at the next reconnection needs them:
  what is in a buffer is no newer than the latest connection (`Recent`), nothing is
  under way while the reconnection timer runs (`Waits`), and a session without
  Wi-Fi gets no further than its first message (`Deaf`).
* `FirmwareUpdateProofs`: `BootsTheCheckedImage` and `UpdateIsSound`, where one task
    updates; with two both are false (see `FirmwareUpdate` above), so that nothing is said
  of a session that another task closes, or of the engine missing its request. That the footer's slot is never
  written to needs the place of every sector that is touched. `Aim` says where the data
  goes and `Loose` which sectors may be touched. The cache may be ahead of the data only in
  the first sector of the image, where a session that was given up can have left bytes that the
  next one counts on; the write then goes on to the next sector early, which stays in the slot
  because a slot has several (`Level`, `FastWriteOK`). The arithmetic of sectors for
  symbolic sizes is in lemmas of its own (`SectorAt`, `SectorInSlot`, `NextSector`). `Turn` follows
  the one request from the controller through the wait list to the engine and back, and
  `Offsets` says at which of these points the bytes it carries are counted by whom.

`SuspensionHolds`, `TokenNeverBack`, `NoStaleMessage` and `InOrder` are action properties, each
proved from the invariant before and after the step.

The assumptions are on constants only: positive sizes, a header that fits into the
buffer, message codes from the known set, distinct names for events and addresses, for
`TimersAreSound` `MaxStale` + 4 slots and OS timers (of 10 and 20, see the bounds of `Pct`), for the update slots of
several sectors that the images fit into, with one task that updates, and for the OS timers
delays shorter than a turn of `OSTmrTime` (a delay of 2^32 ticks does not fit into its type).
The wheel may have any number of spokes, also one that does not divide the turn.

Only model-checked: the liveness properties (`Reconnects`, `HandshakeEnds`, `EventsDrain`,
`Returns`, `RequestReturns`, `BufferFreed`, `FindsCloud`, `ComesUp`, `Rejoins`, `LeaseEnds`,
`TimeoutEnds`, `RunningEnds`), as liveness under fairness is out of the prover's reach. Every
other property of a passing run is a theorem. Each inductive invariant was
model-checked on the run of its module before it was proved. `TypeOK` of the queue and of the
client manager and `WithinBuffer` of the framer are proved and have no run of their own.

## 5. Not modelled

The models cover the agent's own logic and the parts of the SDK whose state and
concurrency it depends on. Most of the repository is something else, and its size says
little about what could be modelled:

* TCP, sockets, DNS, ARP, PPP, SNMP and the other protocols of lwIP (over 40% of
  all lines, much of it not compiled or never started): third-party code, modelled at
  its interface as a connection that works, breaks, and delivers in pieces.
* FreeRTOS is not compiled; the build selects uC/OS-II. Headers, configuration files and
  register definitions carry no behaviour.
* RSA, AES, MD5 and the bignum arithmetic of tropicssl compute on data that TLC cannot
  enumerate and keep no state between calls. In `zc_sec_engine.c` only the control is
  modelled: when `SEC_Encrypt` refuses (`SendPath`), and that `SEC_Decrypt` may fail (`Pct`).
* Drivers (UART, SPI, flash commands, the high speed interface), boot code and the
  vendor's demonstrations act on registers or are not used by the agent; the Wi-Fi
  driver and the supplicant are binary libraries.
* Soft-AP and ad-hoc modes of the system task, `dhcp_inform`, `dhcp_reboot`, the ARP check
  and the DHCP server: not reached by this application or not compiled.
* Message builders and parsers (`zc_cloud_event.c`, `ac_api.c`) format data; the broadcast
  (`zc_bc.c`) has a counter and no effect on the rest.
* Content of replies to clients in `ZC_DealSessionOpt`, among it a length of eight bits
  (`zc_moudle_manager.c:104`); bytes after the end of a message, which `MSG_RecvData`
  drops and takes the following ones for a header (`zc_message_queue.c:154`); decrypted
  lengths left uninitialised after a failure (`zc_message_queue.c:278`).
* The two-copy record of `user_flash.c`: nothing calls it, and its sectors are those of
  the agent's configuration.
* The LUART source of the update engine and `tls_fwup_reset`, `tls_fwup_clear_error`,
  `tls_fwup_set_crc_error`, `tls_os_timer_change`, `ZC_StoreConnectionInfo`: nothing calls them.

## 6. Plan

Done: all components whose state and concurrency are the agent's own, and of the SDK the
kernel, the OS timers, the update engine, the configuration's flash and the way from
Wi-Fi to the agent; and proved, the safety of all of these and both refinements. Open:

1. The hazards without a property in `PROJECT.json`. Three are faults of the code that the
   models contain; once they are fixed, the properties lose their exceptions
   (`failed`, `deaf`, `ack.gap`). So would `SendPath` (`skipped`) and `Pct` (`MaxStale`), if
   `HF_WakeUp` put an awake agent to sleep first. The fourth, a power loss while the only footer is
   rewritten, would take a second copy of it.
2. `BootSafe` for two updating tasks, once `tls_fwup_exit` and the wait list are fixed.
3. A lock around the functions of the message queue would let the assumption of
   `SendPath` on the device task go.
