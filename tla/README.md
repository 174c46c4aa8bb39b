# A7TK3 main controller: a TLA+ verification project

The program in `src/` is the main controller of a tracked robot. It takes the
frames of an operator control unit (OCU) from radio, fibre, wifi or TCP, turns
them into motor, arm, head and water-cannon commands on serial ports and CAN,
watches the links with software timers and reports back. It is C with POSIX
threads; apart from the network debug channel nothing is locked. This directory
models the parts where that matters, checks the models with TLC and proves the
main results with TLAPS.

## 1. The system

Threads: the main loop (`main.c:384-404`), the timer thread (`timer/timer.c:23`,
5 ms), a read thread per serial port (`usart/usart.c:358`), a listening thread
and a read thread per client (`net/tcp_opr.c:86`, `:36`), a CAN read thread
(`can/can.c:92`), the threads of the network debug channel (`debug/netprint.c`).

| Component | State | Operations | Talks to | Hard part |
|---|---|---|---|---|
| Buffer pool (`alloc/`) | list of nodes: ID, state, ring indices, data | AllocMem, GetMem, GetMemData, PutMem | every read thread, main loop | claim and release without a lock |
| Serial rings (`usart/`) | HeadAddr, EndAddr, data of a node | read thread's callback, Read_Byte | parsers | split copy, wrap in two stores, overrun |
| Network server (`net/tcp_opr.c`) | Devclient table, descriptors | accept, enter, read, close, clean up | pool, main loop | descriptor reused before the clean-up |
| Network buffer (`net/net_manager.c`) | as the rings | store whole or restart at 0, hand to the next client | Read_Byte | old laps are read again |
| OCU parser (`communication/`) | Rx_Data, Rx_Bot, Rx_OK | one byte per call | rings | resynchronisation, links share one structure |
| Head, drive and gas parsers (`communication/`) | the same, per board | one byte per call | rings | false lengths, an index without a bound |
| OCU dispatch, drives (`communication/`, `motion.c`) | timers, error flags | Rx_OCU_Prs, get_js_input, motion_send, Rx_Motion_Prs | timer thread, drives | unlocked timers, order of arm/stop/disarm |
| Timers (`timer/`) | Times, TimeEn per timer | decrement every 5 ms | main loop | lost updates, counts malloc left |
| Steering (`motion.c`) | none | get_js_input | drives | signed/unsigned arithmetic, abs() |
| Report to the OCU (`communication/`) | PC_TX_Time_Out, last frame, joint errors | Tacker_To_Ocu | OCU, timer thread | sent late, early or for an old frame |
| Arm joints (`communication/`) | joint timers and errors, the joint polled next | OCU_to_arm_Info_Process, motion_send | CAN | poll against timer, answers nobody reads |
| CAN slots (`can/`) | slots: state, data, length, id | CanReadCallback, read_can_data, canopen_data_pro | CAN read thread, main loop | two walks over one list, unordered stores |
| Network debug channel (`debug/`) | ring, connected flag | PutData, send thread, setclient | all threads that print | printers race for one position, lost wake-up |
| Parameter store (`store/`) | one file, a record in memory | ParaInit, SetSysPara | start-up | truncate, then write; results ignored |
| Devices and start-up (`main.c`, `gpio/`, registries) | device entries, descriptors | GPIO_init, CANDevInit, UsartDevInit, InitTcpServer | kernel | no failure stops the start; numbers are reused |

Properties that make them correct, in one line each: a ring delivers what it
received, in order; the vehicle never moves unwatched and stops when the
operator falls silent; a wheel is accused of silence exactly if it owes an
answer; emergency stop and parking reach the tracks and a turn goes the way the
stick says; a parser accepts every clean frame and comes back into step after
noise; no two nodes serve one descriptor, no node leaks, and no client is hidden
by another's clean-up; a CAN frame handed to the callback is processed once and
whole, or dropped by a full list; the last frame of the operator is reported with
its number, in time; settings survive kills and power cuts; a line that never
failed keeps its descriptor whatever else failed; printed text is sent once and
in order. Several of these hold only up to a fault of the code. Where that is so
the fault is a step of the model, and a history variable says from when on, and for
what, nothing is promised (`overrun`, `torn`, `lapped`, `strayed`, `raced`, `lost`,
`muddled`, `early`, `hurt`, `full`); section 3 tells what happens then.

## 2. Modules

| Module | Models | Uses | Proofs |
|---|---|---|---|
| `ByteFifo` | abstract byte queue: what a buffer promises | | |
| `RxRing` | a serial port's buffer, store by store | `INSTANCE ByteFifo` | `RingProofs` |
| `NetPrint` | the network debug channel | `INSTANCE ByteFifo` | `RingProofs` |
| `TcpRing` | a connection's buffer, from one client to the next | | `ReceiveProofs` |
| `ConnPool` | clients, descriptors, Devclient, pool | | `ConnPoolProofs` |
| `OcuFrame` | the operator's frame parser on a noisy shared link | | `ReceiveProofs` |
| `DeviceFrame` | the parsers of head, drives and gas sensor on noisy lines | | `ReceiveProofs` |
| `DriveWatchdog` | timer thread and main loop from frame to stop | | `DriveWatchdogProofs` |
| `Steering` | get_js_input | | `SteeringProofs` |
| `OcuReport` | the report to the operator and the joints' polls | | `OcuReportProofs` |
| `CanLink` | the CAN slots between read thread and main loop | | `CanLinkProofs` |
| `SysPara` | the parameter file through starts and crashes | | `StartupProofs` |
| `Devices` | descriptors and device entries from start-up on | | `StartupProofs` |
| `Startup` | main() from one power-on to the next | extends `SysPara`, `Devices` | `StartupProofs` |

`MC*` modules only instantiate. Four of them put models that share nothing side by
side: `MCRings` RxRing and NetPrint, `MCReceive` TcpRing, OcuFrame and DeviceFrame,
`MCDrive` DriveWatchdog and Steering, `MCCan` CanLink and Startup. A variable `side`
says which one moves in a behaviour, so that the state space is the sum of theirs
and not the product, and each side keeps its own fairness. Where the code composes
parts that interact, the modules do: `Startup` runs the parameter file and the
devices in the order of main() and a crash ends both, `DriveWatchdog` and
`OcuReport` each hold the timer thread and the main loop, `CanLink` and `RxRing`
each a read thread and the main loop, `ConnPool` the listening thread and all read
threads, `Devices` all read threads, the kernel's descriptors and the main loop.

How they correspond to the code:

* **RxRing**: the variables are the fields of `T_MemOpr`; `pc` is the place of
  the read thread in ComReadCallback. Each store the main loop can see
  (`HeadAddr += len`, `HeadAddr = 0`, each memcpy) is an action. Two faults of
  the code are part of it and set a history flag after which nothing is
  promised: `overrun` (the producer never looks at EndAddr) and `torn` (the
  reader ran between `HeadAddr += len` and `HeadAddr = 0`, took the empty ring
  for a full one and reads a lap of old bytes). `Clean` is neither.
  `AdvanceMerged` is the compiler's right to merge the two stores. The node is
  taken as given, here and in TcpRing: the chunk dropped because the pool has none
  (`usart_manager.c:165`, `net_manager.c:225`) is ConnPool's.
* **TcpRing**: ReadCallback's rule (a chunk that does not fit restarts at 0),
  and the node's way to the next client: PutMem's stores become visible in any
  order, Read_Byte is a load and a store of EndAddr, so that it can run across
  PutMem and GetMem. `lapped` says that unread bytes were overwritten,
  `strayed` that Read_Byte ran while the node was given back.
* **OcuFrame**, **DeviceFrame**: one action per byte. A frame is a length, its
  bytes and whether the bytes stored so far are those of the frame sent; a check
  sum matches exactly then. The link may alter, lose and insert bytes; bytes of
  another link are inserted ones. That a frame is accepted does not mean that it is
  used: Rx_Head_Prs (`communication.c:2246`) lets the head's frames overwrite one
  another, and only the last before a report counts.
* **DriveWatchdog**: `Times--` of the timer thread is a load and a store. The
  main loop's plain stores between two calls are a set (`todo`) that becomes
  visible in any order (`Flush`). `Wild` is a count left by malloc
  (`timer.c:117`). `pc` follows the calls of the loop: Rx_OCU_Prs, get_js_input
  motor by motor, motion_send's OCU check, Platform_Stop, the wheel checks,
  Rx_Motion_Prs with its fault path. `age` and `owed` are history.
* **Steering**: one action, the whole get_js_input, over all fields it reads.
* **OcuReport**: the same timer thread for the report's timer (0) and the
  joints' (1..J), each with its own switch and count as malloc left them. `pc`
  follows Rx_OCU_Prs, OCU_to_arm_Info_Process, motion_send and Tacker_To_Ocu.
* **CanLink**: both walks over the list go one slot per step. The memcpy of
  CanReadCallback comes first, because Get_can_Mem must have found the slot, and
  its three later stores land in any order. A field of a slot holds the frame it
  was written from, so that a mixture shows. `can.c:113` compares the int that
  read() returned with a size_t, so -1 counts as large: `ReadFails` hands the frame
  that is still in the buffer to the callback again, under a number of its own, and
  the thread never ends. What is accounted for are the callback's frames; the bus
  may have sent fewer.
* **ConnPool**: GetMem, PutMem and the Devclient loops go one element per step, and
  a test and the stores after it are separate steps: `Claim`, `SetId`, `SetState`
  in GetMem, `Put`, `PutState`, `PutId` in PutMem, `Clear` and `Wipe` for
  `net_manager.c:175-177`. The descriptor is released (`Close`) before the
  clean-up, as in `tcp_opr.c:73-80`, and accept hands out the lowest free one.
  `StartFails` is SnlRead's failure, whose result `net_manager.c:239` drops, and
  `NoBuffer` is SNL_ERR_BUFFER (`tcp_opr.c:46-50`), on which ReadCallback does
  nothing. Two histories exclude what these races spoil: `lost` the descriptors of a
  failed start, and those for which a `Wipe` no longer found what its `Clear` had
  seen; `muddled` the nodes that two threads were taking or giving back together.
* **NetPrint**: PutData is test, write, advance, for any number of printers. The
  program is built with -O2 (`Makefile:18`), and nothing makes the compiler keep
  the write position in a register or read it again: `Reload` is the second choice,
  possible between any two steps. `raced` says that two printers were inside
  PutData together; after that the printers finish their strings and the behaviour
  ends (`Followed`). The condition wait has no predicate and may wake spuriously.
* **SysPara**: a record is what reading the file gives, field by field. The file
  has a copy in the page cache and one on the flash (`WriteBack` at any time): a
  killed program leaves the first, a power cut the second. Every file operation
  may fail, and no result is looked at: GetSysPara that cannot open or read the file
  (`store.c:134`, `para.c:39`) leaves the record as malloc gave it, the defaults are
  taken and saved over the file. `hurt` says that this, an empty file after a crash
  or a cut write happened.
* **Devices**: a device entry is the number in it, the kernel's table says for
  whom the number is open. Every open, bind, write to the pin and read may fail; a
  read thread closes its number before its callback runs. The CAN thread never
  closes. The pool's nodes are ConnPool's.

## 3. Runs

| Run | Question | Bounds |
|---|---|---|
| `rings` | RxRing: order, refinement of ByteFifo, nothing left behind. NetPrint: accounting and refinement of ByteFifo until two printers overlap, a woken sender sends all | serial ring 5, chunks to 4, 14 bytes: almost three laps, all split points; debug ring 3, batch 1, 2 printers, strings to 2, 5 bytes |
| `drive` | DriveWatchdog: its safety and the final stop. Steering: stops, no counter-rotation, sense of a turn, range | 1 wheel and the flipper, OUTTIME 2, RX_TIMEOUT 1, 1 buffered frame, counts of malloc 0 or other; per axis both ends, the middle region and both edges of its dead zone, a value whose throttle competes with the turn; knob below and beyond its limit; each switch |
| `drive_wheel` (violated) | is power cut when a wheel is silent? | timeouts of 3 and 2 ticks |
| `steering_sign` (violated) | have the tracks the signs the comments give them? | as in `drive` |
| `steering_turn` (violated) | is a turn always the turn asked for? | as in `drive` |
| `receive` | TcpRing: nothing skipped, replay only between the two restarts. OcuFrame, DeviceFrame: clean frames are accepted, frames lost after noise, where bytes are stored | ring 5, chunks to 4, 14 bytes, 2 clients; OCU frames of 8 bytes, a largest length byte of 18: a false frame swallows up to three frames; the boards' frames at their real sizes |
| `conn_pool` | unique nodes, no leaked node, no stale entry, no hidden client | 2 nodes, 2 entries, 2 descriptors, 3 threads (symmetric), one spoilt descriptor and one spoilt node |
| `conn_pool_race` (violated) | is a node in use for one thread? | 2 threads |
| `net_print_race` (violated) | does 0 mean that the byte is in the ring? | 2 printers, ring 3 |
| `net_print_wake` (violated) | does each print wake the sender? | 1 printer, ring 3 |
| `can` | CanLink: where every frame is, what is dropped, order of a burst, frames read whole, slots drain. Startup: settings and address through crashes and failed reads; who holds which descriptor | 2 slots, 3 frames of 4 natures, 1 command pending per device; 4 starts, 1 lease, 2 ports, 2 clients, 9 descriptors |
| `report` | OnTime, the last frame is answered, polled joints end in error | limits of 2 and 3 ticks, 2 joints, counts of malloc 0 or 3, 3 frames |

Deadlock is checked except where a behaviour may end: in `rings` after an overlap
(`Followed`), in `can` when the frames or the starts are used up, in `conn_pool` and
`conn_pool_race` when failed starts have leaked every descriptor, in
`net_print_race` after an overlap.

Why the bounds are enough: every ring is longer than one chunk and shorter than
two, so that a chunk can fit, fit exactly, be split or be too long, from every
index; bytes are numbered, so a repetition or loss anywhere shows. MaxMissed,
MaxRefused and MaxIndex only stop history counters, and the growth of a text of
the gas sensor, beyond what the properties tell apart. Two
descriptors, nodes and entries are the least with which one can be taken for
another, and a third thread makes the table full. `OneSpoilt` stops a behaviour of
`conn_pool` at the second descriptor in `lost` or the second node in `muddled`: the
properties speak of the others, which one of each leaves in place, and the proofs
do without it. A wheel of the model stands for each of the two, which do not
interact; the proofs cover any number. An OCU timeout of 2 ticks allows a decrement
of a full and of a partly used count to overlap an arming store; the same holds for
the report. Two CAN slots and three frames give a full list, a slot freed ahead of
and behind the walk, and a younger frame before an older one. In `Startup` the
devices are followed after one undisturbed start only (`Startup`'s `Followed`): what
they do is the same for every record, and the file's starts and crashes go on around
it. Four starts are one for each of: a start that leaves an address, one that is cut
or cannot read, one that falls back, one that uses what is left. Two printers are the
least that race, and with `raced` the ring is broken for good, so that a third adds
nothing.

### What the violated runs show

* `drive_wheel`: `include/timer.h:22` says that a wheel that does not answer is
  switched off; the code sets a flag (Platform_Stop is commented out at
  `communication.c:2662` and `:2674`).
* `steering_sign`: `motion.c:314` and `:331` say which track is positive and which
  negative below and above the middle, `:258` and `:286` the same of a turn on the
  spot. What is sent (`motion.c:327` and `:382`) has the opposite signs in all four
  branches. The code agrees with `motion.c:227` ("greater than 127 forward") if a
  right track that is positive and a left one that is negative go forward: then the
  labels of the branches are exchanged.
* `steering_turn`: abs() at `motion.c:325` makes the slowed track the faster one
  when the turn is more than four times the throttle. `SteersWithinThrottle`
  is the part of the promise that holds, and is proved.
* `conn_pool_race`: GetMem tests a node's state and sets it later; two threads
  get one node, and both store into it.
* `net_print_race`: the comment on PutData (`netprint.c:72`) says that 0 means
  success. Two threads that print pass isFull before either moves `g_iWritePos`
  (`:83`), write one slot, and both return 0: one byte is gone.
* `net_print_wake`: a signal given after the ring was found empty and before
  pthread_cond_wait wakes nobody, and the text waits for the next print.

### Observations without a run of their own

Drives. The lost update on `Times` can also make the stop come early, just after
a frame. `UsartSendDatafd` drops the result of write, and after one failed write
of a stop the motor runs on with the timer off (the constant `Lossy`; the theorems
about moving and stopping assume it FALSE). The right wheel's
answer clears the left wheel's stop flag (`communication.c:2296`); nothing
reads the flag. The `2^17` in a speed formula near `communication.c:2360` is an
exclusive or, not a power.

Report and arm. A frame of the operator puts the report off by SEND_TO_OCU_CNT
ticks, so frames that come faster are never answered until they pause. No answer
of a joint is ever read, because the call of Rx_ARM_Prs is commented out at
`main.c:393`: every joint that was polled is reported in error
(`PolledIsAccused`). A short frame is executed with the addresses of the frame
before it (`communication.c:1914`). The bytes of the head in a report may stem
from two of its frames (`communication.c:2473`).

CAN. While read() fails, the frame before it is handed over again every
millisecond, or, before the first frame, what the stack held (`can.c:113`). A frame
stored while an older one waits behind it is processed first, and a
busy bus can starve the last slot for ever; `BurstInOrder` and `SlotsDrain` state
what is left. The main loop may take a slot whose stores are under way (`early`)
and combine one frame's bytes with another's identifier. Bytes beyond a frame's
length are what the stack held (`canopen.c:52`).

Parsers. A payload holding both header bytes can keep the OCU parser out of step
for ever after noise. An answer of a drive whose bit 0 of the command is set ends
after 8 bytes whatever
its count says. A text of the gas sensor has its check sum looked for at a fixed
index, so that only frames of two data bytes can match, and its index grows until
a carriage return comes.

Buffers. A torn wrap of the serial ring replays a lap of bytes. Read_Byte running
during PutMem leaves the next client a node with EndAddr other than HeadAddr
(`strayed`). Two printers that overlap may also move the write position back, or
over the read position: then bytes already sent, or never written, are sent.

Clients. A client whose read thread could not be started, or got no buffer, leaves
its entry in Devclient (`lost`), and Rx_OCU_Prs polls that dead entry before all
behind it. Two clean-ups of one number that pass the same test clear one entry
between them and leave the other; a clean-up delayed after its test may clear the
entry the listening thread has just written, and that client is not heard. A node
that one thread gives back while another takes it may stay in use with ID 0, and is
lost to the pool (`muddled`). Serial ports take their node with their first byte,
so clients that came first can leave them none.

Descriptors and settings. The descriptor of a failed serial port is closed but
stays in the device entry, so that the main loop writes to whoever gets the number
next. A parameter file that once could not be read is overwritten with the defaults:
the customer's server address is gone. A board with fewer than three network
interfaces remembers the address 255.255.255.255. The fields no default covers are
saved as malloc left them. `gpio/` is commented out in the Makefile although main.c
calls it.

## 4. Fairness

Liveness is checked under weak fairness of whole threads only. RxRing: the
read thread's callback and the main loop run on; the line need not send.
DriveWatchdog: the timer thread and the main loop run on, and the main loop's
writes return. The last is an assumption: `ReadMe.txt` (V1.0.4) tells of a main
loop blocked in a TCP write, and a blocked loop stops nothing. NetPrint: the
send thread runs on and a string begun is finished; nobody has to print or
connect. OcuReport: the timer thread and the main loop run on; the operator need
not send. CanLink: the callback and the main loop run on; the bus may fall silent
and reads may fail or not return. `LastFrameAnswered`, `PolledIsAccused` and
`SlotsDrain` are recurrences ([]<>) and say something because the frames of a
behaviour are bounded: after the last one the property must become true and be
true again and again. In an `MC` module with a `side` each part's fairness is stated
for its own side. No action of the environment is fair.

## 5. Proofs

All theorems hold for every value of the constants under the named ASSUMEs
(sizes positive, a chunk shorter than the ring, bytes in 0..255).

* `RingProofs`, serial ring: `TypeCorrect`, `DeliveredInOrder`, `Refinement`.
  InOrder is not inductive: the invariant adds which byte every slot between the
  indices holds (`Content`), how the bytes received are accounted for at each
  step of the callback (`Count`), that a clean ring is not full (`Room`) and where
  the indices are (`Shape`). Refinement maps each action to Send, Deliver, Break
  or a stutter of ByteFifo.
* `RingProofs`, debug ring: `DebugBytesAccounted`, `DebugRingIsFifo`, for any number
  of printers. Until two overlap (`raced`) one at most is inside PutData (`Alone`),
  it holds the position as it is and has room for its byte (`PrintRoom`), the bytes
  accepted are counted before the position says so (`PrintCount`), and each slot
  between the positions holds its byte (`PrintContent`). That strings of different
  printers mix byte by byte, and that the position may be read again, is covered.
* `DriveWatchdogProofs`: `TypeCorrect`, `NeverUnwatched`, `Deadline`,
  `NoFalseAccusation`, `SilenceNoticed`. The invariant says which stores may be
  in flight at which step (`Pending`), that count plus age never exceeds the
  timeout, the value loaded by the timer thread included (`Budget`), when the
  OCU timer is on (`Armed`, needs that writes succeed), and that a running wheel
  timer or an error stands for an owed answer (`Watched`).
* `SteeringProofs`: what was sent is get_js_input of the frame in hand (`Sent`);
  with it `StopsTracks`, `NoCounter`, `Steers` by lemmas about the sign of a
  scaled product and the order of the two tracks, and `SpeedsFit` by one about
  the size of a scaled product: a slowed track never leaves the full stick's range.
* `ReceiveProofs`, OCU parser: `TypeCorrect`; `CleanLink`, since on a clean link
  parser and sender are at the same byte of the same frame; `BackInStep`, the
  bound on the frames missed after noise. It is not inductive: the invariant adds
  that nothing counts as missed while noise or a damaged frame is under way (`Amid`),
  and that the bytes of all frames missed since lie in the false frame the parser is
  in, or in the one it has just given up (`Astray`); a length byte limits both.
  `BackInStep` assumes that a frame's length is not the value of the second
  header byte, 0xAA (`config.h:73`). With such a length the invariant fails (TLC:
  the length byte is taken for the end of a header). How long the
  frames are is up to the operator's unit, whose program is not in the repository,
  so this stays a hypothesis of the theorem.
* `ReceiveProofs`, parsers of the boards: `EveryFrameCounts` (every frame of a quiet
  line is accepted), `BoardsBackInStep`, `BytesStayInside`, from one
  invariant (`BoardsAreSound`) for all three boards.
  It says that what is stored fits the frame (`Fits`), where the parser is in
  the frame the board sends (`DevAmid`, `InLine`), how much a false length can
  still swallow (`DevAstray`), and for the gas sensor, which ends a frame by a
  carriage return alone, how its index and the frames heard belong together
  (`GasText`, `GasHeard`).
* `ReceiveProofs`, network buffer: `OldBytesOnlyBehind` and `NoByteSkipped`, an
  action property. The bytes due lie in one piece, or, between the restart of
  HeadAddr and that of EndAddr, in two with old bytes between them (`InOnePiece`,
  `InTwo`); what Read_Byte has loaded and not yet stored (`Loaded`) is part of it.
  `PartsMoveApart` says that a behaviour of the composition is one of each part.
* `ConnPoolProofs`: `DescriptorNamesOneNode`, `NodesAreGivenBack`,
  `EntriesDoNotOutliveThreads`, `EveryClientHasItsEntry`. UniqueId needs what a
  search that is under way has already passed by (`Passed`): no node that keeps this
  thread's descriptor. That holds because only the thread that holds an open
  descriptor can give it to a node (`Descriptors`), and because a free node with an
  ID is between two stores of GetMem or PutMem (`FreeNodes`). For
  `NodesAreGivenBack` a node that is not muddled is handled by one thread at a time,
  which finds it as it left it (`CleanHands`), and a used one has a thread that is
  not past it (`Owned`). The entries of Devclient cannot be matched with their
  threads one to one, since a clean-up clears the first entry with its number, which
  may be another's; what is invariant, for the descriptors that are not lost, is a
  count: below any place of the table a descriptor has no more entries than threads
  whose walk is not past it (`EntriesOwned`). It takes the set of threads to be
  finite.
* `CanLinkProofs`: `TypeCorrect`, `FramesAccounted`, `DropsFull`, `BurstOrdered`,
  `SlotsIntact`, for any number of slots and frames. They build on one another:
  where the two threads are (`Places`: the slot being stored is not marked yet,
  the main loop stands on a used slot) gives that the frames are accounted for;
  a slot free when the walk began can only lie ahead of it (`FreeAhead`), since
  the main loop frees slots and never fills one; no slot is free before a frame
  after whose arrival none was freed (`PackedBefore`); and the visible stores of
  a slot are those of the frame in hand (`Written`).
* `StartupProofs`, the file: `ParaTypes`, `SettingsKept`, `AddressRemembered`.
  While no write was cut short by a full disk, file and flash are each empty or a
  record saved whole (`Kept`), and the server address in it is the customer's unless
  a crash that left it empty, or a start that could not read it, has left its trace
  (`hurt`); a whole one remembers a known address (`Remembers`), to which an
  unreadable file adds the default. They are stated of SysPara's
  own specification; `StartupIsPara` shows that main() implements it.
* `StartupProofs`, the devices: `DevicesAreSound` and `LinesKeepTheirNumbers`,
  through start-up, main loop and crashes. Whoever is the holder of a number has it
  in its entry (`Own`), a line not opened yet has none (`Fresh`), a thread whose read
  failed has given its number back (`GivenBack`): hence every close hits its own.
* `OcuReportProofs`: `TypeCorrect`, `TimersOnTime`. OnTime alone is not
  inductive: the value the timer thread has loaded obeys it too (`LoadedOK`), and
  between the two stores that arm a timer it holds in a weaker form (`TimerOK`).

The inductive invariants were tried with TLC on the runs' instances while they were
being found. All invariants, action properties and refinements of the passing runs
are theorems. Only model-checked are the liveness properties: Drained,
OcuSilenceStops, WokenSendsAll, LastFrameAnswered, PolledIsAccused and SlotsDrain
rest on fairness, hence on ENABLED, which is outside the prover's reach. What the
six violated runs refute has no theorem, of course.

## 6. Not modelled, and what comes next

| Part | Why not |
|---|---|
| Content of the report, scaling of joint speeds and of the drives' values | computed and copied for display, no state |
| Tack_To_Head's translation | stateless; the head's own program is not here |
| Which of two clients is served | the code's stated order (`communication.c:1856`); the models leave the link of a frame open |
| UDP, TCP client, packageOCU, AMC_Info_Process, Rx_ARM_Prs, `_bak` functions, PDO and NMT frames | never called |
| Termios, socket and CAN set-up beyond success or failure | I/O without a protocol |
| Debug levels and channels | lists and a digit, filled before the threads start |
| Clock chip, buzzer, timer groups | a stub, and not built |

What is left: the lemmas a liveness argument would rest on (each fair step
comes nearer to the goal and no other step leads away from it) are safety
properties and could be proved; none is yet. The refinement of a byte queue by
TcpRing cannot be stated as for the other rings, because its restarts replay bytes
by design; `NoneSkipped` and `ReplayOnlyBehind` are what the queue's promise becomes.
