# TLA+ models of ncsExp

ncsExp is a collection of firmware applications for Nordic's nRF52, nRF53 and
nRF91 chips (nRF Connect SDK, Zephyr).  They share no code, so this project is
a family of independent models, one per application with control logic of its
own, rather than one composed system.  Inside an application the components
are composed.

## Inventory

Paths are relative to `src/`.  PROJECT.json lists every part with its files.

| Application | State | Operations and actors | What is hard | What makes it correct |
|---|---|---|---|---|
| LTE/BLE gateway, `app/nrf91/v1.6.1/thingy91_lte_ble_gateway/lte_ble_gateway/src` | `aggregator.c`: a `k_fifo` of heap blocks and a counter; `alarm.c`: a flag; `main.c`: connection flags, the retry work item, the position tag | Bluetooth thread stores notifications and raises alarms; GPS thread stores positions; main thread handles cloud events and drains the queue; system work queue runs `cloud_connect()` | three threads on one queue; cancellation of a work item that is running; reboot at any time; queue and heap at their limits | the newest data are kept; no block leaked or freed twice; no alarm lost; positions in order; data sent only on a ready connection; a lost connection is retried |
| BLE/UART bridge, `app/mcuboot_prv_key/peripheral_uart/src` | buffers of one heap; receive state of `uart_async_adapter.c`; two FIFOs; statics of `uart_cb` | UART interrupt with nested callbacks, receive timer, retry work item, `ble_write_thread`, Bluetooth thread | callbacks that stop the receiver they are called from; two directions share one heap; interrupt between refusal and queueing | every buffer has one owner; no byte lost or sent twice; the receiver restarts; queued data is sent |
| Distance measurement, `app/ble/nrf_dm_nrf52840_dongle_v191/src` | list of peers in a heap, closest peer, message queue, filter buffer | timer interrupt expires peers; `peer_thread` stores results; Bluetooth thread adds peers | the interrupt frees what the thread holds; filter shared with the interrupt | no block is listed twice or listed and free; only silent peers leave, nothing leaks (it does, see below); a silent peer leaves; the filter stays in its buffer |
| ISO broadcast benchmark, `app/ble/iso_broadcast_benchmark_pa_lna/src` | flags, semaphores and packet statistics of the receiver; channels and work item of the broadcaster | main thread with timeouts, Bluetooth callbacks, sending work item | late callbacks after a timeout; reset of semaphores; loss before the wait for it; the work item next to the teardown of the BIG | a run leaves nothing behind; no signal of an earlier run is believed; a lost BIG restarts the receiver; the broadcaster sends on a complete BIG; statistics are about the packets they claim |
| MCUboot loader and network-core update (nRF5340), `nrf53_ble/otherExamples/resources`, watchdog of `app/mcuboot_prv_key` | slots, trailers and status area in flash; a command in RAM shared by two cores | steps of `context_boot_go()`; two cores that poll the command; resets, watchdog; uploads and confirmation by the application | a reset between any two flash operations; a flash operation that fails; two cores with no lock; an image for the other core in the same slot | only a whole application image is started; an interrupted swap is completed and loses nothing; an image that does not confirm itself is reverted; the other core gets the image it was sent |
| BLE/UART bridge: connection, other peripherals, centrals, NUS throughput, `app/ble/ble_uart`, `app/ble/throughput_nus` | connection objects, buffers of a heap, write semaphore, buttons | connection, pairing and discovery callbacks, UART interrupt, write thread, buttons | timeout against late acknowledgement; a reference released twice or never; a receive buffer that cannot be allocated | a link that is lost is searched for or offered again; buffers and references stay accounted for |
| nRF5340: throughput with flash writes, RPC between the cores, device threads, `nrf53_ble` | roles, blocks in shared memory, pools of RPC threads, counters in flash | two cores on two boards, buttons, shell, resets | a block that overwrites another; a callback that calls the other core and waits; a reset between two writes to flash | at most two blocks without an acknowledgement; calls return; what one core believes of the other is true; counters survive |
| nRF91: UDP with FOTA, UDP low power, MQTT, A-GPS, cells, `app/nrf91` | socket, connection state, work items, image on trial | modem and cloud events, main threads, buttons, downloads, resets | reconnection after every kind of failure; a button during a download; an update that is not confirmed | an upload that failed is followed by another; a client that lost its broker connects again; one download at a time; an image is confirmed only when it was online |
| Bluetooth and driver samples, utilities, `app/ble`, `app/driver`, `util_test`, `watchdog_mcuboot` | a connection, an advertiser, a ring, a counter | connection callbacks, buttons, work items, threads | order of encryption and discovery; slots of connections; devices bound by name | links are kept, slots used once, values agree with what they were read from |
| Printing and blinking samples, stages of the loader kept beside binary images | little or none | one loop each | - | not worth a model |

`k_fifo`, `k_heap`, `k_work`, `k_msgq`, the nRF Cloud library and the Bluetooth
host are outside the repository.  They are modelled only where the code uses
them and marked external: `k_work_schedule` and `k_work_cancel_delayable` with
the flags of Zephyr 2.6 (an item being cancelled refuses to be scheduled),
`k_malloc`/`k_free`, and the transport as the sequence of events it delivers.
The Bluetooth host of the ISO receiver calls `iso_connected` for one channel
at a time (the sample output in its `README.rst`, lines 75 to 77, shows the main
thread running in between), but `iso_disconnected` for all channels of a BIG in
one go; an established sync that is deleted is reported to `term_cb`.

## Modules

| Module | Models | Notes |
|---|---|---|
| `RecentData` | what `aggregator.h` promises | abstract: a sequence that gives up its oldest element at the limit |
| `Aggregator` | `aggregator.c` | one action per function and outcome; each runs under `irq_lock()`, so each is one step |
| `CloudLink` | cloud events and `cloud_connect()` of `main.c` | `main_pc` is the main thread, `wq_pc` the work queue; an event handler is split where another thread can tell: flag first, work item next |
| `SensorGateway` | `ble.c` callbacks, `gps_handler`, `alarm.c`, main loop; composes `Aggregator` and `CloudLink` | `put` and `alarm()` are separate steps, as are test, clear, get and send of the drain |
| `UartBridge` | `main.c` and `uart_async_adapter.c` of the bridge | the receive side is one record; a callback is a function from records to records, which gives the nesting of the code |
| `PeerTracker` | `peer.c` | the interrupt is one step and may come between any two steps of the threads, which are split at every access to shared variables: the reads and the writes of `collect_cnt` and `closest_peer`, the two halves of `sys_slist_append()`, and the walks of `peer_supported_test()` and `peer_find()`. `missed` has the blocks that left the list during a walk; once there is one, the walk may end anywhere (`search`). `timeout_handler` leaves in the list what follows the last peer removed (`after`), as the removal at `peer.c:354` names no predecessor. `peer_thread` has the lowest priority and does not run inside `peer_supported_add()`, which never blocks |
| `IsoReceiver` | `receiver.c` of the ISO benchmark | `pc` is the main thread in `test_run_receiver()`; every callback is one step; semaphores of limit 1 are a set; `failed` records that a call to stop or delete failed, after which the code itself recommends a restart |
| `IsoStats` | `iso_recv()` of the same file | the ring and the three statistics, against the history of packets |
| `IsoBroadcaster` | `broadcaster.c` | the work queue is cooperative: its handler is interrupted only where it waits for a buffer; the timer, the handler and the console loop are told apart |
| `IsoBenchmark` | `main.c`; composes the three above | they share the main thread and no variable, so a behaviour has a `focus`: the role the operator picks every time, or the statistics |
| `PcdUpdate` | `9pcd.c`, `9main.c` | the command in shared memory, read and written by both cores; a step is one access the other core can tell apart |
| `BootLoader` | `9loader.c` with its network-core patch, the watchdog of `main.c`; composes `PcdUpdate` | `slot`, `trailer` and `idx` are flash and survive `Reset`; `swap_run()` and the trailer functions of bootutil are external; the application uploads, requests and confirms as its interface allows |
| `Firmware` | one program out of 21 small models (below), on one device | a behaviour chooses an `image` and runs nothing else; each program keeps its state in one record, so that all of them share the variable `state` |
| `AggregatorProofs`, `GatewayProofs`, `BridgeProofs`, `PeerProofs`, `IsoProofs`, `LoaderProofs`, `LinkProofs`, `FirmwareProofs` | theorems | about the modules they are named after; `BridgeProofs` is about `UartBridge`, `PeerProofs` about `PeerTracker`, `LoaderProofs` about `BootLoader` and `PcdUpdate`; `LinkProofs` holds the lemmas of the programs of `Firmware` that keep a link |
| `MC*` | values of the constants for TLC that a `.cfg` cannot write | |

The programs of `Firmware`:

| Module | Program |
|---|---|
| `GatewayBle` | search, connection, discovery and subscription of the gateway, Thingy:91 and nRF9160 DK |
| `NusCentral` | the UART centrals: discovery or fixed handles, receive buffers, writes with their timeout, bursts |
| `NusPeripheral` | connection, pairing and buttons of the UART peripherals, with the references to the connection object |
| `PlainUart` | the data path of the peripherals without the adapter, and the rate of a burst |
| `DmNode` | the advertising set of a distance node and its scanner; the peers are in `PeerTracker` |
| `FlashThroughput` | two boards of two cores each: roles, test, hand-over of blocks, flash writes |
| `CoreRpc`, `AppThreads` | `nrf53_ble/otherExamples`: calls between the cores with UART and SMP; the device threads with resets |
| `UdpFota`, `UdpLowPower`, `MqttClient` | nRF91 clients: uploads, updates with trial images, reconnection |
| `MultiCell`, `AgpsClient` | nRF91 location: measurements, cloud events, reboot by button or message |
| `BasRelay`, `CtsClient`, `PowerControl` | battery relay with its slots, time client, levels of power |
| `Peripherals` | six peripherals that wait for one central, with buttons and periods of silence |
| `SpiTest`, `UartSamples`, `BatteryMonitor`, `UtilTests` | drivers, samples and kernel exercises |

Definitions carry the names of the C functions and variables.  Definitions
introduced by the comment `Mutant:` are deliberate errors that nothing uses;
each one shows that a property can fail.

## Runs

| Run | Bounds | Result |
|---|---|---|
| `gateway` | limit 2, 2 blocks, 4 notifications between reboots, tags 1..4 | 10 properties hold, those of the aggregator among them. Four notifications overflow the queue while a datum is in the hands of the sender; allocation fails when the heap is exhausted, and at will; the tag wraps |
| `cloud_reconnect` | none needed | violation of `Reconnects`, see below |
| `uart_bridge` | 4 buffers of 2 bytes, 3 bytes in, 2 writes of up to 2 buffers | 5 properties hold. Lines end in the first and in the last byte of a buffer; both directions together exhaust the heap |
| `uart_stranded` | 1 byte, 1 write of 1 buffer | violation of `QueuedDataIsSent`, see below |
| `peer_tracker` | 2 addresses, 2 blocks, 1 distance, 3 allocations, 2 measurements, filter of 2, queue of 1, expiry at the second tick | 6 properties hold (483 011 states). A measurement feeds the filter twice, so it fills with the interrupt in between; a block is freed, reused and written through an old pointer; blocks leak before an expired peer and under an append; a walk that is cut short adds a peer twice. Distances only decide which peer is the closest, which no property is about |
| `iso_benchmark` | 2 channels, 2 transmit buffers, ring of 3 printed every 2 packets, 10 packets, counters modulo 9 | 7 properties hold. Any number of runs, each losing, timing out or being answered late at any point; the broadcaster with its last buffer gone; the ring wraps three times. Once the 32-bit total wraps the statistics claim nothing |
| `iso_average` | 1 channel, as in `prj.conf` | violation of `OncePerSync`, see below |
| `firmware_update` | 2 sectors, 3 resets, 2 uploads, 1 flash fault; 2 application images, 2 images of the network core (3 chunks through RAM, 2 in internal flash), 1 invalid image | 7 properties hold (508 088 states). Three resets interrupt a swap, its revert and the completion of that one; two uploads put an image for either core over one that is on its way |
| `loader_fail` | 2 resets, 1 upload, no fault | violation of `FailMeansErased`, see below |
| `netcore_copy` | 3 external images of 3 chunks, two of which differ in the last one, and an internal one | violation of `DoneMeansCopied`, see below |
| `programs` | 1 to 3 resets, losses, references, buffers or messages: the constants of `Firmware` | 5 properties hold (160 636 states). `LinkKept`, `Accounted`, `Agrees` and `Recovers` are conjunctions over the programs, each conjunct a named property of its module |
| `flash_overrun` | 1 loss of the link | violation of `NoOverrun`, see below |

Bounds that exist only for TLC are the constants `MaxNotify`, `MaxBytes`,
`MaxWrites`, `MaxChunks`, `MaxAdds`, `MaxResults`, `MaxPackets`, `MaxResets`,
`MaxUploads`, `MaxFaults`, in the programs `MaxReboots`, `MaxBoots`,
`MaxBacklog`, `MaxLosses`, `MaxRefs`, `NumBlocks` (messages of the threads),
`READS` (of a round over the flash) and `Voltages`, and the definitions marked
"bound"; all other constants are sizes of the program made small, the ring
`CHK`, the counters `CNT`, `THRESHOLD_CNT` and `NUM_SPEED_CACULATIONS` of a burst
among them.  For what is
proved no bound matters: the theorems hold for every value of these constants.

### What the violations show

*Reconnection.*  `main.c:380` announces "Reconnect to nRF Cloud."  The event
CONNECTED may arrive while the retry handler is still inside
`nrf_cloud_connect()`; cancelling then leaves the work item running and
canceling.  A DISCONNECTED event before the handler returns finds
`k_work_schedule()` refusing, the handler's own rescheduling is refused too,
and no retry is left.  `RetryLostOnlyByCancel`, which holds, says that this is
the only way.

*Stranded data.*  `README.rst:19` of the bridge says that data from BLE is sent
out of the UART.  `bt_receive_cb` queues a buffer after `uart_tx()` refused it;
when the transfer in progress ends between the two calls nobody sends the
queued buffer until some later write starts a transfer.
`AtMostOneStranded`, which holds, says that the effect does not accumulate.
The transfer ends in an interrupt in the default build; with the CDC ACM
driver the callback runs on the system work queue, which the Bluetooth thread
can also be interleaved with.

*Average duration.*  The comment at `receiver.c:236` announces a cumulative
moving average over the synchronisations.  `big_sync_count` is incremented only
after the wait for the BIG succeeded.  A channel that is connected after that
wait timed out, before `cleanup()` terminates the BIG, is disconnected by the
termination and enters the average uncounted; with a count of zero the
division is by zero.  With several channels, each of them enters the average.

*Failed network-core update.*  The comment at `9loader.c:1949` says of
`BOOT_SWAP_TYPE_FAIL` that the image in the secondary slot "was invalid and is
now erased", so that it is not tried again.  The same type is used when
`pcd_network_core_update()` fails; then the image is valid, stays in the slot
with its magic, and the same update is started on every boot.

*Copy by the network core.*  `bytes_moved` counts what was handed over, not
what was written, so `pcd_fw_copy()` leaves its loop before the last chunk is
written; the check that `9main.c:56` describes then accepts the firmware that
was there before if it differs in the last chunk only, and otherwise fails the
update.  `AllButLastCopied`, which holds and is proved, says that nothing else
is lost.

*Overrun.*  The README of the throughput test (line 12) excludes an overrun
because every block needs an acknowledgement.  `app_task` sends one before it
has received anything; two blocks can then be in shared memory, and the second
is copied over the first.  `WindowOfTwo` (part of `Accounted`), which holds,
says that there are never more than two.

*Peers that answer.*  `README.rst:62-63` of the distance measurement says that
the peers are stored in a list and that one that does not respond for a certain
time is removed from it.  `timeout_handler` removes it with
`sys_slist_remove(&peer_list, NULL, node)` (`peer.c:354`; the example for the DK
has the same line, `nrf_dm_nrf52840_dk_v191/src/peer.c:265`).  Without a
predecessor the node is taken for the head, and what follows it becomes the new
head: every peer before it leaves the list although it responds, and its block
is never freed.  The peer is added again with its next scan report, on another
block, until the heap has none.  This is not a run of its own: `LostBehindExpired`
(part of `ListAccounted`), which holds and is proved, names it as the only way to
lose a block besides an append to a tail that has just expired, and without its
first disjunct TLC finds it violated.

*Image_ok and copy_done.*  Worth knowing, too: when the write of `image_ok`
fails (`9loader.c:1584`), a swap that was resumed still gets its `copy_done`
before the loader stops, a clean one does not and is completed again by the next
boot (`SetImageOk` in `BootLoader`).

### Fairness

Weak fairness of a thread step means that the scheduler runs ready threads, of
a timer or a delayed work item that its time comes, of a started UART transfer
that it ends.  Arrivals (bytes, writes, notifications, fixes, scan reports,
cloud events, everything the radio does in the ISO receiver) and failures are
never fair.  `nrf_cloud_process` in
`SensorGateway` is strongly fair: the main loop calls it again and again and it
returns after at most its poll timeout, although cloud events handled in it
disable the step in between.

In the loader both cores and the loader's own steps are weakly fair, and so is
the watchdog's reset of a loader that hangs, if it was started; power resets,
uploads and flash faults are not.  In `IsoBenchmark` the main thread is weakly
fair while it is in the receiver, where every wait has a timeout; the operator
is not.  In `Firmware` threads, work items, transfers that were started and an
unfed watchdog are weakly fair; `connect` of the MQTT client and
`modem_configure` are strongly fair in their successful outcome, that is, an
attempt that is repeated for ever succeeds once.

## Proofs

tlapm proves the following for every value of the constants, from the
assumptions `AggregatorAssumption` (the limit is positive), `GatewayAssumption`
(types of the sensor values), `BridgeAssumption` and `PeerAssumption` (sizes of
buffers, queue and filter), `IsoAssumption` and `BenchmarkAssumption` (there is
a channel, a history and a buffer), `PcdAssumption` (images are non-empty
sequences of chunks), `LoaderAssumption` (images are told apart, a slot has a
sector) and `FirmwareAssumption` (there is a buffer and a reference, counters
and the ring are not empty, a burst has more than one rate, as `main.c:63` of
the throughput test has it, voltages are not negative, and the battery relay
has more slots than connections, as in its source).

* `AggregatorProofs`.  `CountIsLength` and `HeapSafe` are not inductive one
  without the other or without the types: reuse at the limit dequeues from a
  queue that is non-empty only because the counter is its length, and keeping
  blocks distinct needs both that queued ones are not free and that none is
  queued twice.  The inductive invariant is
  `AggInv == AggTypeOK /\ CountIsLength /\ HeapSafe`; from it follow
  `CounterCorrect`, `HeapCorrect` and `AggregatorImplementsRecentData`: each
  operation, read through the refinement mapping `QueuedData`, is a step of
  `RecentData` or a stutter (an allocation that fails).
* `GatewayProofs`.  Every step of the gateway is a step of the aggregator (a
  reboot is a clear), so the aggregator's theorems carry over:
  `GatewayKeepsMostRecent`.  `GatewayInv` adds the types of the gateway
  (`GatewayTyped`); `AlarmNeverLost` is inductive relative to it.  For the
  connection, `CloudInv` states what the two threads know of each other: where
  the main thread is agrees with the flag, the flag with the transport, and
  the work item's flags with the handler.  From it follow
  `SendsOnlyWhenReady`, `ConnectedNeverRetries` and the action property
  `RetryOnlyCancelled`.  `PositionsSentInOrder` rests on `PositionsInv`: until
  it wraps the tag is at most one ahead of the number of data received, so it
  grows with every fix; and a queue that gives up its oldest element stays in
  order (`PutShifts`, `PutOrder`).
* `IsoProofs`.  `BenchmarkRunsReceiver` shows that the composed benchmark runs
  the receiver as it is specified alone.  The inductive invariant `ReceiverInv`
  says, for each place of the main thread, what the scanner, the PA sync and the
  BIG can be: `ChannelsCounted` (connected channels and the state of the BIG),
  `ScannerKnown`, `PaKnown`, `BigKnown` (a signal in `sem_big_sync_lost` is of
  this run, unless the BIG is gone).  From it follow `ReceiverTyped`,
  `ReceiverStartsClean` and `ReceiverLeavesLostBig`.
  For the broadcaster `BroadcasterInv` says where the main thread can be while
  the BIG, the timer and the handler are in which state; for the statistics
  `StatsInv` says that the ring holds the last packets (`RingKnown`) and that
  the counters are those of the history.  From them follow
  `BroadcasterBroadcasts`, `BroadcasterLeavesNothing`, `RatesAreTrue` and
  `BenchmarkTyped`.  `IsoStats` counts with `Cardinality`, so that the sum over
  the ring is compared with the window of packets by a bijection instead of an
  induction over the ring.
* `BridgeProofs`.  A callback is a function from records to records, so there
  is one lemma per callback, and a nested callback cites that of the inner one.
  `FullInv` says of every record on the way, not only of the states between
  steps, that each buffer is in one place, and which bytes it holds.  From it
  follow `BridgeTyped`, `BuffersHaveOneOwner`, `BridgeLosesNoByte` and
  `StrandsAtMostOne`.
* `PeerProofs`.  `PeerInv` says where each block is and what the Bluetooth
  thread holds in which of its steps, that the address about to be added is not
  listed if nothing left the list during the test (`AddressesApart`), and ties
  the fill level read by a thread to the steps of the interrupt in between.
  The loop that looks for the closest peer is a recursive function; that such a
  loop has a value (`LoopExists`) and that it is a peer of the list
  (`ClosestInList`) is shown by looking at the least index at which the claim
  fails (`LeastElement`) rather than by the induction rules of the library.
  `TimeoutFacts` says what an interrupt leaves of the list, by `AfterFacts`: a
  suffix, behind the last peer that expired.  From `PeerInv` follow
  `PeerTypeCorrect`, `BlocksStayApart`, `FilterStaysWithinBuffer` and the action
  properties `ListStaysAccounted` (from `LossBehindExpired` and
  `DuplicatesOnlyTorn`) and `StaleThroughThread`.
* `LoaderProofs`, the copy for the network core.  A chunk is written or available and never both, and
  `bytes_moved` is one ahead of what is written unless it is the application
  core's turn (`Turn`).  A reset keeps the command but not the turn; `Left` says
  what that leaves: the network core can then end its loop only if nothing but
  the last chunk was missing.  From `PcdInv` follow `CopyLosesOnlyTheLast` and
  `CoresTakeTurns`.
* `LoaderProofs`, the loader.  Four invariants, each inductive with those before it;
  `RecordInv` gives the types (`LoaderTypeCorrect`).
  `JumpInv` needs no assumption on faults: a step that swaps sectors does so in
  a recorded swap, what runs was validated since its slot was written, and no
  sector of the network core's images is where a swap can take it
  (`NoNetSector`).  `SwapInv` and `TrialInv` hold as long as no flash operation
  failed: two images exchanged up to `idx` while a swap is recorded, and the
  last confirmed image in the primary slot, in the secondary slot or half
  exchanged, according to the trailers (`GoodKept`, `TypesAgree`).  From them
  follow `LoaderJumpsIntoWholeImage`, `LoaderSwapLosesNothing`,
  `LoaderCanRevert` and `LoaderEndsTrial`, for every number of sectors, resets,
  uploads and images.

* `LinkProofs` and `FirmwareProofs`.  `FirmwareInv` is a conjunction over the
  twenty-one programs, with one inductive invariant each; only the program in
  flash takes steps (`FirmwareStutters`, `FirmwareKept`).  From it follow
  `FirmwareTyped`, `LinksAreKept`, `HandOversAccounted` and `BeliefsAgree`: all
  safety properties of the run `programs`.  What each of them needs beyond the
  types:
  * links: `NuscInv` that the buffers fit into the heap, `NuspInv` that the
    connection the program holds is the one that is up and that each pointer is
    counted in the object, `PerInv` that the host advertises again by itself
    until told to stop, `DmnInv` that a set created while nobody asks for another
    has the parameters of the link, and `BasInv` that a slot is always free: no
    two slots belong to one connection and there are more slots than connections
    (`BasRoom`), so `connected()` always starts the scanner again; counting them
    gives `OneSlotEach`;
  * `FlashThroughput`: `ThrWindow` counts blocks, the semaphore and the step of
    both cores together: the blocks sent and the acknowledgements on their way, the
    one of the start among them, are at most one ahead of the blocks written, two
    while the network core receives one (`WindowOfTwo`);
  * `PlainUart`: `UarOwns` says that heap, driver, work item, queues and the hands
    of a thread have no buffer in common, as long as no line came too late
    (`uart_rx_rdy_late`; `BuffersOwned` claims nothing after it); `UarDriver` and
    `UarStart` say what the driver holds in which state.  `UarRate` ties the
    packets of a burst to the counter that decides when a rate is printed;
  * `UtilTests`: `UtlChained` states that the messages in the queue continue those
    printed, each thread's counter by one, through a history of expected counters
    (`UtlChain`), so that taking the first and appending a last one is a step of
    that history and no induction over the queue is needed;
  * `SpiTest`: `SpiRing` says that the ring ends with the most recent transfers,
    for every size of the ring; division of the index is in lemmas of its own;
  * `BatteryMonitor`: the level is decided by the first point of the curve at or
    below the voltage; that there is one at most (`BatPoint`) and that the division
    stays between its neighbours holds for each segment of the two curves of the
    source and for every voltage;
  * `UartSamples`: where the two threads may be while the UART is on or off
    (`PrtLogic`); `CoreRpc`: buffers that wait and refusals that are being handled
    are two at most (`RpcLogic`); `AppThreads`: the counters in RAM against those
    in flash (`DevCounts`); `UdpFota`, `UdpLowPower` and `PowerControl`: what a
    reset or a failed call leaves (`FotaLogic`, `UdpLogic`, `PwrLogic`).  The
    properties of `MultiCell`, `AgpsClient` and `CtsClient` are inductive with
    the types, and of `MqttClient` only the types and liveness are stated.

The SMT encoding of tlapm 1.4.5 states for every value, sequence or not, that
`DOMAIN S = 1 .. n` is the same as `Len(S) = n`, which contradicts other facts
about functions with such a domain.  All obligations were therefore discharged a
second time with that axiom restricted to sequences.

Checked by TLC only: liveness (`UrgentDrained`, `ReceiverRestarts`,
`SilentPeerExpires`, `LostBigRestarts`, `Boots`, `Recovers`), since the prover
does not handle fairness.  Every invariant and every action property of a
passing run is stated by a theorem.

Sizes of the programs (`CHK`, `NumBufs`, `CNT`, `THRESHOLD_CNT`,
`NUM_SPEED_CACULATIONS`) are constants rather than definitions, so that the
theorems hold for the sizes of the source and not only for those of the run.

## What is not modelled

* Text: NMEA sentences, the strings sent to the cloud, LED patterns and colours
  as such, log messages.
* In the bridge: `tx_abort`, the transmit timer (transfers use no timeout) and
  `on_error` (the device the adapter wraps reports no errors).
* In `PeerTracker`: the values in the filter, and what a write through a stale
  pointer, or through a tail that is gone, does to heap metadata or to address
  0: the model goes on as if the write had no effect on list and heap.  A fault
  that resets the device starts another behaviour from `Init`.
* In the ISO benchmark: durations (only how often a BIG enters the average), the
  parameters of syncs and of the broadcast, except the number of channels, the
  formatting of the statistics, the amplifier pins.
* In the loader: overwrite-only, encryption, several images, direct XIP and RAM
  load, which are not compiled (`9loader.c` 2105 to 2637 among them); the inner
  steps of bootutil; scratch and moved sectors of a swap using move, whose
  exchange of a sector is one step.
* Rates, durations, signal strengths and levels as numbers, except where a
  property is about them (`RateOfBurst`, `LevelOnCurve`, `LevelChosen`).
* Files with the same control as one that is modelled: `loader.c`, `loader1.c`,
  `loader2.c` and `loader3.c` are earlier stages of `9loader.c`, kept beside
  binary images; `main.c` of `boot_and_app_nowdt` and of the mcuboot patch is
  that of `boot_and_app`; `peripheral_uart_pa_lan` is the v1.5.1 peripheral with
  amplifier pins; `udp_lp_test_M1_RAI` has the control of `udp_lp_test`;
  `aggregator.c` and `alarm.c` on the nRF9160 DK are those of the Thingy:91, and
  its `main.c` keeps the same flag and retry work item; the distance node on the
  DK differs in its LEDs.
* Code that cannot run: `central_bas2` never connects (its connection code is
  not reached); `rpc_app_nus.c`, `rpc_net_nus.c`, `rpc_thread.c` and
  `rpc_thread2.c` are not built with `CONFIG_RPC_REMOTE_API`; the carrier
  library of the MQTT clients is not selected.
* Programs that blink or print in one loop.

## What could follow

1. The filter of the distance measurement (selection sort, trimmed mean) against
   a reference definition, and the distance node on the DK.
2. The nRF9160 DK gateway as an instance of `SensorGateway` with its own
   `CloudLink`.
3. The forwarding of received data to the UART in `NusCentral`.
