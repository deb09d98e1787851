# A verification of miniDTN's bundle transport

miniDTN is an implementation of the Bundle Protocol (RFC 5050) for small nodes:
µDTN of Contiki, ported to FreeRTOS, with an IEEE 802.15.4 radio and an Ethernet
interface. This directory holds TLA+ models of its core logic, the TLC
configurations that check them and proofs for TLAPS. All paths below are relative
to `src/`; `D` stands for `core/net/uDTN/convergence_layer_dgram.c`.

Contents: 1 how the system is scheduled; 2 the inventory; 3 the modules; 4 the
runs; 5 fairness; 6 the proofs; 7 what the checks found; 8 what is not modelled;
9 the plan.

## 1. Scheduling, and what a step is

`Inc/FreeRTOSConfig.h:98` sets `configUSE_PREEMPTION 0`: a task runs until it
blocks. What a task does between two blocking calls is one atomic step of the
models. A call that blocks in the middle of an operation splits it in two:

* **lowpan** (the radio). `convergence_layer_lowpan_dgram_send_*` calls the MAC,
  which busy-waits and calls the status callback before the send returns. Sending
  and the callback are one step.
* **UDP**. `netconn_sendto` waits for the lwIP thread. Tasks with the priority of
  the CL task or a higher one (the CL process, 5; the radio's receiver, 6; the UDP
  receiver, 5) may run before the send returns. Those below it (agent and timers, 4;
  flooding, 3; CL timeouts, 1) do not get the processor in that time. So a send over
  UDP is two actions, and the actions of the lower tasks have the guard `NoFlight`.

The real constants are QUEUE = 10, QUEUE_FREE = 2, RETRIES = 4, FAILED_RETRIES = 15,
a lock timeout of 200 ms, a retransmission timeout of 100 ms, RETRANSMIT_TRIES = 2, a
reception timeout of 10 s, and sequence numbers modulo 4 (lowpan) and 16 (UDP).

## 2. Inventory

### Convergence layer (`D`, `convergence_layers.c`) - modelled in two modules
State: a pool of ten *tickets* and the list of those in use; two counters kept by
hand beside them (`convergence_layer_slots`, `convergence_layer_queue`); the list
of *blocked neighbours*, locked until they acknowledge what they were sent;
`outgoing_sequence_number`, `last_multipart_seqno`, `backoff_pending` and a binary
semaphore that wakes the task.
Operations: routing enqueues a bundle; the CL task makes one pass over the list and
sends one frame; the MAC reports; data frames and acknowledgements come in; the
agent deletes a bundle or reports a neighbour lost; the timeout task drops stale
locks and receptions.
Interactions: calls routing (`ROUTING.sent`) and dispatching, which call back into
it (deleting a bundle frees its tickets) in the middle of its own operations.
Hard: callbacks that free the ticket the caller goes on with; sends that block;
late, lost or repeated acknowledgements; few sequence numbers; priorities in one
small pool; wake-ups through a binary semaphore.
Correct when: counters, list and pool agree; bundles leave room for
acknowledgements; at most one acknowledgement per neighbour is awaited; tickets
and locks do not leak; what arrives is what was sent, and what is reported as sent
has arrived.

### Link adapters (`convergence_layer_lowpan_dgram.c`, `convergence_layer_udp*.c`)
State: a transmitting flag (lowpan), a buffer, sockets. They build and parse the
header of a frame and translate the MAC's result into a status. UDP reports success
once the datagram is handed to lwIP, lowpan once the MAC acknowledgement is in.
Modelled as inputs and as the split send described above.

### Flooding routing (`routing_flooding.c`) - `BundleFlow`
State: one entry per bundle with flags (local, forward, in delivery, in transit), the
nodes that have it (at most `ROUTING_NEI_MEM`) and the address it came from; a task
that sleeps until it is resumed. Operations: new bundle, delete, one pass over the
entries, the callbacks `sent` and `locally_delivered`.
Interactions: reads storage, asks delivery and the convergence layer, deletes bundles,
which makes the agent delete the entry.
Hard: an entry stays *in transit* until exactly one callback arrives; callbacks delete
the bundle, and with it the entry; a pass stops at the first refusal; a missed
wake-up leaves bundles lying.
Correct when: no entry stays in transit without a ticket, no neighbour gets a bundle
twice, a bundle is deleted only when nobody needs it any more, and what can be sent is.

### Bundle slots and volatile storage (`bundleslot.c`, `storage_mmem.c`) - `BundleFlow`
State: slots with reference counts, the list of stored bundles, locks. Operations:
save (which prunes and may evict), read, delete, prune by lifetime, lock. Hard:
references held by tickets and applications across deletions; failures after room has
been made. Correct when: a count equals the number of those who will give it back, a
locked bundle is not removed, a bundle is removed only for a reason.

### Agent, dispatching, redundancy (`agent.c`, `dispatching.c`, `redundancy_*.c`) - `BundleFlow`
State: an event queue that loses what does not fit, the ring of known bundles. Hard:
one of several steps fails after the bundle was acknowledged. Correct when: a stored
bundle is announced, an application's bundle is not forgotten.

### Registration and delivery (`registration.c`, `delivery.c`) - `BundleFlow`
State: registered services with a busy bit each, in blocks that are not cleared. Hard:
a service is removed, replaced or made passive while it has a bundle. Correct when: a
service is busy exactly while it has a bundle, and that bundle stays locked.

### Discovery (`discovery_ipnd.c`, `discovery_scheduler_*.c`) - `Discovery`
State: the neighbour table, with two links and two timestamps per entry. Operations:
a beacon or another frame comes in; a timer drops silent links. Hard: both links of
one neighbour appear and vanish on their own, entries are shared or doubled depending
on which link is heard first, and the sweep removes what it walks over. Correct when:
a source belongs to one entry, silent links go and heard ones stay, and the
convergence layer and the agent learn of it.

### Persistent storage (`storage_fatfs.c`) - `FileStorage`
State: a list of entries in memory, files on an SD card, a semaphore given by each
deletion. `storage_fatfs.c` is always compiled; `BUNDLE_CONF_STORAGE` (a comment in the
`Makefile`) selects it, and by default it restores the files it finds. Operations: save
(which waits for room, and for the file to close), delete, prune, lock, read, restore.
Hard: power lost between any two of its steps; other tasks that run while it waits.
Correct when: list and directory agree, what was reported as stored survives, what
was deleted does not come back, a save ends.

### Data formats (`bundle.c`, `sdnv.c`, `eid.c`, `bundle_ageing.c`, `administrative_record.h`) - not modelled
Conversions of bytes and arithmetic on times, without control: unit tests reach them.

### MAC and radio (`nullrdc.c`, `mac-sequence.c`, `rf230bb.c`, ...)
Outcome of a frame (acknowledged, not acknowledged, collision, error) is an input
of the models. The duplicate history of `mac-sequence.c` is not modelled.

### Not to be modelled
Status reports and custody (the call for incoming bundles is commented out in
`dispatching.c`), clock and statistics, memory compaction of `mmem.c`, start-up and
drivers, examples, modules that this platform does not compile
(`routing_chain.c`, `discovery_basic.c`, ...), vendored code (FreeRTOS, lwIP, FatFs,
HAL). `PROJECT.json` gives the files and the reason for each.

## 3. The modules

| module | what it is |
|---|---|
| `ConvergenceLayer` | the tickets, locks, retries and timeouts of one node towards several peers |
| `ConvergenceLayer_proofs`, `OneAwaited_proofs` | TLAPS proofs about it; the second: acknowledgements in turn |
| `SegmentedTransfer` | both ends of the transfer of bundles to one neighbour: segmentation, sequence numbers, acknowledgements |
| `ReliableTransfer` | the promise to routing that `SegmentedTransfer` implements |
| `SegmentedTransfer_proofs` | TLAPS proofs about it, the implementation of `ReliableTransfer` among them |
| `BundleFlow` | the way of bundles through one node: agent, dispatching, storage, routing, delivery, and the tickets as they see them |
| `BundleFlow_proofs`, `BundleHistory_proofs` | TLAPS proofs about it; the second: what happens to a bundle over time, and services |
| `MCBundleLive` | its liveness, asked from the time on at which things calm down |
| `Discovery` | the neighbour table |
| `Discovery_proofs` | TLAPS proofs about it |
| `FileStorage` | bundles as files: saves in steps, power failures, restart |
| `FileStorage_proofs` | TLAPS proofs about it |
| `Lists` | what a loop that removes elements leaves of a linked list |
| `Lists_proofs` | TLAPS proofs about it, and about removal at a position |
| `MCConvergenceLayer`, `MCSegmentedTransfer`, `MCBundleFlow`, `MCDiscovery`, `MCFileStorage` | symmetry, bounds and constant functions for TLC |

The two CL modules divide one source file by concern. `ConvergenceLayer` treats a
frame as what it makes this node do (single, first, middle or last segment; ack,
nack, temporary nack, with or without the expected number) and lets it arrive at
any time. `SegmentedTransfer` follows frames from one end to the other and leaves
the counting of retries and the contention for tickets to the other module: an
attempt may be given up or a segment refused at any time.

### ConvergenceLayer

| TLA+ | code |
|---|---|
| `pool.ticket`, `.used` | `transmission_ticket_mem` (memb blocks `1 .. QUEUE`, first free block taken) |
| `pool.list` | `transmission_ticket_list` |
| `pool.slots`, `.queue` | `convergence_layer_slots`, `convergence_layer_queue` |
| `flags` of a ticket | the `CONVERGENCE_LAYER_QUEUE_*` bits |
| `left`, `sent` | the segments from `offset_acked` on; `offset_sent > offset_acked` |
| `due` | the timestamp is older than the timeout that applies |
| `blocked` | `blocked_neighbour_list`, `old` when the 200 ms are over |
| `sem`, `backoff` | `transmit_reqest_sem`, `convergence_layer_backoff_pending` |
| `clpc` | where the CL task waits: for the semaphore or in its 1 ms delay |
| `flight` | per task, the ticket whose datagram `netconn_sendto` is sending |
| `crashed` | a NULL ticket was written to; nothing runs after it |

Actions: `EnqueueBundle` (`routing_flooding_send_bundle`); `CLBackoff`,
`CLNothingToSend`, `CLResendAck`, `CLSendBundle`, `CLDropBundle` (one pass of the
task, by what it sends); `UdpSent` (a blocked send returns and its status callback
runs); `DataFrame`, `AckFrame` (incoming frames, with the answer that is sent);
`DeleteBundle`, `NeighbourDown` (agent); `Elapse`, `ElapseLock` (time),
`CheckTimeouts` (the timeout task); `SendDiscovery`. The callback into routing is
the operator `RoutingSent`: it yields the pools routing may leave behind.

The parameter `Faults` selects failing paths: a bundle that cannot be encoded or is
expired and locked (*unsendable*), one that the storage cannot read back
(*unreadable*), routing that deletes the bundle in its callback (*routing_deletes*).
The last is the ordinary end of every bundle that has reached enough neighbours;
it is a parameter because the counters are wrong from then on (section 7).

### SegmentedTransfer

| TLA+ | code |
|---|---|
| `tk` | the sender's ticket: `seq`, `acked` and `done` for `offset_acked` and `offset_sent` counted in segments, `multi` (MULTIPART), `pend` (ACK_PEND) |
| `out` | `outgoing_sequence_number` |
| `locked` | the neighbour is in `blocked_neighbour_list` |
| `sending` | the outcome of the datagram that is being sent (UDP) |
| `data`, `acks` | frames in the air, at most `Channel` each way |
| `rx`, `last` | the MULTIPART_RECV ticket of the receiver, `last_multipart_seqno` |
| `accepted` | the buffers dispatching has taken |
| `sent`, `todo` | bundles reported as `ROUTING_STATUS_OK`; bundles routing still offers |

`Send` is `prepare_segmentation` with the MAC's report, `SendReturns` the end of a
blocked send, `Acknowledge` is `parse_ackframe`, `Receive` is `parse_dataframe` with
its reply, `LockTimeout` and `ReceiveTimeout` are the two timeouts. Each frame or
acknowledgement may be lost. A failed attempt leaves the ticket for a retry or gives
it up, after which routing enqueues the bundle again.

The links keep the order of frames. `Faults` adds what happens less often: the MAC
acknowledgement of a frame that did arrive is lost (*unseen*); an acknowledgement
takes longer than the lock's 200 ms or overtakes the return of the send (*late*); an
acknowledgement arrives twice, since it is itself retransmitted when its MAC
acknowledgement is lost (*repeated*); the last segment is refused for lack of
memory, storage or lifetime (*last_refused*).

### BundleFlow

One record, `node`, holds what the node knows of each bundle; the effect of a handler on
it is a function from records to records, so that handlers which call each other
(`bundle_sent`, `check_keep_bundle`, `delete_bundle`, `free_transmit_ticket`) compose as
in the code.

| TLA+ | code |
|---|---|
| `stored`, `locked` | `bundle_list` and its flag LOCKED |
| `ref` | `bundle_slot_t.ref` |
| `routed`, `flags`, `sentTo`, `from` | `routing_list`; `flags`, `neighbours[0 .. send_to-1]`, `received_from_node` of an entry |
| `ticket[b]` | the ticket of b: `to` (neighbour), `reads` (`ticket->bundle` is set), `multi`, `pend` |
| `app` | where an application or its event has the bundle: *new*, *sending*, *inbox* (given to a service), *done* (event on its way), *lost* (the event did not fit) |
| `answered` | history: who has taken or refused the bundle |
| `queue`, `ring` | `event_queue` of the agent, `redundance_bundle_list` |
| `reg` | `registration_mem` block by block; a block that is freed keeps `busy` |
| `nbrs` | the nodes in the neighbour table |
| `awake` | the routing task has been resumed since its last pass |

Actions: `Receive` (`dispatching_dispatch_bundle`, from check of reports to event);
`AppSend`, `AppDone`, `AppCall` (applications); `AgentSend`, `AgentStored`, `AgentDone`,
`AgentBeacon`, `AgentCall` (`agent_process`, by event); `RoutingPass`
(`send_to_known_neighbours`); `ExpiredAttempt`, `UnencodedAttempt`, `Attempt`, `Answer`
(what the convergence layer does to a ticket, with its callback into routing);
`NeighbourUp`, `NeighbourDown`, `Expire`, `Prune`.

A bundle that is announced has one ticket at most, so tickets are indexed by bundles.
The numbers of tries, locks and counters are `ConvergenceLayer`'s business: an attempt
succeeds, is retried or fails at any time. The two modules meet at enqueue, `sent` and
delete, and each lets the other side's part happen whenever it can.

`Faults` selects failing paths: the agent's queue or that of a service is full, memory
is short, other tickets fill the pool, a bundle cannot be encoded, the MAC fails for
good, the destination refuses a bundle, a bundle expires while a service has it.

### Discovery

`table` is `neighbour_list`, in its order; an entry's `links` are the bits of
`addr_type`, its `age` the time since `timestamp_last_*`. `Beacon` is
`discovery_ipnd_receive` with `save_neighbour`, `Alive` is `refresh_neighbour`, `Sweep` is
`remove_stale_neighbours` with all it calls, `Tick` is a second. `silence` is a history,
from which the properties learn what was heard when; `out` is what the last step told
the convergence layer and the agent. The period of the timer equals the timeout.

### FileStorage

`store.list` is `bundle_list`, `store.card` the whole files in the directory with the
`rec_time` in them, `store.freed` the semaphore `bundle_deleted_sem`; `store.fate` is a
history: *kept* or *discarded* once `save_bundle` has returned 1, *gone* or *left* once the
bundle is deleted, by what became of the file. `storage_fatfs_save_bundle` is cut where it
lets other tasks run or where a power failure can tell the difference: `Save` and `Woken`
up to the wait for room or to the written file, `TimedOut`, `Reread` (a victim's file
could not be opened, and the task has slept), `Delay` (a failed `f_close` sleeps), `Close`
(closed or given up, and listed), `Discard` (not written: closed or given up, and
removed), `Abort` (not opened). `running` is the task that has not given the processor
away yet.
`PowerOff` may come between any two steps and keeps the files; `PowerOn` is
`storage_fatfs_reconstruct_bundles`. `Delete`, `Lock`, `Prune` are the operations of other
components. `stuck` marks the endless loop of section 7.

`Reads` says what may come of reading a bundle back for its report: it is there, its file
cannot be opened (then `file_close` sleeps between its attempts, so other tasks run), or
it fails at once. A file cannot be open twice, and no more than `MaxOpen` at a time.
`Faults` selects what fails: creating or writing a file, an attempt to close it, every
attempt to close it, removing it, reading it, and memory. Closing a file that was only
read does not fail.

## 4. The runs

| run | bounds | shows |
|---|---|---|
| `cl_radio` | 3 tickets, 1 reserved, 2 retries, 1 radio peer, 3 bundles of 1 or 2 segments, all frames and outcomes but *fatal* | `TypeOK`, `CountersAgree`, `ReserveKept`, `OneAwaited`, `WakeUpsKept` |
| `cl_udp` | 3 tickets, a radio and a UDP peer, 1 bundle, first segments and acks arrive, *unsendable* | `ListMatches`, `LockedOnce` although tickets are freed under a blocked sender |
| `cl_live` | 3 tickets, 2 radio peers, 2 bundles, first segments arrive, fair | `TransientFreed`, `LockReleased`, `OldestIsTried` |
| `cl_double_free` | 3 tickets, 1 radio peer, 2 bundles, *routing_deletes* | a violation of `CountersAgree`, section 7 |
| `st` | bundles of 5, 2 and 1 segments, both links with their real numbering, 2 frames in the air each way, no extra faults, fair | `TypeOK`, `Intact`, `AckedIsAccepted`, `ImplementsReliable`, `Recovers` |
| `bf_safe` | 3 bundles (flooded and long; unicast from here; a report of its delivery), 1 slot, 1 ticket, 1 service, 2 peers of which one has only an IP address, 2 events, 2 receivers remembered, six faults | `TypeOK`, `RefsAgree`, `InTransitHasTicket`, `NoRepeat`, `KeptUntilServed` |
| `bf_services` | 2 bundles, 2 services that share 2 registration blocks, calls of every kind, 1 receiver remembered, queues full, fatal errors | `GivenIsLocked`, `NoRepeat` |
| `bf_live` | 2 bundles for one service and both peers, 2 slots, 1 ticket, 1 event, fair from some time on | `Announced`, `BusyIffGiven`, `LocalDelivered`, `ForwardedIfHeard` |
| `bf_expired` | as `bf_safe` with one receiver remembered, with *expired_held* only | a violation of `RefsAgree`, section 7 |
| `nb` | 2 nodes, 2 IP addresses that move, 3 entries, timeout of 2 s | `TypeOK`, `LinksUnique`, `NoGhosts`, `KeptWhileHeard`, `ChangesReported` |
| `fs_power` | 2 tasks, 3 bundles of 3 priorities, 2 places, 2 attempts to close, clock of 3 s, power lost at any time and any number of times, writing fails, closing fails but for the last attempt, fair | `TypeOK`, `ListIsDirectory`, `Survives`, `SaveReturns` |
| `fs_faults` | 2 tasks, 2 bundles, 1 place, power lost, every fault | `TypeOK`, `ListedHasFile`, `FilesKept` |

Why the bounds are enough to make the interesting cases happen:
* Three tickets with one reserved is the smallest pool in which a bundle, a
  reception and an answer compete, a normal ticket is refused while a priority one
  is granted, and the pool runs full; three bundles are one more than may be
  queued in it. The proofs of section 6 drop the bound.
* Two retries let a ticket be retried and given up; one (`cl_live`, `cl_udp`) makes the
  first failure final for bundles and leaves `RETRANSMIT_TRIES = 2` for answers.
* Five segments make the lowpan numbers wrap round (modulo 4) within one bundle and,
  with retries of the whole bundle, the UDP numbers (modulo 16) as well.
* Two frames in the air let an old frame or acknowledgement meet a newer one. Both
  ends wait for each other, so more accumulate only through *late* or *repeated*.
* `MaxSegments = 2` in `cl_radio`: with `left` and `sent` a ticket tells an
  acknowledgement of an inner segment, a final one, and a superfluous one.
* One slot and one ticket make every bundle an evictor and every second request a
  refusal; with two receivers remembered a bundle survives two answers and is deleted
  by the third, so entries with no, some and all places used occur, here with the
  service as one of the receivers. The proofs drop these bounds too.
* Two services for two blocks: one can be removed and the other take its block, busy
  bit included.
* `Cache = 3` for two nodes with two links each: entries can be split, merged by a
  changed address, and refused.
* Two places for three bundles: a save finds room, evicts, waits and times out, and a
  block is in use that is not in the list. A clock of three seconds, with lifetimes of
  one, wraps round while bundles wait.

`Recorded` names the bundles whose answers are remembered; it bounds the history.
`WakeUpsKept` also holds with a UDP and a radio peer (a trial run, 1.1 million states), and
the properties of `fs_power` with one file open at a time (`MaxOpen = 1`).

`DriftBound` (a state constraint of `cl_udp`): over UDP a ticket can be freed twice,
and then the counters drift down without limit; the run leaves out states in which
they are below -1. No other run is constrained.

`MCConvergenceLayer!Interchangeable` makes the bundles symmetric. The runs that use it check
invariants and one property of single steps, `WakeUpsKept`, for which a reduction by symmetry
is sound; no run with a liveness property uses it.

`CHECK_DEADLOCK FALSE`: a node that has written to a NULL ticket stops, in
`SegmentedTransfer` nothing happens after the last bundle is delivered, and in
`BundleFlow` nothing when all events of applications are lost. `nb` and the runs of
`FileStorage` are checked for deadlock.

## 5. Fairness

`ConvergenceLayer!Progress`: weak fairness of the CL task (the scheduler runs a
ready task), of the return of a datagram's send, and of time; strong fairness of
`CheckTimeouts`, because the timeout task has the lowest priority and is enabled
only between the wake-ups of the CL task, where it does run again and again: each
pass of the CL task ends in a wait. `FairSpec` adds weak fairness of beacons, which
the discovery scheduler sends every few seconds on the radio and whose MAC report
gives the CL task's semaphore. They make up for lost wake-ups, so liveness cannot see
these; `WakeUpsKept` asks of each step instead that it does not leave the task asleep
before a bundle it could send, without any fairness. It excepts, by name, a pass that
ends at an expired bundle, a neighbour that is lost, and a stale lock without its ticket;
and a failed bundle whose retry becomes due by time alone is noticed at the next wake-up,
which is how the code waits for it. Nothing is assumed of frames: none need arrive, none
need be acknowledged. The properties are stated under `Quiet`: from some time on no
new frame arrives and the upper layers add nothing, and the node has not crashed.

`SegmentedTransfer!Fairness`: weak fairness of each task at both ends. `Recovers`
assumes in addition that from some time on the link and the receiver work; a retry
limit applies to each attempt only, since routing offers a bundle again.

`MCBundleLive!FairSpec`: from some time on (`calm`, which comes at any moment or never)
no bundle arrives, no neighbour or registration changes, attempts succeed, peers
acknowledge and nothing is asked of the agent but what applications finish; then weak
fairness of the agent, of routing (each a task that is ready and gets the processor,
since every task blocks in the end), of the convergence layer's attempts (by `OldestIsTried`
the oldest bundle for a neighbour is tried, and in that time it is answered, so the next
becomes the oldest), of applications and of answers. Everything before that
time is free, so the properties speak of every state the node can get into.
`ForwardedIfHeard` excepts one case, which the code has: a ticket that ends because its
bundle is deleted makes room, and nobody wakes routing (`unheard`).

`FileStorage!FairSpec`: strong fairness of each task's part in a save. Strong, because
another task may take the processor in between, and the wait for room is interrupted
by semaphores; a wait has a timeout and a ready task runs. `SaveReturns` is stated for
the time after the last deletion, since a task that others wake for room they then
take themselves may wait as long as they do so.

`OldestIsTried` speaks of the first bundle in line for each neighbour. Those behind it wait
for its acknowledgement, and if it never comes they wait for ever (section 7).

## 6. The proofs

Every theorem holds for every value of the constants that their assumptions in the module
allow; the column *assumes* says what is assumed beyond them. Such a hypothesis leaves out
paths on which the property is false, as a run of section 4 or a row of section 7 shows,
but for *expired_held* in the first three of `BundleHistory_proofs`.

| module | theorem | statement | assumes |
|---|---|---|---|
| `ConvergenceLayer_proofs` | `TypeCorrect` | `Spec => []TypeOK` | - |
| | `LocksCorrect` | `Spec => []LockedOnce` | - : radio and UDP, every fault |
| | `ListCorrect` | `Spec => []ListMatches` | - : the same |
| | `CountersCorrect` | `Spec => []CountersAgree` | `FreedOnce` |
| | `ReserveCorrect` | `Spec => []ReserveKept` | `FreedOnce` |
| `OneAwaited_proofs` | `AcknowledgedInTurn` | `Spec => []OneAwaited` | `InOrder` |
| `SegmentedTransfer_proofs` | `TransferTyped` | `Spec => []TypeOK` | - : every fault |
| | `IntactCorrect` | `Spec => []Intact` | `Faults = {}` |
| | `AckedCorrect` | `Spec => []AckedIsAccepted` | `Faults = {}` |
| | `TransferImplementsReliable` | `Spec => ImplementsReliable` | `Faults = {}` |
| `BundleFlow_proofs` | `TypesHold` | `Spec => []TypeOK` | no *expired_held* |
| | `ReferencesAgree` | `Spec => []RefsAgree` | the same |
| | `TicketsAgree` | `Spec => []InTransitHasTicket` | the same |
| | `GivenStays` | `Spec => []GivenIsLocked` | the same |
| `BundleHistory_proofs` | `NobodyTwice` | `Spec => NoRepeat` | no *expired_held* |
| | `LeavesServed` | `Spec => KeptUntilServed` | neither it nor *fatal*; `Recorded = Bundles` |
| | `StoredAnnounced` | `Spec => []Announced` | neither it nor *queue_full* nor *no_memory* |
| | `BusyAgrees` | `Spec => []BusyIffGiven` | neither it nor *queue_full* nor *app_full*; services apart, and they stay |
| `Discovery_proofs` | `TableTyped` | `Spec => []TypeOK` | - |
| | `EntriesApart` | `Spec => []LinksUnique` | - |
| | `SilentDropped` | `Spec => []NoGhosts` | - |
| | `HeardStays` | `Spec => KeptWhileHeard` | - |
| | `ReportsComplete` | `Spec => ChangesReported` | - |
| `FileStorage_proofs` | `StorageTyped` | `Spec => []TypeOK` | - : every fault |
| | `EntriesHaveFiles` | `Spec => []ListedHasFile` | `Apart` : every fault |
| | `FilesStay` | `Spec => []FilesKept` | `Apart` : every fault |
| | `DirectoryListed` | `Spec => []ListIsDirectory` | `Apart`, `Faithful` |
| | `SavedSurvives` | `Spec => []Survives` | `Apart`, `Faithful` |
| `Lists_proofs` | `SelectOrder` | what `Select` leaves is in order and complete | - |

The hypotheses:
* `FreedOnce` excludes the paths that free a ticket twice: no UDP peer, no fault but
  *unsendable*, and no *fatal* result of the MAC. `cl_double_free` shows that it is needed.
* `InOrder`: no UDP peer and no *unsendable*. A bundle that cannot be encoded lets one
  pass of the task send a later ticket of the same neighbour, and TLC finds two awaited
  acknowledgements then. Over UDP the property is violated without any fault: a report
  that comes late marks a block that is another ticket's by then (section 7).
* `Faults = {}` in `SegmentedTransfer`: each of the four faults breaks a property
  (section 7). Loss of frames, attempts given up, refused segments and both timeouts are
  not faults; they happen at any time.
* no *expired_held*: `bf_expired` shows that `RefsAgree` needs it, and `BusyIffGiven` is
  violated without it too. It is used in one place, the step `ExpiredAttempt`.
  `NoRepeat`, `KeptUntilServed` and `Announced` need it in the proof only, because they
  rest on the same invariant: TLC finds no violation of them on the instance of `bf_expired`.
* no *queue_full*, *no_memory*, *app_full* or *fatal*: what a full queue loses is never
  announced and leaves its service busy, and so on (section 7).
* `Recorded = Bundles`: `Recorded` is a bound of the model on whose answers are remembered;
  `KeptUntilServed` speaks of the answers.
* services apart, and they stay: each service has an application number of its own and one
  registration at the start, and no service is removed or made passive. Registering and
  activating services at any time is covered. Section 7 has the others.
* `Apart`: no two tasks save the same bundle (section 7 shows that it is needed).
* `Faithful`: a file is closed at the last attempt, a removal succeeds, and there are memory
  and readable files: none of *close_gives_up*, *unlink_fails*, *no_memory* and
  *unreadable*. With the first two, `ListIsDirectory` and `Survives` are false (section 7);
  with the others a restart leaves files out of the list. That
  files cannot be created or written, and that attempts to close them fail, is covered.

### ConvergenceLayer

`TypeOK` is inductive. The step that needs care is `AckFrame`: `Advanced` takes a
segment off `left` only if one has been sent, and `IsFinal` catches the last one, so
`left` never goes below zero.

`LockedOnce` is inductive together with `TypeOK`: only `CLSendBundle` adds a lock, for
a neighbour that `BundleDue` found unlocked in the same step; removal keeps the others'
order.

`ListMatches` is inductive with `TypeOK` (`Good`): a block comes into the list when it is
allocated, at the end and only if it was free, and every way to free a ticket takes it out
of both. That a ticket may be freed twice does not matter: the second time finds nothing.

`CountersAgree` is not inductive. The status callback turns an *active* ticket into a
failed one, an acknowledgement turns a ticket that awaits one into *done* or *fail*
by overwriting all its flags, and neither touches the counter: this keeps the count
only if the ticket was counted as queued before. The invariant is `SoundNode`: types;
`Sound(pool)`, which adds to the counters that a ticket that awaits an acknowledgement
is *active* (`AwaitedQueued`); `ReserveKept`; and `NoFlight`, which holds without UDP
peers and which the steps that free a ticket need. `ReserveKept` follows in the step of
`EnqueueBundle` from the agreement of `slots` with the tickets (the guard looks at the
counter), and in all other steps because no ticket of a bundle is added (`Keeps`).
The lemmas about `FreeAll`, `Alloc` and `Put` carry the counting; each action then has
a lemma of its own.

`OneAwaited` counts the tickets of a neighbour that await an acknowledgement; that there is
one at most follows from their order. `InTurn`: in front of a ticket that awaits its
acknowledgement no ticket of the same neighbour is still to be sent. The task takes
the first due ticket of a neighbour that is not locked; a ticket that is retried stays at
its place, a new one joins at the end. Within a step, while the MAC has a frame, the
invariant holds for all tickets but that one (`Idle(p, x)`, `FirstActive`).

### SegmentedTransfer

`TypeOK` is inductive by itself, with every fault. `Intact` and `AckedIsAccepted` need the
state of the conversation, in three parts:
* `Flight`: at most one frame or acknowledgement is in the air, only while the
  neighbour is locked; a frame is the one the ticket describes, and an acknowledgement has
  the number after it;
* `Counting`: what the ticket has sent is what is acknowledged, or one segment more, and
  one more while anything of it is in the air;
* `Agreed`: the receiver has had the segments that are acknowledged, or one more (`Follows`),
  the last of them with the number the sender thinks; it still holds them, has given them
  up, or, if they are all, has handed them to dispatching.

With these a number tells the next segment from a repetition of the last one, for which
spaces of two numbers suffice; the model takes 4 and 16 as the code does.
`TransferImplementsReliable` uses the same invariant: a `Receive` that completes a
bundle is `ReliableTransfer!Accept`, the last acknowledgement is its report,
and every other step a stutter.

### BundleFlow

A handler is a chain of functions on the record `node`, and the invariant
does not hold between them: a ticket is freed before its flag is cleared, a reference is
taken before somebody is noted as its holder. So the invariant is a predicate of a
record, `NodeInv(s, X, Y)`, with two sets of exemptions: X are bundles whose count is one
too high, Y bundles whose entry and ticket may disagree. Each function has a lemma that
says how it moves bundles into and out of these sets (`IncInv` adds to X, `DecInv` takes
out of it, `PutFlags` adds to Y, `SettleInv` takes out of it), the lemma of a handler
composes those of its parts, and every action starts and ends with both sets empty. Beside
`RefsAgree` and `InTransitHasTicket` the invariant says that tickets and flags belong to
routed bundles, routed ones are stored, locked ones routed and not due for delivery, and
in which states of an application a bundle is stored (`Ticketing`, `Locking`, `Holding`);
`Queued` adds that an event *done* in the queue stands for a bundle that is *done*, and
only once: without it `AgentDone` could give back a reference that belongs to another.

`BundleHistory_proofs` adds the past. Its invariant `History` relates what routing still
wants with a bundle to who has answered for it (`Past`): while it is to be forwarded, each
peer that has answered by name has one of the places of its entry and is not its
destination; while it is to be delivered, the service here has not processed it; an entry
has no more places taken than there are answers; and what is stored and not routed has no
answers yet. Hence `NoRepeat`, at the step of the routing task, since `Targets` excludes
the places (`TargetIsNew`), and since no other step gives a ticket or a delivery to anyone
(`NothingNew`). For `KeptUntilServed` the answer that ends a bundle is looked at (`Ends`,
`Satisfied`): it comes from the destination, or finds all places taken, of which there are
no more than answers, and takes back the last thing routing wanted. All other deletions are
of what is overdue, or make room in a storage that `Fits` shows to be exactly full. The
functions of a handler are again taken one at a time: most leave the past alone
(`Same`), some change what is known of one bundle (`Others`) or may delete it (`MayDrop`).
`Announced` is the same proof seen from the queue: what is stored and not routed is on the
way (`Unannounced`, `Coming`), and only a bundle that has just come in becomes so.

`BusyIffGiven` alone is not inductive: that a service has at most one bundle does not say
that its block can be found when the event comes back. `ServicesAgree` adds that
registrations are apart, a busy one is active, and every bundle that is given belongs to a
busy one; a free block is therefore never busy, though `memb_alloc` does not clear it.

### Lists and Discovery

What `Select` leaves of a list is defined by recursion over its length, and induction over
data is out of the prover's reach; but a recursive function over `0 .. Len(s)` can be
handled by its least counterexample: the set of positions at which the claim fails, if
not empty, has a least member, at which the definition gives a contradiction.
`SelectOrder` states the result once: there is an increasing enumeration of the kept
positions of which the result is the image. All facts used elsewhere follow from it.

The invariant of `Discovery` ties the table to the history: `Sound` says of each entry that
the age of each of its links is the silence of its address, and no older than a timeout
and the time since the timer went off. `Distinct` says that two entries share no address, and
that of two entries of one node the first has its IP link and the second its radio link:
without the order, which `LinksUnique` does not mention, a beacon from a new IP address
could update the wrong entry. `NoGhosts` and the two action properties are read off this
invariant: `KeptWhileHeard` because only silence makes a link old, `ChangesReported` because
what is dropped was in one entry only.

### FileStorage

`TypeOK` alone is not inductive: a bundle is listed when its file is closed or given up, without
looking whether there is room. `Typed` adds that the list and the blocks of saves under way fit
together (`BlocksSuffice`), and that without power there are none. That a restart does
not list too many is a fact about permutations (`Orders`).

`Ordered` adds the rest, in two layers. With every fault: with power each listed bundle is
listed once, and one without a file is *discarded* (`Tidy`); a *kept* bundle is on
the card and a *gone* one on neither (`FateRight`); what a task is saving is its own and
not listed (`InHand`), and the fate of a file that is open is *unknown* (`Unsure`), so that
the power failure may make it whole or not. `ListedHasFile` and `FilesKept` are read off
this. Under `Faithful`, in addition: the list is the directory, no fate is *discarded* or
*left*, and without power the card has no more whole files than blocks, so that restart
lists all of them. The last is the count of distinct files that are being closed
against the blocks they hold, at the step `PowerOff`.

### What is only model-checked

* All liveness properties, which are out of the prover's reach.
* `NoRepeat`, `KeptUntilServed` and `Announced` where a bundle expires while a service
  has it.

## 7. What the checks found

Two runs show that the code does not do what a comment in it says:

* `cl_double_free` - routing deletes the bundle in its callback, the agent then frees
  the ticket, and routing frees it again: the counters fall below the truth, and with
  them the reserve for priority tickets and the limit on bundles (`routing_flooding.c:848`).
* `bf_expired` - a bundle whose lifetime ends while a service has it is locked and not
  deleted, but each attempt to send it gives a reference back: the count falls below
  its users, and its slot can be freed while the service reads it (`D`:347).

`fs_faults` says how far the faults of the card go: a bundle whose file was not closed is
listed without one, but no fault costs another bundle its file or brings back a file that
was removed.

The passing runs leave some behaviours of the code out, each named by a member of
`Faults`, a choice of constants or a comment at the definition. What TLC finds when they
are let in, with the property as stated or a trial one:

| let in | found |
|---|---|
| `SegmentedTransfer`: the MAC acknowledgement of a frame that arrived is lost (*unseen*, lowpan) | `Intact` and `AckedIsAccepted` violated |
| an acknowledgement outlives the lock (*late*, lowpan) | both violated: it is credited to the next bundle, and one of a single segment takes it without comparing its number (`D`:818) |
| an acknowledgement overtakes the return of the repeated send (*late*, UDP) | both violated: a segment is skipped (`D`:434) and the bundle reported as sent |
| an acknowledgement arrives twice (*repeated*, both links) | both violated: numbers repeat after four segments (`D`:792), segments out of sequence are acknowledged, a bundle with a hole is stored |
| the last segment is refused and the temporary NACK lost (*last_refused*, both links) | `AckedIsAccepted` violated: `last_multipart_seqno` was set before (`D`:647) |
| `ConvergenceLayer`: the MAC acknowledges the frames of a bundle and the peer never answers, with liveness asked of every ticket and not of the oldest untried only | sent again for ever: a ticket that a stale lock reactivates is not counted as tried (`D`:1135), so `RETRIES` does not apply to it, routing is never notified, and other bundles for that peer wait behind it |
| `WakeUpsKept` without its exception for a lock whose ticket has gone | violated: the stale lock is removed and the task not woken (`D`:1132), although bundles waited behind it; they go on with the next event, at the latest with the next beacon |
| a temporary NACK without MAC acknowledgement | its ticket is never freed (`D`:1293 looks at QUEUE_ACK and QUEUE_NACK only) |
| acknowledgements that wait to be repeated take all tickets | the next data frame writes through NULL (`D`:485, 463); the model stops with `crashed` |
| a deletion or late acknowledgement over UDP while the datagram is being sent | the outcome is written to a block that is free or another's (`D`:776): list and pool still match, but `OneAwaited` is violated, since a reception that has got the block now seems to await an acknowledgement |
| routing deletes the bundle in its callback (*routing_deletes*), for all properties | `CountersAgree` and `ReserveKept` violated |
| `BundleFlow`: a service is registered late | its bundle waits for the next wake-up of routing |
| the agent's queue is full in `bf_live` (*queue_full*) | `Announced` violated: the bundle is stored, remembered as seen and acknowledged, its event lost (`agent.c:386`); it is never routed, and refused if sent again. `BusyIffGiven` violated: the event of a service that has finished is lost, and it stays busy |
| the destination refuses a bundle for good (*dest_nack*), with `NoRepeat` asked of it too | violated: it is sent the bundle again until the entry's places are used up (`routing_flooding.c:822`) |
| memory for the entry runs out (*no_memory*) | `Announced` violated: the event is used up and nobody tries again |
| the queue of a service is full (*app_full*) | `BusyIffGiven` violated: the service stays busy and gets nothing more |
| a *fatal* result of the MAC | `KeptUntilServed` violated: `bundle_sent` clears all flags, the bundle is lost for every other receiver too (`routing_flooding.c:800`) |
| services that share their application number, or one made passive while it has a bundle | `BusyIffGiven` violated (`delivery.c:58`) |
| `FileStorage`: a file that cannot be closed is given up (*close_gives_up*) | `ListIsDirectory` and `Survives` violated: nobody is told (`storage_fatfs.c:129`), the bundle is listed and reported as stored (676), cannot be read, and is gone after a restart. `SaveReturns` violated if its deletion is reported, for it cannot be deleted then |
| a file cannot be removed (*unlink_fails*) | `ListIsDirectory` and `Survives` violated: the result is ignored (762), and the bundle is listed again after a restart |
| a card that cannot be read (*unreadable*) or no memory to read (*no_memory*) | `SaveReturns` violated: `make_room` (480-526) does not look at the result of `delete_bundle` and chooses a victim that cannot be read back for its report for ever, with or without sleeps in between |
| two tasks save the same bundle, without any fault | `ListIsDirectory` violated: both wait for room and both store it, for duplicates are looked for before the wait only (577) |
| no memory to read a file back on restart (*no_memory*) | `ListIsDirectory` and `Survives` violated: the file stays and is not listed |
| urgent bundles must not yield to others after a restart | violated: flags are not restored (`storage_fatfs.c:347`) |
| bundles must not be pruned before their lifetime ends, over a restart | violated: the tick count begins again |

So `st` says: with neither of the faults the protocol is right
however frames are lost, attempts given up, receptions abandoned and inner segments
refused, and it never gets stuck. The runs of `BundleFlow` say that references, tickets and
locks are right on every path but one, and that what a node may lose is what its queues
cannot hold.

## 8. Not modelled

The bytes of frames and bundles; RSSI attributes; lengths (a segment is a segment);
two senders that share `last_multipart_seqno` at one receiver; the receiver's own
tickets in `SegmentedTransfer` (they are in `ConvergenceLayer`); the two early returns of
the lowpan adapter that leave its transmitting flag set (the static buffer of
`dtn_network` is never missing or short in this build). Radio frames are lost or
delivered in order; UDP datagrams on one Ethernet segment are too.

In `BundleFlow`: the comparison of remaining lifetimes in eviction (any unlocked bundle of
no higher priority may go, so what is proved holds for each choice); the order of the
routing list; the blacklist, which only logs; bundles with a custody request, which
dispatching drops; fragments; one link per peer, so that the check of
`received_from_node` against a second link of the same node (`routing_flooding.c:413`) does
not occur; the numbers the agent gives to own bundles, which repeat after a restart.
In `Discovery`: the parsing of beacons; `enable`, `disable` and `dead`, which nothing calls,
and `clear`, which only the MAC `discovery_aware_rdc.c` calls, not used on this platform. In `FileStorage`: `reinit` and formatting; a file system that
is itself damaged by the loss of power; sectors of the directory that are in the cache of
FatFs and not yet on the card. After a failed `f_open` `file_close` also decrements a file
lock; FatFs clears the handle's lock number first, so nothing comes of it.

Components without a module: the formats (bytes, no control), status reports and
custody (no caller for incoming bundles), statistics, start-up, drivers and vendored
code, and modules this platform does not compile. `PROJECT.json` lists them. Most of the
lines of the repository are vendored (CMSIS, HAL, FreeRTOS, lwIP, FatFs); the models cover
the control of `core/net/uDTN`, which is about one in a hundred.

## 9. Plan

1. *done* `ConvergenceLayer`, its runs and theorems.
2. *done* `SegmentedTransfer` and `ReliableTransfer`.
3. *done* `BundleFlow` (slots, storage, agent, dispatching, routing, delivery) with its
   theorems, and `MCBundleLive`.
4. *done* `Discovery`.
5. *done* `FileStorage`.
6. *done* proofs of every safety property a passing run checks, under the hypotheses of
   section 6.
7. Proofs that remain: `NoRepeat`, `KeptUntilServed` and `Announced` with *expired_held*,
   from a weaker form of `NodeInv` in which the count of a locked bundle may be too low.
