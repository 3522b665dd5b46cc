# Crystal HD driver: TLA+ verification project

This directory holds TLA+ models of the Broadcom Crystal HD (BCM70012 "Link",
BCM70015 "Flea") Linux driver, the TLC configurations that check them on small
instances, and TLAPS proofs that hold for every size of the system.  The models
follow the code under `src/driver/linux`; `PROJECT.json` maps every definition to the lines
it stands for, and lists runs, mutants, hazards, findings and theorems.

## The system

A decoder card is driven by one PCI driver.  User space reaches it through
ioctls (libcrystalhd), a V4L2 node or an in-kernel stream frontend.  Compressed
data goes down over a two-list TX DMA engine; decoded pictures come up over a
two-list RX DMA engine into buffers that frontends registered; control commands
go through a mailbox to the card's firmware.  One interrupt line serves all
three.  The components, the state they keep, and what makes them correct:

| Component (source) | State | Operations | Correct when |
|---|---|---|---|
| Firmware mailbox (`crystalhd_hw.c` 39-260, `crystalhd_fleafuncs.c` 2220-2427, `crystalhd_cmds.c` 813-1115) | two mutexes, pending/poisoned/event flags, `FwCmdCnt` | command transaction, timeout, interrupt completion, firmware download, reset on resume | replies belong to their command; power stays up while an answer may come; nobody hangs |
| Capture path (`crystalhd_hw.c` 382-626, 1257-1422, 1739-2114, `crystalhd_fleafuncs.c` 2493-2757, 2995-3403, `crystalhd_cmds.c` 1945-2292, 2584-2711, `crystalhd_misc.c`) | packet pool, `rx_freeq`, `rx_actq`, `rx_rdyq`, fallback list, list state, epoch, pause intent, published free-list length | submit, start, dequeue, format boundary, flush, interrupt, suspend, close, removal | every packet has one owner; nothing the device still writes is released; a client with free buffers is not stranded |
| Input path (`crystalhd_cmds.c` 1586-1936, `crystalhd_hw.c` 764-916, 1424-1671, `crystalhd_fleafuncs.c` 2089-2218, 2759-2993) | request pool, `tx_freeq`, `tx_actq`, list index, leases, the stack completion | synchronous transfer, cancel, retain, interrupt completion, terminal retirement | leases balance; no completion outlives its stack; SUCCESS means the data was read |
| Flea power management (`crystalhd_fleafuncs.c` 1040-1347) | power state, transition flag, activity counters | transitions on commands, pictures, pauses | switched off in this driver, see "Not modelled" |
| Command context, sessions (`crystalhd_cmds.c` 182-567, 813-974, 2817-3266) | owner, lifetime owner, module pin, hardware context, link state, user slots | open, acquire, failed acquisition, mode, download, release, close, suspend, resume | one owner; what a failed step leaves behind stays pinned and is retired later; slots balance |
| Device lifetime (`crystalhd_lnx.c`, `crystalhd_l0s.h`) | generation, `present`, quarantine, L0s override, device lock, user lock, legacy gate | probe, remove, open, ioctl, close, suspend, resume, fail-closed, module exit | DMA memory is freed only after proven quiescence; nobody waits for ever |
| V4L2 lease (`crystalhd_v4l2.c`) | reference count, close worker, kick and pending flags | create, acquire, close, owner retirement, resume | freed once, after its last user, and always freed |
| V4L2 node (`crystalhd_v4l2_node.c`, `_decoder.c`, `_buffers.c`, `_output.c`) | two buffer queues, two workers, correlation ledger, staged picture, drain state, watchdog | STREAMON/OFF, QBUF, REQBUFS, STOP, START, release, workers | every input answered once, LAST after all of them, buffers conserved, joined workers stay joined |
| Retained RX (`crystalhd_cmds.c` 39-181, 2294-2578) | registry of mappings, generation, stale flag, count of legacy callers | register, fetch, repost, retire, full retirement | a borrowed buffer is neither device-owned nor freed; legacy and retained calls never mix; an acknowledged retirement is true |
| Stream frontend (`crystalhd_stream.c`) | per-session queues | pumps over TX and RX | buffers conserved |
| BCM70012 functions (`crystalhd_linkfuncs.c`) | as the Flea paths | as the Flea paths | as the Flea paths |
| libcrystalhd, VA-API driver, GStreamer elements, scripts, tools | process-level | | not modelled |

The paths interact through the one interrupt line (`disable_irq` nests and is
shared), through `dma_fault` (any engine that cannot be proven stopped faults
the whole adapter, which then frees nothing until terminal quiescence), through
`present`, and through the locks: `user_lock`/`chd_device_lock` exclude
transfers and dequeues from suspend, close and removal; `fetch_sem` serialises
capture operations; `fwcmd_trans_mutex` serialises commands; the interrupt
handler takes spin locks only.

What is hard: handlers that run between any two of these steps; answers after a
timeout; interrupts latched while an engine is being stopped; stops that fail;
a packet in a thread's hands outside every queue; completions on a stack; locks
held while waiting for a FIFO that only another caller can empty; power
transitions that fail half way while files stay open; two workers of one stream
that meet in a drain, a format boundary or a STREAMOFF.

## Modules

| Module | Role |
|---|---|
| `FwMailbox` | the mailbox as the code runs it |
| `CommandChannel` | what the mailbox promises: free, busy or quarantined, and whether an answer is owed |
| `RxCapture` | ownership of capture registrations |
| `TxDma` | leases, requests and completions of input transfers |
| `DeviceLifetime` | adapter, session, user slots, leases, PCI callbacks, module |
| `V4l2Node` | one open file of the memory-to-memory node, with firmware and client |
| `DecoderStream` | what the node promises: inputs owed, answered, due before LAST |
| `RetainedRx` | the borrow interface over the capture core, and the legacy calls it excludes |
| `FwMailboxProofs`, `RxCaptureProofs`, `TxDmaProofs`, `DeviceLifetimeProofs`, `RetainedRxProofs`, `V4l2NodeProofs` | inductive invariants and theorems about the module of that name |
| `V4l2StreamProofs` | `V4l2Node` implements `DecoderStream` |
| `V4l2HealthProofs` | `V4l2Node` never fails a healthy stream |
| `MCFwMailbox`, `MCRxCapture`, `MCTxDma`, `MCDeviceLifetime`, `MCV4l2Node`, `MCRetainedRx` | instantiation for TLC |

Definitions named `X_something` and introduced as a *variant* are seeded bugs of
`X`: each is the form `X` would have after a plausible slip.  No specification
uses them; replacing `X` by its variant must break the property `PROJECT.json`
pairs it with.

### FwMailbox

A caller passes `idle -> entered -> begun -> posted -> answered -> replied ->
ending -> leaving -> idle`, one action per stretch between two lock operations,
named after the function it models.  The handler acknowledges the device
(`isr_acknowledge`) and afterwards publishes the completion (`fw_cmd_complete`),
as `crystalhd_flea_hw_interrupt_handle` does.  Commands are numbered, so that
`resp` says whose answer is in the reply buffer.  `fw_download_booted`,
`hw_resume` and `hw_suspend` are the recoveries.  The firmware (external) answers
a posted command at any time or never; `firmware_spurious` is the mailbox
interrupt no command caused, which a comment in
`crystalhd_hw_fw_cmd_abort_unposted_locked` expects.  Its number is bounded by
`MaxSpurious`; commands are bounded by `MaxCmds`.

### RxCapture

Three kinds of actor move packets: the thread holding `fetch_sem`, the interrupt
handler, and fetchers that dropped `fetch_sem` with a packet in their hands.
`dev` is the device per list and plane: the packet it writes, or how the write
ended while its interrupt is unacknowledged.  Hard errors (a failed device write
or queue insertion) and faults published by other engines are nondeterministic
choices: `hard` counts both, a hard error needs `hard < MaxHard` and a fault from
elsewhere `hard < MaxFail`; a stop that fails needs no budget.  Destructive stops
advance `epoch`, bounded by `MaxEpoch`.  Packets are modelled
by where they are; picture contents are not.  `picq` after a picture-queue
interrupt is nondeterministic because the handler writes `PicQSts` without
`rx_lock`.  `FleaEnablePWM` is false, its only value in the driver.

### TxDma

One transfer at a time (`tx_lock`), numbered; the number stands for its buffer,
its lease and its stack completion.  `cancel_all_tx` runs for a transfer, for
suspend and for close.  `rx_stop_begin`/`rx_stop_end` are a capture flush on
another thread seen from here: it only keeps the shared line disabled.  The
handler takes the status bits in the order of `crystalhd_flea_tx_isr` (`Rank`,
`NextBit`).  The device reads a valid list to its end, ends it in an error, or drops it after the
run bit was cleared.  Bounds: `MaxTransfers` (transfers and capture stops together), `MaxSessions`, `MaxRxStops`.
`TxListNSts` and the power guards of `post_tx` are left out (only power
management reads them).

### DeviceLifetime

`dev` is the adapter with its command context and the device: bound and present,
hardware context, rings, bus mastering, whether an engine still works (`busy`),
fault, quarantine, session owner, lifetime owner, module pin, L0s override.  The
functions that can fail half way (`crystalhd_hw_open`, `crystalhd_session_l0s_begin`,
`crystalhd_session_acquire_locked`, `crystalhd_suspend`, ...) are operators from a
state to the set of outcomes `[d, ok]`; each hardware or allocation failure costs
one of `MaxFail`.  The stages of an acquisition (`EnsureOrUnpin`, `SetupOrUnwind`,
`GuardOrRetire`) are operators of their own, each with its unwinding.  A file operation is `begin`, possibly the upgrade of the user
lock in `crystalhd_legacy_enter`, and a body that runs under the locks it then
holds; an input that found the FIFO full stays in `input`, a reader of the user
lock, until the FIFO drains (after a receive), its file is released or the
adapter goes.  `gate` is the owner of `legacy_gate`.  A lease has its four
reference holders (file, core, running work, pending list) and its close worker
(`WorkerStart`, `WorkerTry`, `WorkerCheck`); `OwnerPut` is the second half of the
owner's retirement, which the core calls after `retired()`.  `pci` is the PCI
callback in progress: `FailClosed` and the two halves of removal are separate
steps because `present` is visible before the locks are taken.

Assumed of the environment: user tasks are frozen while the system sleeps, the
close worker's queue is not; the PCI core runs one callback at a time.  A state a reader may find odd is in the code: if
`crystalhd_session_l0s_end` fails in `release_locked`, the owner stays published
although its user slot is recycled, and the next close retries the release.

### V4l2Node

`f` is `struct crystalhd_v4l2_file` with its queues, workers and decoder
controller.  `run_lock` is held by a whole `chd_run`, by each half of
`chd_tx_run` and by the locked part of an ioctl, so each is one action; `io` is
the ioctl that has stopped admission and waits for the workers (`chd_join`).
Operators carry the functions' names and return the set of outcomes
`[f, shown, ok]`.  `clip` is chosen at the start: access units with geometry and
range, the client's first geometry, and the size of the correlation ledger
(`CRYSTALHD_V4L2_TIMESTAMPS`), so that a full ledger and firmware backpressure both
occur on small clips.  The firmware (external) returns one answer per access
unit in input order, a picture or an explicit error, announces a geometry before
its first picture, and sends one EOS marker after the EOS transfer.  Faults of
firmware (lost access unit, unsolicited marker, silence), core calls and device
cost one of `MaxFault`.  The 2 s transfer time-out may fire whenever the
firmware has no room; the 30 s watchdog only when its clock runs and the
firmware is silent.  `-EAGAIN` of `crystalhd_device_enter` during suspend is
`chd_tx_run_suspended` in one worker and a stutter in the other.  `late`,
`crossed` and `stale` are history flags that no guard reads: an input found no
room in time; a channel reset, or STREAMON of CAPTURE, cleared a source change
while buffers of another geometry were queued (`Outdated`).

The client queues, streams on and off, stops and reallocates in any order the
ioctls accept.  In particular STREAMON of CAPTURE does not depend on what is queued, as in
`chd_streamon`; a buffer of another geometry then makes `chd_submit_capture`
fail the file (`crystalhd_v4l2_node.c:517`).

The mapping to `DecoderStream`: owed is what is in the source queue or the
ledger or staged, without what was answered already; due is the part of it
counted in the STOP snapshot (`drain_left`) plus all that is inside the decoder;
mode follows `fatal`, the controller's phase and `drain_requested`; a channel reset
is a flush.

### RetainedRx

Threads of the file that owns the session call the retained and the legacy
operations.  `reg` and `entry` are the registry, `core` the packets of the capture
core: queued, or completed with a picture or a format boundary (how the core
moves them is `RxCapture`).  `lock` is `retained_rx_lock`, kept by a retained
fetch while it waits and by a registration or repost between its entry and its
submission; `legacy` is `legacy_rx_active`.  A fetch passes `wait -> hold ->
done`: in `hold` the packet is out of the core and missing in the pool, in `done`
only the buffer is in the thread's hands.  `MaxSerial` and `MaxSeq` stand for
`U64_MAX`, at which the code itself refuses; `MaxEpoch` bounds destructive stops.
A client may present any key.  A file-owned session keeps its registrations over
suspend (`retain_rx_on_suspend`, `crystalhd_cmds.c:564`), with the stale flag set
until a full retirement or flush.  Of a legacy client the model assumes that it
does not submit a range it has already submitted.  `acked` is a history flag.

Assumptions shared by the DMA models: an interrupt latched while the line was
disabled is delivered when the last `enable_irq` is done and before
`synchronize_irq` returns; a done or error status ends the list's DMA; a core
reset invalidates the lists and clears the status.

## Runs

| Run | Instance | Shows |
|---|---|---|
| `fw_mailbox` | 2 callers, 3 commands, no unexpected interrupt | power count, reply ownership, every caller returns, an interrupt retires its count, refinement of `CommandChannel` |
| `fw_mailbox_spurious` | 2 callers, 3 commands, 2 unexpected interrupts | no underflow, no leaked count |
| `fw_mailbox_fence` | 2 callers, 2 commands, 1 unexpected interrupt | **violation** of `ReplyIsOwn`, see below |
| `rx_capture` | 2 packets, 1 fetcher, 1 plane, thresholds 2/1, 1 destructive stop, 1 hard error or fault | single ownership, no release under DMA, no stale registration, no stranded client, retention after a fault |
| `rx_capture_errors` | 1 packet, 2 planes, transfer errors, 1 fault | partial completions, the list index, and that `fetch_sem` and packets are always given back |
| `tx_dma` | 3 transfers, or 2 and 1 capture stop, 2 sessions | completions, lease and request accounting, transfers return; without the stop only leased buffers are read and SUCCESS means read |
| `tx_dma_tag_reuse` | 2 transfers, 1 session, 1 capture stop | **violation** of `SuccessIsConsumed`, see below |
| `device_lifetime` | 2 files, 2 user slots, 1 lease, 2 probes, 1 failure | no DMA memory freed under DMA, everything unfinished keeps the module pinned, slots balance across re-probe, the lease's references are exact |
| `device_lifetime_live` | 1 file, 1 slot, 1 lease, 1 probe, 1 failure | RELEASE and removal end with an input blocked, closed leases are freed |
| `device_lifetime_receive` | 2 files, no lease, no failure | **violation** of `ReceiveProgress`, see below |
| `v4l2_node` | 3 clips of 2 access units, 2 CAPTURE buffers, firmware holds 1, 1 reset, 1 fault | buffers conserved, what a healthy stream can die of, joins hold, refinement of `DecoderStream`, every drain ends |
| `retained_rx` | 2 threads, 3 ranges, 2 slots, 4 serial numbers, 2 borrows per registration, 2 destructive stops | registry and core agree, one mode per session, acknowledged retirement is true |

Why the bounds are enough: three commands give a timed-out one, one refused or
recovered and one after it.  Two packets fill both lists, or one list and one
queue, and make threshold 2 reachable; one packet is the stranded-client case
and leaves room for two planes and an error.  Two transfers over two sessions
reuse a request, three reuse a tag and use the index modulo two beyond a wrap.  Two
files compete for a slot, an owner and a gate, and with two probes one of them is
stale; one failure is enough to leave every half-done state and a retry after
it.  Two access units give one in flight and one queued at STOP, and a boundary
between them; the three clips put a range change on a full ledger, a geometry
change on a too small and on a large enough allocation.  Three
ranges over two slots meet the slot limit with one lent and one queued; four
serial numbers reach the last one in a cleanup and in a registration.  Symmetry is
used in `rx_capture`, `tx_dma_tag_reuse`, `device_lifetime` and `retained_rx`;
runs with liveness use no symmetry.  Deadlock is not checked: a bounded
behaviour, a removed or a faulted adapter, an unloaded module and a closed file
really stop.

### Fairness

Weak fairness of threads inside the driver and of the handler.  Every wait in
the code has a bound: 20 s for the mailbox, poll counts for downloads and engine
stops, 3 s or the deadline for a transfer, 100 ms for a FIFO retry.  In
`RxCapture` the posting thread and the fetchers get strong fairness: they wait
for a queued spin lock and a FIFO semaphore, which serve a waiter although the
lock is taken again and again.  Nothing is assumed of the device, of the
firmware, of new requests or of faults there.

In `DeviceLifetime` a step that acquires a mutex or a semaphore is strongly fair
(the kernel hands these over to their waiters), a step that holds what it needs,
queued work, resume and the PCI callbacks are weakly fair; nobody is bound to
start an operation, and the FIFO drains only after a receive.  In `V4l2Node`
workers run (SF only where suspend may refuse them again and again), a live
firmware accepts and answers, time passes, and the client gives CAPTURE buffers
back and answers a source change.  A client that stops doing either can stall
its own drain for ever; the watchdog does not run then, by design
(`chd_drain_watchdog` counts only eligible time).

## Findings

* `fw_mailbox_fence`.  `crystalhd_fleafuncs.c:2356` calls the acknowledged
  mailbox interrupt "the completion fence".  An unexpected interrupt between
  `fw_cmd_begin` and the post, which `crystalhd_hw.c:174` expects, latches the
  completion of a command not yet posted; posting does not look at the flag
  again and the reply's sequence is not compared, so the caller copies out
  whatever the reply buffer holds.
* `tx_dma_tag_reuse`.  `crystalhd_hw.c:1631` says `enable_irq` and
  `synchronize_irq` drain a latched completion before a list tag can be reused.
  While a capture flush on another thread has the same line disabled, neither
  call drains anything.  The stale done bit completes the next transfer on that
  tag with SUCCESS while the device still reads its buffer, whose lease is then
  put.  Without a concurrent flush it holds (`SuccessIsConsumedAlone`).  The
  overlap is not exotic: the flush may poll for ten seconds with the line off
  (`MAX_VALID_POLL_CNT` times 10 ms), longer than the three-second watchdog that
  starts the cancel.

* `device_lifetime_receive`.  `crystalhd_lnx.c:954` wants receive ioctls to make
  progress while an input waits, and `crystalhd_lnx.c:128` explains why no writer
  may queue behind a blocked TX.  `crystalhd_legacy_enter` does queue one, with
  `legacy_gate` held: a second file's NOTIFY_MODE waits for the playing file's
  input, the input waits for pictures to be received, and the playing file's
  receive waits for the gate.  It ends when the owner releases or the device is
  removed; the run has neither.

### Observations on V4l2Node

`HealthyStreamSurvives` has three exceptions, each a history flag of something the
code really does.  Leaving out any of them makes `v4l2_node` fail with the
behaviour described.

* `stale`.  `tests/v4l2-node.c:1304` says that after the first announcement a
  differently sized queued CAPTURE buffer "must still negotiate", and `chd_format`
  keeps the source change pending while CAPTURE is off.  `chd_streamon` (1716-1719)
  then clears it whatever is queued.  If the announcement falls between the client's
  QBUF at its hint and its STREAMON, the next `chd_run` finds the hinted size at 517
  and fails the file with `-EINVAL`; had STREAMON come first, the same client
  would have been asked to negotiate.  The client cannot exclude this order.
* `crossed`.  `crystalhd_v4l2_node.c:1771` calls OUTPUT STREAMOFF "the full-session
  recovery fence" after which the fresh session "must be able to reuse that
  still-streaming queue".  The reset clears an unanswered source change (1189) and
  keeps the new geometry and the queued buffers.  With one buffer prepared for the old
  geometry and one, queued while the change was pending, for the new, the fresh
  session's `chd_format` looks at the first only, goes on, and the file fails at 517
  on the second.
* `late`.  The 2 s bound of a V4L2 transfer is absolute, so a client that pauses
  CAPTURE with the firmware full loses the stream.

The first two flags are set only when a buffer of another geometry is queued as the
change is cleared.  `DrainEnds` leaves out the state in which a source change was
cleared with the allocation too small for the new geometry: no buffer can be prepared
then until the client reallocates.

## Proofs

The proof modules prove safety invariants of six components for every value
of their constants: any number of callers, packets, planes, fetchers, requests,
files, leases, threads, buffers and clips, and any bound on commands, resets, failures
and serial numbers.  Where a theorem states a property that a run checks,
`PROJECT.json` says which; the inductive invariants were checked with TLC on the
runs' instances before they were proved.

The constants' assumptions are those of the modules, evaluated in every run.  The
bounds are naturals; the sets that are counted are finite (the driver allocates
its packets, requests and files; a kernel has finitely many threads); and the
value that stands for "none" is no element of the sets it is added to.  Sets of
records that contain "none" need the last one as `NoneIsFresh` in `RetainedRx` and
`V4l2Node` does, because TLA+ leaves open whether an unspecified value is a record.

### FwMailboxProofs

`TypeCorrect` and `PowerCountOwned` (no path leaks the power count) hold with
unexpected interrupts; `PowerCountCorrect`, `RepliesAreOwn` and
`MailboxImplementsChannel` (the refinement under `chan <- Chan, owed <- Outstanding`)
assume `MaxSpurious = 0`.  The hypothesis is needed: an unexpected interrupt is by
nature an uncounted one and one no command is owed, and the run `fw_mailbox_fence`
refutes `ReplyIsOwn` without it.

`IInv` adds to `TypeOK`: `LockInv` (who holds which mutex follows from the program
counters, so at most one caller is inside), `CountInv` (the count is zero or one;
it is one while a command is pending or an answer is owed, and then a command is
pending or the mailbox is quarantined), `DeviceInv` (an owed answer is in one
place: posted, asserted interrupt or running handler) and `CallerInv` (what each
program counter knows of the flags, the device and the reply buffer).
`ReplyIsOwn` needs all four: a caller that sees the latched event must know that
nothing else is owed and that the buffer holds its answer.

### RxCaptureProofs

`TypeCorrect`, `PacketsHaveOneOwner`, `WritesAreOwned`, `QueuesAreCurrent`,
`FreePacketsAnnounced`, and the action property `FaultKeepsRegistrations`.

`SingleOwner` counts places; `PlaceInv` says the same without counting (the places
are disjoint, every packet has one, the ready queue has no duplicate) and is what
an action can be shown to preserve; the count is derived at the end.  `HandInv` and
`IrqInv` say at which program counter an actor or the handler has a packet in its
hands, `OrderInv` who is out of the driver once power management or removal has
begun and once a stop was proven.  `DeviceInv` carries `DeviceWritesOwned`: a plane
that is written is awaited by its list, and nothing is written after a successful
stop.  `StampInv` extends `QueuedAreCurrent` to the packets in transit.  `NoticeInv`
is the argument of `NotStranded`: while the published length is stale, somebody is
on the way to `publish_fll`.  `FaultRetains` covers the packets in the handler's, a
stopper's and a fetcher's hands besides the queues.

### TxDmaProofs

`TypeCorrect`, `CompletionsLive`, `LeasesBalance`, `RequestsStay`, `ReadsAreLeased` and
`SuccessMeansRead`.

`ThreadInv` and `IrqInv` fix the exclusion between a transfer and the exclusive
operations and count what holds the line off; `RequestInv` says that only the
request of the transfer in progress carries its completion, `HandlerInv` what the
handler may still do with a request it has taken.  `LeaseInv` is `LeaseAccounted`
with the keepers named.  The last two theorems need the device: `EngineInv` (a valid
list has its run bit until the engine is given up) and `QuietInv`, which holds as long
as no capture stop has kept the line off: a latched bit belongs to a list that has
ended, and between transfers nothing is latched, pending or valid.  That is where the
comment at `crystalhd_hw.c:1631` is right, and `tx_dma_tag_reuse` shows where it is not.

### DeviceLifetimeProofs

`TypeCorrect`, `RingsOutliveDma`, `PinCoversResources`, `SlotsHaveOneFile` and
`LeaseOutlivesUsers`, with and without the session's link guard.

The functions that fail half way are sets of outcomes.  A lemma for each says what
every outcome leaves alone and that the adapter agrees with itself afterwards
(`DevOK`: busy engines have their rings unless the device is unusable and unmastered,
rings have a context and a pin, an override has a session).  The composed functions
(acquisition, release, suspend, resume, terminal retirement) follow from the lemmas
of their parts.  `PciInv` says who may be inside while a PCI callback works, `ModInv`
what a module that exits still has, `BindingInv` on which binding an operation works,
`SlotInv` that the slots of a bound adapter and the files of its generation match
one to one, `LeaseInv` who holds each lease.

### RetainedRxProofs

`TypeCorrect`, `RegistryAgrees`, `ModesExclude` and `RetirementIsTrue`.

`CountInv` makes `legacy_rx_active` the number of legacy callers inside, which is why
a registration that reads zero excludes them all; `CallerInv` and `HandsDisjoint`
say what a caller has in its hands, `RetainedInv` what the holder of
`retained_rx_lock` may rely on, `ClosedInv` what a context that admits nobody owns.

### V4l2NodeProofs

`TypeCorrect`, `Conservation` and `StoppedStaysStopped`.

The state of the node is one record with 37 fields, `struct crystalhd_v4l2_file`, and
`chd_run` composes its functions as sets of outcomes.  `FileInv` is a predicate on that
record, so a lemma per function (`...Effect`: which fields it changes; `...Keeps`: it
keeps `FileInv`) is enough, and an action is put together from them.  `CountOK` is
`BuffersConserved`.  `InputOK` says what `chd_tx_run` has in its hands while `run_lock`
is dropped; its last conjunct, that a first transfer has an input to send, is why an
empty drain (which needs no firmware) excludes the EOS transfer.  `OffOK` ties session,
workers, channel and registrations to the OUTPUT queue.  `PhaseOK` and `MarkerOK` keep
`pending_last` apart from a posted buffer, from a source change and from the end of a
drain: `STREAMOFF` returns no marker when a change is pending or the drain is over, so
without them its buffer would be lost.  `IoInv` carries what an ioctl found before
`chd_join` across the wait: a drained channel stays drained while the workers finish, and
an OUTPUT `STREAMOFF` still has its session.

### V4l2StreamProofs

`NodeImplementsStream`: the refinement of `DecoderStream`, for any clips, buffers, resets
and failures.

The abstract variables are written as operators of a file and of the answers given
(`Owed`, `Mode`, `Due`), and `Simulated` lists the steps of `DecoderStream` between two
such pairs, failure and stuttering included.  Every function of the source is `Calm`
(it touches nothing the stream or the invariant sees, which most do) or a `Step` (it keeps
`StreamInv` and is one step of `DecoderStream`), and the two compose.

`StreamInv` holds while the file has not failed.  `QueueOK`: an access unit is queued
once, and only the head that `chd_tx_run` has on the wire may be in the decoder, or even
answered, while it is still in the source queue; this is the window in which the
other worker receives the picture of an input whose transfer has not returned yet.
`DrainOK`: the marker is asked for only after the snapshot of `STOP` has been sent
(`left = 0`), and nothing is in the decoder once the channel is closed or the drain is
over, which is what makes LAST the last answer.  One turn of `chd_run` receives, turns
a boundary into an event, delivers a staged picture and posts again; `TurnOutcome` shows
that it answers at most one access unit, or fails the file and loses only what it owed.

### V4l2HealthProofs

`HealthyStream`: a file fails only because of something outside the driver, or in one
of the two orders above in which a source change is cleared too early.

The errors the theorem excludes are spread over the whole file, and each is refuted by a
relation between the file and the firmware's channel, which the earlier invariants do not
mention.  `HealthInv` holds while nothing has gone wrong (`Clean`: no fault, no late
input, no source change cleared with outdated buffers queued).  `Ledger`: each token is in the transfer, in
the firmware's queue or in the registration, and in one of them only, so an answer always
finds its token and LAST never finds one left.  `Marked`: exactly while the channel is
DRAINING there is one EOS marker, which moves from the transfer to the firmware, to the
registration and to `pending_last`, behind every answer; no marker is unexpected.
`Geometry`: buffers, registration and staged picture have the present geometry and epoch,
unless a change is pending, when nothing is posted.  `Discovery`: the private buffer gets
the announcement that the channel owes first, never a picture.
`STREAMON` either leaves every queued buffer of the present geometry or sets `stale`,
whether or not it had to wait for the workers first.

The invariant was checked on the 495,089 states of `v4l2_node` first.  In the proof,
`Kept(x, w, y, w2)` says that a function takes a healthy file and channel to healthy ones,
or makes the history unclean; it is transitive, so a turn of `chd_run` is a chain of such
lemmas, one per function.  The watchdog is covered as the model states it: it may
expire only when the firmware has nothing to say, and `NeverSilent` shows that a healthy
channel whose clock runs always has.

### Only model-checked

* All liveness properties (`CallersReturn`, `InterruptRetiresCount`, `HoldersFinish`,
  `TransferReturns`, `ReleaseCompletes`, `RemoveCompletes`, `LeaseCleanup`, `DrainEnds`):
  fairness is out of the prover's reach.

## Not modelled

* Flea power management: every entry tests `FleaEnablePWM`, which
  `crystalhd_fleafuncs.c:1043` sets false ("Runtime power-down remains disabled.")
  and nothing sets true, so the code has one reachable state.
* The in-kernel stream frontend and the BCM70012 functions: a frontend and a
  variant of the paths in `RxCapture` and `TxDma`, next on the plan.
* In `DeviceLifetime`: the ioctl pool, chardev registration, BARs and interrupt
  set-up.  In `V4l2Node`: exhaustion of 64-bit tokens and epochs, colour metadata
  beyond a change of range, S_FMT beyond the first hint, rollback of a failed
  STREAMON, `chd_file_destroy` after the last join, the allocation of the
  discovery buffer, and the framing of access units.
* Folded into another outcome, with the same state change as far as a property
  looks.  `chd_picture`: a NO_DATA picture with valid metadata and `-EILSEQ`
  with pixels are both an explicit error.  `RxCapture`: the handler
  takes a done status as the end of a plane; the status registers that
  `crystalhd_fleafuncs.c` 3003 and 3077 read again agree with it by the assumption
  on the device above.
* Left out of the handlers: the early return of the interrupt handler on a bad
  hardware status (`crystalhd_fleafuncs.c` 3258-3262), which acknowledges nothing and
  so is a stutter here; in `DeviceLifetime` the failed allocation at the start
  of suspend (`crystalhd_lnx.c` 1827-1832), which changes nothing, and
  `chd_restore_l0s` after a failed resume.
* Register layouts, descriptor translation, DDR set-up, picture metadata and
  bitstreams: data, not protocol.  Most lines of the repository are generated
  register headers (`include/flea`, `include/link`) of this kind.
* The optional research interface, which observes only; libcrystalhd, the VA-API
  driver (bitstream reconstruction), GStreamer elements, scripts and tools.

`PROJECT.json` gives the reason for each component.

## Plan

1. An abstract buffer-lease specification that `RetainedRx` and `TxDma` refine.
2. The stream frontend, and the BCM70012 variants where their lists differ.
