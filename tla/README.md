# Verification of vqa40x

`vqa40x` exports a simulated QuantAsylum QA402/QA403 audio analyzer over USB/IP. It is a
multi-threaded tokio server: each attached host has a URB loop, one worker per endpoint and
a writer; the workers call into a shared device model ("persona"); an event loop switches
personas when the firmware is updated. This directory holds TLA+ models of those parts, the
TLC configurations that check them and TLAPS proofs about them. Paths below are relative to
`crates/` in the repository.

## 1. Inventory

| Component | Source | State it keeps | Operations |
|---|---|---|---|
| Start-up | `vqa40x-cli/src/main.rs` `spec_to_options`, `resolve_serial`, `run` | the options of each unit | defaults, made-up names and serials, what stops the program |
| Enumeration | `vqa40x-usbip/src/lib.rs` `handle_connection`, `handle_control`; `proto.rs`; `vqa40x-core/src/identity.rs` | none | DEVLIST, IMPORT by name, control requests answered from descriptors |
| Connection | `vqa40x-usbip/src/lib.rs` `urb_phase`, `spawn_in_worker`, `spawn_out_worker` | `pending` (seqnum to cancellation token), `conn_token`, one job channel per endpoint, the writer's channel | CMD_SUBMIT (control, OUT, IN), CMD_UNLINK, transfer, completion, cancellation, writing, shutdown |
| Attach | `vqa40x-usbip/src/lib.rs` `handle_connection` | the persona the connection serves, its `generation` receiver | import, subscription, release |
| Simulator | `vqa40x-core/src/sim.rs` | `current`, `generation`, `imported`, `unplugged`, `fw_version`, `flash_count`, the event channel | `try_import`, `release_import`, the event loop's three events, `switch` |
| Bootloader | `vqa40x-core/src/bootloader.rs` | `phase` with the image, `responses`, `per_report`, `in_notify` | reports by the OUT endpoint or SET_REPORT, responses by the IN endpoint or GET_REPORT |
| Analyzer: audio stream | `vqa40x-core/src/analyzer.rs` | `stream` (`started`, `emitted`, `dac`, `delay`, `overflowed`), `rate_idx`, `stream_notify` | start, stop, rate, DAC block, ADC block |
| Analyzer: register bus | `vqa40x-core/src/analyzer.rs` | the registers, `replies`, `reg_notify`, `page_select`, `read_ptr`, `boot_stage`, `rebooting` | register frames on EP1 OUT, replies on EP1 IN |
| Analyzer: I2S port | `vqa40x-core/src/analyzer.rs` | `i2s` (`started`, `consumed`), `i2s_width` | switch, width, blocks on EP3 OUT |
| Recorder | `vqa40x-usbip/src/record.rs` | the number counter, the file, `pending_reads`, `i2s_frame_bytes` | attach, detach, one line per transfer, pairing of register reads, frame counts |
| Wire format, calibration page, registry, random numbers, tools | `proto.rs`, `calpage.rs`, `registry.rs`, `rng.rs`, `tools/` | none that changes after start-up | parsing, packing, tables |

**Interactions.** A connection imports a unit (`imported`), keeps the persona it read, and
subscribes to `generation`. Its workers call the persona's `in_transfer` and `out_transfer`
concurrently, its loop calls `control` inline. A persona asks the simulator for a change by
an event; the simulator stores a new persona and bumps `generation`, which breaks the loop
of the connection. The loop and the workers write to one recorder. The persona outlives its
connections: registers, replies, the boot latch and the I2S run stay as a client leaves them.

**What is hard here.** Completion and UNLINK race for an URB. A worker may be blocked for
ever in a transfer while the connection has to end. Waiters of `Notify` have to be enabled
before the state is looked at. State is read before an await and used after it (the persona
before the subscription, the due time before a sleep, a queued job after its lookup). Events
pile up while the event loop sleeps. Hosts give up and retry, and two report paths reach the
bootloader at once. Clients come and go while replies of theirs, and even their workers,
stay behind. A list of devices grows old while units reboot.

**What makes each component correct.**

* Start-up and enumeration: a host that picks an entry of its list gets that unit; all it is
  told in one connection comes from one persona; what descriptors announce is what is served.
* Connection: each URB is settled at most once, in submission order per endpoint; no URB is
  left without a task that would answer it; one taken back is never started; the end of a
  connection frees the device and stops its workers.
* Attach and simulator: one host at a time; a switch is seen by the connection it concerns;
  the analyzer runs what was flashed; a persona that asked to be replaced is replaced.
* Bootloader: one verdict per file; a flash carries exactly the file the host sent; the
  verdict reaches the host; the simulator is asked only for what a persona may ask.
* Audio stream: the loopback is in order and exact, never ahead of the clock, and no read
  hangs; workers left behind by an ended connection do not disturb that more than they must.
* Register bus: frames take effect in one order and replies say what that order says; a
  client reads its own answers; the unlock is the two magics in a row, and reboots once.
* I2S port: blocks are accepted no faster than the port's rate.
* Recorder: no line lost, an answer logged before it is given, no line ahead of its cause,
  requests paired with replies, frames counted as the device counts them.

The individual hazards, each with its line and the properties aimed at it, are listed in
`PROJECT.json` under `hazards`.

## 2. Modules

| Module | What it models |
|---|---|
| `UrbPhase` | one attached connection: loop, workers, writer |
| `UrbService` | what an attached host may rely on, without tasks and queues; `UrbPhase` implements it |
| `MCUrbPhase` | the endpoints TLC checks `UrbPhase` with |
| `UrbPhaseProofs` | theorems about `UrbPhase`, its refinement of `UrbService` among them |
| `Simulator` | one unit, its event loop, and the connections that attach to it |
| `MCSimulator` | the connections and versions TLC checks `Simulator` with |
| `SimulatorProofs` | theorems about `Simulator` |
| `PersonaEvents` | what `Simulator` counts on of a bootloader; `Bootloader` implements it |
| `Bootloader` | the bootloader persona and the tasks that call it |
| `BootloaderProofs` | theorems about `Bootloader`, its refinement of `PersonaEvents` among them |
| `AdcStream` | the audio stream of the analyzer and the workers, of one or more connections, that share it |
| `AdcStreamProofs` | theorems about `AdcStream` |
| `RegisterFile` | the registers: what a read returns and changes, what a write does |
| `RegisterPort` | what the register bus promises, told from the history of frames alone; `RegisterBus` implements it |
| `RegisterBus` | the registers as successive connections and their workers use them |
| `MCRegisterBus` | the registers, page and write URBs TLC checks `RegisterBus` with |
| `RegisterBusProofs` | theorems about `RegisterBus`, its refinement of `RegisterPort` among them |
| `I2sPort` | the I2S port with two workers for each connection, and the recorder's frame counts |
| `I2sPortProofs` | theorems about `I2sPort` |
| `Recorder` | the traffic log as written by the three tasks of a connection |
| `RecorderProofs` | theorems about `Recorder` |
| `Identity` | the summary and the descriptors of both personas, and the control requests answered from them |
| `Bench` | start-up, DEVLIST, IMPORT and enumeration over a bench of units that reboot |
| `MCBench` | the benches TLC checks `Bench` with |
| `BenchProofs` | theorems about `Identity` and `Bench` |

Operators whose comment begins with "Mutant of" are not part of a model: each is a plausible
mistake in the definition it names, used in its place to show that some property notices.

### UrbPhase

`loop` is the program counter of `urb_phase`. Its states are the places where it can wait or
be overtaken: reading a header, reading an OUT payload, between an UNLINK's lookup and its
reply, draining (`writer.await`), returned, or abandoned (the `?` on the payload). `pending`
is the key set of the map, `tokens` the cancelled per-URB tokens, `queue` the job channels,
`worker` and `job` what each worker does and holds, `sent` everything handed to the writer
and `written` how much of it is on the socket. `verdict` is history: who took an URB out of
`pending`.

| Action | Code |
|---|---|
| `SubmitControl`, `SubmitIn`, `SubmitOutHeader`, `OutPayload`, `OutPayloadEof` | CMD_SUBMIT, lines 249-300 |
| `Dispatch` | insert into `pending`, spawn the worker, send the job |
| `Unlink`, `UnlinkReply` | lookup (303), then cancel and reply (307-317): other tasks run in between |
| `Receive`, `TransferDone`, `Claim`, `Reply` | a worker's lookup, `select!`, removal, and send |
| `TokenCancelled`, `ConnCancelled`, `QueueClosed` | the other branches of the worker |
| `WriteOne`, `WriteFails`, `WriterDrained` | the writer task |
| `DeviceOrHostEnds`, `SeesConnCancelled`, `Return` | the ways out of the loop, and lines 329-334 |

A host numbers its URBs in increasing order and unlinks an URB at most once, as the Linux
`vhci` driver does. The UNLINK may reach the loop after the answer has left.

### Simulator

`loop` is the program counter of `event_loop`, one place per wait, with the two stores of
`switch` apart (`Plug`, `Bump`). Personas are numbered in order of creation, so
`current`, `backend[c]` and `generation` can be compared. A connection goes through `idle`,
`checked` (after `is_unplugged`), `imported` (after `try_import`), `replying`, `subscribing`,
`attached`, `closing`. `asked` stands for `rebooting` of an analyzer and `Phase::Done` of a
bootloader. Saving the image to disk is best effort and changes nothing else. DEVLIST reads
only and is in `Bench`.

What a bootloader does to the unit is one of four steps: a transfer begins, is complete, is
rejected, or a Reset arrives. They are those of `PersonaEvents`, which `Bootloader` is
shown to implement.

### Bootloader

`phase`, `image`, `responses` and `waiter` are `st` and `in_notify`. A unit of an image is
named by its file and its place, so that a flashed image shows what it was made of; the unit
`SigAt` stands for the STMP signature. `HandleReceive`, `HandleData`, `HandleReset`,
`HandleUnknown` and `Ignored` are the arms of `handle_report`; they run under the mutex and
are therefore steps. `OutStart`, `OutSlept` and `OutHandle` are `out_transfer` around its
sleep; `InStart`, `InCheck`, `InWake` and `InReply` are `in_transfer` around its waiter.
`OutUnlinked`, `QueuedUnlinked`, `InUnlinked` and `InUnlinkedLate` are the transport dropping
a transfer or its result, as `UrbPhase` describes it.

The modelled host uses the OUT endpoint, SET_REPORT, or both (`path`). When it loses patience
it unlinks its newest URB first, as the Linux USB core does. With another order a
ReceiveSbFile can be taken back with its data still in the queue, and the data then completes
the previous image; it is listed among the hazards.

### AdcStream

Time is counted in ticks; `elapsed` is the age of the stream and `timer` what is left of a
sleep or of the grace. A sample is named by its place in what the host fed, and silence is 0.
The volts model, distortion, noise and the generator work on sample values and are left out.
A rate is a divisor of `SlowTicks`, so due times are exact.

Every connection has an EP2 IN worker of its own. The states of `adc[c]` are the awaits of
`in_transfer` and the lock acquisitions between them: `due` (compute the due time),
`wait_start`, `pacing` (the sleep), `look` and `grace` (wait for the DAC queue to cover the
block), `produce`; and `claim`, between the transfer and the removal from `pending`. `waiter[c]`
is the `notified` future of the loop the read is in.

| Action | Code |
|---|---|
| `StartStream`, `StopStream`, `BootloaderEntry`, `SetRate`, `DacBlock` | `write_value`, `handle_dac_block`, under the mutex |
| `AdcStart` | the worker takes the next URB of its queue (`lib.rs:348-355`) |
| `AdcDue`, `AdcWoken`, `AdcPaced`, `AdcLook`, `AdcGrace`, `AdcProduce`, `AdcStopped` | `in_transfer`, from one await or lock to the next |
| `Unlink`, `AdcDropped` | CMD_UNLINK takes the URB from `pending` at any moment; the transfer is dropped when it is at an await |
| `AdcClaim` | `lib.rs:355-370`: the block is given if the URB is still pending, and is lost if not |
| `Reconnect`, `AdcEnds` | the next connection begins; the worker of the last one was cancelled, or goes on (the `?` at `lib.rs:254`) |

`out` is what the stream has produced, `got` what was given of it. `sharers` are the workers
that timed a block for the running stream, `slot[c]` is the place in it that worker's block was
timed for. A block that a worker of a gone connection claims counts as given, to a host that
may not read it.

### RegisterFile, RegisterPort, RegisterBus

`RegisterFile` has `read_value` and `write_value` as operators on the part of `AState` that
registers reach: `Reading` and `AfterRead`, `AfterWrite` and `Unlocks`. The calibration page
is counted in words. The half second in which STREAM_STATUS says "just stopped" is a flag that
`Settled` lowers. Registers that serve constants are one function, `Served`; addresses without
a meaning keep what is written to them, as the map in the code does.

`RegisterBus` runs frames of write URBs one by one under the mutex (`RunRead`, `RunWrite`)
and has the poll of EP1 IN step through `in_transfer`: `PollStarts` (the waiter is enabled),
`PollLooks` (under the lock), `PollAwaits`, `PollWakes`, `PollCancelled` and `PollClaims`,
where a reply popped for an URB that was unlinked is lost. Connections follow one another
over the same persona. `End` is the loop's own end, which waits for the workers (`Release`),
`WriterFails` an end nobody waits behind, and `Vanish` the `?` inside an OUT payload, after
which the old workers go on beside those of the next connection.

`RegisterPort` keeps no register. It has the frames executed, the replies not yet taken and
the number of reboots, and defines what a read answers as a function of the history: the
last value written, the words read since the page was selected, the stream switched on after
it was last switched off, the second magic right after the first. That this agrees with the
state machine of the code, for all workers of all connections, is `ImplementsPort`.

### I2sPort

A tick is the time of one frame. Every connection has a worker of EP1 OUT and one of EP3 OUT,
and a recorder with a width of its own (`recWidth[c]`). The worker of EP3 OUT charges the run
for a block when it starts it (`StartBlock`), sleeps until the block is due, and completes it
(`CompleteBlock`), which is when the recorder writes its line. The worker of EP1 OUT applies a
write (`WriteControl`, `WriteWidth`) and then claims and records it (`RecordWrite`). In between
others may stop and start the port or change the width. `accepted` counts the frames of
completed blocks of the current run.

UNLINK may take back any write or block: one still in its queue (`UnlinkQueuedWrite`,
`UnlinkQueuedBlock`), the one in hand before its transfer, which may run all the same
(`unlinked`), and the one whose transfer is done or asleep (`forget`). A write taken back after
its transfer has changed the device and is never recorded (`ForgetWrite`); a block taken back
stays charged (`DropBlock`). A connection that ends properly cancels its workers before the
next is served (`Reconnect`); one that ends inside an OUT payload leaves them to their queues
(`Vanish`), and the workers of several connections then share the port.

### Recorder

A line is written in two steps, `Stamp` (an atomic) and `Emit` (under the file's lock). The
OUT worker remembers a read request (`OutPush`) after the transfer is done and claimed, then
writes its line, then replies; the IN worker takes the oldest remembered request (`InPop`),
writes the line and replies. A reply carries the number of its request, which the code does
not see; `FifoPairs` compares the two. An UNLINK may take a request or a poll back at any
point. Connections end while workers are in the middle of a line.

### Identity and Bench

`Identity` builds both personas' descriptors as records of their lengths and of the fields by
which one leads to the next, and answers control requests from them, cut to the length asked
for. `Bench` begins with the description of the units (`Configure`, `Serve`): what an entry
leaves out is filled in, a doubled busid or a bad field stops the program. Units then switch
and lose their cable at any moment (`Switch`, `Replug`). A host asks for a list, which is
filled in unit by unit (`ListNext`), picks an entry some time later (`Import`), is attached to
the persona of that moment (`Attach`) and follows the descriptors (`Ask`): `Follows` is what a
driver asks next, first the heads, then the whole of what they announce. The busid in a list is
cut to the field of the device block (`Shown`).

## 3. Runs

| Run | Instance | Shows |
|---|---|---|
| `urb` | 3 URBs; EP0, one IN endpoint that may block for ever, one OUT endpoint; an unlink (`MaxUnlinks`); fairness | `OneVerdict`, `EndpointOrder`, `NoUrbStranded`, `CleanReturn`, `Answered`, `Detaches`, and that `UrbPhase` implements `UrbService` (`ImplementsService`) |
| `simulator` | 2 connections, 2 persona changes, boot into the bootloader (both kinds of switch occur) | `ExclusiveAttach`, `FreshFirmware`, `SubscriberDropped`, `AskedIsReplaced` |
| `bootloader` | 2 commands or files of 0 or 3 units, reports of 2, 2 reports in flight, paced | `OneVerdict`, `WholeImage`, `HostLearnsOutcome`, and that `Bootloader` implements `PersonaEvents` (`ImplementsPersona`) |
| `stream` | 2 connections, whose workers may read at once; 2 rates, blocks of 2 samples, latency 1, up to 2 blocks and 4 samples per stream, unlinks at any point, real time or not | `LoopbackInOrder`, `LoopbackExact`, `Paced` |
| `stream_wakeups` | the same with 1 rate and 3 samples per stream, fairness | `AdcAnswered` |
| `register_bus` | up to 2 connections; a page of 2 words; plans of 2 or 3 write URBs, with 2 polls and an unlink or without | `StaleFirst`, `CleanSession`, `PollServed`, and that `RegisterBus` implements `RegisterPort` (`ImplementsPort`) |
| `i2s` | 2 blocks of 3 units, 3 register writes, unlinks at any point, 2 connections, which may leave their workers behind, real time or not | `I2sPaced`, `FramesLogged` |
| `recorder` | 2 reads, 2 polls, 1 unlink | `NoLostLine`, `AnswerIsLogged`, `CausalOrder`, `PoliteHostPairs` |
| `bench` | 2 hosts, benches of 2 units (6 descriptions), names of up to 3 bytes in a list, 1 switch per unit, 1 list per host | `OwnDevice`, `OnePersona`, `Enumerated` |
| `urb_disconnect`, `sim_reboot`, `sim_vanished` | smaller instances | a statement of a comment that the code does not keep, see below |

Every passing run but `stream_wakeups` also checks the module's `TypeOK`.

**Why the bounds are enough.** Three URBs are the fewest with one in a transfer, one in its
queue and one being unlinked; two make an order. An unlink finds its URB queued, in its
transfer, or answered already; what several do in one run is the same for each, and the safety
properties are proved for any number of them. Endpoints share nothing but `pending`, the writer
and the tokens, so one that blocks and one that does not, each with its worker, meet in every
way two can. Two connections race for one flag; two events make one queue behind the other, and
a flash behind a Reset or a Reset behind a flash. Two files make one an interrupted predecessor
of the other, three units in reports of two make an incomplete, a padded and an exact last
report. A DAC queue of two (rate 1) with four samples overflows; rate 2 does not; latency 1 ends
inside the first block. Two connections put two workers on one stream, each with a block under
way or both waiting for the same samples, and two blocks let them run a block ahead. That they
gain no further block is proved for any number of blocks and workers; a wakeup does not depend
on the rate. Two reads and two polls are the fewest that can be paired crosswise.

`register_bus` chooses one of five plans. `Busy` has two connections with two reads or pairs
of reads, two polls, one unlink and every way a connection can end: enough for a reply left
behind by one client, or popped by its worker that outlived it, and for a poll taken back with
its reply in hand. `Latch` has three write URBs over two connections, so that the two magics,
and something between them, can come from different clients. The three `Long` plans run three
write URBs of one connection over the page walk (which wraps at two words), the stream and I2S
switches, and the settings with their range checks; between them they write and read every
kind of register.

`i2s`: a block of three units is one frame and a half or three frames, so the width matters
and a block may leave a rest; three writes are a start, a stop and a start, or a width between
two of them, or a width of each connection and a start; two blocks are one of each connection,
or one asleep and one queued behind it. `bench`: the six
descriptions have an empty one, a bad entry, names made up for both units, a made-up name met
by a given one, names of which one begins the other, and a name too long for its list entry;
one persona switch per unit puts a switch between any two steps of a host.

**Where a run may stop.** `CHECK_DEADLOCK` is off in `recorder`, `register_bus`, `i2s` and
`bench`, where connections are over, or hosts have sent all their bounds allow, and nothing is
left to happen.

**Fairness.** Weak fairness on what the tokio runtime schedules: tasks that can run are polled
again, timers expire. A host is not obliged to submit, unlink, detach or connect; it finishes
an OUT payload it began or loses the connection. Transfers finish only on `ReadyEps`. A write
either goes on or fails: a peer that keeps the socket alive and never reads blocks the writer,
and with it the release of the device, which no fairness of the code's own excludes. In
`Bootloader` the host keeps an IN URB outstanding (`InStart`), as hidapi does. In
`RegisterBus` the two workers of every connection and the release of the import go on, also
those of a connection that is gone. In `AdcStream` the EP2 IN worker of every connection is
polled; that one goes on must not depend on another.

**Disagreements with what the repository says.**

* `urb_disconnect` (`lib.rs:254`): the connection ends inside an OUT payload. `conn_token` is
  not cancelled, and an IN transfer that blocks goes on for ever, although `backend.rs:80-82`
  says the transport cancels it.
* `sim_reboot` (`lib.rs:214`): a switch between the read of the persona and the subscription is
  missed, and the connection serves a device that is gone.
* `sim_vanished` (`lib.rs:140`): when the IMPORT reply cannot be written, the import is never
  released.

**Exceptions the properties name.** What follows is reached by the models, and a property of a
passing run excludes exactly it.

* RET_UNLINK 0, "already completed", may be sent before the RET_SUBMIT it relies on: only a
  RET_SUBMIT or a -ECONNRESET settles an URB (`Settles`).
* `SubscriberDropped` speaks of connections that subscribed in time.
* `LoopbackExact` speaks of streams that one worker alone reads, and excludes those that
  overflowed, of which a block ran out of its grace, was timed for an earlier stream, or was lost
  to an UNLINK between its production and the claim (`lib.rs:357`). A worker left behind by the
  exit at `lib.rs:254` takes blocks of the next connection's stream, and may drain the queue
  between the other's look and its block.
* `Paced` excludes a block timed for an earlier stream, or for another rate. Workers that share a
  stream may time a block by the same count of samples; `Paced` grants one block for each worker
  but one.
* `PoliteHostPairs` speaks of hosts that poll only for requests already answered: with a poll
  outstanding, the reply can be recorded before its request, and the pairs shift.
* `StaleFirst` excludes a client that finds workers of an earlier one still at work, and
  `CleanSession` one that finds replies, or that unlinks: a reply popped for an unlinked poll
  is gone.
* `FramesLogged` speaks of the blocks of a connection that was the last to write the device's
  width and did not unlink that write before it was logged, sent while no width write of any
  connection was under way and completed before the next one was sent. A width write unlinked
  between its transfer and the claim (`lib.rs:399`) changes the device and not the recorder.
* `OwnDevice` excludes a busid that does not fit its field (31 bytes in the code), which
  nothing refuses at start-up; the cut name is nobody's or another unit's.
* `Enumerated` excludes a string of more than 126 UTF-16 units, whose length byte wraps.

## 4. Proofs

TLAPS checks the following for every value of the constants, assuming only what the modules
name: the `ConstantsAssumption` of each, `RegisterAssumption` and `BusAssumption` for the
register bus, `BenchAssumption` for the bench. They give the bounds their types and say what
the code's constants satisfy: a block fits the DAC queue, the two magics differ, a register
has one meaning, a generated serial is nine characters, a write URB has a frame.

| Module | Theorem | States |
|---|---|---|
| `UrbPhaseProofs` | `TypeCorrect`, `AtMostOneVerdict`, `UnlinkedNeverStarts` | `[]TypeOK`, `[]OneVerdict`, `NeverStartsUnlinked` |
| | `NobodyStranded`, `AnswersInOrder`, `CleanEndLosesNothing` | `[]NoUrbStranded`, `[]EndpointOrder`, `[]CleanReturn` |
| | `ImplementsUrbService` | `ImplementsService` |
| `SimulatorProofs` | `TypeCorrect`, `SingleAttach`, `FlashedFirmwareRuns` | `[]TypeOK`, `[]ExclusiveAttach`, `[]FreshFirmware` |
| `BootloaderProofs` | `TypeCorrect`, `AtMostOneVerdict`, `FlashesWholeFiles` | `[]TypeOK`, `[]OneVerdict`, `[]WholeImage` |
| | `BootloaderImplementsPersona` | `ImplementsPersona` |
| `AdcStreamProofs` | `TypeCorrect`, `LoopsBackInOrder`, `LoopsBackExactly`, `PacedByTheClock` | `[]TypeOK`, `[]LoopbackInOrder`, `[]LoopbackExact`, `[]Paced` |
| `RegisterBusProofs` | `TypeCorrect`, `StaleComesFirst`, `CleanSessionsRead` | `[]TypeOK`, `[]StaleFirst`, `[]CleanSession` |
| | `ImplementsRegisterPort` | `ImplementsPort` |
| `I2sPortProofs` | `TypeCorrect`, `PortIsPaced`, `LogCountsFrames` | `[]TypeOK`, `[]I2sPaced`, `[]FramesLogged` |
| `RecorderProofs` | `TypeCorrect`, `NumbersAreContiguous`, `LoggedBeforeAnswered`, `CausesComeFirst` | `[]TypeOK`, `[]NoLostLine`, `[]AnswerIsLogged`, `[]CausalOrder` |
| | `PoliteHostsPair` | `[]PoliteHostPairs` |
| `BenchProofs` | `TypeCorrect`, `PickedIsAttached`, `OnePersonaTells`, `AnnouncedIsServed` | `[]TypeOK`, `[]OwnDevice`, `[]OnePersona`, `[]Enumerated` |

**UrbPhase.** `OneVerdict` speaks of the packets only and is not inductive. The invariant
`IInv` of `UrbPhaseProofs` says who may still send one: an URB in `pending` has no verdict; a
worker in `reply` holds an URB it completed and no packet settles yet (`JobInv`); the loop in
`unlink_hit` holds one it took back and no packet settles yet (`LoopInv`); every packet agrees
with the verdict of its URB (`SentInv`); and nothing is known of URBs beyond the `Frontier` the
loop has reached. A claim or an unlink removes the URB from `pending` and gives it the one
verdict there is, so the two can not both come to send. `NeverStartsUnlinked`, an action
property that no run checks, follows from the same invariant.

Three small invariants are added to it. `NoUrbStranded` needs only that a worker
ends after the connection did (`ExitInv`); else a job could be sent to a worker that is gone.
`EndpointOrder` needs `OrderInv`: what an endpoint has answered is older than what its worker
holds, which is older than its queue, which is sorted; an URB enters at the end because it is
the newest the loop has read. `CleanReturn` needs that an URB someone took out has its packet
in the channel or is with the task about to send it (`AnsweredInv`), and that the writer is
done only when no such task is left (`DoneInv`).

The refinement of `UrbService` rests on all of these but the last two, and on `ReadInv`: while
the loop runs, an URB it has finished reading is in `pending` or was taken out
(`ServiceInv`). The abstract endpoint owes the URBs of its queue and of its worker's hands
that are still in `pending`. A worker looks only at the head of its queue, and `OrderInv`
makes that the oldest URB owed, the one `UrbService` allows to complete; an unlink empties a
place in the middle, which the abstract set forgets at once and the queue only when its worker
gets there.

**Simulator.** `TypeOK` says that persona numbers stay within the bound on events. It needs
`CountInv`: switches done, events queued and the event under way never exceed the events
raised. `FreshFirmware` is weakened to `FreshInv`, which allows the version to differ only in
the two places between the resolved version and the new analyzer.

**Bootloader.** `ImplementsPersona` needs no more than the shape of the requests made: each
step of the model is a step of `PersonaEvents` under the mapping, or leaves it unchanged.
`OneVerdict` needs that a file is asked for once among all reports on their way (`QueueInv`),
and that it is under way, being received, or decided, never two of these (`FileInv`): a new
ReceiveSbFile can therefore not name a file with a verdict, whichever path it takes. That
flashes and successes are equally many (`CountInv`) is kept by each arm of `handle_report`.

`WholeImage` speaks of the moment a file is decided, long after the host sent it. `WholeInv`
follows the reports on their way, the worker's before those of its queue: they come file after
file, the data of each without a gap, beginning where the persona's image ends (`WayInv`); the
host goes on where they end, unless it took one back, and then it sends nothing more of that
file (`HostInv`). So a report handed over continues the image (`ImageInv`), and an image cut to
its length that bears the signature is a file the host sent (`FlashInv`). None of this holds
of a host that mixes the two paths, which is what the property excludes.

**AdcStream.** `InOrder` adds the queue to what `LoopbackInOrder` says of the samples returned:
the queue is sorted, and later than they are. It does not matter who takes them. `InStep` gives
the exact content of the queue from two numbers, the samples fed and those returned; with one
worker alone it holds until a block meets its deadline with samples missing, is timed for
another stream, or the queue overflows. What makes it inductive is `Enough`: a lone worker about
to produce a block with its samples there keeps them, since a DAC block arriving in between
pushes out only what exceeds the cap, and the cap is no less than a block. `Handed` says that
what was given is what was produced, but for the block in the worker's hand, until one slips.
`SlotInv` ties a block under way to the stream and the worker it was timed for.

For `Paced`, `DueInTime` says that the sleep computed for a block ends when the place it was
timed for is due. That is not enough when several workers read: two may hold the same place.
`Ahead` counts: while the clock allows `m` blocks, the blocks out and those under way for one of
the first `m` places (`Early`) exceed `m` by less than the number of workers that share the
stream. A worker that times a block joins `Early` only with the place after the last one out;
when it produces, it leaves `Early` and the count stands.

**RegisterBus.** `Orderly` says that one connection follows another and that a reply waits only
for a connection that came. `StaleInv` and `CleanInv` describe the queue of replies as seen by
one connection: while no worker of another is left, everything its own comes after everything
else, from what it has read through what it has in hand to the end of the queue; and if it found
nothing and unlinked nothing, the number of its next reply is what it has read, plus one in
hand. That the registers agree with their history is `Told`, one line per register in the part
of `AState` they reach; each frame keeps it, whichever worker runs it, so no order of
connections matters and `ImplementsPort` is a step simulation with `ToldInv`.

**I2sPort.** `I2sPaced` bounds what was accepted, which a block joins after its sleep. Several
workers may sleep at once, so `PaceInv` counts: the frames of the charged blocks that sleep
(`Load`) and those accepted are within what the run was charged, and for every time `t` to come,
those that fall due by `t` (`LoadBy`) and those accepted are at most `t`. A block that starts
falls due no earlier than the whole charge; one that completes moves from `LoadBy` to `accepted`.
The frames are pairs of a connection and a number, so that their count is a cardinality.

`FramesLogged` needs that the recorder of the connection that set the device's width knows it,
unless its write waits to be recorded, and that a sure block belongs to that connection and
shares the queues with no width write (`WidthInv`). So the device counts a sure block by the
width its recorder has (`CountInv`), and whatever parts the two, a write of another connection
or one unlinked before it is recorded, is a width write under way when it does.

**Recorder.** `StampInv` says that a task has a number exactly where it is about to write
it; then every step of every task is silent for the log, takes a number, or writes a line
(`LogStep`), and three cases suffice for `NoLostLine`. `AnswerIsLogged` and `CausalOrder` add
what is in the file by the time a task gets somewhere: a worker about to reply has written its
line (`AnswerInv`), a poll that reached a queue has its `in_req` line with a smaller number
(`PollInv`), and the loop's number is above all its earlier ones (`LoopInv`).

`PoliteHostPairs` is about three queues that must stay aligned: requests, replies and
remembered requests. `PairInv` gives the content of each from how far requests have come
(`Transferred`, `Taken`, `Remembered`, `Paired`), says that the reply in hand is the last one
taken and that exactly it is unpaired (`HandInv`), and that no more polls exist than requests
remembered (`PollBound`). Without the last, a poll could pair its reply before the request is
remembered, which is what happens to an impatient host.

**Bench.** The proofs have two parts. Of `Identity` alone: the descriptors of either persona
are `Sound` (lengths, numbers and indices they announce are those of what is served), the
requests a driver makes are `Reasonable`, and a reasonable request to sound descriptors is
answered with something that leads to reasonable requests. Of `Bench`: names differ
(`NamesDiffer`), a host knows of its list, its pick and its answers what is so (`HostsInformed`),
and no unit has two hosts (`Exclusive`). A name given by hand may meet a made-up one at
start-up, and then nothing is served; a switch replaces the persona, and the host attached to
the old one goes on being told of the old one only.

**Only model-checked.** The properties under fairness, which are out of the prover's reach:
`Answered` and `Detaches` of `UrbPhase`, `SubscriberDropped` and `AskedIsReplaced` of
`Simulator`, `HostLearnsOutcome` of `Bootloader`, `AdcAnswered` of `AdcStream` and `PollServed`
of `RegisterBus`. Every safety property and every refinement that a passing run checks is also
a theorem.

## 5. Not modelled

* Wire format: headers are packed and parsed without state; only the cut of a busid is in
  `Bench`.
* Calibration page: bytes, CRC-16 and trims of a constant page. The walk over its words is in
  `RegisterFile`.
* The telemetry registers, sines of the time since boot, and the audio arithmetic (volts,
  distortion, noise, generator): numbers without control.
* Descriptors: class codes, power and packet sizes, the content of the device qualifier, and
  the status requests.
* Command line: the grammar of flags, hexadecimal numbers and the bench file, `--dump-config`,
  logging. What an entry means is in `Bench`.
* Registry and random numbers: a read-only table, whose result is a choice of `Simulator`, and
  a source of noise and serials.
* Recorder: the lines of control, stream and I2S transfers (but for the frame count), stalls,
  the session header and the payload encoding. They are single lines written by the same two
  steps.
* `tools/` and CI: scripts around the program. A host that attaches again and again stands for
  the auto-attach loop.

## 6. Plan

1. Proofs: action properties that no run needs, as `NeverStartsUnlinked` is one: replies of the
   register bus are never reordered, a line once written stays, a file decided stays decided.
2. More connections per device in `Recorder` (one counter, several connection recorders).
3. A run of `Simulator` with `PersonaEvents` instantiated per persona, so that the four steps
   are shared by reference and not by name.
