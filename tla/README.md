# Verification of Barst

Barst is a Windows server that lets clients on a network use laboratory
hardware (FTDI chips, RTV frame grabbers, Measurement Computing boards, serial
ports) through named pipes.  This directory models its concurrent core in TLA+,
checks it with TLC and proves part of it with TLAPS.  Source references are to
`src/Barst/`.

## The system

`CMainManager` (Barst.cpp) owns a list of managers, one per kind of hardware; a
manager owns channels, one per device; an FTDI channel owns peripherals.  The
main manager and every channel have a comm of their own, a `CPipeServer`, whose
thread calls `ProcessData` on its device for each message of a client.  The
device answers, at once or later from a thread of its own, with `SendData`; the
comm queues the answer for the client and calls `Result` when it is done with
the buffer.  All state is in memory; nothing survives the process.

| component | state | operations | hard parts | what makes it correct |
|---|---|---|---|---|
| Comm contract (base classses.h) | sessions, replies | `SendData`, `Close`, `ProcessData`, `Result` | several clients, one id each | fresh ids, order, one `Result` for each buffer |
| `CPipeServer` (named pipes.*) | instances, queues, events, byte count | `Init`, pipe thread, `SendData`, `Close` | overlapped I/O, two meanings of one event, clients leaving, closing under load, one byte limit for the whole process | isolation of clients, no lost event, every buffer reported once, bounded queues, a clean `Close` |
| `CQueue` (cpl queue.h) | FIFO and an event | `Push`, `Front`, `GetSize`, `ResetIfEmpty` | event only on the first push | the consumer is always woken |
| MCDAQ channel (mcdaq_device.cpp) | write queue, list of readers, last word | write, trigger, cancel; its thread; destructor | three parties on one event, continuous readers, failing board | streams last until cancelled, answers for all, only selected lines change |
| RTV channel (rtv device.cpp) | active flag, last frame, id | activate, inactivate, frame callback, `Result` | driver's thread against pipe thread against deletion, a full queue | answer, frames and closing response in order; the stream does not stall |
| Serial channel (serial device.cpp) | two queues, two overlapped operations | read, write, timeouts | completion against timeout against cancellation | each packet answered once, with its own result |
| FTDI channel (ftdi device.cpp) | updates, devices, two events, buffer sizes | set-up, activate, inactivate, the write/read loop, recovery, deletion | events reset apart from their queues; calls that fail between two devices | every update is applied, no request lost over a recovery, buffers that fit |
| FTDI peripherals (cpl ft io.cpp) | data, requests, state | write, read, cancel, recover | requests against the loop | each request answered once, after its data is on the pins |
| ADC (cpl ft adc.cpp), `CMemRing` (mem pool.cpp) | trigger, state, ring of blocks | trigger, activate, configure, extraction thread | two threads, claimed blocks | data of no later block after closing, no block reused while claimed, configuration ends |
| Managers (the four `CManager...`) | slot per channel, the list of FTDI devices | set, delete, query | slots left empty, a list that goes stale, destructors that take seconds | numbers name what they were given for |
| Main manager (Barst.cpp) | slot per manager, `m_hClose` | set, delete, pass on, shutdown | shutdown from its own comm's thread | orderly destruction, once |

`PROJECT.json` lists the same parts with their status and, under `hazards`, the
places where each of them could go wrong in ways a test would hardly reach.

## Modules

| module | models | extends |
|---|---|---|
| `Comm` | what a `CComm` promises (abstract) | |
| `PipeServer` | `CPipeServer` | |
| `PipeServerProps` | its invariants, liveness, and the refinement mapping to `Comm` | `PipeServer` |
| `PipeServerProofs` | lemmas; every action keeps `TypeOK` | `PipeServerProps` |
| `PipeSessionProofs` | the inductive invariant of types and sessions | `PipeServerProofs` |
| `PipeQueueProofs` | those of events, queues, bytes and instances; the refinement | `PipeSessionProofs` |
| `MCPipeServer` | instances for TLC | `PipeServerProps` |
| `MCDAQ` | `CChannelMCDAQ` over a comm | |
| `MCDAQProps` | its properties | `MCDAQ` |
| `MCDAQProofs` | the inductive invariant; the theorems | `MCDAQProps` |
| `MCMCDAQ` | instances for TLC | `MCDAQProps` |
| `RTV` | `CChannelRTV` over a comm | |
| `RTVProps` | its properties, and what its documents claim | `RTV` |
| `RTVProofs` | the inductive invariant; the theorems | `RTVProps` |
| `MCRTV` | instances for TLC | `RTVProps` |
| `Serial` | `CChannelSerial` over a serial port | |
| `SerialProps` | its properties, and what "cpl defs.h" says | `Serial` |
| `SerialProofs` | the inductive invariants; the theorems | `SerialProps` |
| `MCSerial` | instances for TLC | `SerialProps` |
| `FTDISetup` | the sizes and refusals of `CChannelFTDI`'s constructor | |
| `FTPeriph` | the four digital peripherals, as functions of their members | |
| `MemRing` | `CMemRing`, as functions of its claims | |
| `ADC` | `CADCPeriph`, likewise | `MemRing` |
| `FTDI` | `CChannelFTDI` with its devices and threads | `FTPeriph`, `FTDISetup`, `ADC` |
| `FTDIProps` | its properties | `FTDI` |
| `FTDIProofs` | the inductive invariants; the theorems | `FTDIProps` |
| `MCFTDI` | instances for TLC | `FTDIProps` |
| `Managers` | `CMainManager` and the four managers | |
| `ManagersProps` | their properties, and what base classses.h says | `Managers` |
| `ManagersProofs` | the inductive invariants; the theorems | `ManagersProps` |
| `MCManagers` | instances for TLC | `ManagersProps` |

Definitions marked "mutant" stand beside the definition they are a faulty
version of; nothing uses them in the specification.

### PipeServer

Variables carry the names of the code.  `m_aPipes` lists the addresses of the
open `SPipeResource`s, `res` holds their contents, `os` the operating system's
side of each instance (is a client connected, is an overlapped operation
pending or done, which messages wait unread).  `pc`/`cur` say where
`ThreadProc` is and which instance it handles; `closePc` is "waiting" while
`Close` holds `m_sInitSafe`.

A region the code runs under `m_sPipeSafe` is one action: `OnCreated`,
`OnConnecting`, `OnReading` and `OnWrite` are the four things one iteration of
the thread does, with every branch on the result of the system call.  `Process
Data` runs outside the lock, so it is bracketed by `CallProcessData` and
`ProcessReturn`, between which it may call `SendData` (`ProcessSends`,
`ProcessSent`) any number of times and everybody else may act.  The two branches
of `if (m_nMaxPipes == 1)` are `ResetInstance` and `DeleteInstance`.  `Close` is
`CloseBegin`, then `CloseJoined` (the thread has ended) or `CloseTimeout` (2000
ms passed, `TerminateThread`), each clearing queues and instances, or `CloseBlocks`:
the terminated thread owned a lock that clearing needs (`s_hLimitSafe`, a queue's, or
one of the device that `Result` enters) and `Close` never goes on.

The limit on queued bytes and their count, `g_llMaxQueueBytes` and `s_llQueueBytes`,
are one pair for the whole process, which every `CPipeServer` shares (named
pipes.cpp:8-40).  `elsewhere` is the part of the count that the other comms hold;
`OtherComms` changes it to any value of `OtherBytes` as far as the limit allows, so a
reply may be refused though this comm has queued nothing, and there may be room
later.  `DecreaseQueue` of this comm takes off only what is its own.

Two places are coarser than the code.  Dropping an instance is one step: in the code
`Result(FALSE)` on its buffers comes before the handle is disconnected or closed
(named pipes.cpp:335-343, 304-305), so that for a moment a device may have freed a
buffer whose overlapped write is pending.  And outside `Close` a device's `Result` is
taken to return.

External, modelled from how the code uses them: instances of a named pipe and
overlapped operations (`Instance`, `ConnectFails`, `Fault`), and clients
(`ClientConnect`, `ClientWrite`, `ClientRead`, `ClientClose`).  A device sends
only to ids `ProcessData` has given it and reuses a buffer only after `Result`
or a failed `SendData`, as base classses.h demands.

History variables: `status` (what was last reported of a buffer), `served`
(which client's request was passed on under which id), `arrived` (which client
received a reply for which id), `refusedFor` (the session a refused buffer was for).

Not modelled: logging, the contents of messages, exhaustion of memory, wrap
around of the 64-bit id, `WaitForMultipleObjects` failing, and the thread being
terminated inside a region under `m_sPipeSafe` (the code recreates the lock,
but a half-done region is not undone).

### MCDAQ

`ProcessData` is `RequestWrite`, `RequestRead` (trigger) and `RequestCancel`,
on the pipe thread and so one at a time (`reply` holds the answer that is sent
after `m_hReadSafe` is left).  The channel's thread is cut where another
thread's step matters: after the event is reset (`WaitWrite`, `WaitRead`),
after the hardware was read (`ReadPort`), and after each packet answered while
it exits.  The destructor runs on the manager's thread and may terminate the
channel's thread anywhere between its actions.  `m_allReads` is kept as how often
each session stands in it: every entry is served in one loop, so their order is
not told apart.  A word is the set of its bits;
`port` is the board's side, left alone by a `cbDOut` that fails.  The comm is
reduced to the set of live sessions and to `SendData` being refused now and
then, both of which `Comm` allows.  A thread terminated by the destructor may own a
lock (`owned`, chosen from `MayOwn`: `m_hReadSafe`, the comm's `m_sInitSafe`, the write
queue's); the steps that enter it, `Close` in the destructor among them, then never
come.  Queries and malformed commands change no
state and are left out.  What differs from one channel to the next (continuous
or not, what clients write, how often things fail) is the record `setup`, chosen
from `Setups` in the first state, so that one run covers several channels.

### RTV

Three threads act.  On the pipe thread `ProcessData` is `Inform` (queries and bad
requests, answered without a lock), `Activate` and `Inactivate`; the latter two
enter `m_hSentSafe` and leave it only with the answer, so `SendClosing` and
`Respond` are steps of their own, which wait while `Close` holds `m_sInitSafe`.
On the driver's thread `NextFrame` is `TakeFrame` (the region under
`m_hSentSafe`), `ReadId` (the argument `m_llId` is evaluated with no lock held)
and `SendFrame`.  The manager's thread deletes the channel within
`m_ahCallbackSafe`, so not while `NextFrame` runs: `DeleteBegin`, `DeleteJoined`
or `DeleteTimeout`, `DeleteEnd`.  `Results` is `CChannelRTV::Result` for every
buffer that leaves an outbox.

The comm is the part of `Comm` the channel sees: live sessions, one outbox each,
buffers that leave from the front or with their session.  `SendData` fails for a
session that is gone, and for a live one when the queues of the process are full
(named pipes.cpp:454, the limit being the server's argument, Barst.cpp:239-243), which
it may be at any call, `MaxFaults` times.  An answer or closing response refused like
that is gone; of a frame the code keeps waiting for the `Result` that never comes, and
the memory is not released (`content` "lost").  `m_llId` starts with any value, for the constructor does
not set it.  A buffer name stands for allocated memory: `PoolAcquire` picks a
name nothing refers to, and which one makes no difference.

History variables: `fresh` (frames of the present activation not yet done with)
and `told` (what each session has last been told of the channel, or would have been
had the queue not been full).  The model
ends with the first deletion; `Capture_Start` may fail, the other driver calls
are not watched for errors by the code either.

### Serial

`ProcessData` queues good requests; `packets` and `queueEvent` hold the two
`CQueue`s and their events by kind.  Each turn of the loop of `ThreadProc` is a
wake-up (`WakeStop`, `WakeQueue`, `WakeOverlapped`, `Timeout`, chosen by the
order of `ahEvents`), the rest of its `case` (`Write`, `Written`, `Read`, and
`Comm`, `Again`, `Check` for the case that reads), and, when `bRClear` or
`bWClear` is true, the answer: the packet is taken from its queue (`ClearRead`,
`ClearWrite`), then answered (`AnswerRead`, `AnswerWrite`).  Between these, the pipe
thread may push and the port may act.  `Closing` and `Tell` are the loops after the
stop event.  Between taking and answering `sPacket` has the packet; terminated
there, the thread leaves it neither queued nor answered, as the code does.
`DeleteBegin`, `DeleteJoin` (ended or terminated) and `DeleteEnd` the
destructor.

The port is external and does what Windows documents: `overlapped[k]` has the
event and the status of one `OVERLAPPED`; an operation clears the event when it
starts and sets it when it ends well, at once or later.  Operations may fail,
pend, end short, or be cancelled.  `writes` and `commWait` are what the port has
under way, apart from `overlapped`, because the code may use one `OVERLAPPED` for
two operations.  `charEvent` is the port's memory of a byte that no wait was told
of.  Bytes are a stop character or another.

History variables: `requests`, `replies`, `sent`, `received`, `delivered`.

### FTDI

The channel composes five modules.  `FTDISetup` is the constructor's arithmetic:
what each device needs (`Need`), in DWORDs that wrap at `dwSpan`; what its `DoWork`
puts into the buffer, which does not wrap (`Bytes`); the buffer of all (`dwMaxWrite`, worked out from
the requests), the same worked out again from the devices (`WriteSize`), and every
reason to refuse (`Refuses`, `TooSmall`, `Unfit`).  `FTPeriph`, `MemRing` and `ADC`
have no variables: a device is the record of its members, and `DoWork` and
`ProcessData` of each class are functions from that record to the next and to what
is sent to which request.  `FTDI` holds the devices in `dev` and has the threads.

`ThreadProc` of the channel is `WakeStop`, `Recover`, `PopUpdate`, `NoMoreUpdates`,
`Reset` (the wake-up by `m_hUpdate`, in the steps between which a client may push
another update), then `PreWrite`, `Write`, `Read` (one cycle; each calls `DoWork` of
every device in order, as the loop of the code does) and `Erase`, by which a reading
device takes out of its list the requests it answered, with the lock, after having
answered them without it.  `WriteFails`, `ReadFails` and `RecoverFails` are the
calls of the driver that fail.  Every call of `DoWork` takes `m_hDataSafe` (an ADC
`m_hStateSafe`) around what it shares with the pipe thread, so a call is one step
but for that erasing.  The pipe thread's `ProcessData` is `WriteData`, `Trigger`,
`TriggerADC`, `CancelRead` and `ActivateOrInactivate`; each ADC has `ADCTake`,
`ADCSend`, `ADCExtracted`, `ADCStop`, and `ADCDue` for the reset delay that passes.  The
destructor is `Delete`, `StopThread` (ended, or terminated after two seconds wherever it
is) and `DeleteDevices`, which waits two seconds for the thread of an ADC and then
terminates it too: a block it was extracting stays claimed.  As `Close` may hang on a lock
of the terminated thread, no step of the destructor is ever forced.

A value on an output is abstracted to the number of the request that wrote it
(`wires`); `played` is the last request whose whole sequence was written to it.
What `ExtractData` makes of a block is abstracted to how often a packet gets full in it:
never, once or several times (`ADCSend`), all sent with the id read before the first.
A continuous reading is dropped from its list when `SendData` refuses it, for its client
is gone or the queue is full (`refused`, cpl ft io.cpp:441); what `SendData` says of any
other message is not looked at in this channel, in the serial one and in the managers, and
is left out there.  `ReadGarbled` is a read in which outputs do not show what was written, after which an
ADC that reads back its configuration begins anew.

History variables: `status`, `wires`, `played`, `late`.

### Managers

`m_acManagers` is the vector of the main manager; a manager has its vector of
channels, a channel is its number (`id`) and what it was opened for (`what`).  Users
are served one at a time on the pipe thread: `ReadRequest`, then one handler.  A
request is what the handlers tell apart (for whom, the command, the number, what to
open).  Refusals and answers that change nothing are `MainInforms` and
`ManagerInforms`, with one disjunct for each reason (`Other` for the commands a manager has no branch
for); an `eSet` is `RefuseManager`,
`CreateManager`, `CreateChannel`, `CreateFails` or `RefusePort`, with the slot it
leaves empty when it fails.  A deletion is cut where seconds may pass:
`DeleteManager` or `DeleteChannel`, one `Destroy` for each object, `DeleteReturns`
which clears the slot.  `doomed` follows the vector of the manager being deleted and
so has its empty slots, whose `Destroy` is the `delete` of a null pointer.  The main thread is `CloseBegin`, `CloseJoined` or
`CloseTimeout`, `DeleteManagers`.  The four `ProcessData` of the managers have the
same shape and are one set of actions here, with the differences in guards: RTV and
MCDAQ have a slot per board (`WithPorts`), serial and FTDI managers grow
(`Growing`); only FTDI has a device list (`ListDevices`), which `Change` may make
stale.

History variables: `deleted` (how often each object was deleted), `shown` (the
device list the present user saw last), `told` (the numbers users were given and
nobody has deleted).

## Runs

| run | configuration | shows |
|---|---|---|
| `pipe_single` | one instance, limit 3 bytes of which the other comms may hold 1, 2 clients, 1 unread message, no failed call | isolation, ownership, accounting, event discipline, refinement of `Comm`, liveness |
| `pipe_multi` | two instances, limit 2 bytes and no other comm, 2 clients, 1 failed call, `Init` twice, symmetry | no instance forgotten, room for the next client, clean `Close` |
| `managers` | 5 requests of any kind, 2 FTDI devices, one port per board, 1 failed call, 1 device plugged in or out | numbers stay good, users open what they saw, everything deleted once |
| `managers_queued` | a few requests, replies left queued | the violation below |
| `mcdaq_port` | two sessions, two lines; a continuous channel, one that reads once for each trigger on a board that fails once, and one with two packets queued | streams, cancels, one reading per trigger, writes in spite of endless readings, with a deletion at any time |
| `mcdaq_failed_write` | a continuous channel whose board fails once | the violation below |
| `rtv_stream` | two sessions, four buffers, two refusals of a full queue or failed starts | pace and order of frames, closing response, no stall |
| `rtv_deletion` | the same with one | the violation below |
| `serial_port` | two requests out of five kinds, two bytes, `CancelIoEx` | one answer each, order, bytes, wake-ups, timeouts |
| `serial_done` | the same | the violation below |
| `ftdi_channel` | two clients, two requests, two updates; a register written next to one read, pins written, pins read continuously, an ADC that is configured, a register whose 65538 bytes wrap to 2, and three channels that are refused; 1 failed call where a device is alone, 2 where pins are read; a ring of one block that grows to two; `dwSpan` = 65536 | requests answered once and in time, outputs as answered, updates, claimed blocks, sizes, activation |
| `ftdi_closing` | that ADC alone, one client, one trigger, two updates, no fault | the violation below |

Bounds.  Two buffers of 1 and 2 bytes make the limit bite: 2 bytes hold either,
and 3 bytes hold both unless another comm has one of them, so `pipe_single` sees a reply
refused with its own queue empty or not, and accepted later.  Failed system calls are
left to `pipe_multi`, where a run with both would not end in minutes; the theorems cover
every combination.  Two clients are enough for one to take over what another left;
with two instances both can be connected at once.  One failed call reaches every
error branch; two in sequence add only their combination.  Messages waiting
unread matter only as "some" or "none".  Two sessions of the MCDAQ channel let
one cancel, leave or fail while the other goes on.  Every bound is a constant
guarding an action (`MaxClients`, `MaxFaults`, `MaxInbox`, `LastInitId`,
`MaxPackets`, `MaxReads`, `MaxRefusals`, `MaxSessions`, `MaxUpdates`,
`MaxRequests`, `MaxPending`, `MaxChanges`, the size of `Buffers`).
Four buffers let a channel have an unread frame, a frame on its way and the two
responses of an inactivation at one time; two refusals let both the frame and an answer
of one activation be lost.  Two
serial requests are one served and one queued behind it, or a read and a write
side by side; two bytes let a read leave one for the next.  With three requests
TLC found no error in the first million states of a run too long to finish; the
bounds are `MaxRequests` and `MaxBytes`.  The queues of MCDAQ have a bounded
length but requests never run out, so a client that keeps writing is among the
behaviours the liveness properties are checked on.

Five requests to the managers are enough to fill two slots, free the first, and
take it again with something else, or to list devices, list them again for another
user, and open one.  On an FTDI channel one request is under way while another
comes; two updates are an activation and one that races the reset of its event, or
an inactivation.  The channel with two registers is checked without failing calls,
pins and the ADC alone with one, and a second where pins are read: one that fails
the recovery of the first.  A ring of two blocks can be full while the ADC extracts
one and has the other queued; with one ADC in a channel, the sharing of a block by
several is left to the theorem, and so is a digital request that waits next to an ADC.
The sizes of `FTDISetup` are checked on the channels of the run only, three of which are
refused: without a device, with an invalid one, with one that does not fit.  A DWORD has
65536 values there instead of 2^32, which TLC's integers do not hold (the products
wrap at a `dwClkPerData` of 3641 instead of 238609295); the theorem is for any.  Faults
and updates are finite in every behaviour of the run: that requests are answered says
nothing of a port that fails for ever.

Deadlock is not checked: a comm that is closed for good, or a deleted channel,
stops.

### Liveness and fairness

`PipeServer!Fairness`: the pipe thread is scheduled (weak fairness of its
steps); `ProcessData` returns after finitely many `SendData` calls (strong
fairness of `ProcessReturn`, since each call disables it for a moment); `Close`
goes on once it has signalled (its wait has a limit); connected clients take the
replies written to them.  Clients, devices and the caller of `Close` need not
act.  `RepliesFinish` has the premise that the thread is not saturated: since
the lowest signalled event is always served first, a client that keeps writing
does starve its own replies and later instances, in the model as in the code.  The
same premise leaves out a `Close` that hangs: what is queued then is never reported on.
Nothing says that `Close` returns.

`MCDAQ!FairSpec`: the channel's thread runs and driver calls return, the pipe
thread finishes its request, a deletion begun goes on as far as locks let it.  `GoneReadersForgotten` has
the premise that clients stop writing, because writes come before reads in
`ahEvents`.

`RTV!FairSpec`: the pipe thread finishes a request, `NextFrame` finishes a frame,
a deletion begun goes on, and each client reads what was written to it.
`StreamContinues` has the premise that requests cease, for the pipe thread holds
`m_hSentSafe` while it serves one, and the exception of a frame that `SendData` refused: no
`Result` comes for it, `m_bSent` stays set (rtv device.cpp:533), and a channel that is
not lossless sends nothing more until it is inactivated.

`Serial!FairSpec`: the thread is scheduled, and the timeout of an operation that
is timed passes.  The device need not take or send a byte, so only packets with
a timeout are promised an answer.  `TimedIsAnswered` has the premise that requests cease:
`WAIT_TIMEOUT` (serial device.cpp:619) needs a wait of some milliseconds in which no event
is set, and a client that keeps writing sets one every time, so it can put off the timeout
of a read for ever.

`FTDI!FairSpec`: the channel's thread and those of the ADCs are scheduled (weak
fairness; a driver's call returns), and the reset delay of an ADC passes.  Clients,
the destructor and failures owe nothing.  `RequestsAnswered` ends when the channel
is deleted; `AdcGetsActive` names the one case in which the activation never ends.

`Managers` has no liveness property: its thread waits for destructors of channels,
and `rtv_deletion` shows that these need not end.

### Findings

`serial_done`: an operation that completes at once leaves its overlapped event
set; a packet pushed while that wake-up is handled is popped and answered as done
(serial device.cpp:501 and 541), though cpl defs.h:514 says `dwSize` bytes are
read or written.  Three related hazards are listed with their lines: without
`CancelIoEx` a timeout also ends the other operation; a read is not told of
bytes left by the one before; a wait for a byte may outlive its packet, after
which reads fail until a byte comes.

`mcdaq_failed_write`: `m_usLastWrite` is updated although `cbDOut` failed
(mcdaq_device.cpp:454), so the next write changes lines it does not select,
which cpl defs.h:556-559 excludes.

`ftdi_closing`: the thread of an ADC reads `m_llId` once for a block (cpl ft adc.cpp:533)
and sends packets with it later (605), so data may follow `DEVICE_CLOSING`, which the
channel's thread sends meanwhile (250); ftdi device.cpp:2-3 says that no data is sent
after that.

`rtv_deletion`: a request handled while the channel is deleted leaves
`m_hSentSafe` owned by a terminated thread, and `Close` waits for it in `Result`
(rtv device.cpp:538) as soon as something is queued; base classses.h:62-63
promises that `Close` calls `Result` and returns.

`managers_queued`: a manager is deleted while replies it enqueued are still in the
queue of the main manager's comm (Barst.cpp:68), whose next step is to call `Result`
of the deleted object; base classses.h:27-29 rules that such a device "cannot be
deleted while that comm is not stopped".

Without a run of their own, also against a document:

* `NextFrame` of an RTV channel sends after it has left `m_hSentSafe` (rtv
  device.cpp:533), so a frame taken before may follow the closing response, which rtv
  device.cpp:6-7 excludes; it is the same flaw as in `ftdi_closing`, and
  `AnswerBeforeFrames` shows that only a frame taken before can;
* an inactivation of an RTV channel forgets the frame in flight (rtv device.cpp:487), so
  the next activation queues a second one behind it, which cpl defs.h:471-473 excludes;
  `OneFrameAtATime` speaks of one activation;
* with the queues full an RTV channel's closing response is dropped, which rtv
  device.cpp:5-6 promises to the pipe that activated it (excepted in `ActivatorTold`);
* named pipes.h:111-113 says that data over the limit is discarded without an error, but
  `SendData` returns one, on which callers that look (the MCDAQ channel) drop a reader;
* ftdi device.cpp:6-7 says that several pipes may trigger and each gets a copy; an ADC
  refuses all but the first with `ALREADY_OPEN` (cpl ft adc.cpp:443), also when that one is
  gone, until it is inactivated;
* a size that wraps (ftdi device.cpp:363-386, 480, 506): the channel is created with a
  buffer that is too small for what `DoWork` writes (cpl ft io.cpp:133-146).  `BuffersAgree`
  names such a size as its only exception.

Named as exceptions in properties that hold, where no document says otherwise:

* an update of an FTDI channel pushed between lines 853 and 863 of ftdi device.cpp
  waits until another update or a failure (`UpdatesNotForgotten`);
* after a failed `FT_Write` a pin device writes the last value of its sequence only
  and answers with success (`WrittenWhenAnswered`);
* a cancelling may find a trigger that was answered a moment ago (`AnswersFinal`, whose
  other exception is that of `ftdi_closing`, kept to the block under way);
* the packet that a terminated thread of a serial channel had in hand (`OneAnswerEach`);
* an answer to an activation that a full queue refused comes not at all, and the frames do
  (`AnswerBeforeFrames`);
* an ADC that is to be configured is never ready again after a recovery, since
  cpl ft adc.cpp:260 takes its configuration pin off the outputs (`AdcGetsActive`);
* the pipe thread terminated within a deletion of a manager leaves it to be deleted
  again (`DeletedOnce`).

Seen while modelling, with no property of its own: a query of the main manager for
number -1 is answered twice (Barst.cpp:173-196 leave `bRes` set; `SendTime`); a write
to a register with one bad index is refused, and its good indices are stored and
clocked out with the next one (cpl ft io.cpp:219-225); one
failure to create an instance stops a pipe server from opening any other (named
pipes.cpp:192); `~CManagerRTV` deletes channels without the lock that keeps frames
out (rtv device.cpp:122), which `RTV` does not do; the list of FTDI devices that a user saw
is reloaded by the query of another (ftdi device.cpp:115-200): `OpensWhatWasShown` speaks of
what one session saw and did, for the next session begins with having seen nothing.

## Proofs

Every invariant and every action property that a passing run checks is also a theorem,
and so is the refinement of `Comm`, for every value of the constants that the module's `ASSUME` allows.  Each was checked
with TLC first, as was the inductive invariant it rests on.

| module | theorem | property | inductive invariant |
|---|---|---|---|
| `PipeSessionProofs` | `TypeCorrect` | (types) | `TypeOK` |
| | `ClientsIsolated` | `RepliesReachTheirAsker` | `Sessions`, `ThreadServed` |
| `PipeQueueProofs` | `NoWriteForgotten`, `NoReadForgotten`, `OneOperationEach` | `WriteNotForgotten`, `ReadNotForgotten`, `OverlappedInStep` | `Events` |
| | `NoReplyLost`, `BytesCounted` | `HeldOnce`, `BytesAccounted` | `Accounts` |
| | `CloseCleansUp` | `ClosedIsClean` | `ThreadLives`, `Accounts` |
| | `RoomForTheNext` | `NextClientCanConnect` | `Instances` |
| | `CommKept` | `ImplementsComm` | `IInv`, `Accounts`, `CloseRefuses` |
| `RTVProofs` | `FramesPaced`, `ClosingArrives`, `AnswerFirst`, `StreamTyped` | `OneFrameAtATime`, `ActivatorTold`, `AnswerBeforeFrames`, (types) | `IInv` |
| `ManagersProofs` | `NumbersStayGood` | `HandlesStayGood` | `IInv` |
| | `OpensTheOneShown` | `OpensWhatWasShown` | `IInv`, `Listed` |
| | `EachDeletedOnce` | `DeletedOnce` | `IInv`, `Deletions` |
| `MCDAQProofs` | `NoRequestForgotten`, `ReadersStay`, `NoSecondReading`, `CancelIsLast` | `RequestsNotForgotten`, `SubscriptionKept`, `OneReadingPerTrigger`, `NoDataAfterCancel` | `IInv` |
| | `OnlySelectedLines` | `OnlySelectedBitsChange` | `LinesKnown` |
| `SerialProofs` | `AnsweredInTurn`, `BytesInOrder` | `OneAnswerEach`, `NoByteLost` | `IInv` |
| | `QueueAttended` | `QueueNotForgotten` | `Awake` |
| | `TimedOutIfTimed` | `AbortedOnlyIfTimed` | `Abortions` |
| `FTDIProofs` | `UpdatesSeen` | `UpdatesNotForgotten` | `Noticed` |
| | `BuffersFit` | `BuffersAgree` | `Fits` |
| | `BlocksHeld` | `BlocksKept` | `Stocked` |
| | `RequestsListed`, `AnswersStand` | `RequestsAccounted`, `AnswersFinal` | `Accounted` |
| | `AnswersTrue` | `WrittenWhenAnswered` | `Shown` |

Two theorems have a hypothesis of their own.  `OnlySelectedLines` assumes
`NeverFails`, that `cbDOut` never fails: `mcdaq_failed_write` shows that without it the
property is false.  `TimedOutIfTimed` assumes `HasCancelIoEx`, that Windows has the call:
without it a timeout ends the other operation too (serial device.cpp:631).

### The pipe server

`RepliesReachTheirAsker` is not inductive: it speaks of `served` and `arrived`
only, and says nothing of an instance about to be read from or of a reply still
queued.  `IInv` adds `Sessions` and `ThreadServed`.
`Sessions` says of every open instance: its id is smaller than `m_llNextId` and
no other open instance has it; if nobody is connected, no request was ever
served under that id; if a client is, every request served under it was that
client's, and every reply in the queue is for that id, which has been served.
`ThreadServed` says that while `ProcessData` runs, the request it handles is in
`served`, so that what it sends may be queued.  Resetting an instance keeps
this only because the id is new *and* the queue of a client that was being
served is emptied; a queue is kept over a reset only when nothing has been
served, and then it is empty.

`PipeServerProofs` has one lemma per action for `TypeOK` and collects them in
`NextTypeOK`.  `PipeSessionProofs` first reduces each action to one of a few
shapes (an instance opens, advances, goes away, stays as it is, a reply is
pushed, a reply arrives), proves that each shape keeps `Sessions`, and then has
one step per action.

`Events` is `WriteNotForgotten`, `ReadNotForgotten` and `OverlappedInStep` seen from
each instance at every point of the thread and not only while it sleeps: what is queued
is being written, or signalled, or about to be seen to by the handler that runs.  The
write event has two meanings, and what makes that safe is in the invariant: a write is
pending only on an instance with something queued whose event is not set.

`Accounts` is that a held buffer is in exactly one entry of one queue, that a handle
not open has an empty queue, and that the bytes counted are those of the held buffers
and of what the other comms hold (`elsewhere`), whatever they do in between (`OtherComms`
is a step like any other).
The bytes are a fold; the induction theorems of the library cannot be used, so
`PipeQueueProofs` shows by a least counterexample that the fold does not depend on the
order (`Pick`), and from it what one buffer more or fewer does to it.  `Instances` counts
the instances with a client against `m_nConnected` and says that a thread that waits has
one to spare, which is why `OnConnecting` must create the next before it reads.

`CommKept` maps each step to one of `Comm` or to none.  The mapping of `PipeServerProps`
goes by id: `Outbox`, `Sent` and `User` of a session are those of the instance that has
its id now, and because `Sessions` makes the ids distinct (`Mapped`) a step on one
instance leaves every other session's view alone (`SessionStays`).  `PipesTurn` reduces a
step that changes one instance to what happens to its session: an id is drawn and a session
opens (`OpeningTurns`), a client connects, goes away and takes its queue with it
(`DropTurns`), a reply is queued, written or reported on.  `OnWrite` and `SendData` have a
lemma each, since there the answer matters: only the oldest reply of a session is
reported on, with `TRUE` only when the client has it or gets it at that moment, and
`SendData` refuses only when `Comm` lets it: `Refuse` names the session, and asks that it
has ended, that the comm is closed, or that the reply does not fit.  `RoomIsFit` shows that
the byte count which `SendData` compares is what `Fits` of `Comm` adds up, the bytes of the
other comms among it.
`Close` needs `CloseRefuses`: before it drops anything `m_bWorking` is already cleared, so
that nothing is accepted for a session that is being dropped.  Steps that touch nothing
`Comm` shows (events, the wait, a client reading) are stutters (`Unseen`).

### RTV

`IInv` says that a channel that is not lossless waits for every
frame of its activation (`Waited`), what the pipe thread has promised at each
point of a request (`Announced`), that frames of an activation are under way only
between its answer and its closing response, with `m_llId` unchanged (`Streaming`),
and that at most the session `m_llId` names believes that it is active
(`OneActive`).  "Told" is, in all of this, told or refused by a full queue (`activeLost`,
`closingLost`): an answer refused leaves the order of what is sent as it was.  `AnswerBeforeFrames` needs `Streaming` because the frame is sent
outside the lock: what makes it safe is that `fresh` is emptied in the same region
that changes `m_llId`.  The frames this leaves out, those of an earlier
activation, are the ones of the findings.

### The managers

`HandlesStayGood` is lost in one place if taken alone: when a deletion returns and
clears its slot, it must be known that nobody was given a number of what is deleted
since the deletion began.  `IInv` therefore adds `DoomedUnnamed`, that while the
destructors run the request's slot is open and no number of it is in `told`, and
`MainAlone`, that the main thread empties the slots only when the pipe thread is
gone.  `FirstFreeIs` shows, with the library's well-foundedness of `<`, that the
search for a free slot ends on one that is not open, so a new object never takes
the place of another; `WithRoomKeeps` that `push_back` moves nothing; `ChansReplaced`
and `ChansKeepGood` that a change within one manager leaves the others' numbers
alone.  Every action then is one of three shapes (a handler that returns, a step that
leaves the slots, a deletion that begins) with one lemma each.

`DeletedOnce` speaks of the end only.  `Deletions` says at every point where each object
is: it has one place in the slots (`Owned`), was deleted if it has none, and was not yet
if it has one (`Once`), except for what the deletion under way has already got to; that
deletion's list holds each of its objects once (`Queued`).  A pipe thread terminated
there breaks `Once`, and nothing else does.

### MCDAQ

`IInv` has, besides `RequestsNotForgotten` and `SubscriptionKept`, that a continuous
reader stands in the list once and that one who was told of a cancel does not
(`ReadersOnce`), and that what the history variable owes is in the list (`OwedListed`).
The delicate step is a cancel that comes while the thread holds a reading: whether the
thread is in front of the lock or has it decides who is in the list, and both orders
are cases of the proof of `CancelIsLast`.

### Serial

`IInv` relates queues, answers and requests: the packets answered and those queued are,
kind by kind, with the packet in hand in between (`sPacket`, which no terminated thread
answers), the requests in their order (`OneAnswerEach`), and bytes that were read
belong to the first read, which asked for at least as many (`Reading`).  `Awake` is
`QueueNotForgotten` at every point of the loop and not only while the thread waits: for
each kind of packet the event is set, an operation is pending, or the thread is inside a
case that will look.  `Abortions` adds to `AbortedOnlyIfTimed` that an `OVERLAPPED` whose
event still tells of an abortion belongs to a packet with a timeout; it is here that a
thread that took an old event for its new operation would be seen.

### FTDI

`Stocked` says that each ADC's queued blocks are different blocks of the ring and not the
one being extracted, and that each block's count is the number of ADCs that hold it
(`Holders`).  `HoldersAre` turns that into the two numbers of `BlocksKept`.

`BuffersAgree` is arithmetic over a list of devices of any length.  `dwMaxWrite` and
`WriteSize` take maxima of the same needs in two ways; `Least` and `MaxIs` say what a
maximum is without induction over the list, `NeedIs`, `LargestNeed` and `SharesAgree` go
from one device to all.  All sizes are taken modulo `dwSpan`, of which nothing is known but
that a packet and the largest buffer are smaller; `Fits` has, with what `BuffersAgree` says
when the channel is created, that only a created channel is ever deleted.  That a device's
bytes fit into the buffer is concluded where they are fewer than `dwSpan`: there the size
worked out is the true one.

`Accounted` is `RequestsAccounted` with the window in which a reading device has answered
the first `m_nProcessed` of its list and not yet erased them (`Answers`), and with what an
ADC's thread may still send (`Triggered`).  Each device's `DoWork` is first reduced to a
few forms (`WriterStep`, `ReaderStep`: nothing, prepared, cut back, cleared, told), then
each form is shown to keep the list, then each call of `ThreadProc`.  `AnswersFinal`
follows from the same steps.

`Shown` is what makes an answer true: what a writing device holds is newer than what is
in its buffer, and that newer than what its outputs show; the requests listed are older
than what is held, and those a write is under way for older than what is in the buffer
(`Carried`); a write prepared is carried out and answered before the thread does anything
else, unless a call failed (`Pending`).  The exception of the property, a fault, is carried
through as the hypothesis `nFaults = 0` of the parts that need it.

### What is not proved

Liveness, checked with TLC only: `RepliesFinish`, `WritesAnswered`,
`GoneReadersForgotten`, `StreamContinues`, `TimedIsAnswered`, `RequestsAnswered`, `AdcGetsActive`.  They need fairness and with it
`ENABLED`, which the prover does not handle.  `Comm` states safety only, so `CommKept`
says nothing of when a reply is reported on.

`SelectSeq` and the folds of the library are opaque to the prover.  The models use them
only where nothing is proved about the result, or where it is proved from the definition;
a list without marked entries is `Unmarked` in `FTPeriph`, counted places in order, and
`UnmarkedIs` shows that it keeps each entry and their order.

## Not modelled

* What `CADCPeriph::ExtractData` and its tables compute from the bytes of a block:
  sequential arithmetic on one thread's data.  `m_hReset`, which drops a packet under
  way, is part of that.
* The bit patterns digital peripherals put in the buffer; the model knows whose value
  an output holds, not at which byte.
* `CMemPool` (malloc and free; its pooling code is commented out), memory that is
  short, `CTimer`, loading of libraries, the log (a stub).
* Layout of packets and the vendors' headers; the modules map the structures they use.
* A handler of the main manager terminated half-way by `Close` other than between two
  destructors; the start of a second server between another's look for the pipe and
  its creation (Barst.cpp:252).
* The answer of the FTDI channel to an activation, which it sends when the device has
  been told and not when it is ready (ftdi device.cpp:860).

## Plan

What the runs check and a proof can reach is proved, so what is left is to say more:

* `RepliesReachTheirAsker` and `NoReplyLost` joined with the other channels as
  `SendPromised` does for `Comm`: a channel's model over `Comm` instead of its own queue of
  answers, so that their theorems compose.
* `Result(FALSE)` and the end of the connection as two steps of `PipeServer`, so that a
  write that is still pending on a buffer given back is seen.
* Runs of their own for the divergences described above without one.
* `CancelIo` without `CancelIoEx` (serial device.cpp:631): a property of the write that is
  cut short, in place of the hypothesis of `TimedOutIfTimed`.
* `m_llId` kept after the triggering client has gone (cpl ft adc.cpp:443), with the
  main manager's part in it.
