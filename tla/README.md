# Verification of the UmTRX host driver, firmware and FPGA control paths

TLA+ models of the control, streaming and update protocols of UmTRX, a software
defined radio: a UHD module on the host (C++, `host/`), firmware on a ZPU soft
processor (C, `zpu/`) and the FPGA (Verilog, `fpga/`), connected by one Ethernet
link. The interesting behaviour of this system lies where these three meet:
numbered requests over UDP that get lost or are answered late, windows that keep
hardware FIFOs from overflowing, registers shared by several host processes,
streams that start and stop while packets are under way, and a flash that is
rewritten over the network. Little of it can
be reached with unit tests, and the repository has none.

## 1. Inventory

| Part | State | Operations | Meets | What is hard |
|---|---|---|---|---|
| Register control (`host/umtrx_fifo_ctrl.cpp`, `fpga/control_lib/settings_fifo_ctrl.v`) | 16-bit numbers sent and acknowledged, cached SPI control word; command and result FIFO of 16 entries | `poke32`, `peek32`, `transact_spi`, `wait_for_ack`; store, execute, answer | all DSP cores, RF drivers, time | overflow guarded by the host's window only; timeouts leave commands behind; numbers wrap; a cache across losses |
| Control channel (`host/umtrx_iface.cpp`, `zpu/apps/txrx_uhd.c`) | request number, protocol compat number; registers | `ctrl_send_and_recv` with three attempts, register/I2C/SPI/ZPU requests; one handler in the firmware | lock, discovery, streams, EEPROM | retries are executed again, late answers, mixed builds |
| Device lock (`host/umtrx_iface.cpp`, `host/umtrx_find.cpp`) | two firmware registers (time, process hash) | look, lock, refresh, clear | discovery, clock | several processes, crashes, a 32-bit clock that wraps and can be set |
| Transmit flow control (`host/umtrx_io_impl.cpp`, `host/cores/tx_dsp_core_200.cpp`, `fpga/vrt/`) | next number and last report of a streamer; SRAM, last number consumed, reports on/off, destination | open, send, take a report, close; consume, report; ICMP shutdown | framer, firmware, kernel | losses, sessions that overlap, a close that races reports, crashes |
| Stream destinations (`host/umtrx_io_impl.cpp`, `zpu/lib/net_common.c`) | framer table | `program_stream_dest`, `setup_framer` | control channel | an unanswered packet |
| Receive handler (`host/cores/super_recv_packet_handler.hpp`) | ring of four buffer infos, expected packet counts, a queued error | `recv`, alignment, flush | receive chain | what is collected must survive early returns; losses, messages and a clock set back among several channels |
| Send handler and transmit control (`host/cores/super_send_packet_handler.hpp`, `fpga/vrt/vita_tx_control.v`) | cached metadata, buffers held; numbers, burst state machine | `send`; bursts, late packets, underflow | flow control | timeouts inside a call, bursts without samples, losses at the ends of bursts |
| Receive chain (`fpga/vrt/vita_rx_control.v`, `vita_rx_framer.v`) | command FIFO, sample counters | stream commands, overrun | receive handler | overrun in the middle of a burst, chained commands |
| SRAM FIFO (`fpga/extramfifo/`) | two rings in one memory, a read pipeline, FIFOs before and behind | read, write of two channels, clear | transmit chain | one port for four requests, flags that lag, read latency |
| Boot and update (`zpu/umtrx/`, `host/utils/umtrx_net_burner`) | flash, EEPROM flag, erase state | boot, reload; erase, poll, program, read, reset | host tools, power | power failures between any two steps, lost requests, programs stopped half way |
| Router, dispatcher, shared SPI (`fpga/top/UmTRX/`, `fpga/control_lib/axis_spi_core.v`) | packet state machines | route, transfer | everything | triggers that coincide |
| Device time (`host/cores/time64_core_200.cpp`, `fpga/timing/time_64bit.v`) | 64-bit tick counter | read in halves, set now or at PPS | lock, timed commands | torn reads |
| Firmware services (`zpu/lib`, `zpu/umtrx`) | ARP cache, UDP listeners, UART buffers, link state, I2C state machine | one handler each | host tools | evictions, repeated requests |
| RF drivers, calibration, sensors, DSP arithmetic | chip registers | | | numeric, not protocol |
| lwIP, OpenCores, Coregen, simulation models | | | | third-party or generated |

What makes the parts correct:

* register control: no FIFO is written while full; a readback returns its own
  word, and when it returns nothing is in flight behind it; an SPI transfer uses
  the control word its caller asked for; every call ends;
* control channel: an answer belongs to the call that returns it; a peek sees
  the pokes that returned; a stream's destination is set when `make_xport`
  returns; only a firmware of the same build is used; every call ends;
* lock: one holder; the lock of a live holder stays; that of a dead one goes;
* flow control: never more than a window under way; no sender stuck; a stream
  is not disturbed by the end of another; the radio falls silent when the host
  is gone;
* receive handler: samples handed over together were captured together; none is
  skipped without an error that says so; no message or packet disappears;
* send handler and transmit control: the channels stay in step; a burst is
  played whole, as a prefix, or with an error at every break; it starts on time
  or not at all; no packet blocks the ones behind it;
* SRAM FIFO: two independent FIFOs, whatever the channels do at the same time;
* boot and update: what was verified is in the flash; the device always comes
  up, with a firmware that fits its FPGA.

## 2. Modules

| Module | Models | State and actions |
|---|---|---|
| `FifoCtrl` | register control, both ends | one action per call of the host up to its wait (`Poke32`, `Peek32`, `TransactSpi`), one per iteration or end of `wait_for_ack` (`RecvAck`, `AckTimeout`, `CallOver`, `CtrlWordSent`, `CtrlWordSentNoBuff`, `SpiReadback`), one per packet or command of the FPGA's three state machines (`StoreCmd`, `StoreCmdFull`, `Action`, `WriteResult`), and `LoseCommand`, `LoseAck` |
| `FifoCtrlProofs` | | inductive invariant and theorems of `FifoCtrl` |
| `CtrlIface` | control channel, both ends, and `make_xport` | `Construct`, `GetReg`, `MakeXport`, `Recv`, `Timeout`; `HandleUdpDataPacket`, `HandleUdpCtrlPacket`; losses |
| `DeviceLock` | the lock, discovery as far as it touches it, the clock | `ReadLockTime`, `ReadLockGpid`, `Decide`, `CloseFound`, `LockDevice`, `Forget`, `TaskPeek`, `TaskPoke`, `TaskWake`, `UnlockDevice`, `Crash`, `Tick`, `SetTime` |
| `TxFlow` | flow control of the transmit streams, host, FPGA, firmware and the kernel's ICMP answer | `MakeXport`, `Clear`, `Open`, `Send`, `SendLost`, `RecvReport`, `StopFlowControl`, `Flush`, `Crash`, `Reopen`; `Consume`, `Report`, `LoseReport`, `StrayReport`, `HandleIcmp` |
| `RecvHandler` | the receive streamer, fed by the receive chains packet by packet | FPGA: `Capture`, `Overrun`, `Restart`, `SetTime`, `Stray`; host: `RecvBegin` (a call up to its first packet), `GetPacket`, `GetTimeout` (one iteration of `get_aligned_buffs` with every early return), `Aligned`, `Copy` (the rest of `recv_one_packet` and of the loop in `recv`) |
| `SendHandler` | the transmit streamer, and deframer and transmit control of one channel | host: `Send`, `SendPacket`, `SendTimeout` (one `send_one_packet` each); FPGA: `Lose`, `Deframe`, one action per branch of the state machine of `vita_tx_control` (`Idle...`, `Run...`, `Cont...`, `Error...`), `Tick` |
| `Fifos` | what the SRAM FIFO promises: two bounded FIFOs that in a cycle take or give a word each, and a clear | `Cycle`, `Clear` |
| `NoblFifo` | the SRAM FIFO, cycle by cycle, and its refinement of `Fifos` | `Cycle` (registers of `nobl_fifo`, pipeline of `nobl_if`, FIFOs of `ext_fifo`, all in one clock), `Clear` |
| `NoblFifoProofs` | | invariant, theorems and refinement proof of `NoblFifo` |
| `FlashBoot` | bootloader, update service, `umtrx_net_burner`, power | `ReadFlag`, `Button`, `CheckFpga`, `Reload`, `LoadFw`; `Hello`, `EraseStart`, `Erased`, `ErasePoll`, `Program`, `ReadPage`, `Reset`; `StartRun`, `SendRequest`, `Receive`, `Timeout`; `PowerCycle`, `LosePacket` |
| `CtrlIfaceProofs`, `DeviceLockProofs`, `TxFlowProofs`, `RecvHandlerProofs`, `SendHandlerProofs`, `FlashBootProofs` | | inductive invariants and theorems of the modules they are named after |
| `MCFifoCtrl`, `MCCtrlIface`, `MCDeviceLock`, `MCTxFlow`, `MCRecvHandler`, `MCSendHandler` | | constants and symmetries for TLC |

How they fit together: `CtrlIface` is the channel `DeviceLock` works over, and
the way `TxFlow` programs a destination; `TxFlow` decides when `SendHandler`'s
`get_buff` returns, and `SendHandler` lets any of them time out; the words that
`TxFlow` counts as packets in the SRAM go through `NoblFifo`, whose `Clear` is the
shutdown of `TxFlow`'s `HandleIcmp`; `SendHandler`'s deframer takes its packets
out in the order in which they went in, which is what `NoblFifo` is proved to
give.

Conventions. Variables keep the names of the program where there is one
(`_seq_out` is `seq_out`). A variable whose comment starts with "history" is
read by properties only. Definitions with a suffix (`Ready_late`) are
plausible bugs; the specification does not use them. The network drops packets
and keeps their order: host and radio share one Ethernet link, and no code
handles duplicates.

What is abstracted:

* `FifoCtrl`: values of registers; an SPI control word is a model value, since
  the cache only compares it. A timed command is one that is executed late.
  Calls are serialised by `_mutex`, so one is in progress at a time. What a
  write into a full `shortfifo` does is worked out from the Verilog: `full`
  falls only on a read without a write, so the input state machine stays in
  `STORE_CMD` and the FIFO ends up repeating one command.
* `CtrlIface`: a poke writes the number of its call; that is enough to see
  which poke a peek returned. SPI, I2C and ZPU requests are pokes or peeks.
  Calls are serialised by `_ctrl_mutex`. The lower ends 7 (SPI, I2C) and 10
  (registers) of the accepted compat range make no difference: the constructor
  refuses everything below its own number.
* `DeviceLock`: bit 0 of the time, forced to 1, is left out and the value 0 is
  `Unlocked`. Each request is atomic; the retries below it are `CtrlIface`'s
  business. `is_device_locked` starts with a comparison of FPGA numbers, which
  match here.
* `TxFlow`: a session is one channel of one streamer. Packets are their
  numbers. `check_fc_condition` timing out and `get_send_buff` without a buffer
  change nothing and have no action. Reports come at any time while enabled
  (cycle and packet counters). The application sends on the newest streamer of
  a channel only.
* `RecvHandler`: a packet carries its place on the common grid of samples, its
  time, length, count and flags; samples are places on the grid. Time spent in
  timeouts is not counted: an empty socket may time out. `handle_overflow` and
  flow control are not set by this driver. An overrun, a stop and a restart act
  on a packet boundary of the grid; finite stream commands are left out.
* `SendHandler`: packets are their headers. Whether samples reach the DSP in
  time is a free choice at every strobe. The clock ticks while a packet waits;
  a packet that is due starts before the next tick, since the state machine
  runs many cycles per sample. The application may give any call no samples,
  and any of the flags, a start and an end in one call included; it sets the
  start flag on the first call of a burst only, and asks for a time only there.
  Errors are recorded as raised; their reports to the host (`gen_context_pkt`,
  which drops a trigger while it is busy) are not modelled.
* `NoblFifo`: a word is its number. All clocks are one (`ext_clk`; the design
  connects `int_clk` and `ext_clk` to `sys_clk`). Accesses of the SRAM take effect in
  the order they are issued; the generated FIFO raises `prog_full` one cycle
  after its level. How long `refill_randomizer` holds the flag is left open.
* `FlashBoot`: an image is a header page and further pages; a page is old, new,
  erased or neither. Programming an unerased page gives a mixture. The FPGA's
  configuration logic refuses a torn image and falls back; a firmware image of
  which only the header is right hangs. The EEPROM may fail to read or write.
  A run of the program burns an image; one that only resets the device is not
  modelled.

## 3. Runs

All bounds are named constants of the modules and appear in guards.

| Run | Config | Checks | Instance |
|---|---|---|---|
| `fifo_faults` | `FifoCtrl_faults.cfg` | `CommandFifoNeverOverflows`, `ResultFifoHasSpace`, `ReadbackIsBarrier`, `SpiUsesWantedWord` | window 2 and depth 3, the same relation as 15 and 16 in the code; six commands, two timeouts, one loss |
| `fifo_live` | `FifoCtrl_live.cfg` | `TypeOK`, `ReadbackIsOwn`, `CallsEnd` | no losses, no timeouts: a call may not need the timeout to end; eight numbers, nine commands: the numbers wrap with commands in flight |
| `ctrl` | `CtrlIface.cfg` | `TypeOK`, `ReturnedWasExecuted`, `ReadsOwnWrites`, `XportIsProgrammed`, `OnlySameBuildAnswers`, `CallsEnd` | three attempts and the compat numbers of the code; four calls (the handshake, a poke, a peek or transport and one more), two losses; firmware older, equal, newer |
| `lock` | `DeviceLock.cfg` | `RefreshKeepsLock`, `IgnoredIsFreshBeforeWrap`, `LockComesBack` | two processes, clock of five ticks, timeout three, refresh within one, the clock set once |
| `lock_holders` | `DeviceLock_holders.cfg` | `OneHolder` (violated) | two processes |
| `tx` | `TxFlow.cfg` | `TypeOK`, `CommitWithinWindow`, `NotStuck`, `ReportsStop` | two sessions of one channel, one after the other or overlapping, window 3, five packets and five numbers, one loss, one crash |
| `tx_close` | `TxFlow_close.cfg` | `CloseIsHarmless` (violated) | two channels, two sessions, two reports |
| `rx` | `RecvHandler.cfg` | `Unison`, `SamplesOrError`, `MessagesReported`, `DropJustified`, `NoSilentGap`, `GapTime` | two channels, three packets each of two samples, calls for one and a half, packet by packet or not; counts modulo three; two faults of any kind; an alignment threshold that is reached |
| `send` | `SendHandler.cfg` | `InStep`, `EndIsMarked`, `NoSilentHole`, `PlaysPrefixes`, `StartsOnTime`, `HeadLeaves` | two channels, three calls of no samples, one packet, one and a half; three packets; the clock past the time of a burst; both policies; two losses or timeouts |
| `send_cache` | `SendHandler_cache.cfg` | `StartIsApplied` (violated) | four calls, one timeout |
| `nobl` | `NoblFifo.cfg` | `TypeOK`, `CountsAgree`, `OutputFits`, `ImplementsFifos` | two words per half, threshold one, seven words, a clear among the first two; the theorems of section 5 cover the rest |
| `boot` | `FlashBoot.cfg` | `VerifiedIsWritten`, `FailsOnlyAfterRestart`, `FirmwareFitsFpga`, `BootEnds` | two pages per image, two runs of the program, two faults |

Why the bounds are enough. Every property relates one call, session or holder
to the one before it or beside it, so two of each show the interplay; a window
of 1 or 2 is filled, overrun and drained within a handful of packets; one loss
(two on the control channel, where a call survives two) and one or two
timeouts put a late answer into the next call; number spaces of 5 or 8 wrap
within a run. What happens on one transmit channel touches another one through
the ICMP shutdown only, so one channel is enough for `tx`; `tx_close` has two.
In `rx` two faults, which may fall on different channels or one behind the
other, bring every error of the handler about, and three packets take the ring
of infos round more than once. In `send` three calls make a burst without
samples, one that is cut and the start of the next, and a clock that passes the
time of a burst makes its first packet late. In `boot` the second run
meets what the first left behind, and the second fault meets the repair of the
first. The runs of `FifoCtrl`, `TxFlow`, `RecvHandler`, `SendHandler` and `FlashBoot`
switch the deadlock check off: with the bounded number of packets used up, and
an application that need not do anything, these systems may stop. Clock and refreshes keep `DeviceLock`
running, and `Done` marks the legitimate end in `CtrlIface`.

Fairness. `FifoCtrl`: the host's call makes progress (a thread that runs, a
receive with a timeout) and so do the FPGA's state machines. `CtrlIface`: a
receive returns with a packet or at its timeout, and the firmware's main loop
polls for packets. `DeviceLock`: the thread of `lock_task` is scheduled.
`TxFlow`: the FPGA consumes packets, its cycle counter triggers reports again
and again (20 per second), the task of a streamer polls its socket, the kernel
answers for a closed one, the ZPU polls. `SendHandler`: the FPGA's clock,
deframer and state machine run. `FlashBoot`: the bootloader runs; neither power,
the network nor the program is assumed to do anything. Nothing is assumed about the
application: it need not send, open or close, and no loss has to happen.

What the runs show beyond "pass":

* `SpiUsesWantedWord` has three exceptions, each reachable: a lost control
  word, a call that threw between sending and caching it, a wedged FIFO. After
  the first two the cache claims a control word that the FPGA does not have,
  or the reverse, and transfers go to the wrong slave until the word changes.
* `CommitWithinWindow` has one exception: between `make_xport` and the clear of
  the channel, the framer sends the previous session's report to the new
  socket. Read by the new streamer, it opens the window too far. The FPGA's
  SRAM half holds two windows (2^18 words against 2^19 bytes), which absorbs one
  such report.
* `NotStuck` needs losses below the window minus one: when all packets behind
  the last report are lost, there is nothing to report and the sender waits
  for ever. With windows of about 350 packets this takes a long outage.
* `XportIsProgrammed` excepts the loss of the destination packet itself, which
  nobody notices: the peek behind it succeeds.
* `OnlySameBuildAnswers`: the constructor accepts a newer firmware and stores
  its number, but every later request then throws; the ranges written down for
  older firmware (`MIN_PROTO_COMPAT_*`) are unreachable.
* `CommandFifoNeverOverflows` is exact: `settings_fifo_ctrl.v:138` writes without
  looking at `full`, and one call that threw on a missing acknowledgement (a
  command timed more than ten seconds ahead) is enough for the host's next
  commands to fill the FIFO and lock it up repeating one command.
* `RefreshKeepsLock` says nothing between a setting of the clock and the next
  refresh: there the age of the lock is whatever the new time makes of it.
* `IgnoredIsFreshBeforeWrap` stops at the wraparound: the age of a lock is a
  difference modulo 2^32, so the lock of a crashed process looks fresh again for
  11.5 seconds in every 165 (3*10^8 and 2^32 ticks of 26 MHz).
* `NotStuck` excepts reports that are off. They are when the task of a streamer
  that was destroyed after its successor was made turns them off for the
  channel (`StopFlowControl`): the successor stops after its first window.
* `NoSilentGap` needs fewer losses in a row than there are packet counts (16 in
  the code): a loss of exactly 16 packets is seen by the alignment only, and by
  nothing on a streamer of one channel.
* `NoSilentGap` and the places of `Unison` have one exception (`Ambiguous`), which the
  proof brought to light and TLC then showed with a `Back` that is a multiple of
  `SPP`: when the clock is set back by a whole number of packets, packets of
  different places have the same time. After a restart those of the old stream on
  one channel then match those of the new one on another, and what is thrown away
  on the way to the next match is not reported. `rx` has `Back = 5`, with which the
  exception is empty: its checks of both properties are unconditional.
* `Unison` is about packets. A packet that an overrun cut short can have the
  time of a whole one of another channel; the set has the newest packet's
  length, and the samples behind the end of the short one are whatever the
  buffer holds. `GapTime` excepts the gap behind such a packet.
* `DropJustified`: setting the clock back alone costs no packet; together with a
  loss or an overrun it can, since `PACKET_TIMESTAMP_ERROR` looks at the last
  set delivered and not at what the other channels wait for.
* `EndIsMarked` has one exception: a call of one packet behind a start without
  samples goes out with the cached flags. Its end of burst is lost if the cached
  start had none: the burst then runs on into the next one, whence the condition
  of `StartsOnTime`.
* An empty burst leaves its start, and its time, in the cache for the next burst.
  If its start and its end came in one call, its end too: the first packet of the
  next burst is then marked as the end of it (`EndIsMarked` names the case). With
  the policy next_burst, when that packet is late or too slow, the rest of the burst
  is played without it; `PlaysPrefixes` counts the rest as a burst of its own.
  Both are reachable in `send`. A call without samples and without flags puts one
  sample of padding into the middle of a burst.
* `FirmwareFitsFpga` has two exceptions, both reachable: a torn image of the
  production FPGA whose header is whole makes the reload fall back with the
  flag set, and the production firmware is started on the safe FPGA; and power
  or EEPROM may fail between setting and clearing the flag.
* `BootEnds` needs EEPROM faults to be finitely many, which the bound on faults
  gives: a device whose EEPROM can never take or give the flag reloads for ever.
* `VerifiedIsWritten` holds although acknowledged erases and writes prove
  nothing: a device that restarts in the middle of an erase answers that it is
  done.

## 4. Findings

1. `lock_holders`: `umtrx_impl.cpp:258` says "lock the device/motherboard to
   this process". Looking and locking are separate requests, locking does not
   look, and the destructor of every interface, the ones made by discovery
   included, clears the lock of whoever holds it.
2. `tx_close`: `umtrx_io_impl.cpp:406` says "flush after fc off, max time of
   1s". The loop below it ends with the first packet instead of going on until
   there is none. A second report meets a closed socket, and the ICMP answer
   makes the ZPU shut every stream down.
3. `send_cache`: `super_send_packet_handler.hpp:190` says of a start of burst
   without samples "It is applied here on the next call to send() that actually
   has samples to send". The cache is emptied before a buffer was found: a call
   that times out uses it up, and the repeated call starts the burst without
   its flag. A time that was cached is lost by the same lines; the property is
   about the flag.

## 5. Proofs

`FifoCtrlProofs` proves, for every window, FIFO depth, number width, set of
control words and bound on losses and timeouts:

| Theorem | States |
|---|---|
| `TypeCorrect` | `Spec => []TypeOK` |
| `NoOverflow` | `Spec => []CommandFifoNeverOverflows`: the command FIFO is written while full only if window + 1 + timeouts exceeds its depth; with 15 and 16, never without a timeout |
| `ResultSpace` | `Spec => []ResultFifoHasSpace` |
| `Readback` | `Spec => []ReadbackIsOwn` |
| `Barrier` | `Spec => []ReadbackIsBarrier` |
| `SpiWord` | `Spec => []SpiUsesWantedWord`, with the three exceptions of section 3 |

Assumptions: the constants are natural numbers, the FIFOs have at least two
entries, 0 is no control word, and `2 * (Window + 2 + MaxTimeouts) <= SeqMod`:
fewer than half of the numbers are in flight. The last one is where the proof
needs the bound on timeouts, and it is the code's real condition: with 2^16
numbers and a window of 15 it takes more than 32 000 calls that gave up on a
silent FPGA to make `wraparound_lt16` ambiguous.

Argument. None of the properties is inductive. `IInv` adds what the pipeline
host - network - command FIFO - result FIFO - network - host looks like:

* `PipeSorted`, `PipeOrdered`: unbounded ids grow along each queue and from one
  queue to the one before it (strictly, until the FIFO is wedged and repeats
  one command, whence `Steps`);
* `PipeLinked`: everything in flight was sent, is newer than the last
  acknowledgement read, and its 16-bit number is as far behind `seq_out` as its
  id is behind the last id. This turns statements about numbers that wrap into
  statements about ids that do not;
* `WindowInv`: what is unacknowledged is at most the window, plus one while a
  call is in progress, plus one per call that gave up; `seq_ack` is as far
  behind as `acked`;
* `RetInv`: a readback that has returned has everything acknowledged.

Sorted, distinct ids between `acked` and `sent` bound the length of every queue
by `sent - acked`, which gives `NoOverflow` and `ResultSpace`. `WaitEnds` and
`WraparoundLtIsAhead` show that the loop of `wait_for_ack` stops exactly when the
id it waits for is reached, which gives `Readback`; ids in flight being newer
than what is acknowledged gives `Barrier`. The step lemma is one lemma per
action that moves the pipeline, and `NextIInv` puts them together.

`SpiWord` needs one invariant more, `SpiInv`, on top of `IInv`. The control word in
force for a command is that of the newest control word before it that is still
pending, or the FPGA's register if there is none (`InForce`). Every pending
transfer has the word it wants in force, and so would a transfer sent now with
the word the host believes in: the cache, or the word just sent while its
acknowledgement is awaited (`Believed`). The ids that grow along the pipeline
make "the newest before it" what the FPGA's register will hold.

`NoblFifoProofs` proves, for every size of the SRAM (`Half`), of the FIFOs around
it and for every number of words:

| Theorem | States |
|---|---|
| `NoblTypeCorrect` | `Spec => []TypeOK`: pointers and counts stay within their half |
| `NoblCounts` | `Spec => []CountsAgree` |
| `NoblOutputFits` | `Spec => []OutputFits` |
| `NoblRefines` | `Spec => ImplementsFifos`: `NoblFifo` implements `Fifos` |

Assumptions: the sizes are natural numbers, a half has at least two words, and
the output FIFO has five words beyond its threshold (twelve in the design; the
comment in `nobl_fifo.v` asks for six). Five is what the proof needs: four reads
under way and the one asked for while `prog_full` is a cycle late.

Argument. `TypeOK`, `CountsAgree` and `OutputFits` are inductive together (`Inv`). At
most one channel writes in a cycle and at most one reads, and never both at
once (`space_avail` and `read` are exclusive through the turns), so the count and the
distance of the pointers change alike. For the refinement a channel's abstract
queue is output FIFO, pipeline, SRAM, input FIFO, oldest word first. A cycle
moves words across three borders at once; the proof writes each part as "what
leaves at the front, then the rest, then what enters" and shows that what leaves
one part is what enters the next (`PipeMoves`, `SramMoves`, and the definitions of
`Input` and `Output`), so that all borders cancel and the whole queue loses at
most its first word and gains at most one at the end (`CycleRefines`). `SramMoves`
is where `CountsAgree` is needed: a write must not meet the word that is read,
and a read must find one.

`DeviceLockProofs`, for every set of processes, clock width, timeout above twice
the refresh time and number of times the clock is set:

| Theorem | States |
|---|---|
| `HolderKeepsLock` | `Spec => []RefreshKeepsLock` |
| `IgnoredIsFresh` | `Spec => []IgnoredIsFreshBeforeWrap` |

Assumptions: no process is `None`; the timeout is within the clock's range; a
refresh takes less than half of the timeout (the code refreshes every 1.5
seconds; its timeout of 3*10^8 ticks is 11.5 seconds at 26 MHz). Both numbers and history counters appear in the invariant. A refresh
has three places where it can be old: in the hands of `lock_task` between peek
and poke (`PokeDated`), in the register (`RefreshDated`: at most one refresh time
older than its holder's last write), and in the register from an earlier life of
the same process (`RefreshNotKept`: discovery has cleared it before the process
holds again, the fact the property turned out to rest on). `Dated` ties the
counters to differences on a clock that wraps around.

`CtrlIfaceProofs`, for every number of attempts and losses and all firmware builds:

| Theorem | States |
|---|---|
| `CtrlTypeCorrect` | `Spec => []TypeOK` |
| `AnswerIsOwn` | `Spec => []ReturnedWasExecuted` |
| `PeekSeesPokes` | `Spec => []ReadsOwnWrites` |
| `XportProgrammed` | `Spec => []XportIsProgrammed` |
| `SameBuild` | `Spec => []OnlySameBuildAnswers` |

Assumptions: at least one attempt; `MinCompat` is not above `HostCompat`. In
`IInv` a number tells its call (`Numbered`): those of the call in progress are
above the last number used before it, and all others at or below. `ToZpuOK` says
that no request still on its way can take a register back, which is where the
network keeping the order of packets is needed (`Sorted`), and `ToHostOK` what an
answer to the call in progress proves. `XportInv` follows the destination packet
ahead of the requests of its call.

`TxFlowProofs`, for any number of channels, sessions, losses, crashes, every window
of two packets or more and every range of numbers above the window plus one:

| Theorem | States |
|---|---|
| `FlowTypeCorrect` | `Spec => []TypeOK` |
| `WindowKept` | `Spec => []CommitWithinWindow` |

The invariant measures every number by how far it is behind the owner's next
packet (`Behind`). In `Chain` the packets in the SRAM, the number consumed last,
the reports under way and the number the host acts on lie behind one another in
this order, and the last at most a window away: a report can be late, and then
it only closes the window. The chain is kept for the session that owns the
channel's framer; `DestNewest`, `InOrder`, `Dead` and `Fresh` say which one that is,
through overlapping sessions and crashes.

`SendHandlerProofs`, for any number of channels, sizes of packets and calls, range of
packet counts, losses and timeouts:

| Theorem | States |
|---|---|
| `ChannelsInStep` | `Spec => []InStep` |
| `EndMarked` | `Spec => []EndIsMarked` |
| `HolesReported` | `Spec => []NoSilentHole` |
| `PrefixesOnly` | `Spec => []PlaysPrefixes` |
| `BurstOnTime` | `Spec => []StartsOnTime` |

Assumptions: the sizes are natural numbers, the modelled channel is one of the
streamer's, and the value `None` is neither a number nor a packet. The host's half
of the invariant (`HostInv`) says that every channel has committed `next_seq`
packets and holds, or is about to get, the buffer of the next one (`Numbering`),
what the header of a call that is under way may still look like (`CallOK`), and
that the packet with which the application ends a burst is the last of its burst
(`EndEnds`; a packet marked by a cached end need not be). The device's half
(`DevInv`) compares the packet deframed last with the packet played last: they
are the same, or an error was raised since (`NothingSkipped`), or the packet at
the head is marked; `StateOK` and `RunOK` add what each state of `vita_tx_control`
has checked.

`FlashBootProofs`, for every number of pages, runs of the program, power failures,
lost packets and EEPROM errors:

| Theorem | States |
|---|---|
| `VerifyFailsOnlyAfterRestart` | `Spec => []FailsOnlyAfterRestart` |
| `VerifiedWritten` | `Spec => VerifiedIsWritten` (an action property) |
| `FirmwareFits` | `Spec => FirmwareFitsFpga` (an action property) |

Assumption: an image has more than one page. The key is `Queue`: of the packets
under way only the first can be anything but the first request of a run, and
once a run has its first reply nothing of earlier runs is left, so that every
later reply is the answer to the run's own request (`Answer`) and nothing writes
or erases behind it (`Quiet`). `Progress` says how far the image in work is erased,
written and read, as long as the device did not restart; `SeenOK` what was read
back; `FlagOK` where the flag can be set. The proof showed a fault of the model:
one CASE had overlapping guards, of which TLC takes the first and TLA+ leaves
the choice open; it is now a disjunction of exclusive cases.

`RecvHandlerProofs`, for any number of channels, samples per packet, alignment
threshold, sizes of calls and faults:

| Theorem | States |
|---|---|
| `SamplesXorError` | `Spec => []SamplesOrError` |
| `OverflowsReported` | `Spec => []MessagesReported` |
| `ChannelsInUnison` | `Spec => []Unison` |
| `GapTimed` | `Spec => []GapTime` |
| `NoGapSilent` | `Spec => []NoSilentGap` |
| `DropsJustified` | `Spec => []DropJustified` |

Assumptions: there is a channel, packets and calls have at least one sample, the
other constants are natural numbers, and there are fewer faults than packet counts
(`MaxFaults < SeqMod`), without which `NoSilentGap` is false.

Argument. `IInv` (theorem `RecvInvariant`) is what all six rest on. `Ring` describes the
four infos: the one after the next is as `reset` leaves it, the next is too while a
set is collected, and holds what an early end has parked otherwise; the current one
has samples only if it is a complete set without an error. A set that is collected
(`Collecting`) has the time it waits for in every channel that is done, and no
channel is done while it waits for none, which `PACKET_TIMESTAMP_ERROR` relies on.
`Counted` follows a message from the socket through the info or the queued error
to the application. `InfosDated` and `SockDated` (a data packet has the time of its
place, before or after the clock was set) turn equal times into equal places
(`TimeToPlace`).

The other three theorems depend on which packets were sent, and lost, before. They do
not look at the actions again but at two views of them: `DeviceStep` says what any
step of the FPGA or the network does to sockets, places and counts, and `Read`, `Misses`
and `Settled` what a step of `recv` does to `Work`, the info that has the set, on
whichever turn of the ring (`HostKinds`).

* `GapTimed`: `Reports` says that the info looked at for the time of a gap is that of
  the set delivered last, and that `expect` is where it ended (`Follows`), through
  errors that are parked or queued and timeouts that are forgotten.
* `NoGapSilent`: the packets of a channel, from the last one read over those in the
  socket to the one the FPGA works on, form a line (`Line`). `Sorted`: places and bursts
  grow along it, and only the last packet of a burst is cut short. `Chained`: the
  counts of neighbours differ as their places do, and the places by at most one plus
  the faults so far. So a count that fits is the next place (`CountFollows`), since
  no more than `SeqMod - 1` can be missing. `LastRead` ties the line to
  `packet_count` and to the set; `InOrder` keeps the bursts of different channels
  apart. `Tracking` then says where the channels are between two deliveries: each is
  at the place delivered last or has the next one in the set, or the burst is over on
  some channel (`Over`), so that no set of it can be complete again.
* `DropsJustified`: while the clock was not set, a buffer that is going to be
  overwritten is older than one that stays (`Waiting`), and there is a place `D` such
  that all a channel still has lies behind it, and whatever arrived behind it is
  still there or has no counterpart (`Behind`). The line of the channel with the newer
  packet shows that the older place is not to come any more on it, so it never came.
  `Past` shows that `PACKET_TIMESTAMP_ERROR` cannot strike. With the clock set and no
  other fault (`InStep`) all channels have the same places in the same order, and none
  waits for another.

Each inductive invariant was checked with TLC on the instances of section 3
before it was proved, with bounds in place of infinite sets, except for the
conjuncts that are types.

Only model-checked:

* liveness (`CallsEnd` of `FifoCtrl` and `CtrlIface`, `LockComesBack`, `NotStuck`,
  `ReportsStop`, `HeadLeaves`, `BootEnds`), which is outside what TLAPS proves; every
  invariant and action property of a passing run is stated by a theorem;
* the three violated properties of section 4, which have counterexamples.

## 6. Plan

1. `Time64` (torn reads, set at PPS), `MtuProbe` (late echoes), the shared SPI core
   at cycle level with the settings FIFO's clear.
2. The firmware's network services: ARP cache, UART bridge, link state,
   asynchronous I2C; packet router and dispatcher of the FPGA.
3. The finite and chained stream commands of `vita_rx_control`, and the reports of
   transmit errors (`gen_context_pkt`).
4. An abstract register file that `FifoCtrl` and `CtrlIface` implement.

## 7. Not modelled

Third-party and generated code: OpenCores, Coregen output, simulation models and
lwIP 1.3.1. Most of the C in the repository is lwIP (about 54 000 of the 75 000
lines of program text), which the firmware's build does not even compile: it
takes a few headers of it and has its own network code in `zpu/lib`. The models
therefore stand for a small share of the repository's lines and for most of
its protocols. Left out as well:
DSP arithmetic (`fpga/sdr_lib`), RF chip drivers and calibration programs
(register arithmetic against analogue behaviour), sensors and the monitor's
JSON server, the property tree, packaging. UHD and Boost are used as their
documentation describes them: a receive with a timeout, a task that is
interrupted and joined, a mutex.
