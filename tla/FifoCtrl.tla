------------------------------ MODULE FifoCtrl ------------------------------
(***************************************************************************)
(* The register path of the radio.  The host's umtrx_fifo_ctrl (file       *)
(* host/umtrx_fifo_ctrl.cpp) sends numbered register commands over UDP and *)
(* lets at most a window of them go unacknowledged; settings_fifo_ctrl.v   *)
(* in the FPGA queues the commands, executes them in order and answers     *)
(* each one with its number and a readback word.                           *)
(*                                                                         *)
(* A command or acknowledgement carries, besides its 16-bit number seq,    *)
(* the number id that it would have were numbers unbounded.  Ids are       *)
(* history: no guard and no assignment to a program variable reads one.    *)
(* Every host call runs under _mutex, so one call is in progress at a      *)
(* time.                                                                   *)
(***************************************************************************)
EXTENDS Integers, Sequences

CONSTANTS
  Window,       \* _window_size, after the clip to MAX_SEQS_OUT
  FifoDepth,    \* entries of a shortfifo (16 in the FPGA)
  SeqMod,       \* 2^16: the values of _seq_out and _seq_ack
  CtrlWords,    \* SPI control words the drivers use; none of them is 0
  MaxSent,      \* bound: commands the host sends
  MaxTimeouts,  \* bound: calls that give up waiting for an acknowledgement
  MaxLost,      \* bound: packets the network drops
  SocketDepth   \* bound: acknowledgements the host's socket holds

ASSUME WindowAssumption == Window \in Nat
ASSUME FifoDepthAssumption == FifoDepth \in Nat /\ FifoDepth >= 2
ASSUME BoundAssumption ==
  /\ MaxSent \in Nat
  /\ MaxTimeouts \in Nat
  /\ MaxLost \in Nat
  /\ SocketDepth \in Nat

\* The numbers stay comparable: fewer than half of them are ever in flight.
ASSUME SeqModAssumption ==
  /\ SeqMod \in Nat \ {0}
  /\ 2 * (Window + 2 + MaxTimeouts) <= SeqMod
ASSUME CtrlWordsAssumption == 0 \notin CtrlWords

VARIABLES
  seq_out,      \* _seq_out: number of the last command sent
  seq_ack,      \* _seq_ack: number of the last acknowledgement read
  ctrl_cache,   \* _ctrl_word_cache
  pc,           \* where the call in progress stands
  call,         \* the call in progress
  toDev,        \* UDP packets on their way to the FPGA
  cmdFifo,      \* command_fifo
  wedged,       \* the command FIFO was written while full
  spi_ctrl,     \* SPI control register of the FPGA
  resFifo,      \* result_fifo
  toHost,       \* UDP packets on their way to the host
  sent,         \* history: commands sent
  acked,        \* history: id of the last acknowledgement read
  ret,          \* history: last readback that returned, wanted and got
  lastSpi,      \* history: last SPI transfer, wanted and used control word
  torn,         \* history: a call threw between control word and cache
  ctrlLost,     \* history: the network dropped a control word
  timeouts,     \* history: calls that threw on a missing acknowledgement
  lost          \* history: packets the network dropped

hostVars == <<seq_out, seq_ack, ctrl_cache, pc, call>>
devVars  == <<cmdFifo, wedged, spi_ctrl, resFifo>>
histVars == <<sent, acked, ret, lastSpi, torn, ctrlLost, timeouts, lost>>
vars     == <<hostVars, devVars, toDev, toHost, histVars>>

-----------------------------------------------------------------------------
(* Sixteen-bit numbers: SeqMod of them, addition and subtraction wrap.     *)

SeqNum == 0 .. SeqMod - 1

\* Mutant: a number that is never cut to 16 bits.
Wrap_none(n) == n

Wrap(n) == IF n < 0 THEN n + SeqMod ELSE IF n >= SeqMod THEN n - SeqMod ELSE n

\* How far i1 is ahead of i0.
Ahead(i0, i1) == Wrap(i1 - i0)

SignBit(i) == 2 * i >= SeqMod

\* Mutant: the numbers compared as unsigned integers.
WraparoundLt_unsigned(i0, i1) == i0 < i1

\* The two branches of wraparound_lt16: unsigned comparison when the sign
\* bits agree, the sign of the 16-bit difference otherwise.
WraparoundLt(i0, i1) ==
  IF SignBit(i0) = SignBit(i1)
    THEN i0 < i1
    ELSE Wrap(i1 - i0) # 0 /\ ~SignBit(Wrap(i1 - i0))

-----------------------------------------------------------------------------
(* Packets and calls.                                                      *)

Ops == {"poke", "spi_ctrl", "spi_data", "peek"}

\* want is the control word the sender of an SPI data word means it for.
Commands == [id : Nat, seq : SeqNum, op : Ops, want : CtrlWords \cup {0}]
Acks     == [id : Nat, seq : SeqNum]

\* word is 0 for a call that does no SPI transfer.
Calls == [word : CtrlWords \cup {0}, readback : BOOLEAN]
NoCall == [word |-> 0, readback |-> FALSE]

\* ctrl, data: waiting for the window after an SPI control word or any other
\* poke; readback: waiting for the acknowledgement of the command just sent.
Waits == {"ctrl", "data", "readback"}

-----------------------------------------------------------------------------
(* The host.                                                               *)

\* send_pkt: number the command and hand it to the socket.
SendPkt(op, word) ==
  /\ sent < MaxSent
  /\ sent' = sent + 1
  /\ seq_out' = Wrap(seq_out + 1)
  /\ toDev' = Append(toDev, [id |-> sent + 1, seq |-> Wrap(seq_out + 1),
                             op |-> op, want |-> word])

Poke32 ==
  /\ pc = "idle"
  /\ SendPkt("poke", 0)
  /\ pc' = "data"
  /\ call' = NoCall
  /\ UNCHANGED <<seq_ack, ctrl_cache, devVars, toHost, acked, ret, lastSpi,
                 torn, ctrlLost, timeouts, lost>>

Peek32 ==
  /\ pc = "idle"
  /\ SendPkt("peek", 0)
  /\ pc' = "readback"
  /\ call' = NoCall
  /\ UNCHANGED <<seq_ack, ctrl_cache, devVars, toHost, acked, ret, lastSpi,
                 torn, ctrlLost, timeouts, lost>>

\* Mutant: the control word is sent for the first transfer only.
TransactSpi_once(word, readback) ==
  /\ pc = "idle"
  /\ IF ctrl_cache = 0
       THEN SendPkt("spi_ctrl", word) /\ pc' = "ctrl"
       ELSE SendPkt("spi_data", word) /\ pc' = "data"
  /\ call' = [word |-> word, readback |-> readback]
  /\ UNCHANGED <<seq_ack, ctrl_cache, devVars, toHost, acked, ret, lastSpi,
                 torn, ctrlLost, timeouts, lost>>

\* transact_spi up to its first wait: the control word goes out only when it
\* differs from the cached one.
TransactSpi(word, readback) ==
  /\ pc = "idle"
  /\ IF ctrl_cache # word
       THEN SendPkt("spi_ctrl", word) /\ pc' = "ctrl"
       ELSE SendPkt("spi_data", word) /\ pc' = "data"
  /\ call' = [word |-> word, readback |-> readback]
  /\ UNCHANGED <<seq_ack, ctrl_cache, devVars, toHost, acked, ret, lastSpi,
                 torn, ctrlLost, timeouts, lost>>

\* Mutants: a window one too large; a readback that waits for the command
\* before it, or for one not sent yet.
SeqToAck_late == IF pc = "readback" THEN seq_out ELSE Wrap(seq_out - Window - 1)
SeqToAck_prev == IF pc = "readback" THEN Wrap(seq_out - 1) ELSE Wrap(seq_out - Window)
SeqToAck_next == IF pc = "readback" THEN Wrap(seq_out + 1) ELSE Wrap(seq_out - Window)

\* The argument of wait_for_ack.
SeqToAck == IF pc = "readback" THEN seq_out ELSE Wrap(seq_out - Window)

\* The loop condition of wait_for_ack.
Waiting == pc \in Waits /\ WraparoundLt(seq_ack, SeqToAck)

\* One iteration of wait_for_ack.  The readback word of a peek is returned on
\* an exact match only.
RecvAck ==
  /\ Waiting
  /\ toHost # <<>>
  /\ LET ack == Head(toHost)
     IN  /\ toHost' = Tail(toHost)
         /\ seq_ack' = ack.seq
         /\ acked' = ack.id
         /\ IF pc = "readback" /\ ack.seq = SeqToAck
              THEN /\ pc' = "idle"
                   /\ ret' = [wanted |-> sent, got |-> ack.id]
              ELSE UNCHANGED <<pc, ret>>
  /\ UNCHANGED <<seq_out, ctrl_cache, call, devVars, toDev, sent, lastSpi,
                 torn, ctrlLost, timeouts, lost>>

\* wait_for_ack throws when nothing arrives in time; the call ends there.
AckTimeout ==
  /\ Waiting
  /\ toHost = <<>>
  /\ timeouts < MaxTimeouts
  /\ timeouts' = timeouts + 1
  /\ pc' = "idle"
  /\ torn' = (torn \/ pc = "ctrl")
  /\ UNCHANGED <<seq_out, seq_ack, ctrl_cache, call, devVars, toDev, toHost,
                 sent, acked, ret, lastSpi, ctrlLost, lost>>

\* transact_spi after the wait for its control word.
CtrlWordSent ==
  /\ pc = "ctrl"
  /\ ~Waiting
  /\ ctrl_cache' = call.word
  /\ SendPkt("spi_data", call.word)
  /\ pc' = "data"
  /\ UNCHANGED <<seq_ack, call, devVars, toHost, acked, ret, lastSpi, torn,
                 ctrlLost, timeouts, lost>>

\* The same with no send buffer: the cache is updated, then send_pkt throws.
CtrlWordSentNoBuff ==
  /\ pc = "ctrl"
  /\ ~Waiting
  /\ ctrl_cache' = call.word
  /\ pc' = "idle"
  /\ UNCHANGED <<seq_out, seq_ack, call, devVars, toDev, toHost, sent, acked,
                 ret, lastSpi, torn, ctrlLost, timeouts, lost>>

\* The conditional readback of an SPI transfer.
SpiReadback ==
  /\ pc = "data"
  /\ ~Waiting
  /\ call.readback
  /\ SendPkt("peek", 0)
  /\ pc' = "readback"
  /\ UNCHANGED <<seq_ack, ctrl_cache, call, devVars, toHost, acked, ret,
                 lastSpi, torn, ctrlLost, timeouts, lost>>

\* The call ends: a poke or a transfer without readback returns (or the send
\* of the readback throws); a readback that leaves the loop of wait_for_ack
\* without a match returns 0.
CallOver ==
  /\ pc \in {"data", "readback"}
  /\ ~Waiting
  /\ pc' = "idle"
  /\ ret' = IF pc = "readback" THEN [wanted |-> sent, got |-> 0] ELSE ret
  /\ UNCHANGED <<seq_out, seq_ack, ctrl_cache, call, devVars, toDev, toHost,
                 sent, acked, lastSpi, torn, ctrlLost, timeouts, lost>>

-----------------------------------------------------------------------------
(* The network drops packets; a single Ethernet link keeps their order.    *)

LoseCommand ==
  /\ toDev # <<>>
  /\ lost < MaxLost
  /\ lost' = lost + 1
  /\ toDev' = Tail(toDev)
  /\ ctrlLost' = (ctrlLost \/ Head(toDev).op = "spi_ctrl")
  /\ UNCHANGED <<hostVars, devVars, toHost, sent, acked, ret, lastSpi, torn,
                 timeouts>>

LoseAck ==
  /\ toHost # <<>>
  /\ lost < MaxLost
  /\ lost' = lost + 1
  /\ toHost' = Tail(toHost)
  /\ UNCHANGED <<hostVars, devVars, toDev, sent, acked, ret, lastSpi, torn,
                 ctrlLost, timeouts>>

-----------------------------------------------------------------------------
(* The FPGA.                                                               *)

\* The input state machine stores one packet as one command.
StoreCmd ==
  /\ toDev # <<>>
  /\ ~wedged
  /\ Len(cmdFifo) < FifoDepth
  /\ cmdFifo' = Append(cmdFifo, Head(toDev))
  /\ toDev' = Tail(toDev)
  /\ UNCHANGED <<hostVars, wedged, spi_ctrl, resFifo, toHost, histVars>>

\* STORE_CMD asserts write whether or not the FIFO is full.  The write shifts
\* the command in and wraps the read address; full then never falls, because
\* shortfifo lowers it on a read without a write only.  The input state
\* machine stays in STORE_CMD and, after the command that is already loaded
\* (and the one before it, when its action falls on the same clock edge), the
\* FIFO holds copies of this one command.
StoreCmdFull ==
  /\ toDev # <<>>
  /\ ~wedged
  /\ Len(cmdFifo) = FifoDepth
  /\ wedged' = TRUE
  /\ \E n \in 1 .. 2 : cmdFifo' = Append(SubSeq(cmdFifo, 1, n), Head(toDev))
  /\ toDev' = Tail(toDev)
  /\ UNCHANGED <<hostVars, spi_ctrl, resFifo, toHost, histVars>>

\* The action cycle of the command state machine: read the command (the copies
\* in a wedged FIFO never run out), act on it, store the result.  Waiting for
\* perfs_ready and for the command's time only delays the step.
Action ==
  /\ cmdFifo # <<>>
  /\ Len(resFifo) < FifoDepth
  /\ LET cmd == Head(cmdFifo)
     IN  /\ cmdFifo' = IF wedged /\ Len(cmdFifo) = 1
                         THEN cmdFifo ELSE Tail(cmdFifo)
         /\ resFifo' = Append(resFifo, [id |-> cmd.id, seq |-> cmd.seq])
         /\ spi_ctrl' = IF cmd.op = "spi_ctrl" THEN cmd.want ELSE spi_ctrl
         /\ lastSpi' = IF cmd.op = "spi_data"
                         THEN [wanted |-> cmd.want, used |-> spi_ctrl]
                         ELSE lastSpi
  /\ UNCHANGED <<hostVars, wedged, toDev, toHost, sent, acked, ret, torn,
                 ctrlLost, timeouts, lost>>

\* The output state machine sends one result as one packet; a full socket
\* drops it.
WriteResult ==
  /\ resFifo # <<>>
  /\ toHost' = IF Len(toHost) < SocketDepth THEN Append(toHost, Head(resFifo))
                                           ELSE toHost
  /\ resFifo' = Tail(resFifo)
  /\ UNCHANGED <<hostVars, cmdFifo, wedged, spi_ctrl, toDev, histVars>>

-----------------------------------------------------------------------------
Init ==
  /\ seq_out = 0
  /\ seq_ack = 0
  /\ ctrl_cache = 0
  /\ pc = "idle"
  /\ call = NoCall
  /\ toDev = <<>>
  /\ cmdFifo = <<>>
  /\ wedged = FALSE
  /\ spi_ctrl \in CtrlWords \cup {0}    \* left by an earlier session
  /\ resFifo = <<>>
  /\ toHost = <<>>
  /\ sent = 0
  /\ acked = 0
  /\ ret = [wanted |-> 0, got |-> 0]
  /\ lastSpi = [wanted |-> 0, used |-> 0]
  /\ torn = FALSE
  /\ ctrlLost = FALSE
  /\ timeouts = 0
  /\ lost = 0

Call ==
  \/ Poke32
  \/ Peek32
  \/ \E word \in CtrlWords, readback \in BOOLEAN : TransactSpi(word, readback)

\* The steps of a call in progress.
CallStep ==
  \/ RecvAck
  \/ AckTimeout
  \/ CtrlWordSent
  \/ CtrlWordSentNoBuff
  \/ SpiReadback
  \/ CallOver

Network == LoseCommand \/ LoseAck

Device == StoreCmd \/ StoreCmdFull \/ Action \/ WriteResult

\* The application makes no further call.
Done ==
  /\ pc = "idle"
  /\ sent = MaxSent
  /\ UNCHANGED vars

Next == Call \/ CallStep \/ Network \/ Device \/ Done

Spec == Init /\ [][Next]_vars

\* A call that started runs on, and the FPGA's state machines are clocked.
\* Nothing makes the application call or the network lose a packet.
FairSpec ==
  /\ Spec
  /\ WF_vars(CallStep)
  /\ WF_vars(StoreCmd \/ StoreCmdFull)
  /\ WF_vars(Action)
  /\ WF_vars(WriteResult)

-----------------------------------------------------------------------------
(* Properties.                                                             *)

\* Every variable holds a value of its type.
TypeOK ==
  /\ seq_out \in SeqNum
  /\ seq_ack \in SeqNum
  /\ ctrl_cache \in CtrlWords \cup {0}
  /\ pc \in Waits \cup {"idle"}
  /\ call \in Calls
  /\ toDev \in Seq(Commands)
  /\ cmdFifo \in Seq(Commands)
  /\ wedged \in BOOLEAN
  /\ spi_ctrl \in CtrlWords \cup {0}
  /\ resFifo \in Seq(Acks)
  /\ toHost \in Seq(Acks)
  /\ sent \in Nat
  /\ acked \in Nat
  /\ ret \in [wanted : Nat, got : Nat]
  /\ lastSpi \in [wanted : CtrlWords \cup {0}, used : CtrlWords \cup {0}]
  /\ torn \in BOOLEAN
  /\ ctrlLost \in BOOLEAN
  /\ timeouts \in 0 .. MaxTimeouts
  /\ lost \in 0 .. MaxLost

\* The window of poke32 and transact_spi keeps the command FIFO from being
\* written while full: with MAX_SEQS_OUT = 15 and 16 entries this can happen
\* only after a call has thrown on a missing acknowledgement.
CommandFifoNeverOverflows == wedged => Window + 1 + timeouts > FifoDepth

\* "when there is fifo space (should always be true)": a command that is due
\* finds room in the result FIFO, as long as no call has thrown.
ResultFifoHasSpace ==
  cmdFifo # <<>> /\ Window + 1 + timeouts <= FifoDepth
    => Len(resFifo) < FifoDepth

\* A peek or an SPI readback that returns, returns the word its own command
\* read: never that of another command and never the 0 of a loop that ended
\* without a match, across losses, timeouts and the wraparound of the
\* numbers.
ReadbackIsOwn == ret.got = ret.wanted

\* A readback is a barrier: when it returns, every earlier command has been
\* executed and acknowledged or was lost (the destructor's "dummy peek with
\* the purpose of ack'ing all packets" relies on it).
ReadbackIsBarrier ==
  ret.wanted = sent /\ ~wedged
    => toDev = <<>> /\ cmdFifo = <<>> /\ resFifo = <<>> /\ toHost = <<>>

\* An SPI transfer uses the control word (slave, width, edges) that its caller
\* asked for, although control words are sent only when the cached one
\* differs.  It can go wrong in three ways only: the network lost a control
\* word, a call threw after sending one and before caching it, or a command
\* FIFO written while full lost it.
SpiUsesWantedWord ==
  ~ctrlLost /\ ~torn /\ ~wedged => lastSpi.used = lastSpi.wanted

\* Every call ends, by returning or by throwing, whatever the network loses;
\* a wedged FPGA can keep it in wait_for_ack, each stale acknowledgement
\* restarting the timeout.
CallsEnd == (pc # "idle") ~> (pc = "idle" \/ wedged)
=============================================================================
