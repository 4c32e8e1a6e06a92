-------------------------------- MODULE TxFlow --------------------------------
(***************************************************************************)
(* Flow control of the transmit streams (host/umtrx_io_impl.cpp).  A       *)
(* streamer numbers its packets and stops when a window of them is not yet *)
(* consumed; the FPGA (trigger_context_pkt.v, gen_context_pkt.v) reports   *)
(* the number of the last packet it took out of the SRAM, to the UDP       *)
(* socket that the framer was programmed with.  A streamer that is         *)
(* destroyed turns the reports off and flushes its socket.  When a report  *)
(* reaches a closed socket, the host's kernel answers with an ICMP packet  *)
(* and the ZPU shuts every stream down (handle_udp_data_packet of          *)
(* zpu/apps/txrx_uhd.c).                                                   *)
(*                                                                         *)
(* A session is the life of one streamer of one channel, in the order in   *)
(* which get_tx_stream made them.  Sessions may overlap; the application   *)
(* sends on the newest one of a channel only.                              *)
(***************************************************************************)
EXTENDS Integers, Sequences

CONSTANTS
  Chans,        \* transmit channels (TX DSPs)
  None,         \* no channel
  NSessions,    \* bound: streamers made
  Window,       \* fc_window: packets of SRAM_BYTES
  SeqMod,       \* 2^32: the values of seq_type
  MaxSent,      \* bound: packets sent
  MaxReports,   \* bound: reports on the way to one socket, ICMP packets
  MaxLost,      \* bound: packets the network drops
  MaxCrashes    \* bound: crashes of the application

ASSUME ChansAssumption == None \notin Chans
ASSUME SessionsAssumption == NSessions \in Nat
ASSUME WindowAssumption == Window \in Nat /\ Window >= 2
ASSUME SeqModAssumption == SeqMod \in Nat /\ SeqMod > Window + 1
ASSUME BoundAssumption ==
  /\ MaxSent \in Nat
  /\ MaxReports \in Nat \ {0}
  /\ MaxLost \in Nat
  /\ MaxCrashes \in Nat

VARIABLES
  device,       \* an application has the device open
  st,           \* where a session stands
  chan,         \* its channel
  last_seq_out, \* _last_seq_out
  last_seq_ack, \* _last_seq_ack
  reports,      \* reports on their way to, or in, the socket of a session
  sram,         \* packets of a channel on their way to the FPGA or in its SRAM
  seqnum,       \* current_seqnum of a channel's deframer
  updates,      \* REG_TX_CTRL_CYCLES_PER_UP and PACKETS_PER_UP are enabled
  dest,         \* session whose socket a channel's framer sends to
  icmp,         \* ICMP packets on their way to the ZPU
  stale,        \* history: sessions that took a report about another session
  killed,       \* history: an ICMP packet shut open sessions down
  sent,         \* history: packets sent
  lost,         \* history: packets dropped
  crashes       \* history: crashes

sessVars == <<device, st, chan, last_seq_out, last_seq_ack>>
fpgaVars == <<sram, seqnum, updates, dest>>
histVars == <<stale, killed, sent, lost, crashes>>
vars     == <<sessVars, fpgaVars, reports, icmp, histVars>>

\* Streamers, in the order of their creation.
Sessions == 1 .. NSessions

SeqNum == 0 .. SeqMod - 1

\* Mutant: the number does not wrap around.
NextSeq_none(n) == n + 1

\* get_curr_seq_out.
NextSeq(n) == (n + 1) % SeqMod

\* xport, cleared: get_tx_stream has made the transport, has cleared the DSP;
\* flush: the task of a destroyed streamer has turned the reports off.
Phases == {"unused", "xport", "cleared", "open", "flush", "closed"}

\* s is the last session made for its channel.
Newest(s) == \A t \in Sessions : t > s /\ st[t] # "unused" => chan[t] # chan[s]

Sending(s) == st[s] = "open" /\ Newest(s)

-----------------------------------------------------------------------------
(* The host.                                                               *)

\* get_tx_stream runs under _setupMutex: one session at a time is being made.
NextSession(s) ==
  /\ device
  /\ st[s] = "unused"
  /\ \A t \in Sessions : t < s => st[t] \notin {"unused", "xport", "cleared"}

\* make_xport programs the framer.  The peek that ends it returns when the
\* ZPU has handled everything sent before, ICMP packets included.
MakeXport(s, c) ==
  /\ NextSession(s)
  /\ icmp = 0
  /\ st' = [st EXCEPT ![s] = "xport"]
  /\ chan' = [chan EXCEPT ![s] = c]
  /\ dest' = [dest EXCEPT ![c] = s]
  /\ UNCHANGED <<device, last_seq_out, last_seq_ack, sram, seqnum, updates, reports,
                 icmp, histVars>>

\* tx_dsp_core_200::setup clears and flushes the channel for 10 ms.
Clear(s) ==
  /\ st[s] = "xport"
  /\ st' = [st EXCEPT ![s] = "cleared"]
  /\ sram' = [sram EXCEPT ![chan[s]] = <<>>]
  /\ seqnum' = [seqnum EXCEPT ![chan[s]] = SeqMod - 1]
  /\ UNCHANGED <<device, chan, last_seq_out, last_seq_ack, updates, dest, reports,
                 icmp, histVars>>

\* The end of get_tx_stream: a fresh monitor, set_updates, the task.
Open(s) ==
  /\ st[s] = "cleared"
  /\ st' = [st EXCEPT ![s] = "open"]
  /\ last_seq_out' = [last_seq_out EXCEPT ![s] = 0]
  /\ last_seq_ack' = [last_seq_ack EXCEPT ![s] = 0]
  /\ updates' = [updates EXCEPT ![chan[s]] = TRUE]
  /\ UNCHANGED <<device, chan, sram, seqnum, dest, reports, icmp, histVars>>

\* Mutant: the window is one too large.
Ready_late(s) == (last_seq_out[s] - last_seq_ack[s]) % SeqMod <= Window

\* Mutant: the report is compared as the number of packets consumed.
Ready_count(s) == (last_seq_out[s] - last_seq_ack[s]) % SeqMod < Window - 1

Ready(s) == (last_seq_out[s] - last_seq_ack[s]) % SeqMod < Window

\* get_send_buff and the commit of its packet.
Send(s) ==
  /\ Sending(s)
  /\ Ready(s)
  /\ sent < MaxSent
  /\ sent' = sent + 1
  /\ last_seq_out' = [last_seq_out EXCEPT ![s] = NextSeq(@)]
  /\ sram' = [sram EXCEPT ![chan[s]] = Append(@, last_seq_out[s])]
  /\ UNCHANGED <<device, st, chan, last_seq_ack, seqnum, updates, dest, reports, icmp,
                 stale, killed, lost, crashes>>

\* The same with a packet that the network drops.
SendLost(s) ==
  /\ Sending(s)
  /\ Ready(s)
  /\ sent < MaxSent
  /\ sent' = sent + 1
  /\ lost < MaxLost
  /\ lost' = lost + 1
  /\ last_seq_out' = [last_seq_out EXCEPT ![s] = NextSeq(@)]
  /\ UNCHANGED <<device, st, chan, last_seq_ack, fpgaVars, reports, icmp, stale,
                 killed, crashes>>

\* handle_tx_async_msgs takes a report: update_fc_condition.
RecvReport(s) ==
  /\ st[s] = "open"
  /\ reports[s] # <<>>
  /\ last_seq_ack' = [last_seq_ack EXCEPT ![s] = Head(reports[s]).seq]
  /\ stale' = IF Head(reports[s]).about = s THEN stale ELSE stale \cup {s}
  /\ reports' = [reports EXCEPT ![s] = Tail(@)]
  /\ UNCHANGED <<device, st, chan, last_seq_out, fpgaVars, icmp, killed, sent,
                 lost, crashes>>

\* The streamer is destroyed: its task turns the channel's reports off ...
StopFlowControl(s) ==
  /\ st[s] = "open"
  /\ st' = [st EXCEPT ![s] = "flush"]
  /\ updates' = [updates EXCEPT ![chan[s]] = FALSE]
  /\ UNCHANGED <<device, chan, last_seq_out, last_seq_ack, sram, seqnum, dest, reports,
                 icmp, histVars>>

\* What is left of reports when n of them had arrived at a socket that closes.
OnTheWay(rs, n) == SubSeq(rs, n + 1, Len(rs))

\* ... and flushes: the loop ends with the first packet it gets, or after a
\* second without one.  The socket closes, and what else it holds is gone.
Flush(s) ==
  /\ st[s] = "flush"
  /\ st' = [st EXCEPT ![s] = "closed"]
  /\ \E n \in 0 .. Len(reports[s]) :
       /\ reports[s] # <<>> => n > 0
       /\ reports' = [reports EXCEPT ![s] = OnTheWay(@, n)]
  /\ UNCHANGED <<device, chan, last_seq_out, last_seq_ack, fpgaVars, icmp,
                 histVars>>

\* The application dies; its sockets close, the radio knows nothing of it.
Crash ==
  /\ device
  /\ crashes < MaxCrashes
  /\ crashes' = crashes + 1
  /\ device' = FALSE
  /\ st' = [s \in Sessions |-> IF st[s] = "unused" THEN "unused" ELSE "closed"]
  /\ \E n \in [Sessions -> 0 .. MaxReports] :
       /\ \A s \in Sessions : n[s] <= IF st[s] = "closed" THEN 0
                                                         ELSE Len(reports[s])
       /\ reports' = [s \in Sessions |-> OnTheWay(reports[s], n[s])]
  /\ UNCHANGED <<chan, last_seq_out, last_seq_ack, fpgaVars, icmp, stale,
                 killed, sent, lost>>

\* The device is opened again: the constructor of tx_dsp_core_200 clears each
\* channel, and leaves the reports on.
Reopen ==
  /\ ~device
  /\ device' = TRUE
  /\ sram' = [c \in Chans |-> <<>>]
  /\ seqnum' = [c \in Chans |-> SeqMod - 1]
  /\ UNCHANGED <<st, chan, last_seq_out, last_seq_ack, updates, dest, reports,
                 icmp, histVars>>

-----------------------------------------------------------------------------
(* The FPGA, the network and the ZPU.                                      *)

\* The deframer takes the next packet out of the SRAM.
Consume(c) ==
  /\ sram[c] # <<>>
  /\ seqnum' = [seqnum EXCEPT ![c] = Head(sram[c])]
  /\ sram' = [sram EXCEPT ![c] = Tail(@)]
  /\ UNCHANGED <<sessVars, updates, dest, reports, icmp, histVars>>

\* A report, triggered by the cycle counter or the packet counter.  Until the
\* channel is cleared the number is that of an earlier session.
Report(c) ==
  /\ updates[c]
  /\ dest[c] \in Sessions
  /\ Len(reports[dest[c]]) < MaxReports
  /\ reports' = [reports EXCEPT ![dest[c]] =
                   Append(@, [seq |-> seqnum[c],
                              about |-> IF st[dest[c]] = "xport" THEN 0
                                                                 ELSE dest[c]])]
  /\ UNCHANGED <<sessVars, fpgaVars, icmp, histVars>>

LoseReport(s) ==
  /\ reports[s] # <<>>
  /\ lost < MaxLost
  /\ lost' = lost + 1
  /\ reports' = [reports EXCEPT ![s] = Tail(@)]
  /\ UNCHANGED <<sessVars, fpgaVars, icmp, stale, killed, sent, crashes>>

\* A report reaches a closed socket: the kernel answers "port unreachable".
StrayReport(s) ==
  /\ st[s] = "closed"
  /\ reports[s] # <<>>
  /\ icmp < MaxReports
  /\ reports' = [reports EXCEPT ![s] = Tail(@)]
  /\ icmp' = icmp + 1
  /\ UNCHANGED <<sessVars, fpgaVars, histVars>>

\* Mutant: the reports are left on.
HandleIcmp_rxOnly ==
  /\ icmp > 0
  /\ icmp' = icmp - 1
  /\ sram' = [c \in Chans |-> <<>>]
  /\ killed' = (killed \/ \E s \in Sessions : Sending(s))
  /\ UNCHANGED <<sessVars, seqnum, updates, dest, reports, stale, sent, lost,
                 crashes>>

\* handle_udp_data_packet without a payload: "shut all systems down that could
\* send packets to the host".
HandleIcmp ==
  /\ icmp > 0
  /\ icmp' = icmp - 1
  /\ sram' = [c \in Chans |-> <<>>]
  /\ updates' = [c \in Chans |-> FALSE]
  /\ killed' = (killed \/ \E s \in Sessions : Sending(s))
  /\ UNCHANGED <<sessVars, seqnum, dest, reports, stale, sent, lost, crashes>>

-----------------------------------------------------------------------------
Init ==
  /\ device = TRUE
  /\ st = [s \in Sessions |-> "unused"]
  /\ chan = [s \in Sessions |-> None]
  /\ last_seq_out = [s \in Sessions |-> 0]
  /\ last_seq_ack = [s \in Sessions |-> 0]
  /\ reports = [s \in Sessions |-> <<>>]
  /\ sram = [c \in Chans |-> <<>>]
  /\ seqnum = [c \in Chans |-> SeqMod - 1]
  /\ updates = [c \in Chans |-> FALSE]
  /\ dest = [c \in Chans |-> 0]
  /\ icmp = 0
  /\ stale = {}
  /\ killed = FALSE
  /\ sent = 0
  /\ lost = 0
  /\ crashes = 0

Host(s) ==
  \/ \E c \in Chans : MakeXport(s, c)
  \/ Clear(s) \/ Open(s)
  \/ Send(s) \/ SendLost(s)
  \/ RecvReport(s)
  \/ StopFlowControl(s) \/ Flush(s)

Next ==
  \/ \E s \in Sessions : Host(s) \/ LoseReport(s) \/ StrayReport(s)
  \/ \E c \in Chans : Consume(c) \/ Report(c)
  \/ HandleIcmp
  \/ Crash \/ Reopen

Spec == Init /\ [][Next]_vars

\* The FPGA consumes packets and its cycle counter triggers a report time and
\* again; the task of a streamer polls its socket, the kernel answers for a
\* closed one and the main loop of the ZPU polls for packets.  Nothing makes
\* the application open, send or close.
FairSpec ==
  /\ Spec
  /\ \A c \in Chans : WF_vars(Consume(c)) /\ WF_vars(Report(c))
  /\ \A s \in Sessions : WF_vars(RecvReport(s)) /\ WF_vars(StrayReport(s))
  /\ WF_vars(HandleIcmp)

-----------------------------------------------------------------------------
(* Properties.                                                             *)

\* Every variable holds a value of its type.
TypeOK ==
  /\ device \in BOOLEAN
  /\ st \in [Sessions -> Phases]
  /\ chan \in [Sessions -> Chans \cup {None}]
  /\ last_seq_out \in [Sessions -> SeqNum]
  /\ last_seq_ack \in [Sessions -> SeqNum]
  /\ reports \in [Sessions -> Seq([seq : SeqNum, about : Sessions \cup {0}])]
  /\ sram \in [Chans -> Seq(SeqNum)]
  /\ seqnum \in [Chans -> SeqNum]
  /\ updates \in [Chans -> BOOLEAN]
  /\ dest \in [Chans -> Sessions \cup {0}]
  /\ icmp \in 0 .. MaxReports
  /\ stale \subseteq Sessions
  /\ killed \in BOOLEAN
  /\ {sent, lost, crashes} \subseteq Nat

\* "we will never commit more than the SRAM can hold": between the host and
\* the deframer there are at most a window of packets, whatever the reports
\* say and whichever are lost or late.  The exception is a session whose
\* socket got a report that was made before its channel was cleared.
CommitWithinWindow ==
  \A c \in Chans :
    (\A s \in stale : chan[s] # c) => Len(sram[c]) <= Window

\* A sender that waits in check_fc_condition is let go on, as long as the
\* reports come: the report of the last packet consumed opens the window.  It
\* holds while fewer packets are lost than the window has beyond two.
NotStuck ==
  \A s \in Sessions :
    Sending(s) /\ ~Ready(s) ~>
      \/ Ready(s) \/ ~Sending(s)
      \/ ~updates[chan[s]]

\* The radio stops reporting to an application that is gone, however it went:
\* the reports are turned off or somebody else gets them.
ReportsStop ==
  \A c \in Chans, s \in Sessions :
    dest[c] = s /\ st[s] = "closed" /\ updates[c] ~>
      ~updates[c] \/ dest[c] # s

\* "flush after fc off": closing a streamer, without a crash, does not make
\* the ZPU shut the other streams down.
CloseIsHarmless == crashes = 0 => ~killed
===============================================================================
