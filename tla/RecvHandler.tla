----------------------------- MODULE RecvHandler -----------------------------
(***************************************************************************)
(* The receive streamer (host/cores/super_recv_packet_handler.hpp) and the *)
(* packets it is fed with by the receive chains of the FPGA                *)
(* (fpga/vrt/vita_rx_control.v, vita_rx_framer.v).  Each channel has a UDP *)
(* socket of its own.  recv() collects one packet per channel with the     *)
(* same timestamp, throws older ones away, and reports what is not data    *)
(* (messages of the FPGA, timeouts, gaps in the packet counts, packets it  *)
(* cannot unpack) as the error code of a call that returns no samples.     *)
(* A call that ends early parks what it has collected in the next of four  *)
(* infos, where the next call finds it.                                    *)
(*                                                                         *)
(* A packet's "pos" is its place on the grid of samples the channels       *)
(* capture together (packet pos starts with sample pos * SPP); its time is *)
(* what the device's clock said then, and the application may set that     *)
(* clock back while it streams.                                            *)
(***************************************************************************)
EXTENDS Integers, Sequences, FiniteSets, FiniteSetsExt

CONSTANTS
  NChans,       \* channels of the streamer
  SPP,          \* samples per packet
  SeqMod,       \* 2^4: values of a packet count
  Threshold,    \* _alignment_faulure_threshold
  Wants,        \* nsamps_per_buff of the calls
  Back,         \* how far the clock is set back
  MaxPos,       \* bound: places on the grid of packets
  MaxFaults     \* bound: packets lost, overruns, restarts of the stream, settings
                \* of the clock and stray packets together

ASSUME SizesAssumption ==
  /\ NChans \in Nat \ {0}
  /\ SPP \in Nat \ {0}
  /\ SeqMod \in Nat \ {0}
  /\ Threshold \in Nat
  /\ Wants \subseteq Nat \ {0}
  /\ Back \in Nat
ASSUME BoundAssumption ==
  /\ MaxPos \in Nat
  /\ MaxFaults \in 0 .. SeqMod - 1

Chans == 0 .. NChans - 1

VARIABLES
  \* the FPGA, per channel
  running,      \* ibs_state is IBS_RUNNING
  pos,          \* place of the next packet
  pkt_count,    \* pkt_count of the framer
  setAt,        \* place from which on the clock is behind
  burst,        \* how often the stream was started
  \* the sockets
  sock,
  \* recv_packet_handler
  packet_count, \* packet_count of the channels: the next one expected
  infos,        \* _buffers_infos
  idx,          \* _buffers_infos_index
  queued,       \* _queue_error_for_next_call and _queue_metadata
  call,         \* the recv() that runs
  \* history
  expect,       \* per channel: the sample that follows the last one delivered,
                \* None after an error that was reported
  arrived,      \* data packets that reached their socket
  dropped,      \* data packets the alignment threw away
  messages,     \* overflow messages read off the sockets
  reported,     \* overflow messages reported to the application
  faults        \* faults so far

fpgaVars == <<running, pos, pkt_count, setAt, burst>>
hostVars == <<packet_count, infos, idx, queued, call>>
histVars == <<expect, dropped, messages, reported>>
sockVars == <<sock, arrived>>
vars == <<fpgaVars, sockVars, hostVars, histVars, faults>>

None == -1

-----------------------------------------------------------------------------
(* The receive chains of the FPGA, packet by packet.                       *)

\* The device's clock at a sample of the grid, in samples.  No packet is as
\* old as the 0 that an info is reset to.
VitaTime(n) == n + Back + 1 - (IF n >= setAt * SPP THEN Back ELSE 0)

Data(c, len, eob) ==
  [kind |-> "data", pos |-> pos[c], time |-> VitaTime(pos[c] * SPP), len |-> len,
   count |-> pkt_count[c], eob |-> eob, burst |-> burst]

\* An extension context packet with the flag of its state.
Message(c, code, len) ==
  [kind |-> code, pos |-> pos[c], time |-> VitaTime(pos[c] * SPP + len), len |-> 1,
   count |-> pkt_count[c], eob |-> FALSE, burst |-> burst]

Fault(n) ==
  /\ faults + n <= MaxFaults
  /\ faults' = faults + n

\* Of the one or two packets sent on a channel the network drops the ones in
\* gone.
Kept(sent, gone) ==
  (IF 1 \in gone THEN <<>> ELSE <<sent[1]>>)
    \o (IF Len(sent) = 1 \/ 2 \in gone THEN <<>> ELSE <<sent[2]>>)

Deliver(c, sent, gone) ==
  LET there == Kept(sent, gone)
  IN /\ sock' = [sock EXCEPT ![c] = @ \o there]
     /\ arrived' = arrived \cup
          {<<c, there[k].pos>> : k \in {j \in DOMAIN there : there[j].kind = "data"}}

\* IBS_RUNNING with room in the sample FIFO: a whole packet.
Capture(c) ==
  /\ running[c]
  /\ pos[c] < MaxPos
  /\ \E gone \in SUBSET {1} :
       /\ Deliver(c, <<Data(c, SPP, FALSE)>>, gone)
       /\ Fault(Cardinality(gone))
  /\ pos' = [pos EXCEPT ![c] = @ + 1]
  /\ pkt_count' = [pkt_count EXCEPT ![c] = (@ + 1) % SeqMod]
  /\ UNCHANGED <<running, setAt, burst, hostVars, histVars>>

\* The sample FIFO is full at a strobe (IBS_OVERRUN): the packet is cut short,
\* a message follows, the channel is idle.
Overrun(c) ==
  /\ running[c]
  /\ pos[c] < MaxPos
  /\ \E len \in 0 .. SPP - 1 :
       LET msg  == Message(c, "overflow", len)
           sent == IF len = 0 THEN <<msg>>
                   ELSE <<Data(c, len, FALSE),
                          [msg EXCEPT !.count = (@ + 1) % SeqMod]>>
       IN /\ \E gone \in SUBSET DOMAIN sent :
               /\ Deliver(c, sent, gone)
               /\ Fault(1 + Cardinality(gone))
          /\ pkt_count' = [pkt_count EXCEPT ![c] = (@ + Len(sent) - 1) % SeqMod]
  /\ pos' = [pos EXCEPT ![c] = @ + 1]
  /\ running' = [running EXCEPT ![c] = FALSE]
  /\ UNCHANGED <<setAt, burst, hostVars, histVars>>

\* The last packet of a channel that is told to stop (signal_cmd_done), or the
\* message of one that is idle (IBS_ZEROLEN).
StopPacket(c, len) ==
  IF running[c] THEN Data(c, len, TRUE) ELSE Message(c, "zerolen", 0)

\* issue_stream_cmd twice, between calls: stop, then start all channels at one
\* time (IBS_WAITING).  Each channel stops where it is.
Restart ==
  /\ call.st = "idle"
  /\ Fault(1)
  /\ \A c \in Chans : pos[c] + 1 < MaxPos
  /\ \E len \in 1 .. SPP :
       /\ sock' = [c \in Chans |-> Append(sock[c], StopPacket(c, len))]
       /\ arrived' = arrived \cup {<<c, pos[c]>> : c \in {d \in Chans : running[d]}}
       /\ pkt_count' = [c \in Chans |->
            IF running[c] THEN (pkt_count[c] + 1) % SeqMod ELSE pkt_count[c]]
  /\ pos' = [c \in Chans |-> Max({pos[d] : d \in Chans}) + 1]
  /\ running' = [c \in Chans |-> TRUE]
  /\ burst' = burst + 1
  /\ UNCHANGED <<setAt, hostVars, histVars>>

\* time64_core_200::set_time_now with a time that is past.
SetTime ==
  /\ setAt > MaxPos
  /\ Fault(1)
  /\ setAt' = Max({pos[c] : c \in Chans})
  /\ UNCHANGED <<running, pos, pkt_count, burst, sockVars, hostVars, histVars>>

\* A packet that if_hdr_unpack_be rejects, such as one of a session with
\* larger frames.
Stray(c) ==
  /\ Fault(1)
  /\ sock' = [sock EXCEPT ![c] = Append(@, [Data(c, SPP, FALSE) EXCEPT !.kind = "bad"])]
  /\ UNCHANGED <<fpgaVars, arrived, hostVars, histVars>>

-----------------------------------------------------------------------------
(* The infos.                                                              *)

NothingExpected == [c \in Chans |-> [sample |-> None, burst |-> 0]]

NoMeta == [err |-> "none", has_time |-> FALSE, time |-> 0, eob |-> FALSE]

EmptyBuffer == [held |-> FALSE, pos |-> None, time |-> 0, len |-> 0, eob |-> FALSE,
                burst |-> 0, kind |-> "data"]

EmptyInfo ==
  [todo |-> Chans, valid |-> FALSE, time |-> 0, left |-> 0, offset |-> 0, meta |-> NoMeta,
   ch |-> [c \in Chans |-> EmptyBuffer]]

\* buffers_info_type::reset.  The unpacked header (ifpi) keeps its length.
Reset(info) ==
  [EmptyInfo EXCEPT !.ch = [c \in Chans |-> [EmptyBuffer EXCEPT !.len = info.ch[c].len]]]

Slot(k) == (idx + k) % 4
curr == infos[Slot(0)]
next == infos[Slot(1)]
prev == infos[Slot(3)]

\* The unpacked packet p in the place of a channel's last one.
Unpacked(info, c, p) ==
  [info EXCEPT !.ch[c] = [held |-> TRUE, pos |-> p.pos, time |-> p.time, len |-> p.len,
                          eob |-> p.eob, burst |-> p.burst, kind |-> p.kind]]

\* Mutant: an older packet counts as a match.
alignment_check_older(info, c) ==
  IF ~info.valid \/ info.ch[c].time > info.time
  THEN [info EXCEPT !.valid = TRUE, !.time = info.ch[c].time, !.todo = Chans \ {c},
                    !.left = info.ch[c].len]
  ELSE [info EXCEPT !.todo = @ \ {c}]

\* A newer packet makes all other channels try again, one of the same time
\* completes its channel, an older one is fetched over.
alignment_check(info, c) ==
  IF ~info.valid \/ info.ch[c].time > info.time
  THEN [info EXCEPT !.valid = TRUE, !.time = info.ch[c].time, !.todo = Chans \ {c},
                    !.left = info.ch[c].len]
  ELSE IF info.ch[c].time = info.time THEN [info EXCEPT !.todo = @ \ {c}] ELSE info

\* PACKET_TIMESTAMP_ERROR: the packet is older than the last one delivered,
\* so the time the others wait for is void.
timestamp_check(info, c) ==
  IF prev.ch[c].time > info.ch[c].time /\ info.valid /\ info.time # info.ch[c].time
  THEN [info EXCEPT !.valid = FALSE]
  ELSE info

-----------------------------------------------------------------------------
(* recv().                                                                 *)

Idle == [st |-> "idle", want |-> 0, got |-> 0, first |-> TRUE, one |-> FALSE, iter |-> 0]

\* Mutant: the info before the current one is not reset.
enter_one_packet_stale(is, cl) ==
  IF is[Slot(0)].left # 0
  THEN infos' = is /\ idx' = idx /\ call' = [cl EXCEPT !.st = "copy"]
  ELSE infos' = is /\ idx' = Slot(1) /\ call' = [cl EXCEPT !.st = "get", !.iter = 0]

\* recv_one_packet begins: with what is left of the current set, or with
\* get_aligned_buffs on the next info, once the one before the current is
\* reset.
enter_one_packet(is, cl) ==
  IF is[Slot(0)].left # 0
  THEN /\ infos' = is
       /\ idx' = idx
       /\ call' = [cl EXCEPT !.st = "copy"]
  ELSE /\ infos' = [is EXCEPT ![Slot(3)] = Reset(@)]
       /\ idx' = Slot(1)
       /\ call' = [cl EXCEPT !.st = "get", !.iter = 0]

\* A call, with the error queued by the last one first; a queued timeout is
\* forgotten.
RecvBegin(n, one) ==
  /\ call.st = "idle"
  /\ IF queued \notin {"none", "timeout"}
     THEN /\ expect' = NothingExpected
          /\ reported' = reported + (IF queued = "overflow" THEN 1 ELSE 0)
          /\ UNCHANGED <<infos, idx, call>>
     ELSE /\ enter_one_packet(infos, [Idle EXCEPT !.want = n, !.one = one])
          /\ UNCHANGED <<expect, reported>>
  /\ queued' = "none"
  /\ UNCHANGED <<fpgaVars, sockVars, packet_count, dropped, messages, faults>>

\* Mutant: what was collected is not saved.
end_early_lose(progress, meta) ==
  /\ infos' = [infos EXCEPT ![Slot(0)] = [Reset(progress) EXCEPT !.meta = meta]]
  /\ call' = [call EXCEPT !.st = "copy"]

\* std::swap(curr_info, next_info): the progress waits in the next info, the
\* current one describes the error.
end_early(progress, meta) ==
  /\ infos' = [infos EXCEPT ![Slot(0)] = [next EXCEPT !.meta = meta],
                            ![Slot(1)] = progress]
  /\ call' = [call EXCEPT !.st = "copy"]

Error(e) == [NoMeta EXCEPT !.err = e]

\* One more packet counted against the threshold.
keep_going(info) ==
  IF call.iter > Threshold
  THEN end_early(info, Error("alignment"))
  ELSE /\ infos' = [infos EXCEPT ![Slot(0)] = info]
       /\ call' = [call EXCEPT !.iter = @ + 1]

\* The channel's buffer is overwritten: what it still holds is thrown away.
Overwritten(c) ==
  IF curr.ch[c].held /\ curr.ch[c].kind = "data" THEN {<<c, curr.ch[c].pos>>} ELSE {}

next_count(p) == (p.count + 1) % SeqMod

\* Mutant: the count is not looked at.
in_sequence_always(c, p) == TRUE

in_sequence(c, p) == p.count = packet_count[c]

\* Mutant: the gap is reported at the start of the last set.
gap_meta_start(c) ==
  [Error("gap") EXCEPT !.has_time = prev.meta.has_time, !.time = prev.meta.time]

\* PACKET_SEQUENCE_ERROR: the time at which the last set ended.
gap_meta(c) ==
  [Error("gap") EXCEPT !.has_time = prev.meta.has_time,
                       !.time = prev.meta.time + prev.ch[c].len]

\* get_and_process_single_packet and the case of get_aligned_buffs for it.
GetPacket ==
  /\ call.st = "get"
  /\ curr.todo # {}
  /\ LET c == Min(curr.todo)
         p == Head(sock[c])
         u == Unpacked(curr, c, p)
     IN /\ sock[c] # <<>>
        /\ sock' = [sock EXCEPT ![c] = Tail(@)]
        /\ dropped' = dropped \cup Overwritten(c)
        /\ messages' = messages + (IF p.kind = "overflow" THEN 1 ELSE 0)
        /\ packet_count' =
             IF p.kind # "data" THEN packet_count
             ELSE [packet_count EXCEPT ![c] = next_count(p)]
        /\ CASE p.kind = "bad" ->
                  end_early([curr EXCEPT !.ch[c].held = FALSE], Error("bad_packet"))
             [] p.kind \in {"overflow", "zerolen"} ->
                  end_early(u, [Error(p.kind) EXCEPT !.has_time = TRUE, !.time = p.time])
             [] p.kind = "data" /\ ~in_sequence(c, p) ->
                  end_early(alignment_check(u, c), gap_meta(c))
             [] p.kind = "data" /\ in_sequence(c, p) ->
                  keep_going(alignment_check(timestamp_check(u, c), c))
  /\ UNCHANGED <<fpgaVars, arrived, idx, queued, expect, reported, faults>>

\* get_recv_buff found nothing in time.
GetTimeout ==
  /\ call.st = "get"
  /\ curr.todo # {}
  /\ LET c == Min(curr.todo)
     IN /\ sock[c] = <<>>
        /\ dropped' = dropped \cup Overwritten(c)
        /\ end_early([curr EXCEPT !.ch[c].held = FALSE], Error("timeout"))
  /\ UNCHANGED <<fpgaVars, sockVars, packet_count, idx, queued, expect, messages,
                 reported, faults>>

\* get_aligned_buffs ends with a set: its metadata is that of channel 0.
Aligned ==
  /\ call.st = "get"
  /\ curr.todo = {}
  /\ infos' = [infos EXCEPT ![Slot(0)].meta =
                 [err |-> "none", has_time |-> TRUE, time |-> curr.ch[0].time,
                  eob |-> curr.ch[0].eob]]
  /\ call' = [call EXCEPT !.st = "copy"]
  /\ UNCHANGED <<fpgaVars, sockVars, packet_count, idx, queued, histVars, faults>>

\* Samples the next call or loop takes of the current set.
nsamps_to_copy == Min({call.want - call.got, curr.left})

\* The buffers are released with the last samples.
Consumed(info, n) ==
  [info EXCEPT !.left = @ - n, !.offset = @ + n,
               !.ch = IF n = info.left
                      THEN [c \in Chans |-> [info.ch[c] EXCEPT !.held = FALSE]]
                      ELSE @]

\* Mutant: the error of a later packet is forgotten.
error_for_next_call_none(err) == "none"

error_for_next_call(err) == IF ~call.first THEN err ELSE "none"

\* The rest of recv_one_packet, and what recv does with its result: return
\* it, queue its error for the next call, or go on for more samples.
Copy ==
  /\ call.st = "copy"
  /\ LET n    == nsamps_to_copy
         is   == [infos EXCEPT ![Slot(0)] = Consumed(curr, n)]
         err  == curr.meta.err
         more == err = "none" /\ ~call.one /\ call.got + n < call.want
     IN /\ IF more
           THEN enter_one_packet(is, [call EXCEPT !.got = @ + n, !.first = FALSE])
           ELSE infos' = is /\ idx' = idx /\ call' = Idle
        /\ queued' = error_for_next_call(err)
        /\ expect' =
             IF n > 0
             THEN [c \in Chans |-> [sample |-> curr.ch[c].pos * SPP + curr.offset + n,
                                    burst |-> curr.ch[c].burst]]
             ELSE IF call.first /\ err # "timeout" THEN NothingExpected
             ELSE expect
        /\ reported' = reported + (IF err = "overflow" /\ call.first THEN 1 ELSE 0)
  /\ UNCHANGED <<fpgaVars, sockVars, packet_count, dropped, messages, faults>>

-----------------------------------------------------------------------------
Init ==
  /\ running = [c \in Chans |-> TRUE]
  /\ pos = [c \in Chans |-> 0]
  /\ pkt_count = [c \in Chans |-> 0]
  /\ setAt = MaxPos + 1
  /\ burst = 0
  /\ sock = [c \in Chans |-> <<>>]
  /\ arrived = {}
  /\ packet_count = [c \in Chans |-> 0]
  /\ infos = [k \in 0 .. 3 |-> EmptyInfo]
  /\ idx = 0
  /\ queued = "none"
  /\ call = Idle
  /\ expect = NothingExpected
  /\ dropped = {}
  /\ messages = 0
  /\ reported = 0
  /\ faults = 0

Next ==
  \/ \E c \in Chans : Capture(c) \/ Overrun(c) \/ Stray(c)
  \/ Restart
  \/ SetTime
  \/ \E n \in Wants, one \in BOOLEAN : RecvBegin(n, one)
  \/ GetPacket
  \/ GetTimeout
  \/ Aligned
  \/ Copy

Spec == Init /\ [][Next]_vars

-----------------------------------------------------------------------------
\* The clock was set back by a whole number of packets, so that packets of
\* different places may have the same time.
Ambiguous == setAt <= MaxPos /\ \E n \in 1 .. MaxPos : Back = n * SPP

\* Samples that recv hands over together were captured together, whatever was
\* lost, restarted or reported before: the alignment matches the channels'
\* packets by time, and thereby by place unless times are ambiguous.  (Past the
\* end of a packet that was cut short the handler reads on.)
Unison ==
  call.st = "copy" /\ curr.left > 0 =>
    \A c, d \in Chans :
      /\ curr.ch[c].time = curr.ch[d].time
      /\ curr.ch[c].held
      /\ ~Ambiguous => curr.ch[c].pos = curr.ch[d].pos

\* On whichever turn of the ring, a call comes back with samples or with an
\* error, and never with both or neither: the info an error is described in is
\* a fresh one, and so is the one the next set is collected in.
SamplesOrError == call.st = "copy" => (curr.meta.err = "none" <=> curr.left > 0)

\* An overflow message that recv took off a socket is reported to the
\* application once, at once or with the next call.
MessagesReported ==
  call.st = "idle" => messages = reported + (IF queued = "overflow" THEN 1 ELSE 0)

\* recv never skips samples silently: what it delivers on a channel continues
\* what it delivered last, unless it has reported an error other than a
\* timeout in between, or the application has started the stream anew.  When
\* times are ambiguous the packets of a stream that was restarted may match
\* those of the one before it, and what the alignment drops on the way is not
\* reported.
NoSilentGap ==
  call.st = "copy" /\ curr.left > 0 /\ ~Ambiguous =>
    \A c \in Chans :
      expect[c].sample # None /\ expect[c].burst = curr.ch[c].burst =>
        expect[c].sample = curr.ch[c].pos * SPP + curr.offset

\* The time of a gap in the packet counts, where it is reported with one, is
\* the time of the first sample that is missing, unless the last packet
\* before it was cut short.
GapTime ==
  /\ call.st = "copy"
  /\ curr.meta.err = "gap" /\ curr.meta.has_time
  /\ expect[0].sample # None
  /\ \A c \in Chans : prev.ch[c].len = SPP
  => curr.meta.time = VitaTime(expect[0].sample - 1) + 1

\* The alignment throws a packet away only if a packet of another channel for
\* the same place never came.  Setting the clock back alone costs nothing; it
\* does when the channels are out of step for another reason, because packets
\* of the old and the new time meet and PACKET_TIMESTAMP_ERROR sees only some.
DropJustified ==
  \A d \in dropped :
    \/ \E c \in Chans : <<c, d[2]>> \notin arrived
    \/ setAt <= MaxPos /\ faults > 1
=============================================================================
