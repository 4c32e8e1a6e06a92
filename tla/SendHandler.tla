----------------------------- MODULE SendHandler -----------------------------
(***************************************************************************)
(* The transmit streamer (host/cores/super_send_packet_handler.hpp) and    *)
(* the transmit control of one channel it feeds (fpga/vrt/                 *)
(* vita_tx_deframer.v, vita_tx_control.v).  send() cuts the samples of a   *)
(* call into packets, one per channel with the same header, and marks the  *)
(* start and the end of a burst and the time at which it is due.  The FPGA *)
(* plays a burst without a break; when a packet is missing, late or too    *)
(* slow it raises an error and skips the packet (policy next_packet) or    *)
(* the rest of the burst (next_burst).                                     *)
(*                                                                         *)
(* Whether a buffer comes in time is decided by the flow control, which    *)
(* module TxFlow models; here a timeout may happen to any get_buff.        *)
(***************************************************************************)
EXTENDS Integers, Sequences, FiniteSets, FiniteSetsExt

CONSTANTS
  None,         \* no metadata, no buffer, no time, no packet
  NChans,       \* channels of the streamer
  Dev,          \* the channel whose transmit control is modelled
  SPP,          \* _max_samples_per_packet
  Sizes,        \* nsamps_per_buff of the calls
  Ahead,        \* how far ahead of the clock a burst is asked for
  SeqMod,       \* 2^4: values of the packet count of a VITA header
  MaxPkts,      \* bound: packets per channel
  MaxTime,      \* bound: the device's clock
  MaxCalls,     \* bound: calls of send()
  MaxFaults     \* bound: packets lost and timeouts together

ASSUME SizesAssumption ==
  /\ NChans \in Nat \ {0} /\ Dev \in 0 .. NChans - 1
  /\ SPP \in Nat \ {0} /\ SeqMod \in Nat \ {0}
  /\ Sizes \subseteq Nat /\ Ahead \in Nat
ASSUME BoundAssumption ==
  {MaxPkts, MaxTime, MaxCalls, MaxFaults} \subseteq Nat

Chans == 0 .. NChans - 1

\* What a packet carries, and what the transmit control has at its head.
Times == Int \cup {None}
CacheUses == {"no", "start", "start_end"}
Packets == [fc : Nat, vita : Nat, sob : BOOLEAN, eob : BOOLEAN, tsf : Times, len : Nat,
            burst : Nat, pad : BOOLEAN, last : BOOLEAN, cached : CacheUses]
Heads == [id : Nat, p : Packets, err : BOOLEAN, start : Int]

ASSUME NoneAssumption == None \notin Int /\ None \notin Heads

VARIABLES
  \* send_packet_handler
  cache,        \* _metadata_cache, or None: _cached_metadata is false
  next_seq,     \* _next_packet_seq
  call,         \* the send() that runs, or None
  held,         \* props.buff: per channel the number of the buffer it holds, or None
  next_fc,      \* per channel: the number its next buffer gets
  out,          \* per channel: the packets committed
  \* the application
  open,         \* it has begun a burst that it has not ended
  burst,        \* number of its burst
  calls,
  \* the transmit control
  policy,       \* sr_error_policy
  now,          \* vita_time
  rd,           \* packets of out[Dev] that left the network
  seqnum_reg,   \* the deframer's numbers: of the buffer, of the VITA header
  vita_seqnum_reg,
  head,         \* the packet at the head of the sample FIFO with the time its state
                \* machine took it up, or None
  ibs_state,
  \* history
  played,       \* what the DSP was given: packet, whether all of it, and when
  raised,       \* the codes raised, with the length of played at that time
  faults

hostVars == <<cache, next_seq, call, held, next_fc, out>>
appVars == <<open, burst, calls>>
fpgaVars == <<now, rd, seqnum_reg, vita_seqnum_reg, head, ibs_state, played, raised>>
vars == <<hostVars, appVars, policy, fpgaVars, faults>>

-----------------------------------------------------------------------------
(* send(): the call's metadata, the packets it makes of it.                *)

\* The header the call starts with.  A start of burst that came without
\* samples was cached; it gives this call its flags, and its time unless the
\* call has one.
first_header(md) ==
  IF cache # None /\ md.n # 0
    THEN [sob |-> cache.sob, eob |-> cache.eob,
          tsf |-> IF md.time # None THEN md.time ELSE cache.time]
    ELSE [sob |-> md.sob, eob |-> md.eob, tsf |-> md.time]

\* Of a call that takes more than one packet only the last ends the burst (in
\* the mutant, the first does too).
one_packet_all(md) == TRUE
one_packet(md) == md.n <= SPP

\* The header of the next fragment, after sent samples: its time counts from
\* the time of the call (time 0 when it has none), also where the first
\* fragment had the time of the cache.
next_fragment(hdr, md, sent) ==
  [sob |-> FALSE, eob |-> md.n - sent <= SPP /\ md.eob,
   tsf |-> IF hdr.tsf = None THEN None
           ELSE (IF md.time = None THEN 0 ELSE md.time) + sent]

\* The application starts a burst, goes on with it or ends it, with or
\* without samples, any of these or none in one call, and may ask for a time
\* when it starts one.
Metadata == {md \in [n : Sizes, sob : {~open}, eob : BOOLEAN, time : {None, now + Ahead}] :
               md.time # None => md.sob /\ md.time <= MaxTime}

\* A start of burst without samples is kept for the next call with samples,
\* with the end of burst if the call has that flag too: to the application
\* such a burst is over.
SendCache(md) ==
  /\ md.n = 0 /\ md.sob
  /\ cache' = md
  /\ open' = ~md.eob
  /\ UNCHANGED call

\* History: whether the call is one the cached metadata is applied to, and
\* whether that had an end of burst.
cache_use(md) ==
  IF cache = None \/ md.n = 0 THEN "no" ELSE IF cache.eob THEN "start_end" ELSE "start"

\* Anything else goes out; a call without samples, at the end of a burst or
\* in the middle of one, with one sample of padding.
SendData(md) ==
  /\ ~(md.n = 0 /\ md.sob)
  /\ cache' = IF md.n # 0 THEN None ELSE cache
  /\ open' = TRUE
  /\ call' = [md |-> md, sent |-> 0, cached |-> cache_use(md),
              hdr |-> IF one_packet(md) THEN first_header(md)
                      ELSE [first_header(md) EXCEPT !.eob = FALSE]]

Send(md) ==
  /\ call = None /\ calls < MaxCalls
  /\ calls' = calls + 1
  /\ burst' = IF md.sob THEN burst + 1 ELSE burst
  /\ SendCache(md) \/ SendData(md)
  /\ UNCHANGED <<next_seq, held, next_fc, out, policy, fpgaVars, faults>>

\* Samples of the packet that is sent now.
nsamps == IF call.md.n = 0 THEN 1 ELSE Min({SPP, call.md.n - call.sent})

\* The samples a call has sent when it returns; a padded call returns 0.
Returned(n) == IF call.md.n = 0 THEN 0 ELSE n

\* The application's view after a call that returned n: a burst it could not
\* start at all is not open, one whose last samples went out is closed.  A
\* call without samples returns 0 whatever happened: it takes it for sent.
AppReturns(n) ==
  open' = IF call.md.n = 0 THEN ~call.md.eob
          ELSE IF n = 0 /\ call.md.sob THEN FALSE
          ELSE ~(call.md.eob /\ n = call.md.n)

\* send_one_packet: a buffer for every channel ...
number(c) == IF held[c] # None THEN held[c] ELSE next_fc[c]

\* A mutant: the buffers are given up.
keep_buffers_none(c) ==
  /\ held' = [k \in Chans |-> None]
  /\ next_fc' = [k \in Chans |-> IF k < c /\ held[k] = None THEN next_fc[k] + 1 ELSE next_fc[k]]

\* ... or a timeout at channel c: the call returns, the channels before c keep
\* the buffers they got for the next packet.
keep_buffers(c) ==
  /\ held' = [k \in Chans |-> IF k < c THEN number(k) ELSE held[k]]
  /\ next_fc' = [k \in Chans |-> IF k < c /\ held[k] = None THEN next_fc[k] + 1 ELSE next_fc[k]]

SendTimeout(c) ==
  /\ call # None /\ held[c] = None /\ faults < MaxFaults
  /\ faults' = faults + 1
  /\ keep_buffers(c)
  /\ AppReturns(Returned(call.sent))
  /\ call' = None
  /\ UNCHANGED <<cache, next_seq, out, burst, calls, policy, fpgaVars>>

\* The packet of a channel.  The fields after len are history: whose samples
\* they are, whether they are padding, whether the call asked for the burst to
\* end with them, whether the call came after a cached start.
packet(c) ==
  [fc |-> number(c), vita |-> next_seq % SeqMod,
   sob |-> call.hdr.sob, eob |-> call.hdr.eob, tsf |-> call.hdr.tsf, len |-> nsamps,
   burst |-> burst, pad |-> call.md.n = 0,
   last |-> call.md.eob /\ call.sent + nsamps >= call.md.n,
   cached |-> call.cached]

\* The conversion and the commit of every channel; then the next fragment, or
\* the call returns.
SendPacket ==
  /\ call # None /\ next_seq < MaxPkts
  /\ out' = [c \in Chans |-> Append(out[c], packet(c))]
  /\ held' = [c \in Chans |-> None]
  /\ next_fc' = [c \in Chans |-> IF held[c] = None THEN next_fc[c] + 1 ELSE next_fc[c]]
  /\ next_seq' = next_seq + 1
  /\ LET sent == call.sent + nsamps IN
     IF sent < call.md.n
       THEN /\ call' = [call EXCEPT !.sent = sent,
                                    !.hdr = next_fragment(call.hdr, call.md, sent)]
            /\ UNCHANGED open
       ELSE /\ call' = None
            /\ AppReturns(Returned(sent))
  /\ UNCHANGED <<cache, burst, calls, policy, fpgaVars, faults>>

-----------------------------------------------------------------------------
(* The deframer: the next packet of the network, or its loss.              *)

\* A packet whose numbers do not follow the last packet's is marked.
seqnum_err(p) == p.fc # seqnum_reg + 1 \/ p.vita # (vita_seqnum_reg + 1) % SeqMod

Lose ==
  /\ rd < Len(out[Dev]) /\ faults < MaxFaults
  /\ rd' = rd + 1
  /\ faults' = faults + 1
  /\ UNCHANGED <<hostVars, appVars, policy, now, seqnum_reg, vita_seqnum_reg, head,
                 ibs_state, played, raised>>

Deframe ==
  /\ head = None /\ rd < Len(out[Dev])
  /\ rd' = rd + 1
  /\ LET p == out[Dev][rd + 1] IN
       /\ head' = [id |-> rd + 1, p |-> p, err |-> seqnum_err(p), start |-> now]
       /\ seqnum_reg' = p.fc
       /\ vita_seqnum_reg' = p.vita
  /\ UNCHANGED <<hostVars, appVars, policy, now, ibs_state, played, raised, faults>>

-----------------------------------------------------------------------------
(* The state machine of vita_tx_control.                                   *)

deframeVars == <<rd, seqnum_reg, vita_seqnum_reg>>
restVars == <<hostVars, appVars, policy, deframeVars, faults>>

raise(code) == raised' = Append(raised, [code |-> code, at |-> Len(played)])

\* time_compare; in the mutants a packet that is late is due, or never late.
send_at == head.p.tsf # None
due_or_late == now >= head.p.tsf
due == now = head.p.tsf
late_never == FALSE
late == now > head.p.tsf

\* IBS_IDLE: a packet may start a burst.
IdleSeqError ==
  /\ ibs_state = "IDLE" /\ head # None
  /\ head.err
  /\ ibs_state' = "ERROR"
  /\ raise("SEQ_ERROR")
  /\ UNCHANGED <<restVars, now, head, played>>

IdleStart ==
  /\ ibs_state = "IDLE" /\ head # None
  /\ ~head.err
  /\ send_at => due
  /\ ibs_state' = "RUN"
  /\ head' = [head EXCEPT !.start = now]
  /\ UNCHANGED <<restVars, now, played, raised>>

IdleLate ==
  /\ ibs_state = "IDLE" /\ head # None
  /\ ~head.err
  /\ send_at /\ late
  /\ ibs_state' = "ERROR"
  /\ raise("TIME_ERROR")
  /\ UNCHANGED <<restVars, now, head, played>>

\* IBS_RUN: the samples go out one per strobe; the packet may come too slowly.
RunMidUnderrun ==
  /\ ibs_state = "RUN" /\ head.p.len > 1
  /\ played' = Append(played, [id |-> head.id, whole |-> FALSE, when |-> head.start])
  /\ raised' = Append(raised, [code |-> "UNDERRUN_MIDPKT", at |-> Len(played) + 1])
  /\ ibs_state' = "ERROR"
  /\ UNCHANGED <<restVars, now, head>>

RunPacket ==
  /\ ibs_state = "RUN"
  /\ played' = Append(played, [id |-> head.id, whole |-> TRUE, when |-> head.start])
  /\ head' = None
  /\ IF head.p.eob
       THEN /\ ibs_state' = "ERROR_DONE"
            /\ raised' = Append(raised, [code |-> "EOB_ACK", at |-> Len(played) + 1])
       ELSE ibs_state' = "CONT_BURST" /\ UNCHANGED raised
  /\ UNCHANGED <<restVars, now>>

\* IBS_CONT_BURST: the strobe comes before the next packet ...
after_underrun == IF policy = "next_packet" THEN "ERROR_DONE" ELSE "ERROR"

ContUnderrun ==
  /\ ibs_state = "CONT_BURST"
  /\ ibs_state' = after_underrun
  /\ raise("UNDERRUN")
  /\ UNCHANGED <<restVars, now, head, played>>

\* A mutant: a packet of the burst that runs is not checked.
ContPacket_unchecked ==
  /\ ibs_state = "CONT_BURST" /\ head # None
  /\ ibs_state' = "RUN"
  /\ head' = [head EXCEPT !.start = now]
  /\ UNCHANGED <<restVars, now, played, raised>>

\* ... or the packet does; its time is not looked at.
ContPacket ==
  /\ ibs_state = "CONT_BURST" /\ head # None
  /\ IF head.err
       THEN ibs_state' = "ERROR" /\ raise("SEQ_ERROR_MIDBURST")
       ELSE ibs_state' = "RUN" /\ UNCHANGED raised
  /\ head' = [head EXCEPT !.start = now]
  /\ UNCHANGED <<restVars, now, played>>

\* IBS_ERROR: packets are thrown away, up to the end of one or of the burst
\* (in the mutant, always of one).
resumes_packet(p) == TRUE
resumes(p) == policy = "next_packet" \/ p.eob

ErrorDrain ==
  /\ ibs_state = "ERROR" /\ head # None
  /\ head' = None
  /\ ibs_state' = IF resumes(head.p) THEN "IDLE" ELSE "ERROR"
  /\ UNCHANGED <<restVars, now, played, raised>>

ErrorDone ==
  /\ ibs_state = "ERROR_DONE"
  /\ ibs_state' = "IDLE"
  /\ UNCHANGED <<restVars, now, head, played, raised>>

\* The clock, many cycles of the state machine per tick: a packet that is due
\* starts before it goes on.
Tick ==
  /\ now < MaxTime \/ (ibs_state = "IDLE" /\ head # None /\ send_at /\ now < head.p.tsf)
  /\ ~(ibs_state = "IDLE" /\ head # None /\ ~head.err /\ send_at /\ due)
  /\ now' = now + 1
  /\ UNCHANGED <<restVars, head, ibs_state, played, raised>>

Control == \/ IdleSeqError \/ IdleStart \/ IdleLate
           \/ RunMidUnderrun \/ RunPacket
           \/ ContUnderrun \/ ContPacket
           \/ ErrorDrain \/ ErrorDone

-----------------------------------------------------------------------------
Init ==
  /\ cache = None /\ next_seq = 0 /\ call = None
  /\ held = [c \in Chans |-> None]
  /\ next_fc = [c \in Chans |-> 0]
  /\ out = [c \in Chans |-> <<>>]
  /\ open = FALSE /\ burst = 0 /\ calls = 0
  /\ policy \in {"next_packet", "next_burst"}
  /\ now = 0 /\ rd = 0
  /\ seqnum_reg = -1 /\ vita_seqnum_reg = SeqMod - 1
  /\ head = None /\ ibs_state = "IDLE"
  /\ played = <<>> /\ raised = <<>> /\ faults = 0

Next ==
  \/ \E md \in Metadata : Send(md)
  \/ \E c \in Chans : SendTimeout(c)
  \/ SendPacket
  \/ Lose
  \/ Deframe
  \/ Control
  \/ Tick

Spec == Init /\ [][Next]_vars /\ WF_fpgaVars(Deframe) /\ WF_fpgaVars(Control) /\ WF_fpgaVars(Tick)

-----------------------------------------------------------------------------
(* Properties.                                                             *)

startsBurst(i) == i = 1 \/ out[Dev][i - 1].burst # out[Dev][i].burst

\* The packet before was marked as the end of the burst, and is not.
cutBefore(i) == i > 1 /\ out[Dev][i - 1].eob /\ ~out[Dev][i - 1].last

\* Packet i of what was played follows packet i - 1 without a break.
follows(k) ==
  IF k = 1 THEN played[1].id = 1
  ELSE played[k].id = played[k - 1].id + 1 /\ played[k - 1].whole

\* The channels of a streamer stay in step through timeouts (send_one_packet
\* gives the buffers it holds to the next packet): the k-th packet of every
\* channel has the same header and samples, its buffer's number follows the
\* last one's, and the two numbers the device compares agree.
InStep ==
  \A c \in Chans : \A k \in DOMAIN out[c] :
    /\ out[c][k] = out[0][k]
    /\ out[c][k].fc = k - 1
    /\ out[c][k].vita = (k - 1) % SeqMod

\* Only the last packet of a call that ends the burst is marked as the end of
\* it, and it is, except where the call takes one packet and follows a start
\* of burst without samples: there the cached flags replace the call's.  Its
\* end is lost if the cached start had none, and it is marked as an end it is
\* not if the cached start was that of an empty burst.
EndIsMarked ==
  \A k \in DOMAIN out[Dev] :
    LET p == out[Dev][k] IN
      /\ p.eob /\ ~p.last => p.sob /\ p.cached = "start_end"
      /\ p.last /\ ~p.eob => p.sob /\ p.cached = "start"

\* With the policy next_burst the device plays a prefix of every burst: after
\* an error nothing of the burst comes out any more, whatever is lost, late or
\* slow, even when the packet that ends it is the one that is lost.  The rest
\* of a burst whose first packet carries the cached end of an empty burst is a
\* burst of its own to the device, and to the property.
PlaysPrefixes ==
  policy = "next_burst" =>
    \A k \in DOMAIN played :
      startsBurst(played[k].id) \/ cutBefore(played[k].id) \/ follows(k)

\* Samples that are not played are not missed silently: wherever what was
\* played has a break, the device raised an error between the two packets.
NoSilentHole ==
  \A k \in DOMAIN played :
    \/ follows(k)
    \/ \E j \in DOMAIN raised : raised[j].at = k - 1 /\ raised[j].code # "EOB_ACK"

\* A burst that carries its time starts at that time or not at all, provided
\* the burst before it was ended on the wire: an earlier burst that still runs
\* takes the packet as its next one.
StartsOnTime ==
  \A k \in DOMAIN played :
    LET i == played[k].id
        p == out[Dev][i] IN
      (startsBurst(i) /\ p.tsf # None /\ (i = 1 \/ out[Dev][i - 1].eob)) =>
        played[k].when = p.tsf

\* "Metadata is cached when we get a send requesting a start of burst with no
\* samples.  It is applied here on the next call to send() that actually has
\* samples to send": the first samples of every burst are marked as its
\* start.
StartIsApplied ==
  \A i \in DOMAIN out[Dev] :
    startsBurst(i) /\ ~out[Dev][i].pad => out[Dev][i].sob

\* No order of errors leaves the transmit control stuck on a packet: the head
\* of its FIFO is played or thrown away, so the packets behind it move up.
HeadLeaves == []<>(head = None)

=============================================================================
