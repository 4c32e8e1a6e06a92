------------------------------ MODULE CtrlIface ------------------------------
(***************************************************************************)
(* The control channel of the radio: the host sends requests over UDP      *)
(* (ctrl_send_and_recv of host/umtrx_iface.cpp), the ZPU firmware handles  *)
(* one packet at a time and answers it (zpu/apps/txrx_uhd.c).  A request   *)
(* that times out is sent again under a new number, so the firmware may    *)
(* execute it several times, also after the call has given up.  The same   *)
(* link carries the packets that tell the FPGA's framer where to stream    *)
(* (program_stream_dest of host/umtrx_io_impl.cpp), which nobody answers.  *)
(*                                                                         *)
(* Calls run under _ctrl_mutex, one at a time.  A poke stands for every    *)
(* request with an effect (registers, SPI, I2C, ZPU actions), a peek for   *)
(* those without.  What a poke writes, and what program_stream_dest puts   *)
(* into the framer, is the number of the call.                             *)
(***************************************************************************)
EXTENDS Integers, Sequences

CONSTANTS
  Retries,      \* CTRL_RECV_RETRIES
  HostCompat,   \* USRP2_FW_COMPAT_NUM of the host's build
  MinCompat,    \* MIN_PROTO_COMPAT_REG
  FwVersions,   \* USRP2_FW_COMPAT_NUM of the firmware builds in the field
  MaxCalls,     \* bound: calls made
  MaxLost       \* bound: packets the network drops

ASSUME RetriesAssumption == Retries \in Nat \ {0}
ASSUME CompatAssumption ==
  /\ HostCompat \in Nat
  /\ MinCompat \in 0 .. HostCompat
  /\ FwVersions \subseteq Nat
ASSUME BoundAssumption == MaxCalls \in Nat /\ MaxLost \in Nat

VARIABLES
  ctrl_seq_num,     \* _ctrl_seq_num
  protocol_compat,  \* _protocol_compat
  pc,               \* where the caller stands
  op,               \* request of the call in progress
  attempt,          \* attempts of the call in progress
  toZpu,            \* packets on their way to the ZPU
  toHost,           \* packets on their way to the host
  fw,               \* compat number of the firmware that runs
  reg,              \* a register of the radio
  framer,           \* stream destination in the FPGA's framer
  calls,            \* history: calls made
  execs,            \* history: executions of the call in progress
  poked,            \* history: last poke that returned
  opened,           \* history: last make_xport that returned
  got,              \* history: last reply that a call returned
  destsLost,        \* history: program_stream_dests the network dropped
  lost              \* history: packets dropped

hostVars == <<ctrl_seq_num, protocol_compat, pc, op, attempt>>
devVars  == <<fw, reg, framer>>
retVars  == <<poked, opened, got>>
lossVars == <<destsLost, lost>>
vars     == <<hostVars, devVars, toZpu, toHost, calls, execs, retVars, lossVars>>

Ops == {"id", "poke", "peek"}
InCall == pc \in {"construct", "call", "xport"}

Requests == [kind : Ops, proto : Nat, seq : Nat, call : Nat]
Dests    == [kind : {"dest"}, call : Nat]
Replies  == [kind : Ops, proto : Nat, seq : Nat, call : Nat, val : Nat]

-----------------------------------------------------------------------------
(* The host.                                                               *)

\* Mutant: no upper end.
Accepts_open(compat) == compat >= (IF op = "id" THEN HostCompat ELSE MinCompat)

\* The compat numbers that a call accepts in a reply (lo and hi); the
\* constructor's request takes any number from the host's own upwards.
Accepts(compat) ==
  IF op = "id" THEN compat >= HostCompat ELSE compat \in MinCompat .. HostCompat

\* An attempt of call number c: the next number, and the packet under it, sent
\* behind what the caller sent before.
Send(o, c, before) ==
  /\ ctrl_seq_num' = ctrl_seq_num + 1
  /\ toZpu' = Append(toZpu \o before,
                     [kind |-> o, proto |-> protocol_compat,
                      seq |-> ctrl_seq_num + 1, call |-> c])

\* ctrl_send_and_recv up to its first wait.
StartCall(o, before) ==
  /\ calls < MaxCalls
  /\ calls' = calls + 1
  /\ execs' = 0
  /\ op' = o
  /\ attempt' = 1
  /\ Send(o, calls + 1, before)
  /\ UNCHANGED <<protocol_compat, devVars, toHost, retVars, lossVars>>

\* The constructor asks for the firmware's compat number.
Construct ==
  /\ pc = "new"
  /\ pc' = "construct"
  /\ StartCall("id", <<>>)

\* poke32, pokefw, transact_spi, write_i2c and send_zpu_action; peek32, peekfw
\* and read_i2c.
GetReg(o) ==
  /\ pc = "idle"
  /\ pc' = "call"
  /\ StartCall(o, <<>>)

\* Mutant: the peek goes out before the packet it is to flush.
MakeXport_peekFirst ==
  /\ pc = "idle"
  /\ pc' = "xport"
  /\ calls < MaxCalls
  /\ calls' = calls + 1
  /\ execs' = 0
  /\ op' = "peek"
  /\ attempt' = 1
  /\ ctrl_seq_num' = ctrl_seq_num + 1
  /\ toZpu' = toZpu \o <<[kind |-> "peek", proto |-> protocol_compat,
                          seq |-> ctrl_seq_num + 1, call |-> calls + 1],
                         [kind |-> "dest", call |-> calls + 1]>>
  /\ UNCHANGED <<protocol_compat, devVars, toHost, retVars, lossVars>>

\* make_xport: program_stream_dest, then "peek to ensure the zpu processed
\* the program_stream_dest()".
MakeXport ==
  /\ pc = "idle"
  /\ pc' = "xport"
  /\ StartCall("peek", <<[kind |-> "dest", call |-> calls + 1]>>)

\* A call that throws; a constructor that throws leaves no interface.
Throw == pc' = IF pc = "construct" THEN "dead" ELSE "idle"

\* Mutant: the number of the reply is not compared.
IsReply_any(reply) == TRUE

IsReply(reply) == reply.seq = ctrl_seq_num

\* A reply that ends the call; the last conjunct is the assertion on its id
\* in get_reg and its siblings.
Returns(reply) ==
  /\ Accepts(reply.proto)
  /\ IsReply(reply)
  /\ reply.kind = op

\* The reply is the call's, the firmware is not the one the host wants.
Refuses(reply) ==
  \/ ~Accepts(reply.proto)
  \/ IsReply(reply) /\ reply.kind # op

\* One packet in the loop of ctrl_send_and_recv_internal: it throws, or ends
\* the call, or is skipped.
Recv ==
  /\ InCall
  /\ toHost # <<>>
  /\ toHost' = Tail(toHost)
  /\ LET reply == Head(toHost)
     IN  IF Returns(reply)
           THEN /\ pc' = "idle"
                /\ protocol_compat' = IF pc = "construct" THEN reply.proto
                                                          ELSE protocol_compat
                /\ got' = [call |-> reply.call, of |-> calls, execs |-> execs,
                           op |-> op, val |-> reply.val, since |-> poked]
                /\ poked' = IF op = "poke" THEN calls ELSE poked
                /\ opened' = IF pc = "xport" THEN calls ELSE opened
           ELSE /\ IF Refuses(reply) THEN Throw ELSE pc' = pc
                /\ UNCHANGED <<protocol_compat, retVars>>
  /\ UNCHANGED <<ctrl_seq_num, op, attempt, devVars, toZpu, calls, execs,
                 lossVars>>

\* Mutants: one attempt too many; the last attempt waits for ever.
Timeout_extra ==
  /\ InCall
  /\ toHost = <<>>
  /\ IF attempt <= Retries
       THEN Send(op, calls, <<>>) /\ attempt' = attempt + 1 /\ pc' = pc
       ELSE Throw /\ UNCHANGED <<attempt, ctrl_seq_num, toZpu>>
  /\ UNCHANGED <<protocol_compat, op, devVars, toHost, calls, execs, retVars,
                 lossVars>>
Timeout_hangs ==
  /\ InCall
  /\ toHost = <<>>
  /\ attempt < Retries
  /\ Send(op, calls, <<>>)
  /\ attempt' = attempt + 1
  /\ UNCHANGED <<protocol_compat, pc, op, devVars, toHost, calls, execs,
                 retVars, lossVars>>

\* No packet for CTRL_RECV_TIMEOUT/CTRL_RECV_RETRIES: the next attempt under a
\* new number or, after the last one, "link dead".
Timeout ==
  /\ InCall
  /\ toHost = <<>>
  /\ IF attempt < Retries
       THEN Send(op, calls, <<>>) /\ attempt' = attempt + 1 /\ pc' = pc
       ELSE Throw /\ UNCHANGED <<attempt, ctrl_seq_num, toZpu>>
  /\ UNCHANGED <<protocol_compat, op, devVars, toHost, calls, execs, retVars,
                 lossVars>>

-----------------------------------------------------------------------------
(* The network drops packets; a single Ethernet link keeps their order.    *)

LoseRequest ==
  /\ toZpu # <<>>
  /\ lost < MaxLost
  /\ lost' = lost + 1
  /\ toZpu' = Tail(toZpu)
  /\ destsLost' = IF Head(toZpu).kind = "dest" THEN destsLost \cup {Head(toZpu).call}
                                               ELSE destsLost
  /\ UNCHANGED <<hostVars, devVars, toHost, calls, execs, retVars>>

LoseReply ==
  /\ toHost # <<>>
  /\ lost < MaxLost
  /\ lost' = lost + 1
  /\ toHost' = Tail(toHost)
  /\ UNCHANGED <<hostVars, devVars, toZpu, calls, execs, retVars, destsLost>>

-----------------------------------------------------------------------------
(* The firmware.                                                           *)

\* handle_udp_data_packet: the source of the packet becomes the destination
\* of the stream.
HandleUdpDataPacket ==
  /\ toZpu # <<>>
  /\ Head(toZpu).kind = "dest"
  /\ framer' = Head(toZpu).call
  /\ toZpu' = Tail(toZpu)
  /\ UNCHANGED <<hostVars, fw, reg, toHost, calls, execs, retVars, lossVars>>

\* A request under another compat number is answered as an ID request.
Handled(request) == IF request.proto = fw THEN request.kind ELSE "id"

\* handle_udp_ctrl_packet: execute and answer with the request's number.
HandleUdpCtrlPacket ==
  /\ toZpu # <<>>
  /\ Head(toZpu).kind # "dest"
  /\ LET request == Head(toZpu)
         kind == Handled(request)
     IN  /\ reg' = IF kind = "poke" THEN request.call ELSE reg
         /\ execs' = IF kind = request.kind /\ request.call = calls
                       THEN execs + 1 ELSE execs
         /\ toHost' = Append(toHost, [kind |-> kind, proto |-> fw,
                                      seq |-> request.seq,
                                      call |-> request.call, val |-> reg'])
  /\ toZpu' = Tail(toZpu)
  /\ UNCHANGED <<hostVars, fw, framer, calls, retVars, lossVars>>

-----------------------------------------------------------------------------
Init ==
  /\ ctrl_seq_num = 0
  /\ protocol_compat = HostCompat
  /\ pc = "new"
  /\ op = "id"
  /\ attempt = 0
  /\ toZpu = <<>>
  /\ toHost = <<>>
  /\ fw \in FwVersions
  /\ reg = 0
  /\ framer = 0
  /\ calls = 0
  /\ execs = 0
  /\ poked = 0
  /\ opened = 0
  /\ got = [call |-> 0, of |-> 0, execs |-> 0, op |-> "id", val |-> 0, since |-> 0]
  /\ destsLost = {}
  /\ lost = 0

Call == Construct \/ GetReg("poke") \/ GetReg("peek") \/ MakeXport

Firmware == HandleUdpDataPacket \/ HandleUdpCtrlPacket

\* The application makes no further call.
Done ==
  /\ pc = "dead" \/ (pc = "idle" /\ calls = MaxCalls)
  /\ UNCHANGED vars

Next == Call \/ Recv \/ Timeout \/ LoseRequest \/ LoseReply \/ Firmware \/ Done

Spec == Init /\ [][Next]_vars

\* recv returns, with a packet or at its timeout, and the main loop of the
\* firmware polls for packets.  Nothing makes the application call.
FairSpec == Spec /\ WF_vars(Recv \/ Timeout) /\ WF_vars(Firmware)

-----------------------------------------------------------------------------
(* Properties.                                                             *)

\* Every variable holds a value of its type.
TypeOK ==
  /\ ctrl_seq_num \in Nat
  /\ protocol_compat \in Nat
  /\ pc \in {"new", "construct", "idle", "call", "xport", "dead"}
  /\ op \in Ops
  /\ attempt \in 0 .. Retries
  /\ toZpu \in Seq(Requests \cup Dests)
  /\ toHost \in Seq(Replies)
  /\ fw \in FwVersions
  /\ {reg, framer, calls, execs, poked, opened} \subseteq Nat
  /\ destsLost \subseteq Nat
  /\ got \in [call : Nat, of : Nat, execs : Nat, op : Ops, val : Nat, since : Nat]
  /\ lost \in 0 .. MaxLost

\* A call that returns was executed, once at least and never more often than
\* it was sent, and returns the answer to itself: late answers to attempts of
\* an earlier call that gave up are skipped.
ReturnedWasExecuted ==
  got.of # 0 => /\ got.call = got.of
                /\ got.execs \in 1 .. Retries

\* A peek sees the pokes that returned before it: neither a late answer nor
\* the late execution of an older poke's retry takes the value back.
ReadsOwnWrites == got.op = "peek" => got.val >= got.since

\* When make_xport returns, its packet has been handled by the ZPU or was lost
\* on the way: the peek behind it "ensures the zpu processed the
\* program_stream_dest()".
XportIsProgrammed == opened # 0 => framer >= opened \/ opened \in destsLost

\* A host never gets an answer out of firmware newer or older than itself:
\* nothing but the constructor's request returns.
OnlySameBuildAnswers == got.of > 1 => fw = HostCompat

\* Every call ends, by returning or by throwing.
CallsEnd == InCall ~> ~InCall
=============================================================================
