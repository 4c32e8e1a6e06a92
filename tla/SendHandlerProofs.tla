-------------------------- MODULE SendHandlerProofs --------------------------
(***************************************************************************)
(* Proofs about SendHandler for every number of channels, size of packets  *)
(* and calls, width of the packet count, and any number of timeouts and    *)
(* lost packets.                                                           *)
(***************************************************************************)
EXTENDS SendHandler, TLAPS

-----------------------------------------------------------------------------
(* The inductive invariant: the host.                                      *)

Mds == [n : Nat, sob : BOOLEAN, eob : BOOLEAN, time : Times]

Headers == [sob : BOOLEAN, eob : BOOLEAN, tsf : Times]

Calls == [md : Mds, sent : Nat, cached : CacheUses, hdr : Headers]

HostTypes ==
  /\ next_seq \in Nat
  /\ held \in [Chans -> Nat \cup {None}]
  /\ next_fc \in [Chans -> Nat]
  /\ out \in [Chans -> Seq(Packets)]
  /\ open \in BOOLEAN /\ burst \in Nat
  /\ now \in Nat

\* Cached metadata starts a burst, and ends it too if the burst was empty.
CacheOK == cache # None => cache \in Mds /\ cache.sob

\* The packet that is due is the last one of a call that ends the burst.
FinalOf(md, sent) == md.eob /\ md.n - sent <= SPP

\* What is left of a call.  The header that is due carries the end of the burst
\* in the last packet of a call that ends it, except where it has the flags of
\* the cache.
CallOK ==
  call # None =>
    /\ call \in Calls
    /\ call.sent < call.md.n \/ (call.sent = 0 /\ call.md.n = 0)
    /\ call.hdr.eob /\ ~FinalOf(call.md, call.sent) =>
         call.hdr.sob /\ call.cached = "start_end"
    /\ FinalOf(call.md, call.sent) /\ ~call.hdr.eob =>
         call.hdr.sob /\ call.cached = "start"

\* Every channel has committed next_seq packets, and the number of its next
\* buffer is next_seq, whether it holds that buffer already or not.
Numbering ==
  \A c \in Chans :
    /\ Len(out[c]) = next_seq
    /\ held[c] = None => next_fc[c] = next_seq
    /\ held[c] # None => held[c] = next_seq /\ next_fc[c] = next_seq + 1

\* The packet with which the application ends a burst is the last one of its
\* burst.
EndEnds ==
  \A i \in 1 .. next_seq :
    /\ out[Dev][i].burst <= burst
    /\ out[Dev][i].last =>
         IF i < next_seq THEN out[Dev][i + 1].burst # out[Dev][i].burst
         ELSE burst > out[Dev][i].burst \/ (call = None /\ ~open)

HostInv ==
  /\ HostTypes
  /\ CacheOK
  /\ CallOK
  /\ Numbering
  /\ EndEnds
  /\ InStep
  /\ EndIsMarked

-----------------------------------------------------------------------------
(* The inductive invariant: the transmit control.                          *)

States == {"IDLE", "RUN", "CONT_BURST", "ERROR", "ERROR_DONE"}

Codes == {"SEQ_ERROR", "TIME_ERROR", "UNDERRUN_MIDPKT", "EOB_ACK", "UNDERRUN",
          "SEQ_ERROR_MIDBURST"}

Plays == [id : 1 .. next_seq, whole : BOOLEAN, when : Int]

DevTypes ==
  /\ rd \in 0 .. next_seq
  /\ seqnum_reg \in -1 .. rd - 1
  /\ head \in Heads \cup {None}
  /\ ibs_state \in States
  /\ played \in Seq(Plays)
  /\ raised \in Seq([code : Codes, at : Nat])

HeadOK ==
  head # None =>
    /\ head.id = seqnum_reg + 1
    /\ head.id \in 1 .. next_seq
    /\ head.p = out[Dev][head.id]

\* The packet before the next one to be played, as the deframer has seen it,
\* unless it has marked the one at the head of the FIFO.
Prev == IF head = None THEN seqnum_reg + 1 ELSE seqnum_reg

Unmarked == head = None \/ ~head.err

\* The packet played last, all of it.
LastId == IF played = <<>> THEN 0 ELSE played[Len(played)].id
LastWhole == played = <<>> \/ played[Len(played)].whole
Seamless == Prev = LastId /\ LastWhole

\* An error was raised since the last packet was played.
ErrorSince ==
  \E j \in 1 .. Len(raised) : raised[j].at = Len(played) /\ raised[j].code # "EOB_ACK"

\* Without an error nothing that was deframed is skipped.
NothingSkipped == Unmarked => Seamless \/ ErrorSince

StateOK ==
  /\ ibs_state = "ERROR" => ErrorSince
  /\ ibs_state = "RUN" => head # None /\ ~head.err
  /\ ibs_state = "CONT_BURST" /\ Unmarked => Seamless /\ Prev >= 1 /\ ~out[Dev][Prev].eob
  /\ policy = "next_burst" /\ ibs_state \in {"IDLE", "ERROR_DONE"} /\ Unmarked =>
       Prev = 0 \/ out[Dev][Prev].eob

\* The packet that runs started at its time, unless it goes on with a burst;
\* with the policy next_burst it starts a burst, or what is one to the device, or
\* goes on with one.
RunOK ==
  ibs_state = "RUN" =>
    /\ \/ head.p.tsf # None => head.start = head.p.tsf
       \/ Prev >= 1 /\ ~out[Dev][Prev].eob
    /\ policy = "next_burst" => startsBurst(head.id) \/ cutBefore(head.id) \/ Seamless

DevInv ==
  /\ DevTypes
  /\ HeadOK
  /\ NothingSkipped
  /\ StateOK
  /\ RunOK
  /\ NoSilentHole
  /\ PlaysPrefixes
  /\ StartsOnTime

IInv == HostInv /\ DevInv

-----------------------------------------------------------------------------
(* The host.                                                               *)

\* The numbers of the configuration.
LEMMA Sizing ==
  /\ NChans \in Nat /\ Dev \in Chans /\ 0 \in Chans
  /\ SPP \in Nat /\ SPP >= 1 /\ SeqMod \in Nat /\ SeqMod >= 1
  /\ Sizes \subseteq Nat /\ Ahead \in Nat
BY SizesAssumption DEF Chans

\* The samples of the packet that is due: a whole packet or what is left.
LEMMA MinOfTwo ==
  ASSUME NEW a \in Int, NEW b \in Int
  PROVE  Min({a, b}) = IF a <= b THEN a ELSE b
<1>1. CASE a <= b
  <2>1. a \in {a, b} /\ \A y \in {a, b} : a <= y
    BY <1>1
  <2>2. \A x \in {a, b} : (\A y \in {a, b} : x <= y) => x = a
    BY <1>1
  <2>. QED BY <1>1, <2>1, <2>2 DEF Min
<1>2. CASE ~(a <= b)
  <2>1. b \in {a, b} /\ \A y \in {a, b} : b <= y
    BY <1>2
  <2>2. \A x \in {a, b} : (\A y \in {a, b} : x <= y) => x = b
    BY <1>2
  <2>. QED BY <1>2, <2>1, <2>2 DEF Min
<1>. QED BY <1>1, <1>2

\* The fields of a call.
LEMMA CallFields ==
  ASSUME CallOK, call # None
  PROVE  /\ call.md \in Mds /\ call.sent \in Nat /\ call.cached \in CacheUses
         /\ call.hdr \in Headers
         /\ call.md.n \in Nat /\ call.md.sob \in BOOLEAN /\ call.md.eob \in BOOLEAN
         /\ call.md.time \in Times
         /\ call.hdr.sob \in BOOLEAN /\ call.hdr.eob \in BOOLEAN /\ call.hdr.tsf \in Times
<1>1. call \in Calls
  BY DEF CallOK
<1>2. call.md \in Mds /\ call.sent \in Nat /\ call.cached \in CacheUses
      /\ call.hdr \in Headers
  BY <1>1 DEF Calls
<1>. QED BY <1>2 DEF Mds, Headers

\* The number of samples of the next packet of a call.
LEMMA NsampsOf ==
  ASSUME CallOK, call # None
  PROVE  /\ nsamps \in Nat /\ nsamps >= 1
         /\ call.sent + nsamps >= call.md.n <=> call.md.n - call.sent <= SPP
         /\ call.md.n # 0 => call.sent + nsamps <= call.md.n
<1>1. /\ call.sent \in Nat /\ call.md.n \in Nat /\ SPP \in Nat /\ SPP >= 1
      /\ call.sent < call.md.n \/ (call.sent = 0 /\ call.md.n = 0)
  BY CallFields, Sizing DEF CallOK
<1>2. CASE call.md.n = 0
  BY <1>1, <1>2 DEF nsamps
<1>3. CASE call.md.n # 0
  <2>1. nsamps = IF SPP <= call.md.n - call.sent THEN SPP ELSE call.md.n - call.sent
    BY <1>1, <1>3, MinOfTwo DEF nsamps
  <2>. QED BY <1>1, <1>3, <2>1
<1>. QED BY <1>2, <1>3

\* Every channel's next packet has the number next_seq.
LEMMA NumberOf ==
  ASSUME HostTypes, Numbering, NEW c \in Chans
  PROVE  number(c) = next_seq
BY DEF Numbering, number

\* The packet that is due, and that it is the same for every channel.
LEMMA PacketOf ==
  ASSUME HostInv, call # None, NEW c \in Chans
  PROVE  /\ packet(c) \in Packets
         /\ packet(c) = packet(0)
         /\ packet(c).fc = next_seq /\ packet(c).vita = next_seq % SeqMod
         /\ packet(c).eob = call.hdr.eob /\ packet(c).sob = call.hdr.sob
         /\ packet(c).last = (call.md.eob /\ call.sent + nsamps >= call.md.n)
         /\ packet(c).cached = call.cached
         /\ packet(c).burst = burst
<1>1. number(c) = next_seq /\ number(0) = next_seq /\ next_seq \in Nat /\ burst \in Nat
  BY NumberOf, Sizing DEF HostInv, HostTypes
<1>2. next_seq % SeqMod \in Nat
  BY <1>1, Sizing
<1>3. nsamps \in Nat
  BY NsampsOf DEF HostInv
<1>4. /\ call.cached \in CacheUses /\ call.hdr.sob \in BOOLEAN
      /\ call.hdr.eob \in BOOLEAN /\ call.hdr.tsf \in Times
  BY CallFields DEF HostInv
<1>5. packet(c) \in Packets
  BY <1>1, <1>2, <1>3, <1>4 DEF packet, Packets
<1>6. packet(c) = packet(0)
  BY <1>1 DEF packet
<1>. QED BY <1>1, <1>4, <1>5, <1>6 DEF packet

\* What the application may ask for.
LEMMA MdOf ==
  ASSUME HostTypes, NEW md \in Metadata
  PROVE  /\ md \in Mds /\ md.n \in Nat /\ md.sob \in BOOLEAN /\ md.eob \in BOOLEAN
         /\ md.time \in Times
         /\ md.sob = ~open
<1>1. md \in [n : Sizes, sob : {~open}, eob : BOOLEAN, time : {None, now + Ahead}]
  BY DEF Metadata
<1>2. {None, now + Ahead} \subseteq Times /\ {~open} \subseteq BOOLEAN /\ Sizes \subseteq Nat
  BY Sizing DEF HostTypes, Times
<1>. QED BY <1>1, <1>2 DEF Mds

\* The header a call starts with: of the flags of the cache the end of burst
\* counts only where the call takes one packet.
LEMMA FirstHeader ==
  ASSUME HostInv, NEW md \in Metadata, ~(md.n = 0 /\ md.sob)
  PROVE  LET h == IF one_packet(md) THEN first_header(md)
                  ELSE [first_header(md) EXCEPT !.eob = FALSE]
         IN  /\ h \in Headers
             /\ h.eob /\ ~FinalOf(md, 0) => h.sob /\ cache_use(md) = "start_end"
             /\ FinalOf(md, 0) /\ ~h.eob => h.sob /\ cache_use(md) = "start"
<1>. DEFINE f == first_header(md)
            h == IF one_packet(md) THEN f ELSE [f EXCEPT !.eob = FALSE]
            Good(x) == /\ x \in Headers
                       /\ x.eob /\ ~FinalOf(md, 0) => x.sob /\ cache_use(md) = "start_end"
                       /\ FinalOf(md, 0) /\ ~x.eob => x.sob /\ cache_use(md) = "start"
<1>. SUFFICES Good(h)
  OBVIOUS
<1>1. /\ md \in Mds /\ md.n \in Nat /\ md.sob \in BOOLEAN /\ md.eob \in BOOLEAN
      /\ md.time \in Times
  BY MdOf DEF HostInv
<1>2. FinalOf(md, 0) <=> md.eob /\ one_packet(md)
  BY <1>1 DEF FinalOf, one_packet
<1>3. f \in Headers /\ (one_packet(md) => Good(f))
  <2>1. CASE cache # None /\ md.n # 0
    <3>1. cache \in Mds /\ cache.sob
      BY <2>1 DEF HostInv, CacheOK
    <3>2. /\ cache.sob = TRUE /\ cache.eob \in BOOLEAN /\ cache.time \in Times
      BY <3>1 DEF Mds
    <3>3. f = [sob |-> TRUE, eob |-> cache.eob,
               tsf |-> IF md.time # None THEN md.time ELSE cache.time]
      BY <2>1, <3>2 DEF first_header
    <3>. HIDE DEF f
    <3>4. f \in Headers /\ f.sob = TRUE /\ f.eob = cache.eob
      BY <1>1, <3>2, <3>3 DEF Headers
    <3>5. cache_use(md) = IF cache.eob THEN "start_end" ELSE "start"
      BY <2>1 DEF cache_use
    <3>. QED BY <3>2, <3>4, <3>5
  <2>2. CASE ~(cache # None /\ md.n # 0)
    <3>1. f = [sob |-> md.sob, eob |-> md.eob, tsf |-> md.time]
      BY <2>2 DEF first_header
    <3>. HIDE DEF f
    <3>2. f \in Headers /\ f.eob = md.eob
      BY <1>1, <3>1 DEF Headers
    <3>. QED BY <1>1, <1>2, <3>2
  <2>. QED BY <2>1, <2>2
<1>. HIDE DEF f
<1>4. CASE one_packet(md)
  BY <1>3, <1>4
<1>5. CASE ~one_packet(md)
  <2>1. [f EXCEPT !.eob = FALSE] \in Headers /\ [f EXCEPT !.eob = FALSE].eob = FALSE
    BY <1>3 DEF Headers
  <2>2. Good([f EXCEPT !.eob = FALSE])
    BY <1>2, <1>5, <2>1
  <2>. QED BY <1>5, <2>2
<1>. QED BY <1>4, <1>5

\* The call begins, or its start of burst is cached.
LEMMA SendStep ==
  ASSUME HostInv, NEW md \in Metadata, Send(md)
  PROVE  HostInv'
<1>1. /\ call = None /\ burst' = IF md.sob THEN burst + 1 ELSE burst
      /\ SendCache(md) \/ SendData(md)
      /\ UNCHANGED <<next_seq, held, next_fc, out, now>>
  BY DEF Send, fpgaVars
<1>2. /\ md \in Mds /\ md.n \in Nat /\ md.sob \in BOOLEAN /\ md.eob \in BOOLEAN
      /\ md.time \in Times
      /\ md.sob = ~open
  BY MdOf DEF HostInv
<1>3. HostTypes'
  <2>1. open' \in BOOLEAN
    BY <1>1, <1>2 DEF SendCache, SendData
  <2>. QED BY <1>1, <1>2, <2>1 DEF HostInv, HostTypes
<1>4. CacheOK'
  <2>1. CASE SendCache(md)
    BY <1>2, <2>1 DEF SendCache, CacheOK
  <2>2. CASE SendData(md)
    BY <2>2 DEF SendData, HostInv, CacheOK
  <2>. QED BY <1>1, <2>1, <2>2
<1>5. CallOK'
  <2>1. CASE SendCache(md)
    BY <1>1, <2>1 DEF SendCache, CallOK
  <2>2. CASE SendData(md)
    <3>. DEFINE h == IF one_packet(md) THEN first_header(md)
                     ELSE [first_header(md) EXCEPT !.eob = FALSE]
                a == cache_use(md)
    <3>1. /\ h \in Headers
          /\ h.eob /\ ~FinalOf(md, 0) => h.sob /\ a = "start_end"
          /\ FinalOf(md, 0) /\ ~h.eob => h.sob /\ a = "start"
      BY <2>2, FirstHeader DEF SendData
    <3>2. call' = [md |-> md, sent |-> 0, cached |-> a, hdr |-> h]
      BY <2>2 DEF SendData
    <3>3. a \in CacheUses
      BY DEF cache_use, CacheUses
    <3>. HIDE DEF h, a
    <3>4. call' \in Calls
      BY <1>2, <3>1, <3>2, <3>3 DEF Calls
    <3>5. call'.md = md /\ call'.sent = 0 /\ call'.cached = a /\ call'.hdr = h
      BY <3>2
    <3>6. 0 < md.n \/ md.n = 0
      BY <1>2
    <3>. QED BY <3>1, <3>4, <3>5, <3>6 DEF CallOK
  <2>. QED BY <1>1, <2>1, <2>2
<1>6. Numbering' /\ InStep' /\ EndIsMarked'
  BY <1>1 DEF HostInv, Numbering, InStep, EndIsMarked
<1>7. EndEnds'
  <2>. SUFFICES ASSUME NEW i \in 1 .. next_seq
                PROVE  /\ out[Dev][i].burst <= burst'
                       /\ out[Dev][i].last =>
                            IF i < next_seq THEN out[Dev][i + 1].burst # out[Dev][i].burst
                            ELSE burst' > out[Dev][i].burst
    BY <1>1 DEF EndEnds
  <2>1. out[Dev][i].burst \in Nat /\ burst \in Nat
    <3>1. out[Dev] \in Seq(Packets) /\ Len(out[Dev]) = next_seq
      BY Sizing DEF HostInv, HostTypes, Numbering
    <3>2. out[Dev][i] \in Packets
      BY <3>1
    <3>. QED BY <3>2 DEF HostInv, HostTypes, Packets
  <2>2. /\ out[Dev][i].burst <= burst
        /\ out[Dev][i].last =>
             IF i < next_seq THEN out[Dev][i + 1].burst # out[Dev][i].burst
             ELSE burst > out[Dev][i].burst \/ ~open
    BY DEF HostInv, EndEnds
  <2>3. CASE md.sob
    <3>1. burst' = burst + 1
      BY <1>1, <2>3
    <3>. QED BY <2>1, <2>2, <3>1
  <2>4. CASE ~md.sob
    <3>1. burst' = burst /\ open
      BY <1>1, <1>2, <2>4
    <3>. QED BY <2>2, <3>1
  <2>. QED BY <2>3, <2>4
<1>. QED BY <1>3, <1>4, <1>5, <1>6, <1>7 DEF HostInv

\* A timeout: the buffers that were got keep their numbers.
LEMMA TimeoutStep ==
  ASSUME HostInv, NEW c \in Chans, SendTimeout(c)
  PROVE  HostInv'
<1>1. /\ call # None /\ keep_buffers(c) /\ AppReturns(Returned(call.sent)) /\ call' = None
      /\ UNCHANGED <<cache, next_seq, out, burst, now>>
  BY DEF SendTimeout, fpgaVars
<1>2. \A k \in Chans : number(k) = next_seq
  BY NumberOf DEF HostInv
<1>3. /\ held \in [Chans -> Nat \cup {None}] /\ next_fc \in [Chans -> Nat]
      /\ next_seq \in Nat
  BY DEF HostInv, HostTypes
<1>4. /\ held' = [k \in Chans |-> IF k < c THEN next_seq ELSE held[k]]
      /\ next_fc' = [k \in Chans |-> IF k < c /\ held[k] = None THEN next_fc[k] + 1
                                                                ELSE next_fc[k]]
  BY <1>1, <1>2 DEF keep_buffers
<1>5. open' \in BOOLEAN
  BY <1>1 DEF AppReturns
<1>6. HostTypes'
  BY <1>1, <1>3, <1>4, <1>5 DEF HostInv, HostTypes
<1>7. Numbering'
  <2>. SUFFICES ASSUME NEW k \in Chans
                PROVE  /\ Len(out[k]) = next_seq
                       /\ held'[k] = None => next_fc'[k] = next_seq
                       /\ held'[k] # None => held'[k] = next_seq /\ next_fc'[k] = next_seq + 1
    BY <1>1 DEF Numbering
  <2>1. /\ Len(out[k]) = next_seq
        /\ held[k] = None => next_fc[k] = next_seq
        /\ held[k] # None => held[k] = next_seq /\ next_fc[k] = next_seq + 1
    BY DEF HostInv, Numbering
  <2>2. next_seq # None
    BY <1>3, NoneAssumption
  <2>. QED BY <1>4, <2>1, <2>2
<1>8. CacheOK' /\ CallOK' /\ InStep' /\ EndIsMarked'
  BY <1>1 DEF HostInv, CacheOK, CallOK, InStep, EndIsMarked
<1>9. EndEnds'
  BY <1>1 DEF HostInv, EndEnds
<1>. QED BY <1>6, <1>7, <1>8, <1>9 DEF HostInv

\* What SendPacket does to the packets of the channels.
LEMMA PacketsGrow ==
  ASSUME HostInv, SendPacket, NEW c \in Chans
  PROVE  /\ out' \in [Chans -> Seq(Packets)]
         /\ Len(out'[c]) = next_seq + 1
         /\ out'[c][next_seq + 1] = packet(c)
         /\ \A i \in 1 .. next_seq : out'[c][i] = out[c][i] /\ out[c][i] \in Packets
         /\ next_seq' = next_seq + 1 /\ next_seq \in Nat
<1>1. /\ call # None /\ out' = [k \in Chans |-> Append(out[k], packet(k))]
      /\ next_seq' = next_seq + 1
  BY DEF SendPacket
<1>2. \A k \in Chans : packet(k) \in Packets /\ out[k] \in Seq(Packets)
  BY <1>1, PacketOf DEF HostInv, HostTypes
<1>3. Len(out[c]) = next_seq /\ next_seq \in Nat
  BY DEF HostInv, HostTypes, Numbering
<1>4. out' \in [Chans -> Seq(Packets)]
  <2>1. \A k \in Chans : Append(out[k], packet(k)) \in Seq(Packets)
    BY <1>2
  <2>. QED BY <1>1, <2>1
<1>5. out'[c] = Append(out[c], packet(c))
  BY <1>1
<1>6. \A i \in 1 .. Len(out[c]) : out[c][i] \in Packets
  BY <1>2
<1>7. /\ Len(Append(out[c], packet(c))) = Len(out[c]) + 1
      /\ Append(out[c], packet(c))[Len(out[c]) + 1] = packet(c)
      /\ \A i \in 1 .. Len(out[c]) : Append(out[c], packet(c))[i] = out[c][i]
  BY <1>2
<1>. QED BY <1>1, <1>3, <1>4, <1>5, <1>6, <1>7

\* What is left of the call after its packet.
LEMMA NextFragment ==
  ASSUME HostInv, SendPacket
  PROVE  CallOK'
<1>. DEFINE sent == call.sent + nsamps
            hdr == next_fragment(call.hdr, call.md, sent)
            k == [call EXCEPT !.sent = sent, !.hdr = hdr]
<1>1. CASE ~(sent < call.md.n)
  BY <1>1 DEF SendPacket, CallOK
<1>2. CASE sent < call.md.n
  <2>1. call' = k /\ call # None
    BY <1>2 DEF SendPacket
  <2>2. /\ call.md \in Mds /\ call.sent \in Nat /\ call.cached \in CacheUses
        /\ call.hdr \in Headers
        /\ call.md.n \in Nat /\ call.md.eob \in BOOLEAN /\ call.md.time \in Times
        /\ nsamps \in Nat /\ nsamps >= 1
    BY <2>1, CallFields, NsampsOf DEF HostInv
  <2>3. sent \in Nat
    BY <2>2
  <2>. HIDE DEF sent
  <2>. DEFINE e == call.md.n - sent <= SPP /\ call.md.eob
              u == IF call.hdr.tsf = None THEN None
                   ELSE (IF call.md.time = None THEN 0 ELSE call.md.time) + sent
  <2>4. hdr = [sob |-> FALSE, eob |-> e, tsf |-> u]
    BY DEF next_fragment
  <2>5. u \in Times /\ e \in BOOLEAN
    BY <2>2, <2>3 DEF Times
  <2>. HIDE DEF e, u
  <2>6. hdr \in Headers /\ (hdr.eob <=> call.md.n - sent <= SPP /\ call.md.eob)
    <3>1. hdr \in Headers /\ hdr.eob = e
      BY <2>4, <2>5 DEF Headers
    <3>. QED BY <2>5, <3>1 DEF e
  <2>. HIDE DEF hdr
  <2>7. call \in Calls
    BY <2>1 DEF HostInv, CallOK
  <2>8. /\ k \in Calls /\ k.md = call.md /\ k.sent = sent /\ k.hdr = hdr
    BY <2>3, <2>6, <2>7 DEF Calls
  <2>. HIDE DEF k
  <2>9. /\ k.sent < k.md.n
        /\ k.hdr.eob <=> FinalOf(k.md, k.sent)
    BY <1>2, <2>6, <2>8 DEF FinalOf
  <2>. QED BY <2>1, <2>8, <2>9 DEF CallOK
<1>. QED BY <1>1, <1>2

\* The last packet of a call that ends the burst ends the call as well, and
\* the application takes its burst for closed.
LEMMA EndCloses ==
  ASSUME HostInv, SendPacket, FinalOf(call.md, call.sent)
  PROVE  call' = None /\ open' = FALSE
<1>1. call # None
  BY DEF SendPacket
<1>2. /\ call.md.eob /\ call.md.n - call.sent <= SPP
      /\ call.sent \in Nat /\ call.md.n \in Nat /\ nsamps \in Nat /\ nsamps >= 1
      /\ call.sent + nsamps >= call.md.n
      /\ call.md.n # 0 => call.sent + nsamps <= call.md.n
  BY <1>1, CallFields, NsampsOf DEF HostInv, FinalOf
<1>3. ~(call.sent + nsamps < call.md.n)
  BY <1>2
<1>4. call' = None /\ AppReturns(Returned(call.sent + nsamps))
  BY <1>3 DEF SendPacket
<1>5. CASE call.md.n = 0
  BY <1>2, <1>4, <1>5 DEF AppReturns
<1>6. CASE call.md.n # 0
  <2>1. Returned(call.sent + nsamps) = call.md.n
    BY <1>2, <1>6 DEF Returned
  <2>2. open' = IF call.md.n = 0 THEN ~call.md.eob
                ELSE IF call.md.n = 0 /\ call.md.sob THEN FALSE
                ELSE ~(call.md.eob /\ call.md.n = call.md.n)
    BY <1>4, <2>1 DEF AppReturns
  <2>. QED BY <1>2, <1>4, <1>6, <2>2
<1>. QED BY <1>5, <1>6

\* A packet goes out on every channel.
LEMMA SendPacketStep ==
  ASSUME HostInv, SendPacket
  PROVE  HostInv'
<1>1. /\ call # None /\ held' = [c \in Chans |-> None]
      /\ next_fc' = [c \in Chans |-> IF held[c] = None THEN next_fc[c] + 1 ELSE next_fc[c]]
      /\ UNCHANGED <<cache, burst, now>>
  BY DEF SendPacket, fpgaVars
<1>2. /\ out' \in [Chans -> Seq(Packets)] /\ next_seq' = next_seq + 1 /\ next_seq \in Nat
      /\ Dev \in Chans /\ 0 \in Chans
  BY PacketsGrow, Sizing
<1>3. /\ burst \in Nat /\ next_fc \in [Chans -> Nat] /\ held \in [Chans -> Nat \cup {None}]
  BY DEF HostInv, HostTypes
<1>4. open' \in BOOLEAN
  <2>1. open \in BOOLEAN
    BY DEF HostInv, HostTypes
  <2>. QED BY <2>1 DEF SendPacket, AppReturns
<1>5. HostTypes'
  BY <1>1, <1>2, <1>3, <1>4 DEF HostInv, HostTypes
<1>6. CacheOK'
  BY <1>1 DEF HostInv, CacheOK
<1>7. CallOK'
  BY NextFragment
<1>8. Numbering'
  <2>. SUFFICES ASSUME NEW c \in Chans
                PROVE  /\ Len(out'[c]) = next_seq'
                       /\ held'[c] = None /\ next_fc'[c] = next_seq'
    BY DEF Numbering
  <2>1. Len(out'[c]) = next_seq'
    BY PacketsGrow
  <2>2. /\ held[c] = None => next_fc[c] = next_seq
        /\ held[c] # None => next_fc[c] = next_seq + 1
    BY DEF HostInv, Numbering
  <2>. QED BY <1>1, <1>2, <1>3, <2>1, <2>2
<1>9. InStep'
  <2>. SUFFICES ASSUME NEW c \in Chans, NEW k \in 1 .. next_seq + 1
                PROVE  /\ out'[c][k] = out'[0][k]
                       /\ out'[c][k].fc = k - 1
                       /\ out'[c][k].vita = (k - 1) % SeqMod
    <3>1. \A c \in Chans : DOMAIN out'[c] = 1 .. next_seq + 1
      <4>1. \A c \in Chans : Len(out'[c]) = next_seq + 1 /\ out'[c] \in Seq(Packets)
        BY <1>2, PacketsGrow
      <4>. QED BY <4>1
    <3>. QED BY <3>1 DEF InStep
  <2>1. CASE k \in 1 .. next_seq
    <3>1. out'[c][k] = out[c][k] /\ out'[0][k] = out[0][k]
      BY <1>2, <2>1, PacketsGrow
    <3>2. k \in DOMAIN out[c]
      <4>1. Len(out[c]) = next_seq /\ out[c] \in Seq(Packets)
        BY DEF HostInv, HostTypes, Numbering
      <4>. QED BY <2>1, <4>1
    <3>. QED BY <3>1, <3>2 DEF HostInv, InStep
  <2>2. CASE k = next_seq + 1
    <3>1. out'[c][k] = packet(c) /\ out'[0][k] = packet(0)
      BY <1>2, <2>2, PacketsGrow
    <3>2. packet(c) = packet(0) /\ packet(c).fc = next_seq
          /\ packet(c).vita = next_seq % SeqMod /\ k - 1 = next_seq
      BY <1>1, <1>2, <2>2, PacketOf
    <3>. QED BY <3>1, <3>2
  <2>. QED BY <1>2, <2>1, <2>2
<1>10. /\ Len(out'[Dev]) = next_seq + 1 /\ out'[Dev][next_seq + 1] = packet(Dev)
       /\ \A i \in 1 .. next_seq : out'[Dev][i] = out[Dev][i] /\ out[Dev][i] \in Packets
       /\ out'[Dev] \in Seq(Packets) /\ out[Dev] \in Seq(Packets) /\ Len(out[Dev]) = next_seq
  BY <1>2, PacketsGrow DEF HostInv, HostTypes, Numbering
<1>11. /\ packet(Dev).eob <=> call.hdr.eob
       /\ packet(Dev).sob <=> call.hdr.sob
       /\ packet(Dev).last <=> FinalOf(call.md, call.sent)
       /\ packet(Dev).cached = call.cached
       /\ packet(Dev).burst = burst
  <2>1. call.sent + nsamps >= call.md.n <=> call.md.n - call.sent <= SPP
    BY <1>1, NsampsOf DEF HostInv
  <2>2. /\ packet(Dev).eob = call.hdr.eob /\ packet(Dev).sob = call.hdr.sob
        /\ packet(Dev).last = (call.md.eob /\ call.sent + nsamps >= call.md.n)
        /\ packet(Dev).cached = call.cached
        /\ packet(Dev).burst = burst
    BY <1>1, <1>2, PacketOf
  <2>. QED BY <2>1, <2>2 DEF FinalOf
<1>12. EndIsMarked'
  <2>. SUFFICES ASSUME NEW k \in 1 .. next_seq + 1
                PROVE  /\ out'[Dev][k].eob /\ ~out'[Dev][k].last =>
                            out'[Dev][k].sob /\ out'[Dev][k].cached = "start_end"
                       /\ out'[Dev][k].last /\ ~out'[Dev][k].eob =>
                            out'[Dev][k].sob /\ out'[Dev][k].cached = "start"
    <3>1. DOMAIN out'[Dev] = 1 .. next_seq + 1
      BY <1>10
    <3>. QED BY <3>1 DEF EndIsMarked
  <2>1. CASE k \in 1 .. next_seq
    <3>1. k \in DOMAIN out[Dev] /\ out'[Dev][k] = out[Dev][k]
      BY <1>10, <2>1
    <3>. QED BY <3>1 DEF HostInv, EndIsMarked
  <2>2. CASE k = next_seq + 1
    <3>1. /\ call.hdr.eob /\ ~FinalOf(call.md, call.sent) =>
               call.hdr.sob /\ call.cached = "start_end"
          /\ FinalOf(call.md, call.sent) /\ ~call.hdr.eob =>
               call.hdr.sob /\ call.cached = "start"
      BY <1>1 DEF HostInv, CallOK
    <3>. QED BY <1>10, <1>11, <2>2, <3>1
  <2>. QED BY <1>2, <2>1, <2>2
<1>13. EndEnds'
  <2>. SUFFICES ASSUME NEW i \in 1 .. next_seq + 1
                PROVE  /\ out'[Dev][i].burst <= burst
                       /\ out'[Dev][i].last =>
                            IF i < next_seq + 1 THEN out'[Dev][i + 1].burst # out'[Dev][i].burst
                            ELSE burst > out'[Dev][i].burst \/ (call' = None /\ ~open')
    BY <1>1, <1>2 DEF EndEnds
  <2>1. CASE i \in 1 .. next_seq
    <3>1. /\ out[Dev][i].burst <= burst
          /\ out[Dev][i].last =>
               IF i < next_seq THEN out[Dev][i + 1].burst # out[Dev][i].burst
               ELSE burst > out[Dev][i].burst
      BY <1>1, <2>1 DEF HostInv, EndEnds
    <3>2. out'[Dev][i] = out[Dev][i] /\ out[Dev][i].burst \in Nat
      BY <1>10, <2>1 DEF Packets
    <3>3. CASE i < next_seq
      <4>1. i + 1 \in 1 .. next_seq
        BY <1>2, <2>1, <3>3
      <4>. QED BY <1>10, <3>1, <3>2, <3>3, <4>1
    <3>4. CASE i = next_seq
      BY <1>2, <1>3, <1>10, <1>11, <3>1, <3>2, <3>4
    <3>. QED BY <1>2, <2>1, <3>3, <3>4
  <2>2. CASE i = next_seq + 1
    <3>1. out'[Dev][i].burst = burst /\ (out'[Dev][i].last => FinalOf(call.md, call.sent))
      BY <1>10, <1>11, <2>2
    <3>2. FinalOf(call.md, call.sent) => call' = None /\ ~open'
      BY EndCloses
    <3>. QED BY <1>2, <1>3, <2>2, <3>1, <3>2
  <2>. QED BY <1>2, <2>1, <2>2
<1>. QED BY <1>5, <1>6, <1>7, <1>8, <1>9, <1>12, <1>13 DEF HostInv

\* The network and the transmit control leave the host alone.
LEMMA HostKept ==
  ASSUME HostInv, UNCHANGED <<hostVars, appVars>>, now' \in Nat
  PROVE  HostInv'
<1>1. UNCHANGED <<cache, next_seq, call, held, next_fc, out, open, burst>>
  BY DEF hostVars, appVars
<1>. QED BY <1>1 DEF HostInv, HostTypes, CacheOK, CallOK, Numbering, EndEnds, InStep,
                     EndIsMarked

-----------------------------------------------------------------------------
(* The transmit control.                                                   *)

\* Bounds on the packets that the transmit control knows of.
LEMMA DevFacts ==
  ASSUME HostInv, DevInv
  PROVE  /\ next_seq \in Nat /\ seqnum_reg \in Int /\ rd \in Nat
         /\ out[Dev] \in Seq(Packets) /\ Len(out[Dev]) = next_seq
         /\ \A i \in 1 .. next_seq : out[Dev][i] \in Packets
         /\ Prev \in 0 .. next_seq
         /\ head # None => Prev = head.id - 1 /\ head.id \in 1 .. next_seq
         /\ Len(played) \in Nat /\ Len(raised) \in Nat
         /\ DOMAIN played = 1 .. Len(played) /\ DOMAIN raised = 1 .. Len(raised)
         /\ \A k \in 1 .. Len(played) :
              /\ played[k] \in Plays /\ played[k].id \in 1 .. next_seq
              /\ played[k].whole \in BOOLEAN
<1>1. next_seq \in Nat /\ Dev \in Chans /\ out \in [Chans -> Seq(Packets)]
  BY Sizing DEF HostInv, HostTypes
<1>2. out[Dev] \in Seq(Packets) /\ Len(out[Dev]) = next_seq
  BY <1>1 DEF HostInv, Numbering
<1>3. \A i \in 1 .. next_seq : out[Dev][i] \in Packets
  BY <1>2
<1>4. rd \in 0 .. next_seq /\ seqnum_reg \in -1 .. rd - 1
  BY DEF DevInv, DevTypes
<1>5. head # None => head.id = seqnum_reg + 1 /\ head.id \in 1 .. next_seq
  BY DEF DevInv, HeadOK
<1>6. Prev \in 0 .. next_seq /\ (head # None => Prev = head.id - 1)
  BY <1>1, <1>4, <1>5 DEF Prev
<1>7. played \in Seq(Plays) /\ raised \in Seq([code : Codes, at : Nat])
  BY DEF DevInv, DevTypes
<1>8. \A k \in 1 .. Len(played) : played[k] \in Plays
  BY <1>7
<1>9. \A x \in Plays : x.id \in 1 .. next_seq /\ x.whole \in BOOLEAN
  BY DEF Plays
<1>10. /\ Len(played) \in Nat /\ Len(raised) \in Nat
       /\ DOMAIN played = 1 .. Len(played) /\ DOMAIN raised = 1 .. Len(raised)
  BY <1>7
<1>. QED BY <1>1, <1>2, <1>3, <1>4, <1>5, <1>6, <1>8, <1>9, <1>10

\* The packet that was played last.
LEMMA LastFacts ==
  ASSUME HostInv, DevInv
  PROVE  /\ played = <<>> <=> Len(played) = 0
         /\ LastId = IF Len(played) = 0 THEN 0 ELSE played[Len(played)].id
         /\ LastWhole <=> (Len(played) = 0 \/ played[Len(played)].whole)
<1>1. played \in Seq(Plays)
  BY DEF DevInv, DevTypes
<1>2. played = <<>> <=> Len(played) = 0
  BY <1>1
<1>. QED BY <1>2 DEF LastId, LastWhole

\* Packets that are sent do not change what was played.
LEMMA DevGrows ==
  ASSUME HostInv, DevInv, SendPacket
  PROVE  DevInv'
<1>1. /\ UNCHANGED <<policy, rd, seqnum_reg, head, ibs_state, played, raised>>
  BY DEF SendPacket, fpgaVars
<1>2. /\ \A i \in 1 .. next_seq : out'[Dev][i] = out[Dev][i]
      /\ next_seq' = next_seq + 1 /\ next_seq \in Nat
  BY PacketsGrow, Sizing
<1>3. DevTypes'
  <2>1. played' \in Seq(Plays')
    <3>1. Plays \subseteq Plays'
      BY <1>2 DEF Plays
    <3>2. played \in Seq(Plays)
      BY DEF DevInv, DevTypes
    <3>3. Seq(Plays) \subseteq Seq(Plays')
      BY <3>1
    <3>. QED BY <1>1, <3>2, <3>3
  <2>2. rd' \in 0 .. next_seq' /\ seqnum_reg' \in -1 .. rd' - 1
    BY <1>1, <1>2 DEF DevInv, DevTypes
  <2>. QED BY <1>1, <2>1, <2>2 DEF DevInv, DevTypes
<1>4. HeadOK'
  BY <1>1, <1>2 DEF DevInv, HeadOK
<1>5. /\ Prev' = Prev /\ Unmarked' = Unmarked /\ Seamless' = Seamless
      /\ ErrorSince' = ErrorSince
  BY <1>1 DEF Prev, Unmarked, Seamless, LastId, LastWhole, ErrorSince
<1>6. NothingSkipped'
  BY <1>5 DEF DevInv, NothingSkipped
<1>7. \A i \in 1 .. next_seq : /\ startsBurst(i)' <=> startsBurst(i)
                               /\ cutBefore(i)' <=> cutBefore(i)
  BY <1>2 DEF startsBurst, cutBefore
<1>8. Prev >= 1 => out'[Dev][Prev] = out[Dev][Prev]
  BY <1>2, DevFacts
<1>9. StateOK'
  <2>1. Prev # 0 => out'[Dev][Prev] = out[Dev][Prev]
    BY <1>8, DevFacts
  <2>. QED BY <1>1, <1>5, <1>8, <2>1 DEF DevInv, StateOK
<1>10. RunOK'
  <2>. SUFFICES ASSUME ibs_state = "RUN" PROVE RunOK'
    BY <1>1 DEF RunOK
  <2>1. /\ startsBurst(head.id)' <=> startsBurst(head.id)
        /\ cutBefore(head.id)' <=> cutBefore(head.id)
    <3>1. head.id \in 1 .. next_seq /\ head' = head
      BY <1>1, DevFacts DEF DevInv, StateOK
    <3>. QED BY <1>7, <3>1
  <2>. QED BY <1>1, <1>5, <1>8, <2>1 DEF DevInv, RunOK
<1>11. NoSilentHole'
  BY <1>1 DEF DevInv, NoSilentHole, follows
<1>12. PlaysPrefixes'
  <2>. SUFFICES ASSUME policy = "next_burst", NEW k \in DOMAIN played
                PROVE  startsBurst(played[k].id)' \/ cutBefore(played[k].id)' \/ follows(k)'
    BY <1>1 DEF PlaysPrefixes
  <2>1. startsBurst(played[k].id) \/ cutBefore(played[k].id) \/ follows(k)
    BY DEF DevInv, PlaysPrefixes
  <2>2. played[k].id \in 1 .. next_seq /\ played' = played
    BY <1>1, DevFacts
  <2>. QED BY <1>7, <2>1, <2>2 DEF follows
<1>13. StartsOnTime'
  <2>. SUFFICES ASSUME NEW k \in DOMAIN played, NEW i, i = played[k].id,
                       startsBurst(i)', out'[Dev][i].tsf # None,
                       i = 1 \/ out'[Dev][i - 1].eob
                PROVE  played[k].when = out'[Dev][i].tsf
    BY <1>1 DEF StartsOnTime
  <2>1. i \in 1 .. next_seq /\ (i = 1 \/ i - 1 \in 1 .. next_seq)
    BY <1>2, DevFacts
  <2>2. /\ startsBurst(i) /\ out'[Dev][i] = out[Dev][i]
        /\ i = 1 \/ out'[Dev][i - 1] = out[Dev][i - 1]
    BY <1>2, <1>7, <2>1
  <2>. QED BY <2>2 DEF DevInv, StartsOnTime
<1>. QED BY <1>3, <1>4, <1>6, <1>9, <1>10, <1>11, <1>12, <1>13 DEF DevInv

\* A step that changes neither what was played nor what was sent: the
\* properties of it stay, as errors are only added.
LEMMA HistoryKept ==
  ASSUME HostInv, DevInv, UNCHANGED <<out, next_seq, policy, played>>,
         raised' \in Seq([code : Codes, at : Nat]), Len(raised') >= Len(raised),
         \A j \in 1 .. Len(raised) : raised'[j] = raised[j]
  PROVE  /\ NoSilentHole' /\ PlaysPrefixes' /\ StartsOnTime'
         /\ ErrorSince => ErrorSince'
<1>1. /\ DOMAIN raised = 1 .. Len(raised) /\ DOMAIN raised' = 1 .. Len(raised')
      /\ Len(raised) \in Nat /\ Len(raised') \in Nat
  BY DevFacts
<1>2. 1 .. Len(raised) \subseteq 1 .. Len(raised')
  BY <1>1
<1>3. NoSilentHole'
  BY <1>1, <1>2 DEF DevInv, NoSilentHole, follows
<1>4. PlaysPrefixes' /\ StartsOnTime'
  BY DEF DevInv, PlaysPrefixes, StartsOnTime, startsBurst, cutBefore, follows
<1>5. ErrorSince => ErrorSince'
  BY <1>2 DEF ErrorSince
<1>. QED BY <1>3, <1>4, <1>5

\* An error is raised: nothing that follows is missed silently.
LEMMA RaiseStep ==
  ASSUME HostInv, DevInv, UNCHANGED <<out, next_seq, policy, rd, seqnum_reg, played>>,
         NEW code \in Codes \ {"EOB_ACK"}, raise(code),
         head' \in Heads \cup {None}, HeadOK',
         ibs_state' \in {"ERROR", "ERROR_DONE"},
         ibs_state' = "ERROR_DONE" => policy # "next_burst"
  PROVE  DevInv'
<1>. DEFINE e == [code |-> code, at |-> Len(played)]
<1>1. raised' = Append(raised, e) /\ Len(played) \in Nat
  BY DevFacts DEF raise
<1>2. e \in [code : Codes, at : Nat] /\ e.at = Len(played) /\ e.code = code
  BY <1>1
<1>. HIDE DEF e
<1>3. raised \in Seq([code : Codes, at : Nat])
  BY DEF DevInv, DevTypes
<1>4. /\ raised' \in Seq([code : Codes, at : Nat]) /\ Len(raised') = Len(raised) + 1
      /\ \A j \in 1 .. Len(raised) : raised'[j] = raised[j]
      /\ raised'[Len(raised) + 1] = e /\ Len(raised) \in Nat
  BY <1>1, <1>2, <1>3
<1>5. ErrorSince'
  <2>1. Len(raised) + 1 \in 1 .. Len(raised')
    BY <1>4
  <2>. QED BY <1>2, <1>4, <2>1 DEF ErrorSince
<1>6. NoSilentHole' /\ PlaysPrefixes' /\ StartsOnTime'
  BY <1>4, HistoryKept
<1>7. DevTypes'
  BY <1>4 DEF DevInv, DevTypes, States, Plays
<1>8. NothingSkipped' /\ StateOK' /\ RunOK'
  BY <1>5 DEF NothingSkipped, StateOK, RunOK
<1>. QED BY <1>6, <1>7, <1>8 DEF DevInv

\* The packet at the head is played, all of it or not.
LEMMA PlayStep ==
  ASSUME HostInv, DevInv, ibs_state = "RUN",
         UNCHANGED <<out, next_seq, policy>>,
         NEW whole \in BOOLEAN,
         played' = Append(played, [id |-> head.id, whole |-> whole, when |-> head.start]),
         raised' \in Seq([code : Codes, at : Nat]), Len(raised') >= Len(raised),
         \A j \in 1 .. Len(raised) : raised'[j] = raised[j]
  PROVE  /\ played' \in Seq(Plays) /\ Len(played') = Len(played) + 1
         /\ LastId' = head.id /\ (LastWhole' <=> whole)
         /\ NoSilentHole' /\ PlaysPrefixes' /\ StartsOnTime'
<1>. DEFINE x == [id |-> head.id, whole |-> whole, when |-> head.start]
<1>0. PICK n \in Nat : n = Len(played) + 1
  <2>1. Len(played) + 1 \in Nat
    BY DevFacts
  <2>. QED BY <2>1
<1>1. /\ head # None /\ ~head.err /\ head \in Heads
      /\ head.id \in 1 .. next_seq /\ Prev = head.id - 1
      /\ head.p = out[Dev][head.id] /\ Unmarked
      /\ next_seq \in Nat /\ head.id \in Nat
  BY DevFacts DEF DevInv, DevTypes, StateOK, HeadOK, Unmarked
<1>2. x \in Plays /\ x.id = head.id /\ x.whole = whole /\ x.when = head.start
  <2>1. head.start \in Int
    BY <1>1 DEF Heads
  <2>. QED BY <1>1, <2>1 DEF Plays
<1>3. played \in Seq(Plays) /\ Len(played) \in Nat
  BY DEF DevInv, DevTypes
<1>. HIDE DEF x
<1>4. /\ played' \in Seq(Plays) /\ Len(played') = n /\ played'[n] = x
      /\ \A k \in 1 .. Len(played) : played'[k] = played[k]
      /\ DOMAIN played' = 1 .. n /\ played' # <<>>
  BY <1>0, <1>2, <1>3 DEF x
<1>5. /\ DOMAIN raised = 1 .. Len(raised) /\ DOMAIN raised' = 1 .. Len(raised')
      /\ 1 .. Len(raised) \subseteq 1 .. Len(raised')
  BY DevFacts
<1>6. LastId' = head.id /\ (LastWhole' <=> whole)
  BY <1>2, <1>4 DEF LastId, LastWhole
<1>7. \A k \in 1 .. Len(played) : follows(k)' <=> follows(k)
  <2>. SUFFICES ASSUME NEW k \in 1 .. Len(played) PROVE follows(k)' <=> follows(k)
    OBVIOUS
  <2>1. k = 1 \/ k - 1 \in 1 .. Len(played)
    BY <1>3
  <2>. QED BY <1>4, <2>1 DEF follows
<1>8. Seamless => follows(n)'
  <2>. SUFFICES ASSUME Seamless PROVE follows(n)'
    OBVIOUS
  <2>1. head.id - 1 = LastId /\ LastWhole
    BY <1>1 DEF Seamless
  <2>2. CASE Len(played) = 0
    <3>1. head.id - 1 = 0 /\ n = 1
      BY <1>0, <2>1, <2>2, LastFacts
    <3>. QED BY <1>1, <1>2, <1>4, <3>1 DEF follows
  <2>3. CASE Len(played) # 0
    <3>1. head.id - 1 = played[Len(played)].id /\ played[Len(played)].whole
          /\ Len(played) \in 1 .. Len(played) /\ n # 1 /\ n - 1 = Len(played)
      BY <1>0, <1>3, <2>1, <2>3, LastFacts
    <3>2. played[Len(played)].id \in Nat
      BY <3>1, DevFacts
    <3>3. head.id = played[Len(played)].id + 1
      BY <1>1, <3>1, <3>2
    <3>. QED BY <1>2, <1>4, <3>1, <3>3 DEF follows
  <2>. QED BY <2>2, <2>3
<1>9. n \in Nat /\ n - 1 = Len(played) /\ \A k \in 1 .. n : k \in 1 .. Len(played) \/ k = n
  BY <1>0, <1>3
<1>10. NoSilentHole'
  <2>. SUFFICES ASSUME NEW k \in 1 .. n
                PROVE  \/ follows(k)'
                       \/ \E j \in 1 .. Len(raised') :
                            raised'[j].at = k - 1 /\ raised'[j].code # "EOB_ACK"
    BY <1>4, <1>5 DEF NoSilentHole
  <2>1. CASE k \in 1 .. Len(played)
    <3>1. \/ follows(k)
          \/ \E j \in 1 .. Len(raised) : raised[j].at = k - 1 /\ raised[j].code # "EOB_ACK"
      BY <1>5, <2>1, DevFacts DEF DevInv, NoSilentHole
    <3>. QED BY <1>5, <1>7, <2>1, <3>1
  <2>2. CASE k = n
    <3>1. Seamless \/ ErrorSince
      BY <1>1 DEF DevInv, NothingSkipped
    <3>. QED BY <1>5, <1>8, <1>9, <2>2, <3>1 DEF ErrorSince
  <2>. QED BY <1>9, <2>1, <2>2
<1>11. \A i : (startsBurst(i)' <=> startsBurst(i)) /\ (cutBefore(i)' <=> cutBefore(i))
  BY DEF startsBurst, cutBefore
<1>12. PlaysPrefixes'
  <2>. SUFFICES ASSUME policy = "next_burst", NEW k \in 1 .. n
                PROVE  \/ startsBurst(played'[k].id) \/ cutBefore(played'[k].id)
                       \/ follows(k)'
    BY <1>4, <1>11 DEF PlaysPrefixes
  <2>1. CASE k \in 1 .. Len(played)
    <3>1. startsBurst(played[k].id) \/ cutBefore(played[k].id) \/ follows(k)
      BY <2>1, DevFacts DEF DevInv, PlaysPrefixes
    <3>. QED BY <1>4, <1>7, <2>1, <3>1
  <2>2. CASE k = n
    <3>1. startsBurst(head.id) \/ cutBefore(head.id) \/ Seamless
      BY DEF DevInv, RunOK
    <3>. QED BY <1>2, <1>4, <1>8, <2>2, <3>1
  <2>. QED BY <1>9, <2>1, <2>2
<1>13. StartsOnTime'
  <2>. SUFFICES ASSUME NEW k \in 1 .. n, NEW i, i = played'[k].id,
                       startsBurst(i), out[Dev][i].tsf # None,
                       i = 1 \/ out[Dev][i - 1].eob
                PROVE  played'[k].when = out[Dev][i].tsf
    BY <1>4, <1>11 DEF StartsOnTime
  <2>1. CASE k \in 1 .. Len(played)
    BY <1>4, <2>1, DevFacts DEF DevInv, StartsOnTime
  <2>2. CASE k = n
    <3>1. i = head.id /\ played'[k].when = head.start
      BY <1>2, <1>4, <2>2
    <3>2. \/ head.p.tsf # None => head.start = head.p.tsf
          \/ Prev >= 1 /\ ~out[Dev][Prev].eob
      BY DEF DevInv, RunOK
    <3>3. ~(Prev >= 1 /\ ~out[Dev][Prev].eob)
      <4>1. head.id - 1 = Prev /\ (head.id = 1 => ~(Prev >= 1))
        BY <1>1
      <4>2. head.id = 1 \/ out[Dev][head.id - 1].eob
        BY <3>1
      <4>. QED BY <4>1, <4>2
    <3>. QED BY <1>1, <3>1, <3>2, <3>3
  <2>. QED BY <1>9, <2>1, <2>2
<1>. QED BY <1>4, <1>6, <1>10, <1>12, <1>13, <1>0

\* The state machine takes the packet up: only its time changes.
LEMMA HeadTakenUp ==
  ASSUME HostInv, DevInv, head # None, UNCHANGED <<out, next_seq, seqnum_reg>>,
         head' = [head EXCEPT !.start = now]
  PROVE  /\ head' \in Heads /\ head' # None /\ HeadOK'
         /\ head'.id = head.id /\ head'.p = head.p /\ (head'.err <=> head.err)
         /\ head'.start = now
         /\ Prev' = Prev /\ (Unmarked' <=> Unmarked)
<1>1. head \in Heads /\ now \in Int
  BY DEF DevInv, DevTypes, HostInv, HostTypes
<1>2. /\ head' \in Heads /\ head'.id = head.id /\ head'.p = head.p /\ head'.err = head.err
      /\ head'.start = now
  BY <1>1 DEF Heads
<1>3. head' # None
  BY <1>2, NoneAssumption
<1>4. head.err \in BOOLEAN
  BY <1>1 DEF Heads
<1>5. HeadOK'
  BY <1>2 DEF DevInv, HeadOK
<1>. QED BY <1>2, <1>3, <1>4, <1>5 DEF Prev, Unmarked

\* Behind a packet marked as the end of a burst another one starts, unless the
\* mark came from the cache.
LEMMA AfterEnd ==
  ASSUME HostInv, DevInv, head # None, Prev = 0 \/ out[Dev][Prev].eob
  PROVE  startsBurst(head.id) \/ cutBefore(head.id)
<1>1. /\ Prev \in 0 .. next_seq /\ Prev = head.id - 1 /\ head.id \in 1 .. next_seq
      /\ next_seq \in Nat
  BY DevFacts
<1>2. CASE head.id = 1
  BY <1>2 DEF startsBurst
<1>3. CASE head.id # 1
  <2>1. Prev \in 1 .. next_seq /\ Prev < next_seq /\ Prev + 1 = head.id /\ Prev # 0
    BY <1>1, <1>3
  <2>2. out[Dev][Prev].last => out[Dev][Prev + 1].burst # out[Dev][Prev].burst
    BY <2>1 DEF HostInv, EndEnds
  <2>. QED BY <1>1, <2>1, <2>2 DEF startsBurst, cutBefore
<1>. QED BY <1>2, <1>3

\* What the actions of the state machine leave alone.
LEMMA RestKept ==
  ASSUME UNCHANGED restVars
  PROVE  UNCHANGED <<hostVars, appVars, out, next_seq, policy, rd, seqnum_reg>>
BY DEF restVars, deframeVars, hostVars

\* A step that raises nothing and plays nothing.
LEMMA QuietTypes ==
  ASSUME HostInv, DevInv,
         UNCHANGED <<out, next_seq, policy, rd, seqnum_reg, played, raised>>,
         head' \in Heads \cup {None}, ibs_state' \in States
  PROVE  /\ DevTypes' /\ NoSilentHole' /\ PlaysPrefixes' /\ StartsOnTime'
         /\ ErrorSince' = ErrorSince /\ LastId' = LastId /\ LastWhole' = LastWhole
<1>1. DevTypes'
  BY DEF DevInv, DevTypes, Plays
<1>2. raised \in Seq([code : Codes, at : Nat]) /\ Len(raised) \in Nat
  BY DEF DevInv, DevTypes
<1>3. NoSilentHole' /\ PlaysPrefixes' /\ StartsOnTime'
  BY <1>2, HistoryKept
<1>. QED BY <1>1, <1>3 DEF ErrorSince, LastId, LastWhole

\* IBS_IDLE.
LEMMA IdleSteps ==
  ASSUME HostInv, DevInv, IdleSeqError \/ IdleStart \/ IdleLate
  PROVE  DevInv'
<1>1. CASE IdleSeqError \/ IdleLate
  <2>1. /\ UNCHANGED <<out, next_seq, policy, rd, seqnum_reg, played, head>>
        /\ ibs_state' = "ERROR"
        /\ \E code \in Codes \ {"EOB_ACK"} : raise(code)
    BY <1>1, RestKept DEF IdleSeqError, IdleLate, Codes
  <2>2. head' \in Heads \cup {None} /\ HeadOK'
    BY <2>1 DEF DevInv, DevTypes, HeadOK
  <2>. QED BY <2>1, <2>2, RaiseStep
<1>2. CASE IdleStart
  <2>1. /\ UNCHANGED <<out, next_seq, policy, rd, seqnum_reg, played, raised>>
        /\ ibs_state = "IDLE" /\ ibs_state' = "RUN" /\ head # None /\ ~head.err
        /\ head.p.tsf # None => now = head.p.tsf
        /\ head' = [head EXCEPT !.start = now]
    BY <1>2, RestKept DEF IdleStart, send_at, due
  <2>2. /\ head' \in Heads /\ head' # None /\ HeadOK'
        /\ head'.id = head.id /\ head'.p = head.p /\ (head'.err <=> head.err)
        /\ head'.start = now
        /\ Prev' = Prev /\ (Unmarked' <=> Unmarked)
    BY <2>1, HeadTakenUp
  <2>3. /\ DevTypes' /\ NoSilentHole' /\ PlaysPrefixes' /\ StartsOnTime'
        /\ ErrorSince' = ErrorSince /\ LastId' = LastId /\ LastWhole' = LastWhole
    BY <2>1, <2>2, QuietTypes DEF States
  <2>4. NothingSkipped'
    BY <2>2, <2>3 DEF DevInv, NothingSkipped, Seamless
  <2>5. StateOK'
    BY <2>1, <2>2 DEF StateOK
  <2>6. policy = "next_burst" => startsBurst(head.id) \/ cutBefore(head.id)
    <3>1. policy = "next_burst" => Prev = 0 \/ out[Dev][Prev].eob
      BY <2>1 DEF DevInv, StateOK, Unmarked
    <3>. QED BY <2>1, <3>1, AfterEnd
  <2>7. RunOK'
    BY <2>1, <2>2, <2>6 DEF RunOK, startsBurst, cutBefore
  <2>. QED BY <2>2, <2>3, <2>4, <2>5, <2>7 DEF DevInv
<1>. QED BY <1>1, <1>2

\* IBS_RUN.
LEMMA RunSteps ==
  ASSUME HostInv, DevInv, RunMidUnderrun \/ RunPacket
  PROVE  DevInv'
<1>0. UNCHANGED <<out, next_seq, policy, rd, seqnum_reg>> /\ ibs_state = "RUN"
  BY RestKept DEF RunMidUnderrun, RunPacket
<1>1. /\ head # None /\ ~head.err /\ head \in Heads /\ head.p = out[Dev][head.id]
      /\ head.id \in 1 .. next_seq /\ head.id = seqnum_reg + 1 /\ next_seq \in Nat
      /\ Len(played) \in Nat
  BY <1>0, DevFacts DEF DevInv, DevTypes, StateOK, HeadOK
<1>2. raised \in Seq([code : Codes, at : Nat]) /\ Len(raised) \in Nat
  BY DEF DevInv, DevTypes
<1>3. ASSUME NEW code \in Codes,
             raised' = Append(raised, [code |-> code, at |-> Len(played) + 1])
      PROVE  /\ raised' \in Seq([code : Codes, at : Nat]) /\ Len(raised') = Len(raised) + 1
             /\ \A j \in 1 .. Len(raised) : raised'[j] = raised[j]
             /\ raised'[Len(raised) + 1].at = Len(played) + 1
             /\ raised'[Len(raised) + 1].code = code
  <2>. DEFINE e == [code |-> code, at |-> Len(played) + 1]
  <2>1. e \in [code : Codes, at : Nat] /\ e.at = Len(played) + 1 /\ e.code = code
    BY <1>1
  <2>2. raised' = Append(raised, e)
    BY <1>3
  <2>. HIDE DEF e
  <2>. QED BY <1>2, <2>1, <2>2
<1>4. Plays' = Plays
  BY <1>0 DEF Plays
<1>5. CASE RunMidUnderrun
  <2>1. /\ played' = Append(played, [id |-> head.id, whole |-> FALSE, when |-> head.start])
        /\ raised' = Append(raised, [code |-> "UNDERRUN_MIDPKT", at |-> Len(played) + 1])
        /\ ibs_state' = "ERROR" /\ head' = head
    BY <1>5 DEF RunMidUnderrun
  <2>2. /\ raised' \in Seq([code : Codes, at : Nat]) /\ Len(raised') = Len(raised) + 1
        /\ \A j \in 1 .. Len(raised) : raised'[j] = raised[j]
        /\ raised'[Len(raised) + 1].at = Len(played) + 1
        /\ raised'[Len(raised) + 1].code = "UNDERRUN_MIDPKT"
    BY <1>3, <2>1 DEF Codes
  <2>3. /\ played' \in Seq(Plays) /\ Len(played') = Len(played) + 1
        /\ NoSilentHole' /\ PlaysPrefixes' /\ StartsOnTime'
    <3>1. Len(raised') >= Len(raised) /\ FALSE \in BOOLEAN
      BY <1>2, <2>2
    <3>. QED BY <1>0, <2>1, <2>2, <3>1, PlayStep
  <2>4. ErrorSince'
    <3>1. Len(raised) + 1 \in 1 .. Len(raised')
      BY <1>2, <2>2
    <3>. QED BY <2>2, <2>3, <3>1 DEF ErrorSince
  <2>5. DevTypes'
    BY <1>0, <1>4, <2>1, <2>2, <2>3 DEF DevInv, DevTypes, States
  <2>6. HeadOK'
    BY <1>0, <2>1 DEF DevInv, HeadOK
  <2>7. NothingSkipped' /\ StateOK' /\ RunOK'
    BY <2>1, <2>4 DEF NothingSkipped, StateOK, RunOK
  <2>. QED BY <2>3, <2>5, <2>6, <2>7 DEF DevInv
<1>6. CASE RunPacket
  <2>1. /\ played' = Append(played, [id |-> head.id, whole |-> TRUE, when |-> head.start])
        /\ head' = None
        /\ \/ /\ head.p.eob /\ ibs_state' = "ERROR_DONE"
              /\ raised' = Append(raised, [code |-> "EOB_ACK", at |-> Len(played) + 1])
           \/ /\ ~head.p.eob /\ ibs_state' = "CONT_BURST" /\ raised' = raised
    BY <1>6 DEF RunPacket
  <2>2. /\ raised' \in Seq([code : Codes, at : Nat]) /\ Len(raised') >= Len(raised)
        /\ \A j \in 1 .. Len(raised) : raised'[j] = raised[j]
    BY <1>2, <1>3, <2>1 DEF Codes
  <2>3. /\ played' \in Seq(Plays) /\ Len(played') = Len(played) + 1
        /\ LastId' = head.id /\ LastWhole'
        /\ NoSilentHole' /\ PlaysPrefixes' /\ StartsOnTime'
    BY <1>0, <2>1, <2>2, PlayStep
  <2>4. DevTypes'
    BY <1>0, <1>4, <2>1, <2>2, <2>3 DEF DevInv, DevTypes, States
  <2>5. HeadOK'
    BY <2>1 DEF HeadOK
  <2>6. Prev' = head.id
    BY <1>0, <1>1, <2>1 DEF Prev
  <2>7. Seamless'
    BY <2>3, <2>6 DEF Seamless
  <2>8. NothingSkipped' /\ RunOK'
    BY <2>1, <2>7 DEF NothingSkipped, RunOK
  <2>9. Prev' >= 1 /\ out'[Dev][Prev'] = head.p
    BY <1>0, <1>1, <2>6
  <2>10. StateOK'
    BY <2>1, <2>7, <2>9 DEF StateOK
  <2>. QED BY <2>3, <2>4, <2>5, <2>8, <2>10 DEF DevInv
<1>. QED BY <1>5, <1>6

\* IBS_CONT_BURST.
LEMMA ContSteps ==
  ASSUME HostInv, DevInv, ContUnderrun \/ ContPacket
  PROVE  DevInv'
<1>1. CASE ContUnderrun
  <2>1. /\ UNCHANGED <<out, next_seq, policy, rd, seqnum_reg, played, head>>
        /\ ibs_state' \in {"ERROR", "ERROR_DONE"}
        /\ ibs_state' = "ERROR_DONE" => policy # "next_burst"
        /\ raise("UNDERRUN") /\ "UNDERRUN" \in Codes \ {"EOB_ACK"}
    BY <1>1, RestKept DEF ContUnderrun, after_underrun, Codes
  <2>2. head' \in Heads \cup {None} /\ HeadOK'
    BY <2>1 DEF DevInv, DevTypes, HeadOK
  <2>. QED BY <2>1, <2>2, RaiseStep
<1>2. CASE ContPacket
  <2>1. /\ UNCHANGED <<out, next_seq, policy, rd, seqnum_reg, played>>
        /\ ibs_state = "CONT_BURST" /\ head # None
        /\ head' = [head EXCEPT !.start = now]
    BY <1>2, RestKept DEF ContPacket
  <2>2. /\ head' \in Heads /\ head' # None /\ HeadOK'
        /\ head'.id = head.id /\ head'.p = head.p /\ (head'.err <=> head.err)
        /\ Prev' = Prev /\ (Unmarked' <=> Unmarked)
    BY <2>1, HeadTakenUp
  <2>3. CASE head.err
    <3>1. ibs_state' = "ERROR" /\ raise("SEQ_ERROR_MIDBURST")
          /\ "SEQ_ERROR_MIDBURST" \in Codes \ {"EOB_ACK"}
      BY <1>2, <2>3 DEF ContPacket, Codes
    <3>. QED BY <2>1, <2>2, <3>1, RaiseStep
  <2>4. CASE ~head.err
    <3>1. ibs_state' = "RUN" /\ raised' = raised
      BY <1>2, <2>4 DEF ContPacket
    <3>2. /\ DevTypes' /\ NoSilentHole' /\ PlaysPrefixes' /\ StartsOnTime'
          /\ ErrorSince' = ErrorSince /\ LastId' = LastId /\ LastWhole' = LastWhole
      BY <2>1, <2>2, <3>1, QuietTypes DEF States
    <3>3. Seamless /\ Prev >= 1 /\ ~out[Dev][Prev].eob
      BY <2>1, <2>4 DEF DevInv, StateOK, Unmarked
    <3>4. Seamless'
      BY <2>2, <3>2, <3>3 DEF Seamless
    <3>5. NothingSkipped' /\ StateOK' /\ RunOK'
      BY <2>1, <2>2, <2>4, <3>1, <3>3, <3>4 DEF NothingSkipped, StateOK, RunOK
    <3>. QED BY <2>2, <3>2, <3>5 DEF DevInv
  <2>. QED BY <2>3, <2>4
<1>. QED BY <1>1, <1>2

\* IBS_ERROR and IBS_ERROR_DONE.
LEMMA ErrorSteps ==
  ASSUME HostInv, DevInv, ErrorDrain \/ ErrorDone
  PROVE  DevInv'
<1>1. CASE ErrorDrain
  <2>1. /\ UNCHANGED <<out, next_seq, policy, rd, seqnum_reg, played, raised>>
        /\ ibs_state = "ERROR" /\ head # None /\ head' = None
        /\ ibs_state' \in {"IDLE", "ERROR"}
        /\ ibs_state' = "IDLE" => policy = "next_packet" \/ head.p.eob
    BY <1>1, RestKept DEF ErrorDrain, resumes
  <2>2. /\ DevTypes' /\ NoSilentHole' /\ PlaysPrefixes' /\ StartsOnTime'
        /\ ErrorSince' = ErrorSince
    BY <2>1, QuietTypes DEF States
  <2>3. ErrorSince
    BY <2>1 DEF DevInv, StateOK
  <2>4. Prev' = head.id /\ head.p = out[Dev][head.id]
    BY <2>1 DEF DevInv, HeadOK, Prev
  <2>5. HeadOK' /\ NothingSkipped' /\ RunOK'
    BY <2>1, <2>2, <2>3 DEF HeadOK, NothingSkipped, RunOK
  <2>6. StateOK'
    BY <2>1, <2>2, <2>3, <2>4 DEF StateOK
  <2>. QED BY <2>2, <2>5, <2>6 DEF DevInv
<1>2. CASE ErrorDone
  <2>1. /\ UNCHANGED <<out, next_seq, policy, rd, seqnum_reg, played, raised, head>>
        /\ ibs_state = "ERROR_DONE" /\ ibs_state' = "IDLE"
    BY <1>2, RestKept DEF ErrorDone
  <2>2. head' \in Heads \cup {None}
    BY <2>1 DEF DevInv, DevTypes
  <2>3. /\ DevTypes' /\ NoSilentHole' /\ PlaysPrefixes' /\ StartsOnTime'
        /\ ErrorSince' = ErrorSince /\ LastId' = LastId /\ LastWhole' = LastWhole
    BY <2>1, <2>2, QuietTypes DEF States
  <2>4. Prev' = Prev /\ Unmarked' = Unmarked
    BY <2>1 DEF Prev, Unmarked
  <2>5. HeadOK'
    BY <2>1 DEF DevInv, HeadOK
  <2>6. NothingSkipped'
    BY <2>3, <2>4 DEF DevInv, NothingSkipped, Seamless
  <2>7. StateOK' /\ RunOK'
    BY <2>1, <2>4 DEF DevInv, StateOK, RunOK
  <2>. QED BY <2>3, <2>5, <2>6, <2>7 DEF DevInv
<1>. QED BY <1>1, <1>2

\* The deframer takes the next packet up, and marks it unless it follows the
\* last one.
LEMMA DeframeStep ==
  ASSUME HostInv, DevInv, Deframe
  PROVE  DevInv'
<1>. DEFINE p == out[Dev][rd + 1]
            e == seqnum_err(p)
            h == [id |-> rd + 1, p |-> p, err |-> e, start |-> now]
<1>1. /\ head = None /\ rd < Len(out[Dev]) /\ rd' = rd + 1 /\ head' = h
      /\ seqnum_reg' = p.fc
      /\ UNCHANGED <<out, next_seq, policy, ibs_state, played, raised>>
  BY DEF Deframe, hostVars
<1>2. /\ next_seq \in Nat /\ Len(out[Dev]) = next_seq /\ rd \in Nat
      /\ rd + 1 \in 1 .. next_seq /\ p \in Packets /\ now \in Int
      /\ rd + 1 \in DOMAIN out[Dev]
  BY <1>1, DevFacts DEF HostInv, HostTypes
<1>3. p.fc = rd
  <2>1. Dev \in Chans
    BY Sizing
  <2>2. p.fc = (rd + 1) - 1
    BY <1>2, <2>1 DEF HostInv, InStep
  <2>. QED BY <1>2, <2>2
<1>4. e \in BOOLEAN /\ (~e => p.fc = seqnum_reg + 1)
  BY DEF seqnum_err
<1>. HIDE DEF p, e
<1>5. h \in Heads /\ h.id = rd + 1 /\ h.p = p /\ h.err = e
  BY <1>2, <1>4 DEF Heads
<1>. HIDE DEF h
<1>6. head' # None /\ head' \in Heads
  BY <1>1, <1>5, NoneAssumption
<1>7. /\ NoSilentHole' /\ PlaysPrefixes' /\ StartsOnTime'
      /\ ErrorSince' = ErrorSince /\ LastId' = LastId /\ LastWhole' = LastWhole
  <2>1. raised \in Seq([code : Codes, at : Nat]) /\ Len(raised) \in Nat
    BY DEF DevInv, DevTypes
  <2>2. NoSilentHole' /\ PlaysPrefixes' /\ StartsOnTime'
    BY <1>1, <2>1, HistoryKept
  <2>. QED BY <1>1, <2>2 DEF ErrorSince, LastId, LastWhole
<1>8. DevTypes'
  <2>1. rd' \in 0 .. next_seq' /\ seqnum_reg' \in -1 .. rd' - 1
    BY <1>1, <1>2, <1>3
  <2>. QED BY <1>1, <1>6, <2>1 DEF DevInv, DevTypes, Plays
<1>9. HeadOK'
  BY <1>1, <1>2, <1>3, <1>5 DEF HeadOK, p
<1>10. Unmarked /\ (Unmarked' => Prev' = Prev)
  BY <1>1, <1>4, <1>5, <1>6 DEF Unmarked, Prev
<1>11. NothingSkipped'
  BY <1>7, <1>10 DEF DevInv, NothingSkipped, Seamless
<1>12. ibs_state # "RUN"
  BY <1>1 DEF DevInv, StateOK
<1>13. StateOK'
  <2>1. Unmarked' => (Seamless' <=> Seamless)
    BY <1>7, <1>10 DEF Seamless
  <2>. QED BY <1>1, <1>7, <1>10, <1>12, <2>1 DEF DevInv, StateOK
<1>14. RunOK'
  BY <1>1, <1>12 DEF RunOK
<1>. QED BY <1>7, <1>8, <1>9, <1>11, <1>13, <1>14 DEF DevInv

\* An interval that grows.
LEMMA Widen ==
  ASSUME NEW a \in Int, NEW b \in Int, a <= b, NEW x \in -1 .. a - 1
  PROVE  x \in -1 .. b - 1
OBVIOUS

\* Steps that the transmit control does not notice.
LEMMA DevKept ==
  ASSUME HostInv, DevInv, rd' \in rd .. next_seq,
         UNCHANGED <<out, next_seq, policy, seqnum_reg, head, ibs_state, played, raised>>
  PROVE  DevInv'
<1>1. DevTypes'
  <2>1. rd' \in 0 .. next_seq' /\ seqnum_reg' \in -1 .. rd' - 1
    <3>1. rd \in 0 .. next_seq /\ seqnum_reg \in -1 .. rd - 1 /\ next_seq \in Nat
      BY DevFacts DEF DevInv, DevTypes
    <3>2. rd \in Int /\ rd' \in Int /\ rd <= rd' /\ rd' <= next_seq /\ seqnum_reg \in Int
          /\ -1 <= seqnum_reg /\ seqnum_reg <= rd - 1 /\ 0 <= rd
      BY <3>1
    <3>3. next_seq' = next_seq /\ seqnum_reg' = seqnum_reg
      OBVIOUS
    <3>4. rd' \in 0 .. next_seq
      BY <3>1, <3>2
    <3>5. seqnum_reg \in -1 .. rd' - 1
      BY <3>1, <3>2, Widen
    <3>. QED BY <3>3, <3>4, <3>5
  <2>. QED BY <2>1 DEF DevInv, DevTypes, Plays
<1>. QED BY <1>1 DEF DevInv, HeadOK, NothingSkipped, StateOK, RunOK, NoSilentHole,
                     PlaysPrefixes, StartsOnTime, Prev, Unmarked, Seamless, LastId,
                     LastWhole, ErrorSince, startsBurst, cutBefore, follows

-----------------------------------------------------------------------------
(* The theorems.                                                           *)

\* Nothing is sent or played at first.
LEMMA InitIInv == Init => IInv
<1>. SUFFICES ASSUME Init PROVE IInv
  OBVIOUS
<1>1. HostTypes /\ CacheOK /\ CallOK
  <2>1. out \in [Chans -> Seq(Packets)]
    BY DEF Init
  <2>. QED BY <2>1 DEF Init, HostTypes, CacheOK, CallOK
<1>2. Numbering /\ EndEnds
  BY DEF Init, Numbering, EndEnds
<1>3. InStep /\ EndIsMarked
  BY Sizing DEF Init, InStep, EndIsMarked
<1>4. DevTypes
  BY DEF Init, DevTypes, States
<1>5. HeadOK /\ NothingSkipped /\ StateOK /\ RunOK
  BY DEF Init, HeadOK, NothingSkipped, StateOK, RunOK, Seamless, Prev, LastId, LastWhole
<1>6. NoSilentHole /\ PlaysPrefixes /\ StartsOnTime
  BY DEF Init, NoSilentHole, PlaysPrefixes, StartsOnTime
<1>. QED BY <1>1, <1>2, <1>3, <1>4, <1>5, <1>6 DEF IInv, HostInv, DevInv

\* One case per action of Next.
LEMMA NextIInv == IInv /\ [Next]_vars => IInv'
<1>. SUFFICES ASSUME HostInv, DevInv, [Next]_vars PROVE HostInv' /\ DevInv'
  BY DEF IInv
<1>0. /\ now \in Nat /\ next_seq \in Nat /\ rd \in 0 .. next_seq /\ Len(out[Dev]) = next_seq
      /\ rd \in rd .. next_seq
  BY DevFacts DEF HostInv, HostTypes, DevInv, DevTypes
<1>1. ASSUME NEW md \in Metadata, Send(md) PROVE HostInv' /\ DevInv'
  BY <1>0, <1>1, SendStep, DevKept DEF Send, fpgaVars
<1>2. ASSUME NEW c \in Chans, SendTimeout(c) PROVE HostInv' /\ DevInv'
  BY <1>0, <1>2, TimeoutStep, DevKept DEF SendTimeout, fpgaVars
<1>3. CASE SendPacket
  BY <1>3, SendPacketStep, DevGrows
<1>4. CASE Lose
  <2>1. rd' \in rd .. next_seq
    BY <1>0, <1>4 DEF Lose
  <2>. QED BY <1>0, <1>4, <2>1, HostKept, DevKept DEF Lose, hostVars
<1>5. CASE Deframe
  BY <1>0, <1>5, HostKept, DeframeStep DEF Deframe
<1>6. CASE Control
  <2>1. UNCHANGED <<hostVars, appVars, now>>
    BY <1>6, RestKept
       DEF Control, IdleSeqError, IdleStart, IdleLate, RunMidUnderrun, RunPacket,
           ContUnderrun, ContPacket, ErrorDrain, ErrorDone
  <2>. QED BY <1>0, <1>6, <2>1, HostKept, IdleSteps, RunSteps, ContSteps, ErrorSteps
           DEF Control
<1>7. CASE Tick
  <2>1. now' \in Nat /\ UNCHANGED <<hostVars, appVars>>
        /\ UNCHANGED <<out, next_seq, policy, rd, seqnum_reg>>
    BY <1>0, <1>7, RestKept DEF Tick
  <2>. QED BY <1>0, <1>7, <2>1, HostKept, DevKept DEF Tick
<1>8. CASE UNCHANGED vars
  BY <1>0, <1>8, HostKept, DevKept DEF vars, fpgaVars, hostVars
<1>. QED BY <1>1, <1>2, <1>3, <1>4, <1>5, <1>6, <1>7, <1>8 DEF Next

\* The inductive invariant of the transmit streamer and its transmit control.
THEOREM SendInvariant == Spec => []IInv
BY InitIInv, NextIInv, PTL DEF Spec

\* send_one_packet keeps the channels in step, whichever of them time out.
THEOREM ChannelsInStep == Spec => []InStep
<1>1. IInv => InStep
  BY DEF IInv, HostInv
<1>. QED BY SendInvariant, <1>1, PTL

\* send marks the end of a burst on the last packet of the call that ends it,
\* for every size of calls and packets.
THEOREM EndMarked == Spec => []EndIsMarked
<1>1. IInv => EndIsMarked
  BY DEF IInv, HostInv
<1>. QED BY SendInvariant, <1>1, PTL

\* vita_tx_control raises an error wherever what it plays has a break.
THEOREM HolesReported == Spec => []NoSilentHole
<1>1. IInv => NoSilentHole
  BY DEF IInv, DevInv
<1>. QED BY SendInvariant, <1>1, PTL

\* With the policy next_burst vita_tx_control plays a prefix of every burst.
THEOREM PrefixesOnly == Spec => []PlaysPrefixes
<1>1. IInv => PlaysPrefixes
  BY DEF IInv, DevInv
<1>. QED BY SendInvariant, <1>1, PTL

\* A burst that carries its time starts then or not at all.
THEOREM BurstOnTime == Spec => []StartsOnTime
<1>1. IInv => StartsOnTime
  BY DEF IInv, DevInv
<1>. QED BY SendInvariant, <1>1, PTL

=============================================================================
