--------------------------- MODULE FlashBootProofs ---------------------------
(***************************************************************************)
(* Proofs about FlashBoot for every size of the images, and any number of  *)
(* runs of the program, power failures, lost packets and EEPROM errors.    *)
(***************************************************************************)
EXTENDS FlashBoot, TLAPS

-----------------------------------------------------------------------------
(* The inductive invariant.                                                *)

Firmware == {"safe_fw", "prod_fw"}
Pcs == {"start", "button", "check", "reload", "load", "hung"} \cup Firmware

Ops == {"hello", "erase", "poll", "write", "read", "reset"}
Requests == [op : Ops, page : Pages, run : Nat, img : Images]
Steps == [op : Ops \cup {"idle"}, page : Pages]
Acks == [op : {"none", "hello", "erasing", "not_done", "done", "wrote"}]
Data == [op : {"read"}, data : Contents]

Types ==
  /\ flash \in [Images -> [Pages -> Contents]]
  /\ flag \in BOOLEAN /\ fpga \in {"safe", "prod"} /\ pc \in Pcs /\ prod \in BOOLEAN
  /\ erase \in [img : Images, current : 0 .. NPages, last : {0, NPages}]
  /\ erase.current <= erase.last
  /\ busy \in BOOLEAN
  /\ reqs \in Seq(Requests)
  /\ rep \in Acks \cup Data
  /\ run \in Nat
  /\ todo \in Seq(Images)
  /\ step \in Steps
  /\ wait \in BOOLEAN
  /\ seen \subseteq Pages \X Contents
  /\ opts \in [erase : BOOLEAN, reset : BOOLEAN]
  /\ verdict \in {"none", "ok", "failed"}
  /\ left \in BOOLEAN /\ restarted \in BOOLEAN

\* Whatever a run sends after its first request is alone on its way: the reply
\* to the first request comes after all that earlier runs left behind.
Queue ==
  /\ \A i \in 1 .. Len(reqs) :
       /\ reqs[i].run <= run
       /\ i > 1 => reqs[i].op = "hello"
       /\ step.op # "idle" /\ reqs[i].run = run =>
            /\ i = Len(reqs) /\ wait /\ rep = None
            /\ reqs[i].op = step.op /\ reqs[i].page = step.page
            /\ todo # <<>> => reqs[i].img = Head(todo)
  /\ step.op \notin {"idle", "hello"} =>
       \A i \in 1 .. Len(reqs) : i = 1 /\ reqs[i].run = run

\* A run gets the reply to its last request, and nothing is behind it.
Answer ==
  step.op # "idle" =>
    /\ rep # None => wait /\ Expected(rep) /\ reqs = <<>>
    /\ step.op # "reset" => todo # <<>>

\* The flash erases only under a firmware that was asked to, and is through
\* before a page is written or read or the device is reset.
Quiet ==
  /\ busy => pc \in Firmware /\ erase.current >= 1
  /\ reqs # <<>> /\ reqs[1].op \in {"write", "read", "reset"} => ~busy
  /\ step.op \in {"write", "read", "reset"} => ~busy
  /\ step.op = "poll" /\ rep.op = "done" => ~busy

\* What was read back is in the flash.
SeenOK ==
  /\ step.op # "read" => seen = {}
  /\ step.op = "read" =>
       /\ \A p \in Pages : <<p, "new">> \in seen => flash[Head(todo)][p] = "new"
       /\ rep # None => rep.data = flash[Head(todo)][step.page]

\* Without a restart the image in work is erased, then written page by page.
Progress ==
  ~restarted =>
    /\ step.op = "poll" \/ (step.op = "erase" /\ rep # None) =>
         /\ erase.img = Head(todo) /\ erase.current >= 1 /\ erase.last = NPages
         /\ \A p \in Pages : p < erase.current \/ (p = erase.current /\ ~busy) =>
              flash[Head(todo)][p] = "erased"
         /\ rep.op = "done" => erase.current = NPages
    /\ step.op = "write" => \A p \in Pages :
         /\ p < step.page => flash[Head(todo)][p] = "new"
         /\ p = step.page => /\ flash[Head(todo)][p] \in {"erased", "new"}
                             /\ rep # None => flash[Head(todo)][p] = "new"
         /\ p > step.page => flash[Head(todo)][p] = "erased"
    /\ step.op = "read" => \A p \in Pages :
         /\ flash[Head(todo)][p] = "new"
         /\ p < step.page => <<p, "new">> \in seen

\* The flag is set for the time of a reload only, or left over; it takes the
\* bootloader of the safe FPGA to the firmware only when the production FPGA
\* could not be loaded.
FlagOK ==
  /\ flag => left \/ pc \in {"reload", "start"}
  /\ pc = "start" /\ fpga = "safe" /\ flag => ~Whole("fpga") \/ left
  /\ pc \in {"button", "load"} /\ fpga = "safe" /\ prod => ~Whole("fpga") \/ left
  /\ pc = "load" => prod

IInv ==
  /\ Types
  /\ Queue
  /\ Answer
  /\ Quiet
  /\ SeenOK
  /\ Progress
  /\ FlagOK
  /\ FailsOnlyAfterRestart

-----------------------------------------------------------------------------
(* Types.                                                                  *)

\* Page numbers.
LEMMA PageNumbers ==
  /\ NPages \in Nat /\ NPages > 1 /\ Pages \subseteq Nat
  /\ 1 \in Pages /\ NPages \in Pages /\ 0 \in 0 .. NPages /\ 1 \in 0 .. NPages
  /\ NPages \in 0 .. NPages
BY BoundAssumption DEF Pages

\* A page of an image gets new contents.
LEMMA FlashPut ==
  ASSUME Types, NEW i \in Images, NEW p \in Pages, NEW c \in Contents,
         flash' = [flash EXCEPT ![i][p] = c]
  PROVE  /\ flash' \in [Images -> [Pages -> Contents]]
         /\ flash'[i][p] = c
         /\ \A j \in Images, q \in Pages : j # i \/ q # p => flash'[j][q] = flash[j][q]
<1>1. flash \in [Images -> [Pages -> Contents]]
  BY DEF Types
<1>2. flash[i] \in [Pages -> Contents]
  BY <1>1
<1>3. [flash[i] EXCEPT ![p] = c] \in [Pages -> Contents]
  BY <1>2
<1>4. flash' = [flash EXCEPT ![i] = [flash[i] EXCEPT ![p] = c]]
  BY <1>1
<1>. QED BY <1>1, <1>2, <1>3, <1>4

\* The request that is served.
LEMMA HeadRequest ==
  ASSUME Types, reqs # <<>>
  PROVE  /\ Head(reqs) = reqs[1] /\ reqs[1] \in Requests
         /\ reqs[1].op \in Ops /\ reqs[1].page \in Pages /\ reqs[1].run \in Nat
         /\ reqs[1].img \in Images
         /\ Len(reqs) \in Nat /\ Len(reqs) >= 1 /\ 1 \in 1 .. Len(reqs)
         /\ Tail(reqs) \in Seq(Requests) /\ Len(Tail(reqs)) = Len(reqs) - 1
         /\ \A i \in 1 .. Len(Tail(reqs)) : /\ i + 1 \in 1 .. Len(reqs) /\ i + 1 > 1
                                            /\ Tail(reqs)[i] = reqs[i + 1]
<1>1. reqs \in Seq(Requests)
  BY DEF Types
<1>2. Head(reqs) = reqs[1] /\ reqs[1] \in Requests /\ 1 \in 1 .. Len(reqs)
      /\ Len(reqs) \in Nat /\ Len(reqs) >= 1
  BY <1>1
<1>3. reqs[1].op \in Ops /\ reqs[1].page \in Pages /\ reqs[1].run \in Nat
      /\ reqs[1].img \in Images
  BY <1>2 DEF Requests
<1>4. /\ Tail(reqs) \in Seq(Requests) /\ Len(Tail(reqs)) = Len(reqs) - 1
      /\ \A i \in 1 .. Len(Tail(reqs)) : /\ i + 1 \in 1 .. Len(reqs) /\ i + 1 > 1
                                         /\ Tail(reqs)[i] = reqs[i + 1]
  BY <1>1
<1>. QED BY <1>2, <1>3, <1>4

\* A reply has its type.
LEMMA ReplyTypes ==
  ASSUME Types, Serving, NEW r \in Acks \cup Data, Reply(r)
  PROVE  reqs' \in Seq(Requests) /\ rep' \in Acks \cup Data
<1>1. reqs # <<>> /\ reqs' = Tail(reqs) /\ (rep' = r \/ rep' = rep)
  BY DEF Serving, Reply
<1>. QED BY <1>1, HeadRequest DEF Types

\* The fields of the variables that are records.
LEMMA Fields ==
  ASSUME Types
  PROVE  /\ erase.img \in Images /\ erase.current \in 0 .. NPages
         /\ erase.last \in {0, NPages} /\ erase.current <= erase.last
         /\ step.op \in Ops \cup {"idle"} /\ step.page \in Pages /\ step.page \in Nat
         /\ opts.erase \in BOOLEAN /\ opts.reset \in BOOLEAN
         /\ \A i \in Images, p \in Pages : flash[i][p] \in Contents
         /\ todo # <<>> => Head(todo) \in Images /\ Tail(todo) \in Seq(Images)
<1>1. step.op \in Ops \cup {"idle"} /\ step.page \in Pages /\ step.page \in Nat
  BY PageNumbers DEF Types, Steps
<1>2. /\ erase.img \in Images /\ erase.current \in 0 .. NPages
      /\ erase.last \in {0, NPages} /\ erase.current <= erase.last
      /\ opts.erase \in BOOLEAN /\ opts.reset \in BOOLEAN
  BY DEF Types
<1>3. todo # <<>> => Head(todo) \in Images /\ Tail(todo) \in Seq(Images)
  BY DEF Types
<1>4. \A i \in Images, p \in Pages : flash[i][p] \in Contents
  BY DEF Types
<1>. QED BY <1>1, <1>2, <1>3, <1>4

\* The replies.
LEMMA Replies ==
  /\ \A o \in {"none", "hello", "erasing", "not_done", "done", "wrote"} : [op |-> o] \in Acks
  /\ \A c \in Contents : [op |-> "read", data |-> c] \in Data
  /\ None \in Acks /\ None.op = "none"
BY DEF Acks, Data, None

-----------------------------------------------------------------------------
(* The queue of requests.                                                  *)

\* The first request leaves the queue: only first requests of runs are left.
LEMMA Dropped ==
  ASSUME Types, Queue, reqs # <<>>, reqs' = Tail(reqs), UNCHANGED hostVars,
         (step.op # "idle" /\ reqs[1].run # run => rep' = rep)
  PROVE  /\ Queue'
         /\ reqs' # <<>> => reqs'[1].op = "hello"
         /\ step.op # "idle" /\ reqs[1].run = run => reqs' = <<>>
<1>1. /\ reqs' = Tail(reqs) /\ Len(reqs') = Len(reqs) - 1 /\ Len(reqs) \in Nat
      /\ Len(reqs) >= 1 /\ 1 \in 1 .. Len(reqs) /\ reqs' \in Seq(Requests)
      /\ \A i \in 1 .. Len(reqs') : i + 1 \in 1 .. Len(reqs) /\ i + 1 > 1
                                    /\ reqs'[i] = reqs[i + 1]
  BY HeadRequest
<1>2. run' = run /\ step' = step /\ wait' = wait /\ todo' = todo
  BY DEF hostVars
<1>3. step.op # "idle" /\ reqs[1].run = run => Len(reqs) = 1
  BY <1>1 DEF Queue
<1>4. ASSUME NEW i \in 1 .. Len(reqs')
      PROVE  /\ reqs'[i].run <= run' /\ reqs'[i].op = "hello"
             /\ step'.op # "idle" /\ reqs'[i].run = run' =>
                  /\ i = Len(reqs') /\ wait' /\ rep' = None
                  /\ reqs'[i].op = step'.op /\ reqs'[i].page = step'.page
                  /\ todo' # <<>> => reqs'[i].img = Head(todo')
             /\ step'.op \in {"idle", "hello"}
  <2>1. i + 1 \in 1 .. Len(reqs) /\ i + 1 > 1 /\ reqs'[i] = reqs[i + 1] /\ i + 1 # 1
    BY <1>1
  <2>2. reqs[i + 1].run <= run /\ reqs[i + 1].op = "hello"
    BY <2>1 DEF Queue
  <2>3. step.op \in {"idle", "hello"}
    BY <2>1 DEF Queue
  <2>4. ASSUME step.op # "idle", reqs[i + 1].run = run
        PROVE  /\ i = Len(reqs') /\ wait /\ rep' = None
               /\ reqs[i + 1].op = step.op /\ reqs[i + 1].page = step.page
               /\ todo # <<>> => reqs[i + 1].img = Head(todo)
    <3>1. /\ i + 1 = Len(reqs) /\ wait /\ rep = None
          /\ reqs[i + 1].op = step.op /\ reqs[i + 1].page = step.page
          /\ todo # <<>> => reqs[i + 1].img = Head(todo)
      BY <2>1, <2>4 DEF Queue
    <3>2. reqs[1].run # run
      BY <2>1, <3>1, <1>3, <2>4
    <3>. QED BY <3>1, <3>2, <2>4, <1>1
  <2>. QED BY <2>1, <2>2, <2>3, <2>4, <1>2
<1>5. Queue'
  BY <1>4, <1>1 DEF Queue
<1>6. reqs' # <<>> => reqs'[1].op = "hello"
  <2>1. reqs' # <<>> => 1 \in 1 .. Len(reqs')
    BY <1>1
  <2>. QED BY <2>1, <1>4
<1>7. step.op # "idle" /\ reqs[1].run = run => reqs' = <<>>
  BY <1>1, <1>3
<1>. QED BY <1>5, <1>6, <1>7

\* A request is answered.  Either the program is at its first request or does
\* not run, or the request was its own.
LEMMA Served ==
  ASSUME IInv, Serving, NEW r \in Acks \cup Data, r # None, Reply(r), UNCHANGED hostVars,
         step.op # "idle" /\ step.op = reqs[1].op => Expected(r)
  PROVE  /\ Queue' /\ Answer'
         /\ reqs' # <<>> => reqs'[1].op = "hello"
         /\ \/ step.op \in {"idle", "hello"}
            \/ /\ step.op = reqs[1].op /\ step.page = reqs[1].page
               /\ todo # <<>> => reqs[1].img = Head(todo)
               /\ rep' = r /\ rep = None
<1>0. Types /\ Queue /\ Answer
  BY DEF IInv
<1>1. /\ reqs # <<>> /\ reqs' = Tail(reqs)
      /\ rep' = IF reqs[1].run = run THEN r ELSE rep
  BY <1>0, HeadRequest DEF Serving, Reply
<1>2. 1 \in 1 .. Len(reqs)
  BY <1>0, <1>1, HeadRequest
<1>3. /\ Queue'
      /\ reqs' # <<>> => reqs'[1].op = "hello"
      /\ step.op # "idle" /\ reqs[1].run = run => reqs' = <<>>
  BY <1>0, <1>1, Dropped
<1>4. step.op # "idle" /\ reqs[1].run = run =>
        /\ wait /\ rep = None /\ reqs[1].op = step.op /\ reqs[1].page = step.page
        /\ todo # <<>> => reqs[1].img = Head(todo)
  BY <1>0, <1>2 DEF Queue
<1>5. step.op \notin {"idle", "hello"} => reqs[1].run = run
  BY <1>0, <1>2 DEF Queue
<1>6. run' = run /\ step' = step /\ wait' = wait /\ todo' = todo
  BY DEF hostVars
<1>7. Answer'
  <2>1. ASSUME step.op # "idle", rep' # None
        PROVE  wait /\ Expected(rep)' /\ reqs' = <<>>
    <3>1. reqs[1].run = run
      BY <1>0, <1>1, <2>1 DEF Answer
    <3>2. rep' = r /\ wait /\ reqs' = <<>> /\ Expected(r)
      BY <3>1, <1>1, <1>3, <1>4, <2>1
    <3>. QED BY <3>2, <1>6 DEF Expected
  <2>. QED BY <2>1, <1>6, <1>0 DEF Answer
<1>. QED BY <1>1, <1>3, <1>4, <1>5, <1>7

-----------------------------------------------------------------------------
(* The steps of the bootloader and the restarts.                           *)

Rest == Queue /\ Answer /\ Quiet /\ SeenOK /\ Progress /\ FlagOK /\ FailsOnlyAfterRestart

\* The bootloader does nothing that the update could see: no sector is being
\* erased while it runs.
LEMMA BootloaderQuiet ==
  ASSUME IInv, pc \notin Firmware,
         UNCHANGED <<flash, erase, busy, netVars, hostVars, restarted>>
  PROVE  /\ Queue' /\ Answer' /\ Quiet' /\ SeenOK' /\ Progress' /\ FailsOnlyAfterRestart'
         /\ Whole("fpga")' = Whole("fpga")
<1>1. /\ flash' = flash /\ erase' = erase /\ busy' = busy /\ reqs' = reqs /\ rep' = rep
      /\ run' = run /\ todo' = todo /\ step' = step /\ wait' = wait /\ seen' = seen
      /\ verdict' = verdict /\ restarted' = restarted
  BY DEF netVars, hostVars
<1>2. Queue'
  BY <1>1 DEF IInv, Queue
<1>3. Answer'
  BY <1>1 DEF IInv, Answer, Expected
<1>4. Quiet'
  BY <1>1 DEF IInv, Quiet
<1>5. SeenOK'
  BY <1>1 DEF IInv, SeenOK
<1>6. Progress'
  BY <1>1 DEF IInv, Progress
<1>7. FailsOnlyAfterRestart' /\ Whole("fpga")' = Whole("fpga")
  BY <1>1 DEF IInv, FailsOnlyAfterRestart, Whole
<1>. QED BY <1>2, <1>3, <1>4, <1>5, <1>6, <1>7

\* A read or write of the flag.
LEMMA ReadFlagStep == IInv /\ ReadFlag => Rest'
<1>. SUFFICES ASSUME IInv, ReadFlag PROVE Rest'
  OBVIOUS
<1>1. pc \notin Firmware /\ UNCHANGED <<flash, erase, busy, netVars, hostVars, restarted>>
  BY DEF ReadFlag, Firmware
<1>2. /\ pc = "start" /\ pc' = "button" /\ fpga' = fpga
      /\ flag' => left' /\ flag
      /\ prod' => flag
      /\ left => left'
  BY DEF ReadFlag, IInv, Types
<1>3. FlagOK'
  BY <1>1, <1>2, BootloaderQuiet DEF IInv, FlagOK
<1>. QED BY <1>1, <1>3, BootloaderQuiet DEF Rest

\* The button.
LEMMA ButtonStep == IInv /\ Button => Rest'
<1>. SUFFICES ASSUME IInv, Button PROVE Rest'
  OBVIOUS
<1>1. /\ pc \notin Firmware /\ UNCHANGED <<flash, erase, busy, netVars, hostVars, restarted>>
      /\ pc = "button" /\ flag' = flag /\ fpga' = fpga /\ prod' = prod /\ left' = left
      /\ pc' \in {"safe_fw", "load", "check"} /\ (pc' = "load" => prod)
  BY DEF Button, Firmware, flashVars, histVars
<1>2. FlagOK'
  BY <1>1, BootloaderQuiet DEF IInv, FlagOK
<1>. QED BY <1>1, <1>2, BootloaderQuiet DEF Rest

\* The header of the FPGA image is looked at.
LEMMA CheckFpgaStep == IInv /\ CheckFpga => Rest'
<1>. SUFFICES ASSUME IInv, CheckFpga PROVE Rest'
  OBVIOUS
<1>1. /\ pc \notin Firmware /\ UNCHANGED <<flash, erase, busy, netVars, hostVars, restarted>>
      /\ pc = "check" /\ left' = left
      /\ pc' = "reload" \/ (pc' = "safe_fw" /\ flag' = flag)
  BY DEF CheckFpga, Firmware
<1>2. FlagOK'
  BY <1>1 DEF IInv, FlagOK
<1>. QED BY <1>1, <1>2, BootloaderQuiet DEF Rest

\* The production firmware is loaded.
LEMMA LoadFwStep == IInv /\ LoadFw => Rest'
<1>. SUFFICES ASSUME IInv, LoadFw PROVE Rest'
  OBVIOUS
<1>1. /\ pc \notin Firmware /\ UNCHANGED <<flash, erase, busy, netVars, hostVars, restarted>>
      /\ pc = "load" /\ left' = left /\ flag' = flag
      /\ pc' \in {"prod_fw", "hung", "safe_fw"}
  BY DEF LoadFw, Firmware, flashVars, histVars
<1>2. FlagOK'
  BY <1>1 DEF IInv, FlagOK
<1>. QED BY <1>1, <1>2, BootloaderQuiet DEF Rest

\* The device restarts with an idle flash: what the program read back is still
\* in the flash, and nothing else is claimed any more.
LEMMA Restarts ==
  ASSUME IInv, restarted' = TRUE, busy' = FALSE, UNCHANGED <<rep, hostVars>>,
         step.op = "read" => flash' = flash,
         reqs' = reqs \/ reqs' = <<>>
  PROVE  Queue' /\ Answer' /\ Quiet' /\ SeenOK' /\ Progress' /\ FailsOnlyAfterRestart'
<1>1. /\ rep' = rep /\ run' = run /\ todo' = todo /\ step' = step /\ wait' = wait
      /\ seen' = seen /\ verdict' = verdict
  BY DEF hostVars
<1>2. Len(<<>>) = 0 /\ 1 .. 0 = {}
  OBVIOUS
<1>3. Queue'
  <2>1. CASE reqs' = reqs
    BY <1>1, <2>1 DEF IInv, Queue
  <2>2. CASE reqs' = <<>>
    <3>1. 1 .. Len(reqs') = {}
      BY <1>2, <2>2
    <3>. QED BY <3>1 DEF Queue
  <2>. QED BY <2>1, <2>2
<1>4. Answer'
  BY <1>1 DEF IInv, Answer, Expected
<1>5. Quiet'
  BY DEF Quiet
<1>6. SeenOK'
  BY <1>1 DEF IInv, SeenOK
<1>7. Progress' /\ FailsOnlyAfterRestart'
  BY DEF Progress, FailsOnlyAfterRestart
<1>. QED BY <1>3, <1>4, <1>5, <1>6, <1>7

\* The reload of the production FPGA: it falls back only for a torn image.
LEMMA ReloadStep == IInv /\ Reload => Rest'
<1>. SUFFICES ASSUME IInv, Reload PROVE Rest'
  OBVIOUS
<1>1. /\ pc = "reload" /\ restarted' = TRUE /\ busy' = busy /\ UNCHANGED <<rep, hostVars>>
      /\ flash' = flash /\ reqs' = reqs /\ pc' = "start" /\ flag' = flag
      /\ fpga' = IF Whole("fpga") /\ ~busy THEN "prod" ELSE "safe"
  BY DEF Reload, Boot, flashVars, netVars
<1>2. busy = FALSE
  BY <1>1 DEF IInv, Types, Quiet, Firmware
<1>3. Whole("fpga")' = Whole("fpga")
  BY <1>1 DEF Whole
<1>4. FlagOK'
  BY <1>1, <1>2, <1>3 DEF FlagOK
<1>. QED BY <1>1, <1>2, <1>4, Restarts DEF Rest

\* A reset that the program asked for.
LEMMA ResetStep == IInv /\ Reset => Rest'
<1>. SUFFICES ASSUME IInv, Reset PROVE Rest'
  OBVIOUS
<1>1. /\ pc \in Firmware /\ restarted' = TRUE /\ busy' = busy /\ UNCHANGED <<rep, hostVars>>
      /\ flash' = flash /\ reqs' = <<>> /\ pc' = "start" /\ flag' = flag
      /\ left' = (left /\ flag) /\ reqs # <<>> /\ Head(reqs).op = "reset"
  BY DEF Reset, Boot, flashVars, Serving, Firmware
<1>2. busy = FALSE
  BY <1>1, HeadRequest DEF IInv, Types, Quiet
<1>3. FlagOK'
  BY <1>1 DEF IInv, FlagOK, Firmware
<1>. QED BY <1>1, <1>2, <1>3, Restarts DEF Rest

\* No page is torn while the program reads the image back.
LEMMA ReadNotTorn ==
  ASSUME IInv, step.op = "read"
  PROVE  TornPages = {}
<1>1. ~busy
  BY DEF IInv, Quiet
<1>2. ASSUME reqs # <<>> PROVE Head(reqs).op = "read"
  BY <1>2, HeadRequest DEF IInv, Queue
<1>. QED BY <1>1, <1>2 DEF TornPages

\* The torn page is a page.
LEMMA TornIsPage ==
  ASSUME Types, Quiet, NEW t \in TornPages
  PROVE  t[1] \in Images /\ t[2] \in Pages
<1>1. CASE busy
  <2>1. t = <<erase.img, erase.current>>
    BY <1>1 DEF TornPages
  <2>2. erase.current >= 1 /\ erase.current \in 0 .. NPages /\ erase.img \in Images
    BY <1>1, Fields DEF Quiet
  <2>. QED BY <2>1, <2>2, PageNumbers DEF Pages
<1>2. CASE ~busy
  <2>1. reqs # <<>> /\ t = <<Head(reqs).img, Head(reqs).page>>
    BY <1>2 DEF TornPages
  <2>. QED BY <2>1, HeadRequest
<1>. QED BY <1>1, <1>2

\* A power failure: the sector or page in work is torn.
LEMMA PowerCycleStep == IInv /\ PowerCycle => Rest'
<1>. SUFFICES ASSUME IInv, PowerCycle PROVE Rest'
  OBVIOUS
<1>1. /\ restarted' = TRUE /\ busy' = FALSE /\ UNCHANGED <<rep, hostVars>>
      /\ reqs' = <<>> /\ pc' = "start" /\ flag' = flag
      /\ left' = (flag /\ (left \/ pc \in {"reload", "start"}))
      /\ flash' = flash \/ TornPages # {}
  BY DEF PowerCycle, Boot
<1>2. step.op = "read" => flash' = flash
  BY <1>1, ReadNotTorn
<1>3. FlagOK'
  BY <1>1 DEF IInv, FlagOK
<1>. QED BY <1>1, <1>2, <1>3, Restarts DEF Rest

-----------------------------------------------------------------------------
(* The steps of the update service.                                        *)

\* The service leaves the start of the device and the verdict alone.
LEMMA ServiceFlag ==
  ASSUME IInv, pc \in Firmware, UNCHANGED <<pc, flag, left, restarted, hostVars>>
  PROVE  FlagOK' /\ FailsOnlyAfterRestart'
<1>1. FlagOK'
  BY DEF IInv, FlagOK, Firmware
<1>2. FailsOnlyAfterRestart'
  BY DEF IInv, FailsOnlyAfterRestart, hostVars
<1>. QED BY <1>1, <1>2

\* A program that is not at an image has nothing to lose.
LEMMA NotAtImage ==
  ASSUME IInv, step.op \in {"idle", "hello"}, UNCHANGED hostVars
  PROVE  SeenOK' /\ Progress' /\ step' = step
<1>1. step' = step /\ seen' = seen
  BY DEF hostVars
<1>. QED BY <1>1 DEF IInv, SeenOK, Progress

\* The queries.
LEMMA HelloStep == IInv /\ Hello => Rest'
<1>. SUFFICES ASSUME IInv, Hello PROVE Rest'
  OBVIOUS
<1>. DEFINE r == [op |-> "hello"]
<1>1. /\ Serving /\ pc \in Firmware /\ Reply(r) /\ UNCHANGED hostVars /\ reqs # <<>>
      /\ Head(reqs).op = "hello" /\ UNCHANGED <<pc, flag, left, restarted>> /\ busy' = busy
      /\ erase' = erase /\ flash' = flash
  BY DEF Hello, Serving, Firmware, devVars, flashVars, histVars
<1>2. reqs[1].op = "hello" /\ r \in Acks \cup Data /\ r # None /\ r.op = "hello"
  BY <1>1, HeadRequest DEF IInv, Acks, None
<1>. HIDE DEF r
<1>3. step.op # "idle" /\ step.op = reqs[1].op => Expected(r)
  BY <1>2 DEF Expected
<1>4. /\ Queue' /\ Answer' /\ (reqs' # <<>> => reqs'[1].op = "hello")
      /\ step.op \in {"idle", "hello"}
  BY <1>1, <1>2, <1>3, Served
<1>5. SeenOK' /\ Progress' /\ step' = step
  BY <1>1, <1>4, NotAtImage
<1>6. Quiet'
  BY <1>1, <1>4, <1>5 DEF IInv, Quiet
<1>. QED BY <1>1, <1>4, <1>5, <1>6, ServiceFlag DEF Rest

\* The first sector is being erased.
LEMMA EraseStartStep == IInv /\ EraseStart => Rest'
<1>. SUFFICES ASSUME IInv, EraseStart PROVE Rest'
  OBVIOUS
<1>. DEFINE r == [op |-> "erasing"]
<1>1. /\ Serving /\ pc \in Firmware /\ Reply(r) /\ UNCHANGED hostVars /\ reqs # <<>>
      /\ Head(reqs).op = "erase" /\ UNCHANGED <<pc, flag, left, restarted>> /\ busy' = TRUE
      /\ erase' = [img |-> Head(reqs).img, current |-> 1, last |-> NPages] /\ flash' = flash
  BY DEF EraseStart, Serving, Firmware, flashVars, histVars
<1>2. /\ reqs[1].op = "erase" /\ Head(reqs) = reqs[1] /\ r \in Acks \cup Data /\ r # None
      /\ r.op = "erasing"
  BY <1>1, HeadRequest DEF IInv, Acks, None
<1>. HIDE DEF r
<1>3. step.op # "idle" /\ step.op = reqs[1].op => Expected(r)
  BY <1>2 DEF Expected
<1>4. /\ Queue' /\ Answer' /\ (reqs' # <<>> => reqs'[1].op = "hello")
      /\ \/ step.op \in {"idle", "hello"}
         \/ /\ step.op = "erase" /\ rep' = r
            /\ todo # <<>> => reqs[1].img = Head(todo)
  BY <1>1, <1>2, <1>3, Served
<1>5. step' = step /\ todo' = todo /\ seen' = seen
  BY <1>1 DEF hostVars
<1>6. Quiet'
  BY <1>1, <1>4, <1>5 DEF Quiet
<1>7. SeenOK' /\ Progress'
  <2>1. CASE step.op \in {"idle", "hello"}
    BY <1>1, <2>1, NotAtImage
  <2>2. CASE step.op \notin {"idle", "hello"}
    <3>1. step.op = "erase" /\ rep'.op = "erasing" /\ todo # <<>> /\ reqs[1].img = Head(todo)
      BY <2>2, <1>2, <1>4 DEF IInv, Answer
    <3>2. SeenOK'
      BY <3>1, <1>5 DEF IInv, SeenOK
    <3>3. erase'.img = Head(todo) /\ erase'.current = 1 /\ erase'.last = NPages
      BY <3>1, <1>1, <1>2
    <3>4. \A p \in Pages : ~(p < erase'.current \/ (p = erase'.current /\ ~busy'))
      BY <3>3, <1>1 DEF Pages
    <3>. QED BY <3>1, <3>2, <3>3, <3>4, <1>5 DEF Progress
  <2>. QED BY <2>1, <2>2
<1>. QED BY <1>1, <1>4, <1>6, <1>7, ServiceFlag DEF Rest

\* The program asks whether the erase is done; the next sector starts.
LEMMA ErasePollStep == IInv /\ ErasePoll => Rest'
<1>. SUFFICES ASSUME IInv, ErasePoll PROVE Rest'
  OBVIOUS
<1>1. /\ Serving /\ pc \in Firmware /\ UNCHANGED hostVars /\ reqs # <<>>
      /\ Head(reqs).op = "poll" /\ UNCHANGED <<pc, flag, left, restarted>> /\ flash' = flash
  BY DEF ErasePoll, Serving, Firmware, flashVars, histVars
<1>2. Head(reqs) = reqs[1] /\ reqs[1].op = "poll"
  BY <1>1, HeadRequest DEF IInv
<1>3. step' = step /\ todo' = todo /\ seen' = seen
  BY <1>1 DEF hostVars
<1>4. PICK o \in {"done", "not_done"} :
        /\ Reply([op |-> o])
        /\ \/ busy /\ o = "not_done" /\ erase' = erase /\ busy' = busy
           \/ ~busy /\ o = "done" /\ erase' = erase /\ busy' = busy /\ erase.current = erase.last
           \/ /\ ~busy /\ o = "not_done" /\ busy' = TRUE /\ erase.current # erase.last
              /\ erase' = [erase EXCEPT !.current = @ + 1]
  BY DEF ErasePoll, erase_done, IInv, Types
<1>. DEFINE r == [op |-> o]
<1>5. r \in Acks \cup Data /\ r # None /\ r.op = o /\ Reply(r)
  BY <1>4 DEF Acks, None
<1>. HIDE DEF r
<1>6. step.op # "idle" /\ step.op = reqs[1].op => Expected(r)
  BY <1>2, <1>5 DEF Expected
<1>7. /\ Queue' /\ Answer' /\ (reqs' # <<>> => reqs'[1].op = "hello")
      /\ \/ step.op \in {"idle", "hello"}
         \/ step.op = "poll" /\ rep' = r
  BY <1>1, <1>2, <1>5, <1>6, Served
<1>8. Types /\ Quiet /\ erase.current \in Nat /\ erase \in [img : Images, current : 0 .. NPages, last : {0, NPages}]
  BY Fields, PageNumbers DEF IInv, Types
<1>9. busy' => /\ erase'.current >= 1 /\ erase'.img = erase.img /\ erase'.last = erase.last
               /\ erase'.current = erase.current \/ (erase'.current = erase.current + 1 /\ ~busy)
  <2>1. CASE erase' = erase /\ busy' = busy
    BY <2>1, <1>8 DEF Quiet
  <2>2. CASE ~busy /\ erase' = [erase EXCEPT !.current = @ + 1]
    <3>1. erase'.current = erase.current + 1 /\ erase'.img = erase.img /\ erase'.last = erase.last
      BY <2>2, <1>8
    <3>. QED BY <3>1, <2>2, <1>8
  <2>. QED BY <2>1, <2>2, <1>4
<1>10. Quiet'
  BY <1>1, <1>3, <1>4, <1>5, <1>7, <1>8, <1>9 DEF Quiet
<1>11. SeenOK' /\ Progress'
  <2>1. CASE step.op \in {"idle", "hello"}
    BY <1>1, <2>1, NotAtImage
  <2>2. CASE step.op \notin {"idle", "hello"}
    <3>1. step.op = "poll" /\ rep'.op = o
      BY <2>2, <1>5, <1>7
    <3>2. SeenOK'
      BY <3>1, <1>3 DEF IInv, SeenOK
    <3>3. ASSUME ~restarted'
          PROVE  /\ erase'.img = Head(todo) /\ erase'.current >= 1 /\ erase'.last = NPages
                 /\ \A p \in Pages : p < erase'.current \/ (p = erase'.current /\ ~busy') =>
                      flash'[Head(todo)][p] = "erased"
                 /\ o = "done" => erase'.current = NPages
      <4>1. /\ erase.img = Head(todo) /\ erase.current >= 1 /\ erase.last = NPages
            /\ \A p \in Pages : p < erase.current \/ (p = erase.current /\ ~busy) =>
                      flash[Head(todo)][p] = "erased"
        BY <1>1, <3>1, <3>3 DEF IInv, Progress
      <4>2. CASE erase' = erase
        BY <4>1, <4>2, <1>1, <1>4
      <4>3. CASE erase' # erase
        <5>1. ~busy /\ erase'.current = erase.current + 1 /\ busy' /\ o # "done"
              /\ erase'.img = erase.img /\ erase'.last = erase.last
          BY <4>3, <1>4, <1>8
        <5>2. ASSUME NEW p \in Pages, p < erase'.current PROVE flash'[Head(todo)][p] = "erased"
          BY <5>1, <5>2, <4>1, <1>1, <1>8, PageNumbers
        <5>. QED BY <5>1, <5>2, <4>1, <1>8
      <4>. QED BY <4>2, <4>3
    <3>. QED BY <3>1, <3>2, <3>3, <1>3 DEF Progress
  <2>. QED BY <2>1, <2>2
<1>. QED BY <1>1, <1>7, <1>10, <1>11, ServiceFlag DEF Rest

\* A page is written.
LEMMA ProgramStep == IInv /\ Program => Rest'
<1>. SUFFICES ASSUME IInv, Program PROVE Rest'
  OBVIOUS
<1>. DEFINE r == [op |-> "wrote"]
<1>1. /\ Serving /\ pc \in Firmware /\ Reply(r) /\ UNCHANGED hostVars /\ reqs # <<>>
      /\ Head(reqs).op = "write" /\ UNCHANGED <<pc, flag, left, restarted>> /\ ~busy
      /\ erase' = erase /\ busy' = busy
      /\ flash' = [flash EXCEPT ![Head(reqs).img][Head(reqs).page] = programmed(@)]
  BY DEF Program, Serving, Firmware, devVars, histVars
<1>2. /\ reqs[1].op = "write" /\ Head(reqs) = reqs[1] /\ r \in Acks \cup Data /\ r # None
      /\ r.op = "wrote"
  BY <1>1, HeadRequest DEF IInv, Acks, None
<1>. HIDE DEF r
<1>3. step.op # "idle" /\ step.op = reqs[1].op => Expected(r)
  BY <1>2 DEF Expected
<1>4. /\ Queue' /\ Answer' /\ (reqs' # <<>> => reqs'[1].op = "hello")
      /\ \/ step.op \in {"idle", "hello"}
         \/ /\ step.op = "write" /\ step.page = reqs[1].page
            /\ todo # <<>> => reqs[1].img = Head(todo)
  BY <1>1, <1>2, <1>3, Served
<1>5. step' = step /\ todo' = todo /\ seen' = seen
  BY <1>1 DEF hostVars
<1>6. Quiet'
  BY <1>1, <1>4, <1>5 DEF Quiet
<1>7. SeenOK' /\ Progress'
  <2>1. CASE step.op \in {"idle", "hello"}
    BY <1>1, <2>1, NotAtImage
  <2>2. CASE step.op \notin {"idle", "hello"}
    <3>1. /\ step.op = "write" /\ todo # <<>> /\ reqs[1].img = Head(todo)
          /\ reqs[1].page = step.page
      BY <2>2, <1>4 DEF IInv, Answer
    <3>2. SeenOK'
      BY <3>1, <1>5 DEF IInv, SeenOK
    <3>3. Types /\ Head(todo) \in Images /\ step.page \in Pages /\ step.page \in Nat
      BY <3>1, Fields DEF IInv
    <3>4. PICK c \in Contents : c = programmed(flash[Head(todo)][step.page])
      BY DEF programmed, Contents
    <3>5. flash' = [flash EXCEPT ![Head(todo)][step.page] = c]
      BY <3>1, <3>4, <1>1, <1>2
    <3>6. /\ flash'[Head(todo)][step.page] = c
          /\ \A q \in Pages : q # step.page => flash'[Head(todo)][q] = flash[Head(todo)][q]
      <4>1. PICK i \in Images, n \in Pages : i = Head(todo) /\ n = step.page
        BY <3>3
      <4>2. flash' = [flash EXCEPT ![i][n] = c]
        BY <3>5, <4>1
      <4>3. /\ flash'[i][n] = c
            /\ \A j \in Images, q \in Pages : j # i \/ q # n => flash'[j][q] = flash[j][q]
        <5>1. Types /\ i \in Images /\ n \in Pages /\ c \in Contents
          BY <3>3, <3>4, <4>1
        <5>. QED BY <5>1, <4>2, FlashPut
      <4>. QED BY <4>1, <4>3
    <3>7. flash[Head(todo)][step.page] \in {"erased", "new"} => c = "new"
      BY <3>4 DEF programmed
    <3>8. ASSUME ~restarted', NEW p \in Pages
          PROVE  /\ p < step.page => flash'[Head(todo)][p] = "new"
                 /\ p = step.page => flash'[Head(todo)][p] = "new"
                 /\ p > step.page => flash'[Head(todo)][p] = "erased"
      <4>1. /\ p < step.page => flash[Head(todo)][p] = "new"
            /\ p = step.page => flash[Head(todo)][p] \in {"erased", "new"}
            /\ p > step.page => flash[Head(todo)][p] = "erased"
        BY <3>8, <3>1, <1>1 DEF IInv, Progress
      <4>2. p \in Nat
        BY PageNumbers
      <4>. QED BY <4>1, <4>2, <3>3, <3>6, <3>7
    <3>. QED BY <3>1, <3>2, <3>8, <1>5 DEF Progress
  <2>. QED BY <2>1, <2>2
<1>. QED BY <1>1, <1>4, <1>6, <1>7, ServiceFlag DEF Rest

\* A page is read.
LEMMA ReadPageStep == IInv /\ ReadPage => Rest'
<1>. SUFFICES ASSUME IInv, ReadPage PROVE Rest'
  OBVIOUS
<1>. DEFINE d == flash[reqs[1].img][reqs[1].page]
            r == [op |-> "read", data |-> d]
<1>1. /\ Serving /\ pc \in Firmware /\ UNCHANGED hostVars /\ reqs # <<>>
      /\ Head(reqs).op = "read" /\ UNCHANGED <<pc, flag, left, restarted>>
      /\ erase' = erase /\ busy' = busy /\ flash' = flash
  BY DEF ReadPage, Serving, Firmware, devVars, histVars, flashVars
<1>2. /\ reqs[1].op = "read" /\ Head(reqs) = reqs[1] /\ reqs[1].img \in Images
      /\ reqs[1].page \in Pages
  BY <1>1, HeadRequest DEF IInv
<1>3. ~busy
  BY <1>1, <1>2 DEF IInv, Quiet
<1>4. Reply(r)
  BY <1>2, <1>3 DEF ReadPage
<1>5. d \in Contents
  BY <1>2, Fields DEF IInv
<1>6. r \in Acks \cup Data /\ r # None /\ r.op = "read" /\ r.data = d
  BY <1>5 DEF Data, None
<1>. HIDE DEF r
<1>7. step.op # "idle" /\ step.op = reqs[1].op => Expected(r)
  BY <1>2, <1>6 DEF Expected
<1>8. /\ Queue' /\ Answer' /\ (reqs' # <<>> => reqs'[1].op = "hello")
      /\ \/ step.op \in {"idle", "hello"}
         \/ /\ step.op = "read" /\ step.page = reqs[1].page /\ rep' = r
            /\ todo # <<>> => reqs[1].img = Head(todo)
  BY <1>1, <1>2, <1>4, <1>6, <1>7, Served
<1>9. step' = step /\ todo' = todo /\ seen' = seen
  BY <1>1 DEF hostVars
<1>10. Quiet'
  BY <1>1, <1>3, <1>8, <1>9 DEF Quiet
<1>11. SeenOK' /\ Progress'
  <2>1. CASE step.op \in {"idle", "hello"}
    BY <1>1, <2>1, NotAtImage
  <2>2. CASE step.op \notin {"idle", "hello"}
    <3>1. /\ step.op = "read" /\ todo # <<>> /\ reqs[1].img = Head(todo)
          /\ reqs[1].page = step.page /\ rep' = r
      BY <2>2, <1>8 DEF IInv, Answer
    <3>2. rep'.data = flash[Head(todo)][step.page]
      BY <3>1, <1>6
    <3>3. SeenOK'
      BY <3>1, <3>2, <1>1, <1>9 DEF IInv, SeenOK
    <3>. QED BY <3>1, <3>3, <1>1, <1>9 DEF IInv, Progress
  <2>. QED BY <2>1, <2>2
<1>. QED BY <1>1, <1>8, <1>10, <1>11, ServiceFlag DEF Rest

\* The flash is through with a sector.
LEMMA ErasedStep == IInv /\ Erased => Rest'
<1>. SUFFICES ASSUME IInv, Erased PROVE Rest'
  OBVIOUS
<1>1. /\ busy /\ busy' = FALSE /\ UNCHANGED hostVars /\ UNCHANGED <<pc, flag, left, restarted>>
      /\ erase' = erase /\ reqs' = reqs /\ rep' = rep
      /\ flash' = [flash EXCEPT ![erase.img][erase.current] = "erased"]
  BY DEF Erased, histVars, netVars
<1>2. /\ run' = run /\ step' = step /\ todo' = todo /\ seen' = seen /\ wait' = wait
  BY <1>1 DEF hostVars
<1>3. pc \in Firmware /\ erase.current >= 1 /\ step.op \notin {"write", "read", "reset"}
  BY <1>1 DEF IInv, Quiet
<1>4. Types /\ erase.img \in Images /\ erase.current \in Pages
  BY <1>3, Fields, PageNumbers DEF IInv, Pages
<1>5. /\ flash'[erase.img][erase.current] = "erased"
      /\ \A q \in Pages : q # erase.current => flash'[erase.img][q] = flash[erase.img][q]
  <2>1. "erased" \in Contents
    BY DEF Contents
  <2>2. /\ flash'[erase.img][erase.current] = "erased"
        /\ \A j \in Images, q \in Pages :
             j # erase.img \/ q # erase.current => flash'[j][q] = flash[j][q]
    BY <1>1, <1>4, <2>1, FlashPut
  <2>. QED BY <2>2, <1>4
<1>6. Queue' /\ Answer'
  BY <1>1, <1>2 DEF IInv, Queue, Answer, Expected
<1>7. Quiet' /\ SeenOK'
  BY <1>1, <1>2, <1>3 DEF IInv, Quiet, SeenOK
<1>8. Progress'
  <2>1. ASSUME ~restarted', step.op = "poll" \/ (step.op = "erase" /\ rep # None)
        PROVE  /\ erase.img = Head(todo) /\ erase.current >= 1 /\ erase.last = NPages
               /\ \A p \in Pages : p < erase.current \/ p = erase.current =>
                    flash'[Head(todo)][p] = "erased"
               /\ rep.op = "done" => erase.current = NPages
    <3>1. /\ erase.img = Head(todo) /\ erase.current >= 1 /\ erase.last = NPages
          /\ \A p \in Pages : p < erase.current => flash[Head(todo)][p] = "erased"
          /\ rep.op = "done" => erase.current = NPages
      BY <2>1, <1>1 DEF IInv, Progress
    <3>2. \A p \in Pages : p < erase.current => p # erase.current
      BY <1>4, PageNumbers
    <3>. QED BY <3>1, <3>2, <1>5
  <2>. QED BY <2>1, <1>1, <1>2, <1>3 DEF Progress
<1>. QED BY <1>1, <1>3, <1>6, <1>7, <1>8, ServiceFlag DEF Rest

-----------------------------------------------------------------------------
(* The steps of the program, and the network.                              *)

\* The program does not touch the start of the device.
LEMMA HostFlag ==
  ASSUME IInv, UNCHANGED <<flashVars, devVars, left>>
  PROVE  FlagOK'
BY DEF IInv, FlagOK, Whole, flashVars, devVars

\* The program starts.
LEMMA StartRunStep == IInv /\ StartRun => Rest'
<1>. SUFFICES ASSUME IInv, StartRun PROVE Rest'
  OBVIOUS
<1>1. /\ run' = run + 1 /\ todo' # <<>> /\ step' = [op |-> "hello", page |-> 1]
      /\ seen' = {} /\ rep' = None /\ verdict' = "none" /\ reqs' = reqs /\ left' = left
      /\ UNCHANGED <<flashVars, devVars>>
  BY DEF StartRun
<1>2. pc' = pc /\ busy' = busy /\ erase' = erase
  BY <1>1 DEF devVars
<1>3. step'.op = "hello" /\ rep'.op = "none"
  BY <1>1, Replies
<1>4. Queue'
  <2>1. ASSUME NEW i \in 1 .. Len(reqs)
        PROVE  reqs[i].run <= run' /\ reqs[i].run # run' /\ (i > 1 => reqs[i].op = "hello")
    <3>1. reqs \in Seq(Requests) /\ run \in Nat
      BY DEF IInv, Types
    <3>2. reqs[i] \in Requests
      BY <3>1
    <3>3. reqs[i].run \in Nat
      BY <3>2 DEF Requests
    <3>4. reqs[i].run <= run /\ (i > 1 => reqs[i].op = "hello")
      BY DEF IInv, Queue
    <3>. QED BY <3>1, <3>3, <3>4, <1>1
  <2>. QED BY <2>1, <1>1, <1>3 DEF Queue
<1>5. Answer'
  BY <1>1 DEF Answer
<1>6. Quiet'
  BY <1>1, <1>2, <1>3 DEF IInv, Quiet
<1>7. SeenOK' /\ Progress' /\ FailsOnlyAfterRestart'
  BY <1>1, <1>3 DEF SeenOK, Progress, FailsOnlyAfterRestart
<1>. QED BY <1>1, <1>4, <1>5, <1>6, <1>7, HostFlag DEF Rest

\* The program sends a request: none of its own is on its way, and after the
\* first none at all.
LEMMA SendRequestStep == IInv /\ SendRequest => Rest'
<1>. SUFFICES ASSUME IInv, SendRequest PROVE Rest'
  OBVIOUS
<1>. DEFINE q == [op |-> step.op, page |-> step.page, run |-> run,
                  img |-> IF todo = <<>> THEN "fpga" ELSE Head(todo)]
<1>1. /\ step.op # "idle" /\ ~wait /\ wait' = TRUE /\ reqs' = Append(reqs, q)
      /\ rep' = rep /\ run' = run /\ todo' = todo /\ step' = step /\ seen' = seen
      /\ verdict' = verdict /\ UNCHANGED <<flashVars, devVars>> /\ left' = left
      /\ restarted' = restarted
  BY DEF SendRequest, histVars
<1>2. /\ q.op = step.op /\ q.page = step.page /\ q.run = run
      /\ todo # <<>> => q.img = Head(todo)
  OBVIOUS
<1>. HIDE DEF q
<1>3. flash' = flash /\ pc' = pc /\ busy' = busy /\ erase' = erase
  BY <1>1 DEF devVars, flashVars
<1>4. rep = None
  BY <1>1 DEF IInv, Answer
<1>5. reqs \in Seq(Requests) /\ run \in Nat /\ Len(reqs) \in Nat
  BY DEF IInv, Types
<1>6. \A i \in 1 .. Len(reqs) : reqs[i].run # run
  BY <1>1 DEF IInv, Queue
<1>7. step.op # "hello" => Len(reqs) = 0
  <2>1. ASSUME step.op # "hello" PROVE 1 \notin 1 .. Len(reqs)
    BY <2>1, <1>1, <1>6 DEF IInv, Queue
  <2>. QED BY <2>1, <1>5
<1>8. /\ Len(reqs') = Len(reqs) + 1 /\ reqs'[Len(reqs) + 1] = q
      /\ \A i \in 1 .. Len(reqs) : reqs'[i] = reqs[i]
  <2>1. reqs' = Append(reqs, q)
    BY <1>1
  <2>. QED BY <2>1, <1>5
<1>9. Queue'
  <2>1. ASSUME NEW i \in 1 .. Len(reqs')
        PROVE  /\ reqs'[i].run <= run' /\ (i > 1 => reqs'[i].op = "hello")
               /\ step'.op # "idle" /\ reqs'[i].run = run' =>
                    /\ i = Len(reqs') /\ wait' /\ rep' = None
                    /\ reqs'[i].op = step'.op /\ reqs'[i].page = step'.page
                    /\ todo' # <<>> => reqs'[i].img = Head(todo')
               /\ step'.op \notin {"idle", "hello"} => i = 1 /\ reqs'[i].run = run'
    <3>1. CASE i \in 1 .. Len(reqs)
      <4>1. reqs'[i] = reqs[i] /\ reqs[i].run # run /\ step.op = "hello"
        BY <3>1, <1>5, <1>6, <1>7, <1>8
      <4>2. reqs[i].run <= run /\ (i > 1 => reqs[i].op = "hello")
        BY <3>1 DEF IInv, Queue
      <4>. QED BY <4>1, <4>2, <1>1
    <3>2. CASE i = Len(reqs) + 1
      <4>1. reqs'[i] = q /\ i = Len(reqs')
        BY <3>2, <1>8
      <4>2. step.op # "hello" => i = 1
        BY <3>2, <1>7
      <4>3. run <= run /\ (i > 1 => step.op = "hello")
        BY <4>2, <1>5
      <4>. QED BY <4>1, <4>2, <4>3, <1>1, <1>2, <1>4
    <3>. QED BY <3>1, <3>2, <1>5, <1>8
  <2>. QED BY <2>1 DEF Queue
<1>10. Answer'
  BY <1>1, <1>4 DEF IInv, Answer
<1>11. Quiet'
  <2>1. ASSUME reqs'[1].op \in {"write", "read", "reset"} PROVE ~busy
    <3>1. CASE Len(reqs) = 0
      <4>1. reqs'[1] = q
        BY <3>1, <1>8
      <4>. QED BY <4>1, <2>1, <1>2 DEF IInv, Quiet
    <3>2. CASE Len(reqs) # 0
      <4>1. reqs'[1] = reqs[1] /\ reqs # <<>>
        BY <3>2, <1>5, <1>8
      <4>. QED BY <4>1, <2>1 DEF IInv, Quiet
    <3>. QED BY <3>1, <3>2
  <2>. QED BY <2>1, <1>1, <1>3 DEF IInv, Quiet
<1>12. SeenOK' /\ FailsOnlyAfterRestart'
  BY <1>1, <1>3 DEF IInv, SeenOK, FailsOnlyAfterRestart
<1>13. Progress'
  BY <1>1, <1>3 DEF IInv, Progress
<1>. QED BY <1>1, <1>9, <1>10, <1>11, <1>12, <1>13, HostFlag DEF Rest

\* The program ends.
LEMMA Aborts ==
  ASSUME IInv, Abort, rep' = None, UNCHANGED <<flashVars, devVars, reqs, run, left>>
  PROVE  Queue' /\ Answer' /\ Quiet' /\ SeenOK' /\ Progress' /\ FlagOK'
<1>1. /\ step'.op = "idle" /\ seen' = {} /\ rep'.op = "none" /\ reqs' = reqs /\ run' = run
      /\ busy' = busy /\ pc' = pc /\ erase' = erase
  BY Replies DEF Abort, Idle, devVars
<1>2. Queue'
  BY <1>1 DEF IInv, Queue
<1>3. Answer' /\ Quiet' /\ SeenOK' /\ Progress'
  BY <1>1 DEF IInv, Answer, Quiet, SeenOK, Progress
<1>. QED BY <1>2, <1>3, HostFlag

\* No answer, or the user stops the program.
LEMMA TimeoutStep == IInv /\ Timeout => Rest'
<1>. SUFFICES ASSUME IInv, Timeout PROVE Rest'
  OBVIOUS
<1>1. /\ Abort /\ rep' = None /\ UNCHANGED <<flashVars, devVars, reqs, run, left>>
      /\ verdict' = verdict /\ restarted' = restarted
  BY DEF Timeout, histVars
<1>. QED BY <1>1, Aborts DEF Rest, IInv, FailsOnlyAfterRestart

\* A request or a reply is lost.
LEMMA LosePacketStep == IInv /\ LosePacket => Rest'
<1>. SUFFICES ASSUME IInv, LosePacket PROVE Rest'
  OBVIOUS
<1>1. /\ UNCHANGED hostVars /\ UNCHANGED <<flashVars, devVars, left>> /\ restarted' = restarted
      /\ \/ reqs # <<>> /\ reqs' = Tail(reqs) /\ rep' = rep
         \/ rep' = None /\ reqs' = reqs
  BY DEF LosePacket
<1>2. /\ flash' = flash /\ pc' = pc /\ busy' = busy /\ erase' = erase /\ run' = run
      /\ todo' = todo /\ step' = step /\ seen' = seen /\ wait' = wait /\ verdict' = verdict
  BY <1>1 DEF flashVars, devVars, hostVars
<1>3. /\ Queue' /\ Answer' /\ Quiet'
      /\ rep' = rep \/ (rep' = None /\ rep'.op = "none")
  <2>1. CASE reqs # <<>> /\ reqs' = Tail(reqs) /\ rep' = rep
    <3>1. Queue' /\ (reqs' # <<>> => reqs'[1].op = "hello")
      BY <2>1, <1>1, Dropped DEF IInv
    <3>2. Answer'
      BY <2>1, <1>2 DEF IInv, Answer
    <3>3. Quiet'
      BY <2>1, <3>1, <1>2 DEF IInv, Quiet
    <3>. QED BY <3>1, <3>2, <3>3, <2>1
  <2>2. CASE rep' = None /\ reqs' = reqs
    <3>1. rep'.op = "none"
      BY <2>2, Replies
    <3>2. Queue'
      BY <2>2, <1>2 DEF IInv, Queue
    <3>3. Answer' /\ Quiet'
      BY <2>2, <3>1, <1>2 DEF IInv, Answer, Quiet
    <3>. QED BY <3>1, <3>2, <3>3, <2>2
  <2>. QED BY <2>1, <2>2, <1>1
<1>4. SeenOK' /\ FailsOnlyAfterRestart'
  BY <1>1, <1>2, <1>3 DEF IInv, SeenOK, FailsOnlyAfterRestart
<1>5. Progress'
  BY <1>1, <1>2, <1>3 DEF IInv, Progress
<1>. QED BY <1>1, <1>3, <1>4, <1>5, HostFlag DEF Rest

-----------------------------------------------------------------------------
(* A reply arrives at the program.                                         *)

\* What the program has read back with the page that arrives.
ReadBack == seen \cup {<<step.page, rep.data>>}

\* What was read back is in the flash, the page that arrives included.
LEMMA ReadBackIsWritten ==
  ASSUME IInv, step.op = "read", rep # None,
         NEW p \in Pages, <<p, "new">> \in ReadBack
  PROVE  flash[Head(todo)][p] = "new"
<1>1. rep.data = flash[Head(todo)][step.page]
  BY DEF IInv, SeenOK
<1>2. CASE <<p, "new">> \in seen
  BY <1>2 DEF IInv, SeenOK
<1>3. CASE <<p, "new">> = <<step.page, rep.data>>
  <2>1. p = step.page /\ rep.data = "new"
    BY <1>3
  <2>. QED BY <2>1, <1>1
<1>. QED BY <1>2, <1>3 DEF ReadBack

\* Without a restart all that was read back is new.
LEMMA ReadBackIsNew ==
  ASSUME IInv, step.op = "read", rep # None, ~restarted,
         NEW p \in Pages, p <= step.page
  PROVE  <<p, "new">> \in ReadBack
<1>1. /\ rep.data = flash[Head(todo)][step.page] /\ step.page \in Pages /\ step.page \in Nat
      /\ p \in Nat
  BY Fields, PageNumbers DEF IInv, SeenOK
<1>2. rep.data = "new" /\ (p < step.page => <<p, "new">> \in seen)
  BY <1>1 DEF IInv, Progress
<1>3. p < step.page \/ p = step.page
  BY <1>1
<1>. QED BY <1>2, <1>3 DEF ReadBack

\* A reply either ends the program, or is expected and the last page has been
\* verified if it was that.
LEMMA Received ==
  ASSUME IInv, Receive
  PROVE  /\ rep # None /\ rep' = None /\ UNCHANGED <<flashVars, devVars, reqs, run, opts, histVars>>
         /\ \/ /\ Abort
               /\ verdict' \in {"none", "failed"}
               /\ verdict' = "failed" => /\ step.op = "read" /\ step.page = NPages
                                         /\ ~verified(ReadBack)
            \/ /\ Expected(rep) /\ reqs = <<>> /\ todo # <<>> /\ wait' = FALSE
               /\ verdict' \in {"none", "ok"}
               /\ verdict' = "ok" => step.op = "read" /\ step.page = NPages
               /\ \/ /\ step.op = "read" /\ step.page = NPages /\ verified(ReadBack)
                     /\ seen' = {} /\ ImageDone
                  \/ /\ step.op = "poll" /\ opts.erase /\ rep.op = "done"
                     /\ seen' = seen /\ ImageDone
                  \/ /\ ~(step.op = "read" /\ step.page = NPages)
                     /\ seen' = IF step.op = "read" THEN ReadBack ELSE seen
                     /\ SameImage
<1>1. rep # None /\ rep' = None /\ UNCHANGED <<flashVars, devVars, reqs, run, opts, histVars>>
  BY DEF Receive
<1>2. step.op = "idle" => ~Expected(rep)
  BY DEF Expected
<1>3. Expected(rep) => /\ (step.op = "read" => rep.op = "read")
                       /\ (rep.op = "done" => step.op = "poll")
                       /\ step.op \notin {"idle", "reset"}
  BY DEF Expected
<1>4. Expected(rep) => reqs = <<>> /\ todo # <<>>
  BY <1>1, <1>2, <1>3 DEF IInv, Answer
<1>. DEFINE s == IF step.op = "read" /\ rep.op = "read" THEN ReadBack ELSE seen
            all == step.op = "read" /\ step.page = NPages
<1>5. /\ IF ~Expected(rep) \/ (all /\ ~verified(s)) THEN Abort
         ELSE /\ wait' = FALSE
              /\ seen' = IF all THEN {} ELSE s
              /\ IF all \/ (opts.erase /\ rep.op = "done") THEN ImageDone ELSE SameImage
      /\ verdict' = IF Expected(rep) /\ all THEN IF verified(s) THEN "ok" ELSE "failed" ELSE "none"
  BY DEF Receive, ReadBack
<1>6. Expected(rep) => s = IF step.op = "read" THEN ReadBack ELSE seen
  BY <1>3
<1>7. CASE ~Expected(rep)
  BY <1>1, <1>5, <1>7
<1>8. CASE Expected(rep) /\ all
  <2>1. s = ReadBack
    BY <1>6, <1>8
  <2>. QED BY <1>1, <1>4, <1>5, <1>8, <2>1
<1>9. CASE Expected(rep) /\ ~all
  <2>1. verdict' = "none" /\ wait' = FALSE /\ seen' = s
    BY <1>5, <1>9
  <2>2. CASE opts.erase /\ rep.op = "done"
    BY <1>1, <1>3, <1>4, <1>5, <1>6, <1>9, <2>1, <2>2
  <2>3. CASE ~(opts.erase /\ rep.op = "done")
    BY <1>1, <1>4, <1>5, <1>6, <1>9, <2>1, <2>3
  <2>. QED BY <2>2, <2>3
<1>. QED BY <1>7, <1>8, <1>9

\* The next request for the same image.
LEMMA NextRequest ==
  ASSUME Types, Expected(rep), SameImage, ~(step.op = "read" /\ step.page = NPages)
  PROVE  /\ todo' = todo
         /\ step'.op \in Ops /\ step'.page \in Pages /\ step' \in Steps
         /\ \/ step.op = "hello" /\ step'.op = "erase"
            \/ step.op = "erase" /\ step'.op = "poll"
            \/ step.op = "poll" /\ rep.op = "not_done" /\ step'.op = "poll"
            \/ step.op = "poll" /\ rep.op = "done" /\ step'.op = "write" /\ step'.page = 1
            \/ /\ step.op \in {"write", "read"} /\ step.page < NPages
               /\ step'.op = step.op /\ step'.page = step.page + 1
            \/ step.op = "write" /\ step.page = NPages /\ step'.op = "read" /\ step'.page = 1
<1>1. step \in Steps /\ step.page \in 1 .. NPages /\ NPages \in Nat /\ 1 \in Pages
  BY Fields, PageNumbers DEF Types, Pages
<1>2. \/ step.op = "hello" /\ step' = [op |-> "erase", page |-> 1]
      \/ step.op = "erase" /\ step' = [op |-> "poll", page |-> 1]
      \/ step.op = "poll" /\ rep.op = "not_done" /\ step' = step
      \/ step.op = "poll" /\ rep.op = "done" /\ step' = [op |-> "write", page |-> 1]
      \/ /\ step.op \in {"write", "read"} /\ step.page < NPages
         /\ step' = [step EXCEPT !.page = @ + 1]
      \/ step.op = "write" /\ step.page = NPages /\ step' = [op |-> "read", page |-> 1]
  BY DEF SameImage
<1>3. todo' = todo
  BY DEF SameImage
<1>4. \A o \in Ops : [op |-> o, page |-> 1] \in Steps
  BY <1>1 DEF Steps
<1>5. CASE \E o \in Ops : step' = [op |-> o, page |-> 1]
  BY <1>1, <1>2, <1>3, <1>4, <1>5
<1>6. CASE step.op = "poll" /\ rep.op = "not_done" /\ step' = step
  BY <1>1, <1>3, <1>6 DEF Ops, Pages
<1>7. CASE /\ step.op \in {"write", "read"} /\ step.page < NPages
           /\ step' = [step EXCEPT !.page = @ + 1]
  <2>1. step'.op = step.op /\ step'.page = step.page + 1
    BY <1>1, <1>7 DEF Steps
  <2>2. step.page + 1 \in Pages
    BY <1>1, <1>7 DEF Pages
  <2>3. step' \in Steps
    BY <2>2, <1>1, <1>7 DEF Steps
  <2>. QED BY <2>1, <2>2, <2>3, <1>3, <1>7 DEF Ops
<1>. QED BY <1>2, <1>5, <1>6, <1>7 DEF Ops

\* The next image, the reset, or the end.
LEMMA NextImage ==
  ASSUME Types, todo # <<>>, ImageDone
  PROVE  /\ todo' \in Seq(Images) /\ step' \in Steps
         /\ \/ step'.op = "erase" /\ todo' # <<>>
            \/ step'.op = "reset" /\ ~opts.erase
            \/ step'.op = "idle"
<1>1. todo \in Seq(Images) /\ 1 \in Pages
  BY PageNumbers DEF Types
<1>2. todo' = Tail(todo)
  BY DEF ImageDone
<1>3. todo' \in Seq(Images) /\ Len(todo') = Len(todo) - 1 /\ Len(todo) \in Nat
  BY <1>1, <1>2
<1>4. Len(todo) > 1 => todo' # <<>>
  BY <1>3
<1>5. step' = IF Len(todo) > 1 THEN [op |-> "erase", page |-> 1]
              ELSE IF opts.reset /\ ~opts.erase THEN [op |-> "reset", page |-> 1] ELSE Idle
  BY DEF ImageDone
<1>6. CASE Len(todo) > 1
  BY <1>1, <1>3, <1>4, <1>5, <1>6 DEF Steps, Ops
<1>7. CASE ~(Len(todo) > 1)
  <2>1. \/ step' = [op |-> "reset", page |-> 1] /\ ~opts.erase
        \/ step' = [op |-> "idle", page |-> 1]
    BY <1>5, <1>7 DEF Idle
  <2>. QED BY <2>1, <1>1, <1>3 DEF Steps, Ops
<1>. QED BY <1>6, <1>7

\* A reply arrives: the program goes on or ends.
LEMMA ReceiveStep == IInv /\ Receive => Rest'
<1>. SUFFICES ASSUME IInv, Receive PROVE Rest'
  OBVIOUS
<1>0. Types /\ Queue /\ Answer /\ Quiet /\ SeenOK /\ Progress
  BY DEF IInv
<1>1. /\ rep # None /\ rep' = None /\ UNCHANGED <<flashVars, devVars, reqs, run, left>>
      /\ restarted' = restarted /\ rep'.op = "none"
  BY Received, Replies DEF histVars
<1>2. flash' = flash /\ pc' = pc /\ busy' = busy /\ erase' = erase
  BY <1>1 DEF flashVars, devVars
<1>3. FailsOnlyAfterRestart'
  <2>1. ASSUME verdict' = "failed", ~restarted PROVE FALSE
    <3>1. step.op = "read" /\ step.page = NPages /\ ~verified(ReadBack)
      BY <2>1, Received
    <3>2. \A p \in Pages : p <= step.page
      BY <3>1 DEF Pages
    <3>3. verified(ReadBack)
      BY <3>1, <3>2, <2>1, <1>1, ReadBackIsNew DEF verified
    <3>. QED BY <3>1, <3>3
  <2>. QED BY <2>1, <1>1 DEF FailsOnlyAfterRestart
<1>4. CASE Abort
  BY <1>1, <1>3, <1>4, Aborts DEF Rest
<1>5. CASE ~Abort
  <2>1. /\ Expected(rep) /\ reqs = <<>> /\ todo # <<>>
        /\ \/ /\ step.op = "read" /\ seen' = {} /\ ImageDone
           \/ /\ step.op = "poll" /\ opts.erase /\ seen' = seen /\ ImageDone
           \/ /\ ~(step.op = "read" /\ step.page = NPages)
              /\ seen' = IF step.op = "read" THEN ReadBack ELSE seen
              /\ SameImage
    BY <1>5, Received
  <2>2. reqs' = <<>> /\ 1 .. Len(reqs') = {}
    BY <1>1, <2>1
  <2>3. Queue'
    BY <2>2 DEF Queue
  <2>4. CASE ImageDone /\ step.op \in {"read", "poll"} /\ seen' = {} /\ (step.op = "poll" => opts.erase)
    <3>1. \/ step'.op = "erase" /\ todo' # <<>>
          \/ step'.op = "reset" /\ step.op = "read"
          \/ step'.op = "idle"
      BY <2>1, <2>4, <1>0, NextImage
    <3>2. Answer' /\ SeenOK' /\ Progress'
      BY <3>1, <2>4, <1>1 DEF Answer, SeenOK, Progress
    <3>3. Quiet'
      BY <3>1, <2>2, <1>0, <1>1, <1>2 DEF Quiet
    <3>. QED BY <2>3, <3>2, <3>3, <1>1, <1>3, HostFlag DEF Rest
  <2>5. CASE /\ SameImage /\ ~(step.op = "read" /\ step.page = NPages)
             /\ seen' = IF step.op = "read" THEN ReadBack ELSE seen
    <3>1. /\ todo' = todo /\ step'.op \in Ops /\ step'.page \in Pages /\ step'.page \in Nat
          /\ step.page \in Pages /\ step.page \in Nat
          /\ \/ step.op = "hello" /\ step'.op = "erase"
             \/ step.op = "erase" /\ step'.op = "poll"
             \/ step.op = "poll" /\ rep.op = "not_done" /\ step'.op = "poll"
             \/ step.op = "poll" /\ rep.op = "done" /\ step'.op = "write" /\ step'.page = 1
             \/ /\ step.op \in {"write", "read"} /\ step.page < NPages
                /\ step'.op = step.op /\ step'.page = step.page + 1
             \/ step.op = "write" /\ step.page = NPages /\ step'.op = "read" /\ step'.page = 1
      BY <2>1, <2>5, <1>0, NextRequest, Fields, PageNumbers
    <3>2. Answer'
      BY <3>1, <2>1, <1>1 DEF Answer
    <3>3. Quiet'
      BY <3>1, <2>2, <1>0, <1>1, <1>2 DEF Quiet
    <3>4. SeenOK'
      <4>1. CASE step.op # "read"
        <5>1. seen' = {}
          BY <4>1, <2>5, <1>0 DEF SeenOK
        <5>. QED BY <5>1, <1>1 DEF SeenOK
      <4>2. CASE step.op = "read"
        <5>1. seen' = ReadBack /\ step'.op = "read"
          BY <4>2, <2>5, <3>1
        <5>2. \A p \in Pages : <<p, "new">> \in seen' => flash'[Head(todo')][p] = "new"
          BY <5>1, <4>2, <3>1, <1>1, <1>2, ReadBackIsWritten
        <5>. QED BY <5>1, <5>2, <1>1 DEF SeenOK
      <4>. QED BY <4>1, <4>2
    <3>5. Progress'
      <4>. SUFFICES ASSUME ~restarted' PROVE Progress'
        BY DEF Progress
      <4>1. CASE step.op = "hello"
        BY <4>1, <3>1, <1>1 DEF Progress
      <4>2. CASE step'.op = "poll"
        <5>1. /\ erase.img = Head(todo) /\ erase.current >= 1 /\ erase.last = NPages
              /\ \A p \in Pages : p < erase.current \/ (p = erase.current /\ ~busy) =>
                   flash[Head(todo)][p] = "erased"
          BY <4>2, <3>1, <1>0, <1>1 DEF Progress
        <5>. QED BY <5>1, <4>2, <3>1, <1>1, <1>2 DEF Progress
      <4>3. CASE step.op = "poll" /\ step'.op = "write"
        <5>1. rep.op = "done" /\ step'.page = 1 /\ ~busy
          BY <4>3, <3>1, <1>0 DEF Quiet
        <5>2. \A p \in Pages : flash[Head(todo)][p] = "erased"
          <6>1. /\ erase.current = NPages
                /\ \A p \in Pages : p < erase.current \/ (p = erase.current /\ ~busy) =>
                     flash[Head(todo)][p] = "erased"
            BY <4>3, <5>1, <1>0, <1>1 DEF Progress
          <6>2. \A p \in Pages : p < NPages \/ p = NPages
            BY PageNumbers DEF Pages
          <6>. QED BY <6>1, <6>2, <5>1
        <5>3. \A p \in Pages : ~(p < 1)
          BY DEF Pages
        <5>. QED BY <4>3, <5>1, <5>2, <5>3, <3>1, <1>1, <1>2 DEF Progress
      <4>4. CASE step.op = "write"
        <5>1. ASSUME NEW p \in Pages
              PROVE  /\ p <= step.page => flash[Head(todo)][p] = "new"
                     /\ p > step.page => flash[Head(todo)][p] = "erased"
          <6>1. /\ p < step.page => flash[Head(todo)][p] = "new"
                /\ p = step.page => flash[Head(todo)][p] = "new"
                /\ p > step.page => flash[Head(todo)][p] = "erased"
            BY <4>4, <1>0, <1>1 DEF Progress
          <6>. QED BY <6>1, <3>1, PageNumbers
        <5>2. CASE step'.op = "write" /\ step'.page = step.page + 1
          <6>1. ASSUME NEW p \in Pages
                PROVE  /\ p < step'.page => flash'[Head(todo')][p] = "new"
                       /\ p = step'.page => flash'[Head(todo')][p] = "erased"
                       /\ p > step'.page => flash'[Head(todo')][p] = "erased"
            <7>1. p \in Nat
              BY PageNumbers
            <7>2. p < step.page + 1 => p <= step.page
              BY <7>1, <3>1
            <7>3. p = step.page + 1 \/ p > step.page + 1 => p > step.page
              BY <7>1, <3>1
            <7>. QED BY <5>1, <5>2, <7>2, <7>3, <3>1, <1>2
          <6>. QED BY <5>2, <6>1, <1>1 DEF Progress
        <5>3. CASE step'.op = "read" /\ step'.page = 1 /\ step.page = NPages
          <6>1. \A p \in Pages : ~(p < 1) /\ p <= NPages
            BY DEF Pages
          <6>. QED BY <5>1, <5>3, <6>1, <3>1, <1>2 DEF Progress
        <5>. QED BY <4>4, <5>2, <5>3, <3>1
      <4>5. CASE step.op = "read"
        <5>1. step'.op = "read" /\ step'.page = step.page + 1 /\ seen' = ReadBack
          BY <4>5, <3>1, <2>5
        <5>2. ASSUME NEW p \in Pages, p < step'.page PROVE <<p, "new">> \in seen'
          <6>1. p <= step.page
            BY <5>1, <5>2, <3>1, PageNumbers
          <6>. QED BY <6>1, <5>1, <4>5, <1>1, ReadBackIsNew
        <5>3. \A p \in Pages : flash[Head(todo)][p] = "new"
          BY <4>5, <1>0, <1>1 DEF Progress
        <5>. QED BY <5>1, <5>2, <5>3, <3>1, <1>2 DEF Progress
      <4>. QED BY <4>1, <4>2, <4>3, <4>4, <4>5, <3>1
    <3>. QED BY <2>3, <3>2, <3>3, <3>4, <3>5, <1>1, <1>3, HostFlag DEF Rest
  <2>6. step.op = "poll" => seen = {}
    BY <1>0 DEF SeenOK
  <2>. QED BY <2>1, <2>4, <2>5, <2>6
<1>. QED BY <1>4, <1>5

-----------------------------------------------------------------------------
(* Every step keeps the types.                                             *)

DevTypes ==
  /\ flag \in BOOLEAN /\ fpga \in {"safe", "prod"} /\ pc \in Pcs /\ prod \in BOOLEAN
  /\ erase \in [img : Images, current : 0 .. NPages, last : {0, NPages}]
  /\ erase.current <= erase.last
  /\ busy \in BOOLEAN
  /\ left \in BOOLEAN /\ restarted \in BOOLEAN
FlashTypes == flash \in [Images -> [Pages -> Contents]]
NetTypes == reqs \in Seq(Requests) /\ rep \in Acks \cup Data
HostTypes ==
  /\ run \in Nat /\ todo \in Seq(Images) /\ step \in Steps /\ wait \in BOOLEAN
  /\ seen \subseteq Pages \X Contents
  /\ opts \in [erase : BOOLEAN, reset : BOOLEAN]
  /\ verdict \in {"none", "ok", "failed"}

\* The parts of the types.
LEMMA TypeParts ==
  /\ Types <=> DevTypes /\ FlashTypes /\ NetTypes /\ HostTypes
  /\ Types' <=> DevTypes' /\ FlashTypes' /\ NetTypes' /\ HostTypes'
BY DEF Types, DevTypes, FlashTypes, NetTypes, HostTypes

\* What is left alone keeps its type.
LEMMA SameTypes ==
  ASSUME Types
  PROVE  /\ flash' = flash => FlashTypes'
         /\ UNCHANGED netVars => NetTypes'
         /\ UNCHANGED hostVars => HostTypes'
         /\ UNCHANGED <<flag, devVars, left, restarted>> => DevTypes'
<1>1. (flash' = flash => FlashTypes') /\ (UNCHANGED netVars => NetTypes')
  BY TypeParts DEF FlashTypes, NetTypes, netVars
<1>2. UNCHANGED hostVars => HostTypes'
  BY TypeParts DEF HostTypes, hostVars
<1>3. UNCHANGED <<flag, devVars, left, restarted>> => DevTypes'
  BY TypeParts DEF DevTypes, devVars
<1>. QED BY <1>1, <1>2, <1>3

\* After a start no erase is under way.
LEMMA NoErase ==
  ASSUME erase' = [img |-> "fpga", current |-> 0, last |-> 0]
  PROVE  /\ erase' \in [img : Images, current : 0 .. NPages, last : {0, NPages}]
         /\ erase'.current <= erase'.last
<1>1. "fpga" \in Images /\ 0 \in 0 .. NPages /\ 0 \in {0, NPages}
  BY PageNumbers DEF Images
<1>2. erase'.current = 0 /\ erase'.last = 0
  OBVIOUS
<1>. QED BY <1>1, <1>2

\* The bootloader.
LEMMA BootloaderTypes == Types /\ Bootloader => Types'
<1>. SUFFICES ASSUME Types, Bootloader PROVE Types'
  OBVIOUS
<1>1. /\ flash' = flash /\ UNCHANGED netVars /\ UNCHANGED hostVars /\ busy' = busy
  BY DEF Bootloader, ReadFlag, Button, CheckFpga, Reload, LoadFw, flashVars
<1>2. DevTypes
  BY TypeParts
<1>3. CASE ReadFlag
  <2>1. /\ prod' \in {flag, FALSE} /\ flag' \in {FALSE, flag}
        /\ left' = left \/ left' = (left \/ flag)
        /\ pc' = "button" /\ fpga' = fpga /\ erase' = erase /\ restarted' = restarted
    BY <1>3 DEF ReadFlag
  <2>2. prod' \in BOOLEAN /\ flag' \in BOOLEAN /\ left' \in BOOLEAN
    BY <2>1, <1>2 DEF DevTypes
  <2>3. DevTypes'
    BY <2>1, <2>2, <1>1, <1>2 DEF DevTypes, Pcs
  <2>. QED BY <2>3, <1>1, SameTypes, TypeParts
<1>4. CASE Button
  <2>1. /\ pc' \in {"safe_fw", "load", "check"} /\ fpga' = fpga /\ erase' = erase /\ prod' = prod
        /\ flag' = flag /\ left' = left /\ restarted' = restarted
    BY <1>4 DEF Button, flashVars, histVars
  <2>2. DevTypes'
    BY <2>1, <1>1, <1>2 DEF DevTypes, Pcs, Firmware
  <2>. QED BY <2>2, <1>1, SameTypes, TypeParts
<1>5. CASE CheckFpga
  <2>1. /\ pc' \in {"reload", "safe_fw"} /\ fpga' = fpga /\ erase' = erase /\ prod' = prod
        /\ flag' \in {TRUE, flag} /\ left' = left /\ restarted' = restarted
    BY <1>5 DEF CheckFpga
  <2>2. DevTypes'
    BY <2>1, <1>1, <1>2 DEF DevTypes, Pcs, Firmware
  <2>. QED BY <2>2, <1>1, SameTypes, TypeParts
<1>6. CASE Reload
  <2>1. /\ pc' = "start" /\ fpga' \in {"safe", "prod"} /\ prod' = FALSE
        /\ erase' = [img |-> "fpga", current |-> 0, last |-> 0]
        /\ flag' = flag /\ left' = FALSE /\ restarted' = TRUE
    BY <1>6 DEF Reload, Boot, flashVars
  <2>2. DevTypes'
    BY <2>1, <1>1, <1>2, NoErase DEF DevTypes, Pcs
  <2>. QED BY <2>2, <1>1, SameTypes, TypeParts
<1>7. CASE LoadFw
  <2>1. /\ pc' \in {"prod_fw", "hung", "safe_fw"} /\ fpga' = fpga /\ erase' = erase /\ prod' = prod
        /\ flag' = flag /\ left' = left /\ restarted' = restarted
    BY <1>7 DEF LoadFw, flashVars, histVars
  <2>2. DevTypes'
    BY <2>1, <1>1, <1>2 DEF DevTypes, Pcs, Firmware
  <2>. QED BY <2>2, <1>1, SameTypes, TypeParts
<1>. QED BY <1>3, <1>4, <1>5, <1>6, <1>7 DEF Bootloader

\* The update service, the flash and the power.
LEMMA ServiceTypes == Types /\ Quiet /\ (Service \/ Erased \/ PowerCycle) => Types'
<1>. SUFFICES ASSUME Types, Quiet, Service \/ Erased \/ PowerCycle PROVE Types'
  OBVIOUS
<1>1. UNCHANGED hostVars
  BY DEF Service, Hello, EraseStart, ErasePoll, Program, ReadPage, Reset, Erased, PowerCycle
<1>2. DevTypes /\ NetTypes /\ HostTypes' /\ Len(<<>>) = 0 /\ <<>> \in Seq(Requests)
  BY <1>1, SameTypes, TypeParts
<1>3. CASE Hello
  <2>1. /\ Serving /\ Reply([op |-> "hello"]) /\ flash' = flash
        /\ UNCHANGED <<flag, devVars, left, restarted>>
    BY <1>3 DEF Hello, flashVars, histVars
  <2>2. [op |-> "hello"] \in Acks \cup Data
    BY Replies
  <2>3. NetTypes'
    BY <2>1, <2>2, ReplyTypes DEF NetTypes
  <2>. QED BY <2>1, <2>3, <1>1, SameTypes, TypeParts
<1>4. CASE EraseStart
  <2>1. /\ Serving /\ Reply([op |-> "erasing"]) /\ flash' = flash /\ reqs # <<>>
        /\ flag' = flag /\ fpga' = fpga /\ pc' = pc /\ prod' = prod /\ busy' = TRUE
        /\ erase' = [img |-> Head(reqs).img, current |-> 1, last |-> NPages]
        /\ left' = left /\ restarted' = restarted
    BY <1>4 DEF EraseStart, flashVars, histVars, Serving
  <2>2. [op |-> "erasing"] \in Acks \cup Data
    BY Replies
  <2>3. NetTypes'
    BY <2>1, <2>2, ReplyTypes DEF NetTypes
  <2>4. Head(reqs).img \in Images
    BY <2>1, HeadRequest
  <2>5. DevTypes'
    BY <2>1, <2>4, <1>2, PageNumbers DEF DevTypes
  <2>. QED BY <2>1, <2>3, <2>5, <1>2, SameTypes, TypeParts
<1>5. CASE ErasePoll
  <2>1. /\ Serving /\ flash' = flash
        /\ flag' = flag /\ fpga' = fpga /\ pc' = pc /\ prod' = prod
        /\ left' = left /\ restarted' = restarted
    BY <1>5 DEF ErasePoll, flashVars, histVars
  <2>2. PICK o \in {"done", "not_done"} :
          /\ Reply([op |-> o])
          /\ \/ erase' = erase /\ busy' = busy
             \/ /\ busy' = TRUE /\ erase.current # erase.last
                /\ erase' = [erase EXCEPT !.current = @ + 1]
    BY <1>5 DEF ErasePoll, erase_done
  <2>3. [op |-> o] \in Acks \cup Data
    BY Replies
  <2>4. NetTypes'
    BY <2>1, <2>2, <2>3, ReplyTypes DEF NetTypes
  <2>5. DevTypes'
    <3>1. CASE erase' = erase /\ busy' = busy
      BY <3>1, <2>1, <1>2 DEF DevTypes
    <3>2. CASE /\ busy' = TRUE /\ erase.current # erase.last
               /\ erase' = [erase EXCEPT !.current = @ + 1]
      <4>1. /\ erase \in [img : Images, current : 0 .. NPages, last : {0, NPages}]
            /\ erase.current \in 0 .. NPages /\ erase.last \in {0, NPages}
            /\ erase.current <= erase.last /\ NPages \in Nat
        BY <1>2, PageNumbers, Fields DEF DevTypes
      <4>2. erase.current + 1 \in 0 .. NPages /\ erase.current + 1 <= erase.last
        BY <4>1, <3>2
      <4>3. /\ erase' \in [img : Images, current : 0 .. NPages, last : {0, NPages}]
            /\ erase'.current <= erase'.last
        BY <4>1, <4>2, <3>2
      <4>. QED BY <4>3, <3>2, <2>1, <1>2 DEF DevTypes
    <3>. QED BY <3>1, <3>2, <2>2
  <2>. QED BY <2>1, <2>4, <2>5, <1>2, SameTypes, TypeParts
<1>6. CASE Program
  <2>1. /\ Serving /\ Reply([op |-> "wrote"]) /\ reqs # <<>>
        /\ flash' = [flash EXCEPT ![Head(reqs).img][Head(reqs).page] = programmed(@)]
        /\ UNCHANGED <<flag, devVars, left, restarted>>
    BY <1>6 DEF Program, histVars, Serving
  <2>2. [op |-> "wrote"] \in Acks \cup Data
    BY Replies
  <2>3. NetTypes'
    BY <2>1, <2>2, ReplyTypes DEF NetTypes
  <2>4. PICK i \in Images, n \in Pages, c \in Contents :
          i = Head(reqs).img /\ n = Head(reqs).page /\ c = programmed(flash[i][n])
    <3>1. Head(reqs).img \in Images /\ Head(reqs).page \in Pages
      BY <2>1, HeadRequest
    <3>2. programmed(flash[Head(reqs).img][Head(reqs).page]) \in Contents
      BY DEF programmed, Contents
    <3>. QED BY <3>1, <3>2
  <2>5. flash' = [flash EXCEPT ![i][n] = c]
    BY <2>1, <2>4
  <2>6. FlashTypes'
    <3>1. i \in Images /\ n \in Pages /\ c \in Contents
      BY <2>4
    <3>. QED BY <3>1, <2>5, FlashPut DEF FlashTypes
  <2>. QED BY <2>1, <2>3, <2>6, <1>2, SameTypes, TypeParts
<1>7. CASE ReadPage
  <2>. DEFINE d == IF busy THEN "mixed" ELSE flash[Head(reqs).img][Head(reqs).page]
  <2>1. /\ Serving /\ Reply([op |-> "read", data |-> d]) /\ flash' = flash /\ reqs # <<>>
        /\ UNCHANGED <<flag, devVars, left, restarted>>
    BY <1>7 DEF ReadPage, flashVars, histVars, Serving
  <2>2. d \in Contents
    BY <2>1, HeadRequest, Fields DEF Contents
  <2>. HIDE DEF d
  <2>3. [op |-> "read", data |-> d] \in Acks \cup Data
    BY <2>2, Replies
  <2>4. NetTypes'
    BY <2>1, <2>3, ReplyTypes DEF NetTypes
  <2>. QED BY <2>1, <2>4, <1>1, SameTypes, TypeParts
<1>8. CASE Reset
  <2>1. /\ pc' = "start" /\ fpga' = "safe" /\ prod' = FALSE /\ busy' = busy
        /\ erase' = [img |-> "fpga", current |-> 0, last |-> 0]
        /\ flag' = flag /\ left' = (left /\ flag) /\ restarted' = TRUE
        /\ flash' = flash /\ reqs' = <<>> /\ rep' = rep
    BY <1>8 DEF Reset, Boot, flashVars
  <2>2. left' \in BOOLEAN
    BY <2>1
  <2>3. DevTypes'
    BY <2>1, <2>2, <1>2, NoErase DEF DevTypes, Pcs
  <2>4. NetTypes'
    BY <2>1, <1>2 DEF NetTypes
  <2>. QED BY <2>1, <2>3, <2>4, <1>2, SameTypes, TypeParts
<1>9. CASE Erased
  <2>1. /\ busy /\ busy' = FALSE /\ flag' = flag /\ fpga' = fpga /\ pc' = pc /\ prod' = prod
        /\ erase' = erase /\ left' = left /\ restarted' = restarted
        /\ flash' = [flash EXCEPT ![erase.img][erase.current] = "erased"]
        /\ UNCHANGED netVars
    BY <1>9 DEF Erased, histVars
  <2>2. erase.img \in Images /\ erase.current \in Pages /\ "erased" \in Contents
    BY <2>1, Fields, PageNumbers DEF Quiet, Pages, Contents
  <2>3. FlashTypes'
    BY <2>1, <2>2, FlashPut DEF FlashTypes
  <2>4. DevTypes'
    BY <2>1, <1>2 DEF DevTypes
  <2>. QED BY <2>1, <2>3, <2>4, <1>2, SameTypes, TypeParts
<1>10. CASE PowerCycle
  <2>1. /\ pc' = "start" /\ fpga' = "safe" /\ prod' = FALSE /\ busy' = FALSE
        /\ erase' = [img |-> "fpga", current |-> 0, last |-> 0]
        /\ flag' = flag /\ left' = (flag /\ (left \/ pc \in {"reload", "start"}))
        /\ restarted' = TRUE /\ reqs' = <<>> /\ rep' = rep
        /\ \/ flash' = flash
           \/ \E t \in TornPages : flash' = [flash EXCEPT ![t[1]][t[2]] = "mixed"]
    BY <1>10 DEF PowerCycle, Boot
  <2>2. left' \in BOOLEAN
    BY <2>1
  <2>3. DevTypes'
    BY <2>1, <2>2, <1>2, NoErase DEF DevTypes, Pcs
  <2>4. NetTypes'
    BY <2>1, <1>2 DEF NetTypes
  <2>5. FlashTypes'
    <3>1. ASSUME NEW t \in TornPages, flash' = [flash EXCEPT ![t[1]][t[2]] = "mixed"]
          PROVE  FlashTypes'
      <4>1. t[1] \in Images /\ t[2] \in Pages /\ "mixed" \in Contents
        BY TornIsPage DEF Contents
      <4>. QED BY <4>1, <3>1, FlashPut DEF FlashTypes
    <3>. QED BY <3>1, <2>1, SameTypes
  <2>. QED BY <2>3, <2>4, <2>5, <1>2, TypeParts
<1>. QED BY <1>3, <1>4, <1>5, <1>6, <1>7, <1>8, <1>9, <1>10 DEF Service

\* The program and the network.
LEMMA BurnerTypes == IInv /\ (Burner \/ LosePacket) => Types'
<1>. SUFFICES ASSUME IInv, Burner \/ LosePacket PROVE Types'
  OBVIOUS
<1>1. flash' = flash /\ UNCHANGED <<flag, devVars, left>>
  BY DEF Burner, StartRun, SendRequest, Receive, Timeout, LosePacket, flashVars, histVars
<1>2. Types /\ DevTypes /\ NetTypes /\ HostTypes /\ FlashTypes'
  BY <1>1, SameTypes, TypeParts DEF IInv
<1>3. restarted' \in BOOLEAN => DevTypes'
  BY <1>1, <1>2 DEF DevTypes, devVars
<1>4. None \in Acks \cup Data
  BY Replies
<1>5. CASE StartRun
  <2>1. /\ run' = run + 1 /\ todo' \in {<<"fpga">>, <<"fw">>, <<"fpga", "fw">>}
        /\ opts' \in [erase : BOOLEAN, reset : BOOLEAN]
        /\ step' = [op |-> "hello", page |-> 1] /\ wait' = FALSE /\ seen' = {} /\ rep' = None
        /\ verdict' = "none" /\ restarted' = FALSE /\ reqs' = reqs
    BY <1>5 DEF StartRun
  <2>2. NetTypes'
    BY <2>1, <1>2, <1>4 DEF NetTypes
  <2>3. todo' \in Seq(Images)
    <3>1. "fpga" \in Images /\ "fw" \in Images
      BY DEF Images
    <3>2. <<"fpga">> \in Seq(Images) /\ <<"fw">> \in Seq(Images) /\ <<"fpga", "fw">> \in Seq(Images)
      BY <3>1
    <3>. QED BY <2>1, <3>2
  <2>4. step' \in Steps
    BY <2>1, PageNumbers DEF Steps, Ops
  <2>5. HostTypes'
    <3>1. run' \in Nat
      BY <2>1, <1>2 DEF HostTypes
    <3>2. seen' \subseteq Pages \X Contents
      BY <2>1
    <3>. QED BY <2>1, <2>3, <2>4, <3>1, <3>2 DEF HostTypes
  <2>. QED BY <2>1, <2>2, <2>5, <1>2, <1>3, TypeParts
<1>6. CASE SendRequest
  <2>. DEFINE im == IF todo = <<>> THEN "fpga" ELSE Head(todo)
              q == [op |-> step.op, page |-> step.page, run |-> run, img |-> im]
  <2>1. /\ reqs' = Append(reqs, q) /\ wait' = TRUE /\ step.op # "idle" /\ rep' = rep
        /\ run' = run /\ todo' = todo /\ step' = step /\ seen' = seen /\ opts' = opts
        /\ verdict' = verdict /\ restarted' = restarted
    BY <1>6 DEF SendRequest, histVars
  <2>2. im \in Images
    BY <1>2, Fields DEF Images
  <2>. HIDE DEF im
  <2>3. step.op \in Ops /\ step.page \in Pages /\ run \in Nat
    BY <2>1, <1>2, Fields DEF HostTypes
  <2>4. q \in Requests
    BY <2>2, <2>3 DEF Requests
  <2>. HIDE DEF q
  <2>5. NetTypes'
    BY <2>1, <2>4, <1>2 DEF NetTypes
  <2>6. HostTypes'
    BY <2>1, <1>2 DEF HostTypes
  <2>. QED BY <2>1, <2>5, <2>6, <1>2, <1>3, TypeParts DEF DevTypes
<1>7. Idle \in Steps /\ <<>> \in Seq(Images)
  BY PageNumbers DEF Idle, Steps
<1>8. CASE Receive
  <2>1. /\ rep # None /\ rep' = None /\ reqs' = reqs /\ run' = run /\ opts' = opts
        /\ restarted' = restarted /\ verdict' \in {"none", "ok", "failed"} /\ wait' = FALSE
    BY <1>8, Received DEF histVars, Abort
  <2>2. step' \in Steps /\ todo' \in Seq(Images)
    BY <1>2, <1>7, <1>8, Received, NextImage, NextRequest DEF Abort, HostTypes
  <2>3. step.op = "read" => rep.data \in Contents
    <3>1. ASSUME step.op = "read" PROVE rep.data \in Contents
      <4>1. rep.data = flash[Head(todo)][step.page] /\ todo # <<>>
        BY <3>1, <2>1 DEF IInv, SeenOK, Answer
      <4>. QED BY <4>1, <1>2, Fields
    <3>. QED BY <3>1
  <2>4. step.op = "read" => ReadBack \subseteq Pages \X Contents
    BY <2>3, <1>2, Fields DEF ReadBack, HostTypes
  <2>5. seen' \subseteq Pages \X Contents
    BY <2>4, <1>2, <1>8, Received DEF Abort, HostTypes
  <2>6. HostTypes'
    BY <2>1, <2>2, <2>5, <1>2 DEF HostTypes
  <2>7. NetTypes'
    BY <2>1, <1>2, <1>4 DEF NetTypes
  <2>. QED BY <2>1, <2>6, <2>7, <1>2, <1>3, TypeParts DEF DevTypes
<1>9. CASE Timeout
  <2>1. /\ todo' = <<>> /\ step' = Idle /\ wait' = FALSE /\ seen' = {} /\ rep' = None
        /\ reqs' = reqs /\ run' = run /\ opts' = opts /\ verdict' = verdict
        /\ restarted' = restarted
    BY <1>9 DEF Timeout, Abort, histVars
  <2>2. HostTypes'
    BY <2>1, <1>2, <1>7 DEF HostTypes
  <2>3. NetTypes'
    BY <2>1, <1>2, <1>4 DEF NetTypes
  <2>. QED BY <2>1, <2>2, <2>3, <1>2, <1>3, TypeParts DEF DevTypes
<1>10. CASE LosePacket
  <2>1. /\ UNCHANGED hostVars /\ restarted' = restarted
        /\ \/ reqs # <<>> /\ reqs' = Tail(reqs) /\ rep' = rep
           \/ rep' = None /\ reqs' = reqs
    BY <1>10 DEF LosePacket
  <2>2. NetTypes'
    BY <2>1, <1>2, <1>4, HeadRequest DEF NetTypes
  <2>. QED BY <2>1, <2>2, <1>2, <1>3, SameTypes, TypeParts DEF DevTypes
<1>. QED BY <1>5, <1>6, <1>8, <1>9, <1>10 DEF Burner

-----------------------------------------------------------------------------
(* The invariant, and what follows.                                        *)

\* The invariant holds at first.
LEMMA InitIInv == Init => IInv
<1>. SUFFICES ASSUME Init PROVE IInv
  OBVIOUS
<1>1. /\ flash = [i \in Images |-> [p \in Pages |-> "old"]]
      /\ flag = FALSE /\ fpga = "safe" /\ pc = "start" /\ prod = FALSE
      /\ erase = [img |-> "fpga", current |-> 0, last |-> 0] /\ busy = FALSE
      /\ reqs = <<>> /\ rep = None
      /\ run = 0 /\ todo = <<>> /\ step = Idle /\ wait = FALSE /\ seen = {}
      /\ opts = [erase |-> FALSE, reset |-> FALSE] /\ verdict = "none"
      /\ left = FALSE /\ restarted = FALSE
  BY DEF Init
<1>2. FlashTypes
  BY <1>1 DEF FlashTypes, Contents
<1>3. DevTypes
  <2>1. "fpga" \in Images /\ 0 \in 0 .. NPages /\ 0 \in {0, NPages}
    BY PageNumbers DEF Images
  <2>2. erase.current = 0 /\ erase.last = 0
    BY <1>1
  <2>3. erase \in [img : Images, current : 0 .. NPages, last : {0, NPages}]
    BY <2>1, <1>1
  <2>4. erase.current <= erase.last
    BY <2>2
  <2>. QED BY <1>1, <2>3, <2>4 DEF DevTypes, Pcs
<1>4. NetTypes
  <2>1. <<>> \in Seq(Requests)
    OBVIOUS
  <2>. QED BY <2>1, <1>1, Replies DEF NetTypes
<1>5. HostTypes
  <2>1. <<>> \in Seq(Images) /\ Idle \in Steps
    BY PageNumbers DEF Idle, Steps
  <2>2. seen \subseteq Pages \X Contents
    BY <1>1
  <2>. QED BY <2>1, <2>2, <1>1 DEF HostTypes
<1>6. Types
  BY <1>2, <1>3, <1>4, <1>5, TypeParts
<1>7. step.op = "idle" /\ rep.op = "none" /\ 1 .. Len(reqs) = {}
  BY <1>1, Replies DEF Idle
<1>8. Queue
  BY <1>7 DEF Queue
<1>9. Answer /\ Quiet /\ SeenOK /\ Progress /\ FlagOK /\ FailsOnlyAfterRestart
  BY <1>1, <1>7 DEF Answer, Quiet, SeenOK, Progress, FlagOK, FailsOnlyAfterRestart
<1>. QED BY <1>6, <1>8, <1>9 DEF IInv

\* A step that changes nothing.
LEMMA Stutters == IInv /\ UNCHANGED vars => IInv'
<1>. SUFFICES ASSUME IInv, UNCHANGED vars PROVE IInv'
  OBVIOUS
<1>1. /\ flash' = flash /\ flag' = flag /\ fpga' = fpga /\ pc' = pc /\ prod' = prod
      /\ erase' = erase /\ busy' = busy /\ reqs' = reqs /\ rep' = rep /\ run' = run
      /\ todo' = todo /\ step' = step /\ wait' = wait /\ seen' = seen /\ opts' = opts
      /\ verdict' = verdict /\ left' = left /\ restarted' = restarted
  BY DEF vars, flashVars, devVars, netVars, hostVars, histVars
<1>2. Types'
  BY <1>1 DEF IInv, Types
<1>3. Queue'
  BY <1>1 DEF IInv, Queue
<1>4. Answer' /\ Quiet' /\ SeenOK'
  BY <1>1 DEF IInv, Answer, Expected, Quiet, SeenOK
<1>5. Progress'
  BY <1>1 DEF IInv, Progress
<1>6. FlagOK' /\ FailsOnlyAfterRestart'
  BY <1>1 DEF IInv, FlagOK, Whole, FailsOnlyAfterRestart
<1>. QED BY <1>2, <1>3, <1>4, <1>5, <1>6 DEF IInv

\* Every step keeps the invariant.
LEMMA NextIInv == IInv /\ [Next]_vars => IInv'
<1>. SUFFICES ASSUME IInv, Next PROVE Types' /\ Rest'
  BY Stutters DEF IInv, Rest
<1>1. Types'
  BY BootloaderTypes, ServiceTypes, BurnerTypes DEF Next, IInv
<1>2. CASE Bootloader
  BY <1>1, <1>2, ReadFlagStep, ButtonStep, CheckFpgaStep, ReloadStep, LoadFwStep DEF Bootloader
<1>3. CASE Service
  BY <1>1, <1>3, HelloStep, EraseStartStep, ErasePollStep, ProgramStep, ReadPageStep, ResetStep
  DEF Service
<1>4. CASE Burner
  BY <1>1, <1>4, StartRunStep, SendRequestStep, ReceiveStep, TimeoutStep DEF Burner
<1>. QED BY <1>1, <1>2, <1>3, <1>4, ErasedStep, PowerCycleStep, LosePacketStep DEF Next

\* The inductive invariant holds in every reachable state of the device, the
\* network and umtrx_net_burner.
THEOREM FlashInvariant == Spec => []IInv
<1>1. IInv /\ [Next]_vars => IInv'
  BY NextIInv
<1>. QED BY InitIInv, <1>1, PTL DEF Spec

\* verify_image fails only when the device restarted during the run of the
\* program, whatever earlier runs left half erased, half written or on its way
\* and whatever packets were lost.
THEOREM VerifyFailsOnlyAfterRestart == Spec => []FailsOnlyAfterRestart
<1>1. IInv => FailsOnlyAfterRestart
  BY DEF IInv
<1>. QED BY FlashInvariant, <1>1, PTL

\* An image that verify_image accepts is in the flash, page by page, although
\* the device may have restarted and answered "done" in the middle of an erase,
\* and old pages may have been written over.
THEOREM VerifiedWritten == Spec => VerifiedIsWritten
<1>1. ASSUME IInv, [Next]_vars, verdict # "ok", verdict' = "ok", NEW p \in Pages
      PROVE  flash'[Head(todo)][p] = "new"
  <2>1. Receive
    <3>1. ASSUME ~Receive PROVE verdict' = verdict \/ verdict' = "none"
      <4>1. Bootloader => verdict' = verdict
        BY DEF Bootloader, ReadFlag, Button, CheckFpga, Reload, LoadFw, hostVars
      <4>2. Service \/ Erased \/ PowerCycle \/ LosePacket => verdict' = verdict
        BY DEF Service, Hello, EraseStart, ErasePoll, Program, ReadPage, Reset, Erased,
               PowerCycle, LosePacket, hostVars
      <4>3. StartRun \/ SendRequest \/ Timeout => verdict' = verdict \/ verdict' = "none"
        BY DEF StartRun, SendRequest, Timeout
      <4>. QED BY <1>1, <3>1, <4>1, <4>2, <4>3 DEF Next, Burner, vars, hostVars
    <3>. QED BY <3>1, <1>1
  <2>2. /\ rep # None /\ flash' = flash /\ step.op = "read" /\ step.page = NPages
        /\ verified(ReadBack)
    <3>1. step.op = "read" => ~Expected(rep) \/ rep.op # "done"
      BY DEF Expected
    <3>. QED BY <2>1, <1>1, <3>1, Received DEF flashVars
  <2>3. <<p, "new">> \in ReadBack
    BY <2>2 DEF verified
  <2>. QED BY <2>2, <2>3, <1>1, ReadBackIsWritten
<1>2. IInv /\ [Next]_vars =>
        [verdict # "ok" /\ verdict' = "ok" => \A p \in Pages : flash'[Head(todo)][p] = "new"]_vars
  BY <1>1
<1>. QED BY FlashInvariant, <1>2, PTL DEF Spec, VerifiedIsWritten

\* The bootloader of the safe FPGA starts the production firmware only when the
\* production FPGA image is torn or the flag was left over from a start that a
\* power failure or an EEPROM error cut short.
THEOREM FirmwareFits == Spec => FirmwareFitsFpga
<1>1. IInv /\ [Next]_vars =>
        [pc = "load" /\ pc' \in {"prod_fw", "hung"} /\ fpga = "safe"
           => ~Whole("fpga") \/ left]_vars
  BY DEF IInv, FlagOK
<1>. QED BY FlashInvariant, <1>1, PTL DEF Spec, FirmwareFitsFpga

=============================================================================
