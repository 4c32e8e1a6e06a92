------------------------------ MODULE FlashBoot ------------------------------
(***************************************************************************)
(* How the device starts and how its images are replaced: the bootloader   *)
(* (zpu/umtrx/bootloader_utils.c, xilinx_s6_icap.c, the flag of            *)
(* zpu/lib/eeprom.c), the update service of the firmware                   *)
(* (zpu/umtrx/udp_fw_update.c, spi_flash.c, spi_flash_read.c) and the      *)
(* program that uses it (host/utils/umtrx_net_burner).                     *)
(*                                                                         *)
(* The flash holds a safe FPGA image, which starts at power on, and the    *)
(* production images of the FPGA and of the firmware.  Every FPGA image    *)
(* contains the bootloader.  A byte of the EEPROM tells the bootloader, in *)
(* the FPGA that it has the device reload, that it runs for the second     *)
(* time.  Power may fail at any moment, packets may be lost, the program   *)
(* may be stopped and started again.                                       *)
(***************************************************************************)
EXTENDS Integers, Sequences, FiniteSets

CONSTANTS
  NPages,       \* pages (and sectors) of an image; page 1 has the header
  MaxRuns,      \* bound: runs of the program
  MaxFaults     \* bound: power failures, packets lost, EEPROM errors, together

ASSUME BoundAssumption ==
  NPages \in Nat /\ NPages > 1 /\ {MaxRuns, MaxFaults} \subseteq Nat

Images == {"fpga", "fw"}
Pages == 1 .. NPages
\* A page holds the old image, the new one, nothing, or neither of them.
Contents == {"old", "new", "erased", "mixed"}
None == [op |-> "none"]

VARIABLES
  \* what survives a power failure
  flash,        \* the pages of the production images
  flag,         \* the EEPROM's USRP2_EE_MBOARD_BOOTLOADER_FLAGS is 0x5E
  \* the device
  fpga,         \* the FPGA image that runs: "safe", "prod"
  pc,           \* where the firmware is
  prod,         \* production_image
  erase,        \* spi_flash_async_state: image, current and last sector
  busy,         \* the flash erases the current sector (SR_WIP)
  \* the network and the program
  reqs,         \* requests on their way to the device
  rep,          \* the reply on its way to the program, or None
  run,          \* number of the run of the program
  todo,         \* images it has still to write; the first is in work
  step,         \* what it does with that image, and with which page
  wait,         \* it waits for a reply
  seen,         \* pages it read back
  opts,         \* its options --erase and --reset
  verdict,      \* what verify_image said last: "none", "ok", "failed"
  \* history
  faults,
  left,         \* the flag is left over from a start that a fault cut short
  restarted     \* the device has started since this run of the program began

flashVars == <<flash, flag>>
devVars == <<fpga, pc, prod, erase, busy>>
netVars == <<reqs, rep>>
hostVars == <<run, todo, step, wait, seen, opts, verdict>>
histVars == <<faults, left, restarted>>
vars == <<flashVars, devVars, netVars, hostVars, histVars>>

-----------------------------------------------------------------------------
(* The flash and the images in it.                                         *)

Whole(img) == \E c \in {"old", "new"} : \A p \in Pages : flash[img][p] = c

\* is_valid_fpga_image, is_valid_fw_image: only the first bytes are looked at;
\* they are the same in every image.  spi_flash_read does not wait, and a busy
\* flash gives anything.
HeaderMaySay(img, valid) ==
  \/ busy \/ flash[img][1] = "mixed"
  \/ valid = (flash[img][1] # "erased")

\* Programming clears bits: it gives the new page only where it was erased.
programmed(c) == IF c \in {"erased", "new"} THEN "new" ELSE "mixed"

-----------------------------------------------------------------------------
(* The bootloader.                                                         *)

\* Power on: the FPGA loads the image at address 0.  A reload by ICAP loads
\* the image it names, or the one at the fallback address when its
\* configuration fails.
Boot(f) ==
  /\ fpga' = f /\ pc' = "start" /\ prod' = FALSE
  /\ erase' = [img |-> "fpga", current |-> 0, last |-> 0]
  /\ restarted' = TRUE

\* A sector that is being erased or a page that is being programmed is torn.
TornPages ==
  IF busy THEN {<<erase.img, erase.current>>}
  ELSE IF pc \in {"safe_fw", "prod_fw"} /\ reqs # <<>> /\ Head(reqs).op = "write"
    THEN {<<Head(reqs).img, Head(reqs).page>>} ELSE {}

PowerCycle ==
  /\ faults < MaxFaults
  /\ faults' = faults + 1
  /\ Boot("safe")
  /\ busy' = FALSE
  /\ \/ UNCHANGED flash
     \/ \E t \in TornPages : flash' = [flash EXCEPT ![t[1]][t[2]] = "mixed"]
  /\ reqs' = <<>>
  /\ left' = (flag /\ (left \/ pc \in {"reload", "start"}))
  /\ UNCHANGED <<flag, rep, hostVars>>

\* A mutant of ReadFlag: the flag is not cleared.
ReadFlag_kept ==
  /\ pc = "start" /\ pc' = "button"
  /\ prod' = flag
  /\ UNCHANGED <<flashVars, fpga, erase, busy, netVars, hostVars, histVars>>

\* find_safe_booted_flag, then the flag is cleared.  A failed read counts as
\* no flag, a failed write is not noticed.
ReadFlag ==
  /\ pc = "start"
  /\ \/ prod' = flag /\ flag' = FALSE /\ UNCHANGED <<faults, left>>
     \/ /\ faults < MaxFaults
        /\ faults' = faults + 1
        /\ \/ prod' = FALSE /\ flag' = FALSE /\ UNCHANGED left
           \/ prod' = flag /\ flag' = flag /\ left' = (left \/ flag)
  /\ pc' = "button"
  /\ UNCHANGED <<flash, fpga, erase, busy, netVars, hostVars, restarted>>

\* BUTTON_PUSHED: safe mode.
Button ==
  /\ pc = "button"
  /\ \E pushed \in BOOLEAN : pc' = IF pushed THEN "safe_fw" ELSE IF prod THEN "load" ELSE "check"
  /\ UNCHANGED <<flashVars, fpga, prod, erase, busy, netVars, hostVars, histVars>>

\* A mutant of CheckFpga: the reload comes before the flag is set.
CheckFpga_unset ==
  /\ pc = "check"
  /\ \E valid \in BOOLEAN :
       HeaderMaySay("fpga", valid) /\ pc' = IF valid THEN "reload" ELSE "safe_fw"
  /\ UNCHANGED <<flashVars, fpga, prod, erase, busy, netVars, hostVars, histVars>>

\* First time: is there a production image of the FPGA?  The flag is set
\* before the reload.
CheckFpga ==
  /\ pc = "check"
  /\ \/ HeaderMaySay("fpga", TRUE) /\ flag' = TRUE /\ pc' = "reload" /\ UNCHANGED faults
     \/ /\ HeaderMaySay("fpga", TRUE) /\ faults < MaxFaults   \* the write fails
        /\ pc' = "reload" /\ faults' = faults + 1 /\ UNCHANGED flag
     \/ HeaderMaySay("fpga", FALSE) /\ pc' = "safe_fw" /\ UNCHANGED <<flag, faults>>
  /\ UNCHANGED <<flash, fpga, prod, erase, busy, netVars, hostVars, left, restarted>>

\* icap_s6_reload_fpga(PROD_FPGA_IMAGE_LOCATION_ADDR, SAFE_FPGA_IMAGE_LOCATION_ADDR)
Reload ==
  /\ pc = "reload"
  /\ Boot(IF Whole("fpga") /\ ~busy THEN "prod" ELSE "safe")
  /\ left' = FALSE
  /\ UNCHANGED <<flashVars, busy, netVars, hostVars, faults>>

\* Second time: load the production firmware and start it.  A firmware of
\* which only the header is right does not work.
LoadFw ==
  /\ pc = "load"
  /\ \/ HeaderMaySay("fw", TRUE) /\ pc' = IF Whole("fw") THEN "prod_fw" ELSE "hung"
     \/ HeaderMaySay("fw", FALSE) /\ pc' = "safe_fw"
  /\ UNCHANGED <<flashVars, fpga, prod, erase, busy, netVars, hostVars, histVars>>

-----------------------------------------------------------------------------
(* handle_udp_fw_update_packet                                             *)

Serving == pc \in {"safe_fw", "prod_fw"} /\ reqs # <<>>

\* The reply reaches the program if it still runs.
Reply(r) ==
  /\ reqs' = Tail(reqs)
  /\ rep' = IF Head(reqs).run = run THEN r ELSE rep

\* OHAI, the flash's sizes, the hardware revision: nothing changes.
Hello ==
  /\ Serving /\ Head(reqs).op = "hello"
  /\ Reply([op |-> "hello"])
  /\ UNCHANGED <<flashVars, devVars, hostVars, histVars>>

\* spi_flash_async_erase_start: waits until the flash is not busy.
EraseStart ==
  /\ Serving /\ Head(reqs).op = "erase" /\ ~busy
  /\ erase' = [img |-> Head(reqs).img, current |-> 1, last |-> NPages]
  /\ busy' = TRUE
  /\ Reply([op |-> "erasing"])
  /\ UNCHANGED <<flashVars, fpga, pc, prod, hostVars, histVars>>

\* The flash is through with a sector, on its own.
Erased ==
  /\ busy
  /\ busy' = FALSE
  /\ flash' = [flash EXCEPT ![erase.img][erase.current] = "erased"]
  /\ UNCHANGED <<flag, fpga, pc, prod, erase, netVars, hostVars, histVars>>

\* spi_flash_async_erase_poll: also starts the next sector.  In the mutant it
\* stops one sector early.
erase_done_early == erase.current + 1 >= erase.last
erase_done == erase.current = erase.last
ErasePoll ==
  /\ Serving /\ Head(reqs).op = "poll"
  /\ IF busy \/ erase_done
       THEN Reply([op |-> IF busy THEN "not_done" ELSE "done"]) /\ UNCHANGED <<erase, busy>>
       ELSE /\ erase' = [erase EXCEPT !.current = @ + 1]
            /\ busy' = TRUE
            /\ Reply([op |-> "not_done"])
  /\ UNCHANGED <<flashVars, fpga, pc, prod, hostVars, histVars>>

\* spi_flash_program: waits before and after.
Program ==
  /\ Serving /\ Head(reqs).op = "write" /\ ~busy
  /\ flash' = [flash EXCEPT ![Head(reqs).img][Head(reqs).page] = programmed(@)]
  /\ Reply([op |-> "wrote"])
  /\ UNCHANGED <<flag, devVars, hostVars, histVars>>

\* spi_flash_read: does not wait; a busy flash gives nothing of use.
ReadPage ==
  /\ Serving /\ Head(reqs).op = "read"
  /\ Reply([op |-> "read", data |-> IF busy THEN "mixed"
                                    ELSE flash[Head(reqs).img][Head(reqs).page]])
  /\ UNCHANGED <<flashVars, devVars, hostVars, histVars>>

\* The reset request: a reload of the safe image, no reply.
Reset ==
  /\ Serving /\ Head(reqs).op = "reset"
  /\ Boot("safe")
  /\ reqs' = <<>>
  /\ left' = (left /\ flag)
  /\ UNCHANGED <<flashVars, busy, rep, hostVars, faults>>

-----------------------------------------------------------------------------
(* umtrx_net_burner                                                        *)

\* The socket is new, and so are the options; init_update and the other
\* queries come first.
StartRun ==
  /\ step.op = "idle" /\ run < MaxRuns
  /\ run' = run + 1
  /\ todo' \in {<<"fpga">>, <<"fw">>, <<"fpga", "fw">>}
  /\ opts' \in [erase : BOOLEAN, reset : BOOLEAN]
  /\ step' = [op |-> "hello", page |-> 1]
  /\ wait' = FALSE /\ seen' = {} /\ rep' = None
  /\ verdict' = "none"
  /\ restarted' = FALSE
  /\ UNCHANGED <<flashVars, devVars, reqs, faults, left>>

SendRequest ==
  /\ step.op # "idle" /\ ~wait
  /\ wait' = TRUE
  /\ reqs' = Append(reqs, [op |-> step.op, page |-> step.page, run |-> run,
                           img |-> IF todo = <<>> THEN "fpga" ELSE Head(todo)])
  /\ UNCHANGED <<flashVars, devVars, rep, run, todo, step, seen, opts, verdict, histVars>>

Idle == [op |-> "idle", page |-> 1]

\* An unexpected reply, a timeout or a failed verify ends the program.
Abort == todo' = <<>> /\ step' = Idle /\ wait' = FALSE /\ seen' = {}

Expected(r) ==
  \/ step.op = "hello" /\ r.op = "hello"
  \/ step.op = "erase" /\ r.op = "erasing"
  \/ step.op = "poll" /\ r.op \in {"done", "not_done"}
  \/ step.op = "write" /\ r.op = "wrote"
  \/ step.op = "read" /\ r.op = "read"

\* burn_fw: after an image the next one, then the reset if it was asked for;
\* --erase returns before that.
ImageDone ==
  /\ todo' = Tail(todo)
  /\ step' = IF Len(todo) > 1 THEN [op |-> "erase", page |-> 1]
             ELSE IF opts.reset /\ ~opts.erase THEN [op |-> "reset", page |-> 1] ELSE Idle

\* erase_image, write_image, verify_image: the next request for an image.
SameImage ==
  /\ UNCHANGED todo
  /\ \/ step.op = "hello" /\ step' = [op |-> "erase", page |-> 1]
     \/ step.op = "erase" /\ step' = [op |-> "poll", page |-> 1]
     \/ step.op = "poll" /\ rep.op = "not_done" /\ step' = step
     \/ step.op = "poll" /\ rep.op = "done" /\ step' = [op |-> "write", page |-> 1]
     \/ /\ step.op \in {"write", "read"} /\ step.page < NPages
        /\ step' = [step EXCEPT !.page = @ + 1]
     \/ step.op = "write" /\ step.page = NPages /\ step' = [op |-> "read", page |-> 1]

\* verify_image: what was read back is compared when all of it is there.  In
\* the mutant only what was read last.
verified_last(s) == <<NPages, "new">> \in s
verified(s) == \A p \in Pages : <<p, "new">> \in s

Receive ==
  /\ wait /\ rep # None
  /\ rep' = None
  /\ LET s == IF step.op = "read" /\ rep.op = "read" THEN seen \cup {<<step.page, rep.data>>} ELSE seen
         all == step.op = "read" /\ step.page = NPages
     IN
     /\ IF ~Expected(rep) \/ (all /\ ~verified(s)) THEN Abort
         ELSE /\ wait' = FALSE
              /\ seen' = IF all THEN {} ELSE s
              /\ IF all \/ (opts.erase /\ rep.op = "done") THEN ImageDone ELSE SameImage
     /\ verdict' = IF Expected(rep) /\ all THEN IF verified(s) THEN "ok" ELSE "failed" ELSE "none"
  /\ UNCHANGED <<flashVars, devVars, reqs, run, opts, histVars>>

\* send_and_recv times out (after a reset it has to), or the user stops it.
Timeout ==
  /\ wait
  /\ Abort
  /\ rep' = None
  /\ UNCHANGED <<flashVars, devVars, reqs, run, opts, verdict, histVars>>

LosePacket ==
  /\ faults < MaxFaults
  /\ faults' = faults + 1
  /\ \/ reqs # <<>> /\ reqs' = Tail(reqs) /\ UNCHANGED rep
     \/ rep # None /\ rep' = None /\ UNCHANGED reqs
  /\ UNCHANGED <<flashVars, devVars, hostVars, left, restarted>>

-----------------------------------------------------------------------------
Init ==
  /\ flash = [i \in Images |-> [p \in Pages |-> "old"]]
  /\ flag = FALSE /\ fpga = "safe" /\ pc = "start" /\ prod = FALSE
  /\ erase = [img |-> "fpga", current |-> 0, last |-> 0] /\ busy = FALSE
  /\ reqs = <<>> /\ rep = None
  /\ run = 0 /\ todo = <<>> /\ step = Idle /\ wait = FALSE /\ seen = {}
  /\ opts = [erase |-> FALSE, reset |-> FALSE] /\ verdict = "none"
  /\ faults = 0 /\ left = FALSE /\ restarted = FALSE

Bootloader == ReadFlag \/ Button \/ CheckFpga \/ Reload \/ LoadFw
Service == Hello \/ EraseStart \/ ErasePoll \/ Program \/ ReadPage \/ Reset
Burner == StartRun \/ SendRequest \/ Receive \/ Timeout

Next == Bootloader \/ Service \/ Erased \/ Burner \/ PowerCycle \/ LosePacket

Spec == Init /\ [][Next]_vars /\ WF_devVars(Bootloader)

-----------------------------------------------------------------------------
(* Properties.                                                             *)

\* What verify_image accepts is in the flash, whatever happened on the way.  A
\* device that restarts in the middle of an erase answers that it is done (its
\* spi_flash_async_state is 0), and pages are then written over old ones; a
\* program that was stopped leaves requests behind.  An acknowledged write
\* alone says nothing.
VerifiedIsWritten ==
  [][verdict # "ok" /\ verdict' = "ok"
       => \A p \in Pages : flash'[Head(todo)][p] = "new"]_vars

\* verify_image fails only when the device restarted during the run: "done" is
\* answered after the last sector only, and what an earlier run of the program
\* left half erased, half written or still on its way does no harm.
FailsOnlyAfterRestart == verdict = "failed" => restarted

\* The production firmware is started on the safe FPGA only when the image of
\* the production FPGA is torn, so that the reload falls back with the flag
\* still set, or when the power or the EEPROM failed between setting the flag
\* and clearing it.
FirmwareFitsFpga ==
  [][pc = "load" /\ pc' \in {"prod_fw", "hung"} /\ fpga = "safe"
       => ~Whole("fpga") \/ left]_vars

\* A start ends, in the safe or in the production firmware: the device does
\* not reload itself for ever.
BootEnds == []<>(pc \in {"safe_fw", "prod_fw", "hung"})

=============================================================================
