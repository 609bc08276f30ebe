------------------------------ MODULE PicCore ------------------------------
(***************************************************************************)
(* Priority dispatch, completion tracking, the watchdog and the scheduling *)
(* table of src/bin/monitor/pic.c, with the guest and the host timer       *)
(* signal as its environment.                                              *)
(*                                                                         *)
(* The emulator is one thread whose C call stack is the sequence `host`:  *)
(* run_irqs() calls a level's handler, which may call do_irq(), whose loop *)
(* runs the guest and calls run_irqs() again.  Only the top frame acts.    *)
(* The guest runs when `host` is empty (the emulator's main loop) or when  *)
(* the top frame is a do_irq loop in its vm86 phase.  The timer signal     *)
(* (timer_tick -> pic_watch) may arrive between any two steps.             *)
(*                                                                         *)
(* Register bitmasks are sets of levels.  Times are signed integers of     *)
(* Width bits (long on the target), NEVER is the most negative one, and    *)
(* the wall clock wraps every Period ticks (900 * 1193047 in the code).    *)
(* Built with MONOTON_MICRO_TIMING (Timing = "micro") the clock instead    *)
(* runs on through the whole Width-bit range, times are compared by their  *)
(* signed difference, and Period bounds the ticks between two timer        *)
(* signals.                                                                *)
(***************************************************************************)
EXTENDS Integers, Sequences, SequencesExt, FiniteSets, PicBits

CONSTANTS
  Handlers,      \* levels with pic_iinfo[l].func set (pic_seti)
  DoIrqLevels,   \* levels whose handler calls do_irq() to run a guest ISR
  Periodic,      \* levels whose handler reschedules itself with pic_sched
  Intervals,     \* intervals handlers pass to pic_sched
  IcountOD,      \* pic_icount_od
  Width,         \* bits of a long
  Period,        \* wall-clock wrap period in ticks
  Build,         \* "asm" (default build) or "c" (compiled with C_RUN_IRQS)
  Timing,        \* "wrap" (default build) or "micro" (MONOTON_MICRO_TIMING)
  VmRun,         \* TRUE: do_irq's loop runs the guest (run_vm86, spec 4.3)
  Faithful,      \* TRUE: the guest EOIs and irets as an ISR must
  MaxDevReq,     \* bound on requests from device code
  MaxFake,       \* bound on irets a guest skips (only when ~Faithful)
  MaxGuestNest,  \* bound on ISRs the guest nests by enabling interrupts
  MaskBytes,     \* bytes the guest loads into a chip's mask (OCW1)
  SmmCmds,       \* OCW3 bytes the guest writes (special mask mode on/off)
  RegLevels,     \* levels device code registers, masks or unmasks
  MaxRegOps,     \* bound on pic_seti/pic_maski/pic_unmaski calls
  MaxResets      \* bound on virt_pic_reset calls at guest reboot

Levels == 0..31
NoLevel == 32
IRQALL == 1..15          \* PIC_IRQALL: levels that need an EOI
Pic1Levels == 3..10      \* pic1_mask = 0x07f8

ASSUME /\ Handlers \subseteq Levels /\ DoIrqLevels \subseteq Handlers
       /\ Periodic \subseteq Handlers /\ Intervals \subseteq 1..(Period - 1)
       /\ IcountOD \in Nat /\ Width \in 3..8 /\ Period \in 1..2^(Width - 2)
       /\ Build \in {"asm", "c"} /\ Timing \in {"wrap", "micro"} /\ VmRun \in BOOLEAN
       /\ Faithful \in BOOLEAN
       /\ MaxDevReq \in Nat /\ MaxFake \in Nat /\ MaxGuestNest \in Nat
       /\ RegLevels \subseteq Handlers /\ MaxRegOps \in Nat /\ MaxResets \in Nat
       /\ MaskBytes \subseteq 0..255 /\ SmmCmds \subseteq {v \in 0..255 : IsOCW3(v)}

Half == 2^(Width - 1)
Long(x) == ((x + Half) % (2 * Half)) - Half   \* two's complement wrap
NEVER == -Half                                \* 0x80000000
Timers == Handlers \cup {NoLevel}             \* pic_itime[32] is "now"

VARIABLES
  irr, isr, pic1_isr,   \* pic_irr, pic_isr, pic1_isr
  pirr, wirr,           \* pic_pirr (queued), pic_wirr (watchdog)
  pic0_imr, pic1_imr,   \* chip masks, internal numbering
  pice_imr,             \* emulator mask (pic_maski/pic_unmaski)
  iflag,                \* pic_iflag = PIC_IRQALL (TRUE) after pic_cli
  imr,                  \* pic_imr, recomputed only by pic_set_mask
  smm,                  \* pic_smm
  ilevel,               \* pic_ilevel
  stack,                \* pic_stack[0..pic_sp-1]
  icount,               \* pic_icount
  itime, ltime,         \* pic_itime, pic_ltime
  sys_time, dos_time,   \* pic_sys_time, pic_dos_time
  host,                 \* the emulator's call stack
  gstack,               \* guest ISR frames faked by do_irq
  vif,                  \* guest's virtual interrupt flag (REG(eflags) & VIF)
  funcs,                \* levels whose pic_iinfo[l].func is set
  ndev, nfake, nreg,    \* environment counters for the bounds
  nreset

pic == <<irr, isr, pic1_isr, pirr, wirr, pic0_imr, pic1_imr, pice_imr,
         iflag, imr, smm, ilevel, stack, icount, funcs>>
sched == <<itime, ltime, sys_time, dos_time>>
env == <<host, gstack, vif, ndev, nfake, nreg, nreset>>
vars == <<pic, sched, env>>

(***************************************************************************)
(* pic_set_mask: pic_imr = pic0_imr | pic1_imr | pice_imr | pic_iflag      *)
(***************************************************************************)
SetMask(p0, p1, pe, fl) == p0 \cup p1 \cup pe \cup (IF fl THEN IRQALL ELSE {})

\* mutant: a do_irq without its pic_cli
PicCliNoop == UNCHANGED <<iflag, imr>>

\* pic_cli(): pic_iflag = PIC_IRQALL; pic_set_mask;   pic_sti(): the reverse
PicCli == iflag' = TRUE /\ imr' = SetMask(pic0_imr, pic1_imr, pice_imr, TRUE)
PicSti == iflag' = FALSE /\ imr' = SetMask(pic0_imr, pic1_imr, pice_imr, FALSE)

(***************************************************************************)
(* pic_request(inum) as a function of the state it reads.  It returns the *)
(* new irr, pirr and the level's itime/ltime.  A level without a handler  *)
(* is ignored (the early return at its top).                               *)
(***************************************************************************)
Deferred(l, r, s, ic) == l \in r \cup s \/ ic > IcountOD
ReqTime(l, it, lt) == IF it[l] = lt[l] THEN it[NoLevel] ELSE it[l]

(***************************************************************************)
(* pic_activate: request every timer due before sys_time and not yet       *)
(* delivered, and move the "now" cursor to the earliest one.  The loop's   *)
(* pic_request calls touch distinct levels and read only their own bits,   *)
(* so they are applied together; those of levels without a handler return *)
(* at once and leave the level's times as they were.                       *)
(***************************************************************************)
\* a < b, or (int)(a - b) < 0 in the MONOTON_MICRO_TIMING build
Before(a, b) == IF Timing = "wrap" THEN a < b ELSE Long(a - b) < 0

Due(it, lt, st) == {l \in Handlers : Before(it[l], st) /\ it[l] # NEVER /\ it[l] # lt[l]}

\* the loop's running minimum, taken over the due levels in increasing
\* order: the wrapped comparison of the micro build is no total order
Earliest(D, it, st) ==
  FoldLeft(LAMBDA e, l : IF Before(it[l], e) \/ e = NEVER THEN it[l] ELSE e,
           st, SetToSortSeq(D, <))

Activate(r, p, s, it, lt, st, ic) ==
  LET D == Due(it, lt, st)
      R == D \cap funcs
      go == {l \in R : ~Deferred(l, r, s, ic)}
      earliest == Earliest(D, it, st)
      nt == [l \in Handlers |-> IF l \in R THEN ReqTime(l, it, lt) ELSE it[l]]
  IN [irr  |-> r \cup go,
      pirr |-> p \cup (R \ go),
      itime |-> nt @@ (NoLevel :> earliest),
      ltime |-> [l \in Timers |-> IF l \in R THEN nt[l] ELSE lt[l]],
      dos  |-> earliest]

(***************************************************************************)
(* Requests from device code (serial, mouse, network): pic_request(l).     *)
(***************************************************************************)
Request(l) ==
  /\ l \in funcs
  /\ LET d == Deferred(l, irr, isr, icount)
         t == ReqTime(l, itime, ltime)
     IN /\ irr' = IF d THEN irr ELSE irr \cup {l}
        /\ pirr' = IF d THEN pirr \cup {l} ELSE pirr
        /\ itime' = [itime EXCEPT ![l] = t]
        /\ ltime' = [ltime EXCEPT ![l] = t]

\* the guest runs from the main loop, or in one vm86 run of a do_irq loop,
\* which returns to the loop at the guest's next trapping instruction
\* (only where the loop calls run_vm86, VmRun)
GuestRuns ==
  \/ host = <<>>
  \/ host # <<>> /\ Last(host).f = "irq" /\ Last(host).pc = "guest" /\ VmRun

Trap == host' = IF host = <<>> THEN host
                ELSE [host EXCEPT ![Len(host)].pc = "trapped"]

DeviceRequest(l) ==
  /\ GuestRuns
  /\ ndev < MaxDevReq
  /\ Request(l)
  /\ ndev' = ndev + 1
  /\ UNCHANGED <<isr, pic1_isr, wirr, pic0_imr, pic1_imr, pice_imr, iflag,
                 imr, smm, ilevel, stack, icount, sys_time, dos_time,
                 host, gstack, vif, nfake, nreg, nreset, funcs>>

(***************************************************************************)
(* Registration by emulator code (its callers are outside src/): each call *)
(* runs between two guest instructions, like a device request.             *)
(***************************************************************************)
RegStep(l) == GuestRuns /\ nreg < MaxRegOps /\ l \in RegLevels /\ nreg' = nreg + 1

\* pic_seti(level, func, ivec): set or clear the handler; a NULL handler
\* also calls pic_maski, which does not recompute pic_imr
DeviceSeti(l, set) ==
  /\ RegStep(l)
  /\ funcs' = IF set THEN funcs \cup {l} ELSE funcs \ {l}
  /\ pice_imr' = IF set THEN pice_imr ELSE pice_imr \cup {l}
  /\ UNCHANGED <<irr, isr, pic1_isr, pirr, wirr, pic0_imr, pic1_imr, iflag,
                 imr, smm, ilevel, stack, icount, sched, host, gstack, vif,
                 ndev, nfake, nreset>>

\* pic_maski(level): set_bit(level, &pice_imr), and nothing else
DeviceMaski(l) ==
  /\ RegStep(l)
  /\ pice_imr' = pice_imr \cup {l}
  /\ UNCHANGED <<irr, isr, pic1_isr, pirr, wirr, pic0_imr, pic1_imr, iflag,
                 imr, smm, ilevel, stack, icount, funcs, sched, host, gstack,
                 vif, ndev, nfake, nreset>>

\* pic_unmaski(level): clear the level if it has a handler, then pic_set_mask
DeviceUnmaski(l) ==
  /\ RegStep(l)
  /\ pice_imr' = IF l \in funcs THEN pice_imr \ {l} ELSE pice_imr
  /\ imr' = SetMask(pic0_imr, pic1_imr, pice_imr', iflag)
  /\ UNCHANGED <<irr, isr, pic1_isr, pirr, wirr, pic0_imr, pic1_imr, iflag,
                 smm, ilevel, stack, icount, funcs, sched, host, gstack, vif,
                 ndev, nfake, nreset>>

(***************************************************************************)
(* virt_pic_reset() at guest reboot, which the guest may trigger anywhere, *)
(* an ISR included (its callers are outside src/): the assignments,        *)
(* then pic_seti/pic_unmaski of IRQ0 and IRQ1 (NEW_KBD_CODE is not         *)
(* defined) and pic_request(PIC_IRQ0) on the state so far.  pic_irr,       *)
(* pic_pirr, pic_wirr, pic1_isr, pic_icount, pic_smm and pic_dos_time are  *)
(* not assigned.  The rebooted guest has no ISR running and VIF clear.     *)
(***************************************************************************)
\* mutant: the reset leaves pic_sp as it was
VirtPicResetKeepSp ==
  /\ GuestRuns /\ nreset < MaxResets
  /\ LET f == funcs \cup ({1, 2} \cap Handlers)
         pe == Levels \ ({1, 2} \cap f)
         d == Deferred(1, irr, {}, icount)
     IN /\ funcs' = f
        /\ pice_imr' = pe
        /\ imr' = SetMask(11..15, 3..10, pe, iflag)
        /\ irr' = IF 1 \in f /\ ~d THEN irr \cup {1} ELSE irr
        /\ pirr' = IF 1 \in f /\ d THEN pirr \cup {1} ELSE pirr
  /\ isr' = {} /\ pic0_imr' = 11..15 /\ pic1_imr' = 3..10
  /\ ilevel' = NoLevel /\ UNCHANGED stack
  /\ itime' = [l \in Timers |-> NEVER] /\ ltime' = [l \in Timers |-> NEVER]
  /\ sys_time' = NEVER
  /\ gstack' = <<>> /\ vif' = FALSE
  /\ nreset' = nreset + 1
  /\ Trap
  /\ UNCHANGED <<pic1_isr, wirr, iflag, smm, icount, dos_time,
                 ndev, nfake, nreg>>

VirtPicReset ==
  /\ GuestRuns /\ nreset < MaxResets
  /\ LET f == funcs \cup ({1, 2} \cap Handlers)
         pe == Levels \ ({1, 2} \cap f)
         d == Deferred(1, irr, {}, icount)
     IN /\ funcs' = f
        /\ pice_imr' = pe
        /\ imr' = SetMask(11..15, 3..10, pe, iflag)
        /\ irr' = IF 1 \in f /\ ~d THEN irr \cup {1} ELSE irr
        /\ pirr' = IF 1 \in f /\ d THEN pirr \cup {1} ELSE pirr
  /\ isr' = {} /\ pic0_imr' = 11..15 /\ pic1_imr' = 3..10
  /\ ilevel' = NoLevel /\ stack' = <<>>
  /\ itime' = [l \in Timers |-> NEVER] /\ ltime' = [l \in Timers |-> NEVER]
  /\ sys_time' = NEVER
  /\ gstack' = <<>> /\ vif' = FALSE
  /\ nreset' = nreset + 1
  /\ Trap
  /\ UNCHANGED <<pic1_isr, wirr, iflag, smm, icount, dos_time,
                 ndev, nfake, nreg>>

(***************************************************************************)
(* run_irqs().  Entry pushes old pic_ilevel and computes ecx = old + smm.  *)
(* The asm build returns at once if the guest's VIF is clear.              *)
(***************************************************************************)
RunFrame == [f |-> "run", saved |-> ilevel, thr |-> ilevel + smm, clob |-> FALSE]
RunIrqsEnters == Build = "c" \/ vif

\* pic_run(): if (pic_irr) run_irqs(); from the emulator's main loop
PicRun ==
  /\ host = <<>>
  /\ irr # {}
  /\ RunIrqsEnters
  /\ host' = <<RunFrame>>
  /\ UNCHANGED <<pic, sched, gstack, vif, ndev, nfake, nreg, nreset>>

\* the asm build compares with ecx = old + smm loaded at entry; the C
\* build re-reads pic_smm on every pass
\* mutant: the C priority check with <= for <
ThrLe(fr) == IF Build = "asm" THEN fr.thr ELSE fr.saved + smm + 1

Thr(fr) == IF Build = "asm" THEN fr.thr ELSE fr.saved + smm

\* requests run_irqs may take: the asm build also skips masked levels
Candidates == IF Build = "asm" THEN irr \ (isr \cup imr) ELSE irr \ isr

(***************************************************************************)
(* One pass of the run_irqs loop: find the highest-priority candidate; if  *)
(* it passes the priority check, clear its request, set it in service and  *)
(* call its handler, else restore pic_ilevel and return.  In the asm build *)
(* the check compares with %ecx, which the handler call clobbers: after    *)
(* the first dispatch its value is whatever the handler left there.        *)
(***************************************************************************)
\* mutant: pic1_isr = pic_isr without the pic1_mask
DispatchNoMask(fr, l) ==
  /\ irr' = irr \ {l}
  /\ isr' = isr \cup {l}
  /\ pic1_isr' = isr \cup {l}
  /\ ilevel' = l
  /\ host' = Append([host EXCEPT ![Len(host)].clob = (Build = "asm")],
                    [f |-> "hnd", lvl |-> l,
                     pc |-> IF l \in Periodic THEN "sched" ELSE "irq"])

Dispatch(fr, l) ==
  /\ irr' = irr \ {l}
  /\ isr' = isr \cup {l}
  /\ pic1_isr' = (isr \cup {l}) \cap Pic1Levels
  /\ ilevel' = l
  /\ host' = Append([host EXCEPT ![Len(host)].clob = (Build = "asm")],
                    [f |-> "hnd", lvl |-> l,
                     pc |-> IF l \in Periodic THEN "sched" ELSE "irq"])

RunIrqsStep ==
  /\ host # <<>> /\ Last(host).f = "run"
  /\ LET fr == Last(host)
         C == Candidates
         l == Min(C)
     IN \/ /\ C = {}
           /\ ilevel' = fr.saved
           /\ host' = Front(host)
           /\ UNCHANGED <<irr, isr, pic1_isr>>
        \/ /\ C # {}
           /\ \/ /\ fr.clob \/ l < Thr(fr)
                 /\ Dispatch(fr, l)
              \/ /\ fr.clob \/ l >= Thr(fr)
                 /\ Build = "asm"
                 /\ ilevel' = fr.saved
                 /\ host' = Front(host)
                 /\ UNCHANGED <<irr, isr, pic1_isr>>
              \* the C loop re-tests the same request for ever
              \/ /\ l >= Thr(fr)
                 /\ Build = "c"
                 /\ ilevel' = l
                 /\ UNCHANGED <<irr, isr, pic1_isr, host>>
  /\ UNCHANGED <<pirr, wirr, pic0_imr, pic1_imr, pice_imr, iflag, imr, smm,
                 stack, icount, sched, gstack, vif, ndev, nfake, nreg, nreset, funcs>>

(***************************************************************************)
(* pic_sched(level, interval) from the level's own handler.                *)
(***************************************************************************)
HandlerSched ==
  /\ host # <<>> /\ Last(host).f = "hnd" /\ Last(host).pc = "sched"
  /\ LET l == Last(host).lvl IN
     \E iv \in Intervals :
       /\ itime' = [itime EXCEPT ![l] =
                      IF ltime[l] = NEVER THEN Long(itime[NoLevel] + iv)
                      ELSE Long(itime[l] + iv)]
       /\ host' = [host EXCEPT ![Len(host)].pc = "irq"]
  /\ UNCHANGED <<pic, ltime, sys_time, dos_time, gstack, vif, ndev, nfake, nreg, nreset>>

\* pic_push and pic_pop (lines 279-297): a push onto a full pic_stack (32
\* entries) is dropped, a pop of an empty one gives 32 (no level)
PicPush(s, v) == IF Len(s) < 32 THEN Append(s, v) ELSE s
PicPop(s) ==
  IF s # <<>> THEN [val |-> Last(s), stack |-> Front(s)] ELSE [val |-> NoLevel, stack |-> s]

(***************************************************************************)
(* do_irq(), called from the handler.  With the vector redirected by the   *)
(* guest (or for IRQ0/IRQ1) it pushes pic_ilevel on pic_stack, masks the   *)
(* IRQs (pic_cli), fakes the guest's return address so that its iret traps *)
(* to pic_iret, counts the nesting and enters its loop.  IRQ9 with the     *)
(* BIOS vector counts one EOI at once.                                     *)
(***************************************************************************)
HandlerDoIrq ==
  /\ host # <<>> /\ Last(host).f = "hnd" /\ Last(host).pc = "irq"
  /\ LET l == Last(host).lvl
         h == [host EXCEPT ![Len(host)].pc = "ret"]
     IN IF l \notin DoIrqLevels \/ ilevel = NoLevel
          THEN /\ host' = h
               /\ UNCHANGED <<pic, gstack, vif>>
          ELSE \E redirected, redirected0a \in BOOLEAN :
                 \* unvectored IRQ9 becomes int 0x0a with one EOI done
                 LET bios9 == ilevel = 4 /\ ~redirected
                     p1 == IF bios9 THEN pic1_isr \ {4} ELSE pic1_isr
                     go == IF bios9 THEN redirected0a
                           ELSE redirected \/ ilevel <= 2
                 IN IF go
                      THEN /\ pic1_isr' = p1
                           /\ stack' = IF ilevel < 16 THEN PicPush(stack, ilevel) ELSE stack
                           /\ PicCli
                           /\ gstack' = Append(gstack,
                                          [lvl |-> ilevel, vif |-> vif,
                                           eois |-> IF bios9 THEN 1 ELSE 0])
                           /\ vif' = FALSE
                           /\ icount' = icount + 1
                           /\ host' = Append(h, [f |-> "irq", pc |-> "test"])
                           /\ UNCHANGED <<irr, isr, pirr, wirr, pic0_imr,
                                          pic1_imr, pice_imr, smm, ilevel>>
                      ELSE /\ pic1_isr' = p1
                           /\ host' = h
                           /\ UNCHANGED <<irr, isr, pirr, wirr, pic0_imr,
                                          pic1_imr, pice_imr, iflag, imr, smm,
                                          ilevel, stack, icount, gstack, vif>>
  /\ UNCHANGED <<sched, ndev, nfake, nreg, nreset, funcs>>

(***************************************************************************)
(* Handler returns into run_irqs, which resets the in-service bits of the  *)
(* current pic_ilevel "just in case" and goes back for the next request.   *)
(***************************************************************************)
HandlerReturn ==
  /\ host # <<>> /\ Last(host).f = "hnd" /\ Last(host).pc = "ret"
  /\ host' = Front(host)
  /\ isr' = isr \ {ilevel}
  /\ pic1_isr' = pic1_isr \ {ilevel}
  /\ UNCHANGED <<irr, pirr, wirr, pic0_imr, pic1_imr, pice_imr, iflag, imr,
                 smm, ilevel, stack, icount, sched, gstack, vif, ndev, nfake, nreg, nreset, funcs>>

(***************************************************************************)
(* The do_irq loop: while (test_bit(pic_ilevel, &pic_isr)) { run the       *)
(* guest; pic_isr &= PIC_IRQALL; if (pic_irr) run_irqs(); }  then pic_sti  *)
(* and return.  With VmRun the body runs the guest as the run_vm86() call *)
(* the loop was written for (spec 4.3).  In this port that call is         *)
(* commented out and the body starts with ASSERT(0) (line 729), whose      *)
(* definition is not in the tree: the monitor either aborts there ("abort", *)
(* no step follows) or, with ASSERT compiled out, goes on to the tail with *)
(* no guest run in between ("guest" with GuestRuns false).                 *)
(***************************************************************************)
LoopBody == IF VmRun THEN {"guest"} ELSE {"guest", "abort"}

Aborted == host # <<>> /\ Last(host).f = "irq" /\ Last(host).pc = "abort"

DoIrqTest ==
  /\ host # <<>> /\ Last(host).f = "irq" /\ Last(host).pc = "test"
  /\ IF ilevel \in isr
       THEN /\ \E pc \in LoopBody : host' = [host EXCEPT ![Len(host)].pc = pc]
            /\ UNCHANGED <<iflag, imr>>
       ELSE /\ host' = Front(host)
            /\ PicSti
  /\ UNCHANGED <<irr, isr, pic1_isr, pirr, wirr, pic0_imr, pic1_imr, pice_imr,
                 smm, ilevel, stack, icount, sched, gstack, vif, ndev, nfake, nreg, nreset, funcs>>

DoIrqPost ==
  /\ host # <<>> /\ Last(host).f = "irq" /\ Last(host).pc \in {"guest", "trapped"}
  /\ isr' = isr \cap IRQALL
  /\ LET h == [host EXCEPT ![Len(host)].pc = "test"]
     IN host' = IF irr # {} /\ RunIrqsEnters THEN Append(h, RunFrame) ELSE h
  /\ UNCHANGED <<irr, pic1_isr, pirr, wirr, pic0_imr, pic1_imr, pice_imr,
                 iflag, imr, smm, ilevel, stack, icount, sched, gstack, vif,
                 ndev, nfake, nreg, nreset, funcs>>

(***************************************************************************)
(* The guest.  An EOI (OCW2 to either chip) resets the level on top of     *)
(* pic_stack (pic_ilevel if the stack is empty).  Levels of the second     *)
(* chip need two EOIs: the first clears pic1_isr, the second pic_isr and   *)
(* pops the stack.                                                         *)
(***************************************************************************)
Needed(l) == IF l \in Pic1Levels THEN 2 ELSE IF l \in IRQALL THEN 1 ELSE 0

\* mutant: the EOI reads the stack top but does not pop it
GuestEOIKeepStack ==
  /\ GuestRuns
  /\ Faithful => gstack # <<>> /\ Last(gstack).eois < Needed(Last(gstack).lvl)
  /\ LET l == IF stack # <<>> THEN Last(stack) ELSE ilevel
     IN IF l = NoLevel
          THEN UNCHANGED <<isr, pic1_isr, ilevel, stack>>
          ELSE IF l \in pic1_isr
            THEN /\ pic1_isr' = pic1_isr \ {l}
                 /\ UNCHANGED <<isr, ilevel, stack>>
            ELSE /\ isr' = isr \ {l}
                 /\ ilevel' = l
                 /\ UNCHANGED <<pic1_isr, stack>>
  /\ gstack' = IF gstack = <<>> THEN gstack
               ELSE [gstack EXCEPT ![Len(gstack)].eois = @ + 1]
  /\ Trap
  /\ UNCHANGED <<irr, pirr, wirr, pic0_imr, pic1_imr, pice_imr, iflag, imr,
                 smm, icount, sched, vif, ndev, nfake, nreg, nreset, funcs>>

GuestEOI ==
  /\ GuestRuns
  /\ Faithful => gstack # <<>> /\ Last(gstack).eois < Needed(Last(gstack).lvl)
  /\ LET l == IF stack # <<>> THEN Last(stack) ELSE ilevel
     IN IF l = NoLevel
          THEN UNCHANGED <<isr, pic1_isr, ilevel, stack>>
          ELSE IF l \in pic1_isr
            THEN /\ pic1_isr' = pic1_isr \ {l}
                 /\ UNCHANGED <<isr, ilevel, stack>>
            ELSE /\ isr' = isr \ {l}
                 /\ ilevel' = PicPop(stack).val
                 /\ stack' = PicPop(stack).stack
                 /\ UNCHANGED pic1_isr
  /\ gstack' = IF gstack = <<>> THEN gstack
               ELSE [gstack EXCEPT ![Len(gstack)].eois = @ + 1]
  /\ Trap
  /\ UNCHANGED <<irr, pirr, wirr, pic0_imr, pic1_imr, pice_imr, iflag, imr,
                 smm, icount, sched, vif, ndev, nfake, nreg, nreset, funcs>>

(***************************************************************************)
(* The guest irets through a frame faked by do_irq: it lands on the hlt at *)
(* PIC_SEG:PIC_OFF and pic_iret runs: one nesting level less, queued       *)
(* requests not active move to the request register, and the scheduled    *)
(* timers are activated unless interrupts are still nested too deep.       *)
(***************************************************************************)
PicIret ==
  LET ic == IF icount > 0 THEN icount - 1 ELSE 0
      newirr == pirr \ (irr \cup isr)
      r == irr \cup newirr
      p == pirr \ newirr
      a == Activate(r, p, isr, itime, ltime, sys_time, ic)
  IN IF icount > 0
       THEN /\ icount' = ic
            /\ wirr' = wirr \ newirr
            /\ IF ic <= IcountOD
                 THEN /\ irr' = a.irr /\ pirr' = a.pirr
                      /\ itime' = a.itime /\ ltime' = a.ltime
                      /\ dos_time' = a.dos
                 ELSE /\ irr' = r /\ pirr' = p
                      /\ UNCHANGED <<itime, ltime, dos_time>>
       ELSE UNCHANGED <<icount, irr, pirr, wirr, itime, ltime, dos_time>>

GuestIret ==
  /\ GuestRuns
  /\ gstack # <<>>
  /\ Faithful => Last(gstack).eois >= Needed(Last(gstack).lvl)
  /\ PicIret
  /\ gstack' = Front(gstack)
  /\ vif' = Last(gstack).vif
  /\ Trap
  /\ UNCHANGED <<isr, pic1_isr, pic0_imr, pic1_imr, pice_imr, iflag, imr, smm,
                 ilevel, stack, sys_time, ndev, nfake, nreg, nreset, funcs>>

\* a program that leaves an ISR without its iret ("fakes an iret"),
\* e.g. by a far jump after its EOIs
GuestSkipIret ==
  /\ GuestRuns
  /\ gstack # <<>>
  /\ Faithful => Last(gstack).eois >= Needed(Last(gstack).lvl)
  /\ nfake < MaxFake
  /\ gstack' = Front(gstack)
  /\ nfake' = nfake + 1
  /\ UNCHANGED <<pic, sched, host, vif, ndev, nreg, nreset>>

(***************************************************************************)
(* The guest programs the chips: an OCW1 to a data port (icw_state 0)      *)
(* loads the mask through set_pic0_imr / set_pic1_imr, which recompute     *)
(* pic_imr; an OCW3 may switch special mask mode.  Port writes trap.       *)
(***************************************************************************)
GuestWriteMask(c, v) ==
  /\ GuestRuns
  /\ pic0_imr' = IF c = 0 THEN Pic0ToEmu(v) ELSE pic0_imr
  /\ pic1_imr' = IF c = 1 THEN Pic1ToEmu(v) ELSE pic1_imr
  /\ imr' = SetMask(pic0_imr', pic1_imr', pice_imr, iflag)
  /\ Trap
  /\ UNCHANGED <<irr, isr, pic1_isr, pirr, wirr, pice_imr, iflag, smm, ilevel,
                 stack, icount, sched, gstack, vif, ndev, nfake, nreg, nreset, funcs>>

GuestWriteOCW3(v) ==
  /\ GuestRuns
  /\ smm' = OCW3Smm(v, smm)
  /\ Trap
  /\ UNCHANGED <<irr, isr, pic1_isr, pirr, wirr, pic0_imr, pic1_imr, pice_imr,
                 iflag, imr, ilevel, stack, icount, sched, gstack, vif, ndev,
                 nfake, nreg, nreset, funcs>>

GuestSti ==
  /\ GuestRuns /\ ~vif
  /\ Len(gstack) < MaxGuestNest
  /\ vif' = TRUE
  /\ UNCHANGED <<pic, sched, host, gstack, ndev, nfake, nreg, nreset>>

(***************************************************************************)
(* Timer signal: pic_watch.  Watchdog: requests queued since the previous  *)
(* tick and still not active are forced into the request register.  Then  *)
(* the wall time t (mod Period) becomes pic_sys_time; if it went backwards *)
(* the table is rebased by one Period, and timers that are already past    *)
(* are dropped.  Finally the due timers are activated unless nested.       *)
(***************************************************************************)
Rebase(it, lt) ==
  [it |-> [l \in Timers |-> IF it[l] >= dos_time
                             THEN IF it[l] # NEVER THEN Long(it[l] - Period)
                                  ELSE it[l]
                             ELSE NEVER],
   lt |-> [l \in Timers |-> IF it[l] >= dos_time
                             THEN IF lt[l] # NEVER THEN Long(lt[l] - Period)
                                  ELSE lt[l]
                             ELSE NEVER]]

\* the wall time pic_watch reads: t_time mod Period, or in the micro build
\* the previous time plus up to Period - 1 ticks, with -1 taken as 0
NextTimes ==
  IF Timing = "wrap" THEN 0..(Period - 1)
  ELSE {IF Long(sys_time + d) = -1 THEN 0 ELSE Long(sys_time + d) : d \in 0..(Period - 1)}

Tick ==
  \E t \in NextTimes :
    LET newirr == wirr \ (irr \cup isr)
        r == irr \cup newirr
        p == pirr \ newirr
        rb == IF Timing = "wrap" /\ t < sys_time THEN Rebase(itime, ltime)
              ELSE [it |-> itime, lt |-> ltime]
        a == Activate(r, p, isr, rb.it, rb.lt, t, icount)
    IN /\ wirr' = (wirr \ newirr) \cup p
       /\ sys_time' = t
       /\ IF icount <= IcountOD
            THEN /\ irr' = a.irr /\ pirr' = a.pirr
                 /\ itime' = a.itime /\ ltime' = a.ltime
                 /\ dos_time' = a.dos
            ELSE /\ irr' = r /\ pirr' = p
                 /\ itime' = rb.it /\ ltime' = rb.lt
                 /\ dos_time' = rb.it[NoLevel]
       /\ UNCHANGED <<isr, pic1_isr, pic0_imr, pic1_imr, pice_imr, iflag, imr,
                      smm, ilevel, stack, icount, env, funcs>>

(***************************************************************************)
(* Boot followed by virt_pic_reset: masks and times to their defaults, the *)
(* registered levels unmasked (pic_unmaski) and the timer requested.       *)
(***************************************************************************)
Init ==
  /\ irr = IF 1 \in Handlers THEN {1} ELSE {}
  /\ isr = {} /\ pic1_isr = {} /\ pirr = {} /\ wirr = {}
  /\ pic0_imr = 11..15 /\ pic1_imr = 3..10
  /\ pice_imr = Levels \ Handlers
  /\ iflag = FALSE
  /\ imr = SetMask(pic0_imr, pic1_imr, pice_imr, iflag)
  /\ smm = 0 /\ ilevel = NoLevel /\ stack = <<>> /\ icount = 0
  /\ itime = [l \in Timers |-> NEVER] /\ ltime = [l \in Timers |-> NEVER]
  /\ sys_time = NEVER /\ dos_time = 0
  /\ host = <<>> /\ gstack = <<>> /\ vif = FALSE
  /\ funcs = Handlers
  /\ ndev = 0 /\ nfake = 0 /\ nreg = 0 /\ nreset = 0

Next ==
  /\ ~Aborted
  /\ \/ PicRun \/ RunIrqsStep
     \/ HandlerSched \/ HandlerDoIrq \/ HandlerReturn
     \/ DoIrqTest \/ DoIrqPost
     \/ GuestEOI \/ GuestIret \/ GuestSkipIret \/ GuestSti
     \/ \E c \in {0, 1}, v \in MaskBytes : GuestWriteMask(c, v)
     \/ \E v \in SmmCmds : GuestWriteOCW3(v)
     \/ \E l \in Handlers : DeviceRequest(l)
     \/ \E l \in Handlers, set \in BOOLEAN : DeviceSeti(l, set)
     \/ \E l \in Handlers : DeviceMaski(l) \/ DeviceUnmaski(l)
     \/ VirtPicReset
     \/ Tick

Spec == Init /\ [][Next]_vars

(***************************************************************************)
(* Fairness.  The emulator's thread keeps running (its main loop calls     *)
(* pic_run, a vm86 run returns at the latest on the next signal), the      *)
(* interval timer keeps firing, and a faithful guest eventually sends the  *)
(* EOIs and irets its ISRs owe and eventually enables interrupts; its      *)
(* steps are only enabled while it runs, hence strong fairness.            *)
(***************************************************************************)
Fairness ==
  /\ WF_vars(PicRun) /\ WF_vars(RunIrqsStep)
  /\ WF_vars(HandlerSched) /\ WF_vars(HandlerDoIrq) /\ WF_vars(HandlerReturn)
  /\ WF_vars(DoIrqTest) /\ WF_vars(DoIrqPost)
  /\ WF_vars(Tick)
  /\ Faithful => /\ SF_vars(GuestEOI) /\ SF_vars(GuestIret) /\ SF_vars(GuestSti)

FairSpec == Spec /\ Fairness

(***************************************************************************)
(* Properties.                                                             *)
(***************************************************************************)
Frame == [f : {"run"}, saved : 0..NoLevel, thr : Int, clob : BOOLEAN]
         \cup [f : {"hnd"}, lvl : Handlers, pc : {"sched", "irq", "ret"}]
         \cup [f : {"irq"}, pc : {"test", "guest", "trapped", "abort"}]

TypeOK ==
  /\ irr \subseteq Handlers /\ isr \subseteq Handlers
  /\ pic1_isr \subseteq Pic1Levels /\ pirr \subseteq Handlers
  /\ wirr \subseteq Handlers
  /\ imr \subseteq Levels /\ iflag \in BOOLEAN /\ smm \in {0, 32}
  /\ ilevel \in 0..NoLevel /\ stack \in Seq(0..NoLevel) /\ Len(stack) <= 32
  /\ icount \in Nat
  /\ itime \in [Timers -> -Half..(Half - 1)]
  /\ ltime \in [Timers -> -Half..(Half - 1)]
  /\ sys_time \in -Half..(Half - 1) /\ dos_time \in -Half..(Half - 1)
  /\ host \in Seq(Frame)
  /\ gstack \in Seq([lvl : Levels, eois : Nat, vif : BOOLEAN])
  /\ vif \in BOOLEAN
  /\ funcs \subseteq Handlers /\ pice_imr \subseteq Levels

\* levels whose guest ISR is running and still owes its EOIs, oldest first
Owing == LET owes(fr) == fr.lvl \in IRQALL /\ fr.eois < Needed(fr.lvl)
         IN [i \in 1..Len(SelectSeq(gstack, owes)) |->
               SelectSeq(gstack, owes)[i].lvl]

(* EOI bookkeeping (spec 4.1, the comment above pic_push): with a guest   *)
(* whose ISRs send their EOIs and irets, pic_stack holds exactly the IRQ   *)
(* levels whose guest ISR has not yet sent its last EOI, in nesting order, *)
(* so every EOI resets the level of the ISR that sent it.                  *)
StackSync == stack = Owing

(* "No single interrupt is ever re-entered" (do_irq): a level's handler is *)
(* never called again while an earlier call of it is still on the          *)
(* emulator's stack.                                                       *)
NoReentry ==
  \A i, j \in 1..Len(host) :
    (i < j /\ host[i].f = "hnd" /\ host[j].f = "hnd") => host[i].lvl # host[j].lvl

\* the step calls a handler from run_irqs
Dispatches == Len(host') = Len(host) + 1 /\ Last(host').f = "hnd"

(* Masking (spec 8, and 4.2: a level without a handler is never           *)
(* dispatched): run_irqs calls the handler of a level only if neither chip *)
(* mask nor the emulator mask pice_imr holds it and its handler is set.    *)
(* pic_imr, the copy the asm scan reads, must therefore be current         *)
(* whenever run_irqs runs.                                                 *)
DispatchRespectsMask ==
  [][Dispatches => LET l == Last(host').lvl
                   IN l \notin pic0_imr \cup pic1_imr \cup pice_imr /\ l \in funcs]_vars

\* the step is an EOI sent by the guest's current ISR
EOISent == gstack # <<>> /\ gstack' = [gstack EXCEPT ![Len(gstack)].eois = @ + 1]

(* EOI round trip (spec 4.1 and 8): when an ISR sends its last EOI (the     *)
(* second for a level of the second chip), the level it serves leaves the  *)
(* in-service register, whatever else pic_stack holds.                     *)
EOIResetsSender ==
  [][EOISent /\ gstack'[Len(gstack)].eois = Needed(Last(gstack).lvl)
       => Last(gstack).lvl \notin isr']_vars

(* Every level put in service by run_irqs is eventually taken out of it   *)
(* (by the guest's EOI through write_pic0/1, or by the handler's return in *)
(* run_irqs), so no level stays blocked.                                   *)
ServiceCompletes == \A l \in Handlers : (l \in isr) ~> (l \notin isr)

(* Throttling ends (spec 5: the watchdog in tick is the recovery path for *)
(* a stuck dispatch): once pic_icount exceeds pic_icount_od, so that       *)
(* pic_watch and pic_iret stop calling pic_activate, it eventually drops   *)
(* back to the threshold.                                                  *)
ThrottleEnds == (icount > IcountOD) ~> (icount <= IcountOD)

(* Wraparound (spec 8): the rebase in pic_watch keeps every scheduled      *)
(* timer; an entry set by pic_sched for a time not yet delivered is never  *)
(* turned into NEVER by a tick.                                            *)
WrapKeepsSchedule ==
  [][\A l \in Handlers :
       itime[l] # NEVER /\ itime[l] # ltime[l] => itime'[l] # NEVER]_vars

(* pic_sched keeps a periodic source alive (spec 8: the schedule is kept, *)
(* and in the micro build "wraparound now is smoothly at 1h interval"):    *)
(* the entry of a level pic_activate has delivered (ltime set) is never    *)
(* NEVER, the value pic_activate skips, unless its ltime was cleared with  *)
(* it by a rebase or a reset.                                              *)
ScheduleLive == \A l \in Handlers : itime[l] = NEVER => ltime[l] = NEVER
=============================================================================
