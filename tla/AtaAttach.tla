----------------------------- MODULE AtaAttach ------------------------------
(***************************************************************************)
(* Attach of the ATA driver, src/sys/dev/ata-all.c in its EXOPC build,    *)
(* composed with the transfer-mode setup of AtaDmaInit.  At boot          *)
(* ata_pciattach finds the controller's two channels, their bus-master    *)
(* ports and interrupts, and ata_probe with ata_reset finds the drives on *)
(* each channel (scp->devices); then ad_attach (ata-disk.c, not in the    *)
(* tree) calls ata_dmainit for the devices, whose SETFEATURES commands go *)
(* through ata_command.  The drives' register answers to the probe are an *)
(* input drawn from Controllers.  ATAPI drivers are not compiled in EXOPC *)
(* but AtaDmaInit keeps their calls of ata_dmainit.                       *)
(***************************************************************************)
EXTENDS AtaDmaInit

CONSTANT Controllers(_)  \* per chip, the controllers PCI may present
\* pcireg.h / isareg.h (not in the tree; FreeBSD's values)
PCIP_STORAGE_IDE_MASTERDEV == \h80
IO_WD1 == \h1f0
IO_WD2 == \h170

VARIABLES
  bm,        \* [Units -> port]: scp->bmaddr (0: none)
  irqh       \* [Units -> BOOLEAN]: atadevicesbyirq[scp->irq] = scp

attvars == <<bm, irqh>>
allvars == <<vars, attvars>>

(***************************************************************************)
(* Boot: ata_pciattach, ata_probe, ata_reset                               *)
(***************************************************************************)
\* a drive position's register answers: st, the status read at line 536 or
\* 539; hung, still BUSY when ata_reset's wait ends; sig, the ATAPI
\* signature in the cylinder registers; echo, the ATA_ERROR / ATA_CYL_LSB
\* write-and-read test of lines 574-577 passes
ProbeMask(ans) ==
  (IF (ans[0].st & \hf8) # \hf8 THEN 1 ELSE 0) + (IF (ans[1].st & \hf8) # \hf8 THEN 2 ELSE 0)

\* ata_reset (lines 789-834): after the reset pulse it polls until every
\* device of *mask is out of BUSY or the 310000 polls are done, then
\* drops from *mask the devices whose last status still says BUSY
HungBits(ans) == (IF ans[0].hung THEN 1 ELSE 0) + (IF ans[1].hung THEN 2 ELSE 0)
AtaReset(mask, ans) == mask & (3 - HungBits(ans))

\* ata_probe (lines 487-591): no device answers, or none survives the
\* reset: the channel is not attached; else an ATAPI signature makes an
\* ATAPI device, and a position with no signature, a non-zero first status
\* and a passing register test an ATA disk (the reset's mask is not
\* consulted again)
ProbeDevices(ans) ==
  LET devs == {<<"atapi", i>> : i \in {j \in 0..1 : ans[j].sig}}
              \cup {<<"ata", i>> : i \in {j \in 0..1 : ans[j].st # 0 /\ ~ans[j].sig /\ ans[j].echo}}
  IN IF ProbeMask(ans) = 0 \/ AtaReset(ProbeMask(ans), ans) = 0 THEN {} ELSE devs

\* the bus-master port of channel u (lines 330-374): a controller whose
\* programming interface says bus-master capable (MASTERDEV) has one when
\* bus mastering is on (PCI_COMMAND & 5) and BAR 0x20 is set, the
\* secondary's at + ATA_BM_OFFSET1; any other keeps BAR 0x20 (the
\* secondary's plus 8, even when the BAR is 0) only if it is a Promise or
\* an HPT366
BmAddr(ctl, u) ==
  IF (ctl.class & PCIP_STORAGE_IDE_MASTERDEV) # 0
    THEN IF (ctl.cmd & 5) = 5 /\ ctl.bar20 # 0 THEN ctl.bar20 + 8 * u ELSE 0
    ELSE IF chip \in {"PROMISE33", "PROMISE66", "HPT366"} THEN ctl.bar20 + 8 * u ELSE 0

\* the channel's I/O base: IO_WD1 / IO_WD2 for a MASTERDEV controller, else
\* BAR 0x10 / 0x18 (lines 320-339); in EXOPC only the primary channel at
\* IO_WD1 and the secondary at IO_WD2 get atadevicesbyirq[] and the ataintr
\* handler (the tests at lines 388 and 426): the `else` that hooks up other
\* channels is #ifndef EXOPC
WdBase(u) == IF u = 0 THEN IO_WD1 ELSE IO_WD2
IoBase(ctl, u) ==
  IF (ctl.class & PCIP_STORAGE_IDE_MASTERDEV) # 0 THEN WdBase(u) ELSE ctl.bar[u + 1]

\* on the Aladdin the ATAPI FIFO is turned on (lines 377-380)
PciAttachCfg(ch, c) ==
  IF ch = "ALADDIN" THEN [c EXCEPT ![0][\h53] = (@ & \hfe) | 2] ELSE c

\* ata_pciattach (lines 292-467), up to its call of ad_attach
PciAttach(ctl) ==
  /\ devices = [u \in Units |-> ProbeDevices(ctl.drives[u])]
  /\ bm = [u \in Units |-> BmAddr(ctl, u)]
  /\ irqh = [u \in Units |-> devices[u] # {} /\ IoBase(ctl, u) = WdBase(u)]

AttachInit == Init /\ \E ctl \in Controllers(chip) : PciAttach(ctl)

(***************************************************************************)
(* ad_attach's calls of ata_dmainit, and ata_command                       *)
(***************************************************************************)
\* ata_dmainit (ata-dma.c lines 86-495) for a present device: without a
\* bus-master port it returns -1 at line 93; else the call of AtaDmaInit,
\* whose SETFEATURES commands ata_command sends (lines 909-977: ata_wait
\* for the drive, the registers written, scp->active ATA_WAIT_READY while
\* ata_wait polls for READY, then ATA_IDLE whatever the answer)
AttachDmaInit(u, d, a) ==
  /\ \/ bm[u] # 0 /\ DmaInit(u, d, a)
     \/ /\ bm[u] = 0 /\ (Atapi(u, d) \/ AtaDisk(u, d))
        /\ calls[u][Idx(d)] < MaxCalls
        /\ calls' = [calls EXCEPT ![u][Idx(d)] = @ + 1]
        /\ UNCHANGED <<chip, devices, cfg, bmstat, p11, ro, active, mode, dmatab, xfer>>
  /\ UNCHANGED attvars

\* ata_dmastart and ata_dmadone by the disk driver, as in AtaDmaInit
AttachNext ==
  \/ \E u \in Units, d \in Devices, a \in Args : AttachDmaInit(u, d, a)
  \/ (\E u \in Units, d \in Devices : bm[u] # 0 /\ DmaStart(u, d)) /\ UNCHANGED attvars
  \/ (\E u \in Units : DmaDone(u)) /\ UNCHANGED attvars

AttachSpec == AttachInit /\ [][AttachNext]_allvars

(***************************************************************************)
(* Properties                                                              *)
(***************************************************************************)
\* Every channel on which ata_probe found a device can be driven: it has
\* the ataintr handler in atadevicesbyirq[] for its interrupt, which the
\* disk driver's requests wait for.
IrqRegistered == \A u \in Units : devices[u] # {} => irqh[u]

\* The bus-master port ata_dmainit and the DMA routines write is one the
\* controller decodes, never a legacy ISA port below 0x100 (0x0a, the
\* secondary's status port when BAR 0x20 is 0, is the mask register of
\* the first 8237 DMA controller).
BmPortDecoded == \A u \in Units : bm[u] = 0 \/ bm[u] >= \h100
====
