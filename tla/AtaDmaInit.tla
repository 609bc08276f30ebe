----------------------------- MODULE AtaDmaInit -----------------------------
(***************************************************************************)
(* Transfer-mode setup of the ATA driver: ata_dmainit and hpt366_timing   *)
(* of src/sys/dev/ata-dma.c, with ata_dmastart and ata_dmadone.  A call    *)
(* ata_dmainit(scp, device, apiomode, wdmamode, udmamode) allocates the    *)
(* device's DMA table, then, by the PCI id of the controller, sends the    *)
(* drive SETFEATURES for the best mode both support and programs the      *)
(* controller's timing registers; on success it records the mode in       *)
(* scp->mode[], on failure it frees the table and returns -1.             *)
(*                                                                         *)
(* PCI configuration space is kept as bytes (a 32-bit access is four      *)
(* little-endian bytes); the channel's bus-master status port and the     *)
(* Promise port at bmaddr + 0x11 are bytes too.  ata_command (ata-all.c)  *)
(* is the drive's answer: it succeeds, and the drive switches to the mode *)
(* it was sent, or it fails and the drive keeps its mode.  The arguments  *)
(* come from the drive's identify data (ata_pmode & co., not in the tree):*)
(* they are an input drawn from Args.                                      *)
(***************************************************************************)
EXTENDS Integers, FiniteSets, Bitwise

CONSTANTS
  Chips,        \* the controllers scp->dev may be, by name
  Layouts,      \* the values scp->devices may have on the two channels
  InitCfg(_),   \* the configuration spaces the BIOS may leave, per chip
  InitBmStat,   \* the values the two bus-master status ports may have
  InitP11,      \* the values the two Promise ports bmaddr + 0x11 may have
  Args,         \* [apio, wdma, udma, u66] a caller may pass
  Answers,      \* [pre, post]: the status a drive shows before and after a command
  MaxCalls      \* calls of ata_dmainit per device (1: ad_attach only)

Units == {0, 1}                      \* scp->unit: primary, secondary
ATA_MASTER == 0
ATA_SLAVE == 16
Devices == {ATA_MASTER, ATA_SLAVE}

ATA_MODE_PIO == 0
ATA_MODE_WDMA2 == 1
ATA_MODE_UDMA2 == 2
ATA_MODE_UDMA3 == 4
ATA_MODE_UDMA4 == 8
Modes == {ATA_MODE_PIO, ATA_MODE_WDMA2, ATA_MODE_UDMA2, ATA_MODE_UDMA3, ATA_MODE_UDMA4}
NoMode == -1                         \* "break": no mode recorded

Idx(d) == IF d = ATA_MASTER THEN 0 ELSE 1
Devno(u, d) == 2 * u + Idx(d)

VARIABLES
  chip,     \* scp->dev->vendor | scp->dev->device << 16
  devices,  \* [Units -> SUBSET {"ata", "atapi"} x {0, 1}]: scp->devices
  cfg,      \* [{0, 1} -> [offset -> byte]]: PCI configuration space
  bmstat,   \* [Units -> byte]: inb(scp->bmaddr + ATA_BMSTAT_PORT)
  p11,      \* [Units -> byte]: the port scp->bmaddr + 0x11
  ro,       \* [Units -> BOOLEAN]: scp->flags & ATA_ATAPI_DMA_RO
  active,   \* [Units -> BOOLEAN]: scp->flags & ATA_DMA_ACTIVE
  mode,     \* [Units -> [{0, 1} -> Modes]]: scp->mode[]
  dmatab,   \* [Units -> [{0, 1} -> {"none", "live", "freed"}]]: scp->dmatab[]
  xfer,     \* [Units -> [{0, 1} -> Modes]]: the mode each drive is in
  calls     \* [Units -> [{0, 1} -> Nat]]: ata_dmainit calls so far

vars == <<chip, devices, cfg, bmstat, p11, ro, active, mode, dmatab, xfer, calls>>

\* the HPT366 has one PCI function per channel, the others one for both
Fn(u) == IF chip = "HPT366" THEN u ELSE 0
C0(u) == cfg[Fn(u)]

Bit(x, k) == (x \div 2^k) % 2 = 1
\* a shift by a register count on x86 uses the count modulo 32
ShiftX86(n) == n % 32
\* a little-endian 32-bit value as bytes 1..4, from its two 16-bit halves
HL(hi, lo) == <<lo % 256, lo \div 256, hi % 256, hi \div 256>>
Word(v) == HL(v \div 65536, v % 65536)
SetBytes(c, o, s) == [p \in DOMAIN c |-> IF p - o + 1 \in 1..4 THEN s[p - o + 1] ELSE c[p]]
\* pci_write_config(dev, o, (pci_read_config(dev, o, 4) & ~mask) | new, 4)
RMW(c, o, mask, new) ==
  SetBytes(c, o, [k \in 1..4 |-> (c[o + k - 1] & (255 - mask[k])) | new[k]])

Atapi(u, d) == <<"atapi", Idx(d)>> \in devices[u]
AtaDisk(u, d) == <<"ata", Idx(d)>> \in devices[u]

\* the outcome of one call: the channel's config space and port, the flag,
\* the mode recorded (NoMode: the table is freed) and the mode the drive
\* last accepted (NoMode: none this call)
Ret(c, p, r, m, acc) == [cfg |-> c, p11 |-> p, ro |-> r, mode |-> m, acc |-> acc]
Break(u, c, acc) == Ret(c, p11[u], ro[u], NoMode, acc)
Done(u, c, m) == Ret(c, p11[u], ro[u], m, m)

(***************************************************************************)
(* ata_wait and ata_command (ata-all.c lines 871-977), for SETFEATURES     *)
(* with ATA_WAIT_READY (ATA_WAIT_INTR falls into it: its tsleep is         *)
(* #ifndef EXOPC).  The status register is taken to read the same all     *)
(* through a wait: the drive's answer is the status it settles in.        *)
(***************************************************************************)
ATA_S_ERROR == \h01
ATA_S_READY == \h40
ATA_S_BUSY == \h80

\* ata_wait: -1 for no status (0xff, after one reselect) or a timeout
\* (still BUSY, or mask never set); else the status's ERROR bit
AtaWait(st, mask) ==
  IF st = \hff THEN -1
  ELSE IF (st & ATA_S_BUSY) = 0 /\ (st & mask) = mask THEN st & ATA_S_ERROR
  ELSE -1

\* ata_command: -1 if the drive is not ready for the command, or if it
\* does not come back READY; a result of ata_wait that is not negative,
\* an ERROR status included, makes it return 0
AtaCommand(s) ==
  IF AtaWait(s.pre, 0) < 0 \/ AtaWait(s.post, ATA_S_READY) < 0 THEN -1 ELSE 0

\* the outcomes ata_command may report to ata_dmainit: `ok` is 0
CmdResults == {AtaCommand(s) = 0 : s \in Answers}

\* the drive took the command: it ended READY without ERROR (a drive that
\* aborts SETFEATURES keeps its mode)
Accepts(s) == AtaCommand(s) = 0 /\ (s.post & ATA_S_ERROR) = 0

(***************************************************************************)
(* hpt366_timing (lines 715-754): the timing word for the clock read from *)
(* byte 1 of the device's timing register; an unknown clock is taken as  *)
(* 33MHz.  (Its inner `default` rows serve no mode the callers pass.)     *)
(***************************************************************************)
HptTiming(clk, m) ==
  CASE clk = \h85 ->
         (CASE m = ATA_MODE_PIO -> HL(\hc0ca, \h8521) [] m = ATA_MODE_WDMA2 -> HL(\ha0ca, \h8521)
            [] m \in {ATA_MODE_UDMA2, ATA_MODE_UDMA3} -> HL(\h90cf, \h8521)
            [] m = ATA_MODE_UDMA4 -> HL(\h90c9, \h8521))
    [] clk = \hd9 ->
         (CASE m = ATA_MODE_PIO -> HL(\hc008, \hd963) [] m = ATA_MODE_WDMA2 -> HL(\ha008, \hd943)
            [] m = ATA_MODE_UDMA2 -> HL(\h900b, \hd943) [] m = ATA_MODE_UDMA3 -> HL(\h900a, \hd943)
            [] m = ATA_MODE_UDMA4 -> HL(\h900f, \hd943))
    [] OTHER ->
         (CASE m = ATA_MODE_PIO -> HL(\hc0c8, \ha731) [] m = ATA_MODE_WDMA2 -> HL(\ha0c8, \ha731)
            [] m = ATA_MODE_UDMA2 -> HL(\h90ca, \ha731) [] m = ATA_MODE_UDMA3 -> HL(\h90cf, \ha731)
            [] m = ATA_MODE_UDMA4 -> HL(\h90c9, \ha731))

HptClock(u, d) == C0(u)[\h41 + 4 * Idx(d)]
HptSet(u, d, m) == SetBytes(C0(u), \h40 + 4 * Idx(d), HptTiming(HptClock(u, d), m))

(***************************************************************************)
(* The branches of the switch on the PCI id.  Each gives the set of       *)
(* outcomes, one per answer ata_command may give; `ok` is its success.    *)
(***************************************************************************)
\* Intel PIIX4, udmamode >= 2 (lines 128-149): UDMA2 enable bit and timing
\* field of the device in the word at 0x48
Piix4(u, d) ==
  LET dn == Devno(u, d)
      c == RMW(C0(u), \h48, Word(2^dn + 3 * 2^(16 + 4 * dn)), Word(2^dn + 2 * 2^(16 + 4 * dn)))
  IN {IF ok THEN Done(u, c, ATA_MODE_UDMA2) ELSE Break(u, C0(u), NoMode) : ok \in CmdResults}

\* "if SITRE not set doit for both channels" (lines 155-170): the test
\* shifts the word at 0x40 right by unit << 8; a channel whose SITRE bit
\* is clear gets its slave timing at 0x44 from its master's, then both
\* channels' SITRE bits are set
SitreTested(c, u) == LET k == 14 + ShiftX86(u * 2^8) IN k < 32 /\ Bit(c[\h40 + k \div 8], k % 8)
\* mutant: the master's timing bits 8-9 taken without their mask
SlaveFromMasterUnmasked(b) == ((b \div 16) % 4) * 4 + b
SlaveFromMaster(b) == ((b \div 16) % 4) * 4 + (b % 4)
SitreBoth(c) ==
  LET n0 == IF Bit(c[\h41], 6) THEN c[\h44] % 16 ELSE SlaveFromMaster(c[\h41])
      n1 == IF Bit(c[\h43], 6) THEN c[\h44] \div 16 ELSE SlaveFromMaster(c[\h43])
  IN [c EXCEPT ![\h41] = @ | \h40, ![\h43] = @ | \h40, ![\h44] = n1 * 16 + n0]

\* mutant: the slave's 0x44 nibble not shifted for the secondary channel
Piix3NoShift44(u, d, a) ==
  IF ~(a.wdma >= 2 /\ a.apio >= 4) THEN {Break(u, C0(u), NoMode)}
  ELSE
    LET c1 == IF SitreTested(C0(u), u) THEN C0(u) ELSE SitreBoth(C0(u))
        sh == 2^(16 * u)
        c2 == IF d = ATA_MASTER
                THEN RMW(c1, \h40, Word(\h330f * sh), Word(\h2307 * sh))
                ELSE RMW(RMW(c1, \h40, Word(\hf0 * sh), Word(\h70 * sh)),
                         \h44, Word(\hf), Word(\hb))
    IN {IF ok THEN Done(u, c2, ATA_MODE_WDMA2) ELSE Break(u, c1, NoMode) : ok \in CmdResults}

\* Intel PIIX3, and PIIX4 below UDMA2 (lines 151-205): WDMA2 timing in the
\* channel's half of 0x40 and, for the slave, its nibble of 0x44
Piix3(u, d, a) ==
  IF ~(a.wdma >= 2 /\ a.apio >= 4) THEN {Break(u, C0(u), NoMode)}
  ELSE
    LET c1 == IF SitreTested(C0(u), u) THEN C0(u) ELSE SitreBoth(C0(u))
        sh == 2^(16 * u)
        c2 == IF d = ATA_MASTER
                THEN RMW(c1, \h40, Word(\h330f * sh), Word(\h2307 * sh))
                ELSE RMW(RMW(c1, \h40, Word(\hf0 * sh), Word(\h70 * sh)),
                         \h44, Word(\hf * 16^u), Word(\hb * 16^u))
    IN {IF ok THEN Done(u, c2, ATA_MODE_WDMA2) ELSE Break(u, c1, NoMode) : ok \in CmdResults}

\* Intel PIIX (lines 207-230): WDMA2 only if the BIOS left a DMA-capable
\* timing for the channel and the device's timing enable bit
Piix(u, d, a) ==
  IF /\ a.wdma >= 2 /\ a.apio >= 4
     /\ (C0(u)[\h41 + 2 * u] & \h33) = \h23
     /\ Bit(C0(u)[\h40 + 2 * u], 4 * Idx(d))
    THEN {IF ok THEN Done(u, C0(u), ATA_MODE_WDMA2) ELSE Break(u, C0(u), NoMode) : ok \in CmdResults}
    ELSE {Break(u, C0(u), NoMode)}

\* AcerLabs Aladdin IV/V (lines 232-275): no DMA with two ATAPI devices;
\* UDMA2 ORs the device's enable-and-timing nibble 0x0a << (16 +
\* (unit << 3) + (device << 2)) into the word at 0x54, whose shift count
\* the CPU takes modulo 32; both modes set the low bits of 0x53 and
\* ATA_ATAPI_DMA_RO
AladdinNibble(u, d) == ShiftX86(16 + 8 * u + 4 * d)
AladdinUdma(c, u, d) ==
  LET s == AladdinNibble(u, d)
  IN [c EXCEPT ![\h54] = @ | \h55, ![\h55] = @ | \h55,
               ![\h54 + s \div 8] = @ | (\h0a * 2^(s % 8)), ![\h53] = @ | 3]
AladdinDone(u, c, m) == Ret(c, p11[u], TRUE, m, m)
Aladdin(u, d, a) ==
  CASE Atapi(u, ATA_MASTER) /\ Atapi(u, ATA_SLAVE) -> {Break(u, C0(u), NoMode)}
    [] a.udma >= 2 ->
         {IF ok THEN AladdinDone(u, AladdinUdma(C0(u), u, d), ATA_MODE_UDMA2)
                ELSE Break(u, C0(u), NoMode) : ok \in CmdResults}
    [] a.wdma >= 2 /\ a.apio >= 4 ->
         {IF ok THEN AladdinDone(u, [C0(u) EXCEPT ![\h53] = @ | 3], ATA_MODE_WDMA2)
                ELSE Break(u, C0(u), NoMode) : ok \in CmdResults}
    [] OTHER -> {Break(u, C0(u), NoMode)}

(***************************************************************************)
(* VIA Apollo (lines 277-344): UDMA4 on revision 6, else UDMA2 on         *)
(* revision 1 and up, each enabled at 0x53 - devno for SETFEATURES and    *)
(* that byte put back when the drive refuses, then WDMA2 timing at        *)
(* 0x4b - devno, left in place whatever the drive answers.  A UDMA2 ATA   *)
(* disk on revision 6 whose identify data says UDMA4 without the 80-wire  *)
(* cable (a.u66) gets 0x42 in the byte.                                    *)
(***************************************************************************)
ViaUdmaOn(c, o, b) == [c EXCEPT ![o] = (b & \h1c) | \h40]
ViaWdma(u, d, a, c, acc) ==
  IF a.wdma >= 2 /\ a.apio >= 4
    THEN LET c1 == [c EXCEPT ![\h4b - Devno(u, d)] = \h31]
         IN {IF ok THEN Done(u, c1, ATA_MODE_WDMA2) ELSE Break(u, c1, acc) : ok \in CmdResults}
    ELSE {Break(u, c, acc)}
ViaUdma2(u, d, a, c, acc) ==
  LET o == \h53 - Devno(u, d)
      b == c[o]
      u66 == AtaDisk(u, d) /\ c[\h08] = 6 /\ a.u66
  IN IF a.udma >= 2 /\ c[\h08] >= 1
       THEN {Done(u, IF u66 THEN [c EXCEPT ![o] = (b & \h1c) | \h42] ELSE ViaUdmaOn(c, o, b),
                  ATA_MODE_UDMA2)}
            \cup ViaWdma(u, d, a, c, acc)
       ELSE ViaWdma(u, d, a, c, acc)
Via(u, d, a) ==
  LET o == \h53 - Devno(u, d)
  IN IF a.udma >= 4 /\ C0(u)[\h08] = 6
       THEN {Done(u, ViaUdmaOn(C0(u), o, C0(u)[o]), ATA_MODE_UDMA4)}
            \cup ViaUdma2(u, d, a, C0(u), NoMode)
       ELSE ViaUdma2(u, d, a, C0(u), NoMode)

\* Promise Ultra33/66 (lines 346-401): no DMA on ATAPI devices; the mode's
\* timing word at 0x60 + (devno << 2); UDMA4 only on the Ultra66 with the
\* channel's 80-wire cable (bit 10 + unit of the word at 0x50 clear), and
\* then outb(bmaddr + 0x11, inl(bmaddr + 0x11) | unit ? 8 : 2), where `|`
\* binds before `?:`
PromiseTiming(m) ==
  CASE m \in {ATA_MODE_UDMA4, ATA_MODE_UDMA2} -> HL(\h0041, \h27f3)
    [] m = ATA_MODE_WDMA2 -> HL(\h0043, \h67f3)
    [] m = ATA_MODE_PIO -> HL(\h004f, \he924)
\* inl reads the ports 0x11-0x14; only 0x11 is kept (p11), so with it 0 the
\* unit-0 test may go either way on the three bytes above it
PromiseClock(u) == IF p11[u] # 0 \/ u # 0 THEN {8} ELSE {2, 8}
Promise(u, d, a) ==
  LET o == \h60 + 4 * Devno(u, d)
      T(m) == SetBytes(C0(u), o, PromiseTiming(m))
  IN CASE Atapi(u, d) -> {Break(u, C0(u), NoMode)}
       [] a.udma >= 4 /\ chip = "PROMISE66" /\ ~Bit(C0(u)[\h51], 2 + u) ->
            {IF ok THEN Ret(T(ATA_MODE_UDMA4), clk, ro[u], ATA_MODE_UDMA4, ATA_MODE_UDMA4)
                   ELSE Break(u, C0(u), NoMode) : ok \in CmdResults, clk \in PromiseClock(u)}
       [] a.udma >= 2 ->
            {IF ok THEN Done(u, T(ATA_MODE_UDMA2), ATA_MODE_UDMA2)
                   ELSE Break(u, C0(u), NoMode) : ok \in CmdResults}
       [] a.wdma >= 2 /\ a.apio >= 4 ->
            {IF ok THEN Done(u, T(ATA_MODE_WDMA2), ATA_MODE_WDMA2)
                   ELSE Break(u, C0(u), NoMode) : ok \in CmdResults}
       [] OTHER -> {Break(u, T(ATA_MODE_PIO), NoMode)}

\* HighPoint HPT366 (lines 403-468): no DMA on ATAPI devices; UDMA4, then
\* UDMA3, only with the 80-wire cable (bit 1 of 0x5a clear); a drive that
\* refuses the first mode tried leaves the call; with no DMA mode the PIO
\* timing is written and the call fails
HptTry(u, d, m) ==
  {IF ok THEN Done(u, HptSet(u, d, m), m) ELSE Break(u, C0(u), NoMode) : ok \in CmdResults}
Hpt(u, d, a) ==
  LET cable40 == Bit(C0(u)[\h5a], 1)
  IN CASE Atapi(u, d) -> {Break(u, C0(u), NoMode)}
       [] a.udma >= 4 /\ ~cable40 -> HptTry(u, d, ATA_MODE_UDMA4)
       [] a.udma >= 3 /\ ~cable40 -> HptTry(u, d, ATA_MODE_UDMA3)
       [] a.udma >= 2 -> HptTry(u, d, ATA_MODE_UDMA2)
       [] a.wdma >= 2 /\ a.apio >= 4 -> HptTry(u, d, ATA_MODE_WDMA2)
       [] OTHER -> {Break(u, HptSet(u, d, ATA_MODE_PIO), NoMode)}

\* any other chip (lines 470-491): generic WDMA2 on an ATA device if the
\* bus-master status port has the DMA-capable bit tested for it
GenericCapBit(d) == IF d = ATA_MASTER THEN 6 ELSE 5
Generic(u, d, a) ==
  IF /\ ~Atapi(u, d)
     /\ (a.wdma >= 2 /\ a.apio >= 4) \/ a.udma >= 2
     /\ Bit(bmstat[u], GenericCapBit(d))
    THEN {IF ok THEN Done(u, C0(u), ATA_MODE_WDMA2) ELSE Break(u, C0(u), NoMode) : ok \in CmdResults}
    ELSE {Break(u, C0(u), NoMode)}

Branch(u, d, a) ==
  CASE chip = "PIIX4" -> IF a.udma >= 2 THEN Piix4(u, d) ELSE Piix3(u, d, a)
    [] chip = "PIIX3" -> Piix3(u, d, a)
    [] chip = "PIIX" -> Piix(u, d, a)
    [] chip = "ALADDIN" -> Aladdin(u, d, a)
    [] chip = "VIA" -> Via(u, d, a)
    [] chip \in {"PROMISE33", "PROMISE66"} -> Promise(u, d, a)
    [] chip = "HPT366" -> Hpt(u, d, a)
    [] OTHER -> Generic(u, d, a)

(***************************************************************************)
(* Actions                                                                 *)
(***************************************************************************)
Init ==
  /\ chip \in Chips
  /\ devices \in Layouts
  /\ cfg \in InitCfg(chip)
  /\ bmstat \in InitBmStat
  /\ p11 \in InitP11
  /\ ro = [u \in Units |-> FALSE]
  /\ active = [u \in Units |-> FALSE]
  /\ mode = [u \in Units |-> [i \in 0..1 |-> ATA_MODE_PIO]]
  /\ dmatab = [u \in Units |-> [i \in 0..1 |-> "none"]]
  /\ xfer = [u \in Units |-> [i \in 0..1 |-> ATA_MODE_PIO]]
  /\ calls = [u \in Units |-> [i \in 0..1 |-> 0]]

\* the switch's outcome r, and the table stored at line 124: kept on
\* success, freed (the pointer left in scp->dmatab[]) on `break`
Apply(u, d, r) ==
  LET i == Idx(d) IN
  /\ cfg' = [cfg EXCEPT ![Fn(u)] = r.cfg]
  /\ p11' = [p11 EXCEPT ![u] = r.p11]
  /\ ro' = [ro EXCEPT ![u] = r.ro]
  /\ mode' = IF r.mode = NoMode THEN mode ELSE [mode EXCEPT ![u][i] = r.mode]
  /\ dmatab' = [dmatab EXCEPT ![u][i] = IF r.mode = NoMode THEN "freed" ELSE "live"]
  /\ xfer' = IF r.acc = NoMode THEN xfer ELSE [xfer EXCEPT ![u][i] = r.acc]

\* ata_dmainit(scp, device, a.apio, a.wdma, a.udma) (lines 86-495), called
\* by the disk or ATAPI driver for a device present on the channel, while
\* the channel runs no DMA; a secondary channel of a simplex controller
\* (bit 7 of its status port; the write before the test changes no bit)
\* returns at once, and a table malloc refuses, or that crosses a page,
\* ends the call before the switch
DmaInit(u, d, a) ==
  LET i == Idx(d) IN
  /\ Atapi(u, d) \/ AtaDisk(u, d)
  /\ calls[u][i] < MaxCalls /\ ~active[u]
  /\ calls' = [calls EXCEPT ![u][i] = @ + 1]
  /\ \/ /\ u = 1 /\ Bit(bmstat[1], 7)
        /\ UNCHANGED <<cfg, p11, ro, mode, dmatab, xfer>>
     \/ /\ ~(u = 1 /\ Bit(bmstat[1], 7))
        /\ \/ UNCHANGED <<cfg, p11, ro, mode, dmatab, xfer>>
           \/ \E r \in Branch(u, d, a), s \in {s \in Answers : AtaCommand(s) = 0} :
                Apply(u, d, IF r.mode # NoMode /\ ~Accepts(s) THEN [r EXCEPT !.acc = NoMode] ELSE r)
  /\ UNCHANGED <<chip, devices, bmstat, active>>

\* ata_dmastart (lines 683-692), by a driver that set up a transfer for a
\* device it runs in DMA mode: ATA_DMA_ACTIVE and the start bit
DmaStart(u, d) ==
  /\ ~active[u] /\ mode[u][Idx(d)] # ATA_MODE_PIO
  /\ active' = [active EXCEPT ![u] = TRUE]
  /\ UNCHANGED <<chip, devices, cfg, bmstat, p11, ro, mode, dmatab, xfer, calls>>

\* ata_dmadone (lines 694-704): stop the engine, clear ATA_DMA_ACTIVE
DmaDone(u) ==
  /\ active[u]
  /\ active' = [active EXCEPT ![u] = FALSE]
  /\ UNCHANGED <<chip, devices, cfg, bmstat, p11, ro, mode, dmatab, xfer, calls>>

Next ==
  \/ \E u \in Units, d \in Devices, a \in Args : DmaInit(u, d, a)
  \/ \E u \in Units, d \in Devices : DmaStart(u, d)
  \/ \E u \in Units : DmaDone(u)

Spec == Init /\ [][Next]_vars

(***************************************************************************)
(* Properties                                                              *)
(***************************************************************************)
TypeOK ==
  /\ chip \in Chips
  /\ \A u \in Units : /\ bmstat[u] \in 0..255 /\ p11[u] \in 0..255
                     /\ ro[u] \in BOOLEAN /\ active[u] \in BOOLEAN
                     /\ \A i \in 0..1 : /\ mode[u][i] \in Modes /\ xfer[u][i] \in Modes
                                       /\ dmatab[u][i] \in {"none", "live", "freed"}
                                       /\ calls[u][i] \in 0..MaxCalls
  /\ \A f \in DOMAIN cfg : \A o \in DOMAIN cfg[f] : cfg[f][o] \in 0..255

\* the timing the controller is programmed with for device i of channel u
\* agrees with DMA mode m, in the registers each chip's setup writes
Nibble(b, i) == (b \div 16^i) % 16
ControllerSet(u, i, m) ==
  LET c == C0(u)
      dn == 2 * u + i
  IN CASE chip \in {"PIIX4", "PIIX3"} /\ m = ATA_MODE_UDMA2 ->
            Bit(c[\h48], dn) /\ Nibble(c[\h4a + u], i) % 4 = 2
       [] chip \in {"PIIX4", "PIIX3"} /\ i = 0 ->
            (c[\h40 + 2 * u] & \h0f) = \h07 /\ (c[\h41 + 2 * u] & \h33) = \h23
       [] chip \in {"PIIX4", "PIIX3"} ->
            (c[\h40 + 2 * u] & \hf0) = \h70 /\ Nibble(c[\h44], u) = \hb
       [] chip = "PIIX" ->
            (c[\h41 + 2 * u] & \h33) = \h23 /\ Bit(c[\h40 + 2 * u], 4 * i)
       [] chip = "ALADDIN" -> (c[\h53] & 3) = 3 /\ ro[u]
       [] chip = "VIA" /\ m = ATA_MODE_WDMA2 -> c[\h4b - dn] = \h31
       [] chip = "VIA" -> Bit(c[\h53 - dn], 6)
       [] chip \in {"PROMISE33", "PROMISE66"} ->
            \A k \in 1..4 : c[\h60 + 4 * dn + k - 1] = PromiseTiming(m)[k]
       [] chip = "HPT366" ->
            \A k \in 1..4 : c[\h40 + 4 * i + k - 1] = HptTiming(c[\h41 + 4 * i], m)[k]
       [] OTHER -> TRUE

\* Every device ata_dmainit left in a DMA mode runs it on both ends: the
\* drive accepted exactly that mode, and the controller's timing for the
\* device still says that mode after every later call for the other
\* devices of the chip (which rewrite shared words).  The Aladdin UDMA
\* nibble, the PIIX slave SITRE bit, the Promise clock bit and the generic
\* chip's capability bit are the subject of the properties below.
TimingMatchesMode ==
  \A u \in Units, i \in 0..1 :
    mode[u][i] # ATA_MODE_PIO =>
      /\ xfer[u][i] = mode[u][i]
      /\ ControllerSet(u, i, mode[u][i])

\* A PIIX3/PIIX4 slave set to WDMA2 gets its timing from its nibble of 0x44
\* only when its channel's SITRE bit (bit 14 of the channel's half of
\* 0x40) is set: the block at lines 155-170 is there to set it.
SlaveTimingEnabled ==
  chip \in {"PIIX4", "PIIX3"} =>
    \A u \in Units : mode[u][1] = ATA_MODE_WDMA2 => Bit(cfg[0][\h41 + 2 * u], 6)

\* An Aladdin device set to UDMA2 has its own enable-and-timing nibble
\* (0x0a, bits 16 + 8 * unit + 4 * index of the word at 0x54) set.
AladdinUdmaTiming ==
  chip = "ALADDIN" =>
    \A u \in Units, i \in 0..1 :
      mode[u][i] = ATA_MODE_UDMA2 => (Nibble(cfg[0][\h56 + u], i) & \h0a) = \h0a

\* A Promise channel with a UDMA4 device has its 66MHz clock bit (2 for
\* the primary, 8 for the secondary) set at bmaddr + 0x11, which the code
\* means to OR in.
PromiseClockBit ==
  \A u \in Units :
    (\E i \in 0..1 : mode[u][i] = ATA_MODE_UDMA4 /\ chip = "PROMISE66") =>
      Bit(p11[u], IF u = 0 THEN 1 ELSE 3)

\* The generic chip puts a device in DMA mode only if the controller's
\* status port says that device is DMA capable (ATA_BMSTAT_DMA_MASTER for
\* the master, ATA_BMSTAT_DMA_SLAVE for the slave).
GenericDmaCapable ==
  chip = "GENERIC" =>
    \A u \in Units, i \in 0..1 : mode[u][i] # ATA_MODE_PIO => Bit(bmstat[u], 5 + i)

\* A device left in a DMA mode has a DMA table that is still allocated:
\* ata_dmasetup and the engine use scp->dmatab[] of every device whose
\* scp->mode[] is not PIO.
DmaTableLive ==
  \A u \in Units, i \in 0..1 : mode[u][i] # ATA_MODE_PIO => dmatab[u][i] = "live"
====
