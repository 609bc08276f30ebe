---------------------------- MODULE MCAtaDmaInit ----------------------------
(* Model-checking instance of AtaDmaInit: every chip of the switch, two   *)
(* channel layouts (two ATA disks on each channel; two ATAPI devices on   *)
(* the primary and a disk with an ATAPI slave on the secondary), the      *)
(* configuration bytes a BIOS may leave in the registers each chip's      *)
(* setup reads, and the argument triples drives of each class give.       *)
EXTENDS AtaAttach

MCChips == {"PIIX4", "PIIX3", "PIIX", "ALADDIN", "VIA", "PROMISE33",
            "PROMISE66", "HPT366", "GENERIC"}

\* what a drive position answers ata_probe: an ATA disk, an ATAPI device
\* (status 0 after power-up, the signature in the cylinder registers)
AtaAns == [st |-> \h50, hung |-> FALSE, sig |-> FALSE, echo |-> TRUE]
AtapiAns == [st |-> \h00, hung |-> FALSE, sig |-> TRUE, echo |-> FALSE]
TwoDisks == [i \in 0..1 |-> AtaAns]
\* a bus-master capable controller at the legacy addresses (class 0x8a,
\* PCI_COMMAND 5, BAR 0x20 at 0xe000): two disks on each channel, or two
\* ATAPI devices on the primary and a disk with an ATAPI slave on the
\* secondary; and one with bus mastering off
Compat(cmd, drv) == [class |-> \h8a, cmd |-> cmd, bar20 |-> \he000, bar |-> <<0, 0>>, drives |-> drv]
OnChannels ==
  { Compat(5, [u \in Units |-> TwoDisks]),
    Compat(5, [u \in Units |-> IF u = 0 THEN [i \in 0..1 |-> AtapiAns]
                                        ELSE [i \in 0..1 |-> IF i = 0 THEN AtaAns ELSE AtapiAns]]),
    Compat(1, [u \in Units |-> TwoDisks]) }
\* bus mastering off only on the generic chip, where it matters alone
MCControllers(ch) == IF ch = "GENERIC" THEN OnChannels ELSE OnChannels \ {Compat(1, [u \in Units |-> TwoDisks])}

\* an add-in controller (programming interface 0, as the Promise and
\* HPT366 cards have) with its channels at BARs 0x10 and 0x18 and BAR 0x20
\* set or left 0
MCNative(ch) ==
  {[class |-> \h00, cmd |-> 5, bar20 |-> b, bar |-> <<\hd000, \hd800>>,
    drives |-> [u \in Units |-> TwoDisks]] : b \in {0, \he000}}

\* the layouts ata_probe finds on these controllers
MCLayouts == {[u \in Units |-> ProbeDevices(c.drives[u])] : c \in OnChannels}

Offsets == {\h08} \cup (\h40..\h6f)
Zero == [o \in Offsets |-> 0]
\* the configuration space with the bytes of `bs` (a set of pairs) set
With(bs) == [o \in Offsets |-> IF \E b \in bs : b[1] = o
                                 THEN (CHOOSE b \in bs : b[1] = o)[2] ELSE 0]
Both(c) == [f \in {0, 1} |-> c]

\* per chip: PIIX3/4 channel timings with SITRE clear, clear with a DMA
\* timing, or set; PIIX DMA-capable timing and the devices' enable bits;
\* VIA revisions 0, 1 and 6; Promise 80- or 40-wire cable on the primary;
\* HPT366 clocks 25, 33, 40MHz or unknown, with either cable
BiosCfg(ch) ==
  CASE ch \in {"PIIX4", "PIIX3"} ->
         {Both(With({<<\h41, a>>, <<\h43, b>>})) : a, b \in {\h00, \h23, \h63}}
    [] ch = "PIIX" ->
         {Both(With({<<\h40, a>>, <<\h41, b>>, <<\h42, a>>, <<\h43, b>>})) :
            a \in {\h01, \h11}, b \in {\h00, \h23}}
    [] ch = "VIA" -> {Both(With({<<\h08, r>>})) : r \in {0, 1, 6}}
    [] ch \in {"PROMISE33", "PROMISE66"} -> {Both(With({<<\h51, b>>})) : b \in {\h00, \h04}}
    [] ch = "HPT366" ->
         {Both(With({<<\h41, k>>, <<\h45, k>>, <<\h5a, w>>})) :
            k \in {\h85, \ha7, \hd9, \h00}, w \in {0, 2}}
    [] OTHER -> {Both(Zero)}

\* the configuration space as ata_pciattach leaves it
MCInitCfg(ch) == {PciAttachCfg(ch, c) : c \in BiosCfg(ch)}

\* both channels DMA-capable for both devices; or the primary's master
\* only, and the secondary simplex
MCInitBmStat == {[u \in Units |-> \h60], [u \in Units |-> IF u = 0 THEN \h20 ELSE \he0]}
MCInitP11 == {[u \in Units |-> IF u = 0 THEN 1 ELSE 0]}

\* UDMA4 drive with an 80-wire cable; UDMA4 drive on a 40-wire cable;
\* UDMA2 drive; WDMA2-only drive; PIO-only device
MCArgs ==
  { [apio |-> 4, wdma |-> 2, udma |-> 4, u66 |-> FALSE],
    [apio |-> 4, wdma |-> 2, udma |-> 2, u66 |-> TRUE],
    [apio |-> 4, wdma |-> 2, udma |-> 2, u66 |-> FALSE],
    [apio |-> 4, wdma |-> 2, udma |-> -1, u66 |-> FALSE],
    [apio |-> 0, wdma |-> -1, udma |-> -1, u66 |-> FALSE] }
\* the drive's status before and after SETFEATURES: ready and done, still
\* BUSY when ata_wait gives up, no status at all (0xff); and, for
\* MCAtaDmaInit_abort.cfg, done with ERROR (the drive aborted the command)
MCAnswers == {[pre |-> \h50, post |-> \h50], [pre |-> \h50, post |-> \hd0],
              [pre |-> \hff, post |-> \hff]}
MCAnswersAbort == MCAnswers \cup {[pre |-> \h50, post |-> \h51]}
====
