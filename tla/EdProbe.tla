------------------------------- MODULE EdProbe -------------------------------
(***************************************************************************)
(* Card detection and the receive-ring layout of the NS8390 driver in      *)
(* src/sys/dev/if_ed.c, EXOPC build.  exo_ed_init tries every port of      *)
(* ed_ports with every shared-memory address of ed_shm until MAXSMC cards  *)
(* are found; for each pair it builds an isa_device with id_irq = 0,       *)
(* id_msize = 0 and id_flags = 0, a zeroed softc, and calls ed_probe,      *)
(* which tries the WD/SMC, 3Com 3c503, Novell NE1000/2000 and HP PC LAN+   *)
(* probes in turn; a probe that succeeds fixes the card's memory layout    *)
(* (transmit pages, receive ring, host window) and its interrupt line.     *)
(* ed_rint then reads packets out of that ring with ed_ring_copy.          *)
(*                                                                         *)
(* The card at a port is the environment: a record of what its registers   *)
(* and memory answer.  A probe recognises only its own vendor's card (what *)
(* another vendor's board answers to its register reads is not modelled). *)
(* Addresses are physical (kvtop): ptov and kvtop cancel in the driver.    *)
(* The register values of <xok/if_edreg.h>, which is not in the tree, are  *)
(* those of the FreeBSD header this driver comes from.                     *)
(***************************************************************************)
EXTENDS Integers, Sequences, FiniteSets, TLC

CONSTANTS
  CardAt(_),   \* the set of cards that may sit at an I/O port
  Counts,      \* byte counts (header and CRC included) of received packets
  Wild         \* whether the card may store a header with a wild count

\* lines 43-44 and 74
ed_ports == <<\h240, \h280, \h300>>
ed_shm == <<\h0d0000, \h0cc000, \h0d4000, \h0d8000>>
MAXSMC == 1

\* <xok/if_edreg.h>
ED_PAGE_SIZE == 256
ED_TXBUF_SIZE == 6
ETHER_MIN_LEN == 64
ETHER_MAX_LEN == 1518
ETHER_CRC_LEN == 4
RingHdr == 4                          \* sizeof(struct ed_ring)
MCLBYTES == 2048
ED_WD_PAGE_OFFSET == 0
ED_3COM_TX_PAGE_OFFSET_8BIT == \h20
ED_3COM_TX_PAGE_OFFSET_16BIT == 0
ED_3COM_RX_PAGE_OFFSET_16BIT == \h20
ED_HPP_TX_PAGE_OFFSET == 0
ED_WD_SOFTCONFIG == \h20
ED_FLAGS_NO_MULTI_BUFFERING == 8
\* card type codes read from ED_WD_CARD_ID
WD8003S == \h02
WD8003E == \h03
WD8013EBT == \h05
WD8013W == \h26
WD8013EP == \h27
WD8013WC == \h28
WD8013EPC == \h29
SMC8216T == \h2a
SMC8216C == \h2b
WD8013EBP == \h2c
\* ED_WD790_RAR & ED_WD790_RAR_SZ64: 0 = SZ8, 1 = SZ16, 2 = SZ32, 3 = SZ64
RarSize == <<8192, 16384, 32768, 65536>>

\* lines 414, 421 and 427; ed_790_intr_mask[0] is -1 stored in an
\* unsigned short
ed_intr_mask == <<9, 3, 5, 7, 10, 11, 15, 4>>
ed_790_intr_mask == <<65535, 9, 3, 5, 7, 10, 11, 15>>
ed_hpp_intr_mask == <<0, 0, 0, 3, 4, 5, 6, 7, 0, 9, 10, 11, 12, 0, 0, 15>>

Byte(x) == x % 256                    \* a u_char field
Fail == [ok |-> FALSE]

(***************************************************************************)
(* Cards.  A WD/SMC card: whether its PROM checksum is right ("ok"), wrong *)
(* with a zero eighth byte ("clone") or wrong; its type code; the 16-bit   *)
(* bit of its ICR; its RAR memory-size code; the interrupt index its       *)
(* ICR/IRR (GCR on a 790) encodes; the window addresses at which its       *)
(* memory clears.  A 3c503: the port and address its BCFR and PCFR are     *)
(* jumpered to, and whether it forces WTS (16-bit).  An NE board: whether  *)
(* its 8390 passes ed_probe_generic8390 and which memory test succeeds.    *)
(* An HP PC LAN+: the first check it fails ("" if none), its IRQ code, its *)
(* memory-mapping option and address.                                      *)
(***************************************************************************)
VARIABLES
  card,        \* the card at each port
  i, j,        \* exo_ed_init's loop indices (1-based)
  units,       \* the softcs attached, in unit order
  rx           \* the last packet ed_rint read, or a record with p = 0

vars == <<card, i, j, units, rx>>

(***************************************************************************)
(* ed_probe_WD80x3 (lines 508-898).                                        *)
(***************************************************************************)
\* lines 537-555: the checksum over the station-address PROM, or a clone
WdChecksumOk(c) ==
  \/ c.cksum = "ok"
  \/ c.cksum = "clone" /\ c.type = WD8003E

\* lines 570-668: memory size, width and 790-ness by card type
WdType(c) ==
  CASE c.type \in {WD8013EBT, WD8013W, WD8013WC, WD8013EBP, WD8013EPC} ->
         [memsize |-> 16384, isa16bit |-> 1, is790 |-> 0]
    [] c.type = WD8013EP ->
         IF c.icr16 THEN [memsize |-> 16384, isa16bit |-> 1, is790 |-> 0]
                    ELSE [memsize |-> 8192, isa16bit |-> 0, is790 |-> 0]
    [] c.type \in {SMC8216C, SMC8216T} ->
         [memsize |-> RarSize[c.rar + 1], isa16bit |-> 1, is790 |-> 1]
    [] OTHER -> [memsize |-> 8192, isa16bit |-> 0, is790 |-> 0]

\* lines 676-684: a 16-bit type whose ICR says 8-bit is an 8-bit card
WdIcrAdjust(c, t) ==
  IF t.isa16bit = 1 /\ c.type # WD8013EBT /\ ~c.icr16
    THEN [t EXCEPT !.isa16bit = 0, !.memsize = 8192]
    ELSE t

\* lines 719-765: the board's own interrupt if none was configured
WdIrq(c, is790, irq) ==
  CASE irq > 0 -> irq
    [] (c.type \div ED_WD_SOFTCONFIG) % 2 = 1 /\ is790 = 0 ->
         ed_intr_mask[c.iptr + 1]
    [] is790 = 1 -> ed_790_intr_mask[c.iptr + 1]
    [] OTHER -> 0

\* lines 772-785: one transmit buffer below 16K, the ring after them
WdLayout(t, maddr, flags) ==
  LET cnt == IF t.memsize < 16384 \/ (flags \div ED_FLAGS_NO_MULTI_BUFFERING) % 2 = 1
             THEN 1 ELSE 2
      rps == ED_WD_PAGE_OFFSET + ED_TXBUF_SIZE * cnt
  IN [txb_cnt |-> cnt, tx_page_start |-> ED_WD_PAGE_OFFSET,
      rec_page_start |-> Byte(rps),
      rec_page_stop |-> Byte(ED_WD_PAGE_OFFSET + t.memsize \div ED_PAGE_SIZE),
      mem_start |-> maddr, mem_ring |-> maddr + ED_PAGE_SIZE * Byte(rps),
      mem_size |-> t.memsize, mem_end |-> maddr + t.memsize]

\* lines 786-898: station address, LAAR/MSR set-up of the window, then
\* zero the shared memory and read it back
WdMemCleared(c, maddr) == maddr \in c.memok

\* the whole probe: PROM, type, ICR, msize override, window range, forced
\* width, interrupt, layout, and the shared-memory clear test
WdProbe(c, maddr, irq0, msize, flags) ==
  LET t0 == WdIcrAdjust(c, WdType(c))
      t == IF msize # 0 THEN [t0 EXCEPT !.memsize = msize] ELSE t0
      irq == WdIrq(c, t.is790, irq0)
  IN IF \/ c.kind # "wd" \/ ~WdChecksumOk(c)
        \/ maddr % \h1000000 < \h0a0000
        \/ (maddr % \h1000000) + t.memsize > \h1000000
        \/ irq = 0
        \/ ~WdMemCleared(c, maddr)
     THEN Fail
     ELSE [ok |-> TRUE, vendor |-> "wd", mem_shared |-> 1, irq |-> irq,
           isa16bit |-> t.isa16bit, is790 |-> t.is790]
          @@ WdLayout(t, maddr, flags)
(***************************************************************************)
(* ed_probe_3Com (lines 1045-1170).                                        *)
(***************************************************************************)
\* lines 1076-1107: a 16-bit 3c503 has its ring in the 8K window and the
\* transmit buffers in the other bank; an 8-bit one has both in the window
ThreeComLayout(isa16bit, maddr, flags) ==
  LET memsize == 8192
      cnt == IF isa16bit = 0 \/ (flags \div ED_FLAGS_NO_MULTI_BUFFERING) % 2 = 1
             THEN 1 ELSE 2
  IN IF isa16bit = 1
       THEN [txb_cnt |-> cnt, tx_page_start |-> ED_3COM_TX_PAGE_OFFSET_16BIT,
             rec_page_start |-> ED_3COM_RX_PAGE_OFFSET_16BIT,
             rec_page_stop |-> memsize \div ED_PAGE_SIZE + ED_3COM_RX_PAGE_OFFSET_16BIT,
             mem_start |-> maddr, mem_ring |-> maddr,
             mem_size |-> memsize, mem_end |-> maddr + memsize]
       ELSE [txb_cnt |-> 1, tx_page_start |-> ED_3COM_TX_PAGE_OFFSET_8BIT,
             rec_page_start |-> ED_TXBUF_SIZE + ED_3COM_TX_PAGE_OFFSET_8BIT,
             rec_page_stop |-> memsize \div ED_PAGE_SIZE + ED_3COM_TX_PAGE_OFFSET_8BIT,
             mem_start |-> maddr, mem_ring |-> maddr + ED_PAGE_SIZE * ED_TXBUF_SIZE,
             mem_size |-> memsize, mem_end |-> maddr + memsize]

\* the BCFR and PCFR must match the port and window probed, the WTS bit
\* gives the width, the configured IRQ must be 2-5, and the memory clear
ThreeComProbe(c, port, maddr, irq0, flags) ==
  IF \/ c.kind # "3com" \/ c.jport # port \/ c.jmem # maddr
     \/ irq0 \notin 2..5
     \/ maddr \notin c.memok
  THEN Fail
  ELSE [ok |-> TRUE, vendor |-> "3com", mem_shared |-> 1, irq |-> irq0,
        isa16bit |-> IF c.wts THEN 1 ELSE 0, is790 |-> 0]
       @@ ThreeComLayout(IF c.wts THEN 1 ELSE 0, maddr, flags)

(***************************************************************************)
(* ed_probe_Novell and ed_probe_Novell_generic (lines 1175-1413): the      *)
(* 8390 check, the byte-mode test at 8K (NE1000), else the word-mode test  *)
(* at 16K (NE2000); the card's memory is read by programmed I/O at card    *)
(* addresses.  ed_probe_Novell clears id_maddr; nothing sets id_irq.       *)
(***************************************************************************)
\* lines 488-503, called at line 1221: the DS8390 reset state
ed_probe_generic8390(c) == c.is8390

\* lines 1282-1296: 8K, or 16K from card address 16K on a 16-bit board
NovellMem(isa16bit) ==
  [memsize |-> 8192 + isa16bit * 8192, start |-> 8192 + isa16bit * 8192]

\* lines 1361-1372: transmit buffers at the start, the ring after them
NovellLayout(isa16bit, flags) ==
  LET memsize == NovellMem(isa16bit).memsize
      start == NovellMem(isa16bit).start
      tx == memsize \div ED_PAGE_SIZE
      cnt == IF memsize < 16384 \/ (flags \div ED_FLAGS_NO_MULTI_BUFFERING) % 2 = 1
             THEN 1 ELSE 2
  IN [txb_cnt |-> cnt, tx_page_start |-> tx,
      rec_page_start |-> tx + cnt * ED_TXBUF_SIZE,
      rec_page_stop |-> tx + memsize \div ED_PAGE_SIZE,
      mem_start |-> start, mem_ring |-> start + cnt * ED_PAGE_SIZE * ED_TXBUF_SIZE,
      mem_size |-> memsize, mem_end |-> start + memsize]

NovellProbe(c, irq0, flags) ==
  IF c.kind # "ne" \/ ~ed_probe_generic8390(c) \/ c.ram = "none"
  THEN Fail
  ELSE [ok |-> TRUE, vendor |-> "ne", mem_shared |-> 0, irq |-> irq0,
        isa16bit |-> IF c.ram = "16k" THEN 1 ELSE 0, is790 |-> 0]
       @@ NovellLayout(IF c.ram = "16k" THEN 1 ELSE 0, flags)

(***************************************************************************)
(* ed_probe_HP_pclanp (lines 1457-1703): signature, address checksum,      *)
(* software model, reset, the IRQ code (it must index ed_hpp_intr_mask and *)
(* agree with a configured IRQ), the memory-mapped register window, then   *)
(* 32K of card memory behind the transmit buffers, tested page by page.    *)
(***************************************************************************)
HppIrq(c, irq0) == IF irq0 = 0 THEN ed_hpp_intr_mask[c.irq + 1] ELSE irq0

HppLayout(flags) ==
  LET memsize == 32768
      cnt == IF (flags \div ED_FLAGS_NO_MULTI_BUFFERING) % 2 = 1 THEN 1 ELSE 2
  IN [txb_cnt |-> cnt, tx_page_start |-> ED_HPP_TX_PAGE_OFFSET,
      rec_page_start |-> ED_HPP_TX_PAGE_OFFSET + cnt * ED_TXBUF_SIZE,
      rec_page_stop |-> memsize \div ED_PAGE_SIZE,
      mem_start |-> 0, mem_ring |-> cnt * ED_PAGE_SIZE * ED_TXBUF_SIZE,
      mem_size |-> memsize, mem_end |-> memsize]

\* lines 1658-1700: every page of the 32K written and read back by PIO
HppMemTest(c) == c.memtest

HppProbe(c, maddr, irq0, flags) ==
  IF \/ c.kind # "hp" \/ c.fail # ""
     \/ c.irq >= Len(ed_hpp_intr_mask)
     \/ irq0 # 0 /\ irq0 # ed_hpp_intr_mask[c.irq + 1]
     \/ c.memen /\ c.memmap # maddr
     \/ ~HppMemTest(c)
  THEN Fail
  ELSE [ok |-> TRUE, vendor |-> "hp", mem_shared |-> 0, irq |-> HppIrq(c, irq0),
        isa16bit |-> 0, is790 |-> 0, hpp32 |-> ~c.acc16]
       @@ HppLayout(flags)

(***************************************************************************)
(* ed_probe (lines 441-467): the first probe that finds the card wins;    *)
(* then the handler is installed on id_irq.  ed_attach_isa and ed_attach  *)
(* (lines 1769-1891) stop the card and print; exo_ed_init (lines          *)
(* 3893-3943) passes an isa_device with id_irq, id_msize and id_flags 0.  *)
(***************************************************************************)
ed_probe(c, port, maddr) ==
  LET wd == WdProbe(c, maddr, 0, 0, 0)
      tc == ThreeComProbe(c, port, maddr, 0, 0)
      ne == NovellProbe(c, 0, 0)
      hp == HppProbe(c, maddr, 0, 0)
  IN CASE wd.ok -> wd [] tc.ok -> tc [] ne.ok -> ne [] hp.ok -> hp
       [] OTHER -> Fail

Finished == i > Len(ed_ports) \/ Len(units) >= MAXSMC

\* mutant: the loops' next_unit < MAXSMC test dropped
ProbeStepNoStop ==
  /\ i <= Len(ed_ports)
  /\ LET r == ed_probe(card[ed_ports[i]], ed_ports[i], ed_shm[j])
     IN units' = IF r.ok THEN Append(units, r) ELSE units
  /\ IF j < Len(ed_shm) THEN j' = j + 1 /\ UNCHANGED i
                        ELSE j' = 1 /\ i' = i + 1
  /\ UNCHANGED <<card, rx>>

\* one pass of exo_ed_init's inner loop: a zeroed softc and a network
\* entry, the probe, then attach and init, or free
ProbeStep ==
  /\ ~Finished
  /\ LET r == ed_probe(card[ed_ports[i]], ed_ports[i], ed_shm[j])
     IN units' = IF r.ok THEN Append(units, r) ELSE units
  /\ IF j < Len(ed_shm) THEN j' = j + 1 /\ UNCHANGED i
                        ELSE j' = 1 /\ i' = i + 1
  /\ UNCHANGED <<card, rx>>
(***************************************************************************)
(* The card stores a packet of c bytes (its 4-byte header included) at     *)
(* ring page p and the pages after it, wrapping from the page before       *)
(* rec_page_stop to rec_page_start; its 8-bit page counter reads a stop of *)
(* 0 as 256.  The header records the count and the page after the packet; *)
(* an old, buggy 8390 copies the count's low byte into its high byte.      *)
(***************************************************************************)
RingPages(u) == (u.rec_page_stop - u.rec_page_start) % 256
RingPage(u, p, m) == u.rec_page_start + ((p - u.rec_page_start + m) % RingPages(u))
NicNext(u, p, c) == RingPage(u, p, (c + ED_PAGE_SIZE - 1) \div ED_PAGE_SIZE)
HdrCount(c, wild) == IF wild THEN (c % 256) * 257 ELSE c

\* the first card page of the host window of a shared-memory card: page 0
\* of a WD/SMC card, page 0x20 (the second 8K bank) of a 3c503; the PIO
\* cards are addressed by card byte address
WindowPage(u) == IF u.vendor = "3com" THEN \h20 ELSE 0
HostAddr(u, page) ==
  IF u.mem_shared = 1 THEN u.mem_start + (page - WindowPage(u)) * ED_PAGE_SIZE
                      ELSE page * ED_PAGE_SIZE

\* where the card put byte b of the packet stored at page p
NicAddr(u, p, b) == HostAddr(u, RingPage(u, p, b \div ED_PAGE_SIZE)) + (b % ED_PAGE_SIZE)

(***************************************************************************)
(* ed_ring_copy (lines 2986-3014): copy up to mem_end, then on from        *)
(* mem_ring; the result is the two pieces read.                            *)
(***************************************************************************)
\* mutant: the copy goes on from the start of card memory, not the ring
RingCopyFromStart(u, src, amount) ==
  IF src + amount > u.mem_end
    THEN << [from |-> src, n |-> u.mem_end - src],
            [from |-> u.mem_start, n |-> amount - (u.mem_end - src)] >>
    ELSE << [from |-> src, n |-> amount], [from |-> u.mem_ring, n |-> 0] >>

ed_ring_copy(u, src, amount) ==
  IF src + amount > u.mem_end
    THEN << [from |-> src, n |-> u.mem_end - src],
            [from |-> u.mem_ring, n |-> amount - (u.mem_end - src)] >>
    ELSE << [from |-> src, n |-> amount], [from |-> u.mem_ring, n |-> 0] >>

(***************************************************************************)
(* What each piece of ed_ring_copy stores at dst: bcopy stores the piece;  *)
(* ed_pio_readmem (lines 3125-3162) rounds an odd amount up to a word for *)
(* a Novell card, and hands an HP PC LAN+ to ed_hpp_readmem.              *)
(***************************************************************************)
\* mutant: the count left after the 32-bit reads is not reduced to amount & 3
HppReadmemNoMask(u, amount) ==
  LET big == u.hpp32 /\ amount > 3
      w32 == IF big THEN amount \div 4 ELSE 0
      w16 == IF amount > 1 THEN amount \div 2 ELSE 0
      r2 == IF amount > 1 THEN amount % 2 ELSE amount
  IN 4 * w32 + 2 * w16 + (IF r2 = 1 THEN 1 ELSE 0)

\* ed_hpp_readmem (lines 3390-3487), memory-mapped or through the I/O
\* port alike: 32-bit reads of amount >> 2 words unless the card's hpp_id
\* has ED_HPP_ID_16_BIT_ACCESS, 16-bit reads of what is left but a byte,
\* and for a last byte one 16-bit read of which the low byte is stored
HppReadmem(u, amount) ==
  LET big == u.hpp32 /\ amount > 3
      w32 == IF big THEN amount \div 4 ELSE 0
      r1 == IF big THEN amount % 4 ELSE amount
      w16 == IF r1 > 1 THEN r1 \div 2 ELSE 0
      r2 == IF r1 > 1 THEN r1 % 2 ELSE r1
  IN 4 * w32 + 2 * w16 + (IF r2 = 1 THEN 1 ELSE 0)

ed_pio_readmem(u, amount) ==
  IF u.vendor = "hp" THEN HppReadmem(u, amount)
  ELSE IF amount % 2 = 1 THEN amount + 1 ELSE amount

\* ed_ring_copy's choice (lines 2998-3012): bcopy for a shared-memory card
Stored(u, n) ==
  IF n = 0 THEN 0 ELSE IF u.mem_shared = 1 THEN n ELSE ed_pio_readmem(u, n)

\* the EXOPC ed_get_packet: a packet buffer from xokpkt_alloc, filled by
\* ed_ring_copy, handed to xokpkt_recv
ed_get_packet(u, buf, len) == ed_ring_copy(u, buf, len)

\* the address byte k of the copy is read from
CopyAddr(segs, k) ==
  IF k < segs[1].n THEN segs[1].from + k ELSE segs[2].from + (k - segs[1].n)

(***************************************************************************)
(* One pass of ed_rint's loop (lines 2467-2565) for the packet at p, and   *)
(* the EXOPC ed_get_packet (lines 3018-3024) that copies it out: read the *)
(* header, recompute a wild length from the next-packet pointer, accept   *)
(* the packet if the length and the pointer are sane (else reset).  len   *)
(* is a u_short.                                                           *)
(***************************************************************************)
WildLen(len) ==
  \/ len > ETHER_MAX_LEN - ETHER_CRC_LEN + RingHdr
  \/ len < ETHER_MIN_LEN - ETHER_CRC_LEN + RingHdr

RecomputeLen(u, len, next, p) ==
  LET off == len % ED_PAGE_SIZE IN
  IF next >= p THEN (off + (next - p) * ED_PAGE_SIZE) % 65536
  ELSE (off + ((next - u.rec_page_start) + (u.rec_page_stop - p)) * ED_PAGE_SIZE) % 65536

RintLen(u, count, next, p) ==
  IF WildLen(count) THEN RecomputeLen(u, count, next, p) ELSE count

RintAccept(u, len, next) ==
  /\ len > RingHdr /\ len <= MCLBYTES
  /\ next >= u.rec_page_start /\ next < u.rec_page_stop

Rint(u, p, c, wild) ==
  LET next == NicNext(u, p, c)
      len == RintLen(u, HdrCount(c, wild), next, p)
      src == u.mem_ring + (p - u.rec_page_start) * ED_PAGE_SIZE + RingHdr
      amount == IF ETHER_MAX_LEN < len - RingHdr THEN ETHER_MAX_LEN ELSE len - RingHdr
  IN [p |-> p, c |-> c, wild |-> wild, len |-> len,
      ok |-> RintAccept(u, len, next), amount |-> amount,
      segs |-> ed_get_packet(u, src, amount),
      stored |-> << Stored(u, ed_get_packet(u, src, amount)[1].n),
                    Stored(u, ed_get_packet(u, src, amount)[2].n) >>]

\* ring pages where the packets are put: the first, the last, and those
\* from which a packet of up to six pages wraps
SamplePages(u) ==
  {RingPage(u, u.rec_page_start, m) : m \in {0, RingPages(u) - 1,
                                             RingPages(u) - 3, RingPages(u) - 6}}

Receive ==
  /\ Finished /\ units # <<>>
  /\ \E p \in SamplePages(units[1]), c \in Counts, wild \in Wild :
       rx' = Rint(units[1], p, c, wild)
  /\ UNCHANGED <<card, i, j, units>>

NoRx == [p |-> -1]

Init ==
  /\ \E c1 \in CardAt(ed_ports[1]), c2 \in CardAt(ed_ports[2]),
       c3 \in CardAt(ed_ports[3]) :
       card = (ed_ports[1] :> c1) @@ (ed_ports[2] :> c2) @@ (ed_ports[3] :> c3)
  /\ i = 1 /\ j = 1 /\ units = <<>> /\ rx = NoRx

Next == ProbeStep \/ Receive

Spec == Init /\ [][Next]_vars
(***************************************************************************)
(* Properties                                                              *)
(***************************************************************************)
Ports == {ed_ports[n] : n \in 1..Len(ed_ports)}
Windows == {ed_shm[n] : n \in 1..Len(ed_shm)}

TypeOK ==
  /\ i \in 1..(Len(ed_ports) + 1) /\ j \in 1..Len(ed_shm)
  /\ Len(units) <= MAXSMC
  /\ \A n \in 1..Len(units) :
       /\ units[n].ok /\ units[n].vendor \in {"wd", "3com", "ne", "hp"}
       /\ units[n].txb_cnt \in {1, 2}
       /\ {units[n].tx_page_start, units[n].rec_page_start,
           units[n].rec_page_stop} \subseteq 0..255
  /\ rx = NoRx \/ rx.p \in 0..255

\* ed_ring_copy reads a packet from the bytes the card stored it in: the
\* host address of every byte ed_get_packet copies, before and after the
\* copy's wrap at mem_end, is where the card wrote that byte, for the ring
\* layout (tx_page_start, rec_page_start/stop, mem_ring, mem_end) each
\* vendor probe set.  Both are piecewise k |-> a + k; the two sides of
\* every page boundary and of the copy's wrap are checked.
CopyPoints ==
  ({0, rx.amount - 1, rx.segs[1].n - 1, rx.segs[1].n}
    \cup {ED_PAGE_SIZE * m - RingHdr + d : m \in 1..6, d \in {-1, 0}})
  \cap 0..(rx.amount - 1)

CopyMatchesRing ==
  rx # NoRx /\ rx.ok /\ ~rx.wild =>
    \A k \in CopyPoints : CopyAddr(rx.segs, k) = NicAddr(units[1], rx.p, k + RingHdr)

\* Each piece ed_ring_copy reads stores every byte of it at dst, and at
\* most the one byte more that ed_pio_readmem's rounding to a word adds:
\* ed_hpp_readmem's 32-bit, 16-bit and last-byte reads together store
\* exactly the amount asked for, with or without 32-bit access
ReadmemCovers ==
  rx # NoRx /\ rx.ok =>
    \A s \in 1..2 : rx.segs[s].n <= rx.stored[s] /\ rx.stored[s] <= rx.segs[s].n + 1

\* ed_get_packet stores nothing past the packet's length in the buffer it
\* got for it (the rounding is "okay as long as mbufs are word sized")
CopyWithinPacket ==
  rx # NoRx /\ rx.ok =>
    IF rx.segs[2].n > 0 THEN rx.segs[1].n + rx.stored[2] <= rx.amount
    ELSE rx.stored[1] <= rx.amount

\* ed_rint accepts every packet the card stored with a correct header:
\* the next-packet pointer lies in [rec_page_start, rec_page_stop), as the
\* card keeps it, so the "NIC memory corrupt" reset is never taken.
RintAcceptsStored == rx # NoRx /\ ~rx.wild => rx.ok

\* When the header's count is wild, ed_rint "tries to recalculate the
\* length based on the pointer to the next packet" (lines 2486-2497): the
\* length it passes up is the count the card received.
WildLengthRecovered == rx # NoRx /\ rx.wild /\ rx.ok => rx.len = rx.c

\* Every card attached is given the interrupt line it raises: ed_probe
\* installs edintr and unmasks id_irq, which must be an 8259 line other
\* than the timer's (1-15).
AttachedIrqValid == \A n \in 1..Len(units) : units[n].irq \in 1..15

\* exo_ed_init attaches a card that is present and works: a WD/SMC card
\* with a good PROM and memory at one of ed_shm, a 3c503 jumpered to its
\* port and to one of ed_shm, an NE board, or an HP PC LAN+ passing its
\* checks with its register window (if any) at one of ed_shm.
Usable(q, c) ==
  CASE c.kind = "wd" -> WdChecksumOk(c) /\ c.memok \cap Windows # {}
    [] c.kind = "3com" -> c.jport = q /\ c.jmem \in c.memok \cap Windows
    [] c.kind = "ne" -> c.is8390 /\ c.ram # "none"
    [] c.kind = "hp" -> /\ c.fail = "" /\ c.irq < 16 /\ c.memtest
                        /\ (c.memen => c.memmap \in Windows)
    [] OTHER -> FALSE

EveryCardFound == Finished /\ (\E q \in Ports : Usable(q, card[q])) => units # <<>>
====
