-------------------------------- MODULE IfEd --------------------------------
(***************************************************************************)
(* The EXOPC build of the NS8390 (NE2000, WD/SMC) network driver in        *)
(* src/sys/dev/if_ed.c: transmission through xok_ed_xmit and the card's    *)
(* transmit buffers, the receive ring read by ed_rint, the interrupt       *)
(* handler edintr/edintr_sc with its intr_pending/in_intr hand-off between *)
(* processors, and the reset that overrun or a corrupt ring triggers.      *)
(*                                                                         *)
(* The card is the environment: it finishes transmissions, stores received *)
(* packets in the ring and raises interrupt-status bits.  Its interrupt    *)
(* line is high while an enabled status bit is set and is edge-triggered:  *)
(* a rising edge is latched and taken by one idle processor.  The system   *)
(* call path (xok_ed_xmit) runs between the handler's steps.              *)
(*                                                                         *)
(* Packets are numbered in the order they are handed to the driver (sent) *)
(* or reach the card (received); the data is otherwise abstracted.         *)
(* Receive-ring pages are 0 .. RingPages-1 (rec_page_start = 0).           *)
(***************************************************************************)
EXTENDS Integers, Sequences, FiniteSets

CONSTANTS
  TxbCnt,      \* sc->txb_cnt: 1 or 2 transmit buffers
  RingPages,   \* pages of the receive ring (rec_page_stop - rec_page_start)
  PktPages,    \* ring pages a received packet may take
  Cpus,        \* processors the card's interrupt may be delivered to
  MaxTx,       \* bound on packets handed to xok_ed_xmit
  MaxRx,       \* bound on packets arriving at the card
  MaxBad       \* bound on packets stored with a corrupt ring header

ASSUME /\ TxbCnt \in {1, 2} /\ RingPages \in Nat \ {0, 1}
       /\ PktPages \subseteq 1..RingPages /\ Cpus # {}
       /\ {MaxTx, MaxRx, MaxBad} \subseteq Nat

NoSlot == TxbCnt          \* no transmit buffer
Pages == 0..(RingPages - 1)
\* interrupt-status bits; ed_init enables PRX, PTX, RXE, TXE and OVW
Enabled == {"PRX", "PTX", "RXE", "TXE", "OVW"}
Line(s) == s \cap Enabled # {}      \* the card's interrupt line

VARIABLES
  sc,         \* the softc fields the driver keeps, and the card's TXP slot
  txb,        \* packet held by each transmit buffer
  isr,        \* the card's interrupt-status register
  bnry, curr, \* the card's BNRY and CURR ring pointers
  ring,       \* the ring header stored at each page: packet and next page
  irq,        \* a rising edge of the line not yet taken by a processor
  intr_pending, in_intr,   \* nw->intr_pending, nw->in_intr
  pc,         \* where each processor is in edintr
  ntx, nrx, nbad,          \* packets handed to the driver / to the card
  wire,       \* packets the card has put on the wire, in order
  delivered   \* packets ed_get_packet has passed up, in order

nic == <<isr, bnry, curr, ring, irq>>
vars == <<sc, txb, nic, intr_pending, in_intr, pc, ntx, nrx, nbad, wire,
          delivered>>

(***************************************************************************)
(* Transmission.  ed_xmit starts the card on buffer txb_next_tx and moves  *)
(* to the next buffer; ed_start (EXOPC) starts a transmission if the card  *)
(* is idle and a buffer is full, then maps the next free buffer into the   *)
(* user's GD_ED0 segment (`window`), or revokes it and sets IFF_OACTIVE    *)
(* when all buffers are in use.                                            *)
(***************************************************************************)
\* mutant: txb_next_tx not advanced past the buffer just started
EdXmitStay(s) == [s EXCEPT !.xmit_busy = TRUE, !.txp = s.txb_next_tx]

EdXmit(s) == [s EXCEPT !.xmit_busy = TRUE, !.txp = s.txb_next_tx,
                       !.txb_next_tx = (s.txb_next_tx + 1) % TxbCnt]

\* mutant: the room test with > for >=
EdStartGt(s) ==
  LET s1 == IF ~s.xmit_busy /\ s.txb_inuse > 0 THEN EdXmit(s) ELSE s
  IN [s1 EXCEPT !.window = IF s1.txb_inuse > TxbCnt THEN NoSlot ELSE s1.txb_new,
                !.oactive = s1.txb_inuse > TxbCnt]

EdStart(s) ==
  LET s1 == IF ~s.xmit_busy /\ s.txb_inuse > 0 THEN EdXmit(s) ELSE s
  IN [s1 EXCEPT !.window = IF s1.txb_inuse >= TxbCnt THEN NoSlot ELSE s1.txb_new,
                !.oactive = s1.txb_inuse >= TxbCnt]

\* ed_init's assignments to the softc, then its ed_start call
EdInitSc(s) ==
  EdStart([s EXCEPT !.xmit_busy = FALSE, !.txb_inuse = 0, !.txb_new = 0,
                    !.txb_next_tx = 0, !.next_packet = 1, !.txp = NoSlot,
                    !.oactive = FALSE])

\* xok_ed_xmit: refuse when all buffers are in use; copy the packet into
\* buffer txb_new; refuse it if too long (after the copy); else queue it
\* and call ed_start
XokEdXmit ==
  /\ ntx < MaxTx
  /\ ntx' = ntx + 1
  /\ \/ /\ sc.txb_inuse >= TxbCnt
        /\ UNCHANGED <<sc, txb>>
     \/ /\ sc.txb_inuse < TxbCnt
        /\ txb' = [txb EXCEPT ![sc.txb_new] = ntx']
        /\ \/ UNCHANGED sc                      \* sz > ETHER_MAX_LEN
           \/ sc' = EdStart([sc EXCEPT !.txb_new = (@ + 1) % TxbCnt,
                                       !.txb_inuse = @ + 1])
  /\ UNCHANGED <<nic, intr_pending, in_intr, pc, nrx, nbad, wire, delivered>>

(***************************************************************************)
(* ed_reset = ed_stop; ed_init.  The stop command lets a transmission in   *)
(* progress finish or not (ed_stop waits for RST at most 5000 reads); the  *)
(* init rewinds the buffers and the ring and clears the status register.   *)
(***************************************************************************)
EdReset(s) ==
  /\ sc' = EdInitSc(s)
  /\ \E done \in BOOLEAN :
       wire' = IF done /\ s.txp # NoSlot THEN Append(wire, txb[s.txp]) ELSE wire
  /\ isr' = {} /\ bnry' = 0 /\ curr' = 1

(***************************************************************************)
(* The card.                                                               *)
(***************************************************************************)
\* the status register changes to s; a rising line is latched
SetIsr(s) == isr' = s /\ irq' = (irq \/ (~Line(isr) /\ Line(s)))

\* the transmission of buffer txp ends, sent (PTX) or aborted after
\* excessive collisions (TXE)
NicTxDone ==
  /\ sc.txp # NoSlot
  /\ \E ok \in BOOLEAN :
       /\ wire' = IF ok THEN Append(wire, txb[sc.txp]) ELSE wire
       /\ SetIsr(isr \cup {IF ok THEN "PTX" ELSE "TXE"})
  /\ sc' = [sc EXCEPT !.txp = NoSlot]
  /\ UNCHANGED <<txb, bnry, curr, ring, intr_pending, in_intr, pc, ntx, nrx,
                 nbad, delivered>>

\* a packet of n pages arrives: stored at CURR with a header pointing past
\* it, unless one of its pages is BNRY (overwrite warning, packet lost)
NicReceive(n) ==
  /\ nrx < MaxRx
  /\ nrx' = nrx + 1
  /\ LET next == (curr + n) % RingPages
     IN IF bnry \in {(curr + i) % RingPages : i \in 0..(n - 1)}
          THEN /\ SetIsr(isr \cup {"OVW"})
               /\ UNCHANGED <<curr, ring>>
          ELSE /\ ring' = [ring EXCEPT ![curr] = [id |-> nrx', next |-> next]]
               /\ curr' = next
               /\ SetIsr(isr \cup {"PRX"})
  /\ UNCHANGED <<sc, txb, bnry, intr_pending, in_intr, pc, ntx, nbad, wire,
                 delivered>>

\* an old, buggy 8390 stores a one-page packet with a wild header
NicReceiveBad ==
  /\ nbad < MaxBad /\ nrx < MaxRx
  /\ bnry # curr
  /\ nbad' = nbad + 1 /\ nrx' = nrx + 1
  /\ ring' = [ring EXCEPT ![curr] = [id |-> nrx', next |-> RingPages]]
  /\ curr' = (curr + 1) % RingPages
  /\ SetIsr(isr \cup {"PRX"})
  /\ UNCHANGED <<sc, txb, bnry, intr_pending, in_intr, pc, ntx, wire, delivered>>

\* the bus delivers a latched edge to an idle processor, which calls edintr
Deliver(c) ==
  /\ irq /\ pc[c] = "idle"
  /\ irq' = FALSE
  /\ pc' = [pc EXCEPT ![c] = "pend"]
  /\ UNCHANGED <<sc, txb, isr, bnry, curr, ring, intr_pending, in_intr, ntx,
                 nrx, nbad, wire, delivered>>

(***************************************************************************)
(* edintr(irq) on processor c:                                             *)
(*   test_and_set(&intr_pending);                              "pend"      *)
(*   while (intr_pending > 0 && test_and_set(&in_intr) == 0) { "outer"     *)
(*     while (intr_pending > 0) {                              "inner"     *)
(*       intr_pending = 0; edintr_sc(sc); }                                *)
(*     in_intr = 0; }                                          "release"   *)
(***************************************************************************)
Goto(c, l) == pc' = [pc EXCEPT ![c] = l]

EdintrPend(c) ==
  /\ pc[c] = "pend"
  /\ intr_pending' = 1 /\ Goto(c, "outer")
  /\ UNCHANGED <<sc, txb, nic, in_intr, ntx, nrx, nbad, wire, delivered>>

\* mutant: the test and the set of in_intr as two separate steps' effect
EdintrOuterNoTas(c) ==
  /\ pc[c] = "outer"
  /\ IF intr_pending > 0
       THEN in_intr' = 1 /\ Goto(c, "inner")
       ELSE Goto(c, "idle") /\ UNCHANGED in_intr
  /\ UNCHANGED <<sc, txb, nic, intr_pending, ntx, nrx, nbad, wire, delivered>>

EdintrOuter(c) ==
  /\ pc[c] = "outer"
  /\ IF intr_pending > 0 /\ in_intr = 0
       THEN in_intr' = 1 /\ Goto(c, "inner")
       ELSE Goto(c, "idle") /\ UNCHANGED in_intr
  /\ UNCHANGED <<sc, txb, nic, intr_pending, ntx, nrx, nbad, wire, delivered>>

EdintrInner(c) ==
  /\ pc[c] = "inner"
  /\ IF intr_pending > 0
       THEN intr_pending' = 0 /\ Goto(c, "sc")
       ELSE Goto(c, "release") /\ UNCHANGED intr_pending
  /\ UNCHANGED <<sc, txb, nic, in_intr, ntx, nrx, nbad, wire, delivered>>

\* mutant: in_intr released and the handler left without the re-test
EdintrReleaseExit(c) ==
  /\ pc[c] = "release"
  /\ in_intr' = 0 /\ Goto(c, "idle")
  /\ UNCHANGED <<sc, txb, nic, intr_pending, ntx, nrx, nbad, wire, delivered>>

EdintrRelease(c) ==
  /\ pc[c] = "release"
  /\ in_intr' = 0 /\ Goto(c, "outer")
  /\ UNCHANGED <<sc, txb, nic, intr_pending, ntx, nrx, nbad, wire, delivered>>

(***************************************************************************)
(* One pass of edintr_sc's loop: read the status register and write the    *)
(* bits back to clear them (returning if none is set), then the           *)
(* transmitter: clear xmit_busy and IFF_OACTIVE, release the buffer and    *)
(* start the next one; then the receiver: reset on overwrite warning, else *)
(* ed_rint; then ed_start.                                                 *)
(***************************************************************************)
\* mutant: the buffer count not decremented on transmit completion
TxCompleteKeep(s) == [s EXCEPT !.xmit_busy = FALSE, !.oactive = FALSE]

TxComplete(s) ==
  LET s1 == [s EXCEPT !.xmit_busy = FALSE, !.oactive = FALSE,
                      !.txb_inuse = IF @ > 0 THEN @ - 1 ELSE 0]
  IN IF s1.txb_inuse > 0 THEN EdXmit(s1) ELSE s1

EdintrSc(c) ==
  /\ pc[c] = "sc"
  /\ IF isr = {}
       THEN Goto(c, "inner") /\ UNCHANGED <<sc, isr, bnry, curr, wire>>
       ELSE LET s1 == IF isr \cap {"PTX", "TXE"} # {} THEN TxComplete(sc) ELSE sc
            IN IF "OVW" \in isr
                 THEN /\ EdReset(s1) /\ Goto(c, "start")
                 ELSE /\ sc' = s1 /\ isr' = {}
                      /\ Goto(c, IF isr \cap {"PRX", "RXE"} # {} THEN "rint" ELSE "start")
                      /\ UNCHANGED <<bnry, curr, wire>>
  /\ UNCHANGED <<txb, ring, irq, intr_pending, in_intr, ntx, nrx, nbad, delivered>>

(***************************************************************************)
(* One pass of ed_rint's loop: while next_packet # CURR, read the header   *)
(* at next_packet; if its next page is outside the ring, reset and return; *)
(* else pass the packet up (ed_get_packet), follow the header and set      *)
(* BNRY one page behind next_packet.                                       *)
(***************************************************************************)
\* mutant: the wrap to rec_page_stop instead of rec_page_stop - 1
BehindStop(p) == IF p - 1 < 0 THEN RingPages ELSE p - 1

Behind(p) == IF p - 1 < 0 THEN RingPages - 1 ELSE p - 1

\* mutant: next_packet advanced one page instead of following the header
EdRintNext(c) ==
  LET h == ring[sc.next_packet] IN
  /\ pc[c] = "rint"
  /\ sc.next_packet # curr /\ h.next \in Pages
  /\ delivered' = Append(delivered, h.id)
  /\ sc' = [sc EXCEPT !.next_packet = (@ + 1) % RingPages]
  /\ bnry' = Behind(sc'.next_packet)
  /\ UNCHANGED <<txb, isr, curr, ring, irq, intr_pending, in_intr, pc, ntx,
                 nrx, nbad, wire>>

EdRint(c) ==
  LET h == ring[sc.next_packet] IN
  /\ pc[c] = "rint"
  /\ sc.next_packet # curr /\ h.next \in Pages
  /\ delivered' = Append(delivered, h.id)
  /\ sc' = [sc EXCEPT !.next_packet = h.next]
  /\ bnry' = Behind(h.next)
  /\ UNCHANGED <<txb, isr, curr, ring, irq, intr_pending, in_intr, pc, ntx,
                 nrx, nbad, wire>>

\* the ring is empty, or its header is corrupt and the card is reset
EdRintEnd(c) ==
  /\ pc[c] = "rint"
  /\ IF sc.next_packet = curr
       THEN UNCHANGED <<sc, isr, bnry, curr, wire>>
       ELSE ring[sc.next_packet].next \notin Pages /\ EdReset(sc)
  /\ Goto(c, "start")
  /\ UNCHANGED <<txb, ring, irq, intr_pending, in_intr, ntx, nrx, nbad, delivered>>

\* the ed_start call at the end of each pass of edintr_sc's loop
EdintrStart(c) ==
  /\ pc[c] = "start"
  /\ sc' = EdStart(sc) /\ Goto(c, "sc")
  /\ UNCHANGED <<txb, nic, intr_pending, in_intr, ntx, nrx, nbad, wire, delivered>>

CpuStep(c) ==
  \/ EdintrPend(c) \/ EdintrOuter(c) \/ EdintrInner(c) \/ EdintrRelease(c)
  \/ EdintrSc(c) \/ EdRint(c) \/ EdRintEnd(c) \/ EdintrStart(c)

(***************************************************************************)
(* exo_ed_init: probe, attach and ed_init, then inited = 1, in_intr = 0,   *)
(* intr_pending = 0.                                                       *)
(***************************************************************************)
Init ==
  /\ sc = EdInitSc([xmit_busy |-> FALSE, txb_inuse |-> 0, txb_new |-> 0,
                    txb_next_tx |-> 0, next_packet |-> 1, txp |-> NoSlot,
                    oactive |-> FALSE, window |-> NoSlot])
  /\ txb = [b \in 0..(TxbCnt - 1) |-> 0]
  /\ isr = {} /\ bnry = 0 /\ curr = 1
  /\ ring = [p \in Pages |-> [id |-> 0, next |-> 0]]
  /\ irq = FALSE /\ intr_pending = 0 /\ in_intr = 0
  /\ pc = [c \in Cpus |-> "idle"]
  /\ ntx = 0 /\ nrx = 0 /\ nbad = 0 /\ wire = <<>> /\ delivered = <<>>

Next ==
  \/ XokEdXmit
  \/ NicTxDone
  \/ \E n \in PktPages : NicReceive(n)
  \/ NicReceiveBad
  \/ \E c \in Cpus : Deliver(c) \/ CpuStep(c)

Spec == Init /\ [][Next]_vars

\* The processors run the handler they have entered, the bus delivers a
\* latched edge, and the card finishes a transmission it has started.
FairSpec == Spec /\ WF_vars(NicTxDone)
                 /\ \A c \in Cpus : WF_vars(Deliver(c)) /\ WF_vars(CpuStep(c))

(***************************************************************************)
(* Properties.                                                             *)
(***************************************************************************)
Slots == 0..(TxbCnt - 1)
TypeOK ==
  /\ sc \in [xmit_busy : BOOLEAN, txb_inuse : 0..TxbCnt, txb_new : Slots,
             txb_next_tx : Slots, next_packet : Pages, txp : Slots \cup {NoSlot},
             oactive : BOOLEAN, window : Slots \cup {NoSlot}]
  /\ isr \subseteq Enabled /\ bnry \in Pages /\ curr \in Pages
  /\ irq \in BOOLEAN /\ {intr_pending, in_intr} \subseteq {0, 1}
  /\ pc \in [Cpus -> {"idle", "pend", "outer", "inner", "sc", "rint", "start",
                      "release"}]

InHandler == {c \in Cpus : pc[c] \in {"inner", "sc", "rint", "start", "release"}}

\* edintr's test_and_set of in_intr admits one processor at a time to
\* edintr_sc, so the softc and the card are never handled by two at once.
InIntrExclusive == Cardinality(InHandler) <= 1 /\ (InHandler # {} => in_intr = 1)

StrictlyIncreasing(s) == \A i \in 1..(Len(s) - 1) : s[i] < s[i + 1]

\* The card sends the queued packets in the order xok_ed_xmit accepted
\* them, none twice: ed_xmit, the completion in edintr_sc and ed_start
\* keep txb_next_tx, txb_new and txb_inuse in step.
WireInOrder == StrictlyIncreasing(wire)

\* ed_rint passes packets up in the order they arrived and none twice: it
\* follows the ring headers and never reads a stale one.
DeliveredInOrder == StrictlyIncreasing(delivered)

\* The buffer ed_start maps into the user's GD_ED0 segment is one no
\* queued packet occupies and the card is not transmitting from.
Queued == {(sc.txb_new - k) % TxbCnt : k \in 1..sc.txb_inuse}
UserWindowFree == sc.window # NoSlot => sc.window \notin Queued \cup {sc.txp}

\* Every interrupt the card raises is eventually handled: the line, once
\* high, goes low (intr_pending hands a late edge to the processor holding
\* in_intr).
NoLostInterrupt == Line(isr) ~> ~Line(isr)

\* Every packet xok_ed_xmit queues eventually leaves its buffer.
TxDrains == sc.txb_inuse > 0 ~> sc.txb_inuse = 0
====
