----------------------------- MODULE AtaChannel -----------------------------
(***************************************************************************)
(* One ATA channel at run time, src/sys/dev/ata-all.c in its EXOPC build, *)
(* composed with the DMA table setup of AtaDma (ata-dma.c).              *)
(*                                                                         *)
(* The disk driver (ad_strategy, ad_transfer and ad_interrupt of           *)
(* ata-disk.c, not in the tree) queues requests on scp->ata_queue and     *)
(* calls ata_start, which starts the head of the queue when the channel   *)
(* is idle.  ad_transfer sends one command of at most MaxXfer bytes: for  *)
(* a drive in a DMA mode it first calls ata_dmasetup for that piece and,  *)
(* when the table is accepted, ata_dmastart; if the call fails the rest   *)
(* of the request goes by PIO.  When the drive is done it raises its      *)
(* interrupt; ataintr hands it to ad_interrupt, which calls ata_dmadone   *)
(* and either sends the next piece (ATA_OP_CONTINUES) or finishes the     *)
(* request, after which ataintr marks the channel idle and calls          *)
(* ata_start again.                                                        *)
(*                                                                         *)
(* The kernel runs these routines with interrupts off, so each is one     *)
(* step; an interrupt raised meanwhile is latched by the PIC and          *)
(* delivered later.  The ATAPI paths are compiled out in EXOPC.  The      *)
(* channel is one of those ata_pciattach registers in atadevicesbyirq[]   *)
(* (see AtaAttach); it may still have an interrupt latched from the       *)
(* SETFEATURES commands of ata_dmainit at attach.                        *)
(*                                                                         *)
(* The kernel is assumed configured with the ATA disk driver: ata_start's *)
(* disk branch and ataintr's ATA_ACTIVE_ATA case are under              *)
(* `#if NATADISK > 0` (lines 645, 713), and NATADISK comes from the       *)
(* config-generated "atadisk.h" (line 42), which is not in the tree.      *)
(***************************************************************************)
EXTENDS AtaDma

CONSTANTS
  DmaDevs,   \* the devices (0 master, 1 slave) whose scp->mode[] is a DMA mode
  MaxReqs    \* requests the disk driver queues

\* scp->active (ata-all.h lines 166-172)
ATA_IDLE == 0
ATA_ACTIVE_ATA == 3

NoReq == -1

VARIABLES
  act,       \* scp->active
  queue,     \* scp->ata_queue: a sequence of [dev, chain] requests
  running,   \* scp->running: the running request's device (NoReq: NULL)
  busy,      \* the drive's BUSY status bit
  active,    \* ATA_DMA_ACTIVE in scp->flags
  bmint,     \* ATA_BMSTAT_INTERRUPT of the bus-master status port
  pend,      \* the channel's interrupt latched by the PIC
  reqs,      \* requests queued so far
  done       \* requests finished so far

chanvars == <<act, queue, running, busy, active, bmint, pend, reqs, done>>
allvars == <<vars, chanvars>>

ChannelInit ==
  /\ chain = <<>> /\ last = 1 /\ offset = 0 /\ pos = 0 /\ size = 0
  /\ tab = <<>> /\ status = "idle"
  /\ act = ATA_IDLE /\ queue = <<>> /\ running = NoReq
  /\ busy = FALSE /\ active = FALSE /\ bmint = FALSE
  /\ pend \in BOOLEAN
  /\ reqs = 0 /\ done = 0

\* a PIO command for the piece of chain c after bytes p .. p + s - 1: no
\* DMA table is set up for it
PioFrom(c, p, s) ==
  /\ chain' = c /\ pos' = p + s /\ size' = MIN(Total(c) - (p + s), MaxXfer)
  /\ tab' = <<>> /\ status' = "idle" /\ last' = 1 /\ offset' = 0

\* ad_transfer sends the command for the next piece; tryDma: the drive is
\* in a DMA mode and the request has not fallen back to PIO.  An
\* ata_dmasetup that accepts the table loads it and clears
\* ATA_BMSTAT_INTERRUPT (ata-dma.c lines 669-679), and ata_dmastart sets
\* ATA_DMA_ACTIVE (lines 684-692); a failing one returns before that.  The
\* command makes the drive BUSY.
Transfer(c, l, o, p, s, tryDma) ==
  /\ busy' = TRUE
  /\ IF tryDma
       THEN /\ SetupFrom(c, l, o, p, s)
            /\ active' = (status' = "ok")
            /\ bmint' = (bmint /\ status' # "ok")
       ELSE /\ PioFrom(c, p, s)
            /\ active' = FALSE
            /\ UNCHANGED bmint

\* mutant: the head request is started but left on the queue
AtaStartKeep(q) ==
  IF q = <<>>
    THEN /\ act' = ATA_IDLE /\ running' = NoReq /\ queue' = q
         /\ active' = FALSE
         /\ UNCHANGED <<busy, bmint, vars>>
    ELSE /\ act' = ATA_ACTIVE_ATA
         /\ running' = Head(q).dev
         /\ queue' = q
         /\ Transfer(Head(q).chain, 1, 0, 0, 0, Head(q).dev \in DmaDevs)

\* ata_start (lines 695-787): on an idle channel the head of queue q is
\* taken off and becomes scp->running (scp->active ATA_ACTIVE_ATA), and
\* ad_transfer starts it; with q empty the channel stays idle
AtaStart(q) ==
  IF q = <<>>
    THEN /\ act' = ATA_IDLE /\ running' = NoReq /\ queue' = q
         /\ active' = FALSE
         /\ UNCHANGED <<busy, bmint, vars>>
    ELSE /\ act' = ATA_ACTIVE_ATA
         /\ running' = Head(q).dev
         /\ queue' = Tail(q)
         /\ Transfer(Head(q).chain, 1, 0, 0, 0, Head(q).dev \in DmaDevs)

\* the disk driver queues a request for device i, then calls ata_start,
\* which returns at once unless the channel is ATA_IDLE
Enqueue(i, c) ==
  /\ reqs < MaxReqs
  /\ reqs' = reqs + 1
  /\ LET q == Append(queue, [dev |-> i, chain |-> c]) IN
     IF act = ATA_IDLE THEN AtaStart(q)
     ELSE /\ queue' = q
          /\ UNCHANGED <<act, running, busy, bmint, active, vars>>
  /\ UNCHANGED <<pend, done>>

\* the drive ends its command: BUSY drops and it raises its interrupt,
\* which sets ATA_BMSTAT_INTERRUPT and is latched by the PIC
DriveDone ==
  /\ busy
  /\ busy' = FALSE /\ bmint' = TRUE /\ pend' = TRUE
  /\ UNCHANGED <<vars, act, queue, running, active, reqs, done>>

\* ataintr's early returns: ATA_DMA_ACTIVE without ATA_BMSTAT_INTERRUPT
\* (not this channel's interrupt, line 632), the drive still BUSY (line
\* 637) and an ATA_IDLE channel (an unwanted interrupt, line 682)
Ignored == (active /\ ~bmint) \/ busy \/ act = ATA_IDLE

\* the request has bytes left after the piece last sent
MoreLeft == pos + size < Total(chain)

\* mutant: after the last piece the channel is marked idle but ata_start
\* is not called
AtaIntrNoStart ==
  /\ pend
  /\ pend' = FALSE
  /\ \/ /\ Ignored
        /\ UNCHANGED <<vars, act, queue, running, busy, bmint, active, done>>
     \/ /\ ~Ignored /\ MoreLeft
        /\ Transfer(chain, last, offset, pos, size, running \in DmaDevs /\ status = "ok")
        /\ UNCHANGED <<act, queue, running, done>>
     \/ /\ ~Ignored /\ ~MoreLeft
        /\ done' = done + 1
        /\ act' = ATA_IDLE /\ running' = NoReq /\ active' = FALSE
        /\ UNCHANGED <<vars, queue, busy, bmint>>
  /\ UNCHANGED reqs

\* ataintr (lines 618-693) when the PIC delivers the latched interrupt:
\* for ATA_ACTIVE_ATA, ad_interrupt calls ata_dmadone and sends the next
\* piece (DMA only while every earlier call of ata_dmasetup succeeded),
\* or finishes the request; then scp->active is ATA_IDLE, scp->running
\* NULL, and ata_start is called
AtaIntr ==
  /\ pend
  /\ pend' = FALSE
  /\ \/ /\ Ignored
        /\ UNCHANGED <<vars, act, queue, running, busy, bmint, active, done>>
     \/ /\ ~Ignored /\ MoreLeft
        /\ Transfer(chain, last, offset, pos, size, running \in DmaDevs /\ status = "ok")
        /\ UNCHANGED <<act, queue, running, done>>
     \/ /\ ~Ignored /\ ~MoreLeft
        /\ done' = done + 1
        /\ AtaStart(queue)
  /\ UNCHANGED reqs

ChannelNext ==
  \/ \E i \in 0..1, c \in Chains : Enqueue(i, c)
  \/ DriveDone
  \/ AtaIntr

\* the drive finishes every command it is sent, and the kernel delivers
\* every interrupt the PIC latched
ChannelSpec ==
  ChannelInit /\ [][ChannelNext]_allvars /\ WF_allvars(DriveDone) /\ WF_allvars(AtaIntr)

(***************************************************************************)
(* Properties (with TypeOK, TableMatchesTransfer, RejectsOnlyOverlong of  *)
(* AtaDma, now over the tables ad_transfer sets up)                       *)
(***************************************************************************)
\* Every request the disk driver queues is eventually finished: ata_start
\* starts it once the requests before it are done, and ataintr, run for
\* each interrupt of the drive, moves it along, though an interrupt still
\* latched from attach or one delivered while the DMA engine runs is
\* dropped by its early returns.
RequestsComplete == \A k \in 1..MaxReqs : (reqs >= k) ~> (done >= k)

\* The channel as the queue of AtaQueue: the waiting requests are
\* scp->ata_queue, the request in service is scp->running with the chain
\* ad_transfer is working through, and the finished count is done.
Queue == INSTANCE AtaQueue WITH
  Reqs <- [dev : 0..1, chain : Chains],
  waiting <- queue,
  current <- IF running = NoReq THEN <<>>
             ELSE <<[dev |-> running, chain |-> chain]>>,
  served <- done

\* The channel implements AtaQueue: ata_start takes requests off
\* scp->ata_queue in order, one at a time, exactly once each, an idle
\* channel starts a request as it is queued, ataintr starts the next one
\* in the step that finishes the last, the pieces sent by ad_transfer and
\* the interrupts ataintr drops never change which request is served, and
\* the request in service is eventually finished.
ImplementsQueue == Queue!Spec
====
