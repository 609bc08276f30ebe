------------------------------- MODULE AtaDma -------------------------------
(***************************************************************************)
(* The EXOPC ata_dmasetup of src/sys/dev/ata-dma.c: it turns the next     *)
(* `size` bytes of a request's scatter-gather chain of buffers into the    *)
(* bus-master DMA table (one entry per piece of a buffer within a page,    *)
(* the last marked EOT).  It starts at request->last, request->offset and  *)
(* stores the point it stopped at there, so that a transfer larger than   *)
(* one command (256 sectors) is set up by successive calls (comment at     *)
(* ata-dma.c:558).                                                         *)
(*                                                                         *)
(* The caller (ad_transfer, not in the tree) is the environment: it asks   *)
(* for the rest of the chain in pieces of at most MaxXfer bytes, each call *)
(* starting where the previous one stopped, until the chain is done or a   *)
(* call fails.  Byte counts are scaled: a page is NBPG bytes.              *)
(***************************************************************************)
EXTENDS Integers, Sequences, FiniteSets
LOCAL INSTANCE SequencesExt

CONSTANTS
  NBPG,             \* bytes per page
  ATA_DMA_ENTRIES,  \* entries of a DMA table
  Chains,           \* the buffer chains a request may carry
  MaxXfer,          \* bytes one command may transfer
  Frame             \* physical page of each virtual page of the requester

ASSUME /\ NBPG \in Nat \ {0} /\ ATA_DMA_ENTRIES \in Nat \ {0}
       /\ MaxXfer \in Nat \ {0}

\* a buffer is [memaddr, bcount]; a chain is a sequence of buffers
\* mutant: the MIN macro with its comparison the wrong way round
MINSwap(a, b) == IF a > b THEN a ELSE b

MIN(a, b) == IF a > b THEN b ELSE a

\* env_va2pa: the page's frame, the offset within the page kept
Pa(va) == Frame[va \div NBPG] * NBPG + (va % NBPG)

Entry(base, cnt) == [base |-> base, count |-> cnt, eot |-> FALSE]

(***************************************************************************)
(* One buffer's data: the piece up to the end of the first page, then the *)
(* inner `while (count)` loop of whole pages.  Each entry is written at    *)
(* index i = Len(tab); the loop fails once i reaches ATA_DMA_ENTRIES, but  *)
(* the entry after the loop is written without that test.                 *)
(***************************************************************************)
\* mutant: the table-full test one entry early
RECURSIVE SegmentsEarly(_, _, _, _, _)
SegmentsEarly(tab, base, cnt, data, count) ==
  LET t == Append(tab, Entry(base, cnt))
      c == MIN(count, NBPG)
  IN IF count = 0 THEN [tab |-> t, err |-> FALSE]
     ELSE IF Len(t) + 1 >= ATA_DMA_ENTRIES THEN [tab |-> t, err |-> TRUE]
     ELSE SegmentsEarly(t, Pa(data), c, data + c, count - c)

RECURSIVE Segments(_, _, _, _, _)
Segments(tab, base, cnt, data, count) ==
  LET t == Append(tab, Entry(base, cnt))
      c == MIN(count, NBPG)
  IN IF count = 0 THEN [tab |-> t, err |-> FALSE]
     ELSE IF Len(t) >= ATA_DMA_ENTRIES THEN [tab |-> t, err |-> TRUE]
     ELSE Segments(t, Pa(data), c, data + c, count - c)

\* mutant: the buffer mapped as one entry, across its page boundaries
MapBufferWhole(tab, data, count) == Segments(tab, Pa(data), count, data + count, 0)

MapBuffer(tab, data, count) ==
  LET c == MIN(count, NBPG - (data % NBPG))
  IN Segments(tab, Pa(data), c, data + c, count - c)

Result(st, tab, last, offset) ==
  [status |-> st, tab |-> tab, last |-> last, offset |-> offset]

(***************************************************************************)
(* The outer `while (size > 0)` loop, from buffer bp at data with count    *)
(* bytes of it to map.  After each buffer `size` drops by                  *)
(* min(bp->b_bcount, size); with size left it goes on at the start of the *)
(* next buffer (a NULL b_sgnext is dereferenced: "fault"); else it marks   *)
(* the last entry EOT and stores last/offset, advancing to the next buffer *)
(* when leftover equals the buffer's b_bcount.  Buffers past the chain's   *)
(* end are numbered Len(chain) + 1 (NULL).                                 *)
(***************************************************************************)
RECURSIVE Walk(_, _, _, _, _, _)
Walk(chain, tab, bp, data, count, size) ==
  IF data % 2 = 1 \/ count % 2 = 1 \/ count = 0
    THEN Result("error", tab, bp, 0)
    ELSE LET r == MapBuffer(tab, data, count)
             rest == size - MIN(chain[bp].bcount, size)
         IN IF r.err THEN Result("error", r.tab, bp, 0)
            ELSE IF rest > 0
              THEN IF bp = Len(chain) THEN Result("fault", r.tab, bp + 1, 0)
                   ELSE Walk(chain, r.tab, bp + 1, chain[bp + 1].memaddr,
                             MIN(chain[bp + 1].bcount, rest), rest)
            ELSE LET done == size = chain[bp].bcount
                 IN Result("ok", [r.tab EXCEPT ![Len(r.tab)].eot = TRUE],
                           IF done THEN bp + 1 ELSE bp, IF done THEN 0 ELSE size)

\* ata_dmasetup(scp, device, request, flags)
DmaSetup(chain, last, offset, size) ==
  IF last > Len(chain) THEN Result("fault", <<>>, last, offset)
  ELSE Walk(chain, <<>>, last, chain[last].memaddr + offset,
            MIN(size, chain[last].bcount - offset), size)

(***************************************************************************)
(* The transfer of one request, call after call.                          *)
(***************************************************************************)
VARIABLES
  chain,          \* the request's buffer chain
  last, offset,   \* request->last (a buffer index), request->offset
  pos,            \* bytes of the chain the earlier calls were asked for
  size,           \* bytes the latest call was asked for
  tab,            \* the DMA table the latest call wrote
  status          \* "idle" before the first call, else its outcome

vars == <<chain, last, offset, pos, size, tab, status>>

Total(c) == FoldLeft(LAMBDA acc, b : acc + b.bcount, 0, c)

Init ==
  /\ chain \in Chains
  /\ last = 1 /\ offset = 0 /\ pos = 0 /\ size = 0
  /\ tab = <<>> /\ status = "idle"

\* the call for the piece of chain c after bytes p .. p + s - 1, with
\* request->last and request->offset at l and o
SetupFrom(c, l, o, p, s) ==
  LET n == MIN(Total(c) - (p + s), MaxXfer)
      r == DmaSetup(c, l, o, n)
  IN /\ chain' = c /\ pos' = p + s /\ size' = n
     /\ tab' = r.tab /\ status' = r.status
     /\ IF r.status = "ok" THEN last' = r.last /\ offset' = r.offset
                           ELSE last' = l /\ offset' = o

\* the caller sets up the next piece of the transfer
AtaDmaSetup ==
  /\ status \in {"idle", "ok"}
  /\ pos + size < Total(chain)
  /\ SetupFrom(chain, last, offset, pos, size)

Next == AtaDmaSetup

Spec == Init /\ [][Next]_vars

(***************************************************************************)
(* Properties.                                                             *)
(***************************************************************************)
TypeOK ==
  /\ last \in 1..(Len(chain) + 1) /\ offset \in 0..(Total(chain))
  /\ status \in {"idle", "ok", "error", "fault"}
  /\ \A e \in DOMAIN tab : tab[e].count \in 1..NBPG

\* the bytes of the chain, in order, as (buffer, virtual address) pairs
Stream(c) == FlattenSeq([k \in DOMAIN c |->
                [j \in 1..c[k].bcount |-> <<k, c[k].memaddr + j - 1>>]])
Wanted == [j \in 1..size |-> Stream(chain)[pos + j]]
Bytes(t) == FlattenSeq([e \in DOMAIN t |-> [j \in 1..t[e].count |-> t[e].base + j - 1]])

\* A table ata_dmasetup accepts makes the controller move exactly the bytes
\* of the chain the call was asked for, from pos on, in chain order, and
\* only its last entry carries EOT; successive calls resume where the
\* previous one stopped (request->last, request->offset).
TableMatchesTransfer ==
  status = "ok" =>
    /\ Bytes(tab) = [j \in 1..size |-> Pa(Wanted[j][2])]
    /\ \A e \in DOMAIN tab : tab[e].eot <=> e = Len(tab)

\* ata_dmasetup refuses a piece only when it really needs more entries than
\* the table has: one per page of each buffer it touches.
Needed == Cardinality({<<w[1], w[2] \div NBPG>> : w \in {Wanted[j] : j \in 1..size}})
RejectsOnlyOverlong == status = "error" => Needed > ATA_DMA_ENTRIES

\* ata_dmasetup never writes an entry past the end of the DMA table.
NoTableOverrun == Len(tab) <= ATA_DMA_ENTRIES
====
