---------------------------- MODULE MCAtaChannel ----------------------------
(* Model-checking instance of AtaChannel: four-byte pages mapped in       *)
(* reverse order, a three-entry DMA table and commands of at most eight   *)
(* bytes.  The chains: four one-page buffers (two commands, the second    *)
(* resuming at a buffer boundary), two page-crossing buffers that need    *)
(* four entries in one command (ata_dmasetup fails: PIO), and one buffer  *)
(* over three pages (exactly a full table).                               *)
EXTENDS AtaChannel

MCFrame == [v \in 0..7 |-> 7 - v]
Buf(a, n) == [memaddr |-> a, bcount |-> n]
MCChannelChains ==
  { <<Buf(0, 4), Buf(8, 4), Buf(16, 4), Buf(24, 4)>>,
    <<Buf(2, 4), Buf(10, 4)>>,
    <<Buf(2, 8)>> }
====
