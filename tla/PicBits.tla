------------------------------ MODULE PicBits ------------------------------
(***************************************************************************)
(* Constant operators shared by PicRegs and PicCore: the bit conversions   *)
(* between the guest's per-chip register bytes and the emulator's linear   *)
(* level numbering (pic.c, pic.h, bitops.h) and the decoding of the        *)
(* command bytes of write_pic0/write_pic1.                                 *)
(***************************************************************************)
EXTENDS Integers, FiniteSets

(***************************************************************************)
(* Bits and the level numbering of pic.h.                                  *)
(***************************************************************************)
Bit(v, i) == (v \div 2^i) % 2

\* levels of the first chip, by its IRQ line (IRQ2 is the cascade input)
Pic0Level == [b \in 0..7 |-> IF b < 3 THEN b + 1 ELSE b + 8]

\* pic0_to_emu / emu_to_pic0 (bitops.h, not in the tree): bits 0-2 of the
\* byte are levels 1-3, bits 3-7 are levels 11-15
Pic0ToEmu(v) == {Pic0Level[b] : b \in {i \in 0..7 : Bit(v, i) = 1}}
EmuToPic0(S) == LET bits == {b \in 0..7 : Pic0Level[b] \in S}
                IN  LET F[B \in SUBSET (0..7)] ==
                          IF B = {} THEN 0
                          ELSE LET b == CHOOSE x \in B : TRUE
                               IN  2^b + F[B \ {b}]
                    IN  F[bits]

\* set_pic1_imr(x): pic1_imr = x << 3;  get_pic1_imr(): pic1_imr >> 3
Pic1ToEmu(v) == {b + 3 : b \in {i \in 0..7 : Bit(v, i) = 1}}
EmuToPic1(S) == LET F[B \in SUBSET (3..10)] ==
                      IF B = {} THEN 0
                      ELSE LET l == CHOOSE x \in B : TRUE
                           IN  2^(l - 3) + F[B \ {l}]
                IN  F[S \cap 3..10]

ToEmu(c, v) == IF c = 0 THEN Pic0ToEmu(v) ELSE Pic1ToEmu(v)
ToChip(c, S) == IF c = 0 THEN EmuToPic0(S) ELSE EmuToPic1(S)

(***************************************************************************)
(* Command-byte classification of write_picX, port offset 0.               *)
(***************************************************************************)
IsICW1(v) == Bit(v, 4) = 1
IsOCW3(v) == ~IsICW1(v) /\ Bit(v, 3) = 1
\* (value & 0xb8) == 0x20
IsEOI(v)  == ~IsICW1(v) /\ ~IsOCW3(v) /\ Bit(v, 7) = 0 /\ Bit(v, 5) = 1

\* icw_max_state = (value & 1) + 1; if (value & 2) ++icw_max_state;
ICWCount(v) == Bit(v, 0) + 1 + Bit(v, 1)

\* what the 8259 expects after ICW1: ICW2, ICW3 unless SNGL (bit 1),
\* ICW4 if IC4 (bit 0)
HwICWCount(v) == 1 + (1 - Bit(v, 1)) + Bit(v, 0)

(***************************************************************************)
(* Smm after an OCW3 (shared by both chips):                               *)
(* if (value & 64) pic_smm = value & 32;                                   *)
(***************************************************************************)
OCW3Smm(v, s) == IF Bit(v, 6) = 1 THEN 32 * Bit(v, 5) ELSE s

=============================================================================
