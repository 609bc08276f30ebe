------------------------------ MODULE PicRegs ------------------------------
(***************************************************************************)
(* Register/protocol layer of the 8259 emulation in src/bin/monitor/pic.c: *)
(* the command-byte state machine of write_pic0/write_pic1 (ICW1-4, OCW1,  *)
(* OCW3) and the register reads of read_pic0/read_pic1.                    *)
(*                                                                         *)
(* A chip's mask register is kept as the internal linear level numbering   *)
(* (pic0_imr, pic1_imr in the code); the conversions to and from the       *)
(* guest's per-chip bit numbering are modelled by what they do on bits.    *)
(* The EOI branch of OCW2 acts on the dispatch state and is modelled in    *)
(* PicCore; here it leaves the chip registers unchanged.                   *)
(***************************************************************************)
EXTENDS Integers, FiniteSets, PicBits

CONSTANTS
  Cmds,    \* bytes the guest writes to a command port (offset 0)
  Data     \* bytes the guest writes to a data port (offset 1)

Bytes == 0..255
ASSUME Cmds \subseteq Bytes /\ Data \subseteq Bytes

Chips == {0, 1}

VARIABLES
  icw_state,      \* pic0_icw_state/pic1_icw_state: 0 => next data byte is a mask
  icw_max,        \* the static icw_max_state of write_pic0/write_pic1
  isr_requested,  \* picX_isr_requested: next command-port read = irr (0) / isr (1)
  imr,            \* [c |-> levels masked by chip c]: pic0_imr, pic1_imr
  base,           \* ICW2 vector base written to chip c (set_picX_base)
  smm,            \* pic_smm: 32 in special mask mode, 0 otherwise
  hw_left         \* reference: ICW bytes a real 8259 still expects

vars == <<icw_state, icw_max, isr_requested, imr, base, smm, hw_left>>

(***************************************************************************)
(* write_picX(port 0, v): ICW1, OCW3 or OCW2.                              *)
(***************************************************************************)
WriteCmd(c, v) ==
  /\ \/ /\ IsICW1(v)
        /\ icw_max' = [icw_max EXCEPT ![c] = ICWCount(v)]
        /\ icw_state' = [icw_state EXCEPT ![c] = 1]
        /\ hw_left' = [hw_left EXCEPT ![c] = HwICWCount(v)]
        /\ UNCHANGED <<isr_requested, smm>>
     \/ /\ IsOCW3(v)
        /\ isr_requested' = IF Bit(v, 1) = 1
                              THEN [isr_requested EXCEPT ![c] = Bit(v, 0)]
                              ELSE isr_requested
        /\ smm' = OCW3Smm(v, smm)
        /\ UNCHANGED <<icw_state, icw_max, hw_left>>
     \/ /\ ~IsICW1(v) /\ ~IsOCW3(v)
        /\ UNCHANGED <<icw_state, icw_max, isr_requested, smm, hw_left>>
  /\ UNCHANGED <<imr, base>>

(***************************************************************************)
(* write_picX(port 1, v): the mask (icw_state 0) or the next ICW byte;     *)
(* case 1 (ICW2) sets the vector base and falls through to the count.      *)
(***************************************************************************)
\* set_pic0_base / set_pic1_base (pic.c lines 299-325): the eight levels of
\* a chip take the vectors from the ICW2 byte with its low three bits
\* cleared, level k its k-th; base records the first
SetPicBase(v) == (v \div 8) * 8

WriteData(c, v) ==
  /\ IF icw_state[c] = 0
       THEN /\ imr' = [imr EXCEPT ![c] = ToEmu(c, v)]
            /\ UNCHANGED <<icw_state, base>>
       ELSE /\ base' = IF icw_state[c] = 1
                         THEN [base EXCEPT ![c] = SetPicBase(v)]
                         ELSE base
            /\ icw_state' = [icw_state EXCEPT ![c] =
                               IF icw_state[c] >= icw_max[c] THEN 0
                               ELSE icw_state[c] + 1]
            /\ UNCHANGED imr
  /\ hw_left' = [hw_left EXCEPT ![c] = IF hw_left[c] > 0 THEN hw_left[c] - 1
                                                         ELSE 0]
  /\ UNCHANGED <<icw_max, isr_requested, smm>>

(***************************************************************************)
(* read_picX: port 1 returns the mask in chip numbering; port 0 returns    *)
(* the in-service or request register chosen by the last OCW3.            *)
(***************************************************************************)
ReadData(c) == ToChip(c, imr[c])
ReadStatus(c, isr, irr) == IF isr_requested[c] = 1 THEN ToChip(c, isr)
                                                   ELSE ToChip(c, irr)

Init ==
  /\ icw_state = [c \in Chips |-> 0]
  /\ icw_max = [c \in Chips |-> 0]
  /\ isr_requested = [c \in Chips |-> 0]
  \* pic0_imr = 0xf800, pic1_imr = 0x07f8
  /\ imr = [c \in Chips |-> IF c = 0 THEN 11..15 ELSE 3..10]
  /\ base = [c \in Chips |-> IF c = 0 THEN 8 ELSE 112]
  /\ smm = 0
  /\ hw_left = [c \in Chips |-> 0]

Next ==
  \/ \E c \in Chips, v \in Cmds : WriteCmd(c, v)
  \/ \E c \in Chips, v \in Data : WriteData(c, v)

Spec == Init /\ [][Next]_vars

(***************************************************************************)
(* Properties.                                                             *)
(***************************************************************************)
TypeOK ==
  /\ icw_state \in [Chips -> 0..3]
  /\ icw_max \in [Chips -> 0..3]
  /\ isr_requested \in [Chips -> 0..1]
  /\ imr \in [Chips -> SUBSET (1..15)]
  /\ base \in [Chips -> Bytes]
  /\ smm \in {0, 32}
  /\ hw_left \in [Chips -> 0..3]

(* The ICW state machine of write_picX consumes exactly as many data bytes *)
(* after an ICW1 as a real 8259 does (ICW2, ICW3 unless SNGL, ICW4 if IC4) *)
(* so the first data byte after initialization is taken as the mask, as on *)
(* the hardware the guest programs.                                        *)
ICWCountMatches8259 == \A c \in Chips : (icw_state[c] = 0) <=> (hw_left[c] = 0)
=============================================================================
