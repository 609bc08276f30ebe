----------------------------- MODULE MCPicRegs -----------------------------
(***************************************************************************)
(* Model-checking instance of PicRegs.                                     *)
(*   0x11 ICW1 as a PC BIOS writes it (cascade, ICW4 needed)               *)
(*   0x13 ICW1 for a single chip with ICW4                                 *)
(*   0x0A / 0x0B OCW3 read IRR / read ISR, 0x68 / 0x48 OCW3 SMM on / off   *)
(*   0x20 OCW2 non-specific EOI                                            *)
(*   data bytes: 0x08 a vector base, 0x04 ICW3, 0x01 ICW4, 0xB8 a mask     *)
(***************************************************************************)
EXTENDS PicRegs

MCCmds == {17, 19, 10, 11, 104, 72, 32}
MCData == {8, 4, 1, 184}
=============================================================================
