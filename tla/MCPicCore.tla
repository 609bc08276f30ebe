----------------------------- MODULE MCPicCore -----------------------------
(***************************************************************************)
(* Model-checking instance of PicCore: the timer (level 1, IRQ0) and the   *)
(* IRQ9 (level 4, second chip), both handed to guest ISRs, the timer      *)
(* rescheduling itself.  Other handler sets for the other runs.           *)
(***************************************************************************)
EXTENDS PicCore

MCHandlers == {1, 4}
MCDoIrq == {1, 4}
MCPeriodic == {1}
MCIntervals == {1}

\* the guest unmasks a whole chip; OCW3 special mask mode on, off
MCMasks == {0}
MCSmm == {104, 72}
NoMasks == {}
NoSmm == {}

\* the timer and the keyboard (level 2, IRQ1), both on the first chip
KbdHandlers == {1, 2}

\* an NMI handler that hands the NMI to the guest (level 0, pic_seti)
NmiHandlers == {0, 1}
NmiDoIrq == {0, 1}

\* two software levels above the IRQs (16-31: auto-EOI), both handed to
\* guest ISRs; no periodic source
SoftHandlers == {16, 17}
NoPeriodic == {}

\* IRQ9 handed to a guest ISR and a software level (16) served by the
\* emulator alone
Irq9Soft == {4, 16}
Irq9 == {4}

\* device code registers, masks or unmasks nothing, or the keyboard
NoReg == {}
KbdReg == {2}
=============================================================================
