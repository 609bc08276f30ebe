----------------------------- MODULE MCEdProbe -----------------------------
(***************************************************************************)
(* Cards for EdProbe: WD/SMC boards at 0x240, a 3c503 or an HP PC LAN+ at *)
(* 0x280, NE boards at 0x300, each port possibly empty.                    *)
(***************************************************************************)
EXTENDS EdProbe

None == [kind |-> "none"]
AllWindows == {\h0d0000, \h0cc000, \h0d4000, \h0d8000}

Wd(cksum, type, icr16, rar, iptr, memok) ==
  [kind |-> "wd", cksum |-> cksum, type |-> type, icr16 |-> icr16,
   rar |-> rar, iptr |-> iptr, memok |-> memok]
ThreeCom(jport, jmem, wts) ==
  [kind |-> "3com", jport |-> jport, jmem |-> jmem, wts |-> wts,
   memok |-> AllWindows]
Ne(is8390, ram) == [kind |-> "ne", is8390 |-> is8390, ram |-> ram]
Hp(fail, irq, memen, memmap, acc16) ==
  [kind |-> "hp", fail |-> fail, irq |-> irq, memen |-> memen,
   memmap |-> memmap, memtest |-> TRUE, acc16 |-> acc16]

\* every kind of WD/SMC board the probe tells apart
WdCards ==
  { Wd("ok", WD8013W, TRUE, 0, 2, AllWindows),
    Wd("ok", WD8013EP, FALSE, 0, 3, {\h0cc000}),
    Wd("ok", SMC8216T, TRUE, 2, 0, AllWindows),
    Wd("ok", SMC8216C, TRUE, 1, 4, AllWindows),
    Wd("clone", WD8003E, FALSE, 0, 0, AllWindows),
    Wd("bad", WD8013W, TRUE, 0, 2, AllWindows) }

\* the same with a 64K SMC8216 board
WdCards64 == WdCards \cup { Wd("ok", SMC8216C, TRUE, 3, 1, AllWindows) }

OtherCards ==
  { ThreeCom(\h280, \h0d8000, TRUE), ThreeCom(\h280, \h0cc000, FALSE),
    Hp("", 7, FALSE, 0, FALSE), Hp("", 2, FALSE, 0, TRUE),
    Hp("", 9, TRUE, \h0d4000, TRUE), Hp("reset", 7, FALSE, 0, FALSE) }

NeCards == { Ne(TRUE, "16k"), Ne(TRUE, "8k"), Ne(FALSE, "16k") }

MCCardAt(q) ==
  {None} \cup CASE q = \h240 -> WdCards [] q = \h280 -> OtherCards
                [] OTHER -> NeCards

MCCardAt64(q) == IF q = \h240 THEN {None} \cup WdCards64 ELSE MCCardAt(q)

\* NE boards only
MCCardAtNe(q) == IF q = \h300 THEN NeCards ELSE {None}

MCCounts == {64, 300, 511, 512, 1518}
====
