# TLA+ models of exopc's PIC emulation, NE2000 driver, ATA DMA and mode setup, ALFS directories and wakeup predicates

These modules model eight parts of exopc, and TLC checks them:
- the 8259 interrupt-controller emulation of the monitor (`src/bin/monitor/pic.c` and `src/bin/monitor/include/pic.h`);
- the EXOPC build of the NS8390/NE2000 network driver in the kernel (`src/sys/dev/if_ed.c`);
- the same driver's card detection, receive-ring layout and ring copy (`exo_ed_init`, the four vendor probes, `ed_rint`, `ed_ring_copy` and the PIO reads);
- the EXOPC build of the ATA bus-master DMA table setup (`ata_dmasetup` in `src/sys/dev/ata-dma.c`);
- the ATA transfer-mode setup, per controller chip (`ata_dmainit` and `hpt366_timing` in the same file);
- the EXOPC build of the ATA channel layer: attach, probe and reset, `ata_command`, `ata_start` and `ataintr` (`src/sys/dev/ata-all.c`);
- the directories with embedded content of the ALFS library file system (`src/lib/alfs/alfs_embdir.c`);
- the user-level wakeup predicates of the exos library (`src/lib/libexos/os/uwk.c`).

The last seven have their own sections below.

 Everything is translated from the C source. Where
`spec.md` is cited, it is the statement being compared with what the code does.

## The system

The emulation has four layers. All of them run on the emulator's single thread.
The timer signal can arrive between any two steps. The dispatch code re-enters
itself through handlers it calls.

| Layer | Code | What it does |
|---|---|---|
| Register/protocol | `write_pic0`, `write_pic1`, `read_pic0`, `read_pic1`, the `set/get_picX_imr` macros | Interprets guest writes to ports 0x20/0x21 and 0xa0/0xa1 (ICW1-4, OCW1-3). Serves register reads. |
| Priority dispatch | `run_irqs` (asm by default; C with `C_RUN_IRQS`), `pic_run` | Finds the highest-priority requested level that is not in service. Sets it in service, calls its handler, clears the in-service bit afterwards. |
| Completion tracking | `do_irq`, `pic_push`/`pic_pop`, the OCW2 EOI branch, `pic_iret` | Hands a level to a guest ISR. Pushes it on `pic_stack`. Runs the guest until the level's EOI. Catches the ISR's iret with a faked return frame and releases queued requests when it arrives. |
| Scheduling and watchdog | `pic_request`, `pic_activate`, `pic_sched`, `pic_watch` | Queues requests for levels in service or while nested too deep. Keeps the per-level time table. `pic_watch` runs on every timer signal: it forces stale queued requests through, rebases the table when the 15-minute wall clock wraps, and activates due timers. |

They interact through shared globals: `pic_irr`, `pic_isr`, `pic1_isr`,
`pic_pirr`, `pic_wirr`, `pic_ilevel`, `pic_stack`, `pic_icount` and the time
table. The key interaction is re-entrant:
1. `run_irqs` calls a handler.
2. The handler calls `do_irq`.
3. `do_irq`'s loop runs the guest and calls `run_irqs` again.
4. That `run_irqs` may dispatch another level.

## Modules

| Module | Models |
|---|---|
| `PicBits` | Constant operators: bit tests on a command byte, the guest-bit to internal-level numbering of both chips (`PIC_IRQx` in `pic.h`), the ICW byte count, and the OCW3 special-mask-mode effect. `pic0_to_emu`/`emu_to_pic0` live in `bitops.h`, which is not in the tree. They are reconstructed from the level numbering in `pic.h`: bits 0-2 go to levels 1-3, bits 3-7 to levels 11-15. |
| `PicRegs` | The register layer of both chips. There is one `WriteCmd(c, v)` and one `WriteData(c, v)` per chip and byte, and reads are operators. `hw_left` is a reference counter of the ICW bytes a real 8259 still expects; it is not in the code. |
| `PicCore` | Dispatch, guest delivery, completion and scheduling, with the guest and the timer signal as environment. |
| `MCPicRegs`, `MCPicCore` | Constant definitions for the `.cfg` files. |
| `AtaDma`, `MCAtaDma` | `ata_dmasetup` as recursive operators, called repeatedly by an environment caller (see "ATA DMA table setup"). |
| `AtaChannel`, `MCAtaChannel` | One ATA channel at run time: `ata_start` and `ataintr` over `AtaDma`, with the disk driver and the drive as environment (see "ATA channel layer"). |
| `AtaQueue` | What a channel promises the disk driver: a FIFO served one request at a time, with no idle time while requests wait. `AtaChannel` is shown to implement it. |
| `AtaDmaInit` | `ata_dmainit` for every chip of its switch, with `ata_command` and `ata_wait` over the drive's status answers (see "ATA transfer-mode setup"). |
| `AtaAttach`, `MCAtaDmaInit` | `ata_pciattach`, `ata_probe` and `ata_reset` at boot, then `ata_dmainit` for the devices found (see "ATA channel layer"). |
| `IfEd`, `MCIfEd` | The NE2000 driver, with the card as environment (see "The NE2000 driver"). |
| `EdProbe`, `MCEdProbe` | Card detection, ring layout, `ed_rint`'s header handling and the ring copy, with the card as a record of its answers (see "NE2000 card detection"). |
| `AlfsEmbdir`, `MCAlfsEmbdir` | ALFS directory blocks, header by header, with add and remove calls (see "ALFS directories"). |
| `Uwk`, `MCUwk` | `wk_waitfor_pred_directed` with the registered extras (see "Wakeup predicates"). |
| `UwkSleep`, `MCUwkSleep` | The waits built on `wk_waitfor_pred`: timed, value, env-death, constant and free-pages waits, with the kernel's counters as environment. |
| `AlfsDirNum` | The ALFS directory-number map: `initDisk`, `mountDisk`, `unmountDisk`, `allocDirNum`, `deallocDirNum`. `MCAlfsEmbdir` interleaves it with the directory calls. |
| `EmbdirNames` | What an ALFS directory promises: a set of names, with the results of add and remove. `AlfsEmbdir` is shown to implement it. |

### PicCore state and actions

Bitmasks are sets of levels. Times are `Width`-bit signed integers: `Long`
wraps them, and `NEVER` is the most negative value. The wall clock wraps every
`Period` ticks; in the code that is `900 * 1193047`.

The constant `Timing` selects the build. `"wrap"` is the default build, described above. `"micro"` is the `MONOTON_MICRO_TIMING` build (`pic.c:914-918`, `936-939`, `984-995`):
- the clock runs on through the whole `Width`-bit range;
- `pic_watch` never rebases, and it takes a time of -1 as 0;
- `Before` compares times by their signed difference, `(int)(a - b) < 0`;
- `NextTimes` advances the clock by 0 to `Period - 1` ticks per timer signal, so `Period` bounds the time between two signals.

The wrapped comparison is no total order, so `Earliest` follows `pic_activate`'s loop over the due levels in increasing order.

The emulator's C call stack is the sequence `host`. It holds three kinds of
frame:
- a `run_irqs` activation, with the saved `pic_ilevel`, the asm `%ecx` threshold, and whether the handler call has clobbered `%ecx`;
- a handler, with its level and its position (before `pic_sched`, before `do_irq`, returning);
- a `do_irq` loop, at its test, running the guest, or trapped.

In this port the body of the `do_irq` loop is `ASSERT(0)`, and the `run_vm86()` call after it is commented out (`FIXME`). The constant `VmRun` chooses what the loop body is:
- **`VmRun = TRUE`:** the `run_vm86()` call the loop was written for (spec 4.3). The guest runs until its next trap. The main, c and reset runs and the PicCore finding configurations use it, because without it no guest ISR could run nested and the completion protocol could not be checked at all.
- **`VmRun = FALSE`:** this port as built. `ASSERT` is defined outside the tree, so `DoIrqTest` chooses between its outcomes (`LoopBody`). Either the monitor aborts (`Aborted`: no step follows), or, with `ASSERT` compiled out, the loop goes on to its tail without running the guest. The live run uses it.

Only the top frame acts.

`gstack` is the environment's view of guest ISRs entered through `do_irq`. Each
entry records the level, the EOIs sent so far, and the saved VIF. The guest
runs when `host` is empty (the main loop) or when the top frame is a `do_irq`
loop in its vm86 phase. A trapping guest instruction (an EOI, an iret through
the faked frame, or a port write) ends the vm86 run and returns to the loop.

| Action | Code |
|---|---|
| `PicRun` | `pic_run()` from the main loop |
| `RunIrqsStep` | One pass of the `run_irqs` loop: dispatch, return, or (C) re-test. Uses `Candidates`, `Thr` and `Dispatch`. |
| `HandlerSched` | `pic_sched` from a periodic level's handler |
| `HandlerDoIrq` | The whole `do_irq` prologue: IRQ9 BIOS path, push, `pic_cli`, fake frame, `pic_icount++` |
| `HandlerReturn` | The code after the handler call in `run_irqs` (btr of `pic_ilevel` in `pic_isr` and `pic1_isr`) |
| `DoIrqTest` / `DoIrqPost` | The `do_irq` loop test, with `pic_sti` on exit, and the loop tail (`pic_isr &= PIC_IRQALL`; `run_irqs` if requests) |
| `GuestEOI` | OCW2 EOI in `write_pic0`/`write_pic1` |
| `GuestIret` | iret through the faked frame, i.e. `pic_iret` (`PicIret`) |
| `GuestSkipIret` | A guest leaving an ISR without iret, as the comment above `pic_iret` warns |
| `GuestWriteMask`, `GuestWriteOCW3`, `GuestSti` | OCW1 mask load, OCW3 mode switch, the guest setting VIF |
| `DeviceRequest` | `pic_request` from device code |
| `DeviceSeti`, `DeviceMaski`, `DeviceUnmaski` | `pic_seti` (a NULL handler also calls `pic_maski`), `pic_maski` (sets `pice_imr` only), `pic_unmaski` (clears it if a handler is set, then `pic_set_mask`) |
| `VirtPicReset` | `virt_pic_reset` at a guest reboot, anywhere the guest runs, an ISR included |
| `Tick` | `pic_watch`: watchdog, the new time (`NextTimes`), wall-clock wrap `Rebase` in the default build, `pic_activate` |

`Init` is the state after boot and `virt_pic_reset`. `funcs` is the set of
levels whose `pic_iinfo[l].func` is set. `pic_request` and `pic_activate` ignore
the other levels.

The callers of the registration functions and of `virt_pic_reset` are outside
`src/`. They are therefore environment steps, run between two guest
instructions like a device request. `MaxRegOps` and `MaxResets` bound them.
`virt_pic_reset` assigns the masks, `pic_isr`, `pic_ilevel`, `pic_sp` and the
time tables. It then registers and unmasks IRQ0 and IRQ1, and requests IRQ0. It
leaves `pic_irr`, `pic_pirr`, `pic_wirr`, `pic1_isr`, `pic_icount` and
`pic_smm` as they were.

## Runs

Each run's properties are commented in the module. Every property of a pass run
has a mutant: a plausible bug in the mapped code that makes TLC find the
property violated.

| Run | cfg | Expect | Shows |
|---|---|---|---|
| picregs | `MCPicRegs.cfg` | violation | Over ICW1/OCW3/OCW2 and data bytes to both chips, `write_picX` ends initialization after a different number of data bytes than a real 8259 (`ICWCountMatches8259`). The ICW count inverts the SNGL bit, so a BIOS-style 0x11 initialization loads its ICW4 as the mask. |
| main | `MCPicCore.cfg` | pass | Asm build, with the timer and IRQ9 handed to guest ISRs, nested guest ISRs, and the guest toggling special mask mode. `pic_stack` always equals the list of ISRs still owing an EOI (`StackSync`), and no handler is re-entered (`NoReentry`). Guest ISRs run in the `do_irq` loop as designed (`VmRun = TRUE`). |
| c | `MCPicCore_c.cfg` | pass | C build, with timer and keyboard and one skipped iret. `StackSync` and `NoReentry` hold. |
| live | `MCPicCore_live.cfg` | violation | Asm build as this port has `do_irq` (`VmRun = FALSE`), under the fairness below. A level handed to `do_irq` never leaves service (`ServiceCompletes`): the monitor aborts at the `ASSERT(0)` or loops without running the guest ISR that would send the EOI. Spec 4.3 says the nested guest ISR runs to completion. Deadlock is not checked, since an abort does stop the monitor. |
| reset | `MCPicCore_reset.cfg` | pass | Asm build with the keyboard registered, masked and unmasked by device code, and a guest reboot at any point, nested ISRs included. `StackSync` holds across the reset. |
| ed | `MCIfEd.cfg` | pass | Two processors take the card's interrupt during transmissions, receptions, ring overruns and a corrupt ring header. `edintr` admits one processor at a time (`InIntrExclusive`) and loses no interrupt (`NoLostInterrupt`). Packets go on the wire and up the stack once each and in order (`WireInOrder`, `DeliveredInOrder`). The user's `GD_ED0` window never maps a queued buffer (`UserWindowFree`). Every queued packet leaves its buffer (`TxDrains`). |
| atadma | `MCAtaChannel.cfg` | pass | One channel serves up to three queued requests for a DMA master and a PIO slave, possibly with an interrupt still latched from attach. Every table `ata_dmasetup` accepts, first or resumed, moves exactly the request's next bytes in order, with page-bounded entries and EOT on the last (`TableMatchesTransfer`). It refuses only a piece that needs more entries than the table has (`RejectsOnlyOverlong`). Every queued request is finished (`RequestsComplete`). The channel implements `AtaQueue`: requests are served one at a time, in queue order, each exactly once (`ImplementsQueue`). |
| atainit | `MCAtaDmaInit.cfg` | pass | From attach and probe on: every chip of the switch, both channel layouts, the BIOS register values each chip's setup reads, five classes of drive. A drive's answer to SETFEATURES is to accept it, to time out still BUSY, or no status at all (an absent drive). Each device left in a DMA mode runs that mode on both ends. The drive accepted it, and the controller's timing registers hold it, after the setups of all the other devices that share them (`TimingMatchesMode`). A drive that aborts SETFEATURES (READY with ERROR) breaks the property (`MCAtaDmaInit_abort.cfg`, below). The four controller bits with known flaws are left to their own properties (see "ATA transfer-mode setup"). |
| alfs | `MCAlfsEmbdir.cfg` | pass | Up to eight adds and removes of four names, with two entry sizes, over a directory of up to two blocks of two sectors. Every sector's `entryLen` chain tiles it, and every `preventryLen` leads back to the entry before (`WellFormed`). The directory implements `EmbdirNames`: calls add or remove exactly their name and return what the header comments say (`ImplementsNames`). This is checked up to a call that aborts. Interleaved with these calls, the directory-number map always equals the callers' directories, on disk between mounts (`MapMatchesDirs`), and `allocDirNum` reports the map full only when it is (`FullOnlyWhenFull`). |
| uwk | `MCUwk.cfg` | pass | Extras are registered outside a wait, and deregistered anywhere: the prolog while asleep and callbacks included. Every rebuild of the super-predicate fits `wksuper` (`NoOverflow`). |
| uwksleep | `MCUwkSleep.cfg` | pass | Over every value of a 4-bit clock in 2-bit halves, the carry of the env-death count, a watched word and the three page counts, every downloaded predicate is true exactly when its wait is over (`WaitPredExact`). This includes sleep targets computed from torn reads of the clock. |
| edprobe | `MCEdProbe.cfg` | pass | For every board the four probes recognise, `ed_rint` and `ed_ring_copy` read each packet from the bytes the card stored it in, across the ring wrap (`CopyMatchesRing`). Each piece read by PIO stores every byte of it and at most one more (`ReadmemCovers`). |

More configurations reproduce findings that `PROJECT.json` records
without a run of their own:
- `MCPicCore_ecx.cfg`: The asm `%ecx` threshold, clobbered by the handler call, lets a nested `run_irqs` re-enter an active level (`NoReentry`).
- `MCPicCore_pic1.cfg`: a dispatch nested in an IRQ9 ISR recomputes `pic1_isr` and undoes an EOI already sent. The ISR's last EOI leaves IRQ9 in service (`EOIResetsSender`).
- `MCAlfsEmbdir_assert.cfg`: a deleted first entry keeps its stale lengths. After five calls, compression frees less than `getblockforname` counted, and `addEntry`'s assertion fails (`NoAddEntryAbort`).
- `MCAtaDma.cfg` with `INVARIANT NoTableOverrun` alone: the entry that ends a buffer is written without the table-size test, so a chain of one-page buffers writes past the DMA table (`NoTableOverrun`).
- `MCPicCore_nmi.cfg`: an NMI handed to the guest is pushed and never popped, so the next ISR's EOI resets the NMI entry and not its own level (`EOIResetsSender`).
- `MCPicCore_clive.cfg`: the C `run_irqs` spins for ever on a request that fails the priority check (`ServiceCompletes`).
- `MCPicCore_maski.cfg`: `pic_maski`, alone or from `pic_seti(l, NULL)`, leaves `pic_imr` stale. The asm `run_irqs` then dispatches the level it has just masked, through its NULL handler (`DispatchRespectsMask`).
- `MCAtaDma_resume.cfg`: the chain is set up in pieces of one command each. A call resuming at `request->offset` decrements `size` by the whole buffer. Its table is shorter than the command, and it still returns 0 (`TableMatchesTransfer`).
- `MCUwk_callback.cfg`: a callback registers an extra, and the rebuild at `wait_again` writes past `wksuper` (`NoOverflow`).
- `MCUwk_sleep.cfg`: the prolog deregisters an extra and registers another in its slot, and the old component's wake-up runs the new callback (`CallbackOwner`). The uwk run registers extras only outside a wait, where this property reduces to the construct test, so it is not checked there.
- `MCUwk_nest.cfg`: a callback waits itself. The outer call then re-downloads the inner caller's terms (`OwnPredicate`).
- `MCUwkSleep_wrap.cfg`: `usecs + si_rate - 1` wraps in `u_int`, and a long sleep returns at the next tick (`UsleepLongEnough`).
- `MCUwkSleep_torn.cfg`: a clock tick between the two 32-bit loads of the tick count puts the target 2^32 ticks ahead (`UsleepNotTooLong`).
- `MCPicCore_wrap.cfg`: the wrap rebase in `pic_watch` drops a rescheduled, due but undelivered timer (`WrapKeepsSchedule`).
- `MCPicCore_c.cfg` with `Timing = "micro"` and `INVARIANT ScheduleLive` alone: in the `MONOTON_MICRO_TIMING` build, `pic_sched` reschedules the timer from 3 to 3 + 1, which wraps to `NEVER`. `pic_activate` skips that entry, so the timer never fires again (`ScheduleLive`). The default build keeps every time below 2^30 and cannot reach `NEVER`. This build multiplies the time values by four, so it has no passing run of its own: the `c` run took over 5 minutes with it.
- `MCAtaDmaInit.cfg` with `INVARIANT SlaveTimingEnabled` alone: the SITRE test shifts by `unit << 8`, so the secondary channel tests the primary's bit. A secondary slave gets WDMA2 timing with SITRE off (`SlaveTimingEnabled`).
- `MCAtaDmaInit.cfg` with `INVARIANT AladdinUdmaTiming` alone: `device << 2` is 64 for the slave. The shift, taken modulo 32, sets the master's UDMA nibble and not the slave's (`AladdinUdmaTiming`).
- `MCAtaDmaInit.cfg` with `INVARIANT PromiseClockBit` alone: `inl(..) | unit ? 8:2` writes a bare 8 to the primary's port when the port is not zero (`PromiseClockBit`). `inl` reads the four ports 0x11-0x14 and only 0x11 is modelled (`p11`), so when it is 0 `PromiseClock` takes either outcome.
- `MCAtaDmaInit.cfg` with `INVARIANT GenericDmaCapable` alone: the generic chip tests the other device's DMA-capable bit (`GenericDmaCapable`).
- `MCAtaDmaInit_reinit.cfg`: with a second call per device, a failing call frees the table of a device that stays in DMA mode (`DmaTableLive`).
- `MCPicCore_fake.cfg`: after two skipped irets, `pic_icount` stays above `pic_icount_od`, and scheduled timers never activate again (`ThrottleEnds`).
- `MCPicCore_reboot.cfg`: a guest reboot while two ISRs are nested leaves `pic_icount` above `pic_icount_od`, because `virt_pic_reset` does not clear it. The rebooted guest's timer never fires again (`ThrottleEnds`).
- `MCAtaDma.cfg` (passes): every chain of up to three buffers, in any alignment, set up in one call, with `TableMatchesTransfer` and `RejectsOnlyOverlong`.
- `MCAtaDmaInit_native.cfg`: a native-mode controller's channels are never registered in `atadevicesbyirq[]`, so their drives' interrupts are not handled (`IrqRegistered`).
- `MCAtaDmaInit_bar0.cfg`: with a bus-master BAR of 0, the secondary channel gets port 8, a register of the 8237 (`BmPortDecoded`).
- `MCAtaDmaInit_abort.cfg`: a drive that aborts SETFEATURES ends READY with ERROR set. `ata_wait` returns 1, `ata_command` returns 0, and the controller is programmed for a mode the drive refused (`TimingMatchesMode`).
- `MCEdProbe.cfg` with `INVARIANT EveryCardFound` alone: 3c503 and non-soft-configured WD boards are never attached, because `exo_ed_init` passes `id_irq` 0 (`EveryCardFound`).
- `MCEdProbe_irq.cfg`: an NE board is attached with IRQ 0 (`AttachedIrqValid`).
- `MCEdProbe.cfg` with `INVARIANT RintAcceptsStored` alone: a 64K SMC8216 stores `rec_page_stop` 256 as 0, and `ed_rint` resets on every packet (`RintAcceptsStored`).
- `MCEdProbe.cfg` with `INVARIANT WildLengthRecovered` alone: the wild-length recovery counts the last partial page twice (`WildLengthRecovered`).
- `MCEdProbe.cfg` with `INVARIANT CopyWithinPacket` alone: `ed_pio_readmem` rounds an odd copy up to a word and stores a byte past the packet (`CopyWithinPacket`).
- `MCUwkSleep.cfg` with `INVARIANT FreepagesNotStale` alone: pages freed between `wk_waitfor_freepages`'s test and its reads leave the caller asleep with pages to spare (`FreepagesNotStale`).

The `findings` of `PROJECT.json` say what each violation means for the code.

## Bounds

The MC modules use:
- **Handlers:** the timer (level 1) with IRQ9 (level 4, second chip), or with the keyboard (level 2).
- **`Width` = 3, `Period` = 2:** enough for a timer to be scheduled, due, delivered and rebased across a wrap.
- **At most one device request, at most two nested guest ISRs, at most one skipped iret.** The live run allows one nested ISR and no skipped iret.
- **A single mask byte (0):** the guest unmasks the second chip, so that IRQ9 can be dispatched by the asm build.
- **One registration call on the keyboard level, and one reset (reset run).** The reset may come at any point where the guest runs. The run drops the guest's mask writes to stay within minutes.

Each violation needs at most two nested ISRs and one wrap, and TLC finds each
within 20 steps. The pass runs reach between 128k and 2.7M distinct states, in
under 2 minutes each.

The nmi and wrap configurations use `Width` = 4 and `Period` = 4. This gives time for a
rescheduled timer to lie below `pic_dos_time` at a wrap.

`DispatchRespectsMask` is checked only by `MCPicCore_maski.cfg`, for the asm
build, where `pic_maski` makes it fail. The passing runs never call
`pic_maski`, so `pic_imr` is always recomputed there and the property would
only restate the scan's guard. The C `run_irqs` scans `pic_irr & ~pic_isr`
and never reads `pic_imr` (`pic.c:578`), so it dispatches masked levels by
construction.

The C build is checked without special mask mode. With special mask mode on,
the C priority check lets a level interrupt itself, which is what special mask
mode asks for, so `NoReentry` does not apply to it.

## Fairness

`FairSpec` assumes the following:
- **Weak fairness on every emulator step.** The monitor's main loop keeps calling `pic_run`, and a vm86 run returns at the latest at the next signal.
- **Weak fairness on `Tick`.** The interval timer keeps firing.
- **Strong fairness on a faithful guest's EOI, iret and STI.** These steps are enabled only while the guest runs, so they need strong fairness.

Device requests and skipped irets are not fair: they may never happen.

## The NE2000 driver

`IfEd` models the EXOPC paths of `if_ed.c`. State and actions map to the code as follows:
- **`sc`:** the softc fields these paths use (`xmit_busy`, `txb_inuse`, `txb_new`, `txb_next_tx`, `next_packet`, `IFF_OACTIVE`). It also holds `window`, the buffer `ed_start` maps into the user's `GD_ED0` segment, and `txp`, the buffer the card is transmitting after `ED_CR_TXP`.
- **Transmit path:** `XokEdXmit` is `xok_ed_xmit`. It refuses when all buffers are in use, copies into `txb_new`, and refuses an oversize packet after the copy. Otherwise it queues the packet and calls `ed_start`. `EdStart` and `EdXmit` are operators on the softc record. They are applied inside the actions that call them.
- **Interrupt hand-off:** `edintr`'s `test_and_set` hand-off is one action per step, `EdintrPend`, `EdintrOuter`, `EdintrInner` and `EdintrRelease`, and `pc` holds each processor's place.
- **`edintr_sc`:** `EdintrSc` is one pass of its loop: read and acknowledge the status, handle the transmitter (`TxComplete`), then reset on overwrite or go to `ed_rint`. `EdRint` reads one packet; `EdRintEnd` ends the loop, or resets on a corrupt header. `EdintrStart` is the `ed_start` that ends each pass.
- **Reset:** `EdReset` is `ed_stop` then `ed_init`. A transmission in progress may or may not finish within `ed_stop`'s bounded wait. `Init` is `exo_ed_init`.

The card is the environment:
- It finishes transmissions, which sets `PTX`, or aborts them after collisions, which sets `TXE`.
- It stores packets of 1 or 2 pages at `CURR`. When a packet would reach `BNRY`, it raises `OVW` instead.
- At most `MaxBad` packets get a header whose next page is outside the ring.

The interrupt line is high while an enabled status bit is set. A rising edge is latched in `irq` and delivered to one idle processor.

Packets carry sequence numbers instead of data. `wire` and `delivered` are history variables.

Bounds and fairness:
- **Bounds:** two processors, two transmit buffers (the driver's maximum), a four-page ring, three packets sent and two received. With these bounds both buffers fill, the user window is revoked, and a second packet overruns the ring.
- **Fairness:** weak fairness on each processor's handler steps, on delivery of a latched edge, and on the card finishing a transmission. Sends, arrivals and faults are not fair.
- **Deadlock:** not checked. An idle card with no traffic left waits for the next packet.

Each of `xok_ed_xmit`, `ed_start` and a pass of `edintr_sc` is one atomic step. In the EXOPC build `splimp` masks nothing, so on a multiprocessor the system call and the handler could interleave inside these calls. The model does not cover that (see `hazards`).

## NE2000 card detection

`EdProbe` models what `exo_ed_init` sets up before `IfEd` starts:
- `ProbeStep` is one pass of `exo_ed_init`'s loop over `ed_ports` and `ed_shm`. It builds an `isa_device` with `id_irq` 0 and calls `ed_probe`.
- `ed_probe` tries `WdProbe`, `ThreeComProbe`, `NovellProbe` and `HppProbe` in turn. Each vendor probe's checks, interrupt choice and memory layout are operators (`WdType`, `WdIrq`, `WdLayout`, `ThreeComLayout`, `NovellLayout`, `HppIrq`, `HppLayout`, ...).
- `Receive` is one pass of `ed_rint` for a packet the card stored at a sample ring page. It reads the header, applies the wild-length recovery (`RintLen`) and the sanity test (`RintAccept`), and copies the packet with `ed_get_packet` and `ed_ring_copy`.
- `Stored` is what each piece of the copy stores at its destination. `bcopy` stores exactly the piece. `ed_pio_readmem` rounds an odd amount up to a word on a Novell card. On an HP PC LAN+ it calls `ed_hpp_readmem`, which uses 32-bit reads (unless `hpp_id` says 16-bit access), then 16-bit reads, then one 16-bit read of which the low byte is kept.

The card at a port is a record of what its registers and memory answer. A probe recognises only its own vendor's card.

Bounds: `MAXSMC` is 1, as in the code. The cards offered are:
- at 0x240, WD/SMC boards of every type the probe tells apart, a 64K SMC8216 among them;
- at 0x280, a 3c503 or an HP PC LAN+;
- at 0x300, NE boards;
- or nothing at a port.

Packets have counts of 64, 300, 511, 512 and 1518 bytes. They are stored at the first and last ring pages and at pages from which they wrap. The checked copy points are both sides of every page boundary and of the wrap. Deadlock is not checked: `exo_ed_init` returns.

## ATA DMA table setup

`ata_dmasetup` (EXOPC, `ata-dma.c:562`) is modelled with these operators:
- **`Segments`:** the inner per-page loop, with its table-full test.
- **`MapBuffer`:** the first piece of a buffer, up to its page's end.
- **`Walk`:** the outer loop over the buffer chain.
- **`Result`:** the status, table and resume point.
- **`DmaSetup`:** the entry, which starts at `request->last` plus `request->offset`.

`Pa` is `env_va2pa`: a virtual page maps to its frame, and the offset within the page is kept. `MCFrame` reverses the page order, so an entry that crossed a page boundary would name the wrong bytes.

The caller, `ad_transfer`, is not in the tree. `AtaDmaSetup` is the environment's call: it asks for the rest of the chain, `MaxXfer` bytes at a time, and stores the returned resume point, as the comment at `ata-dma.c:558` describes.

Bounds and scaling:
- A page is 4 bytes, and the table has 3 entries.
- Chains have one to three buffers. Each buffer is 2, 4 or 6 bytes, at a page start or mid-page. This gives 258 chains, and every way for a buffer to split across pages.
- `MCAtaDma.cfg` uses `MaxXfer` = 18, so the whole chain is one call. `MCAtaDma_resume.cfg` uses 4.
- Deadlock is not checked: a transfer ends.

## ATA channel layer

`AtaAttach` extends `AtaDmaInit` with boot:
- `PciAttach` is `ata_pciattach` up to its call of `ad_attach`. It gives each channel its I/O base (`IoBase`) and bus-master port (`BmAddr`). In the EXOPC build it registers the primary channel in `atadevicesbyirq[]` only at `IO_WD1`, and the secondary only at `IO_WD2` (`WdBase`, `irqh`).
- `ProbeDevices` is `ata_probe` with `ata_reset` (`ProbeMask`, `HungBits`, `AtaReset`). It works on the drives' register answers, which are an input from `Controllers`.
- `AttachDmaInit` is `ad_attach`'s call of `ata_dmainit`. Without a bus-master port that call returns -1 at once.

`ata_command` and `ata_wait` are operators of `AtaDmaInit` over the drive's status bytes (`Answers`): `pre`, read before the command, and `post`, read while `ata_wait` polls for READY. `ata_wait` returns `status & ATA_S_ERROR` once the drive is READY and not BUSY, and `ata_command` fails only on a negative result. So a drive that aborts the command, READY with ERROR, still counts as success (`MCAtaDmaInit_abort.cfg`). The drive takes the new mode only when it did not abort (`Accepts`).

`AtaChannel` extends `AtaDma` with one channel at run time. It assumes a kernel configured with the ATA disk driver. `ata_start`'s disk branch and `ataintr`'s `ATA_ACTIVE_ATA` case are under `#if NATADISK > 0` (`ata-all.c:645`, `713`). `NATADISK` comes from the config-generated `atadisk.h`, which is not in the tree.
- `Enqueue` is the disk driver queueing a request on `scp->ata_queue` and calling `ata_start`.
- `AtaStart` is `ata_start`: on an idle channel it takes the head of the queue and sends its first piece (`Transfer`).
- `Transfer` is `ad_transfer`, which is not in the tree. For a DMA device it calls `ata_dmasetup` on the next `MaxXfer` bytes. A table that is accepted is loaded with `ATA_BMSTAT_INTERRUPT` cleared, and `ata_dmastart` sets `ATA_DMA_ACTIVE`. A refused table sends the rest of the request by PIO.
- `DriveDone` is the drive ending its command and raising its interrupt, which the PIC latches (`pend`).
- `AtaIntr` is `ataintr`. It takes the early returns of lines 626-642 (`Ignored`). Otherwise it sends the next piece, or finishes the request, marks the channel idle and calls `ata_start`.

Bounds: pages of 4 bytes, a 3-entry table, pieces of 8 bytes, three requests, a DMA master and a PIO slave. There are three chains:
- four page-aligned 4-byte buffers, whose second piece resumes at a buffer boundary;
- two 4-byte buffers that each cross a page, which the table refuses;
- one 8-byte buffer that crosses two page boundaries.

`MCAtaDma_resume.cfg` shows the flaw of resuming inside a buffer, so these chains resume only at a buffer boundary.

`ImplementsQueue` is the refinement. `INSTANCE AtaQueue WITH` maps `waiting` to `scp->ata_queue`, `current` to `scp->running` with the chain `ad_transfer` works through (empty when `running` is NULL), and `served` to `done`. `Enqueue` is `Submit`, and the finishing branch of `AtaIntr` is `Finish`. A piece sent by `Transfer`, a drive interrupt and an interrupt `ataintr` drops are stuttering steps. The abstract `Spec` carries weak fairness on `Finish`, so the refinement also says that the request in service is finished. A mutant `ata_start` that leaves the started request on the queue is caught.

Fairness: weak fairness on `DriveDone` and `AtaIntr`. A drive finishes every command it is sent, and the kernel delivers every interrupt the PIC latched. Deadlock is not checked: once every request is done the channel waits for more.

## ATA transfer-mode setup

`AtaDmaInit` models `ata_dmainit` (`ata-dma.c:86-495`). One call of it is one step, `DmaInit(u, d, a)`:
- for unit `u`, device `d` (`ATA_MASTER` 0 or `ATA_SLAVE` 0x10) and arguments `a` (PIO, WDMA and UDMA mode numbers);
- it starts with the simplex test and the table allocation;
- then it takes the switch on the PCI id, one operator per chip: `Piix4`, `Piix3` (with `SitreBoth`), `Piix`, `Aladdin`, `Via`, `Promise`, `Hpt` (with `HptTiming` for `hpt366_timing`) and `Generic`;
- each chip operator returns the set of outcomes the drive's answers allow, and `Apply` stores the chosen one.

A `break` frees the table but leaves the pointer. `DmaStart` and `DmaDone` are `ata_dmastart` and `ata_dmadone` for a device in DMA mode.

State:
- PCI configuration space is a byte array per PCI function. The HPT366 has one function per channel; the others share one. Every 32-bit access is four little-endian bytes: TLC's integers are 32-bit signed, and the timing words do not fit.
- A shift by a register count is taken modulo 32, as the i386 does.
- `xfer` is the mode the drive is in: it changes only when the drive accepts a SETFEATURES.

Environment:
- The drive answers each `ata_command` with one of the status pairs of `Answers` (see "ATA channel layer").
- The arguments come from the drive's identify data through `ata_pmode`, `ata_wmode` and `ata_umode`, which are not in the tree. `MCArgs` lists five classes of drive: UDMA4 with an 80-wire cable, UDMA4 on a 40-wire cable, UDMA2, WDMA2 only, and PIO only.
- `ad_attach` calls once per device (`MaxCalls` = 1). `MCAtaDmaInit_reinit.cfg` allows the second call that FreeBSD's `ad_reinit` makes.

Bounds:
- All nine chips are covered.
- There are two layouts: two disks per channel; or two ATAPI devices on the primary, with a disk and an ATAPI slave on the secondary.
- Per chip, the BIOS values that its code tests are enumerated: the SITRE and timing bytes of PIIX3/4, the PIIX timing and enable bits, VIA revisions 0, 1 and 6, the Promise cable bit, and the HPT366 clocks 25, 33 and 40MHz or unknown, with either cable.
- The status ports are either DMA-capable for both devices, or primary-master-only with the secondary simplex.
- Deadlock is not checked: after the setups, a channel with no DMA device has nothing left to do.

`TimingMatchesMode` covers what the setups program correctly. Each known flaw is a separate property, shown violated by its own configuration:
- the PIIX SITRE bit (`SlaveTimingEnabled`);
- the Aladdin UDMA nibble (`AladdinUdmaTiming`);
- the Promise clock bit (`PromiseClockBit`);
- the generic capability bit (`GenericDmaCapable`).

## ALFS directories

A directory block is `SECTORS` sectors. Each sector holds a chain of
entries. An entry's header carries its type, its name, the lengths that give
its size (`embdirentsize`), `entryLen` to the next entry, and `preventryLen`
back to the previous one. `AlfsEmbdir` keeps the memory itself: `mem[b][o]` is
the header written at offset `o` of block `b`, or `Junk`. Headers that a
removal or a move leaves behind stay, as in the code.

The calls are atomic actions:
- **`AddEntry`:** runs `getblockforname`'s sector scan (`Found`, `FreeDirents`, `CompressibleSectors`). Then it places the entry in place, after `Compress`, or in a `NewBlock`, and ends with the `assert` of line 345 (`Finish`).
- **`RemoveLinkByName`:** runs `lookupname`'s block walk (`LookupHits`), then `RemoveLinkByEntry`.
- **`Init`:** the directory as `initDir` leaves it, holding "." and "..".

`Walk` is the code's `for (i = ...; i < end; i += dirent->entryLen)`. It
stops at a header never written or an `entryLen` of 0, which would otherwise
loop for ever.

Assumptions:
- The header that defines `embdirentsize`, `SIZEOF_EMBDIRENT_T` and `ALFS_EMBDIR_SECTOR_SIZE` is not in the tree, so lengths are abstract 4-byte units and entry sizes come from the small set `Sizes`.
- No caller of `addEntry` is in the tree. The model takes the entry's type to be set by the caller, which `addEntry` itself never does.
- The buffer cache is abstracted: each call runs with the blocks it holds.

`ImplementsNames` is the refinement. `INSTANCE EmbdirNames WITH names <- LiveNames` maps the directory to the names of its live entries, and `last` to the latest call's result. The abstract `Spec` is checked as a temporal property. An aborted call changes neither, so it is a stuttering step.

### Directory numbers

`AlfsDirNum` models `alfs_embdir_dirNumMap` (lines 67-71 and 679-792). The
map gives the dinode number of the directory holding each number, or 0 when
the number is free.
- **`DirInit`:** the disk after `initDisk`, zero except for the root's number; the static map is all zero and `lastDirNum` is 1.
- **`MountDisk` and `UnmountDisk`:** copy the map from disk and back.
- **`AllocDirNum`:** `AllocSearch` is the two loops, from `lastDirNum` up to `ALFS_EMBDIR_MAXDIRNUM - 1`, then from 1 up to `lastDirNum - 1`. A number is kept as `i`, not `i << 16`: the shift is lossless below 2^16, and `transDirNum` undoes it.
- **`DeallocDirNum`:** clears the entry.

No caller is in the tree. The environment is a file system that works on the
map only while mounted. It gives each new directory a fresh dinode number
(`Inodes`), and frees the number of a directory it removes, never the root's.
`dirs` records those directories.

`MCAlfsEmbdir` composes `AlfsEmbdir` with `AlfsDirNum`. The calls of both
interleave and share the bound of 8 calls. The map's calls change none of the
directory's state, so for `ImplementsNames` they are stuttering steps.

Bounds for the map: `ALFS_EMBDIR_MAXDIRNUM` = 4, so numbers 1 to 3 can be
given out. The root holds number 2, and three fresh dinode numbers are
available. This is enough to fill the map, to make the third allocation
return -1 on a truly full map (line 771), and to make `allocDirNum` wrap
below `lastDirNum` after a free. A mutant `unmountDisk` that does not write
the map back is caught by `MapMatchesDirs`. An `allocDirNum` without the
wrap-around loop is caught by `FullOnlyWhenFull`.

Bounds:
- A sector is 6 units and a block 2 sectors. "." and ".." take 2 units each, and entries take 2 or 3.
- There are four names, at most 8 calls (directory-number calls included), and at most 2 blocks. This is enough to fill sector 0, put three entries in a sector, remove a middle entry, compress a sector and open a second block.
- Symmetry over the four names is sound: the code compares names only for equality.
- Deadlock is not checked, since the callers stop.

## Wakeup predicates

A process of exos waits by downloading a predicate to the kernel and
yielding. `wk_waitfor_pred_directed` copies the caller's terms to the front
of the global buffer `wksuper`. For every registered extra it appends
`WK_OR`, `WK_TAG(UWK_TAG_MIN+i)` and the terms the extra's `construct` builds.
Then it appends a signal component and a page-revocation component, both
tagged `UWK_TAG_MAX`. When the kernel wakes the process on an extra's tag,
the extra's callback runs. On any tag of the range, the predicate is rebuilt
from `wait_again`. On the caller's own terms the call returns.

`Uwk` counts terms and does not write them. A downloaded predicate is the
sequence of its components, each with its tag and the party that built it.
`stack` holds the active calls, innermost last; a callback may call
`wk_waitfor_pred` again when `MaxDepth` > 1. `front` is whose terms fill the
front of `wksuper`, and `hw` is the last term the latest build wrote.
`callbacks` is kept apart from `extras` because `wk_deregister_extra` clears
only `construct` and leaves the callback and param in the slot.

| Action | Code |
|---|---|
| `WaitforPred(c)` | entry: `needsz`, growing `wksuper`, `memcpy`, the first build and download |
| `WakeOwn` | a wake-up outside the tag range: `sys_wkpred(NULL, 0)` and return |
| `WakeSignal` | `UWK_TAG_MAX`: no callback, `wait_again` |
| `WakeExtra` | an extra's tag, with `construct` and `callback` set: the callback starts |
| `WakeDeregistered` | an extra's tag whose slot was cleared meanwhile: `wait_again` |
| `CallbackDone` | the callback returns: `sz = origsz; goto wait_again` |
| `RegisterExtra`, `RegisterFull` | `wk_register_extra`, and its -1 when no slot is free |
| `DeregisterExtra`, `DeregisterMissing` | `wk_deregister_extra`, and its -1 |

The kernel chooses which component is true. Components are tested in order,
so any downloaded component can be the first true one.
`RegisterIn` says where code may call `wk_register_extra`: outside a wait
(`"idle"`), in the prolog while asleep (`"sleep"`), or in a callback.
`wk_deregister_extra` may be called anywhere; the comment at line 238
expects the prolog to do it.

`UwkSleep` models the waits built on `wk_waitfor_pred`, one caller at a time:
- `WaitforUsecs` reads `si_system_ticks`, computes the target as `wk_mkusleep_pred` does, builds `wk_mksleep_pred`'s ten terms and sleeps.
- `WaitforUsecsTorn` is the same call with a clock tick between the two 32-bit loads of the 64-bit counter (i386). The value read is one half of each count.
- `WaitforValue(k, a)` is `wk_waitfor_value`, `_neq`, `_lt` and `_gt`. It builds the three-term predicate (`MkCmpEqPred`, `MkCmpNeqPred`, or in place) and then runs the `while` loop (`LoopTest`).
- `WaitforEnvdeath` sleeps on `wk_mkenvdeath_pred`, built from the count it reads.
- `WaitforConst(b)` sleeps on `wk_mktrue_pred` or `wk_mkfalse_pred`.
- `WaitforFreepages` is `wk_waitfor_freepages`'s test. `FreepagesSleep` is its reads of the three counts, the predicate and the sleep. The caller may be preempted between the two steps.
- `Wake` is the kernel finding the predicate true and making the caller runnable. `Resume` is the caller running again: a value wait re-tests its condition, and every other wait returns.
- `Tick`, `EnvDies`, `Store` and `PagesChange` are the clock, an environment's death, another environment's store to `*addr`, and the kernel's page accounting.

The locals of a finished call are dead, so each call clears those of the other kinds of wait (`ClearUsecs`, `ClearValue`, `ClearSnap`). Without this the product of dead values would fill the state space.

Assumptions:
- `uwk.h`, `wk.h` and the kernel's predicate evaluator are not in the tree.
  `wk_mkop` and `wk_mktag` each add one term, as the comment on line 155
  says. `UWK_TAG_MAX` lies above every slot's tag.
- `EvalPred` reads a predicate as the header comment of `uwk.c` describes
  it: the comparisons within one component hold together, and `WK_OR`
  separates components. It is not mapped to code.
- Constructs return no more than their `maxlen`; a larger value is an
  `assert`.
- No code in the tree calls `wk_register_extra`, so the registration findings
  concern the interface as written and its comments.

Bounds:
- There are 2 slots and 3 extras of maxlen 1, 2 and 2, so a full table and a
  slot reused by another extra both occur.
- Callers have 3 terms (`wk_mkcmp_eq_pred`) and 10 terms
  (`wk_mksleep_pred`). The 16-term static buffer, and signal and revocation
  components of 3 terms each, make the buffer grow. With both extras at
  their maxlen it does not fit without the extras' sizing.
- The clock is 4 bits in 2-bit halves, so the low half carries three
  times. `usecs` is 3 bits and `si_rate` is 2 or 3.
- `si_killed_envs` goes from 3 to 4, across the carry between its halves.
  The watched word and the value argument are 0 or 1, which covers both
  sides of every comparison. Each page count is 0 or 1.
- The count of killed environments is read in one step. A torn read of it
  matters only at a carry of the low 32 bits, after 2^32 deaths.
- `MCUwkSleep.cfg` does not check deadlock: the bounded clock stops, and a
  sleeper may still be waiting then.

## Not modelled, and plan

Not modelled yet:
- `port.c`: `allow_io` and `release_ports` are compiled out (`#if 0`), and nothing fills the ports table, so only host `in`/`out` remains. `find_port` succeeds only on the video path, which sets the static `video_port_io` to 1 on every use. Each reachable path is one decision on its arguments, with no state a model could check. The video code and the other programs under `src/` do not call the PIC.
- In `uwk.c`: `wk_dump`, which prints. `wk_mkrev_pred` is counted by its size in `Uwk`.
- In the ATA driver: `ata_reinit` (compiled only with `NAPM`) and the ATAPI paths (compiled out). The disk driver (`ad_transfer`, `ad_interrupt`) is not in the tree and is the environment of `AtaChannel`.
- In `if_ed.c`: `ed_pio_writemem`, used only by the probe's memory test, which is taken as the card's answer; the transmit copies (`ed_pio_write_mbufs`, `ed_hpp_write_mbufs`); multicast and media setup; statistics; and the non-EXOPC `ifnet`/BPF/mbuf/watchdog paths.
- The DPMI branches, which are compiled out.
- `pic_pending`, which only reads, and `pic_wcount`, which is only incremented and never read.
- The vector table filled by `set_picX_base`, beyond its base (`SetPicBase`).

Planned next:
1. An abstract 8259 priority/EOI specification, with `PicCore` shown to implement it under a refinement mapping.
2. A composition of `PicRegs` with `PicCore`, so that ICW sequences and EOIs share one command port.
3. `pic_sched`'s first schedule while `pic_itime[32]` is still `NEVER`.
4. A passing run of the `MONOTON_MICRO_TIMING` build, on a smaller guest so that it stays within minutes.
