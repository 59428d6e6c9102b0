# Verification of rcbench: models, runs and proofs

rcbench is a test bench for motors, ESCs and servos with two processors. The
*panel* (ESP32-P4) has the screen, the arming policy, the heartbeat generator
and the host end of the link. The *IOmcu* (RP2350) has the outputs, the
heartbeat monitor, the device end of the link, the bench supply and its own copy
of the outputs' configuration in flash. CAN connects them (the panel asks, the
IOmcu answers), and one wire carries the heartbeat. What the bench must never do
is drive an output nobody asked for, or go on driving after somebody asked it to
stop; it must also not stand waiting for ever, and each processor must still
start after an update that was cut off.

This directory holds TLA+ modules of the parts this rests on, TLC
configurations, and proofs for TLAPS. `PROJECT.json` maps each definition to
the lines it models. Paths below are under `src/`.

Contents: [parts](#the-system-and-its-parts),
[modules](#modules-and-the-code-they-model), [runs](#runs),
[disagreements found](#disagreements-found),
[bounds](#bounds-and-abstractions), [fairness](#fairness), [proofs](#proofs),
[not modelled](#what-is-not-modelled), [plan](#plan).

## The system and its parts

| part | code | state it keeps | operations | module |
|---|---|---|---|---|
| arming policy | `shared/safety/arming.c` | latch, who holds it, armed roles, a waiting arm with its deadlines, refusal, stop count, touch outage | ask, step, stop, disarm, link and far-end reports, handshake | `ArmingPolicy` |
| panel control task | `firmware/panel/main/panel_*.c` | pass position, disarm request and its inhibit, command queue, bank shadow, link up/quiet | one pass: pump, serve disarm, policy step, handshake, drain, poll, publish, watch | `PanelArm` |
| touch path | `touch_loss.c`, `panel_control.c`, `panel_render.c`, `panel_frame.c` | numbered event queue, mark of a STOP applied early, losses answered, the arm watched | pump, publish, two drains a frame, flush, acknowledge, watch | `TouchStream`, `ArmWatch` |
| STOP reset | `stop_latch.c`, `panel_stop.c`, `stop_hold.c` | machine's state, floors and bounds, the hold, counts of presses and breaks | pass, reads of three pages, CLEAR, hold on the screen | `StopReset` |
| link host | `shared/link/link_host.c`, `link_port.c`, `panel_link.c` | one outstanding request, next number, frames collected, link up | request, repeat, accept, give up, split read | `LinkExchange` |
| link device | `shared/link/link_dev.c` | last number and its answers, rest of a wide read, silence, failsafe, arm latch | dispatch, repeat, tick | `LinkExchange`, `SafetyGate` |
| heartbeat | `shared/safety/heartbeat.c` | last edge, run of good intervals, alive | edge, alive; generator tick | `SafetyGate`, `PanelArm` |
| safety gate, CONTROL | `safety_gate.c`, `link_control.c`, IOmcu `main.c` | CONTROL page, holds at last look, armed bank | write, gate step, hold edges, restart | `SafetyGate` |
| output store | `out_store*.c`, IOmcu `out_store.c`, `main.c` | two flash sectors, pending save and its settle time, wiring waiting to be attached | load, save, erase, reclaim, park core 1 | `OutStore`, `OutStoreRecord` |
| bench supply | `supply_page.c`, `protocols/pdmini/`, `iomcu_sense.c` | what is asked, an OFF held for a port, what is known of a module's output and of the argument that means on, wiring | on, off, hold, wire, transactions, confirm, learn | `PdMini`, `BenchSupply` |
| update of the IOmcu | `link_update_dev.c`, `link_update_host.c`, `update_hw.c`, `panel_update.c` | session, block, staged bytes, owed erase; the host's step, retries and verdict | check, begin, data, commit, finish, activate, buy, sweep | `LinkUpdate`; its hold on the arm in `SafetyGate` |
| update of the panel | `fwupdate/fw_trial.c`, `fw_boot.c`, `fw_install.c`, `panel_trial.c` | slots' states, note of an install, trial of a new build | install, start, keep, lose, report | `FirmwareTrial` |
| output bank | `shared/outputs/outputs.c` | channel values, slew, staleness | set, tick | armed roles only |

How they interact:

- **Shared state in one task.** The panel's control task calls the policy, the
  link and the reset in one loop. While it waits for an answer it calls
  `control_pump()`, which takes touch events, stops, losses and errors. So
  anything the pass read before an exchange can be false after it.
- **Two tasks.** The render loop posts ARM to a queue of commands and DISARM to
  a flag, reads touch events from a queue the control task fills, and draws from
  snapshots the control task publishes.
- **Messages.** CAN frames keep their order, can be lost at either end, and can
  leave a transmit queue after their exchange was given up.
- **A wire with time in it.** The heartbeat is the one signal that no task on
  the IOmcu needs to be told about: its absence is the message.
- **Passes.** The IOmcu's main loop reads its clock once, takes requests, runs
  the gate, then the bank, then the holds of the programming ports, then the
  supply.
- **Flash.** A flash window stops core 1 and delays everything; it may be
  opened only while nothing is driven, and power can fail in it.
- **A module that does not answer writes.** What an OUTPUT_EN did to the bench
  supply is known from a later read alone.

What is hard in it: interleavings at each wait of a pass; late and repeated
frames; restarts of either end while the other is armed; a stop inside a reset;
counts that stand for several events; numbers that wrap; touch losses on either
side of an arm; power cuts in a save or an update; knowledge of a module that is
older than what was sent to it. `PROJECT.json` lists these hazards at their
lines, each with the properties that would catch it, or why none does.

What makes each part correct, in a sentence:

- *gate*: outputs drive only on a release followed by an ask, both after
  everything that went wrong, and are down in bounded time after the line or the
  requests stop;
- *policy and control task*: no driving frame under a stop or a disarm; a
  disarm is not forgotten before the far end is down; an ARM older than a stop
  does nothing after it; an ARM is answered;
- *touch path*: no event crosses a loss the screens have not been told of; no
  STOP is swallowed; no arm outlives a loss answered as on a disarmed bench;
- *reset*: the heartbeat starts again only after one unbroken hold, with
  everything off at both ends;
- *link*: at most once, and what the caller is told is true; every wait ends;
- *store*: a restart finds one whole configuration, the last that landed;
- *supply*: an output we switched on is never without somebody who watches it;
  an ON leaves only as the last word;
- *updates*: what can start is whole, something always starts, and what the
  panel says of a build is true.

## Modules and the code they model

Abstract specifications first; each is what one component promises.

**OutputConsent** is the promise of the IOmcu's outputs: a consent is `none`,
`released` or `asked`; anything that goes wrong takes it to `none`, and outputs
start only on `asked`. It has no clock and no page.

**SafetyGate** implements it with the code's state: `beat` is
`heartbeat_mon_t`, `dev` the silence and latch fields of `link_dev_t`,
`control` the CONTROL page, `quiet`/`held` the ports out of PWM and
`s_ports_held`, `bank` the armed roles of `outputs.c`. Actions: `Request` (any
other frame), `ControlWrite` (`control_write()` with `link_control_write()`
and the refusals of `iomcu_can.c`), `PortEnter`/`PortGive` (`iomcu_kst.c`),
`UpdateBegin`/`UpdateEnd`/`UpdateSilent`, `StartPass` and `GatePass` (clock,
line sample, gate, bank, hold edges), `LineEdge`, `Restart`, `Elapse`. A pass
reads its clock once, so time passes only outside `inPass`. Each timeout is an
unsigned difference against a stamp; the model keeps the difference and lets it
saturate above the limit it is compared with. `still` is the line itself: how
long it has really kept its level, sampled or not. `consent` is history.

**ArmingPolicy** is `arming.c` as functions on one record, an operator for each
call that changes it; the tick stamps became phases of a waiting arm. **PanelArm**
is the control task round it. A pass is a walk of `at` from `sleep` to `sleep`:
`PassPump`, `Serve` (`service_disarm()`), `Reset`, `ArmingStep`, `Handed`,
`HandshakePrepared`/`Cleared`/`Armed` (`service_arming()`), `Drain`,
`EntryRefused`/`EntryTaken` (`drain_commands()`), `Poll`, `BenchRead`,
`PollWritten`, `Probed`, then `Unread` or `Drawn` (publish, seen or missed by
the render loop) and `Watch`. Inside an exchange the task stands, and
`WaitPump`, the far end (`FarTakes`, `FarTrusts`, `FarDoubts`), the wire, the
screens (`PostArm`, `PostDisarm`, `Evicted`), the router's STOP for a press that
the pump missed (`Backstop`) and `Tick` move. The far end here is what SafetyGate
says of it, without its clocks; no refinement ties the two.

**TouchStream** is the queue of touch events between the two tasks: its numbers
modulo `M`, the queue that drops its oldest, the gap test of `touch_loss.c`, the
two drains of a frame (`DrainBegins`, `ItemTaken`, `BreakEnds`, `DrainEnds`), and
the mark of a STOP that the pump applied at its press, ahead of the screens
(`StopHit`, `StopMissed`, `StopOffered`, `RequestTaken`, `MarkTaken`).
**ArmWatch** is the same stream with the numbers left out and the arm on top:
posted by a hold (`FrameEnds`, `Flushed`), taken (`ArmTaken`), applied and
watched (`Acts`), published, seen by a frame, acknowledged, handed over
(`PumpEnds`, `WatchServed`), with a loss found by either loop at any step.

**StopReset** is the machine of `stop_latch.c` with the finger, the touch
controller (`FallsSilent`, `Answers`), the render loop's hold (`UiFrame`), the
control task's `Pass`, `ReadEnds` and `ClearEnds`, and what is on at either end.

**LinkExchange** is a request, its repeat, its answers and its end, at both
ends. `Ids` name exchanges for the properties; the code has only the numbers.
Actions: `Start`, `Repeat`, `Accept`, `GiveUp`, `Abandon` (a wait given up by
`link_host_abandon()`), `Down`, `PanelRestart` at the panel; `Dispatch`,
`PageMoves`, `Restart` at the IOmcu; `DropRequest`, `DropAnswer`, `Tick`
between.

**KeptOutputs** is what a store promises: `kept` is one configuration and
changes only to the one wanted last. **OutStore** implements it: slots of two
sectors, `Slot`, `Free`, `Live`, `EraseFirst`, `Stale` and `Loaded` from
`out_store_map.c`; `SaveErases`, `SaveWrites`, `Reclaims`, `BootReclaims` with
a power cut as one of their outcomes; `Launch` (core 1 can be parked, or the
store is off); `Configure`, `SupplyTake` and `WiringAttached` from `main.c` and
`iomcu_sense.c`. **OutStoreRecord** is the judgement of a record's bits and of
a firmware update's range, apart from it and for every value; what it is worth
is proved in `OutStoreProofs`.

**LinkUpdate** is an update of the IOmcu from both ends. `flash` is what each
block of each slot holds, `dev` is `link_update_dev_t` with the handlers
`Begin`, `Commit`, `Finish`, `Activate`, `Abort`, `Buy`, `Data`, `host` is
`link_uph_t` with an action for each phase (`Prepare`, `SendBegin`, `SendData`,
... `ReadBought`), `cu` the panel's decision. Each exchange is answered, lost, or
taken with its answer lost; `Cut` is a power cut in whatever flash write is due;
`HashEnds`, `Sweep` and `Silent` are the IOmcu's own loop; `Boots` is the boot
ROM's choice between the slots.

**FirmwareTrial** is an update of the panel itself: the bootloader (`Boots`),
the steps of a start (`SettledNormally`, `SettledKept`, `TrialBegins`, `SetUp`,
`TaskRuns`), the frame that may keep the build (`Frame`), the install
(`InstallBegins` ... `InstallRestarts`) and a reset between any two (`Resets`).

**PdMini** is the driver of the bench supply's module as functions on one
record: `MayBeOn`, what a read teaches (`ReadAs`, `Settled`, `Judged`,
`LearnOn`), what a failed transaction costs (`Missed`, `Gone`), and which job is
next (`SeeksBlind`, `MustRead`, `OffDue`, `CheckDue`, `OnDue`). **BenchSupply**
extends it with the page (`PanelOn`, `PanelOff`, `PanelWires`, `PortOn`,
`PortOff`, `PortHolds`, `PortLetsGo`), the pass of `iomcu_sense.c` (`Pass`), the
save of the wiring, restarts, and the module at the other end of the UART
(`Obeys`, `Answers`, `Garbles`, `Press`).

Modules named `MC...` give the small sets. An operator with the comment `Mutant:`
or `A plausible bug:` is a wrong form of the definition that follows it;
`PROJECT.json` says under `mutants` which property finds it.

What composes what: `PanelArm` extends `ArmingPolicy` and contains a far end;
`BenchSupply` extends `PdMini`; `SafetyGate` and `OutStore` instantiate their
abstract specifications; each module named `...Proofs` extends the one it is named
for, and `OutStoreProofs` `OutStoreRecord` too.

## Runs

State counts are distinct states.

| run | configuration | what it asks | states |
|---|---|---|---|
| gate | `MCSafetyGate` | `OutputConsent` implemented; an ARM stands only on trust; the latch remembers; outputs down in time; ports and updates exclude an armed bank | 238 k |
| arm | `MCPanelArm` | two roles: nothing driving goes out under a stop or disarm; a disarm stands until the far end is down; an outage is owed; no ARM older than a stop, but for the stop of a stall; policy and bank agree | 3.7 M |
| answers | `MCPanelAnswers` | liveness: an ARM is answered; a far end armed alone comes down | 457 k |
| exchanges | `MCLink` | at most once; the outcome told is true; waits end; the link returns | 297 k |
| reads | `MCLinkRead` | a split read is one state of its page | 1.9 M |
| reset | `MCStopReset` | a resume rests on one hold, but for a break that a later one hides, and finds all off; a reset ends | 719 k |
| store | `MCOutStore` | `KeptOutputs` implemented; what is attached is kept; a save lands | 207 k |
| update | `MCLinkUpdate` | what may start is whole; something starts; the panel's verdicts are true; a run and a sweep end | 219 k |
| stream | `MCTouchStream` | no event crosses an untold loss; gestures are dropped for a loss alone; no STOP is swallowed by a mark whose press did not go astray | 2.2 M |
| watch | `MCArmWatch` | an arm handed over outlived no loss answered as on a disarmed bench; one that did stops in the next pump | 713 k |
| trial | `MCFirmwareTrial` | what is kept works; a lost build is reported once, and only then; a trial ends | 2.2 k |
| supply | `MCBenchSupply` | an output of ours stays watched; new wiring finds the module off; an ON leaves as the last word | 1.2 M |

Run one with `tlc -config MCLink.cfg MCLinkExchange`; a run's module has the name
of its configuration but for `arm` and `answers` (`MCPanelArm`) and `exchanges`
and `reads` (`MCLinkExchange`). None switches the deadlock check off: the bench
has no state in which it may stop for good.

Each module of a run states its types (`TypeOK`), and of each of them that is a
theorem.

## Disagreements found

Each of these holds of the code and contradicts a comment of it. Six have a
configuration beside the runs, in which TLC finds the named property violated:
what the comment says. Where a run and a theorem speak of the same hazard, they
leave none of its states out: their property names the one case that the code
misses and covers every other.

| configuration, module | property | code | comment |
|---|---|---|---|
| `MCPanelStall`, `MCPanelArm` | `NothingBeforeAStop` | `panel_arm.c:729` | `panel_arm.c:649` |
| `MCPanelOvertaken`, `MCPanelArm` | `LetGoIsNotPutBack` | `panel_supply.c:254` | `main.c:356` |
| `MCStopFlaps`, `MCStopReset` | `ResumeRestsOnAHold` | `stop_latch.c:84` | `stop_latch.h:33` |
| `MCOutStoreUnattached`, `MCOutStore` | `UnsavedWaits` | `out_store.c:499`, `main.c:895` | `iomcu.h:103` |
| `MCLinkUpdateBought`, `MCLinkUpdate` | `UpdatedIsTrue` | `link_update_host.c:831` | `link_update_host.h:103` |
| `MCTouchStreamLeaves`, `MCTouchStream` | `NoStopSwallowed` | `panel_control.c:331` | `panel_render.c:537` |

- *Stall.* `drain_commands()` compares an ARM's stop count, pumps, and then hands
  the ARM to the policy. The pump can find the render loop standing still and
  count a stop; the ARM behind it clears that latch. The comment: "Nothing asked
  for before a stop drives anything after it." The frame watch fires once for a
  stall. `NothingBeforeAStopButAStall`, of the run `arm` and the theorem, names
  that entry: an ARM asked for before a stop is never the one compared, and of
  the stops its own pump finds that of the stall alone is overtaken.
- *Overtaken.* An error's disarm does not add to `s_lets_go`, so an ARM already
  queued is not told apart from one asked for afterwards.
- *Flaps.* The machine is given a count of breaks and the time of the last one.
  Two breaks between two looks, the first inside the hold, are judged by the
  second. `ResumeRestsOnAHoldUnlessHidden`, of the run `reset` and the theorem,
  has any number of breaks between two looks and exempts a reset in which the
  time of the one that cut the hold was taken by a later one (`proof.hidden`).
- *Unattached.* A save that is dropped, because what is asked for is what is
  kept, does not tell the supply that waits for it.
- *Bought.* The read after BUY does not look which slot runs: an IOmcu that
  restarted between ACTIVATE and BUY into its older image is told of as updated.
  The run's property `UpdatedIsTrueUnlessRestarted` speaks of runs in which only
  ACTIVATE restarted it.
- *Leaves.* The pump applies a STOP by the band that was drawn; the press then
  reaches a screen that has no band, nothing hands it over, and its mark stays. A
  later press that the pump's hit test misses is swallowed by it
  (`panel_arm.c:266`). The same comes of two STOPs handed over as one request: the
  marked press's, not yet taken by the control task, and that of a later press
  on a screen whose band came back unseen. `NoStopSwallowedUnlessAstray`, of the
  run `stream` and the theorem, has every change of the screen and exempts a mark
  to which either happened (`astray`, set by `Strays` and `Joins`).

Five more have no configuration of their own.

- *A disarm drops a waiting arm without a refusal* (`arming.c:177`): one asked
  for by an error, or an earlier one that is still being served when the ARM is
  taken. The screen that asked goes on reading ARMING
  (`ui_value_gate.h:22`). Seen in `MCPanelOvertaken` as a violation of

      AskIsSomewhere ==
        at = "sleep" /\ Waiting =>
          \/ cmd # NoCmd \/ pol.arming \/ pol.refused \/ bank = screen.waits
          \/ "screen" \notin pol.knows

  (a screen that waits has its ARM queued, in the policy, or answered).
- *A full command queue drops its oldest entry* (`panel_render.c:257`): where
  that is an ARM, no refusal follows. Seen as a violation of the same formula
  with `Mishaps` as `{"evicted"}`, a few steps from the start.
- *An ARM asked for again on an armed bench and refused* (`arming.c:199`,
  `panel_link.c:480`): the policy lets go and the panel's bank stays armed into
  the next pass. Seen in `MCPanelStall`, with presses for stalls, as a violation
  of `at = "sleep" /\ ~pol.armed => ~BankArmed`. `RolesAgree` speaks of an armed
  policy only.
- *A repeat that waits in the controller for longer than `LINK_DEV_REPEAT_MS`*
  is acted on as a new request (`link_dev.c:203`; `link_dev.h:44` says a repeat is
  answered from the copy). Seen in `MCLink` as a violation of `AtMostOnce` with
  `Keep` 3 and `Delay` 4, once the last line of `TimeAssumption` is taken out.
- *An OFF with an argument not yet learnt can switch a module on* that went off
  by its own button between the state read and the write (`pdmini_jobs.c:46`:
  "... cannot switch on one that was off"). `WiringLeavesItOff` exempts it by
  `since`; without that disjunct, TLC shows it.

## Bounds and abstractions

**SafetyGate.** Limits of a few ticks in the order of the real ones (edges 4 to
150 ms, silence 200 ms): `MinGap` 2, `MaxGap` 4, `GoodRun` 2, `Silence` 5,
`MaxPass` 2. A pass may be as long as the shortest gap, so an edge can be
missed or sampled late. `GoodRun` 2 has a run that is neither empty nor full.
One role gives three ARM values, which is what a change of roles needs;
two ports let a hold outlive one of its sessions. The proofs drop all of these
bounds.

**PanelArm.** A tick is `HEARTBEAT_MAX_GAP_MS`: `Gap` 1, `Silence` 2 (200 ms),
the disarm's inhibit `2 * Gap` as in the code. `arm` has two roles, one frame on
the wire and `Silence` 1, so that a link falls silent as soon as a line does;
`answers` has `Silence` 2. The theorems about the properties of `arm` hold for
every length of both, and TLC passed them with `Silence` 2 as well (6.7 M
states). One ARM in the queue: a second screen's ARM queued behind it
would be drained in the next pass with the same guards. One value gate stands
for both screens. Stop counts and stamps are comparisons: a stamp is "newer or
older than". A request is not repeated here (LinkExchange has repeats). The
exchanges of a pass that do not arm are one, the poll's, with the same pump in
its wait. What can be found by a pump and what can go wrong round the task are
constants (`Reasons`, `Mishaps`): `arm` has all of them; `answers` takes one
role, presses and losses, so that liveness checks stay small.

**TouchStream.** `M` 8 numbers for a queue of `QLen` 2: the numbers come round
and half of them is more than the queue and what is in hand, the relation
`NumbersAssumption` asks for and 2^32 has. TLC passed 10 numbers and a queue of 3
as well (12.5 M states), and the theorems hold for all. The driver's own queue is
a gap before any event. **ArmWatch.** `QLen` 2, so that an event and a notice stand in the
queue and one more drops the oldest. Counts that are compared only with an
earlier value of themselves are kept as whether they moved since. One arm is on
its way at a time. Both theorems hold for every length.

**StopReset.** A tick is `STOP_LATCH_FRESH_MS` (100 ms). `Fresh` 2, `HoldSeen`
3, `UiHold` 3, `Floor` 2, `Confirm` 2, `Timeout` 1 keep what the code relies
on: the hold seen is no longer than the hold timed, and the bound on the whole
confirmation can be passed in one exchange. A silence of the controller shorter
than `Fresh` is no break. A contact is the finger as anybody was told of it.

**LinkExchange.** A tick is `LINK_HOST_RETRY_MS` or more. `SeqMax` 3 (2 for
reads) instead of 7 makes numbers come round sooner, which is the harder case;
one number alone would not tell a late answer from this one's (`WireAssumption`).
A name of an exchange (five, three for reads) is taken again only when nothing is
left of its last use, and with none free no exchange starts. Three answer pieces
stand for a page wider than an exchange. `TimeAssumption` asks for
`RetryLast + Delay <= Keep` and `2 * Delay < Timeout`: a repeat is asked for within
200 ms and an answer is kept for 1000 ms, as is a request waited for, so a frame may
wait just under 500 ms. The code does not bound that wait itself (a controller
sends a frame again until somebody acknowledges it); what comes of a longer one is
among the disagreements above. A panel's boot takes longer than
`LINK_DEV_REPEAT_MS` (its splash alone is 1200 ms), so after `PanelRestart` no
kept answer is young. What is said of outcomes is said where the IOmcu did not
restart meanwhile.

**OutStore.** Two sectors as in the code, two slots each instead of eight, and
sequence numbers to 5: the records go through both sectors and come back to the
first. Two wirings and two marks of all other pages are what can differ
independently. The start is any mix of erased and torn slots with at most one
record of the older layout, and a record at the place an earlier version used. A
power cut leaves each slot of an erase as it was, erased or torn. Configurations
of versions that carry fewer pages are left out.

**LinkUpdate.** Two images of three blocks, two blocks to a sector: a first
sector that is kept back to the end, a later one, and one that is not full. All
images have one length. `Lost`, `BusyTries`, `Restarts` and `BlockTries` are 1:
each wait is once renewed and once given up. When a session falls silent, when
the hash ends, and when a wait for CONFIRM times out are free choices. A block
staged in part, or of two images, is `mixed`, and the checksum of a COMMIT tells
it from a whole one. An operator who declines starts nothing.

**FirmwareTrial** has two slots and no bound at all: TLC sees every state.

**BenchSupply.** Every time and count is one tick in the run (`Confirm`, `Watch`,
`Retry`, `Fails`, `Absent`), with one mishap of any kind: an answer lost, a reply
garbled, a press of the module's own button, a restart, a port's hold.
`MCBenchSupplyMore` has two ticks, two failures and three mishaps without the
ports (6.5 M states, some minutes); nothing differs there. A module obeys a write
within `Confirm` and before an IOmcu could restart, and a reply is taken in the
tick it came in. Which argument means on is any. What port and panel ask for in a
pass is a free choice.

**Symmetry** is used in `arm` only, over the roles; its properties are safety
properties and name no role.

## Fairness

- *PanelArm*: `TaskRuns`: the task's own steps (WF), the end of a wait at its
  timeout (WF: `LINK_HOST_TIMEOUT_MS`), the pump in a wait (WF: every 5 ms),
  time (SF, since waits enable and disable it). `AskAnswered` assumes besides
  that the render loop does not miss every snapshot and that a waiting arm's
  deadlines pass. `NobodyLeftDriving` assumes that polls come due again and
  again, that the IOmcu takes its frames, and that from some point on the wire
  loses none; without the last, a far end that hears nothing comes down by its
  own silence watchdog, which is `DownInTime`.
- *LinkExchange*: the loop of `exchange()` turns, the IOmcu reads what reaches
  it, time passes (all WF). `LinkReturns` assumes that a poll comes due and
  that losses and restarts end at some point.
- *StopReset*: the control task runs, an exchange ends, time passes.
- *OutStore*: the main loop comes round (SF on the two save actions, in the
  form in which the bus is *not* quiet: a settled save does not wait for a quiet
  bus for ever, `OUT_STORE_GAP_WAIT_MS`). `SaveLands` assumes a bench that is
  idle again and again, core 1 stopping for a window, and nobody asking anew
  from some point on.
- *LinkUpdate*: the control task steps the run (WF of `RunStep`); one of the
  exchanges that end a check or a BUY, asked for again and again, is answered at
  some point (SF of `Answers`); the IOmcu's loop ends a hash and goes into the
  slot it activated (WF) and erases what it owes when the gate opens again and
  again (SF of `Sweep`). `RunEnds` assumes that the link stops coming up anew at
  some point, since each time begins a run from the start.
- *FirmwareTrial*: the panel's start goes on and time passes (WF); a bench that
  is driven comes to rest (WF); frames reach the display again and again (SF),
  on a bench at rest, and once a trial is past its bound.

No fairness is put on an operator, on a frame being lost, or on anything going
wrong. TouchStream, ArmWatch and BenchSupply have none: their properties are
safety.

## Proofs

Every safety invariant and every action property that a run checks is also a
theorem. TLAPS checks eight modules about the ten state machines, and each
machine's proof follows one argument: an inductive invariant that begins with the
types, a lemma for each action, and the properties from the invariant and the
step. Every bound of the runs is dropped; what is assumed of the constants are
the named ASSUMEs of the modules. `TouchProofs` and `FirmwareProofs` hold two
machines each: the second is an INSTANCE of its module over variables of its own,
and its theorems name what they prove as that instance's
(`S!NoStopSwallowedUnlessAstray`, `Panel!ReportIsTrue`). No theorem about a
machine has a hypothesis beyond those ASSUMEs.

**The gate** (`SafetyGateProofs`), for every number of roles and ports and every
value of the limits admitted by `LimitsAssumption` (naturals; a run, a silence and
a pass of at least one) and `ValuesAssumption` (the marks for "all roles" and "not
in this frame" differ from sets of roles):

    IInv == TypeOK /\ HeldFollows /\ WatchKept /\ ArmStandsOnTrust
            /\ LatchRemembers /\ HoldsExclude /\ LineLag /\ BankAge

Three of these are checked by the run. The others are why they are kept:
`HeldFollows`, the hold at the last look is the hold now, since every action that
moves a port also follows it; `WatchKept`, a silence leaves failsafe and latch
behind; `LineLag`, the monitor's age is at most one pass behind the line;
`BankAge`, a driving bank remembers how old the edge and the request of its
last pass were. `DownInTime` follows from the last two, and is not inductive
without them: it speaks of the line as it is, of which the program knows only
samples. `Refinement`: every step of the gate is a step of `OutputConsent` or
none, from lemmas for a write, a hold and a pass. `HoldEdgesLeaveNothing` is an
action property no run repeats: neither edge of a hold leaves an ARM.

**The panel's arming path** (`PanelArmProofs`), for every set of roles, every
`Gap`, `Silence` and length of the wire, and whatever is found or goes wrong:

    IInv == TypeOK /\ Exchanged /\ Request /\ RolesStand

`Exchanged` is what the waits rest on: the frame of the exchange that waits is
the last on the wire, an answered one left nothing behind it, and the far end is
down while the task looks at the acknowledgement of a disarm. `Request` is why a
disarm whose frame is never acknowledged still works: while its inhibit runs the
line has been down as long, and past the monitor's gap the far end trusts it no
more. The policy's calls are covered once, by lemmas that each of them
`Follows`, or hands an arm out (`HandsOut`); `RolesStand` is `RolesAgree` outside
a handshake, at every step. From these: `BankFollowsPolicy`,
`NothingUnwantedIsSent`, `RequestStands`, `OutageIsOwed`, and
`NothingFromBeforeAStop`: when an entry is taken the comparison has just shown that
no stop came since it was asked for (`TakesKnows`); and of what the pump of that
entry can find, a press holds the policy, a loss refuses the ARM and touch found
dead keeps it off, so that a stall alone is overtaken.

**The arm's hand-over** (`TouchProofs`), for every length of the queue:

    IInv == TypeOK /\ Asked /\ LossIsKept /\ WatchStands
            /\ NamedIsKnown /\ AckedIsKnown

`LossIsKept`: a loss answered while an arm is under way stays marked on it.
`NamedIsKnown` and `AckedIsKnown` are the heart: a frame or snapshot that names the
arm found the bench armed, and once the arm was acknowledged so has every frame
there is, so a later loss is answered by a disarm.

**The touch stream** (`TouchProofs`, of `TouchStream`), for every length of the
queue and every even `M` with room for the queue in half of it
(`NumbersAssumption`, a hypothesis of each theorem):

    Numbered == Types /\ QueueIsNewest /\ InHalf

The numbers wrap, and a gap is told from a late number only by which half of
them it falls into. `QueueIsNewest` is what makes a gap in the numbers the same
as a loss: the queue holds the newest numbers, one after the other, and what was
dropped lies ahead of its first item alone, between that and the number expected
next. `InHalf` is the bound of the model (`Room`): the render loop is less than half
the numbers behind, the number that a press is about to take included. From
these `Told` and `Drops`; the latter also shows that the tail of a drain, which compares
with what was published when it began, never finds a loss
(`TailIsThere`).

`NoneSwallowed` follows a marked press along its way, one disjunct of `MarkIsOwn`
for each place it can be:

    MarkIsOwn == mark # 0 /\ ~astray =>
      IF ctl.at = "mark" THEN ~ctl.owed
      ELSE Offering \/ Coming \/ Breaking \/ Latched

About to be offered, or still to come (`Coming`: in the queue, or lost ahead of
it, and whatever the pump missed came after it, counted from the queue's end);
in the hand of the render loop after a loss, with the look at the mark still
ahead (`Breaking`); or latched and handed over. A press lost on the way shows as
a gap before an item whose number is past the mark's, by less than half of them
(`FirstAndMark`), and such a number does not keep the mark (`PastIsNotKept`):
that is where the wrap of the numbers and `stop_mark_keeps()` come in. When the
request is taken, the STOP in it is then one that was applied.

**The reset** (`StopResetProofs`), for every bound and every set of served pages:

    IInv == TypeOK /\ Policy /\ Outputs /\ Contact /\ Rests

`Policy`: machine and arming policy agree on whether the STOP stands. `Outputs`:
what the reads have shown so far is still so (`ReadSoFar`, `OffStands`,
`ConfirmedOff`), which gives `ResumesAllOff`. `Contact` and `Rests`: the hold the
request spans is one contact, and a silence that ended in it is younger than the
request ((`SilenceIsYoung`), which gives `ResumesOnAHold`. `WayIsGood`: a reset under way
is one whose hold no break has cut, unless one was hidden since.

**The link's exchange** (`LinkExchangeProofs`), for all times that satisfy
`TimeAssumption`, two numbers or more, queues of every length and any number of
names:

    IInv == Types /\ ModeFits /\ FramesFit /\ KeptFits /\ ActsFit
            /\ Numbers /\ ProbesAreOld
            /\ ToldIsHeard /\ WritesTold /\ ReadsFit

The code tells exchanges apart by a number that comes round and by nothing else,
and two facts say why that is enough. `Numbers`, on the way back: once a frame with
the outstanding number is seen, everything behind it, either way, carries that
number too, so that with an exchange over no other number is left anywhere; and
the probes of a link that is down come behind all that was numbered
(`ProbesAreOld`: what was not numbered is gone by the time a numbered request is
given up, which is where `2 * Delay < Timeout` is needed). `KeptFits`, on the way
there: what is kept is one exchange's answer (`KeptIsOne`), a frame of an exchange
that was heard is the next to come and comes while the answer is still kept
(`RepeatsInTime`, from `RetryLast + Delay <= Keep`), and a number the IOmcu still
has names the exchange it has heard (`NumberNames`). So what was acted on finds
itself heard (`ActsFit`), which is `ActsOnce`. `ToldIsHeard`, `WritesTold` and
`ReadsFit` say that what has been told, what is on its way and what is kept tell
the same: of a write whether it was acted on, of a page one state, which for a
split read is also the one held back; `FirstIsHeard` keeps a late repeat of the
first part from replacing what is held while the second is asked for. From these
`OutcomesTrue` and `ReadsWhole`. The IOmcu's step is one of `Repeats`, `Forgets` and
`ActsOn`, and each part of `IInv` is shown for those three.

**The store** (`OutStoreProofs`), for every number of sectors, slots and
configurations:

    IInv == TypeOK /\ Slots(flash, store.keep) /\ Memory

`Slots`: at most one newest record, at most one of the older layout, and its
sector is the one kept while it is all there is. `Memory`: what is remembered as saved is
what a restart would load, and wiring no save is owed for is in flash. From these
`AttachedIsFound` and `Refinement`: every step, with every outcome of a power cut,
is a step of `KeptOutputs` or none.

**The store's records** (`OutStoreProofs`, of `OutStoreRecord`). `CutRecordIsRejected`: an erase cut
off and a program cut off both leave only fewer bits that read 0, and a record
stores the number of its zeros together with that number's complement; so a
record cut off part way is accepted only if not one bit of it differs from the
record as it was built. OutStore's torn slots rest on it.
`UpdateKeepsOffTheStore`: with unsigned arithmetic of any width, what an update's
erase or program is allowed lies between the floor and the store.

**The IOmcu's update** (`FirmwareProofs`), for every set of images, every length
of an image and of a sector, and every bound of the tries:

    DevInv == DevTypes /\ SlotInv /\ DigestIsRunning
    IInv   == DevInv /\ RunTypes /\ RunInv

`SlotInv` holds of the IOmcu alone, whatever the panel sends: `RunStarts`, the
slot that runs can be started, and a power cut finds a bought image in it or in
the one it is on trial against; `SessionSparesTrial`, no session and nothing
activated meets an image on trial; `HeadIsBlank`, a session keeps the first
sector of its slot blank; `VerifiedIsWhole`, what is verified is one image, its
first sector in RAM. A power cut inside a program is where they meet: the slot
cut off is neither the one that runs nor a bought one. `RunInv` says what the
panel's run may conclude from what it read last: from the end of its question on
nothing is on trial (`Settled`), what it activates is verified and its own
(`AboutToActivate`, `ActivatedIsMine`), and what it finds on trial after that is
too (`TrialIsMine`). The IOmcu's handlers are covered by the kinds of a step
(`Stays`, `Leaves`, `Receives`, `Hashes`, `Verifies`, `Spoils`, `Activates`,
`Buys`), so that the two halves meet only in `WorksKeeps` and in one lemma for
each kind of the run's turns. From these `StartableIsWhole`, `SomethingStarts`,
`CheckIsTrue` and `UpdatedIsTrueUnlessRestarted`.

**The panel's firmware** (`FirmwareProofs`, of `FirmwareTrial`, which has no
constants):

    PanelInv == PanelTypes /\ GoesBack /\ RunsWhole /\ InstallsFromTheLoop
                /\ UntoldIsNoted /\ TickFollowsFrame

`GoesBack`: the slot named is whole unless it was lost, and until it is kept the
other holds a whole build that was. `RunsWhole`: what runs is the slot named, or
the other once that was lost or until the restart into it. `InstallsFromTheLoop`: an
install writes from a build that is no trial, so never into what it would go
back to. `UntoldIsNoted`: a lost build is still to be told of exactly while its
note is there, which gives `ReportsTrue`; `TickFollowsFrame`, a tick counts only
after a frame of an earlier pass, gives `KeptByATick`.

**The bench supply** (`BenchSupplyProofs`), for every time, every bound of the
driver's tries and any number and kind of mishaps:

    IInv == TypeOK /\ Sight /\ Change /\ WordStands

`Sight` is what keeps an output in sight: an ON of ours, obeyed or not, is known
as on, sent, owed or not answered for (`OnIsKnown`); one not yet obeyed is younger
than its confirmation (`OnIsYoung`); and what the module told before it obeyed
settles nothing (`ToldBefore`). `OursIsWatched` follows; alone it is not inductive,
since a reply on its way does not say what it was told before. `Change` follows
a change of the wiring from the request to the read that clears it: that read is
since the change (`ReadIsSince`), an output that came on after it did so by an ON
of ours (`CameOnByOurs`), and a cleared change has nothing of ours on its way
(`Cleared`). `WordStands`: an output asked is the last word. From these
`WiringLeavesItOff` and `OnLeavesWanted`.

**Only model-checked**: all liveness (`AskAnswered`, `NobodyLeftDriving`,
`ExchangeEnds`, `LinkReturns`, `ResetEnds`, `SaveLands`, `RunEnds`, `SweepEnds`,
`TrialSettles`). Liveness under fairness, and anything about ENABLED, is beyond
TLAPS as used here. The properties the code violates (the disagreements above)
are no theorems; where one holds but for a case, the case is named in the
property that a run and a theorem share, and the runs contain it.

## What is not modelled

The map covers a small share of the repository's lines, since most of them are
fonts, drawings, speed controllers' tables, screens, a web page and tools.

- *Values*: throttle and surface positions, slew, staleness of one channel,
  balance and servo tests. The bank is the roles it is armed for.
- *Of the bench supply*: set points and readings but for what they do to the
  output, SYSTEM_RESET, the search for the module's rate, and the panel's side
  (`supply_link.c`, `panel_supply.c`), which shows and asks. That an OFF asked for
  ends in an output known off is not stated: it needs strong fairness of each of
  the driver's jobs, which TLC evaluates too slowly here.
- *Error stop* (`error_stop.c`): a table of errors and what each asks for. The
  disarm is in PanelArm, the reset it sends back in StopReset.
- *Render watchdog* (`frame_watch.c`): one comparison of ages; PanelArm has its
  outcome.
- *The ports' own 5 V supply* (`prog_supply.c`, `prog5v_lost.c`): a switch of its
  own on which no output's arming rests.
- *Encodings*: CAN framing, checksums of frames, page layouts. The wires carry
  the frames' meaning, lose them and keep their order.
- *Of the panel's firmware*: where an image comes from (upload, card, release),
  its headers, and the radio's firmware.
- *Bring-up, logs, files, settings, clock, web access, screens, drawings,
  sensors, ESC profiles, programmers' wire protocols*: input and output, or
  data, on which no output's arming rests. That a programming session and an
  armed bank exclude each other is in SafetyGate.
- *The alerts* of a STOP and the fault bits a reset hides: display.
- *The run clock* of the policy: display.

## Plan

Done, in the order of what can drive an output: the gate, the panel's arming
path, the reset, the link's exchange, the output store, the touch path, the
update of the IOmcu, the trial of the panel's builds, the bench supply; each with
the proofs of its safety properties.

Left, in order:

1. **BenchSafety**: PanelArm's far end as an abstraction of SafetyGate, so that
   `NobodyLeftDriving` speaks of the gate itself.
2. **The panel's side of the supply** (`supply_link.c`, `panel_supply.c`) over
   LinkExchange's outcomes, and the liveness of an OFF with a fairness stated for
   the pass as a whole.
3. **Values of the bank**: slew and staleness of a channel.
