# A verification of the Glowrium integration

This directory models the Home Assistant integration for Glowrium lamps
(`src/custom_components/glowrium`) in TLA+, checks the models with TLC on
small instances, and proves the central properties with TLAPS for every value
of the constants. `PROJECT.json` lists the runs, which source lines each
definition stands for, the hazards, the findings and the theorems.

Contents: [inventory](#1-inventory), [modules](#2-modules-and-how-they-correspond-to-the-code),
[runs](#3-runs), [bounds](#4-bounds-and-why-they-are-enough), [fairness](#5-fairness),
[findings](#6-where-the-code-and-its-documents-part), [proofs](#7-what-is-proved),
[limits](#8-what-is-only-model-checked-and-what-is-not-modelled), [plan](#9-plan).

## 1. Inventory

One lamp is one config entry. Home Assistant sets the entry up, unloads it,
and sets it up again on every reload; each time is called a *session* here.
Everything runs on one asyncio loop, so between two `await`s nothing else
happens. What makes the code hard is what may happen *at* an `await`: other
flows, lost links, reports, deadlines, cancellation, an unload.

| part | state it keeps | operations | talks to |
|---|---|---|---|
| `Link` (link.py) | lock, `client`, `primed`, `lost`, tasks, presence, `stuck_hang_ups`, `dial_not_before` | first connect, reconnect, prime, probe, `send`, tick, advertisement, loss report, `stop` | coordinator by callbacks (`on_primed`, exchange functions), bleak, `Unclosed` |
| `Unclosed` (link.py) | `clients` that would not close, `hang_ups` under way; shared by all sessions | keep, try again, forget, wait for | `Link` |
| stack fault (link.py, keeper.py) | a count, a gap, an episode, a repair shown to the user | note a stuck hang-up, note an answer, reset | `Link`, keeper |
| coordinator, delivery | commands under way, what was reported before each | `_async_write`, confirm | `Link.send`, mirror |
| coordinator, listeners | `_listeners`, `_listeners_failing` | add, leave, notify, note a change of reach | `Link`, entities |
| coordinator, settings | `_desired_ramp` | set mode, lighting, ramp, schedule, ... | delivery, mirror |
| coordinator, exchange | `_activation_checked`, `_state_request_refusals`, `device_info` | greet, ask for the state, bring the lamp up, set its clock, probe | `Link`, mirror |
| mirror (mirror.py) | values by id, `reports`, `_reported_at`, room for unknown ids, waiters | take in a frame, echo, reported since | coordinator |
| codec (cbor.py) | none | decode, decode a device frame, encode | mirror, coordinator |
| protocol.py | none | what a value means; write one field of a packed property | coordinator, entities |
| keeper (keeper.py) | tasks, callbacks of Home Assistant's, notices, the model id in the entry | spawn, watch, unwatch, dial, describe the lamp, repair | Home Assistant |
| `__init__.py` | entry | set up, unload, remove, stop with Home Assistant | keeper, coordinator |
| entities | what is shown; a value remembered over a restart, until the first report | be added, show, set, be removed | coordinator |

What has to be right, part by part:

* **Link, Unclosed.** BlueZ gives a process a limited number of connections
  and hands a client nobody refers to no way to be closed. So: no client is
  ever forgotten, however a flow is cut short; nobody lets go of a link under
  someone else's feet; an unloaded session takes nothing more; no dial begins
  over a held link or a kept client; commands end and a lost link is dialled
  again.
* **Stack fault.** The repair is up exactly while the running session has an
  episode; only the lamp, or the end of the session, ends one; the
  dials go on, at growing gaps.
* **Delivery.** A command is called done only if the lamp has it. A write may
  fail and yet arrive, or be late; the mirror must never show what never was.
* **Settings.** The two mode flags exclude each other; Circadian resets the
  ramp and the user's ramp is put back; a field of the schedule is written
  with all of the others.
* **Exchange.** A lamp is brought up by three writes, the flag last; a read
  costs the link on BlueZ, so nothing may be read again and again; what is
  latched must be what the lamp said.
* **Mirror.** The lamp chooses the ids it reports, so what it can fill is
  bounded; a report that comes while someone waits must not be slept through;
  an echo is not a report.
* **Keeper, entry, entities.** An entity is told of whatever changes what it
  shows, though another raises as it is told; what it remembers gives way to
  the lamp's word. Whatever a setup registered is taken back, once, whichever
  way the setup failed or ended. The notice about a model without a profile
  is up for exactly such a model, and what its owner ignored stays ignored.
* **Codec, protocol.** A frame that ends early gives whole pairs or none; a
  writer of one field changes that field.

## 2. Modules and how they correspond to the code

| module | models | extended or instantiated by |
|---|---|---|
| `Link` | the lock, the client, every flow on it, `Unclosed` | `MCLink`, `LinkProofs` |
| `OneDoor` | what is promised of every client (ADR 0003) | `Link` (refinement) |
| `OneTurn` | what the lock of a link is for | `Link`, `Delivery` (refinements) |
| `StackFault` | `note_stuck_hang_up`, `note_answer`, the gap, the repair (ADR 0004) | `StackFaultProofs` |
| `Delivery` | a command from the call to what it is called afterwards (ADR 0005) | `Settings`, `MCDelivery`, `DeliveryProofs` |
| `Settings` | calls of several commands, over `Delivery` | `MCSettings`, `SettingsProofs` |
| `Entry` | the entry from setup to removal: callbacks, listeners, what entities show, the notice about presets | `EntryProofs` |
| `Mirror` | intake, numbering, waiters | `MCMirror`, `MirrorProofs` |
| `Freshness` | what "reported since" means | `Mirror` (refinement) |
| `Exchange` | the first exchange and the probe | `ExchangeProofs` |
| `Cbor` | the codec | `MCMirror` |
| `Slots` | readers and writers of properties | `Entities`, `MCSettings`, `SlotsProofs` |
| `Entities` | what an entity makes of a reading, and of what it is set to | `MCSettings`, `SlotsProofs` |

**Link.** A task is a pair of a session and a role (first connect, reconnect,
prime, probe, a command, the unload). `pc[s][r]` names the `await` it is
suspended at, `mine[s][r]` what its local variable `client` refers to there.
What the code does up to the next `await` is one action, the trailing
clean-ups included: `Deadline` and `Cancelled` run the `except` and `finally`
branches of whatever `await` they strike. `held`, `primed`, `doubt`, `lock`
are the fields of the class; `hangUps` and `kept` are `Unclosed`'s and shared
by all sessions. The stack is the environment: links come up, fail, go down
with a report that may be late or never come, and hang-ups close the bus or do
not. Time is left out, so each comparison of clocks may go either way, and the
lock's FIFO queue is the set of those that wait for it, which allows more
orders. `doubt` is forgotten when the client it names is no longer held, which
is where the code compares it. Cancelling a dial leaves the clean-up of the
half-made connection to the Bluetooth library.

**OneDoor.** A client is closed, open, leaving or kept, and goes from open or
kept to leaving, and from there to closed or kept. `Link` implements it with a
mapping that reads a client's state off `open`, `hangUps` and `kept`.

**OneTurn.** Who wants to speak to the lamp waits for a turn and has at most
one at a time; a command may try again in its turn, so often in all; one that
failed may be unsure afterwards, when others have their turns. `Link` implements
it with its `pc` and `lock` (a task between asking and speaking *has* the turn
once the lock is its own), `Delivery` with its `task` and the attempts it has
left. So the lock that `Delivery` takes for granted is the one `Link` gives.

**StackFault.** A coarser `Link` with the count, the gap in ticks of the poll,
the episode and the repair. Who dials and why a client is let go of is left
open: a running session may dial whenever it holds no link and no client is
kept, also beside a client that a command `failed` on and that stays up to be
vouched for, and any client up may be hung up at any time. The repair is filed under
the entry and so shared by its sessions; a hang-up belongs to the link that
began it and may end when that link has been stopped. The history `silent`
counts the hang-ups in a row that *nothing* answered.

**Delivery.** A call is idle, queued for the lock, trying for a link, put to
it, written, unsure, done or failed. A failed write may have reached the lamp
or not, or reach it later while the command is listened for. The lamp changes
of its own accord and reports any part of its state at any time. `fresh[c]` is
what `reported_since(reports_before)` would say to the command of `c`. The
histories `had` and `ever` record what the lamp was. An echo wakes
nobody who waits for a report; here a command may be vouched for whenever the
mirror shows what it asked for and one of its ids is fresh, which is more than
the code does.

**Settings.** Instantiates `Delivery` with the two mode flags, the lighting
mode, the ramp, and each field of the schedule as properties; the fields are
reported and written together because they are one byte string. What is built
on the mirror is built when the call is made, before its turn of the lock.
A command's continuation follows at once (`Settled`), as it does in the code.

**Mirror, Freshness.** `Take` is one frame: known ids are kept, others as far
as there is room, in any order, and `reportedAt` is numbered. `Waits` and
`Finds` are the two sides of the look at the mirror and the wait. Whoever asks
notes what was reported, is `"writing"`, and `Listens` only if the write ends so
that there is something to listen for: a state request that was acknowledged, a
command that was not. Any other end is `Withdraws`, which tells nothing whatever
was reported meanwhile; `Exchange` then has the state read. Only a listener's
deadline (`TimesOut`) takes a part for an answer, and only to a state request.
`Freshness` says what is meant: from the moment somebody asks, every report goes
into a set of their own, and only who listens is told yes or no. The values
themselves are `Delivery`'s.

**Exchange.** `at` names the call awaited: the state request, the wait for its
answer, the read of the state, the three writes of the bring-up, the clock,
the read of the device info. A fault may strike any of them, the lamp may be
reset or activated by the vendor's app in between. A lamp `"reports"` when
asked; is `"nameless"`, which reports too, but whose device info parses to
nothing and is therefore read again on each link; or is `"moody"`: it refuses,
stays silent or reports in part. A value under the flag that cannot be used is
taken for none, as the code does.

**Entry.** `phase` is where the entry is, `registered` what Home Assistant
calls back, `listeners` and `failing` the two sets of the coordinator, `shown`
each entity's state in Home Assistant, `stored` and `restored` the remembered
value before and after the entity is added. `Round` is one
`_async_notify_listeners`: any listener may raise, and one may leave while the
others are told. Of the link there is only what the reach goes by, and of a
command which of its steps tell the listeners (`Takes`, `Acked`, `Ends`) and
which do not (`FailsOnce`, `Fails`). A report may come whenever the entry is
up or being unloaded, also on a client being subscribed on or hung up. One setting of the lamp stands for all;
an entity may remember (`Setting`) or be for one operating mode (`Modal`).
Home Assistant's stop unloads no entry: `Stops` is the listener for it, and
`Restarts` begins with what Home Assistant kept. How often a command
tries is left open, which allows more than the code does. Keepers and
coordinators of earlier setups are left out: they have no listener, no watcher
and nothing to say of the reach.

**Cbor, Slots.** Operators without state. A frame is a sequence of octets. In
`Slots` the bytes of a property are sequences of octets and any other value is
a record of its kind; text, lists, null, nan and the infinities are one kind.
`Entities` adds what an entity does to a reading (levels and brightness, whole
minutes, a preset's key, what is remembered) and what it has written.
`Cbor` has recursive operators, so nothing is proved of it.

## 3. Runs

| run | configuration | properties | shows |
|---|---|---|---|
| `link` | MCLink.cfg: 1 session, 2 clients, 2 commands, prime and probe | `TypeOK`, `NothingForgotten`, `HeldIsSound`, `VouchChannelStays`, `WaitsForSomebody`, `LiveLinkLetGoByItsUser`, `GoesThroughOneDoor`, `TakesTurns` | no client is lost track of, nobody waits for what will not come, flows speak in turn, a live link is let go of only by whoever speaks on it, over a doubt or by a stop, and every client goes through one door |
| `reload` | MCLinkReload.cfg: 2 sessions, 2 clients, 1 command, prime | `StoppedHoldsNothing`, `DialMeetsNoLink` | a command that outlives its session takes nothing, and no dial begins over a held link or a kept client |
| `link_live` | MCLinkLive.cfg: 1 session, 1 client, 1 command, all background work, `FairSpec` | `CommandEnds`, `DialsAgain`, `KeptIsRetried` | every wait has a deadline over it |
| `one_kept` | MCLinkKept.cfg | `OneKept` (violated) | finding 1 |
| `stack_fault` | MCStackFault.cfg: 2 sessions, 2 clients, fault after 2, gap up to 3 | `TypeOK`, `RepairIsOwned`, `EpisodeIsTheFault`, `EndsWithTheLamp`, `DialsGoOn` | the repair is the running session's, whatever outlives the one before, and only the lamp or the session's end ends an episode |
| `in_a_row` | MCStackFaultRow.cfg: 1 session, 1 client, fault after 3 as in the code | `AnnouncedInARow` (violated) | finding 2 |
| `delivery` | MCDelivery.cfg: 2 calls, 2 properties, 2 values, 2 attempts | `MirrorIsTheLamps`, `DoneOnTheLampsWord`, `TakesTurns` | what a command may be called, and when it may be tried again, with late writes and a lamp of its own mind |
| `settings` | MCSettings.cfg: 2 callers, 2 calls of any mode, lighting mode or ramp | `RampRemembered`, `ModesApart`, `AloneDoesAsAsked` | what a call leaves behind, also when it fails half-way |
| `slot_kept` | MCSettingsSlot.cfg: 2 fields of the schedule | `SlotKeepsTheRest` (violated) | finding 3 |
| `mirror` | MCMirror.cfg: 2 known ids, 2 others, room for 1, 2 who ask, 3 reports | `TypeOK`, `RoomIsCounted`, `NoReportMissed`, `CountsSince` | nobody sleeps through a report, and one number for each id is enough, reports inside a write that was lost included |
| `exchange` | MCExchange.cfg: 3 refusals, 3 faults | `TypeOK`, `BroughtUpWhole`, `CheckedWasActive`, `PrimedSpoke`, `Settles`, `IsBroughtUp` | what is known of the lamp is true, and one that reports is brought up on a link that stays |
| `entry` | MCEntry.cfg: 2 entities, one that remembers and one for a mode; 1 command, 2 values, 1 model | `TypeOK`, `ShownIsTrue`, `NothingOutlives`, `NoticeIsTrue`, `NoticeStands` | what is shown and logged is what holds once no command is unsure, nothing outlives its setup, and the notice is neither wrong nor lost |

The pure functions are checked by assumptions which TLC evaluates as it starts
a run. In `mirror`: `RoundTrip`, `CutFrameKeepsWholePairs` (every cut of some
1300 frames yields exactly the pairs that arrived whole),
`NothingTrails`, `PairsAheadAreHandedOver`, `DepthIsBounded`. In `settings`:
`ModeFollowsTheFlags`, `WritersOfDifferentFieldsAgree`, `NoSlotIsMadeUp`,
`ClockIsPutRight`, and of `Entities` `BrightnessComesBack` (a brightness that
was set is shown within one level of it), `PowerAlone`, `MinutesComeBack`,
`PresetIsTheOneChosen`, `RememberedGivesWay`, `HomeIsAPlace`.

Each property of each passing run has a mutant in `PROJECT.json`: a plausible
slip in one mapped definition (a dropped guard, a swapped order, a missing
reset) under which TLC finds the property violated. Most stand in the modules
beside what they change, as definitions introduced by `Slip:`.

`CHECK_DEADLOCK FALSE` stands where the system may stop: the last session may
be unloaded (`Link`, `StackFault`), or a bound on calls or reports may be used
up (`Settings`, `Mirror`). `Delivery`, `Exchange` and
`Entry` are checked for deadlock.

## 4. Bounds and why they are enough

* `Sessions`: two show everything a session can do to the next one; a third
  would meet only what the second met.
* `Client`: two are one held and one let go of.
* `Work` limits which background work a tick may set off, and a session has
  one prime or probe at a time: the tick is every 30 s, and their
  deadlines are shorter. In `link_live` all of it is on.
* `WriteAttempts` and `Attempts` are 2 as in the code, 1 in `settings`, where
  the second attempt changes nothing a setting could notice (`delivery` has it).
* `FaultAfter` is 2 instead of 3 and `LongestGap` 3 ticks in `stack_fault`:
  the gap doubles once and is capped. `CountMax` stops the count after that.
* `Room` is 1 instead of the code's number, so that it runs out;
  `MaxReports` 3 gives each asker a report before, while and after it asks.
* `MaxFaults` 3 lets each of the three writes of the bring-up be cut short, and
  the refusals reach their `Limit` as in the code.
* `Entity`, `Value`, `Model` in `entry`: an entity that remembers and one for a
  mode, so that each is told while the other raises or leaves; two values, so
  that the remembered one differs from the lamp's; one model, which gets its
  profile with a later version. One command is enough for the reach to change
  untold; `EntryProofs` is for any number.
* `Found` in `settings`: a lamp in the Schedule mode with a ramp that is not
  the default, so that what Circadian resets is seen.

Symmetry is used in safety runs only, over model values no definition tells
apart. In `delivery` these are the values too: without `Resets` the `Default`
is never put back.

## 5. Fairness

Of the lamp and the stack nothing is assumed beyond what is listed here.

* `Link`: each `await` of a flow is under a deadline (`asyncio.timeout`), so
  `Deadline` is weakly fair; so are vouching and hang-ups, which have ceilings
  of their own; and the tick, which Home Assistant calls. The lock is FIFO,
  so a flow that asks gets it: strong fairness of the step that takes it, as
  others may have it in between. No fairness of dials that *succeed*: a command
  ends, it need not be delivered.
* `StackFault`: the tick, and the end of each hang-up.
* `Exchange`: the call that is awaited ends; the tick dials, primes and
  probes; on BlueZ a link that was read goes down; and a lamp that `"reports"`
  does so when asked. Both liveness properties are about such a lamp and hold
  once the faults, bounded by `MaxFaults`, have ended.

## 6. Where the code and its documents part

1. **Two clients come to be kept in one session** (`one_kept`, link.py:796).
   ADR 0003 names one case, a command's dial under way at an unload. There is
   another: a command whose write failed leaves the lock to be vouched for,
   its client neither held nor being hung up, and whoever takes the lock dials
   beside it. If the stack then hangs up neither, both are kept.
2. **Three in a row are not always in a row** (`in_a_row`, link.py:1272). An
   error is an answer, says the comment and a test, and breaks the run; the
   code takes the count back only when a hang-up goes through.
3. **A field of the schedule set beside another is put back** (`slot_kept`,
   coordinator.py:1171). The slot is built on the mirror before the wait for
   the lock; time.py says there is nothing left for Home Assistant to queue.

Seen and not made a run:

* `open` waits for the hang-ups it saw and does not look again (link.py:685), so
  a hang-up that begins during the wait is dialled beside; ADR 0003:43 says "A
  dial waits for any hang-up still under way". `Link` has it as the code does.
* A device info that parses to nothing is read again on each new link, which
  on BlueZ costs that link (coordinator.py:658, against the docstring's
  "once"). It is the `"nameless"` lamp of `Exchange`, to which `Settles`
  therefore promises nothing.
* An attempt of a command that fails lets go of its client without telling the
  listeners (link.py:775), though link.py:645 says "everywhere either of the
  two changes". They are told when the command ends; hence `Pending` in
  `ShownIsTrue`.
* A setting shown as unavailable when the entry is unloaded, or Home Assistant
  stops, is stored as such, and its last value is lost (`Kept` in `Entry`),
  where entity.py:73 says it "falls back to its last known value".
* A brightness of 1 in 255 is level 0 (light.py:71), so a light turned on with
  it is written level 0 together with power (`LightCommand`).

Known and documented: a command may be vouched for by a
report that agrees with it for another reason (ADR 0005), so `AloneDoesAsAsked`
speaks of acknowledged calls; and two calls for a mode that cross may leave
both flags on, so `ModesApart` speaks of calls that do not.

## 7. What is proved

Eight of the modules above have theorems, in modules of their own; every proof
is checked by TLAPS from the named assumptions on the constants (counts are
natural numbers, sentinels lie outside the sets they stand beside, the ids
are finitely many) and from nothing else.

* **LinkProofs** (`TypeCorrect`, `NeverForgotten`, `HeldSoundly`,
  `StopsForGood`, `VouchingHeard`, `DialsAlone`, `LetGoByItsUser`,
  `ThroughOneDoor`, `SpeaksInTurn`, `NobodyWaitsInVain`). None of the safety
  properties is inductive: whether a client may be forgotten depends on what
  each suspended flow still holds of it. `IInv` says, for each `pc`, what
  `mine` is and who else may have that client, and who has the lock. Nearly
  all actions are one flow letting go of what it has and taking up something
  else; the lemma `FlowKeepsIInv` proves that such a change (`Flow`) preserves
  `IInv` once, and each action is shown to be one. Five that change more (the
  tick, the stop, the losses) are proved directly. The refinement of `OneDoor`
  follows from `IInv`. That of `OneTurn` takes `Ready` beside it: a task that
  is out of the lock has its count of attempts back at one and nothing said,
  however it was cut short, and who holds the lock is inside it; `Moves` is
  what a step does to one task's turn, and `ChangedAtOnePlace` carries it over
  to the abstract tables. `NobodyWaitsInVain` adds `Awaited`: a hang-up that
  ends is struck off by every dial that waits for it.
* **StackFaultProofs** (`RepairOwned`, `EpisodeFaithful`, `FaultTypeCorrect`,
  `EndedByTheLamp`). `RepairIsOwned` becomes inductive with `OneRuns`: sessions
  have their turns, and only the one that runs has an episode.
* **DeliveryProofs** (`MirrorFaithful`, `OneAtTheLamp`, `DoneIsTrue`,
  `DeliveryTypeCorrect`, `DeliversInTurn`). `DInv` relates what each command
  under way knows to what the lamp has been; `DoneIsTrue` is a property of
  steps. The refinement of `OneTurn` adds `Counted`: a command that waits for
  the lock has all its attempts before it, and one under way the one it makes
  at least. It says more than `LockedWhileWritten` and the bound on attempts
  in `TypeOK`, which are proved too and have no run of their own.
* **SettingsProofs** (`RampIsTheLamps`, `ModesStayApart`, `LeftAsAsked`).
  `SInv` stands on `DInv`, taken over by `INSTANCE`, so nothing of the delivery
  is proved twice. It says that the flags are written by calls for a mode
  alone, each command what its step is for (`FlagsWritten`), that such a call,
  alone, has the other flag off before its own goes on (`OffIsOff`,
  `OneMode`), and that a ramp that was acknowledged was the lamp's once
  (`RampAsked`). `LeftAsAsked` needs `AInv`: while a call is alone, what its
  command carries and what the lamp is are fixed at each of its steps, by what
  the lamp was when it began. In a switch to Circadian that has to hold of
  the lamp before, between and after its three commands.
* **EntryProofs** (`ShownTruly`, `AllTakenBack`, `NoticeTruthful`,
  `NoticeLasts`, `EntryTypeCorrect`). `EInv` adds to the properties who listens
  (`Listening`), that every value read, shown or remembered was once the lamp's
  (`LampsWords`), and that the keeper watches exactly while the entry is set up
  and Home Assistant runs (`Watching`). Most steps end in a round of the
  listeners; the lemma on `Tells` proves once what such a step keeps.
* **MirrorProofs** (`RoomCounted`, `NobodyWaitsPast`, `MirrorTypeCorrect`,
  `MirrorIsFresh`). The invariant says that what an asker heard is exactly
  the ids numbered after it began; from it `Mirror` implements `Freshness`,
  for any finite set of ids and any number of askers. That a state request told
  no has had no report at all rests on who is told: one whose write was lost or
  refused may have had some, and is told nothing.
* **ExchangeProofs** (`BroughtUp`, `SettledByAYes`, `PrimedByAnAnswer`,
  `ExchangeTypeCorrect`). `XInv` says how far the bring-up is at each `await`
  and where a yes in the mirror can have come from.
* **SlotsProofs**, of `Slots` and `Entities`. Writers: each, on every slot
  that reads, writes one that reads as asked and otherwise as before
  (`StartIsSet`, `EndIsSet`, `BrightnessIsSet`, `FadeIsSet`, `DstKeepsItsOffset`,
  `RampReadsBack`, `ClockReadsBack`); on anything else none of the schedule's
  makes one up (`NoSlotIsMadeUp`); and those of different fields agree in
  either order (`WritersOfDifferentFieldsAgree`, by `PutsMeet`: two writes at
  different places of a byte string are one). Readers: `ModeFollowsTheFlags`
  for any two values whatever, `ClockIsPutRight`. Entities: what is shown, set
  again, is what was shown (`BrightnessComesBack`, `MinutesComeBack`,
  `PresetIsTheOneChosen`). `LongFadeIsNoSchedule` is the other side of
  `FadeIsSet`: the clamp of `be2_minutes_to_bytes` would let a fade of more
  than two hours through, which no reader takes; the 90 minutes of the number
  entity keep it away. Seven of these have the name of the assumption of
  `MCSettings` that says the same over bounded bytes; here it is of all.

`IInv`, `Ready`, `Counted` and `AInv` are what these properties rest on, and no
properties of a run themselves.

## 8. What is only model-checked, and what is not modelled

Every safety property of every run is proved. Liveness is beyond the prover:
`CommandEnds`, `DialsAgain` and `KeptIsRetried` of `link_live`, `DialsGoOn`,
`Settles` and `IsBroughtUp` are model-checked, and so is what the recursive
decoder computes of a frame. Of `Entities`, `PowerAlone`, `RememberedGivesWay`
and `HomeIsAPlace` are evaluated over their bounds.

Not modelled:

* the wording of logs and notices, and the diagnostics, which format what the
  other parts hold;
* the config flow, a form with no state of its own between its steps;
* the developer's tools, and with them `bring_up=False`, which only the bench
  says; the tests' lamp;
* a platform that Home Assistant cannot forward the entry to, and the lines the
  keeper writes into the device registry;
* a lighting mode remembered under a name from before 0.3.0, and the rounding
  of coordinates;
* in `Cbor`, heads of eight octets other than for small numbers.

## 9. Plan

Done, in this order: `Link` with `OneDoor` and its proofs; `StackFault`;
`Delivery`; `Settings`; `Mirror` with `Freshness`; `Exchange`; `Slots`; `Cbor`;
`Entry` and its proofs; the proofs of `Settings`; the lamp of `Exchange` that
names nothing; `Entities`; `OneTurn`, implemented by `Link` and `Delivery`; the
proofs of what the entities show and write.

Next, the most important first:

1. **Delivery over Mirror**: `Delivery`'s `fresh` as an instance of
   `Freshness`, so that the two refinements meet.
2. **What a bring-up promises**, stated apart from its awaits, with `Exchange`
   shown to implement it; and its place in `Link`'s prime and probe.
3. **What an entry registers and takes back**, stated apart from listeners and
   notices, with `Entry` shown to implement it.
4. **The two remarks of section 6 about dials and device infos** as runs of
   their own.
