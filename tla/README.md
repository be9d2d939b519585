# A TLA+ model of the bath heater controller

The repository turns an nRF52840 board into a Matter on/off device that drives a
bath heater: a *control pin* that presses the heater's power button, a *standby
pin* that presses its standby button after an OFF, and a *sense pin* that tells
whether the heater is on. This directory models the control logic of
`src/` (the firmware the build compiles, and the AWS IoT layer beside it), of the
light switch it grew from (`src_old/`) and of the generated Matter data models,
checks it with TLC and proves its main safety properties with TLAPS.

Paths below are relative to the repository; `app_task.cpp` is `src/app_task.cpp`.

## Inventory

| Component | State | Operations | Interacts with |
|---|---|---|---|
| Sensing vote (`app_task.cpp` 46-70, 135-138) | `mSenseHistory` (uint16 shift register), `mVotedIsOn` | sample, count the LOW samples among ten, vote at eight; preload by an action | sense pin; heater control |
| Heater control, `AppTask` (`app_task.cpp`, `app_task.h`) | `mIsPulsing`, `mPendingOff`, two output pins, four delayable works | `InitiateAction`, `SensingPollHandler`, `ControlPulseHandler`, `StandbyPulseHandler`, `StandbyReleaseHandler`, `ButtonEventHandler`, `Init` | system work queue, Matter thread (lambdas), attribute callback |
| OnOff callback (`zcl_callbacks.cpp` 20-40) | the persisted OnOff attribute | `MatterPostAttributeChangeCallback` inside every write of the attribute | reads `mVotedIsOn`, calls `InitiateAction` |
| AWS IoT integration (`aws_iot_integration/`) | `payload`, two connection flags, `connect_work` | `attribute_set`, library events (connected, disconnected, delta), L4 events, connection attempts | Matter thread, library thread, a work queue of its own, the cloud |
| Main thread and board UI (`main.cpp`, `StartApp`) | task queue, LEDs, Identify (SDK code) | dispatches board tasks | button events |
| Legacy dimmer (`src_old/app_task.cpp`, `light_switch.cpp` 60-77) | press and dim timers, `sWasDimmerTriggered`, brightness, task queue | press, release, timer expiry, the three tasks | binding, through `InitiateActionSwitch` |
| Legacy light switch binding (`light_switch.cpp`, `shell_commands.cpp`) | `BindingData` of the commands and of the callbacks, on the heap | `InitiateActionSwitch`, six shell commands, `SwitchChangedHandler`, `onSuccess`, `onFailure` | binding handler, sessions and exchanges of the Matter thread; bound lights and groups |
| Cluster data model (`snippets/lit_icd/zap-generated`, `src_old/default_zap/zap-generated`) | attribute storage, cluster instances | start and shutdown callbacks, dispatch of commands, privileges, attribute and cluster tables | data model engine of the SDK, clients |
| Boards, sysbuild, build files, `uf2conv.py` | none | configuration, vendored | |

What makes it hard: the four fields of `AppTask` are shared, without a lock,
between the Matter thread and the cooperative system work queue; a vote travels
to the Matter thread through a queue that may drop it (`ScheduleLambda`'s result
is ignored) and is written when it may be old; the delayable works of an action
are not cancelled by the next action; power may go at any time. In the AWS
layer two threads share `payload` without a lock, and events are delivered after
the session they are about has changed. The light switch hands heap memory from
two threads to a third and on to callbacks that run when the command it came with
is gone. The data models spread one fact over several generated files, numbers
and parallel arrays that must agree. The hazards, each with its line, are in
`PROJECT.json`.

What makes each component correct:

- vote: it is the vote over the last ten samples and nothing older; a steady pin
  wins it; a preload resists contradicting samples for as long as 8-of-10 allows;
- heater control: no pin is left LOW, standby pulses are whole, control pulses and
  the muting of the sensing end in time, the attribute converges to the sense pin,
  a command presses the heater's button once and is obeyed in the end;
- AWS layer: the flag follows the session, a lost session is always followed by
  an attempt, device, payload and shadow agree at rest and each report is right, but
  for values that were not accepted, an error that is pending and a message that was
  overtaken;
- legacy button: short and long presses are told apart, and the brightness changes
  in a long press and as long as it lasts, unless a release is overrun by a timer or
  by the next press;
- legacy binding: nothing is used after it was released, and a command goes only
  where its asker meant it to go;
- data model: attributes do not share memory, every cluster of the tables is
  started and stopped, what is announced is served, and to nobody else than the
  `.matter` file allows.

## Modules

| Module | What it is |
|---|---|
| `SenseVote` | pure operators: window of samples, shift, count, vote, preload |
| `SenseWindow` | abstract specification of the sensing |
| `SenseHistory` | the sensing on the integers of the code; implements `SenseWindow` |
| `PrefixSums` | sums of the first values of a sequence; the counting loop and the offsets of the attribute storage are such sums |
| `SenseLag` | `SenseWindow` with history variables for how long samples and preloads count |
| `AppTask` | the core: both threads, work queue, event queue, pins, attribute, time, restart; with the OnOff callback |
| `AppTaskDeadlines` | `AppTask` with history variables: how long ago an action, a poll, a move of the pin |
| `PulseLine` | abstract specification of a pulsed pin; implemented by the standby side of `AppTask` |
| `MCAppTask` | `AppTask` with a budget of environment events, so that TLC can use the code's time constants |
| `HeaterLoop` | `AppTask` in a closed loop with a heater that shows a press after a delay |
| `AwsIotIntegration`, `MCAwsIotIntegration` | the AWS layer with library, broker and application as environment; the same with a budget |
| `AwsSession` | abstract specification of the session with the cloud: tried again until there is one, or no network, or an error; implemented by `AwsIotIntegration` |
| `LightSwitchBinding` | a command of the legacy light switch, from the allocation of its data to the callbacks |
| `LightSwitchDimmer` | the legacy button: press and dim timers, main-thread tasks, brightness; composed with `LightSwitchBinding` |
| `MCLightSwitch` | the light switch with a bound on the waiting tasks, and the symmetry of the heap's blocks |
| `ClusterTables` | notation of the generated tables, and the files both data models share |
| `LitIcdTables`, `LegacyTables` | the two data models, table by table |
| `ClusterServer` | start, shutdown, attribute storage and requests on a family of such tables |
| `MCClusterServer` | `ClusterServer` on the tables of the code, and the hypotheses of its theorems |
| `AttributeRegisters` | abstract specification of the attribute storage: one register per attribute; implemented by `ClusterServer` |
| `MCSense` | window, threshold and register width of the code, for the three modules of the sensing |
| `PrefixSumsProofs`, `SenseVoteProofs`, `SenseLagProofs`, `SenseHistoryProofs`, `AppTaskProofs`, `AwsIotIntegrationProofs`, `LightSwitchProofs`, `ClusterServerProofs` | lemmas, theorems and proofs |

A definition whose comment begins with *Fault* is a plausible bug in the
definition that follows it. It is used by no specification; the `mutants` of
`PROJECT.json` put it in place of the real one, and the property named there
must then fail.

### Code and model

`SenseVote` looks at the low `Window` bits of the register as a function from
positions to samples, newest at 0. `SenseHistory` justifies that: it shifts a
16-bit integer (`% 2^16`), counts with the loop of the code, and implements
`SenseWindow`: TLC checks it on all 65536 registers, and it is proved for every
width.

`AppTask` has the fields of the class as variables of the same names.

- *Work queue.* A handler is one action. The system work queue is a cooperative
  thread, its handlers do not block and are not preempted by other threads.
  `timer` is the delay of each work item, `submitted` the items whose delay has
  ended. `k_work_reschedule` moves the delay but does not withdraw an item that
  is already submitted, so `Reschedule` leaves `submitted` alone.
- *Matter thread.* It can be preempted between any two accesses to shared state;
  `pc` tells where it is: `idle`, `changed` (in the attribute callback, before it
  reads `mVotedIsOn`), `act` (in `InitiateAction`, `todo` being the stores it
  still has to do, in any order since nothing orders them for the compiler),
  `arm` (control pin LOW, release not scheduled yet), and `boot`, the time from
  `k_work_schedule` to the end of `StartServer`, when polls already post lambdas
  that nobody serves.
- *Event queue.* `Post` drops an event if the queue is full, as the ignored
  result of `ScheduleLambda` does.
- *Attribute.* The OnOff server, which is SDK code, writes the attribute only if
  a command changes it; every write that changes it calls the callback. What the
  server does of its own accord (StartUpOnOff, the end of OnWithTimedOff) is like
  a command at that moment.
- *Time.* A tick is 100 ms. The work queue never lags by a tick; the Matter
  thread may lag by any time unless `Prompt`. All delays of the code are
  multiples of the tick.
- *Restart.* May happen in any state; only the attribute survives
  (`default_zap/light_bulb.matter`:2442 persists it).

`AppTaskDeadlines` only watches: each of its steps is a step of `AppTask` that
also sets `age` (ticks since a control pulse was last scheduled), `polled`,
`still` and `seen` (ticks and polls since the pin moved or an action stored the
history or the vote) and `alone` (the last action found no work of older ones).

`HeaterLoop` adds a heater that toggles on each falling edge of the control pin
and moves the sense pin within `Latency` ticks. A command is given only to a
settled system.

`AwsIotIntegration` has one action per access to `payload` for its two threads
(`set` and `lib` say where each is), and one per handler for the rest. No lock
orders the two: either may be overtaken between any two of its accesses and sends.
The broker publishes a delta when an update or a desire leaves a difference between
`desired` and `reported`; a message sent on a session that has just ended is
lost. The application is not in the repository: it is assumed to hold the lock
of the Matter stack while an attribute changes and to report each change with
`attribute_set`, also when the change comes from the layer's own callback, and
to start with the attributes at 0 like `payload`.

- *Deltas.* The codec writes what it decodes straight into `payload`. A client of
  the cloud may desire what is no number (`NoNumber`): `OnBadDelta` has written any
  part of the rest when it gives up, notifies and returns. `RefuseValue` is the
  callback that returns false, at either attribute, with the values of the delta left
  in `payload`. Both may happen to any delta.
- *Failures.* With `Errors`, initialisation, connecting and sending may fail at any
  time for good, also on a live session: `GiveUp` is the path that notifies the
  application and re-arms nothing, and `gaveUp` remembers it until `connect_work` is
  armed again. `SendFails` leaves an update undone, or half done.
- *History variables* say what the shadow is not to be blamed for. `unapplied`: the
  attributes of `payload` that a delta wrote last with a value not accepted (yet); a
  local change that is kept, or the callback, takes them out. `failed`: an error was
  notified and nothing reported since. `late`: the Matter thread has sent or given up
  a message since the library thread encoded the one it holds; `stale`: such a message
  was the last to be reported. Only the library thread's messages can be overtaken: the Matter
  thread encodes after each change of its own, and the other thread changes no
  attribute meanwhile, for want of the lock of the Matter stack.
- A value that a delta has left in `payload` hides a local change to that same value
  (`aws_iot_integration.c`:363): `attribute_set` finds nothing to do and nothing is
  reported. The model has this; `unapplied` keeps such an attribute out of the
  properties, as the repository does not say what is due to it.

`LightSwitchDimmer` has one action per callback and per task. The button callback
and the timer callbacks only post tasks, which the main thread executes in order;
nothing bounds how many wait or for how long. `held` is a history variable, the
length of the last press. So is `overrun`: a timer has expired, or the button has gone
down, while the task of a release waited, which is where the code goes wrong (see
`dims_unattended`). It is over when a release is handled with no task behind it and
the button up, which leaves the timers stopped again.

`LightSwitchBinding` is part of the same specification: its Matter thread and
shell go on at any time beside the button. Every command takes a block of the
heap (`data`), without which nothing is sent. `RunBoundClusterAction` gives a turn
to each binding `IsGroup` admits. A turn is `SwitchChangedHandler`, which copies
the data for each of the two callbacks (`Capture`) and sends the request; a
light's turn may also pass for lack of a session. `copies` holds all blocks the
lambdas have taken, `exchanges` those a callback can still come for. The code
releases one of the two copies of an answered request and none of the others, so
the model's heap fills up as the real one does, and everything is checked with a
full heap too.

`LitIcdTables` and `LegacyTables` are `endpoint_config.h`, `access.h` and
`IMClusterCommandHandler.cpp` of the two data models, in the order of the code, as
sequences; clusters have names, attributes and commands their numbers. The indices
into these sequences (`ZAP_ATTRIBUTE_INDEX`, `ZAP_CLUSTER_INDEX`), the counts and
the sizes are those of the code, never computed from the rows, since that they
agree is what is checked. `ClusterServer` takes any family of such tables
(`TablesOf`), `MCClusterServer` the two of the code. It reads them as the SDK's engine does:
rows one by one at start and shutdown, offsets as sums of the stated sizes,
privileges by position. `Declared` is the other side of the comparison, the
`access(...)` clauses of the `.matter` files.

## Runs

| Run | Question | Bounds |
|---|---|---|
| `sense` | does the register implement the window (`WindowSpec`), is the vote that of the window, how fast does it follow a steady pin, how long does a preload hold? | none: 10/8/16 as in the code |
| `app_task_safety` | for all schedules: types, `ControlPinReleased`, `StandbyPulseWhole`, `FlagsHaveEnd`, the refinement `StandbyLineSpec`; in time: `ControlPulseBounded`, `MutedBriefly`, `PollsInTime`, `VoteFollowsPin`; is an action complete that overlaps no other (`LoneActionComplete`)? | window 2, pulses 2, standby delay 3, queue 1 |
| `app_task_liveness` | does a system left alone come to rest (`Quiesces`) with the attribute as sensed (`Converges`)? | window 3, queue 1, `Prompt` |
| `heater_loop` | is a command obeyed (`CommandObeyed`), with one press of the heater's button and none from the sensing (`PressedOnce`)? | constants of the code, latency up to 1 s |
| `aws` | types, connection flag (`FlagFollowsSession`), reconnection (`NeverStranded`, the refinement `SessionSpec`, `Reconnects`); device, payload and shadow at rest (`PayloadTracks`, `NoDesireLeft`, `InSyncUnlessStale`) and report by report (`ReportsRight`) | 2 values, 4 environment events, every failure |
| `light_switch` | are presses sorted (`PressSorted`), is nothing left behind by a press (`NothingLeftBehind`), does it dim in a long press only (`DimsWhilePressed`), is memory used by its owner only (`NoDangling`), do commands go where they are meant to (`AskedFor`)? | heap of 3, one light, one group, trigger after 3 ticks, a dim step every 2, at most 2 waiting tasks |
| `cluster_server` | do the tables give attributes their own memory (`RegistersSpec`), start and stop every server (`ServersStarted`, `NoneLeftRunning`), and serve what they announce to whom the `.matter` file allows (`AnnouncedServed`, `AccessAsDeclared`)? Do the files agree, which is all the theorems ask of them (`FilesAgree`)? | the tables of the code; one attribute write between boots |

The next five runs check a sentence of the repository that the code does not
keep; TLC finds the violation and `findings` quotes the sentence.

- `boot_pulse`. Polls queue their votes while the server starts. The heater is
  on before a reboot and the server takes 800 ms or more to come up; the first votes, over a history that starts as all HIGH,
  say OFF; by the time they are written `mVotedIsOn` says ON, so the callback
  takes the write for a command and presses the heater's button.
- `lost_standby`. The release of an OFF action's standby pulse clears
  `mPendingOff`, and `mIsPulsing`, of a newer OFF action, whose standby pulse is
  then never scheduled and whose control pulse runs with sensing unmuted.
- `lag_revert`. Sensing is muted for 300 ms after an ON and three HIGH samples
  outvote the preload, so a heater that shows an ON after one second has its
  attribute reverted for a while. `CommandObeyed` shows that attribute and heater
  end up as commanded all the same.
- `aws_stale_report`. `shadow_update` encodes the shared payload and sends it
  later. Between the two the other thread can send a newer one. The run has no
  errors and needs no refusal and no bad delta; `InSyncUnlessStale` shows that with all of
  them there is still no other way for the shadow to be wrong.
- `dims_unattended`. `README.rst`:176-177 says that a press of more than half a second
  changes the brightness, as long as the button is pressed. A timer that expires while
  the task of the release waits posts its own behind it; the release cancels timers,
  not tasks, and the dimming starts with the button up and goes on. The second half of
  `DimsAsDocumented` fails too: a press before the task of the last release loses its
  timer to that task (`app_task.cpp`:54 of `src_old`). `NothingLeftBehind`, `PressSorted`
  and `DimsWhilePressed` show that these two are the only ways.

The first three are found under a scheduler in which the work queue preempts the
Matter thread, so none of them rests on a lucky preemption.

### Why the bounds are enough

The safety run uses time constants as small as possible while every relation
that matters is kept: a pulse longer than a tick, a standby pulse shorter than
the delay before it, polls more frequent than pulses. It bounds no number of
actions: behaviours have any length, and two OFF actions can overlap in every
way. The window is the smallest in which ON takes more samples than OFF; the
history variables count as far as a property looks. A queue of one event is the
hardest case, since it is full most of the time. What this run checks is proved
for all constants as well.

In the AWS runs four events suffice for network up, a change, a lost session and a
change from the other side; each may meet a refusal, a delta that cannot be decoded or a
failing call, which are not counted. The safety properties are proved for any number of
events and any set of values.

`light_switch` has at most two waiting tasks: enough for a release with the task of a
timer before or behind it, for a press and a release behind a task, and for two
releases. With three TLC finds no error either, in more time than a run should take. The
time constants keep the relations of the code: the trigger comes after more than
a dim interval, the maximum brightness is no multiple of the step. Three blocks
let two commands exist at once, or one with a callback's two copies, and the heap be full
at every allocation. All its properties are proved without these bounds, for a queue
of any length.

`cluster_server` has no bound but the writes: whether a write of an attribute
reaches another one is decided by one write, after which `RegistersSpec`
compares all registers. Every attribute and command of every row is asked for with
each privilege, at every moment of the servers' life. The theorems need no bound
at all, and what they ask of the tables (`FilesAgree`) is a constant formula that
TLC decides.

### Fairness

`AppTask!Fairness` is weak fairness of the Matter event loop, of the work queue
and of the clock: each is a thread, or the kernel, that always goes on. Nothing
is assumed of users, of the heater or of the power: `Quiesces` and `Converges`
say what happens once these are quiet. `Converges` needs `Prompt`: if the Matter
thread lagged for ever, votes of the past could chase those of the present round
the queue. On the target the thread empties its queue many times between two
polls; that is an assumption about load, not something the code enforces.
`HeaterLoop` is weakly fair to controller, clock and heater. The AWS layer has
weak fairness of its threads and strong fairness of a successful connection:
attempts that are repeated for ever succeed some time, which is what repeating
them is for. As `aws` has every error, `Reconnects` ends either in a session or with an
attempt given up on an error that was notified. All runs check for deadlock; `MCAwsIotIntegration!Rest` is the only
state in which that module may wait for ever.

## Proofs

The theorems hold for every value of the constants that the named assumptions of
the modules allow (windows, thresholds, time constants, capacities, values, heaps,
binding tables). The one assumption that is neither a type nor the distinctness of two kinds of
thing is `StandbyWidth < StandbyDelay` (300 ms < 1 s) of `TimingAssumption`:
without it standby pulses could merge. Where a theorem holds for a setting only,
its statement says so.

- `AppTaskProofs`. `Spec_TypeOK` comes first, one lemma for each kind of step.
  The other invariants are not inductive: `StandbyPulseWhole` needs to know that
  a release is armed once and never further away than a pulse is long, and that
  a standby pulse re-armed while an older one waits for its handler has its whole
  delay left (`StandbyTimers`). `PinInv` is the conjunction, proved preserved by
  every action, and gives `Spec_ControlPinReleased`, `Spec_StandbyPulseWhole` and
  `Spec_FlagsHaveEnd`. `Spec_StandbyLine` is the refinement: under `PinInv` each
  step of `AppTask` is a step of `PulseLine` or leaves pin and rest alone.
- `AppTaskProofs`, in time. `DeadlineSpec_Spec` says that the history variables of
  `AppTaskDeadlines` restrict nothing, so that `PinInv` holds with them. `DeadlineInv`
  adds when each work item of an action is due, counted from the last
  `k_work_reschedule` of the release (`WorkInTime`); what `PinInv` says is on its way
  is therefore over in time: `DeadlineSpec_ControlPulseBounded` and
  `DeadlineSpec_MutedBriefly`. `PollOnItsWay` gives `DeadlineSpec_PollsInTime`, and
  with it `SamplesSeen`: the newest positions of the window hold the pin's level, as
  many as polls fit into the time it has rested. The counting lemmas then give
  `DeadlineSpec_VoteFollowsPin`, which says of the controller, its work queue and its
  races what `SteadyPinWins` says of the window alone. `AloneInv` follows an action that
  began alone through its stages, for `DeadlineSpec_LoneActionComplete`; `lost_standby`
  shows that *alone* is needed.
- `AppTaskProofs`, in the loop. `LoopSpec_Spec`: the loop implements `AppTask`, whose
  invariants it inherits. `LoopSpec_PressedOnce` needs `Prompt`, the work queue that
  preempts and the settled system of `Settled`: then a vote waits in the queue only
  while it is what is sensed (`Commanded`), so its write finds the sensed state in
  `MatterPostAttributeChangeCallback` and presses nothing. Where a command meets a vote
  that was posted before it this is not so: the command is taken back by the vote, whose
  write presses the button again. `app_task.cpp`:73 looks at `mIsPulsing` when it
  posts the vote and not when the vote is written.
- `SenseLagProofs`. `LagSpec_VoteOfWindow`, `LagSpec_SteadyPinWins` and
  `LagSpec_PreloadHolds` rest on an invariant that says which positions of the
  window the last `steady` samples and the last preload still hold, and on the
  counting lemmas of `SenseVoteProofs`: `LowHead` and `HighHead` for newest
  samples that are alike, `LowTail` and `HighTail` for oldest ones.
- `SenseHistoryProofs`. `RegisterSpec_WindowSpec` is the refinement of the window by
  the register for every width (`WindowSpec` of run `sense`). Its lemmas say what a
  shift does to each bit (`Bit`), truncation to the register included, and that the
  counting loop returns `LowCount` of the bits it sees. With it the two lag theorems
  hold of the register itself: `MCSpec_SteadyPinWins` and `MCSpec_PreloadHolds`.
- `PrefixSumsProofs`. The counting loop and the offsets in the attribute storage are
  both sums of a prefix. The sum is a recursive function on the naturals; its
  equation, and what is proved by induction on the length, rest on induction over a
  set of numbers (`SetInduction`, from the library's theorems on well-founded
  relations), since its induction rules take an operator.
- `ClusterServerProofs`. The tables are constants, of which the theorems know only
  what they state. `Spec_TypeOK` and `Spec_Registers` assume that the sizes of the
  rows fit into those of clusters, endpoints and storage (`SizesFit`), and show that the
  ranges the engine computes never overlap: the storage implements one register per
  attribute. `Spec_NoneLeftRunning` assumes nothing: `ShutdownInv` says which instances
  the rows already shut down can have left. `Spec_ServersStarted` assumes that each
  server of the rows has its cases, its place and its plugin call (`ServersCounted`), and
  shows that the start, row by row and plugin by plugin, leaves none out.
  `Spec_AccessAsDeclared` assumes that the parallel arrays say what is declared
  (`AccessGenerated`), `Spec_AnnouncedServed` moreover that announced commands are
  dispatched (`CommandsDispatched`), and both follow a request from its arrival to its
  answer while servers come and go. That the two data models of the repository satisfy
  these hypotheses is `FilesAgree`, checked by TLC.
- `AwsIotIntegrationProofs`. Every theorem is about `Spec` as it is, with every refusal,
  bad delta, lost message, failing call and overlap of the threads. `Spec_FlagFollowsSession`
  reasons about the last event of the inbox that tells of a session, `Spec_NeverStranded`
  only needs to know that a session that is down while connecting was announced.
  `Spec_SessionSpec` is the refinement: each step of the four parties that begins,
  repeats, cancels or gives up an attempt is a step of `AwsSession` or leaves network
  and phase alone; `SessionInv` adds that without `Errors` an attempt is given up only on
  a session that was up, whose end is announced, so it is never the last one.
- `AwsIotIntegrationProofs`, the shadow. `Spec_PayloadTracks`: `PayloadInv` says that a
  difference of payload and device was made by a delta or is about to be removed by
  `attribute_set`, and that a value being applied is still in the payload or was written
  over. `Spec_NoDesireLeft`: `DesireInv` finds, for a desire that is not
  reported, an event that makes the library thread report, or that thread at work,
  unless an error is pending. `Spec_InSyncUnlessStale` and `Spec_ReportsRight`: `ReportInv` says
  that what the Matter thread is about to send is right, and so are what the library
  thread is about to send unless it was overtaken, and what was reported last; `Right`
  is stronger than the properties, as it has to say when a message agrees with the payload too.
  Until the start of a session has been delivered (`Linked`) nothing has been
  reported on it for which the module would answer, and the shadow may be wrong.
- `LightSwitchProofs`. `BindingInv` is `NoDangling` and `AskedFor` with the types
  and the fact that `IsGroup` is still what the asker set; it is inductive, and
  gives `Spec_NoDangling` and `Spec_AskedFor`. `Spec_TypeOK` needs no bound on the
  queue. `TidyInv` gives the other three: without an overrun `ReleaseLast` says
  the task of a release is the last of the queue, `PressInv` relates the timer, the
  task it posts and the flag to the time the press has lasted, and `DimInv` says that
  the dimming timer and its tasks are there in a long press only, however many of
  them wait; and `NothingLeftBehind` is what an overrun returns to.

Only model-checked: the liveness properties (`Quiesces`, `Converges`,
`CommandObeyed`, `Reconnects`: fairness is out of the prover's reach), `FilesAgree`
(a fact about given tables, which TLC decides), and the five runs that expect a
violation.

## Not modelled

- An ON within a second of an OFF does not cancel the standby pulse, which then
  comes after the ON; the model has this behaviour, but the repository does not
  say what should happen.
- Two actions within 300 ms extend one control pulse; the model has this
  behaviour, but the repository does not say what should happen.
- Error returns of `Init`, LEDs, Identify, `DispatchNextTask`: SDK code or
  one-time failures that end the program.
- A negative result of `gpio_pin_get_dt`, whose lowest bit the code takes for a
  sample: no different from a glitch of the pin, which the model has.
- AWS: `net_mgmt_subscribe` and the registration of the callback, which come once
  and before any event, and an update that does not fit its message buffer.
- Legacy: overflow of the task queue, the button of the user-active mode (it calls
  the SDK and changes nothing here), and retransmissions by the binding handler.
- Data model: types, default values and the `EXTERNAL_STORAGE` values of
  attributes, events, generated-command lists, the functions of the Groups row,
  client endpoint counts and feature macros of `gen_config.h`, and the weak stubs of
  `callback-stub.cpp`: they only feed code of the SDK. Nothing is generated in the
  repository for `light_bulb.matter`.
- The snippet `lit_icd` builds this firmware with the data model of the light
  switch, without an OnOff server on endpoint 1, so that the application's reads and
  writes of the attribute fail. `AppTask` is modelled with the data model of
  `prj.conf`:13.
- Board and build files (configuration without behaviour), `uf2conv.py` (a vendored
  flashing tool).

## Plan

Done, in this order: the vote; `AppTask` with its callback; the loop with the
heater; the AWS layer and its errors; the legacy dimmer and the binding; the data
models; the deadlines; theorems about all of them; the abstract specification of the
AWS session with the proof that it is implemented; and, without any assumption on how
the threads are scheduled, what the AWS layer and the legacy button keep.

Left: an abstract specification of the shadow that covers overtaken messages and
values that were not accepted, for `ReportsRight` to become a refinement; and one of the
legacy button as the light sees it, from press to brightness, through the binding.
