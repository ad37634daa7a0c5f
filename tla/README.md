# Fabric defect inspection: a TLA+ development

This directory specifies and verifies the fabric inspection line of this
repository: an OpenMV camera that spots suspicious places on a running web of
grey cloth and photographs them, an STM32H7 board with RT-Thread that drives the
two winding motors, classifies the photos with a neural network and reports the
results, and a WeChat mini program that shows them.

Paths below are relative to `src/`; `main.c` and `model_sd_start.c` are in
`Fabric_Defect_Detection_END/applications/`.

## 1. Inventory

| Component | State | Operations | Hard behaviour |
|---|---|---|---|
| Camera program (`OpenMV/all_endhaha.py`) | `flag`, `count`, `image_num`, `image_trans_num`, `i`, `stable_low`, timer callback, files | wait for start, detect, photograph, hold off, watch the light barrier, announce (`(` per photo, then `)`), `send_frame` | timer callback between any two statements, restarts, no feedback from the board, fixed pauses instead of acknowledgements |
| Picture link (`send_frame`, `uart_rx_callback`) | `frame_start`, `recv_cnt`, `recv_buf`, `image_buffer`, `frame_ready` | receive interrupt, byte by byte | byte loss, corruption, noise, camera reset; no length, checksum or timeout |
| Inspection round (`uart_img` thread, `model_sd_start.c`) | `detect_round`, `defect_counter`, `last_detect`, `detection_round_cnt` | take picture, classify, tally, CSV, two uploads, beep, reset | one-slot buffer shared with the interrupt, count shared with `uart_ctrl`, SD and network failures |
| Command thread (`uart_ctrl`, `main.c`) | `image_count`, motor flags, pins, PWM | one handler per command letter | long handlers with delays, preempted by the PID thread |
| Speed controller (`pidctrl`, `main.c`) | `integral`, `was_enabled`, `filtered_speed`, `last_count`, `last_time_ms` | a cycle every 20 ms | shares flags and timers with `uart_ctrl`; a wrapping counter, statics that outlive a run |
| Command delivery and start-up (`main`, `uart_rx_cb`, RT-Thread serial driver) | two ring buffers, semaphore | interrupt, take, read | overflow, several bytes per interrupt, start-up order |
| PWM driver (`drivers/drv_pwm.c`) | timer registers | set, get, enable | integer scaling to 16 bits; each set restarts the counter |
| WiFi driver (`packages/rw007-v2.1.0/src/spi_wifi_rw007.c`) | two buffer pools, two mailboxes, an event per command, `spi_wifi_resp`, `send_packet` | send a frame, send a command and wait, exchange in two stages, dispatch what came in, interrupt | two threads, their callers and an interrupt, retries, coalescing events, a timeout racing a late response |
| SD mounting, WiFi/OneNET bring-up | - | run once | only decide whether later calls succeed |
| Mini program | constant page data | navigation | - |
| Vendored: RT-Thread, HAL, CMSIS, cJSON; NNoM, OneNET, Paho (not in the repository) | | | |

Interaction: camera -> board by command bytes (uart4) and picture frames
(uart3); LCD -> board by command bytes (uart2); `uart_ctrl` -> `uart_img` through
`detection_round_cnt` under `detection_round_mutex`; interrupt -> `uart_img`
through `image_buffer` and `frame_ready` without a lock; `uart_ctrl` <-> `pidctrl`
through `closed_loop_enable`, `g_direction_reverse` and the PWM timers without a
lock; `uart_img` -> network through the rw007 driver. Priorities (smaller is higher): `uart_img` 10, `pidctrl` 12, `uart_ctrl` 20.

What correctness means: a batch of photos is reported once, completely and in
order; damage on a line is confined; the three records of a round agree; a round
starts when asked for, once, and sends its own photos; the camera's stop is obeyed
before it photographs; never do both motors pull; a stop stops; the measured speed is the
true one and the motor makes the steps asked for; no command byte is left unread;
no packet to the cloud is lost, repeated or overtaken; and nothing is stored
outside its array. `PROJECT.json` lists the hazards line by line.

## 2. Modules

**FrameReceiver** models the picture link. The camera's state is the picture
being sent and how many bytes of its frame are out (`pos`); the board's state is
that of `uart_rx_callback`. A byte of the line is one step; the callback handles
bytes in a loop, so a step is one turn of the loop. `AwaitHead`, `Fill`,
`Complete` and `Slide` are its four paths. `LoseByte`, `CorruptByte`, `NoiseByte`
and `CameraReset` are the faults; `clean` and `prevClean` remember whether the
current and the previous frame were free of them. `Mapped` is the grey value
conversion `int(round(p * 127 / 255))`.

**InspectionRound** models a round across four actors: camera, picture
interrupt, `uart_ctrl` (commands `(` and `)`) and `uart_img`. A picture is the
class the network gives it; a picture overwritten during `memcpy` may come out as
any class. `uart_ctrl` does not step while `uart_img` computes (`CtrlMayRun`),
because it has the lower priority; it does wherever `uart_img` sleeps or waits for
SD card or network. `CtrlInTime` and `ImgInTime` state the timing the camera's
fixed pauses provide (section 4). A picture arrives in one step (`SendFrame`), as
`FrameIsOneStep` shows of an intact frame; a disturbed one is lost or becomes
another picture. `inspected` is a history of the results since
the last reset. UB: a store beyond `last_detect` sets `overrun` and has no other
effect, so nothing is claimed after it.

**InspectionService** is the abstract promise: a batch is submitted, then
reported, complete and in order, before the next. `InspectionRound` instantiates
it with `pending` = the batch as long as it is owed and `reported` = the CSV.

**MotorControl** models `uart_ctrl`'s motor commands and the PID thread. Each C
function is a sequence of single writes `<<what, where, value>>` (`Wait`, `Loop`,
`Run`, `Rev`, `Target`, `Buzzer`, `Ena`, `Dir`, `Pwm`, `Rate`); a command puts its
writes into `todo`, and `CtrlStep` performs one. The conditions the
handlers test are only written by `uart_ctrl` itself, so the sequence is fixed
when the command starts. `PidStep` is one PID cycle (its sum is an arbitrary
choice from `PidOutputs`, then limited as in the code). `Tick` advances time;
`uart_ctrl` does not step while the PID thread is ready. The jog letters h, a, y,
z and d, x, p, q differ in length, which only changes a delay: four remain.
`MCMotorControl` gives the PID sums for TLC.

**PwmDriver**, which MotorControl extends, is the arithmetic behind a speed: the
conversion from rpm in `main.c`, the scaling in `drv_pwm_set`, and the rising
edges the timer makes between two calls that restart its counter.

**SpeedLoop** is the arithmetic MotorControl leaves open: the encoder counter,
`get_line_speed_mmps` with its statics, and the PID sum. `Period` lets the web
move by some counts; the PID thread takes its cycle in the same period or a
later one. While the loop is open (jogs) the web may move either way. Speeds are
whole mm/s (rounded down where the code has fractions). `sample`, `lo`, `hi`,
`gap` and `factor` (how often the distance to a constant sample should have halved
by now, as a power of two) are history.

**Camera** is the main loop of `all_endhaha.py`; `pc` is the place in it, and
each action one group of statements that the timer's callback (`Tick`) may
interrupt before or after. Lines 192 to 195 are two actions because the order in
which they undo the hold-off is what matters. `Restart` is a reset or an uncaught
exception. A photo is the file it is stored in: of this round, of an older one, or
not there. `send_frame` sends it or gives it up: its three error paths (unreadable
file, wrong size, a write that raises) only print a message, and the loop goes on
with the next photo; `unsent` counts them. Camera has no behaviours of its own.

**InspectionLine** supplies them: it extends Camera with `uart_ctrl` (camera's
bytes first, then the operator's, in the same switch), the operator, the web
(defects at given positions; the light barrier goes low at its end) and wrong
readings of sensor and barrier. The operator may press any key at any time: `b`,
`s`, the forward runs `u` and `t`, the reverse run `o`, one of the eight jogs
("jog") or a key that moves nothing ("other": speeds, brackets, unknown letters).
A command is one step, but a jog two: `uart_ctrl` is busy until `JogEnds`. The web
moves forward, back or, in a jog, either way. History: `order`, the camera's last
motor command that was handled; `byOperator`, the web moves by a later key of the
operator; `ended`, the end of the cloth has come by in this round.

**BatchSender** is the abstract promise of the camera on its two lines: a batch is
announced before it is closed, closed once, and then every announced picture is
tried exactly once, sent (`Picture`) or not (`GiveUp`); only a restart abandons a
batch. So the board never gets more pictures than announced, and it may get fewer:
a picture given up is a lost one to the board, the fault "frame" of InspectionRound.
`Camera!BehavesAsBatchSender` instantiates it with `restarted` = a restart has
happened; its other variables are Camera's history of the round.

**Rw007** models the driver of the WiFi module: `wlan_send` and `spi_send_cmd`
(allocate, put in the mailbox, notify), the thread `wifi_xfer` (`StartTransfer`,
`Stage1`, `Stage2`, `Garbled`, `EndTransfer`), the thread `wifi_handle`
(`Process`), and the wait, read, free and clear of `spi_set_data`, each a step of
its own because `wifi_handle` replaces the response between them. A packet is its
number and `cmds` the commands not yet exchanged; commands are of one type, as each type has an event and a slot of its
own; the power switch is on. The module at the other end is external: it takes a
packet when it is ready, answers in order and interrupts at will. Packets with an
invalid length do not occur.

**CommandLine** models the delivery of command bytes: the order of statements in
`main`, the receive interrupt of the serial driver (ring buffer of `BufSz - 1`
bytes that drops the oldest, one callback per interrupt), the semaphore and the
two reads of `uart_ctrl`. Bytes are counted, not told apart.

**FrameReceiverProofs**, **CommandLineProofs**, **InspectionRoundProofs**,
**PwmDriverProofs**, **MotorControlProofs** (which uses it), **SpeedLoopProofs**,
**InspectionLineProofs** (with Camera and BatchSender) and **Rw007Proofs** hold the
proofs.

Each module also has a few variants of its definitions ("plausible coding
errors"). No specification uses them; they replace the original to confirm that
a property can fail.

## 3. Runs

| Run | Configuration | Result |
|---|---|---|
| frame_link | `FrameReceiver.cfg` | holds: window bounded, resynchronised after one intact frame, second intact frame delivered once and exactly |
| round_ideal | `RoundIdeal.cfg` | holds: implements InspectionService, cloud counts agree with cloud report, every round ends reset |
| round_lossy | `RoundLossy.cfg` | holds: reports contain only inspected pictures in order, even when rounds merge |
| round_races | `RoundRaces.cfg` | holds: records agree, buzzer silent, without any timing assumption |
| round_too_many_photos | `RoundTooManyPhotos.cfg` | **violated**: an 11th photo is stored beyond `last_detect` |
| motor_safety | `MotorSafety.cfg` | holds: never both motors, stops are final and obeyed in the end, the regulated motor is the driven one, one writer of a timer, clean hand-over after a soft start, registers fit, steps follow the command |
| motor_jog_period | `MotorJog.cfg` | **violated**: the jog does not restore the PWM period |
| command_line | `CommandLine.cfg` | holds: no byte left unread |
| command_line_start | `CommandLineStart.cfg` | **violated**: the callback can release an uninitialised semaphore |
| speed_loop | `SpeedLoop.cfg` | holds: displacement true across wrap-arounds, the filter forgets earlier runs and converges, no wind-up |
| inspection_line | `InspectionLine.cfg` | holds: rounds start clean, hold off long enough, send their own photos and behave as BatchSender; one press never starts two rounds; where the web must stand the camera's stop has been obeyed and only a later key of the operator can move it; one bounce does not end a round; a begin that meets a waiting camera leads to the end of a round |
| wifi_driver | `Rw007.cfg` | holds: packets once and in order, no buffer leaked, a command gets its own response, every packet is sent in the end |

Violations:

- *Too many photos.* `model_sd_start.c:23` says at most ten pictures are
  supported and `main` controls the number. `main` publishes whatever was counted.
- *Jog.* `main.c:259` says the PWM period is restored to the speed level. The
  call does nothing, as `g_motor_run` is false then. The next soft start programs
  the timer anyway; 'o' runs with the jog speed until the first PID cycle.
- *Start-up.* `main.c` installs the receive callbacks before `rt_sem_init`;
  `rt_sem_release` asserts the semaphore's type (`ipc.c:613`).

Not a violation of a stated claim, but visible in the model and worth knowing:
without the timing assumptions a picture can be inspected twice or torn; with a
failing SD card and rounds of different size, `last_detect` can keep a place that
was never written, which the report shows as class 0 ("crack"). Also:

- `main.c:84`: the first speed sample of a run averages over the whole pause
  before it, as `last_count` and `last_time_ms` stand still while the loop is open.
  FilterConverges bounds how long that is felt.
- `main.c:137`: the PID sum is the whole commanded speed. At exactly the target
  speed, with no integral, it is 0 rpm, although the comment at line 416 speaks of
  fine-tuning after the soft start.
- `main.c:93`: the correction for the direction is commented out. The target is
  positive in both directions, so in the one in which the counter runs down the
  error grows with the speed and the command runs into its limit.
- `all_endhaha.py:192`: a tick between the reset of `count` and the removal of the
  callback stays behind; the next hold-off is then one tick shorter than the 80 of
  the comment at line 190. HoldOffLasts allows for it (`Slip`).
- A `b` pressed while the camera is not waiting stops the web, and its `pp` is
  dropped: no round follows (`main.c:387`, `main.c:390`). A camera that restarts in
  mid-round sends no stop: the web runs on.
- The operator's motor keys share a switch with the camera's commands
  (`main.c:384`, `main.c:399` to `main.c:459`) and nothing locks them out: `u`, `o`, `t`
  or a jog pressed after the camera's stop moves the web while it is photographed or
  while its photos are sent. WebStandsStill says that this is the only way.
- `all_endhaha.py:61`, `:79`, `:91`: a picture that `send_frame` gives up was announced
  and is not sent. The board's round stays one short until a later batch fills it.
- Restarting the PWM counter every 20 ms rounds the speed to whole steps per
  period, that is to multiples of 7.5 rpm; below about half of that the motor does
  not step although its output is on. StepsFollowCommand is exact about it.
- `spi_wifi_rw007.c:442`: a packet is freed unsent if the module's ready bit is
  clear in stage 2. Line 877: after a timeout the late response is taken by the
  next command of its type. Line 762: notifications coalesce, and packets left in
  the mailbox wait for the next interrupt or packet.

## 4. Bounds, timing and fairness

- *frame_link*: three-pixel pictures, a four-value alphabet in which two pixels
  can form the tail, two faults, any number of frames. One fault desynchronises,
  the second hits the recovery.
- *round_ideal*: two classes, up to three photos, any number of batches, uploads
  fail at will. *round_lossy*: two photos, two faults of any kind, `MaxRound` large
  enough for the announcements that two lost `)` add up. *round_races*: one photo
  per batch but batches that overlap freely; `U8 = 3` so that the SD failures make
  `detect_round` wrap.
- *motor_safety*: nine of the commands; `m` differs from `w` and `l` only in the target, and the
  other two jogs are mirror images. Three PID sums (below, within and above the
  limits); the true clock and step number; samples one to three periods apart. PID period and the pause of 'u' are 2 ticks, as both are 20 ms; the
  other delays are longer than a period or (jog pause) half of it. Every subset of
  the PWM devices may be missing. One command byte waits at a time: uart_ctrl's
  reaction depends only on the next byte.
- *command_line*: buffers of five bytes, a semaphore that saturates at ten, up to
  two bytes per interrupt, four bytes without a token.
- *speed_loop*: a counter of six values, so that it wraps within a few periods in
  both directions and steps of up to four counts between two samples lie on both
  sides of half its range; samples up to two periods late; two equal samples in a
  row are enough to see two halvings.
- *inspection_line*: a hold-off of two ticks with one that slips, two photos, cloth
  with a defect at its beginning (seen again if the web has not moved on), two begins
  (other keys without bound), one restart at any point, one wrong reading: enough for
  a round after a round, after a restart and during a hold-off. The keys are `b`, `s`,
  `u`, `o` and a jog; `t` acts as `u` here and "other" does nothing. The proofs are for
  all of them and for every bound.
- *wifi_driver*: two send buffers and one receive buffer, so that both pools run
  empty; two tries and two errors, so that a transfer fails for good; three
  packets, commands or frames, so that one can overtake another.
- Deadlock checking is on in every run.

Timing (`CtrlInTime`, `ImgInTime`): after `)` the camera waits 10 ms and a frame
takes 1.07 s at 9600 baud, while `)` takes 240 ms in `uart_ctrl`; a soft start
(at most 820 ms) still in progress before it is the worst case and just fits.
After a frame the camera waits 2 s; `uart_img` needs one inspection and, at the
end of a round, about 0.7 s of delays plus SD and network time. A slow upload
breaks the assumption; round_races says what still holds: the records of a round
agree with each other. What the timing excludes (a picture torn or inspected twice, a
count published under a running round, a picture before its count: three hazards of
`PROJECT.json`) no property covers.

Fairness: *InspectionRound* assumes weak fairness of the camera's transmission
loop and of each thread: the loops have no exit, and the scheduler runs a ready
thread. StartBatch is not fair: nobody need inspect. *MotorControl* assumes the
clock ticks and the PID thread runs when ready (weak), and that `uart_ctrl` gets
the processor again and again (strong: the PID thread and `uart_img` interrupt it,
but both sleep in every cycle). `Receive` is not fair. *InspectionLine* assumes weak
fairness of the camera's loop (no exit), its timer, `uart_ctrl` and a driven web;
a jog is a delay of fixed length, so `uart_ctrl` ends it; the operator need not press
anything, and BeginLeadsToReport gives up when the
camera restarts or a further key interferes. `BoardInTime`: a photo is taken at least
1.2 s after `s` was sent (servo pauses and sensor start), by when `uart_ctrl` has
finished even a soft start or a jog of the operator (820 ms each; `uart4` is read
first, so at most one precedes) and handled it. *Rw007* assumes weak
fairness of its two threads; that the module keeps interrupting is a premise of
EveryPacketSent and not an assumption.

## 5. Proofs

Every theorem but the arithmetic ones of PwmDriverProofs is of the form
`Spec => []P` or `Spec => [][A]_vars`, and all hold for
every value of the constants that the module's assumption allows. The assumptions
say what the code's constants satisfy; where a theorem needs more (timing, no
faults of some kind) the hypothesis is in its statement, and the run that checks
the property, if there is one, is on an instance that satisfies it.

*FrameReceiverProofs*, from `FrameAssumption` only (the head byte is no pixel and
no tail byte; the buffer holds a frame), for every picture size, alphabet and
number of faults: `TypeCorrect`, `WindowBounded`, `Resynchronises`, `Recovers`,
`FrameIsOneStep`. The properties are not inductive: `Resynchronises` needs that during an intact
frame an open window has received at least as many bytes as the frame has sent,
or is full, and ends with the frame's last byte (`WindowFollowsFrame`), so that
the tail meets a full window; no pixel can open a window after a false tail, as
the head is no pixel. `Recovers` needs that in the second intact frame the window
is exactly the prefix sent (`WindowIsPrefix`), which begins with the idle receiver
that `Resynchronises` provides; so nothing but its last byte touches
`image_buffer` and `frame_ready` (`FrameIsOneStep`). `IInv` is their conjunction; `SendByteIInv` is the
main lemma.

*CommandLineProofs*, from `LineAssumption` (the semaphore can count what the two
buffers hold): `LineTypeCorrect`, `NeverStrands`. The strengthening
`TokensCoverBytes` adds the token in hand and, between the two reads, that
uart4's bytes are covered without it: a byte may arrive on uart4 after it was
found empty.

*InspectionRoundProofs* has three inductive invariants, each under the hypotheses
it needs.

- `RInv`, without any: types, tallies and buzzer (`RoundTypeCorrect`,
  `TalliesAlwaysAgree`, `BuzzerFallsSilent`). The tallies need that `inspected` is
  what both counters count, modulo their 8 and 16 bits, between any two steps.
- `PInv`, if `InTime` (camera and board keep to the timing of section 4, the SD
  card works): while `uart_img` works `uart_ctrl` is idle (`Quiet`), so the count
  cannot change under it; `last_detect` is the sequence of results (`Storing`); when
  the report is opened all of them are there (`Complete`). Hence `ReportsPrefix`,
  with lost, spurious and late bytes and resets of the camera.
- `SInv`, if `Sound` (in time, no fault but of the network, and no more photos than
  `last_detect` holds): where camera and `uart_ctrl` are determines where `uart_img`
  can be and what it has (`Progress`), and the uploads are of this batch
  (`Uploads`). Hence `CloudAlwaysAgrees`, `StaysInBounds` (the converse of
  round_too_many_photos) and `RoundIsService`: initial states and steps are those
  of InspectionService. That is the safety part of `ImplementsService`.

Two results say what `SInv` gives beyond that. `SInv` needs the absence of faults
only step by step, so a line with faults gets it back: `AtRest` (camera and threads
idle, nothing counted, no result kept) implies `SInv`, and `RestIsSound` concludes
that from any such state on, whatever was lost before, the line is an inspection
service for as long as no fault happens. (A lost picture can leave a round open; the
rest is then only reached when later pictures complete it.) And the reasons why a
round completes are safety properties: `Work` counts the steps that are left to the
camera, to `uart_ctrl` and to `uart_img`; every step but the start of a batch lowers
it (`RoundShrinks`), and while it is not zero one of the three can step
(`RoundNeverStuck`, with the guards written out, as ENABLED is outside the prover's
reach). What is left to TLC of `RoundCompletes` is the inference from there: a
number cannot fall for ever, and a fair actor that can step does.

*MotorControlProofs*, from `MotorAssumption` (the pause of 'u' is not shorter than
a PID period; PID sums are arbitrary integers) and `PwmAssumption` (a timer clock of
up to 1000 MHz, any number of microsteps): `MotorTypeCorrect`, `NeverBothTurns`,
`StopsStop`, `DrivesActive`, `OneWriter`, `HandsOver` and `StopNeverStarts` (action
properties), `RegistersAlwaysFit`, `StepsAlwaysFollow`. What a half-finished command may still do depends on all
that is left of it, so an invariant over the outputs alone cannot be inductive.
`IInv` treats `todo` as a program: there is a plan, a state before each write and
one after the last, such that the first is the present one (`Rel`), every write is
permitted where it stands (`Permitted`: a speed only while the loop is open, the
end of a soft start only at the target speed and after the PID thread has seen the
loop open), no state has both motors turning, and the last is one to rest in
(`Restful`). `ThenPlan` composes plans; each function of `main.c` has a lemma that
says from which states it has a plan and where that leads (`StopPlan`,
`DirectionPlan`, `AccelPlan`, `JogPlan`, ...), and `ScriptPlan` puts the commands
together. The PID thread's steps keep the plan, because a plan remembers a timer's
speed only while the loop is open. `StopNeverStarts` needs that what is left of 's' or 'b' holds no
write that starts anything (`StopLeft`). The two theorems on the timers follow from
the range of the speed and PwmDriverProofs.

*PwmDriverProofs*, from `PwmAssumption`: `NoneLost` and `NoneAdded`, for every clock,
number of microsteps, speed and gap between two restarts of the counter. A speed
passes six truncating divisions on its way to the timer (frequency, nanoseconds,
pulse, ticks, prescaler, registers) and the edges are counted by a seventh; a lemma
per division bounds what it loses (`FrequencyExact`, `PeriodExact`, `TicksExact`,
`TurnExact`, `HalfExact`, `StepsRound`). No step is lost for any constants: all
divisions after the first make the period shorter. For the same reason a few may be added, and
`NoneAdded` bounds them; with the board's 200 MHz and 400 microsteps and gaps of one
to three control periods the bound is less than 20 thousandths of a step and both
sides are multiples of 20, so none is left: `BoardSteps`, and with it
`StepsAlwaysFollow`. For arbitrary constants `StepsFollowCommand` is not claimed:
its upper limit leaves no room for the added steps.

*SpeedLoopProofs*, from `SpeedAssumption`: `MeasuresDisplacement`, `Forgets`,
`Converges`, `NeverWindsUp`. The strengthening is `CounterFollowsWeb`: the counter
shows the way of the web since the last sample but for whole turns, whether the
loop was open or closed meanwhile; and that time has passed when a cycle is due,
so that no speed is divided by zero.

*InspectionLineProofs*, from `CameraAssumption` and `LineAssumption`:
`CameraTypeCorrect`, `StartsClean`, `HoldsOff`, `SendsOwnPictures`,
`NoRoundUnasked`, `StandsStill`, `EndsAtTheEnd`, and `CameraIsBatchSender`, the
refinement of BatchSender. The conjuncts of `IInv` tie the state to the place in the
main loop: the timer to the flag (`TimerFollowsFlag`), the history of the round to
`pc` (`BatchFollowsPc`), the begins to the bytes under way (`BytesAreBegins`). The
web needs most: where it must stand, either a stop was the camera's last order obeyed,
what moves is moved by a later key (`StopObeyed`) and no 'u' is on its way, or an 's' is,
with no 'u' behind it (`WillStand`, `StopsPrecede`). The operator's keys are any of
those of section 2, in any order, and each `send_frame` may fail.

*Rw007Proofs*, from `Rw007Assumption`: `DriverTypeCorrect`, `SendsInOrder`,
`ConservesPools`, `GetsOwnResponse`. `SendsInOrder` needs that what was received,
what is in the transfer and what is in the mailbox follow each other (`Ordered`) and
that nothing else is missing (`Accounted`). `GetsOwnResponse` needs that the command
of the waiting thread is in exactly one place on its way to the module and back,
and no other response is anywhere (`OneUnderWay`).

Only model-checked:

- all liveness (`RoundCompletes`, `StopIsObeyed`, `BeginLeadsToReport`,
  `EveryPacketSent`) and the fairness part of `ImplementsService`: liveness under
  fairness is outside the prover's reach;
- the three violations, which are counterexamples.

## 6. Not modelled

- The neural network and its weights (generated; NNoM is not in the repository);
  JSON and CSV text; the camera's image processing: what they decide is an input.
- SD mounting and network bring-up: they run once and only decide whether later
  calls succeed, which is a free choice. `drv_pwm_get`; the initialisation of the
  timers; of rw007 the power switch, firmware and BLE functions.
- The mini program: its data are constants in `index.js`; it has one state.
- Vendored code (RT-Thread, HAL, CMSIS, cJSON) beyond the serial receive path, the
  semaphore and the WiFi driver. Over 99 % of the repository's million lines are
  register definitions, device drivers for hardware the board does not have,
  tables and file systems; the program's own logic is `main.c`,
  `model_sd_start.c`, `drv_pwm.c` and `all_endhaha.py`, which the modules cover.

## 7. Plan

1. Done: all modules of section 2, their runs, and the proofs of section 5: every
   invariant and action property of a passing run is stated by a theorem.
2. Left: a refinement from InspectionLine's one-step commands to MotorControl's
   writes (`StopsStop` and `StopNeverStarts` are its part for 's' and 'b'); how many
   further pictures it takes until a line that lost some is at rest again.
