# unilux-uart in TLA+

Specifications, model-checking runs and proofs for the AUP/WMMM protocol
library and its ESPHome component. Paths below are relative to the repository;
`cpp` is `esphome/components/unilux_uart/unilux_uart.cpp`, `h` its header.

## The system

A fan-coil thermostat talks to an ESP over a 115200 baud UART. The library
(`include/`, `src/`) decodes and encodes its frames; the ESPHome component turns
them into Home Assistant entities and back.

| part | state it keeps | operations | what makes it correct |
|---|---|---|---|
| AUP decoder (`src/aup.cpp`) | parser position, frame under assembly, 16-bit payload counter | `consume(byte)`, `reset()` | every byte sequence is cut into frames exactly as the format says; no residue of one frame in the next |
| AUP encoder | none | `encode(frame)` | inverse of the decoder |
| WMMM codec (`src/wmmm.cpp`) | none | `decode`, `encode` | a header of four bytes and a payload; rejects anything shorter |
| typed messages (`include/messages/`, `src/messages.cpp`) | none | 14 `decode`/`encode` pairs, `decode_message` dispatch | size checks, value conversions, exact inverses |
| hub `UniluxUartComponent` (`cpp` 109-304) | decoder, entity lists, sync counter, interval timer | `setup`, `loop`, `log_frame_`, `send_message`, `send_*_setting`, `sync_iteration_` | every frame reaches the right entity; the post-boot rebroadcast ends |
| climate entity (`cpp` 306-468) | setpoint, current temperature, folded mode, fan, `power_on_`, `active_mode_` | `setup`, `control`, `publish_*`, `sync_to_device` | agrees with the device in the long run; a command changes what it says and nothing else |
| number entities (`cpp` 472-491) | state, preference | `setup`, `control`, `sync_to_device` | as above; survives a reboot |
| select entities (`cpp` 493-538) | state, preference, option bytes | `setup`, `control`, `publish_byte`, `sync_to_device` | as above; index and byte stay paired |
| sensors (`cpp` `log_frame_`) | published temperature | `publish_state` | the first channel agrees with the climate entity |
| code generation (`__init__.py`) | none | `to_code`, at compile time | every entity gets the message id, limits and bytes that fit each other, whatever is disabled |

Interactions: the UART driver buffers bytes; `loop()` feeds them one by one to the
decoder and hands each frame to `log_frame_`, which decodes it and calls the
entity's `publish_*`. `publish_state()` runs the user's automations before it
returns, and these may call `control()` of any entity. Home Assistant calls
`control()`, which transmits through `send_message()`. A 5-second interval calls
`sync_iteration_()` twelve times after boot. Everything runs on one thread, handler
by handler; what makes it hard is on the other side of the UART: the device changes
its values on its own, its broadcasts are in flight while commands go out, bytes get
lost, the ESP reboots, and the entity keeps a cached copy of values it does not own.

PROJECT.json lists the hazards one by one, at the line where each bites.

## Modules

| module | models | extends / instantiates |
|---|---|---|
| `AupFrame` | frame format and `Encoder::encode` | |
| `AupFraming` | abstract contract of framing: which bytes are matched, which are handed over | `AupFrame` |
| `AupDecoder` | `Decoder::consume`, one operator per case of its switch, and `reset` | `AupFrame`; refines `AupFraming` |
| `AupDecoder_proofs` | theorems about the decoder | `AupDecoder` |
| `AupLink` | sender, faulty line, `loop()`, decoder | instantiates `AupDecoder` |
| `AupLink_proofs` | theorems about the link | `AupLink`; instantiates `AupDecoder_proofs` |
| `MCAupLink` | frames for `AupLink`, with and without markers inside | `AupLink` |
| `WmmmCodec` | `Decoder::decode` and `Encoder::encode` of WMMM | |
| `MessageCodec` | all typed messages, `decode_message`, and a client that decodes, composes and sends | `WmmmCodec` |
| `MessageCodec_proofs` | theorems about both codecs | `MessageCodec` |
| `MCMessageCodec` | input bytes and values for `MessageCodec` | `MessageCodec` |
| `ClimateEntity` | `UniluxUartClimate`, one action per handler; ESPHome's flash and reboots | |
| `ClimateEntity_proofs` | theorems about the climate entity | `ClimateEntity` |
| `ClimateSync` | entity, hub window, thermostat and the two directions between them | instantiates `ClimateEntity` |
| `ClimateSync_proofs` | theorems about the two sides and the window | `ClimateSync`; instantiates `ClimateEntity_proofs` |
| `SettingEntities` | `UniluxNumber` and `UniluxSelect`, `send_*_setting`, `publish_*_`; flash and reboots | |
| `SettingSync` | setting entities and the automations that command them, hub window, thermostat | instantiates `SettingEntities` |
| `SettingSync_proofs` | theorems about the settings of both sides, flash and the window | `SettingSync` |
| `MCSettingSync` | two numbers and two selects for `SettingSync` | `SettingSync` |
| `CodeGeneration` | the tables of `__init__.py` and what `to_code` makes of them | |
| `Mirror` | abstract contract of the component: how values may travel between Home Assistant and device | |
| `Mirror_proofs` | theorem about the contract | `Mirror` |
| `Hub` | the component with all its entities, dispatch, one window, the thermostat | `CodeGeneration`; instantiates `ClimateEntity`, `SettingEntities`; refines `Mirror` |
| `Hub_proofs` | theorems about the hub and about what the code generation makes | `Hub`; instantiates `ClimateEntity_proofs`, `SettingSync_proofs`, `Mirror_proofs` |
| `MCHub` | a configuration of `Hub` with small sets of register values | `Hub` |

Variables carry the names of the C++ members (`state_`, `frame_`, `read_`,
`power_on_`, `active_mode_`, `sync_count_`). An `optional<T>` is `<<>>` or
`<<value>>`. Definitions whose comment begins with "A fault:" are not part of any
specification: each is a plausible wrong version of the definition below it, kept
to show that the properties tell the two apart (PROJECT.json "mutants").

### AUP

`AupDecoder!Consume(byte)` is one call of `consume`; `out` is what it returns.
The initial `frame_` is arbitrary, because a `Decoder` declared without an
initialiser leaves its integer members indeterminate. `|=` in LENGTH2 is an
addition, justified by the invariant `LowByteClear`; `read_++` wraps at 16 bits.
`Base` is the number of byte values: TLC uses 3 (the two markers and one more),
which makes a two-byte length range over 0..8, so that both length bytes matter
and noise can declare long frames. `MaxLength` bounds the payload the line
declares, and only keeps TLC's state space finite.

`AupFraming` knows no parser: its state is the sequence of bytes matched so far
and its rule is "complete a frame, or keep the longest suffix that can still
become one". The refinement maps the parser's state to the front of the encoding
of `frame_`, so it says three things at once: resynchronisation loses nothing a
frame could begin in, a frame is delivered on the byte that completes it, and
re-encoding it gives the bytes received.

`AupLink` sends frames over a line with a budget of faults (drop, damage,
insert a byte) and any number of stray bytes between frames that do not complete
a marker. `CleanDelivers` and `CleanKeepsSync` hold even if frames contain markers.
`Resync` says that a decoder finds back if from some point on the frames sent hold
no markers: if the markers are inside frames, a decoder that is out of step can
follow the false ones for ever, as the header documents ("no in-frame resync").
Fairness: the sender goes on and `loop()` runs.

### Messages

`MessageCodec` describes a message type by the offset and kind of each field, as
the `decode` and `encode` functions lay them out; a kind says what the conversion
does in each direction. Padding and the reserved header bytes are dropped by
decoding and written as zeros. A message id is represented by the type's name.
`Base` is the number of byte values, so the arithmetic of the code (`<< 8`,
`int16_t`) becomes arithmetic modulo `Base` and its powers; TLC uses 4, which has
a sign bit and is cheap. `AllConfigKind` gives the kind of the field at an offset of
AllConfig; for Schedule it follows from the offset's place in its entry of four bytes.
`decode` and `encode` are made from one table per type, compared with both functions of
the code: overlaps, swapped bytes and bytes left behind are for the properties to find,
a field misplaced in one direction only is not.

The cast of a float outside its range to `uint16_t` is undefined. `build` picks,
once for a behaviour, one of the two outcomes compilers produce: keep the low
bits or saturate. That decoding and encoding a whole number of tenths is exact in
`float` (division and multiplication by 10.0f) is taken as given; it is true of
all 65536 words, signed and unsigned. Values between tenths are truncated; how
the rounding of the product itself can lift a value just below a tenth is not
modelled.

### Climate

`ClimateEntity` has one action per handler. A handler's transmissions are the
function `sent` from message type to value; order is fixed in the code (setpoint,
power, mode, fan). Temperatures are integers of `1/Fine` of a tenth of a degree:
a message carries whole tenths, so sending truncates. Only non-negative
temperatures are modelled here. `Flush` is ESPHome's delayed write to flash: a
reboot restores the last state flushed, not the last published.

`ClimateSync` adds the registers of the thermostat, its broadcasts in a FIFO
(`rx`), its panel, lost transmissions, reboots, and the window. A transmission
takes effect at once, which loses no behaviour: a delayed one can be moved
forward past the broadcasts and panel changes it overlaps with, since those are
then simply earlier and a broadcast may stay in `rx` for as long as it likes.

### Settings

`SettingEntities` has one action per handler for numbers and selects together.
It differs from the climate entity in what flash holds: the value of the last
command only, never a broadcast. `Saveable` includes an option index beyond the
options, as firmware with more options may have saved it. Entities are set up one
by one in any order: their priority is the same, and the order among equals is
ESPHome's. An entity is identified with its message id.

`publish_state()` runs automations, and `setup()` and `control()` have work left when
it returns: `setup()` transmits the state, `control()` saves its argument. `calls` is
the C++ stack of these calls; `Control` pushes, `Return` finishes the innermost one,
and between two of them nothing but another `Control` or a reboot can happen. What
this shows:

* If an automation commands the entity whose command is still publishing, entity and
  device end with the inner command, which is the last; flash ends with the outer one,
  which saves last, and a reboot brings that older value back (the `nested_command` run).
* If it commands another entity, or an entity whose `setup()` is still publishing, the
  command is saved like any other: `RebootReturnsCommand`.
* A command to an entity whose `setup()` has not run yet is transmitted, but `pref_`
  does not exist, so it is not saved, and `setup()` replaces it by the value in flash.
  No property asks for it back; entity, device and flash still end alike.

`SettingSync` composes them with window, device, broadcasts and reboots like
`ClimateSync`. Its history variables say which settings nobody has touched since the
boot (`quiet`), which wire values somebody chose for each setting (`sources`), what the
last command since `setup()` asked for, whoever gave it, now (`asked`) and as of the last
write to flash (`kept`), and which entities were ever commanded within a command to them
(`overlapped`). The device may hold a byte that no option stands for; the select then
keeps its old option, and `Converges` leaves that case out.

### Code generation

`CodeGeneration` has the two tables of `__init__.py` and what `to_code` makes of them
for a set `Disabled` of configuration keys: the numbers, selects and sensors that
exist, the message each is bound to (`msg_id`, paired with the C++ message types by
`MessageId`), its initial value and option bytes, the limits between which a number may be
commanded (ESPHome checks those and not the step).
These definitions are the constants `SettingEntities` is instantiated with in `Hub`.
`ConfigurationOK`, which `SettingSync` assumes of its small instances, is proved of
the generated program, see below.

### Mirror and Hub

`Mirror` says what the component promises without knowing its entities: of each
register the device holds a value (`held`) and Home Assistant shows one or none
(`shown`). A frame changes what is shown of its own register only, and nothing is
transmitted in return; a command changes the device in the registers of one entity;
what is shown is re-sent while the window is open (`open`) and never after. `acts`
counts what users do and `origins` keeps the values that came from outside:
commands, the panel, flash, the configuration, and damaged frames, which nothing
checks.

`Hub` is the component as a whole: `setup()` of hub and entities, `sync_iteration_()`
over numbers, selects and climate, `loop()` with every branch of `log_frame_`
(`Temperature` to both sensors and the climate entity, four messages to the climate
entity, settings to the entity bound to the message, the rest logged), for whatever
is disabled. The world around it broadcasts, damages frames into any frame of
`Noise`, loses at most one message per handler, changes registers, reboots. Init is
a factory-new program; what else flash may hold is left to the components' runs, and
what it holds after a reboot is reached by commands and `Flush`. Automations are left
to `SettingSync`, except that boot order is free here too.

The refinement maps `shown` to what each entity would transmit (`Shown`: nothing for
the climate entity before its setup, for a select without an option, for a disabled
entity), `held` to the device's registers, `flight` to the set of frames in `rx`,
`open` to `armed`, `acts` to the commands and panel changes counted in `spent`, and
`origins` to itself. A damaged value may reach the device while the window is open:
the contract allows that, since the entity shows it and the damage is its origin.

`WindowRepairsLoss` of the hub makes one exception, `Withheld`: the code does not send
the mode of an entity that is off, so the device keeps the one it had; and when a frame
switches the entity on after rounds that left the mode out, no handler sends it. The
mode is therefore promised only while the entity is on and nobody has touched the power
since the boot.

### Fairness

Each entity's `setup()` (`Boot`, `BootClimate`, `BootSetting`), the return from
`publish_state()` (`Return`), the timer and `loop()` are weakly fair (ESPHome's scheduler);
the device's broadcasts of every register are strongly fair, which the code
assumes throughout ("the device's 0x21/0x5C broadcasts then set the real values")
but cannot enforce. Commands, panel changes, losses and reboots are bounded and
not fair.

## Runs

| run | question | bounds | result |
|---|---|---|---|
| `decoder` | invariant, refinement of `AupFraming`, delivery after an accepted marker | 3 byte values, payloads up to 4 | holds |
| `link` | frames without faults arrive exactly once whatever went before; the decoder finds back after the last fault | 5 frames, two with markers inside, two ending in MAGIC1; 2 faults | holds |
| `climate` | folded mode, publication, redundancy of what is not sent, restore | all modes, 2 fan speeds, one setpoint between tenths | holds |
| `sync_target` | convergence and lasting commands for the setpoint | 2 commands, 1 panel change, 1 loss, 1 reboot, 2 broadcasts in flight, window of 2 | holds |
| `sync_modes` | the same for power and mode | 2 commands, 1 panel change, 1 loss, window of 2 | holds |
| `codec` | what the receiver reads is what the sender meant; re-encoding settles; uninterpreted bytes survive | 4 byte values; every pair of adjacent bytes on two backgrounds, sizes off by one, limits of every field | holds |
| `setting_numbers` | automations that interrupt other calls, values that cross over between settings, does the last command saved come back after a reboot, convergence | 2 numbers, 1 command, 1 automation, 1 panel change, 1 reboot, window of 2 | holds |
| `setting_selects` | lost transmissions, stale option indices, reboots, convergence | a restored and an unrestored select, 2 options each, one byte beyond them, 1 command, 1 panel change, 1 loss, 1 reboot, window of 2 | holds |
| `hub` | does the whole hub implement `Mirror`; do channels agree, does the window repair losses, do the registers that are announced converge | climate, a number, a select, one sensor enabled and one disabled; 1 command; 1 trouble: panel, loss, damage or reboot; 1 frame in flight, window of 2; setpoint and display unit are announced | holds |
| `all_config_inverse` | does AllConfig re-encode to the bytes it came from? | as `codec` | violated |
| `nested_command` | does the last command come back after a reboot, also if it was given within a command to the same entity? | 1 number, 1 command, 1 automation, 1 reboot | violated |
| `mode_not_remembered` | does the device ever run in a mode nobody chose? | 1 broadcast in flight | violated |

Why the bounds are enough: the decoder's control depends on a byte only through
its being one of the markers and through the length, so a third byte value stands
for all others, and payloads of 0, 1 and more bytes take different paths. Two
broadcasts in flight are what it takes for entity and device to swap values for
as long as the window is open (the reason `Converges` needs the window to close);
a window of two rounds has a first, a middle and a last state. The setpoint is
independent of power and mode in every handler, so the two are run apart. Numbers
and selects share the window, the stack of calls and nothing else; the two runs
split the troubles between them: a loss does not depend on an automation, since what
an automation transmits is transmitted again by the next round. `hub` has less of
everything and all entities at once: what it adds is routing and sharing, for which
one entity of each kind and one frame in flight are enough. A field of a message
depends on its own bytes only, so pairs of adjacent bytes show every field with
its limits and every border between two fields.

The three violations are real disagreements of code and comments:

* `nested_command`: the outer `control()` saves its argument after `publish_state()`
  returned, over the newer one that an automation's command had saved meanwhile. The
  comment that promises the last value stands at the climate entity.
* `all_config_inverse`: `read_unit` stops at a NUL and `write_unit` pads with NULs,
  so bytes behind a NUL are lost; the header calls `encode` "an exact inverse".
* `mode_not_remembered`: OFF is restored without the mode behind it, so
  `active_mode_` is HEAT. When the device reports power on, a round of the window
  sends Mode(Heat) to a device that was in COOL.

## Proofs

`AupDecoder_proofs` holds for every alphabet, every pair of distinct markers and
every `MaxLength`, under `BaseAssumption` (at least two byte values) and
`MagicAssumption` (the markers are distinct bytes). It proves

* `IInvariance`: `Spec => []IInv`. `IInv` is inductive as stated:
  `PayloadInProgress` (the counter equals the size of the payload vector and is
  below the length) makes a delivered frame well-formed and shows that the 16-bit
  counter cannot wrap; it needs `NothingStale` (payload and counter are empty
  when PAYLOAD is entered), and the length stays 16 bits wide by `LowByteClear`.
* `Reaction`: every byte consumed in a reachable state is exactly the framing
  contract's reaction to it (`ConsumeFeeds`).
* `Refinement`: the decoder implements `AupFraming` (`ImplementsFraming`).

The argument for the last two: the bytes matched so far are a prefix of the
encoding of `frame_` (`EncodeShape` gives that encoding byte by byte, `OneMore`
extends a prefix by one). `FirstViableIs` and `SpanViable` characterise which
suffixes of the matched bytes can still become a frame. A byte the parser accepts
extends the match (`ProgressFeeds`) or completes the frame (`CompletionFeeds`); one
it rejects, which happens only while hunting for the markers, leaves the longest
viable suffix, which is a single MAGIC1 or nothing (`HuntFirst`, `HuntSecond`).
`ConsumeIsFeed` puts the cases together under `IInv`.

`MessageCodec_proofs` proves every property of the `codec` run for every even `Base`,
every `Fine`, and whatever arrives or is composed: `ReceivedAssumption` says that what
arrives is nothing or an identifier and bytes, `ComposedAssumption` that a composed
message has a value of the right C++ type in each member, in range or not. From below:

* Frames: `DecodeInvertsEncode` and `EncodeInvertsDecode` say that the two directions of
  the WMMM codec are inverse to each other, for every set of bytes and every length,
  without assumptions.
* Conversions: `Be16` and `Be32` (big-endian numbers to and fro), `Tenths`, `Signs`,
  `UnitStrings` and `LongestPrefix` (strings in a slot).
* Fields: for every kind, decoding gives a value in range (`FieldDecoded`), encoding
  fills the field (`FieldEncoded`), and encoding and decoding in turn deliver the value
  (`FieldEcho`), settle (`FieldSettles`) or give back the bytes (`FieldVerbatim`). The
  delicate case of `FieldSettles` is a temperature below zero where the cast saturates:
  it was cut to zero by the first serialisation, and zero stays.
* Layouts: the fields of each of the fourteen types lie in the payload one after the
  other (`Layouts`), so a byte has at most one owner (`Owners`), and what encoding puts
  in a slot is what decoding finds there (`FilledSlots`).
* Messages: `MessageEcho`, `MessageSettles` and `MessageVerbatim` lift the lemmas on
  fields, `Echoed` and `Parsed` lead through the frame.

`IInvariance` is the invariant of the client: with the types, a message that was decoded
is in range (`InRange`; not one that was composed), a message held after it arrived is
what its bytes decode to, and one sent before is serialised to the same bytes again.
`EchoesExactly` (`EchoExact`), `MessagesSettle` (`Settles`) and `BytesCarriedVerbatim`
(`CarriedVerbatim`) follow from it.

`AupLink_proofs` puts a sender and a faulty line in front of that decoder, for every
alphabet, set of well-formed frames and number of faults (`AlphabetAssumption`,
`MaxFaultsAssumption`; every length fits: `MaxLength` is the largest the two length
bytes can say). The run checks its `IInv`, which adds `InStep` to the decoder's
invariant: while the frame under way met the decoder in step and no fault touched it,
the bytes matched and the bytes still on the line are together its encoding. A byte
of such a frame is the next one of the encoding, so the decoder extends the match or
completes the frame, and never hunts (`FrameProgress` in `AupDecoder_proofs`); what it
completes re-encodes to the same bytes, and encodings of different frames differ
(`EncodeInjective`). Hence `IInvariance`, `Delivery` (`CleanDelivers`) and `KeepsSync`
(`CleanKeepsSync`).

`ClimateEntity_proofs` proves every property of the `climate` run, for all sets of
setpoints, readings, modes and fan speeds and every resolution `Fine`, under the
three assumptions of the module (temperatures are naturals and NaN is none, modes
and fan speeds are among those the entity knows):

* `Invariance`: `IInv` is inductive; `SetupStep`, `ControlStep`, `ReflectStep` and
  `OtherSteps` go through the handlers. `ReflectStep` allows any value of the
  message's kind (`Value`), not only those of `Readings`: with a device at the other
  end a setpoint comes back as the device rounds it. `Controllable` is what the rest needs most: a known
  setpoint and fan speed are why a rebroadcast never leaves out a register.
* `CommandsCover`: of a command's four messages each is either sent with the
  register the command leads to (`ControlSends`) or changes nothing (`ControlKeeps`).
* `SyncsCover`, `RestoresExactly`: a rebroadcast carries all registers but the mode
  of an entity that is off (`SyncSends`), so any two devices look the same after it
  (`SyncCoversState`, `LookTheSame`).
* `EchoesSettle`: only registers of the present state are ever sent (`OwnRegisters`,
  inductive beside `IInv`), and the tables (`TablesInverse`) and the rounding
  (`TenthsStable`) give them back.

`ClimateSync_proofs` adds device, line, window, losses and reboots, for all bounds.
Handlers are not proved again: `Proofs` instantiates `ClimateEntity_proofs`, and the
lemmas `Same...` say that its definitions are those of `Entity`. The assumptions are
those of the entity and naturals as bounds.

* `IInvariance`: `IInv` is the entity's invariant, the types, and `Repairing`, a
  counting argument: the timer runs exactly until the last round, and while nobody
  touches the values entity and device look the same or more transmissions had losses
  than there were rounds. `RoundCovers` (a transmission without loss repairs
  everything that can be seen) and `RoundKeeps` (one with losses breaks nothing) are the
  two cases of a round.
* `WindowRepairs`: `WindowRepairsLoss`, if `MaxLosses <= SYNC_REPEAT_COUNT`. Without a
  hypothesis of this kind it is false: a line that loses the boot transmission and every
  round leaves the device as it was. In the code there are twelve rounds and the boot.

`SettingSync_proofs` does the same for numbers and selects with automations nested to
any depth, for every configuration that meets `ConfigurationOK`. `IInv` has four parts:

* the types. The messages on the stack of calls are arguments of the right kind,
  flash may hold indices beyond the options, `state` may not;
* `Sourced`: whatever waits at the device, in an entity, on the stack, in the queue, in
  flash or on the line was chosen for that setting. `NothingInvented` is one conjunct of
  it and not inductive alone (`NothingInventedHolds`);
* `Repairing`, as above, entity by entity: no round happens before all are set up, and
  each round that leaves an untouched setting different has cost a loss. This gives
  `WindowRepairs`, if `MaxLosses < SYNC_REPEAT_COUNT`;
* `Remembered`: where no command overlapped another one to the same entity, what was
  asked for last is in flash, queued for it, or the argument of the one command to that
  entity that is being carried out. A second such command makes the entity `overlapped`
  for good. With `WindowRepairs` this gives `RebootReturns` (`RebootReturnsCommand`);
  without the exception it is false, as the `nested_command` run shows.

`Mirror_proofs` proves `NothingEverStrays` for all registers, values and groupings, without
assumptions: whatever is shown, held or on its way of a register came from outside
for that register. The inductive invariant is `NothingStrays` with the shape of the
state (`Shape`: functions on the registers, frames that name one); `TakeOverSourced` is the step that matters: what reaches the device was
shown before.

`Hub_proofs` holds for every set of disabled keys, every device and every bound, under the
assumptions that `Hub` states: the entity's (as above), a window of at least one round,
commands in the range the code generation gives a number (`ValuesAssumption`), naturals
as bounds, and a world of frames that carry what `decode` makes of their type
(`WorldAssumption`; damage may produce any of those, also at the wrong register).

* `GeneratedOK`: the tables of `__init__.py` give entities that meet `ConfigurationOK`:
  messages are of the right kind, no byte stands for two options, restored selects start
  with an option they have. The lemmas go through the tables row by row and show that
  `MessageOf` inverts `MessageId`.
* `IInvariance`. `IInv` is the climate entity's invariant, the types, and
  - `Booted`: what an entity is before its `setup()`, and that `setup()` of a setting
    returns within the boot; without it a setup could show what nobody chose;
  - `ChannelsAgree`, which needs `Booted`: a frame before the climate entity's `setup()`
    would reach only the sensor, and `loop()` runs only after all are set up;
  - `Sourced`: the mirror's `NothingStrays`, and the same of what flash, the queue of
    saves and a suspended `setup()` or `control()` will bring back later;
  - `Repairing`: one counting argument for all entities, as in `ClimateSync` and
    `SettingSync`: every round that leaves an untouched register different cost a loss.
* `ChannelsAlwaysAgree` and `WindowRepairs`, which supposes `MaxTroubles <
  SYNC_REPEAT_COUNT`, so that some round is not disturbed (the code has twelve).
* `ImplementsMirror`: the refinement `IsMirror`, and `NothingStraysInHub`: what
  `Mirror_proofs` says of the contract holds of the hub.

The argument: what a handler does to its entity comes from the lemmas of
`ClimateEntity_proofs` and `SettingSync_proofs`, instantiated with the hub's variables
(`ClimateStep`, `SettingStep` and the lemmas after them; the lemmas `Same...` say that two
instances of one module define the same). `Transmission` says what the device makes of
what is sent, `DispatchEffect` what a frame changes. Then each action has a lemma
(`BootClimateStep` to `RebootStep`): it is a step of the mirror or none, and maintains
`Rest`, the part of `IInv` that is neither the entities' nor the mirror's. The mirror's
part follows from its own inductive invariant (`Inductive` in `Mirror_proofs`), so it is
proved once and for the abstract specification.

Every invariant and every action property of the passing runs is proved. Only
model-checked: liveness, that is `Resync`, `AcceptedMarkerDelivers`, `Converges` and
`CommandSticks` (fairness and ENABLED are out of the prover's reach).

## Plan

Done: framing with its refinement proved, also behind the faulty line; the codecs; the
climate entity and the settings with automations, each with the device at the other end;
the code generation; the hub as a whole, with the refinement of its contract. Left:

1. A theorem that puts the layers together: a message serialised, framed and sent over
   `AupLink` without a fault is the message `decode_message` returns at the other end.

## Not modelled

Logging and `to_string`; `dump_config`; the schemas of `__init__.py` (names, icons,
units, defaults, validation messages); automations of the climate entity, whose
`publish_state()` is the last thing its handlers do, so that a nested command runs
as if it came right after (what it saves is the entity's state, not an argument);
automations of the sensors; the UART driver beyond losing, damaging and adding
bytes; ESPHome itself (`vendor/esphome` is a submodule), of which only the calls the
component makes are modelled, as external actions; the `filters:` a user may put on a
sensor, which come between the value published and the one shown, so that
`ChannelsAgree` speaks of sensors without them; the tests, whose stubs replace it.

Met on the way, and left to the reader, since no comment of the code settles which
side should win:

* A broadcast of the device's old setpoint that is in flight while the boot transmission
  goes out replaces the setpoint that came from flash; the window then re-sends the old
  one. The two sides agree (`Converges`), on the value that the user had replaced.
* `control()` leaves `Power` out if `power_on_` is true. Between a power-off at the panel
  and its broadcast it is true while the device is off: a command to heat does not switch
  it on, and the broadcast undoes what is left of the command. This is why `CommandCovers`
  and `CommandSticks` suppose that both sides agreed before the command.
* The comment at `h` 88 calls `sync_count_` the "remaining" iterations, whereas it counts
  those done; nothing depends on it.
