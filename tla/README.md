# Formal models of the KeSp firmware

TLA+ modules of the split keyboard firmware under `main/`: what is modelled of
each part, what TLC checks of it on small instances, and what TLAPS proves of
it for every value of the constants. Names follow the source, which mixes
French and English; paths below are relative to `main/` unless they start with
a capital or with `components/`.

## 1. The system

A Niphargus keyboard has two halves, each an ESP32-S3 with an nRF24 radio, and
a dongle on the user's computer with two radios. Without a cable, both halves
send their raw half-matrix to the dongle, which merges them, runs the keymap
engine and types over USB. When the left half is on a USB cable it types for
itself: it listens to the right half, which the dongle re-emits to it, and
announces its mode so that the dongle keeps silent. When no dongle answers, the
right half falls back on the left one. Around this core: sleep and wake, a
keymap that the left half pulls from the dongle, pairing, a 5 V handshake on
the TRRS cable, a configuration protocol over CDC, an OpenPGP card and a chest
co-processor over SPI.

### Inventory

| Component | State | Operations | Talks to |
|---|---|---|---|
| Dongle keymap engine (`comm/rf/dongle_engine.c`, `fusion_file.h`, `half_link.h`) | two half-matrices with ages, ring of fused states, mute flag, engine globals | store a frame, replay, time out, mute, resume | rx task (shared state under `s_mux`, notification), HID path (calls) |
| Dongle reception (`comm/rf/rf_rx_task.c`, `rf_slot.h`, `fusion_route.h`) | link of each slot, left mode, last re-emission | drain, route, re-emit, lose a link, re-arm, pair | both halves (radio), engine, HID path |
| HID path (`input/hid_report.c`, `hid_dedup.h`, `comm/hid_transport.c`) | queue of 32 messages, deduplication, transport mutex | enqueue, look ahead, send, resume a suspended host | engine or keyboard task (calls), TinyUSB / BLE |
| Radio owner (`comm/rf/radio_owner.c`) | lock, mode, target, sleep flags | emit, repeat if still valid, set mode, drain, excursion, pairing round, lend the bus, sleep | scan callback, relay timer, refresh task, pairing, display, sleep task |
| Right half (`comm/rf/half_link.c/.h`) | half-matrix and generation, repairs left, target and count of refusals | emit on change, repair, reaffirm, fall back | radio owner, scan, dongle or left half |
| Left half relay (`comm/rf/kbd_relay_tx.c`) | half-matrix and generation, repeats left, remote half-matrix, timer period | emit, repeat, reaffirm, announce, listen, supervise | radio owner, scan, engine, dongle |
| Keymap sync (`comm/rf/keymap_pull.c`, `keymap_sync.h`) | chunks received, target fingerprint, pull in progress | beacon, request, chunk, save | ACK payloads of the radio, sleep vetoes, NVS |
| Matrix scan (`input/matrix_scan.c`, `components/keyboard_button`) | debounce of each key, half-matrix last reported, veto, activity clock | scan, debounce, power save, create and delete the driver, capture, reconcile | engine or radio (callback), sleep task |
| Sleep (`power/veille*.c`, `cadence.h`) | vetoes, hooks, stage | veto, decide, run the hooks, sleep lightly or deeply, wake | every module with a hook |
| Key engine (`input/key_processor.c`, `tap_hold.c`, `combo.c`, `key_features.c`, `keyboard_task.c`) | layers, slots of tap-holds, one-shots, combos, code of each held key, taps due | build a report, decide on time, activate and release holds, send, clear taps | scan (shared matrix and a flag), HID path |
| USB presence (`comm/usb/usb_presence.*`) | debounce of the cable, route | poll, choose the route | relay, scan callback, sleep |
| TRRS link (`comm/link/link_handshake.h`, `link_uart.c`) | handshake state and its dates, 5 V switch, parking of the UART | probe, acknowledge, keep alive, open on silence, park, resume | the other half (UART), USB presence, sleep task |
| Chest link (`comm/chest/`) | gate of owner's keys, request in flight, page and cursor of accounts, confirm and cancel in flight | poll a block, send a request, confirm, cancel, read a segment, navigate | keyboard task (gate), radio's SPI bus, display, the chest |
| Security key (`security/openpgp_card.c`, `ccid.c`, `sec_confirm.c`) | session, PINs and tries, keys, data objects, touch, pipe | verify, change, import, sign, wipe, wait for a touch, answer | host (CCID), keyboard task (touch), NVS |
| Pairing (`comm/rf/rf_pairing.c`) | set id and slots in NVS | request, resolve a slot, save | both ends of the radio |
| CDC, OTA, display, LEDs, mouse, storage | parsers, transfers, frames | — | user interface of the rest |

Hard behaviours: tasks of different priorities around a few very short critical
sections; radio frames lost, repeated, or acknowledged by a chip whose software
never sees them; state read before a lock and used under it; the mode of one
half known by the dongle with a delay; queues of bounded length whose overflow
must not lose the last word; release of keys on three kinds of silence; a scan
driver destroyed and recreated under the keys that are held; key decisions taken
by the clock, by other keys or by a release; a co-processor and a host that
reset under a request; counters that must survive being unplugged at any time.

What makes each component correct:
- engine: the host ends on the state of the halves, every transition is replayed
  in order, a silent half holds nothing;
- HID path: what is remembered as sent was sent, in order, the last one for sure;
- radio owner: the chip is always where its owner believes, no older state goes
  on air after a newer one (one named case of the left half apart), no
  acknowledged frame is thrown away, the lock returns;
- halves: a change reaches its listener in spite of losses, a hold survives them,
  a release is never undone by a repeat, one listener at a time;
- relay: one engine types, a key of either half is typed by it and left behind
  by none, whatever the cable does;
- keymap sync: a keymap is saved whole, and both sides end up with the same;
- scan and sleep: what was announced is what was seen, a wake releases nothing
  that is held, a held key ends up announced, a half at rest sleeps;
- key engine: no edge is lost, every tap-hold is decided and ends with its key, a
  key held keeps its code;
- TRRS link: 5 V only in front of a live peer, and in the end when there is one;
- chest: the code shown is that of the account under the cursor, a code asked
  before the cursor moved never appears, nothing is
  authorised that was not confirmed on the screen, no request is endless;
- security key: a use needs its PIN and a touch of its own, tries and signatures
  are counted before they are told, every command is answered.

## 2. Modules

| Module | Models | Kind |
|---|---|---|
| `FusionFile` | `fusion_file.h` as operators from ring to ring | operators |
| `TransitionReplay` | what the engine promises: the replay of every transition | abstract specification |
| `DongleEngine` | rx task and engine task around the ring | state machine |
| `HidPath` | producer, queue, sender task, endpoint | state machine |
| `RadioOwner` | the lock of a half's radio, its five users, the chip | state machine |
| `HalfLink` | the right half's emission over a lossy link, its two listeners | state machine |
| `KbdRelay` | left half, right half and dongle: which engine types what | composition |
| `KeymapSync` | the left half's pull of the dongle's keymap, over acknowledgements | state machine |
| `TrrsLink` | two handshakes, the cable between them, the UART given up while asleep | composition |
| `Veille` | scan driver, callback, sleep task, capture and reconciliation | state machine |
| `KeyEngine` | the keyboard task and the scan that preempts it | state machine |
| `ChestLink` | keyboard task, link task and chest | composition |
| `SecurityKey` | card, touch, CCID pipe and host | composition |
| `*_proofs` (`DongleEngine` with `FusionFile`, `RadioOwner`, `HalfLink`, `TrrsLink`, `Veille`, `SecurityKey`) | theorems | proofs |
| `Typing_proofs` | theorems of `HidPath` and `KeyEngine`, what turns keys into reports | proofs |
| `Pulls_proofs` | theorems of `ChestLink` and `KeymapSync`, whose names do not clash | proofs |
| `MC*` | instances for TLC | |

Each module has, in its comments, operators named after their mistake
("Mistaken: ..."). They are plausible bugs of the definition that follows them:
putting one in its place must break the property it is written for.

Types. Where a module was proved first, its `TypeOK` is a theorem and is not
repeated by its run; elsewhere it is a conjunct of a property: `PulledIsTarget`,
`CountersSurvive` and `EdgeNotLost`, which are theorems too, `OneEngineSettles`.
`ChestLink` has no `TypeOK`: the shapes of its records that matter are proved in
`Pulls_proofs`.

### DongleEngine

One variable per static of `dongle_engine.c`: `bm`/`vivant`/`age` are `s_fusion`
(the reception date is an age in ticks), `file` is `s_file`, `leftUsb` is
`s_left_usb`, `pc` is the place of the engine task in its loop, `etat` the state
it popped. `lien` is the keyboard slot of `rf_rx_task.c`. Two ways lead to the
host: a cycle hands its report to `send_hid_key`, which queues it (`rapport` is the
last state that went this way), and the two releases, of the mute and of a lost
link, call `hid_send_keyboard` past the queue (`relache`: one was ordered since the
last cycle). What the host then sees is `HidPath`'s subject; nothing here claims an
order between the two ways. A critical section under `s_mux` is one
action, and so is each read or write between two of them, so every interleaving
of the two tasks is explored. A keymap is not modelled: a fused state stands for
the report it gives; what is handed over is compared with what the halves are.

`Replay` instantiates `TransitionReplay` with the popped state and the ring's
content as the sequence of pending states: the engine implements it, i.e. no
state is skipped or reordered except the counted overwriting of a full ring and
the explicit drop while mute.

Time: a tick is one period long against an engine round and short against the
400 ms and 2.5 s delays. `Tick` waits for the engine when it is due: between two
ticks the engine has read the mode and, if it types, taken the silences past the
timeout. A cycle may last (a tap, a macro) but is taken shorter than what
separates a half's timeout from the loss of the link (2.1 s): a macro made of
longer delays is outside of the model.

Fairness: the rx task finishes the frame it handles (`WF OnMatrix`), the engine
task, at priority 9, keeps running (`WF Moteur`). No frame is ever owed.

### HidPath

`send_hid_key` is three steps (look-ahead, put-back, enqueue) and so is the
sender's round, because both take a message out of the queue to look at it and
put it back. Which task may run is part of the model: both are pinned to core 0,
the dongle engine runs above the sender, the keyboard task below it (`carte`
chooses the board). A full queue blocks the producer, a suspended host blocks
the sender. The endpoint accepts a report or not, freely. Messages carry the
number of their production, for the properties only. `Taire` is the direct release
of a dongle that falls silent: it reaches the endpoint without the queue, and what
was queued before may follow it.

### RadioOwner

`radio_owner.c` with its users: scan callback, relay timer or refresh task,
pairing task, sleep task (its hooks, and the reconciliation of a wake), and
`RendreBus` for whoever borrows the bus. A call is
three steps, since the code reads `s_mode`, waits for the lock, then works; an
excursion and a pairing round are several more, because frames arrive meanwhile.
A half-matrix is the generation of the state it carries, which is what
`gen_valide` and `etat_valide` compare. Two tasks change it: the scan callback
(`Changer`), and after a wake the sleep task (`Concilier`), which publishes the
release of what it captured once the scan driver runs again. On the right half
(`moitie`) each checks under the lock that its change is still the last one; on the
left `kbd_relay_send_matrix` passes no check (`kbd_relay_tx.c:735`), and a change
overtaken by the other task's goes on air after it: `depassees` names these changes,
the only exception of `OnAirInOrder`. The chip is the record of its registers.
The calls are those of both halves: the left one switches between sending to the
dongle and listening to the link, the right one between two listeners.

Fairness: a client that called goes on (`WF` per client); a lock is waited for
with a delay, so a call either gets it or gives up. The sleep task owes nothing.

### HalfLink

`half_link.c` and the pure rules of `half_link.h`: the scan task publishes a
change and sends it, the refresh task repeats it, reaffirms what is held and
sends the gauge; both count unacknowledged sends, and `half_tx_target_step`
switches between the dongle and the left half on USB. A send is three steps:
the decision with the building of the frame (the format is that of the target of
the moment; nothing of the other task can come between the two that would not
give the same frame before them), the radio's section (stale or sent), the count;
a switch of target is a fourth. `puce` is where the chip really points, so that
a frame of one format can reach the chip of the other listener and be
acknowledged by it. A listener is what `half_state_t` keeps: what it holds and
for how long it has heard nothing. Here the scan task is the only one that publishes
a change. The reconciliation of a wake, which the sleep task runs once the scan
driver is back, publishes through the same function: `RadioOwner` has both
publishers, and shows that on the right half the section's check drops what the
other one made stale.

A generation is only compared for equality with the current one: the frame
carries the result (`frais`), and no counter needs a bound. `manques` is history.
A tick is a round of the held cadence; a send (13 ms at most) is shorter, so
`Tick` waits for the tasks. Scheduling delays longer than a round are outside of
the model. While one task applies a switch the other cannot reach the next one:
that takes eight sends, the switch waits 50 ms at most. `VerrouTenu` says whether
the switch may find the lock taken for these 50 ms.

Fairness: the two tasks finish their sends, the refresh task ends its rounds, the
listeners look at the time, time passes. No loss is fair or unfair: liveness is
claimed from the moment the link loses nothing (`bonne`).

### KbdRelay

The three places that decide who types: the debounced route of the left half
(`usb_presence`, `db`), its radio (`mode`) and what the dongle believes
(`leftUsb`). `presse` and `distant` are what the left half's engine holds, `bm`
what the dongle's does; `GaucheTape` and `DongleTape` are what each host is told.
The scan callback is two steps, since the route it reads may change before it
sends; a round of the relay's timer is one, given the set of deadlines it finds
elapsed (`e`), so that every order of the deadlines is explored without a clock.
A repeat made stale while it waits for the radio is `RadioOwner`'s subject, the
pull `KeymapSync`'s; the repeats of the right half are `HalfLink`'s, here its
frames are received or not. `bonne` says that the link loses nothing any more.

Fairness: the callback finishes its send; the timer's rounds go on and end up
doing what they do in their own half, with what they send heard for sure only
when `bonne`; a right half that holds a key is heard over and over then; a
silence is noticed.

### KeymapSync

The dongle's answer (`rf_rx_task.c`, `dongle_engine.c`), its chip's queue of
acknowledgement payloads, and the left half's pull (`keymap_pull.c`,
`keymap_sync.h`) with the two tasks that feed it: the scan task, which sends a
change, and the relay's timer, which reaffirms, asks for chunks, announces and
saves. A fingerprint stands for the keymap it is computed from. A chunk carries
its index and its data, as in the code, and no fingerprint.

`keymap_pull_on_ack` runs after the radio's lock is given back. Both tasks run
on core 0 and the timer's (priority 22) preempts the scan's: in the scan's hands
the handling of an acknowledgement is three steps, in the timer's it is one, and
the timer passes the scan once at most, its tick being 10 ms and the handling
shorter. The write to NVS yields: the scan runs between `Copier` and `Sauver`.
What the chip loads after one frame leaves with the acknowledgement of the next
one, so the right half's frames take payloads away (`Droite`), and a request
gets its chunk from the request after it. A frame or an acknowledgement may be
lost at any time; so may the payloads that an excursion of the dongle flushes.

`editions` and `reboots` are bounds; `debut` and `course` are history, for
`PulledIsTarget`: the edition of the beacon that began the pull, and whether the
timer handled an acknowledgement while the scan held an older one. Both of its
conditions are needed: TLC finds a keymap half old and half new without the first
(the chunks carry no fingerprint), and a chunk of the previous keymap without the
second. Neither mix lasts: its fingerprint is announced, the dongle sees a
divergence and the half pulls again, which is `EventuallySame`.

Fairness: the dongle handles what it received, the scan finishes what it holds,
the timer copies, saves, and sends its request or its status. Nothing is said of
losses: `EventuallySame` speaks of the time after which nothing is lost, typed,
edited or restarted (`bonne`).

### TrrsLink

`hs` is `link_hs_t` of each half, its dates as ages; a round of `link_task` is
one action that feeds `link_hs_step` with what it received and with the tick. A
tick is 100 ms; the frames on their way to a half are a set. Beside the
handshake, the UART that sleep takes away: `link_sleep` asks the task to park,
waits for it a bounded time, sleeps anyway; the sentinel, the notification and
the resumption cross in any order. A half may be cut from its source, from the
cable, restarted or put to sleep at any time.

Fairness: tasks and ticks run; a sentinel that goes on being there is taken.

### Veille

A matrix is the set of keys down (`touches`). The driver's scan counts its
debounce per key (symmetric, or eager on a press), stops its timer when nothing
is down and is woken by the ISR; `prev` is what `matrix_scan.c` remembers,
`annonce` what it last published to the radio. The sleep task reads its vetoes
once (`phase` "lus"), runs the hooks, deletes the driver, sleeps lightly or
deeply, and on a wake captures what is down, recreates the driver (deaf until it
has its callback), waits, and reconciles. `tenues`, `arrache` and `croise` are
history: the captured keys held ever since, a driver deleted while it reported a
key, a report between the two reads of the reconciliation. The last two are real
windows of the code, which the properties set apart and `veille_stuck` exhibits.

Fairness: the scan, its ISR, the task's steps and time go on, and a key that is
down wakes the half (its row is a wake source).

### KeyEngine

`tenues` is `current_press`, changed by the scan (or by the other half's frames)
anywhere in the task's loop, with the flag `change`; `pc` is where
`vTaskKeyboard` stands; `e` is the engine, one operator per function of
`key_processor.c`, `tap_hold.c`, `combo.c` and `key_features.c`, in their order;
`hote` is the last report handed over. A key is a number, in the order of
`current_press`: a scan of the six slots is an iteration over these numbers
(`Pour`). Keycodes are actions by range (layer-tap, mod-tap, one-shot modifier or
layer, momentary layer with or without modifiers, toggle, lock, code), records of
one shape; `keymaps`, loaded at boot, is any of `Keymaps`.
Combos hold a key back for one tick, as long as there is room for it
(`MaxDeferred`, `MAX_DEFERRED` in the code; without room nothing holds it), and a
tap-hold is decided by the clock, by another key or by its release.

Left out: tap-dance, leader, macros, caps word, repeat, grave-escape, overrides,
tri-layer, and the six slots of a report. A build is one step: the callback
comes before or after it.

Fairness: the task runs for ever and a tick that is due again and again comes.

### ChestLink

Three actors: the keyboard task, which stamps each owner's key with what the
screen shows (`chest_gate`, `porte`); `chest_task`, whose round takes the keys,
reads the chest's block, plans (`chest_round`), sends, confirms or cancels
(`chest_arbitrate`), then reads the segment announced (`lien`, `r`, `o`, `d`);
and the chest (`c`), modelled from how the link uses it: it arms prompts, for its
host or for a code, executes, expires, reboots. A prompt is named by its
operation and its instance (`CHEST_TAG`). Any transaction may find the bus
busy; a request may be cut before its doorbell. The owner acts only where the
round waits, the chest only where the round waits or reads: elsewhere their
steps commute with the round's. `vu` is history: whether the prompt armed was
confirmed on the screen, whether a move of the cursor followed the request of a
code, how many lists were asked since the last event.

The boot of the chest lasts longer than a poll, so that a round sees it absent.
`reste` bounds keys and events. Fairness (written with the guards, a whole round
being costly to find enabled): the task polls, the bus is not always busy, a
prompt on the chest ends, time passes.

### SecurityKey

`carte` is the statics of `openpgp_card.c` and the data objects that decide
something: the touch asked per key (D6 to D8), the validity of PW1 (C4), the
signature counter (93). The counter is changed by a signature, by a new key of
signatures, by a wipe, and by the administrator, whose generic PUT DATA of 93
puts any value there (`MettreCompteur`). `nvs` is what is written of it, blob by
blob. The worker (`w`) runs a command in steps: the applet, the wait for a
touch, the use of the key, each write (it may fail, the dongle may be unplugged
before it), the answer. `conf` is `sec_confirm` and the keyboard task between
its read and its write; `usb` the statics of `ccid.c`, its IN endpoint and the
deferred calls of TinyUSB; `hote` whether the host waits. A command is what the
applet does with it; its number is the commands left. History (`vu`): wrong PINs
answered since the last right one, the base last given to the counter plus the
signatures handed out since, less the `Tour` of the counter when it wraps
(`signees`; its three bytes hold 2^24 values), PINs shown in this session,
whether a touch came since the operation waits.

A command dispatched while an older one, cut by a bus reset, is unfinished
(`chevauche`) is set apart by `EventuallyAnswered`, as is an answer given up
after all its retries (`lache`): see the deviations below. The dongle is taken to
have loaded its NVS before it is enumerated.

Fairness: worker and USB task run, a key press ends, the host reads what it waits
for. The owner owes no touch.

## 3. Runs

| Run | Checks | Bounds |
|---|---|---|
| `dongle_engine` | convergence, replay, release on silence, eventual agreement | one key per half, ring of 2, counter modulo 2, timeout 1 tick, link lost after 3 (242 000 states) |
| `radio_owner` | chip follows its owner, order on air, drain before leaving, lock given back | 2 changes, either half, FIFO of 1 (720 000 states) |
| `half_link` | holds survive two losses, no resurrection, heals, silent at rest | one key, silence of 4 reaffirmations, 2 repeats, fallback after 2 sends, lock always free |
| `keymap_sync` | what is pulled is the announced keymap, same keymap in the end | 2 chunks of one bit, queues of 2, 2 edits, 1 reboot |
| `typing` | one engine types once modes settle, no key left behind, the right half's hold is typed; what is committed was presented, in order, eventually | `KbdRelay`: one key per half, 1 repeat, every order of deadlines; `HidPath`: 2 reports, queue of 2, 6 productions (127 000 states) |
| `trrs_link` | a closed switch was verified, 5 V comes back, an awake half listens | ticks of 100 ms: probe 2, peer 5, reprobe 3, keepalive 2; the left may have a host, the right sleeps |
| `veille` | a change seen is said, waking releases nothing, a held key is announced, quiet leads to sleep | two keys, 2 ticks, debounce at its soonest or later |
| `key_engine` | no edge lost, no hold outlives its key, a held key keeps its code, holds resolve | 3 local keys and 1 remote, four keymaps, two combos, 2 slots, 2 deferred keys, timeout of 2 ticks (314 000 states) |
| `chest_link` | the code shown is the cursor's, a late one is refused, a confirm was pressed, a request ends and lists are bounded | two accounts in either order or one alone, page of 1, 1 retry; 3 keys, or 1 key and 1 event, or 2 events |
| `security_key` | counters survive unplugging, a key is used with its PIN and touch, a command is answered | two keys, 2 tries, touch awaited 2 periods, 2 retries, a counter of 3 values; 2 commands with one failed write and one unplug, 2 with a bus reset, 3 alone, 4 of select, verify and use with one unplug (279 000 states) |
| `veille_stuck` | violated: no key left stuck | one key, 2 ticks, eager press |
| `layer_mod` | violated: a released layer-mod leaves no modifier | that of `key_engine` |

Why the bounds are enough. A ring of two already wraps, fills, overwrites and
merges with the head in every position; proofs cover every other capacity. One
key per half gives the four fused states that deduplication and releases need. A
timeout of one tick and a link of three keep the order of the delays (round <
timeout < link). Two messages are enough to fill the HID queue while one is out
at each end, and six productions to go around it three times. Two changes of
the half-matrix let a repeat or a change be overtaken; in a FIFO of one, a frame
received before the drain and one received during the excursion are told apart by
their mark. For the right half, 100
and 400 ms keep their proportion; the fallback after two sends instead of eight
makes the switches more frequent than in the code, and two repeats instead of
three make losses more harmful. For the pull, two chunks are the first of a
keymap and its last; two edits let an edit be undone, and a pull start over; a
queue of two payloads is full when one frame too many is answered.

`typing` runs `KbdRelay` and `HidPath` side by side: they share no variable, and
a behaviour is one of either. Its deadlines fire in any order, which covers
every ratio of the periods; one key per half tells who types what. The ticks of
`trrs_link` keep the ratios of the four delays of the handshake. Two keys in
`veille` are one that was held when the scan stopped and one that moves after.
In `key_engine`, three local keys are a tap-hold, the key that decides it and a
combo partner; two slots are too few for the three tap-holds of the first
keymap, and two places for the three keys that its combos defer; the remote key
can arrive at any place of the loop, as a tap-hold, a layer-mod or a momentary
layer that another layer uncovers. Every other size is a theorem's. In
`chest_link`, one page out of two is enough for a page to be stale, and the
budgets spend the keys and events where they race. In `security_key`, two tries
tell a wrong PIN from the last one, a counter of three values wraps, and each
budget puts a fault in every place of two commands.

Deadlock is not checked in `typing` (the productions of `HidPath` are bounded, and
it then stops), `chest_link` (without keys or events the task waits) and
`security_key` (without commands the card waits).

### What the violated runs show

`veille_stuck`: `veille.c:193-195` says that the wake publishes the release of a
key the driver will never report, "otherwise it stays stuck until the next event
from this half". The vetoes are read once (`veille_task.c:140`): a key pressed
and announced after them is held by the driver that the sleep deletes. If it is
released before the sleep begins, the wake captures nothing, nothing is
reconciled, and the key stays held at the listener until its silence.

`layer_mod`: `docs/KEYCODE_MAP.md:67` says of a layer-mod "Release = restore layer
and release modifiers". The build of the release takes `lm_active_mods` into the
report (`key_processor.c:541`, `:556`) before it finds the key gone and clears them
(`:620`), and nothing asks for another build: the modifier stays down at the host
until the next event of a key.

### Deviations seen while modelling, without a run

Some are what a property excepts by name; the others are behaviours of the code
that the models have and that no property forbids.

- Dongle: while mute the engine skips the timeout of the halves; on resume it
  plays whatever was received last, of any age, until the next section.
- HID path: deduplication commits a report when the queue takes it. When the
  endpoint refuses it nobody knows; the next change corrects the host. A report
  that a full queue refuses is not committed, so `EventuallyPresented` says nothing
  of it; `hid_report.c:186` says "will retry next cycle", which it does only when a
  cycle comes. The release of a dongle that falls silent
  (`dongle_engine.c:320`) does not go through the queue, and reports queued before
  come after it: a mute dongle can leave a key down at its host. No property orders
  the two ways.
- Radio: the mode is read before the wait for the lock, so an emission may pulse
  CE of a chip that was put in PRX meanwhile; it is deaf until the next
  excursion (200 ms at most on USB). After a wake of the left half, the scan
  callback may preempt the reconciliation between its publication and the lock: the
  newer state goes on air first, the release of the reconciliation after it, until
  the repeats of the change, 10 ms later.
- Right half: the fourth reaffirmation is due when the silence is, so three lost
  frames release a held key, where `half_link.h:200` counts four. The fallback
  ignores that `radio_mode_set` could not take the lock, and then speaks the
  wrong format until eight sends in a row are lost.
- Keymap pull: a beacon that arrives after the edit it announces is undone starts
  a pull that the dongle never answers and that nothing ends until the next edit.
- Relay: on the return from USB the timer may reaffirm the last half-matrix of
  before the session; a key held at the unplugging is not typed until it changes;
  `current_press` keeps the right half's last frame.
- TRRS: a cable replugged within 500 ms finds both switches closed; a probe that
  arrives between the reading of the veto and the parking is not heard, and the
  half sleeps with its 5 V closed.
- Key engine: a tap-hold pressed over a key already down is a hold at once
  (`key_processor.c:485`), where `docs/KEYCODE_MAP.md:61-62` waits for the delay
  or the next key. A combo key alone is typed at the next change only, and what is
  typed of it then, as the result of a combo or the tap of a remote key, stays down
  at the host until the next event. So do the modifiers of a layer-mod (the run
  `layer_mod`). A
  layer-tap and a momentary layer that overlap may leave their layer on. A
  one-shot modifier misses a tapped mod-tap or layer-tap, a one-shot layer is
  armed again by its own repeat, a transparent key that is held resolves again
  when layers change. A combo that defers every key absorbs a cycle. A key of a
  tap-dance (`tap_dance.c:63-82`, `key_processor.c:263`) counts again when
  another key moves. A tap of the right half typed over USB is not cleared. A key
  held that is a momentary-layer key of the layer that becomes active takes the
  layer over and is absorbed: the first pass reads the current layer
  (`key_processor.c:362-365`) where the key keeps the keycode of the layer it was
  pressed on (`:48-53`).
- Chest: a cancel taken in a round that finds the bus busy is dropped, and a
  confirm retried may be written after it. A code asked and held back by a busy
  read survives the navigation of the next round. PREV and NEXT taken in one round
  sum to nothing (`chest_gate.c:51-67`) and `chest_oath_nav` is not called: the code
  shown is not hidden and a request is not retracted, where `chest_oath.h:63-73` and
  `:119-124` speak of every navigation key, even one that returns to the same
  account. `LateCodeRefused` is therefore about the moves that a round makes, not
  about keys. A code that cannot be decoded leaves
  its request pending.
- Security key: an answer cut by a bus reset can reach the next command, with its
  sequence number, since the header is built from `s_cur_seq`. The last packet of
  an answer is given up after 200 retries, and OUT is then not primed until a
  reset. A write that fails is ignored, and older counters come back at the next
  start. `ccid.c:315` says that a stale grant does not linger past the reset of
  the deadline, yet the authorisation may fall between the two; the next arming
  overwrites it. NVS is loaded after USB starts, where `openpgp_card.h:94-95`
  asks for it before any CCID traffic. PUT DATA has no exclusion for the signature
  counter (`openpgp_card.c:921-924`): with the administrator's PIN it takes any
  value, and one that has not three bytes counts as zero at the next signature
  (`:1128`); the counter also wraps after 2^24 signatures. `CountersSurvive` counts
  from the base last put there, modulo the wrap.

Four premises of the properties are assumed and not derived: the waits of
`keyboard_cadence.h` (a `Tick` of `KeyEngine` finds the task waiting at its short
pace), the milliseconds of `wake_grace_ms` (ticks in `Veille`), the driver's report
between the two reads of the reconciliation, which `HeldIsAnnounced` sets aside
(`croise`), and a key press that does not last from one arming of the touch to the
next (`conf.lu` in `SecurityKey`).

## 4. Proofs

`DongleEngine_proofs` first relates the ring to the sequence it stands for:
`Content` is the pending states in order, a pop takes its head, a push appends or
replaces the last and counts it, nothing else moves. The argument is modular
arithmetic: within one turn, two different places are two different slots.

It then proves the inductive invariant `IInv` of `DongleEngine`, and from it
`TypeOK`, `Converged`, `QueueEndsOnCurrent` (which no run
checks: `Converged` needs it), and that the engine implements
`TransitionReplay`. Convergence alone is not inductive. `Rounds` adds what each
place of the loop knows: with nothing pending, either the state about to be
played or the last one handed over is the
current one, which is empty if a direct release came since; a mute dongle with a remembered last state has
it pending. `Silence` adds what makes the release of
the rx task harmless: a half is never younger than the slot it shares, so when
the link is lost every half is past its timeout, and the engine has either
released them all or is about to play the release.

`Typing_proofs` proves `HidTypeOK`, `CommittedIsPresented` and `InOrder` of
`HidPath`. `Fin` names the last message of the path, wherever it is (in the hand
of a producer, in the queue, in the hand of the sender); `DernierRetenu` says
that it is the one deduplication remembers. `Desordre` is the exception: on a
keyboard the sender may overtake the message that `send_hid_key` holds between
its look-ahead and its put-back, and there is then room behind it for the report
that follows, which takes a queue of two at least (the code's holds 32).
`EnOrdre`, which `InOrder` follows from, holds of the dongle only: its engine
outranks the sender.

It also proves the safety of `KeyEngine` (`EdgeNotLost`, `NoHoldOutlivesItsKey`,
`HeldKeepsCode`, and `LeftDownAtRest`: what the code leaves down at the host
once no key is held is at most a combo's result, the tap of a remote key or the
modifiers of a layer-mod), for every number of keys, of layers and of slots,
every keymap and every sequence of combos. A loop of the code is `Pour`, a
recursive function over the numbers of the keys or slots: `Iterer` gives the
sequence of its steps, `Recurrence` the induction over them, by the least number
that would fail, since the library's induction theorems are out of reach. Each
function of the code has its lemma: what it changes, and what it leaves alone
(`HorsTapHold`, `HorsLecture`, `HorsCombo`...). The inductive invariant `KeyInv`
is the engine's state between two builds (`Sain`) with what the task and the
host know of it. `Attachees`: a slot in use is of a key held, under the keycode
of the layer it latched, which is why the silent release of a slot finds its
modifiers. `Uniques`: one slot per key, without which the release of a key would
free one slot of two. `Tenus`: a modifier down has a slot that holds it; taking
away the modifiers of one mod-tap may take those of another, never leave one. No
slot is in "tap" between two builds, a deferred key has no code, and the
modifiers of a report built with no key come from a layer-mod. `HeldCodesKept`
follows a key held through a build (`Preparer`, `Lus`, `Decide`): it is not new,
so neither latched again nor read again by a layer-tap that becomes a hold.

`HalfLink_proofs` proves `TypeOK`, `NoResurrection` and `HoldSurvives` of
`HalfLink`, for every cadence, threshold and set of states. `NoResurrection`
follows from one invariant: a frame that still counts as fresh carries the current
state. It is inductive because a change marks the other task's frame, and only a
task that sends nothing publishes. For `HoldSurvives`, the age at which a listener
gives up is bounded by the matrices that missed it. `Cadence` says that, while
something is held, rounds are a tick apart and none ends with a reaffirmation due;
`Bornee` that a listener which heard a hold is no older than one period per matrix
missed, and the one that runs (`Tenue`), the repeats of a release standing for
matrices missed when nothing is held any more (`Relachee`). A timeout of more than
three periods (`CadenceAssumption`: 400 ms and 100 ms in the code, and two repeats
at least) then takes three losses.

`RadioOwner_proofs` proves `TypeOK`, `ChipFollowsOwner`, `OnAirInOrder` and
`DrainedBeforeLeaving` of `RadioOwner`, for every number of changes and every
depth of the FIFO, from `Inv`. `Verrouille`: whoever is inside a section holds
the lock, so the sections exclude each other. `Roles`: only the relay changes
the mode or leaves on an excursion. `Generations`: a change of the left half
carries the current state until it is over, or was overtaken by the other
task's; what a section is about to send is not older than what is on air, or was
overtaken, which is the order on air. `EnEcoute`: an excursion that has read the
mode keeps it until it takes the lock, since nobody else changes it. `Aimed` is
`ChipFollowsOwner` carried inside the sections that do not leave the owner's
target, and `Vidange` what the drain leaves in the FIFO.

`TrrsLink_proofs` proves `TypeOK` and `ClosedIsVerified` of `TrrsLink` for every
set of delays. What a switch knows of the peer is the age of a frame; the
invariant bounds it on the way: a frame on the wire is younger than a tick, and
no end counts a silence shorter than it is.

`Veille_proofs` proves `TypeOK`, `SaidIsSeen` and `WakeReleasesNothing` of
`Veille`, for every set of keys, from `Inv`. `Pilotage` ties the driver to the
phase of the sleep task, `Dit` ties what was reported to what was seen, and the
conjuncts `Vu...` say phase by phase what a scan knows. `Tenue`, with `Premier`,
is the core: a captured key still down is counted at every scan, so that none is
reported before all of them can be.

`Pulls_proofs` proves `CodeIsForCursor`, `LateCodeRefused`, `ConfirmWasPressed`
and `ListsBounded`, the safety of `RequestEnds`, of `ChestLink`, for every set
of accounts, page, number of retries and budget. `DemandeFraiche`: a pending
request of a code with no move of the cursor since is about the account under
it. `Presses` and `Oubliee`: every tag on its way names a prompt that was
confirmed or one that is no more, none names a prompt to come, and a chest that
is gone left nothing behind. `Comptees`: each list asked has cost a retry but
one; only a segment moves the cursor under a list in flight, which would allow
one more, and a segment gives the retries back. This takes at least one retry
(the code has two).

It also proves `PulledIsTarget` of `KeymapSync`, for every number of chunks, of
values and every queue, from `SyncInv`. Acknowledgements come in the order in which
the dongle loaded them: what follows a beacon of this edition, in the queue
(`EnFile`) or behind the one the scan holds (`EnMain`), is of the keymap it
announced. `Decide` is the scan's second read: a chunk that was found to be the
next one still is, unless the timer passed. `Tirage` gathers it: a pull begun in
this edition has its target, the chunks it holds and those still to come of the
dongle's keymap.

`SecurityKey_proofs` proves `CountersSurvive` and `UseIsAuthorised` of
`SecurityKey`, for every number of tries, of retries, of commands and every
deadline. `Etapes` says what each step of the worker implies of the command it runs;
`Comptes` and `Signatures` tie what the host has been told to what NVS holds, the
blob being written before the answer leaves, the signatures counted from the base
of the counter and less its wraps; `Usage` ties the key about to be used
to the PIN shown and to the touch that came since the operation waits.

Assumptions: `FifoCap` positive, `MaxGen` natural, `Cap`, `Timeout` positive,
`LinkLost > Timeout`, `Vide` a bitmap or a report, `QueueCap` at least two, the
places of `KeyEngine` (`MaxPending`, `MaxDeferred`) and the `Tour` of the
counter positive, the deadlines and ticks of `HalfLink`, `TrrsLink` and `Veille`
positive, `CadenceAssumption`, `Page` and the retries of `ChestLink` positive,
the sizes and bounds of `KeymapSync` and of `SecurityKey`, and that the keymaps
and combos of `KeyEngine` name keys, layers and keycodes that exist.

A proof reads a definition more strictly than TLC: two places where a `CASE` had
overlapping branches (`Suite` of `HalfLink`, `Decoder` of `KeyEngine`), which TLC
takes in order and TLA+ does not, were found this way and are now disjoint.

Only model-checked: every liveness property (the prover does no fairness
argument), and all that `KbdRelay` says: its properties speak of a cable and a link
that have settled, and the types of its state are a conjunct of one of them.

## 5. Plan

1. (done) `FusionFile`, `DongleEngine`, `HidPath`, `RadioOwner`, `HalfLink`,
   `KeymapSync`.
2. (done) `KbdRelay` (left half, right half and dongle together), `TrrsLink`,
   `Veille`, `KeyEngine`, `ChestLink`, `SecurityKey`.
3. (done) Proofs of `FusionFile`, `DongleEngine`, `HidPath`, `HalfLink`,
   `RadioOwner`, `TrrsLink`, `Veille`, `ChestLink`, `KeymapSync`, `SecurityKey`,
   `KeyEngine`.
4. To do: pairing; tap-dance, leader and macros in `KeyEngine`; the other
   commands of the security key (`sec_store`, OTP); the transfers of CDC and OTA.
5. To prove: the types of `KbdRelay`. Every other safety property of the runs is a
   theorem, except the two that the violated runs refute; liveness stays with TLC.

## 6. Not modelled

Byte formats, drawing, logging, cryptography and its self-test, start-up and the
board files. BLE: the transport is chosen, not run. The pause of the keymap's
pull on USB, its pace of ten requests per second, the right half's gauge once
`bonne` holds, and `cfg_bridge.c`. The trace and stress instruments of the radio.
CDC framing (parsing of bytes, with host tests of its own), the transfers of CDC
and OTA. Pairing, display, LEDs, mouse, storage.

Of `SecurityKey`: safe mode, runt frames, a refused `usbd_edpt_xfer`, malformed
data, the OTP personality over HID, `sec_store`, and the data read from
`s_out_buf` while a touch is awaited. Of `KeyEngine`: tap-dance, leader, macros,
caps word, repeat, grave-escape, overrides, tri-layer and the six slots of a
report.

Most of what is under `components/` and `tools/` is vendored (`keyboard_button`'s
examples, image writers), fonts or generated data: no decision of the firmware
is there. See the notes of `PROJECT.json` for each component.
