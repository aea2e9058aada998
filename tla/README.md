# EtherTap: TLA+ models, TLC runs and TLAPS proofs

EtherTap is a VST3 plugin that keeps the delay effects of a Behringer X32 or Midas M32
console at the tempo of the host. This directory holds models of its concurrent core,
translated from the source, the runs that check them and the theorems proved about them.
`PROJECT.json` maps each definition to its source lines and lists the runs, the theorems,
the hazards and the disagreements found between the code and its own documentation.

Paths below are those of the repository; `network.rs` stands for `src/network.rs`.

## 1. The system

| Component | State it keeps | Operations | Talks to |
|---|---|---|---|
| **Network worker** (`network.rs`, `reconnect.rs`): one thread | socket, `target`, `target_from_auto`, `connected`, `user_disconnected`, back-off, the discovery interval and its fast-search budget | `run()` loop: commands, self-connect, discovery pass, heartbeat, telemetry poll; `connect`, `handle`, `send`, `rebind`, `request_retarget` | console (UDP); audio thread (command and status channels); shared address, identity, `auto_reconnect` |
| **Audio-thread sync engine** (`lib.rs`, `process()` and `dispatch()`) | tempo settle timer, OnChange retry, armed Hard Reset, last position / beat / bar, connection edge, button edges | one call per buffer: drain status, edge, seek, settle, Hard Reset gate, retry, beat, bar, buttons | worker (channels of 64 entries, `try_send`); `hardware_float_out` |
| **Slot audit** (`audit_slots`, the slot map in `lib.rs`) | compatible / occupied slots, slot types | eight queries, with the commands of the plugin handled between two of them | worker state, audio thread |
| **Hard Reset** (`HardResetBatch`) | mutes in the console | mute, set, unmute of up to eight slots | console |
| **Device scan** (`scan_collect`, `ScanPublisher`, scan generation) | merged device list, health counters | background scan thread and the worker's own pass publish to one list | editor |
| **MIDI clock** (`lib.rs` section 7, `midi_clock.rs`) | last tempo announced; position and panel of the standalone build; the worker's beat gate and gap | Start / Stop / BpmChanged / Tick messages over a channel of 256 entries, forwarding as pulses; play, stop, tempo and tap of the panel | MIDI ports |
| **MIDI bridge** (`midi_clock.rs`, `reconnect.rs`) | the device it works for, the open output, back-off | the editor's selection, scans, auto-connect, reopening, sends that fail | editor and host (`midi_out_device`, a channel of 16), watcher, ports |
| **MIDI device watcher** (`midi_watcher.rs`) | last device list sent, notification flag, safety poll | enumerate, broadcast | editor and MIDI worker (channels of 16) |
| **Loopback MIDI registry** (`midi-loopback`) | named ports with bounded queues | register, connect, send, drain, drop | bridge, clock sink of the test host |
| **Parameters and persistence** (`params.rs`, `lib.rs` sections 0, 3b and 8) | host parameters, their mirrors, edge detectors, the saved session | save, restore, activate, suspend, mirror, publish, trigger | host, editor, audio thread, worker |
| **Editor, OSC tables, MIDI hardware, test doubles** | UI | see section 8 | everything |

The hard behaviours are of six kinds.

* *One thread, many masters.* The user, the editor, the host automation and the worker
  itself all dial. The worker blocks for up to a second in a scan and for a receive timeout
  in each heartbeat, while commands queue up and the persisted address changes.
* *UDP.* Packets get lost; an answer that comes after its timeout stays in the socket buffer
  and is taken for the answer to a later probe; a console may move to another address and
  another one may take its place.
* *Two threads and a read-back.* The audio thread knows the console only through bounded
  channels and a value read back every few seconds, and must still get each tempo across.
* *Timers on timers.* Back-off, heartbeat, dial throttle, scan interval and the budget of
  the fast search interact; so do settle, retry and quantised Hard Reset.
* *Messages behind messages.* Ticks, starts, stops and tempo changes share one bounded channel
  that loses what does not fit; device lists are old when they are read; the editor's
  selection is a shared variable and a message.
* *A host that does as it likes.* Parameters are saved and restored whole, the momentary and the
  read-only ones with them; the plugin is suspended and activated at any time; automation, the
  editor and the worker write while a buffer runs.

What makes each part correct:

* *Worker*: the user's choices stand (hanging up silences everything, only the user
  resumes, the console the user picked is never turned away); the console it knows is never
  replaced by a stranger; what it reports is what it holds; it finds a reachable console.
* *Sync engine*: no outdated tempo is ever sent; a settled tempo reaches the console;
  Manual sends nothing by itself.
* *Slot audit*: a map is that of the console it was taken from; types, masks and saved copy agree;
  an audit that is asked for leads to a map.
* *Hard Reset and dispatch*: a muted return is unmuted; the tempo that was set last is the one that
  arrives; the slots whose effect is enabled are those it goes to; the retry ends.
* *Scan*: a scan that was superseded does not bring its devices back, a console is listed once, the
  panel settles on what is there.
* *Parameters*: nothing fires that nobody pressed since the activation; the host sees the status the
  audio thread acts on; the worker sees the host's settings.
* *MIDI clock*: the pulses of a receiver stay in phase with the beats, two tempos are kept
  apart, and the clock always runs again.
* *MIDI bridge and watcher*: what is shown as connected is; the worker follows the editor; a
  selected device is opened again; each consumer of a device list ends up with the right one.

`PROJECT.json` lists the hazards at their lines, and for each the properties that cover it
or the reason why none does.

## 2. Modules

| Module | Models | Used by |
|---|---|---|
| `ConsoleLink` | what the worker promises: the link is off, idle, being tried or up; who chose the address; which console is the known one | `NetworkWorker` (refinement) |
| `TempoFollower` | what dispatch and worker promise of the last tempo: which slots are to have it, which have it, whether anything is still owed | `SlotSync` (refinement) |
| `NetworkWorker` | the worker's thread and the rest of the program as it acts on it | `MCNetworkWorker`, `RetryCadence` |
| `RetryCadence` | `NetworkWorker` with its clocks | `MCRetryCadence` |
| `SyncEngine` | the audio thread, with the worker as the audio thread sees it | |
| `SlotAudit` | `audit_slots()` query by query, the slot map, and the activation that restores it | `MCSlotAudit` |
| `SlotSync` | `dispatch()`, the packets of SyncNow and Hard Reset, the read-back, over a map that audits change | `MCSlotSync` |
| `DeviceScan` | scan threads and discovery pass on one device list and verdict, and the panel | `MCDeviceScan` |
| `HostPanel` | what the plugin shares with host and editor: settings, triggers, read-outs | |
| `MidiClock` | ticks, their channel, the gate of the MIDI worker; the panel of the standalone build | |
| `MidiBridge` | the devices of the MIDI worker, with editor, host, watcher and loopback registry | |
| `MidiWatcher` | the watcher's thread on both platforms, and its two consumers | |
| `<Module>_proofs` | theorems about `NetworkWorker` and `RetryCadence` (in `NetworkWorker_proofs`), `SyncEngine`, `SlotAudit`, `SlotSync`, `DeviceScan`, `HostPanel`, `MidiClock`, and `MidiBridge` with `MidiWatcher` (in `MidiBridge_proofs`); and about two compositions, worker and panel in `NetworkWorker_proofs`, watcher and bridge in `MidiBridge_proofs` | |

The worker's thread is the subject of three modules that share no state but the link:
`NetworkWorker` has the connection, `SlotAudit` and `SlotSync` what it does once there is one. A link
that comes and goes at will stands for the first in the other two. `SyncEngine` decides *when* a
tempo is dispatched, `SlotSync` *where* it goes.

### NetworkWorker

`phase` is the point of the loop in `run()`:

    drain -> auto -> discover -> (scan) -> heartbeat -> poll -> drain
      |       |                    |          |
      +-------+-------- await -----+----------+      (inside send_heartbeat)

The two calls that block are phases of their own: in `scan` the worker listens out the
window, in `await` it waits for an `/info` answer, and `ret` says which step the heartbeat
returns to. Between any two steps the rest of the program may act: `Request` and
`SelectTarget` put a command into the bounded channel (`SelectTarget` writes the persisted
address first, as the editor does), `EditTarget` and `ToggleAuto` write what the worker reads,
`Rewire` moves, adds or removes consoles.

| Code | Model |
|---|---|
| `handle()`: `UpdateTarget`, `ConnectToLast` / `Disconnect` / `SyncNow`, `HardResetBatch` / `AuditSlots` | `Connect` / `Disconnect` / `Send` / `AuditSlots` |
| `connect()`, its two branches | `Dial`, `BadDial` |
| `maybe_auto_connect()` | `AutoConnect`, `SkipAutoConnect` |
| `maybe_discover()`, `discover_and_retarget()` | `StartScan`, `SkipScan`, then `ScanFruitless` or `ScanHit` |
| `request_retarget()` | `RequestRetarget` |
| `send_heartbeat()`: the probe / the answer | `Probe` / `Accept`, `Reject`, `NoAnswer` |
| `poll_delay()` | `Poll` |

`rxbuf` is what is on its way to the socket. A probe adds the answer of whoever holds the
address, or loses it; whatever is in the buffer may be received, at once or at a later
receive, so an answer can come after its timeout and be taken for the answer to another
probe. A rebind opens a new socket and empties it; a rebind that *fails* keeps the old one,
buffer included, as the code does. A send can fail and take the socket with it.

An identity is `(name, model)`. The code treats three shapes differently, and so does the
model: a name (`Named`), a model without a name (`Nameless`, which the identity check lets
through and the persistence does not), and nothing at all (`Blank`).

`dialler` is a history variable: who established the current target. It states that
`target_from_auto` is never set for an address of the user.

Abstractions: a timer that may have expired is a choice (`RetryCadence` has the clocks).
Strings, encoding and the formatting of addresses are left out; an address that does not
parse is `BadAddr`. The counters saturate where the code no longer tells values apart:
`attempts` at the failure from which the delay is capped, `hbFails` at the rescan threshold.
`told` is the last Connected or Disconnected *offered*; that the channel may drop it is in
`SyncEngine`. Device lists that tie are adopted in any order. A scan may miss any console.

### RetryCadence

Conjoins each action of `NetworkWorker` with its timer, so that every timed step but `Move` (the
consoles change places) is a step of the untimed module. Time passes in the blocking calls and in the sleep at the end of the
loop. `Cadence.cfg` uses seconds with the constants of the code (heartbeat 5 s, back-off 2 s
doubling to 10 s, discovery 5 to 30 s, three failures, four fast passes); the receive timeout
and the loop's sleep are rounded up to one second. Ages stop at 30 s, beyond which no timer tells them apart. `unserved` is a
history clock: how long the known console has been reachable without being connected. `Patience` is
how long that may take: the longest interval, one wait for an answer and one scan.

### SyncEngine

One `Buffer` (or, once the host is steady, one `Advance`) is a whole call of `process()`: the
composition, in the code's order, of one operator for each section.

| Section of `process()` | Operator |
|---|---|
| 1, status drain, with the `SlotScanDone` sync | `Drain` |
| 3b, connection edge | `Edge` |
| 3c, backward seek and loop | `Seek`, `LoopRepeat` |
| 4, settle | `Settle`, `Jumped`, `Settled` |
| 5, quantised Hard Reset | `Gate` |
| 5b, retry | `Retry`, `Matches` |
| 6, 6b, beats and bars | `Beat`, `BarJump`, `Remember` |
| 8, buttons | `Pressed` |
| `dispatch()`, `try_send` | `Dispatch`, `Sent` |

A timer that does not run and a Hard Reset that is not armed hold no data (`Off`, `NoBeat`):
the code never reads the fields then. `eng.conn` is both `conn_status` and
`last_conn_status`, which agree between two buffers. Tempos are integers, compared with the
two tolerances of the code; positions are half beats; a time unit is 500 ms. `Moves` lets the
host stay, advance, or locate; `Calm` is the moment from which the host plays steadily, the
link holds and nothing is lost, and is what the liveness properties start from.

Abstractions: one slot, so that a Hard Reset is one command and one new delay; the time
signature is constant; no read-outs, LEDs or MIDI clock (which is `MidiClock`); at most one button a buffer; the
connect and disconnect buttons are the link coming and going. `Reject` is the link lost without a word,
as an identity that is refused loses it.

### SlotAudit

| Code | Model |
|---|---|
| `audit_slots()`: the drain between two queries | `Connect`, `Disconnect`, `Send`, `Skipped` while `cur` is a slot |
| a query, its answer, its timeout | `Query`, then `Answer(p)` or `Timeout` |
| the socket or target gone after the drain | `Interrupted` |
| the stores at the end: types, persisted copy, masks | `PublishTypes`, `Persist`, `PublishMasks` |
| the heartbeat and the read-back between audits | `Chat`, `Rebind` |
| `adopt_restored_state()`, the slot map | `AdoptRead`, `AdoptTypes`, `AdoptMasks` |

`rxbuf` is the socket's buffer, as in `NetworkWorker`: an answer that comes after its timeout is
taken for the answer to the next query, if the address matches, and one of another packet (`NoType`)
is no type. `clean` is history: every query of this audit found the buffer empty; `raced` is history:
an activation and a publication overlapped.

### SlotSync

| Code | Model |
|---|---|
| `dispatch()`: the setting and the mask are read; the type of each slot; one batch or a SyncNow each, `try_send` | `Select`; `Look(s)`; `Chosen`, `Offered`, `Taken`, `Dispatch` (with the last read) |
| a tempo that settles; the retry, its end by read-back or by a change | `NewTempo`, `Resend`, `Poll`, `Unsettle` |
| `handle(SyncNow)` | `SyncNow` |
| `handle(HardResetBatch)`: mute, set, unmute | `MuteAll`, `SetAll`, `UnmuteAll` |
| `slot_type_for()`, `delay_par()`, the filter | `TypeFor`, `DelayPar`, `Included` |
| an audit's stores, a type at a time; the mask; the map of a session | `PublishTypes`; `PublishMask`; `Adopt` (types by `Remap`) |

Of a tempo only this is kept: whether it is the one the audio thread settled on last. Any packet may
be lost; one that cannot be sent takes the socket with it, and none after it arrives (`Arrive`). An
effect keeps its time in the first or the second parameter, and a time written by the wrong map goes
into another parameter of the effect: `HoldsTime`. `lost` and `missed` are history, and name the only
excuses `ImplementsFollower` and `MutedOnlyByLoss` accept. The operator may load another effect or change the
settings at any time. Each type an audit stores is the true one or that of any of `Maps`, since it may have lost answers or taken
late ones, and a session may restore any of them, even in the middle of a batch. An activation that meets an audit's
stores is in `SlotAudit`. FX buses only: inserts have no return to mute.

The audio thread reads the mask once and then the types, one by one, while the worker stores the types, one by one,
and then the mask; any of the reads may fall between any of the stores. `sel` is what `dispatch()` has read so
far: the slots it has yet to look at, those it has let through, and, as history, the slots of its mask whose type is
still the one that the mask was made from (`mapped`). The settings are mirrored by the same thread, so they do not
change during a dispatch. Its `try_send`s are one step: what the worker takes between two of them it
might as well have taken before, except that a channel that was full in between loses a slot in the middle
of the selection, where the model loses the last ones.

`TempoFollower` is the same without commands, packets, batches, maps and mutes: slots come to be at the
tempo one after the other, only those that are meant to, none leaves it before the next tempo or the
operator's next effect, and owing ends with all of them there or with an excuse. `wanted` is
`last.slots`, `at` is `timed`, `owing` that a command is in the channel or a batch is under way, `excused` is `lost`.

### DeviceScan

Each scanner (a scan thread, or the worker in its discovery pass) goes through `ScanPublisher` step by
step: `Collect` (what `scan_collect()` may find of the network as it is), `Lock` (the mutex, and the
generation compared under it), `Merge` (a device at a time, in the order of their paths), then without
the mutex `Count`, `Load` and `Store` for the health verdict. `OpenPanel` and `ClearList` are the two
steps of the editor's `OpenScanDevices`: the generation is raised, then the list cleared and a scan
asked for; `Rescan` is the periodic one. `DropScan` is a `ScanTargets` swallowed by an audit.

### HostPanel

One parameter stands for each kind the code treats alike: `auto` for the settings that `process()`
mirrors to an atom, `trig` for the momentary ones, `isConn` for the read-outs. `process()` is split
where others may write: `Buffer` and `Mirror` (load and store), `Drain`, `Publish`, then for each
trigger `Look` (the edge) and `Reset` (the parameter written back). `Save`, `Load`, `Restore`,
`Initialize` (`adopt_restored_state()`) and `Suspend` are the host; `Press`, `Automate`, `Toggle`,
`EditorMirror` the editor and the lanes; `Verdict`, `Chatter` the worker. A verdict may be the last one again, as
a heartbeat's is; `link` is the last one given, and `lost` says that it did not fit into the channel and has not been
repeated since. The wrapper resets the plugin and
calls `initialize()` after a restore, as it does before each activation.

### MidiClock

A tick is the index `k` of the code, counted along a song the host repeats; the message keeps
it, and the tempo it was counted at, for the properties, where the code sends `on_beat` only.
`Process` is section 7 for one buffer up to the list of messages (`Edge`, `Change` and `Ticks`
in the code's order); `Push` is the `try_send` of each, so the worker may run between two of
them. `Handle` is the worker's match, with one operator for each message. A gap is counted in
buffers: time passes with the host's buffers, and `BufferMs` sets how long one is. With `Locate`
the position jumps, untold; each buffer may switch the clock on or off, start, stop or change
the tempo. `unsure`, `stopped` and `last` are history.

With `standalone`, fixed at the start, there is no host: `Accumulate` counts the ticks, the position is
loaded and stored in two steps (`adding`), and `TogglePlay`, `PressStop`, `SetStandaloneBpm` and
`TapTempo` are the panel. A Stop is a trigger that the next buffer takes; the panel may press it
between the load and the store.

Left out: the activity LED, the statistics, the counter of losses.

### MidiBridge

Each arm of the worker's `select!` is an action: `ChangeDevice`, `HearWatcher`, `CleanScan` and
`EmptyScan` (the timer, with the ports or, when the system gives none, an empty list), `Pulse`.
`Scan` is `handle_port_scan()`: the pick of auto-connect, then one of the three branches. A
handler is one step although the editor runs beside it: it touches the shared selection once,
and an editor that selects in the middle of it might as well have selected before or after.
`live` tells a connection that is open to a port that is there from one to a port that went
away and may have come back. A loopback's port has a bounded queue (`PortCap`), which its sink drains or not; a send
fails when it is full or the port is gone. For hardware the library may let a send to nowhere pass, so
the model allows both. An enumeration may fail (`EmptyScan`), a host may restore a session
(`Restores`), and the passthrough input opens and closes with the setting. `Plug` is the outside world; `Watch` stands
for `MidiWatcher`, with lists as old as its channel lets them be, or empty; one may be under way when
the worker starts. That `MidiWatcher` is indeed such a `Watch` is proved (section 4).

### MidiWatcher

`Decide` is `BroadcastPlanner::decide()` with the broadcast it leads to, at the end of a slice in
which a notification came (`Slice`) or when the safety poll is due (`SafetyPoll`); `Poll` is the
other platforms' loop, where an enumeration may fail. A device may come or go without a notification, and a notification
without a device (`Notify`). `Frame` and `WorkerTakes` are the two consumers.

## 3. Runs

### Passing

| Run | Instance | What it shows |
|---|---|---|
| `WorkerUser` | two consoles at fixed addresses, one nameless; connect, disconnect, pick, mistype, toggle auto, commands that send | hanging up silences the worker, whatever it was in the middle of; only an explicit connect ends it; an address of the user is never checked for identity; the worker implements `ConsoleLink` |
| `WorkerLive` | a console off, at home, or moved with another named one at its address; a user; fairness | link, socket and reported status agree; once all is quiet a link that is up is with the console the worker knows, whatever late answers and half-done connects were about; no scan runs over a link; a known console that is reachable is found and kept; a Disconnect in the channel is carried out |
| `Cadence` | the code's timers, two moves | a reachable console is served within the longest interval, a wait and a scan (30 + 1 + 1 units of a second); on an empty network the interval settles at its cap |
| `Sync` | OnChange rate with an OnChange or a Continuous phase, two tempos, stop, start, a way back, loop, lossy link, two status messages in one buffer | retries and commands carry the current tempo, or one the host has crept away from by steps too small to count (`SameTempo`; with the tempos of this run, the very tempo); a tempo that is settling or unconfirmed reaches the console |
| `Audit` | two consoles of two slots, an empty one and an insert among them; one packet late | a map whose queries found the socket quiet is its console's; types, masks and saved copy come to agree; an audit that is asked for leads to a map |
| `Slots` | two buses, two racks that are also the maps, with Hard Resets and without; an audit may be wrong | a batch undoes its own mutes and sets times only under them; of the slots whose type is the one its mask was made from, a dispatch is for exactly the enabled ones, wherever its reads fall among an audit's stores; dispatch, channel and worker implement `TempoFollower`, so that no older tempo arrives after the last; the retry ends |
| `Scan` | a scan thread and the discovery pass; two consoles, one nameless, one on two addresses and moving; two openings | no stale device comes back; a console with an identity is listed once; the panel settles on what is there |
| `Host` | one trigger, a status channel of one message | restored triggers stay silent; read-outs are honest from the first buffer on; an audit needs news; a press at rest is answered; status and setting settle |
| `Clock` | three pulses a beat, two tempos, a channel of two messages; a host, and the standalone build | a Stop is final; a pulse off the beat only ever continues the one before; tempos that differ are kept apart by a gap or a start; the clock runs again whatever happened |
| `Bridge` | two devices and a loopback, a selection channel of two, a list under way, a loopback queue of one | the flag shown is the output that is open; the worker follows the selection; a device that stays is opened again |
| `Watcher` | one device, channels of three lists, both platforms | a broadcast is only suppressed if the consumers have the list or will find it; lists arrive |

The MIDI modules, `HostPanel` and `SyncEngine` are checked without an MC module: their constants are
numbers and model values of the cfg.

### A claim the code does not keep

`ClaimManual` checks one sentence of the repository, and TLC shows a behaviour of the code that
contradicts it (`PROJECT.json`, "findings"): a sync mode set to Manual is to "never fire
automatically", and yet playing from the second bar on, or a seek back, arms a Hard Reset.

Other sentences the models contradict, for which no run is kept. The connection:

* A silent mixer "shows a disconnected state" (the repository's README, line 51): a rejected identity
  drops the link and says nothing. `StatusTracksLink` allows this case and no other.
* "Resend every 2 s until hardware confirms" (`lib.rs:804`): a read-back from before the change
  confirms it. `ChangeArrives` speaks of a retry *that no read-back has cancelled* for this reason.
  Above 200 BPM the tolerance of the comparison (`lib.rs:811`) also confirms a tempo 2 BPM off.
* "One fast search per loss" (`network.rs:861`): each rejected identity refills the budget before it
  is spent, for as long as another console answers at the persisted address.
* Discovery "is gated on `auto_reconnect`" (`network.rs:875`): switched off during the window, the
  pass still dials what it found.
* Auto-resumes "only reach here with a matching (or previously unknown) identity"
  (`network.rs:826`): a console with a model and no name passes the check. `Up` of `ConsoleLink`
  excepts it. And a mistyped explicit connect ends the check of the address the worker had dialled by itself: `handle()`
  clears `target_from_auto` before `connect()` finds that the new address does not parse, and the old target stays
  (`BadDial`).
* No "phantom value after the connection drops" (`network.rs:640`): true of a Disconnect
  (`HungUpIsSilent`), while a timeout or a rejection keeps the last read-back.
* `conn_status` "already hold[s] the truth" at an activation (`lib.rs:1150`): while the plugin is
  suspended nobody drains the status channel, each packet puts a pulse into it, and a Connected or
  Disconnected that finds it full is gone until a heartbeat repeats it. `StatusSettles` excepts what is lost.
* Retries come "every 2 seconds" (the repository's README, line 52) but back off to 10 s; a Phase Sync
  on change waits for the next *bar* where its line 94 says *beat*; `target_from_auto` is also set by
  discovery, which its comment does not say; `tests/functional_edge_cases.rs:456` says `dispatch()`
  bails when not connected, and it does not.

Slots and scans:

* AuditSlots and ScanTargets taken during an audit "will be processed after" it (`network.rs:1025`):
  they are dropped, and the scan panel waits for its next one. A target that changes during an audit gives
  a map of two consoles; `MapIsTheConsoles` asks that every query found the socket quiet.
* "Every compatible slot whose effect type is enabled" receives the command (`lib.rs:1190`): a dispatch that meets
  the stores of an audit reads the old mask and some of the new types. A slot that was a delay and is a reverb
  now is let in, as a type that is not known to the filter, though neither the old map nor the new one would choose it,
  and the others are chosen some by the old types and some by the new. `EnabledReceive` excepts the slots whose type was
  stored meanwhile.
* With all slots on, `dispatch()` falls back to the selected slot "when no compatible slots are known
  yet" (`lib.rs:1193`): also when an audit found that there is none.
* An audit whose answer is lost publishes *unknown*, which `slot_type_for()` takes for a DLY; an
  activation that meets a publication leaves the types old and the masks new, until the next audit.
* A lost unmute is not repeated: the return stays muted until the next Hard Reset.
* The read-back is always of the selected slot. If that is not among the slots that follow the tempo,
  the retry never ends (`Follows`, the premise of `RetryEnds`).
* "Consecutive scans that probed real interfaces" (`network.rs:171`): `empty_scans` also counts scans
  without an interface.
* Merging replaces "entries that describe the same device" (`network.rs:239`): with `x` at X and a nameless `n`
  at Y listed, `x` moves to Y; the next nameless reply from Y replaces the first entry with that
  address, which is `x`'s, and `n` is listed twice.
* The worker's discovery is held to no generation: it can bring devices back into the list an opening
  panel has cleared.

Parameters and MIDI:

* A press that falls into the buffer that resets the one before, or into a suspension, is swallowed.
* A buffer that has read `auto_reconnect` may store it over what the editor has mirrored since; the
  next buffer mends it, unless the plugin is suspended first.
* A Stop "gates all pending ticks" (`midi_clock.rs:151`): the channel is first in, first out, and
  pulses queued before a Stop go out.
* No announced tempo while playing is "impossible" (`lib.rs:937`): the clock switched on in mid-play
  has none, and changes of tempo go unannounced until the next start. `NewTempoHasGap` excepts it.
* The "maximum silence cap" of 3 s (`midi_clock.rs:55`): each change of tempo during a gap starts it
  anew, so a ramp keeps the clock silent.
* In the standalone build the song position stands still while the MIDI clock is off, and a Stop and a
  Play within one buffer end stopped.
* Auto-connect picks when "no MIDI device is currently selected"
  (`docs/spec/daw-controls-overhaul.md:66`): it looks at the worker's own device, and overwrites a
  selection that is still in the channel or came with the session.
* A lost list "self-heals within one `SAFETY_POLL_MS` window" (`midi_watcher.rs:115`): it counts as
  sent, and the poll suppresses it. `SentIsNewest` and `ListArrives` except it.

Seen while reading, in code that is not modelled: a loopback port that is dropped after its name was
registered anew takes the new port with it (`midi-loopback`); the clock's statistics keep the time of
the last pulse across switching the clock off and on; the mock console's `--jsonl` stops printing
once its capped log is full.

### Bounds, and why they are enough

* *Two addresses, two named consoles, one nameless*: the worker compares an address with the
  persisted one and an identity with the known one; a second of each is a stranger, and two
  are what makes a scan ambiguous.
* *Command channel of one entry* in the worker's runs: the worker takes commands one at a time, and
  a second may follow at once, so longer queues add no new order of steps, only fuller channels.
* *One packet under way* (`LateCap`) in the worker's runs leaves room for the user, two in `Cadence`
  are a late answer and a fresh one. In `Audit` one late packet is enough to shift each answer to
  the next query.
* *Thresholds of 1 or 2* in the untimed runs: each threshold is reached, passed, and reset.
  `Cadence` has the real ones. The theorems hold for all of them.
* *Two tempos* 4 apart with tolerances 1 and 3: equal, or different for both comparisons.
* *Positions to EditMax* while the user acts, then on to `PosMax`: three half beats in bars of
  one beat reach the second bar, a loop and both kinds of seek, and the song can always go on to
  the next bar. At `PosMax` the position stays, so that no beat is crossed forever: the
  liveness property cannot lean on an endless supply of beats.
* *Two phase modes* in `Sync`: a Manual phase differs from a Continuous one by the dispatches on each
  beat alone, and these end with the song at `PosMax`.
* *A command channel of one entry, a status channel of two* in `Sync`: each `try_send` can fail, and one
  buffer may find a Disconnected and a Connected, which leave no edge.
* *Two consoles of two slots* in `Audit`: a map half of one and half of the other, a bus and an insert,
  an empty slot, a type that is a delay on a bus only.
* *Two slots and a channel of two commands* in `Slots`: a dispatch of two commands of which one fits, two
  dispatches in the channel, an audit between them; effects with their time in the first and the
  second parameter and one that has none. The map is the right one or that of the other rack, which
  takes a reverb for a delay, or a delay for none; the theorems hold for any maps. The filter names all delays where
  SyncNows are sent, and all but one where Hard Resets are, so that slots are passed over by their type too.
* *No command that comes in while an audit waits for its last answer* (`LateCmds`) in `Slots`: the audit has emptied
  the channel before its last query. Commands that are overtaken by a map are there all the same: an
  activation may restore one at any time, and an audit may publish in the middle of a dispatch. The theorems hold
  for any number.
* *One scan thread besides the worker, two openings, two failures* in `Scan`: a scan of the old
  opening meets the list of the new one, while the worker publishes; a run of quiet scans is begun and
  full. The theorems hold for any number.
* *One trigger, one setting, one read-out* in `Host`: the triggers share nothing but the order in which
  a buffer looks at them, which is left open.
* *Three pulses a beat, a song of one beat, up to two ticks a buffer*: a tick is on the beat, one
  or two after it; buffers with and without a beat occur, and empty ones. The host can repeat
  buffers that hold no beat, but at `Advance` it moves on.
* *A buffer as long as the longest gap*, and tempos whose gap is one buffer: the gap is running, is
  over, and is absent, which is all `HandleTick` tells apart.
* *A channel of two messages*: an announcement and a tick together, and each of them lost. A channel
  of selections of two: one under way and one behind it. `MidiBridge` reads a list without regard to
  the ones before it, so one under way suffices. A loopback queue of one is empty or full.
* *One device in `Watcher`*: lists are only compared for equality, and three in a channel are the
  list sent, one that differs and one that is the same again.

### Fairness

* `WF(Worker)`: the thread runs; every blocking call has a timeout.
* `SF(AutoConnect)`, `SF(StartScan)`, `SF(Heartbeat)`: these stand for timers. At each turn of
  the loop the model may choose "not due yet"; a real timer that is read again and again is
  due at last. `RetryCadence` replaces this assumption with the clocks, where `WF(Step)` is
  enough.
* `WF(Advance)`, and weak fairness of the worker's commands and of the poll once `calm`: the
  host calls `process()` and the worker's loop turns. Nothing is assumed of the link or the
  host before that, and nothing forces `calm`. `calm` asks that the host plays, which the
  code needs: a change that settles while stopped is dropped.
* `SlotAudit`: the worker runs; `SF(Query)` and `SF(Interrupted)` say that the drain between two
  queries ends as soon as it finds the channel empty, however often it is filled again. That it is
  found empty again and again is a premise of `AuditAnswered`.
* `SlotSync`: `SF(Handle)`: what else the worker does starves no command; strong fairness for a
  packet to the selected slot, the one that is read back: UDP may lose any finite number of them; `SF(Poll)` and strong
  fairness of the retry's dispatch: both come round again and again, and a dispatch that has begun ends, as does a
  publication (`WF` of its stores). That the link and the map stay is a premise of `RetryEnds`.
* `DeviceScan`: scanners run on, the open panel asks again every five seconds, and not every scan
  that is asked for meets the worker in an audit or a discovery pass (`SF(StartScan)`).
* `HostPanel`: an active plugin gets its buffers, and the editor's thread goes on. That the worker
  does not report faster than a buffer reads, for ever, is the premise `BuffersEnd`.
* `MidiClock`: `SF(Advance)`, `WF(Accumulate)`, `WF(Push)`, `WF(Handle)`: while it plays, audio runs
  on, and not in buffers too short for a tick for ever; both threads run. That
  the host keeps playing, and nothing is lost any more, are premises of `ClockRuns`.
* `MidiBridge`: weak fairness of the worker's two channels and of the end of the cool-down.
  `SF(Reconnect)` says that a device that is there again and again when the timer fires can at
  last be opened; an attempt may fail any finite number of times. That pulses are sent, and that one to a dead port
  fails, is a premise of `Reconnects`: without the clock a dead connection is not noticed.
* `MidiWatcher`: its loop turns and the worker takes lists. That the editor's window is open (`WF(Frame)`)
  is a premise, since a closed one drains nothing.
* `settled` and `calm` are chosen, never forced: the properties hold for behaviours in which the
  network is quiet from some point on, and promise nothing in the others.

## 4. Proofs

`NetworkWorker_proofs` proves of the worker, for every network, every set of addresses and identities and
every value of the bounds allowed by `ConstantsAssumption`:

| Theorem | Property |
|---|---|
| `TypeCorrect` | `TypeOK` |
| `LinkIsReal` | `ConnectedHasLink` |
| `DisconnectSilences` | `HungUpIsSilent` |
| `ScanAssertion` | `ScanOnlyWhenLost`, the `debug_assert!` of `discover_and_retarget()` |
| `StatusIsHonest` | `StatusTracksLink` |
| `UserChoiceStands` | `ChosenByUserNotChecked` |
| `SearchBudget` | `FastSearchBounded` |
| `LossesAreReported` | each change of the link is told as it is, but for a rejection |
| `WorkerFeedsPanel` | the worker and `HostPanel`, joined, take steps of either module only |
| `HostSeesTheLink` | `ShownIsReal`: what the host is shown of the connection, end to end |
| `OnlyPressesCommand` | `CommandsAreAsked`: a command to connect or hang up comes from a press, end to end |
| `OnlyTheUserResumes` | `OnlyUserResumes` |
| `UnattendedKeepsConsole` | while no command asks for a connection, the known console is kept, or one without a name takes its place |
| `BackgroundIsHarmless` | `OnlyLinkTrafficDrops` |
| `WorkerImplementsLink` | `ImplementsLink` |
| `TimedTypeCorrect` | `TypeOK` and the ranges of the clocks, of `TimedSpec` |
| `TimedKeepsLink` | `ConnectedHasLink`, `StatusTracksLink`, `FastSearchBounded`, of `TimedSpec` |
| `RecoveryBound` | `RecoveryIsBounded`, of `TimedSpec`, if each console says who it is |

They are proved of `Safety`, the specification without fairness, except the refinement, whose
target has none either.

*The invariant.* `TypeOK` is inductive by itself; that the interval keeps its range needs
`IntervalMin < IntervalMax` from the assumption. The properties of the link are not inductive
one by one: that a scan only runs without a link needs to know that an answer cannot arrive
during one, that hanging up leaves no socket needs `scan` and `await` to end before the next
command, and so on. `IInv` is the conjunction of the type invariant, the link properties
together (`LinkInv`) and `FastSearchBounded`; what is added to the properties is that a worker
that waits for an answer has a socket and a target and has not been told to hang up. Each
action has a step, and under it the parts it can disturb.

*The actions.* `OnlyUserResumes` follows action by action: the only steps that clear
`userDisc` are those that dial, and the ones not taken from the channel need it to be clear
already, by their guard (`MayAutoConnect`, `MayDiscover`) or, for the end of a scan, by the
invariant that no scan runs after hanging up. `OnlyLinkTrafficDrops` needs that
`connected` is false in `scan`.

*The console it knows.* `UnattendedKeepsConsole` is about behaviours without an explicit connect. An answer may be
late, of a probe to an address long given up, or come from a console that has changed places; what keeps a
stranger out is not where it answers but that the check is on. So `KnownStays` adds that a target is one the
worker has dialled by itself; that an answer is awaited only where there is a target is in `IInv`.
That `lastDev` is also what the link ends up with is liveness (`TalksToTheKnown`) and left to TLC.

*The refinement.* Each worker step maps to a step of `ConsoleLink` or a stutter: a dial to
`UserConnect` or `SelfConnect`, an answer to `Up`, a rejection to `GiveUp`, a timeout or failed
send to `Lost`. The invariant supplies that a link that is up is not off, and that the worker
dials only from idle or trying.

*What is told.* `SyncEngine` and `HostPanel` know the worker as a link that comes and goes and says so. That the
worker is one is `LossesAreReported`: whatever dials, scans, probes and timeouts do to the link, the plugin is told
what it is afterwards, or nothing has changed, or it was a rejection (`Reject` of `SyncEngine`), which is silent and
gives up the address. In `HostPanel` a rejection is no action, since nothing of it gets there.

*From the socket to the host.* `Plugin` puts worker and panel together: `link` of the panel is the last word
of the worker, `told`; the switch is one atom; a trigger that fires (`Fire`) puts its command into the worker's
channel, if there is room. Each joint step is a step or a stutter of either (`PluginSteps`), so what is proved of
each holds of both (`WorkerFeedsPanel`). `ShownIsReal` then joins `VerdictsReachTheHost` of the panel (once the
channel has no verdict left, the host is shown the last one) with `StatusTracksLink` of the worker (what
the last one means); `CommandsAreAsked` joins `NothingUnasked` with what may put a command into the channel.
An instance that is loaded anew (`Load`) is left out: it starts a worker of its own. The panel's own assumptions on
its constants are proved (`PanelConstants`). The addresses and the device list are free in the joint
specification, as in the worker's, and so is the network; a timer is a choice.

*The clocks.* A timed step is an untimed one, `Move` apart, so `IInv` carries over, and with it the
properties of the link. `TimedInv` adds what holds while the user does nothing and no packet is
lost: one packet at most is on its way, and only while the worker waits for it (`Undisturbed`). The
bound is an argument about a sum: `Remaining` is the longest it can still take until the console is
served, by the point of the loop the worker is at: waiting for an answer, connected to something else,
at the right address but before its heartbeat, searching. `OnTime` says that `unserved` and
`Remaining` together are within `Patience`; each step that lets time pass takes as much from
`Remaining`, and each that does not leaves it no larger (`LeftShrinks`, `LeftGrows`). A step that
starts `unserved` again has the whole of `Patience`. The premise `Introduced`, that no console answers
with neither name nor model, is needed: the identity check lets such an answer through at the address
of another console, and the link then holds.

### The other modules

Each is proved for all values of its constants, of the specification without its fairness:

| Module | Theorem | Property |
|---|---|---|
| `SyncEngine_proofs` | `TypeCorrect`, `RetryFollows`, `CommandsAreTimely`; `RetryIsExact` | `TypeOK`, `RetryIsCurrent`, `NoStaleTempo`; that a retry has the host's very tempo, if no tempos creep |
| `SlotAudit_proofs` | `TypeCorrect`, `AuditIsTrue`, `CopiesAgree` | `TypeOK`, `MapIsTheConsoles`, `MapsAgree` |
| `SlotSync_proofs` | `TypeCorrect`, `MutesAreUndone`, `TimesAreSetMuted`, `TempoIsDelivered`, `TheEnabledReceive`, `SlotsFollow`; `FollowerDelivers` | `TypeOK`, `MutedOnlyByLoss`, `SetUnderMute`, `Delivered`, `EnabledReceive`, `ImplementsFollower`; that `TempoFollower` keeps its promise |
| `DeviceScan_proofs` | `TypeCorrect`, `StaleIsDropped`, `ConsolesAreListedOnce` | `TypeOK`, `StaleStaysGone`, `OneEntryPerConsole` |
| `HostPanel_proofs` | `TypeCorrect`, `TriggersAreAsked`, `ReadoutsTrue`, `AuditsAreNews`; `VerdictsReachTheHost` | `TypeOK`, `NothingUnasked`, `ReadoutsHonest`, `AuditOnNews`; that the worker's last verdict is the one shown |
| `MidiClock_proofs` | `TypeCorrect`, `PhaseKept`, `StopIsFinal`, `NewTempoIsAnnounced` | `TypeOK`, `PulsesUnbroken`, `StopRewinds`, `NewTempoHasGap` |
| `MidiBridge_proofs` | `TypeCorrect`, `FlagsHonest`, `NothingMissed`, `SelectionKept` | `TypeOK`, `OutputIsHonest`, `CoolingIsIdle`, `SelectionFollows` |
| `MidiBridge_proofs`, the watcher | `WatcherTypeCorrect`, `NothingHidden` | `TypeOK`, `SentIsNewest` of `MidiWatcher` |
| `MidiBridge_proofs`, the two together | `WatcherFeedsBridge`, `JointKeeps` | the composition implements both modules, and keeps `OutputIsHonest`, `SelectionFollows`, `SentIsNewest` |

*The buffer.* A step of `SyncEngine` composes a dozen sections of `process()`, so its proof is one of
sequential code: `Buffered` is what holds between two sections (the fields are well-typed, the commands so
far are timely, a retry has the tempo last taken note of), and each section has a lemma that
keeps it. `RetryIsCurrent` also says that
nothing settles while a retry is armed: a change disarms it before it starts the timer. `SlotSync` relies on it,
where a new tempo finds no retry (`NewTempo`). It is not inductive alone: `HostHeard` (the tempo of the last buffer is the
host's) and `NothingArmed` (before the first buffer no timer runs) are added. That a change by no more
than the threshold keeps the retry is why the theorem speaks of `SameTempo`: a host that creeps by
small steps leaves the retry at the tempo it started from, however far it goes. `SameTempo` is
transitive by definition, and no induction over the steps is needed. If no two tempos are within the
threshold, `RetryIsExact` says *equal*.

*The audit.* `MapIsTheConsoles` says nothing of the answer that is on its way; `Quiet` adds that, while
every query found the socket quiet, what waits in it answers the slot the audit is at, and `AtASlot`
that there is such a slot. `MapsAgree` speaks of the moments when nobody is storing; `HalfStored`
says how far a publication or an activation that has the map to itself has come.

*The packets.* The invariant of `SlotSync` is the longest. For the mutes, what is muted outside the
batch was missed by an unmute, and before the times are set every slot of the batch is muted or was
missed (`MutesUndone`). For the tempo, the commands of the last one are the last in the channel
(`NewestLast`), no older one is left once a slot has it (`TimedByNewest`), and a slot that does not
have it has it on its way (`OnItsWay`): the three together say that nothing overtakes. For the
selection, mask and types fit each other at every slot that the publication under way has not stored yet
(`MaskFits`), so the slots of a mask that has just been read and are still `mapped` are delays of that type; what
has been let through of these is what the filter names (`SelectionTrue`), and a type that is stored takes its slot
out of `mapped`. No step assumes anything of the map that an audit ends with, and the mask of an activation fits
its types (`MaskFor`).

*The second refinement.* A step of a command in the worker maps to `Follow`, a dispatch to `NewTempo` or
`Again`, a loaded effect to `Replace`, all else to a stutter. Most of it is in the invariant: that a
packet takes the tempo from no slot is `TimedByNewest`, that owing ends with all slots served is
`OnItsWay`. Added is `NowIsWanted`: commands of the last tempo are only for slots of its last
dispatch, whatever the settings are by now. `Delivered` then follows from what `TempoFollower`
promises (`FollowerDelivers`). The bound on `Resend` asks that the worker is between two commands;
that it has no batch would not be enough, since one for no slots at all looks like none.

*The list.* That nothing stale is merged needs that whoever has passed the check is at the current
generation until the list is cleared (`MergesCurrent`), which rests on the mutex: the list is not
cleared while somebody merges. That a console is listed once comes from a lemma about `Merged`: it
replaces the *first* entry that fits, and appends only when there is none; that a first one exists is
the well-foundedness of the natural numbers.

*The panel.* A plugin that is suspended is between two buffers (`RestsSuspended`), and from the
publication of a buffer on the read-out is its status (`Shown`). `NothingUnasked` holds because an
activation seeds the edge detectors with what was restored, and a suspended plugin looks at nothing.
For the channel, `UpToDate` says that the last verdict is the last one in it, or the one `process()` acts on with
nothing but other reports behind (`EndsWith`), unless it is lost; what is appended, dropped or drained keeps
that, one lemma each, for a channel of any length.

*The phase.* `PulsesUnbroken` speaks of a step; what it needs of the state is `Gated`: if the last
message broke the run of pulses, or was a tick that was held, then the worker waits for a beat or has
a gap, running or over. Each message keeps it, because a gap has a length (`GapIsNat`, from
`MinGapMs`) and one that is over becomes a wait in the same step. A pulse off the beat finds neither
(`OffBeatNeedsNoGate`).

*The gap.* `NewTempoHasGap` compares the tick that is sent with the last one that was. `TempoInv` says
of each pair of neighbours in the channel, of its head and the last message handled, and of its
end and what the audio thread has announced, that two ticks with nothing between them differ by
no more than twice the threshold, unless an announcement was lost there (`unsure`). An announcement
that is dealt with leaves a gap or a wait, and a tick that finds neither is neighbour to the last.
`StopRewinds` needs that the position is not being added to when the trigger is taken (`StopHolds`).

*The bridge.* `TypeOK`, `OutputIsHonest` and `CoolingIsIdle` are inductive together: a scan replaces the
device only when there is none, and then nothing is open. `SelectionFollows` adds what a queue does:
taking the first of two leaves the last, taking the only one makes it the current.

*The watcher.* A broadcast puts the list at the end of a channel or marks it lost; taking the head, or
all, leaves the newest a consumer has or will find (`TailKeepsNewest`).

*The two together.* In `Joint` the watcher's broadcasts stand in place of `Watch`, both see the same
devices, and the bridge's `lists` are the watcher's channel (`OneChannel`). Each joint step is a step or a
stutter of either module (`JointStep`), so what is proved of each holds of both together: a broadcast, of a list that
may be old or of an enumeration that gave nothing, is a `Watch`, and the reception of one by the worker is
`WorkerTakes`.

Only model-checked: the liveness properties, which are out of the prover's reach (they need fairness
and ENABLED). Each invariant and each action property of a passing run is a theorem; that of `SentIsNewest` is
`NothingHidden`, which states it through the instance of `MidiWatcher` in `MidiBridge_proofs`.

## 5. Results worth a reader's attention

* Hanging up is safe in the worker's worst moments. The worker is single-threaded and takes a
  Disconnect only between passes; no dial follows it that the user did not ask for.
* A late answer of another console can bring a link up for an address the user chose; at an
  address the worker chose it cannot replace a known, named console.
* The plugin can show a connection that is gone, but only after a rejection or while the answer
  that will correct it is pending (`StatusTracksLink`). With the parameters, the channel and any restored session
between worker and host, this stays true (`HostSeesTheLink`): once the channel is read and unless it was too full, a connection
that is there is shown, and one that is shown was not closed by the user. Neither a restored session nor an activation
fires a command to connect or to hang up (`OnlyPressesCommand`).
* Back-off, throttle, fast search and rejection never combine into a state in which a reachable
  console is not found (`Reconverges`), and with the shipped constants 32 s suffice, the receive timeout, the scan window and
  the loop's sleep rounded up to a second, if nothing is lost (`RecoveryIsBounded`). The bound
  is the longest interval, one wait and one scan for any setting of the timers: back-off and
  heartbeat add nothing.
* The retry is always about the current tempo, because each path that could leave an old one
  armed (a change, a seek, a lost link) disarms it. The exception is a tempo that creeps: below the
  threshold per buffer nothing is a change, and the retry, like the console, stays behind.
* A Hard Reset undoes its own mutes whatever happens between its packets: it unmutes the slots it was
  given, not those that are compatible by then. Only a lost packet leaves a return muted.
* No tempo overtakes a newer one between `dispatch()` and the console, although an audit may replace
  the map between any two packets, and while `dispatch()` reads it. The selection itself can be torn: the
  mask and the types are not stored at once, and a type that is stored between the two reads lets in a slot
  that neither map would choose. All other slots are chosen rightly (`EnabledReceive`), and the next dispatch
  after the publication is whole.
* One late answer shifts an audit by a slot: the model needs the whole exchange to have been quiet
  before it calls the map true. The code has no way to tell.
* Suspending, saving and restoring at any moment fires nothing and makes no read-out lie for longer
  than a buffer; only a status channel that has filled up does.
* The generation of the scan panel works without any scan being cancelled, since it is compared under
  the lock the list is cleared under.
* The beat gate of the MIDI clock cannot be left half open: no order of starts, stops, gaps, loops and
  losses makes pulses resume off the beat, nor keeps them back forever. What it is not told of (a
  position that jumps, the clock switched off and on in mid-play) it does not see.
* In the bridge no order of stale lists, failed scans and selections leaves a flag that lies or a device
  that stays closed. The selection can part from the device in three ways, which
  `SelectionFollows` names: a full channel, a restored session, and a pick that meets a message.

## 6. Running

    tlc -workers 2 -config WorkerUser.cfg MCNetworkWorker.tla
    tlc -workers 2 -config WorkerLive.cfg MCNetworkWorker.tla
    tlc -workers 2 -config Cadence.cfg MCRetryCadence.tla
    tlc -workers 2 -config Sync.cfg SyncEngine.tla
    tlc -workers 2 -config Audit.cfg MCSlotAudit.tla
    tlc -workers 2 -config Slots.cfg MCSlotSync.tla
    tlc -workers 2 -config Scan.cfg MCDeviceScan.tla
    tlc -workers 2 -config Host.cfg HostPanel.tla
    tlc -workers 2 -config Clock.cfg MidiClock.tla
    tlc -workers 2 -config Bridge.cfg MidiBridge.tla
    tlc -workers 2 -config Watcher.cfg MidiWatcher.tla
    for m in *_proofs.tla; do tlapm $m; done

Each passing run takes between a few seconds and about three minutes (`WorkerLive`). Definitions marked
"Mutant" are plausible mistakes; each property of a passing run is violated when the mutant replaces the
definition it belongs to (`PROJECT.json`, "mutants").

## 7. Plan

In this order.

1. A composition of `SyncEngine` with `ConsoleLink` in place of its coarse worker, and of `SyncEngine`
   with `TempoFollower` in place of its one slot.
2. Section 6c of `process()` (the time signature), and a promise about a slow drift, once the code
   makes one.

## 8. Not modelled

* `osc.rs`: the bytes of a packet, the names of effects, and the conversion between tempo and float.
  Which types are delays, and which parameter holds the time, is in `SlotAudit` and `SlotSync`.
* Section 6c of `process()`: a change of the time signature. `SyncEngine` keeps it constant, and
  its bars are those of one signature; 4/4 also stands for "none yet" in the code.
* `params.rs`: names, ranges, formatting. `HostPanel` has one parameter of each kind.
* `editor.rs`: `view()`, the canvas, styles, and messages that change what only the editor reads.
  The messages that reach other parts are actions of the module whose state they change.
* MIDI: the bytes that come in over the passthrough input, `bridge_connecting`, the virtual port, the
  activity LED, the counter of drops, the jitter statistics; a CoreMIDI client that cannot be made,
  in which case the watcher's thread ends without a list (`midi_watcher.rs`). `midi_hw.rs` calls
  a MIDI library, which may refuse a port.
* `midi-loopback`: two owners of one name at a time.
* `vst-runtime` and `mock-suite`: how they drive the plugin and answer it is the environment of the models;
  recorder, terminal interface, statistics and logs are left out.
* Tests, benches, scripts and `xtask`: tooling.
* Memory ordering: each shared field is one atomic or one mutex; the models take each read and
  each write as one step, and read `target_ip` and `target_port` as one value.
