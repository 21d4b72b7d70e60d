# A TLA+ verification of GuppyScreen (Ender-3 V3 KE)

GuppyScreen is a touchscreen program in C++ on LVGL. It drives a Klipper printer through
Moonraker's websocket. This directory holds TLA+ modules of the parts of it that are hardest to
test, TLC configurations that check them on small instances, and TLAPS proofs of what they
promise. Paths below are those of the repository, which is under `src/`.

## The system

### Threads and the lock

| thread | runs | takes `lv_lock` |
|---|---|---|
| LVGL thread | `GuppyScreen::loop` (`src/src/guppyscreen.cpp`): taps, `lv_timer`s, drawing | around every `lv_timer_handler()`, so always |
| libhv event loop | `KWebSocketClient::onopen`, `onmessage`, `onclose`: replies, notifications | where the consumer takes it itself |
| `WpaEvent`'s event loop | messages of `wpa_supplicant` | where the consumer takes it itself |
| detached threads | the wait for a static IP process, the wait for an address | around what touches the screen |

`lv_lock` is one non-recursive mutex for the program. A handler that runs under it is atomic
against every other such handler; what makes the program hard is not the lock but *time between
handlers*: between a tap and Klipper running the script it sent, between a request and its reply,
between two dialogs of the same kind.

### How the parts interact

A panel sends G-code (`printer.gcode.script`) or JSON-RPC requests through `KWebSocketClient`,
with or without a callback. Moonraker answers the requests of a connection in any order; Klipper
runs the scripts it accepted one after another. What comes back is (a) the reply, to the callback;
(b) `notify_status_update`, to every consumer in the order of registration, `State` first
(`guppyscreen.cpp:176`), with the fields that changed since the last one; (c)
`notify_gcode_response`, the console, which several panels parse; (d) `notify_klippy_ready`,
`notify_klippy_disconnected`, file and power notifications. A lost connection takes with it whatever is
on the wire in either direction, and no callback learns of it.

### Components

*State*, *operations*, what is *hard*, and what would make the component *correct*. The column
`tla` names the module; an empty one means the component is not modelled yet (plan) or will not
be (last section).

| component | state, operations | hard | correct when | tla |
|---|---|---|---|---|
| JSON-RPC client `websocket_client.cpp` | an id counter, a map of callbacks; send, dispatch, reconnect | two threads send without a lock of its own; replies lost with the connection | each callback gets the reply to its own request, at most once; nothing is refused | `KWebSocketClient`, `RpcPromise` |
| Filament runout `filament_runout_panel.cpp` | dialog, feed of chunks, fallback timer, the sensor's last edge; Load, Stop, Continue, Cancel | chunks' replies outlive their dialog; deltas, snapshots and reconnects; M600 failing | a runout is on the screen; feed and timer end with the dialog; a load has a budget | `FilamentRunout` |
| Handshake `init_panel.cpp`, state cache `state.cpp` | State's sections, the overlay; `connected`, `disconnected`, a reply per request | two handshakes at once; replies in any order; errors as replies | State is the printer's; the overlay is up exactly when it must be; the panel comes up | `InitPanel` |
| E-Steps `esteps_calibration_panel.cpp` + macros | six stages, original value, Klipper's queue, a timeout in Klipper | the panel acts at once, its script waits | the hotend is never forgotten; Discard restores; stages end | `EstepsCalibration` |
| Recalibration wizard `recalibration_wizard_panel.cpp` | stages, a copy of `printer.cfg`, a timer | two writers of `printer.cfg`; restarts in the middle | the file holds what the screen said; a manual probe always has its buttons | `RecalibrationWizard` |
| File browser `print_panel.cpp`, spools `spoolman_panel.cpp` | file tree, selection, metadata, a question before printing | refreshes overlap taps and late replies; the printer changes under an open question | the list is the disk's; what is printed is what was tapped; the question names the spool used | `PrintPanel` |
| Extruder panel `extruder_panel.cpp` | a pending command waiting for heat, a load in chunks, one timer for three waits | late replies to actions given up; a target heard late or never | one script at a time behind locked buttons; no heater is left on, or lowered; nothing is fed behind a panel that was left; no lock is for good | `ExtruderPanel` |
| Static IP `static_ip_panel.cpp`, `static_ip.py` | saved entry, snapshot, interface, busy flag; Save, Revert, the processes they run | processes overlap; power loss between any two steps; roaming | interface and files agree; a reverted network is never stuck; no entry is lost | `StaticIp` |
| WiFi `wifi_panel.cpp`, `wpa_event.cpp` | networks, current network, generation of a join | one socket for two threads; superseded joins | the screen ends up with `wpa_supplicant`'s networks and the one in use; the last join has the last word | `WifiPanel` |
| Notifications, prompts `notification_manager.cpp`, `prompt_panel.cpp` | at most three toasts and their timers; prompt rows | eviction, folding, lost `prompt_end` | an error that must stay stays | |
| Print status `print_status_panel.cpp`, `mini_print_status.cpp`, `exclude_object_panel.cpp` | estimates, last state, summary | late metadata; buttons that wait for a change; exclusions decided when the question opens | figures belong to this print; its end is summarised; it can be paused; no empty print runs on | `PrintStatus` |
| Mid-print gate `utils.cpp` and callers | a question before a disruptive action | asked on tap, acted on later | nothing disruptive runs unasked during a print | |
| Input shaper, belts, axis twist | stages driven by the console, a watchdog | lines of a run that was given up | a result belongs to the run on the screen | |
| Start-up, main loop, sleep, configuration `main.cpp`, `guppyscreen.cpp`, `config.cpp` | the consumers' order; brightness kept over sleep; a JSON file | two threads read and create paths; truncate and write | the display wakes; the file survives | in part `InitPanel` |
| Home screen `main_panel.cpp` | panels and charts | subscribes all panels' fields | | in part `PrintPanel` |
| Other panels | sliders, forms, lists, drawing | little outlives the tap | | |

`PROJECT.json` lists each component with its sources and the reason where it is not modelled, and
each hazard at the line where it bites with the properties that would catch it.

## The modules

All modules follow one layout: constants with a named assumption, variables grouped by who owns
them (printer, link, panel, history), a type invariant, `Init`, helpers, one action per handler or
step, `Next`, fairness, properties. History variables (`overlapped`, `unheard`, ...) are read by
properties only. Actions whose comment begins with *Mutant:* are plausible bugs next to the
definition they vary; no `Next` uses them. They show that the properties can fail.

Klipper, Moonraker and the sensor are outside the program. They are modelled as the code uses
them: a serial queue of scripts, a subscription that reports differences, replies in any order.

### `KWebSocketClient`, `RpcPromise`

`FindId`, `InsertCallback`, `TakeId`, `SendRequest` are the steps of `send_jsonrpc`
(`websocket_client.cpp:108-137, 166-186`): look the next id up, insert under it, `id++` in the
overload, `send`. Nothing in the class makes them one step. `RunCallback` and `EraseCallback`
are the two halves of the reply's dispatch (`:46-60`), between which the callback itself may send
(`Begin` on the event loop). `Open` and `Close` are the connection; `Close` leaves the table as it
is, which is what the code does. `UnderLock` says which call sites of the event loop hold
`lv_lock`: most do, some do not (the replies of `InitPanel::connected`, for one).

`RpcPromise` is what a caller expects of one call: asked, served, completed, or lost with a
connection. `KeepsPromise` is the refinement, with `ProgressOf` as the mapping.

### `FilamentRunout`

`StateConsume` then `Consume`: `State` merges a message before the panel gets `lv_lock`, so taps
fall in between. `Consume` is the whole of `consume()` on a status message (`:159-261`), in
its order: the baseline once, the edge, the M600 hand-off, the tear-down of a cancelled print.
`ConsumeError` is its branch for a G-code line. `ChunkReply` is the callback of a chunk
(`send_load_chunk`), `TapLoadMore`, `TapStop`, `TapContinue`, `TapCancel`, `CancelTimeout` the buttons
and the timer, `Close` is `close()`. `RunM600` is what `M600-support.cfg` does that
matters here: pause and prompt, or fail, before the tick that tells of the runout too. A chunk is 10 mm.
The sensor does not flip twice within one status tick (250 ms): a flip that Moonraker never reports is not
in the model. Nor is its switch turned while a message is on its way to the panel.

The history `unseen` follows a runout nobody was told of, from the sensor's edge on, whether or not
the panel has its baseline. It becomes `"missed"` only where what should tell of it is wasted: the update is
used up as the baseline, a snapshot told it, the prompt or the error is lost with the connection, or the
error comes before the panel was told. `strays` counts the chunks of earlier dialogs that still
run when a load is started.

### `ExtruderPanel`

`TapAction`, `TapYes` are `run_when_hot()` (`extruder_panel.cpp:602-633`) behind their guards, `StatusTick` is
`consume()` with the action that waited for it (`:358-378`, `:544-554`), `ActionResponse` and
`ChunkResponse` the two callbacks (`:503-517`, `:584-600`), `SafetyTimer` the one timer with
its three meanings (`:465-488`), `TapCooldown` and `TapBack` the two buttons that cut an action short.
Klipper is a queue of the panel's scripts, each of which may take longer than the timer, as it may
wait behind a script of somebody else. The panel knows the target only from the deltas of
`notify_status_update`: `told` is what they are relative to, `misjudged` marks an action that went by a
target that was not so. `SetElsewhere` is a target set by somebody else, the console or a slider: it belongs to
its owner (`byHand`) until a script of the panel sets another, and misleads the panel only if a heat or a wait of its is
under way; a target that was heard of binds the panel. Temperatures are levels and the hotend moves by one; Extrude, Retract and Unload
are one action that differs from Load.

### `InitPanel`

`OnOpen`, `OnClose`, and one handler per message (`Handle`): the object list, which asks for the settings and
the subscription, whose reply fills `State` and hides the overlay
(`init_panel.cpp:38-137`), status updates, `notify_klippy_ready` (a second handshake on the same
connection) and `notify_klippy_disconnected`. `AnswerRequest` is Moonraker: what it answers
carries the printer as it was at that moment, and arrives in the order it was written.

### `EstepsCalibration`

Both sides: the panel's stages and buttons, and the macros of `esteps_calibration.cfg` as scripts
in Klipper's queue that print markers. `M109` and the extrusion are scripts that stay at the head
of the queue for a while (`phase`). `Timeout` is the delayed G-code that cools the hotend.
`rotation_distance` is on a logarithmic scale: a correction is one step. `Shutdown` is Klipper's fault or
emergency stop while Moonraker's connection holds: heaters and timer are off, `M109` returns to a macro whose next
line is refused, what waited fails, and nothing tells the panel, which handles no `notify_klippy_shutdown`
(`websocket_client.cpp:73-77`); `Restart` is a FIRMWARE_RESTART. Neither is bounded.

### `RecalibrationWizard`

The panel's stages, Klipper's queue, `printer.cfg` as a pair (where `z_offset` comes from, where
the mesh comes from), the copy, and what `SAVE_CONFIG` would write. The Z_OFFSET_CALIBRATION macro
prints its reading, saves by itself, and Klipper restarts: three steps, between which the panel
patches the file (`apply_sensor_choice`, `:587`) or restores the copy. `outcome` is the way out that was taken:
Save & Restart, Back, one of the sensor stage's choices, Discard all, or a failed reading; each promises a content of the
file (`Promised`). `misheard` marks a run in which the offset shown on DONE is not the last that Klipper accepted: the line of
an earlier run was taken for this run's, or another ACCEPT was still under way.

### `PrintPanel`, `MCPrintPanel`

The list (`subscribe`, `refresh_files`, its reply, the notification), selection and metadata, Print, the
question, the spool chosen in between. Taps and replies hold `lv_lock`, so each is one step. The panels over
the main screen are a set (`open`) and which of them lies over which (`over`), as
`lv_obj_move_foreground` and `lv_obj_move_background` leave them (`Raise`, `Lower`). A
directory listing is read at one moment and arrives at another (`ListRead`), everything
else may be answered in any order. A step of the printer and the handling of the message that
tells of it are one step: the panel hears of the printer through one ordered stream, and is
looked at only as of what it has heard.

### `StaticIp`

Two programs and the interface. The screen (`static_ip_panel.cpp:330-544`) starts a process per tap
and waits for it in a thread; a process of the back end (`static_ip.py`) is a record in `jobs`, and
each of its steps that reads or writes a file or the interface is an action: `SetLoads`,
`SaveConfig`, `CheckSsid`, `SnapshotDhcpState`, `ApplyStatic` for `set`; `RemoveLoads`, `SaveConfig`,
`Revert`, `TryFreshLease`, `Offer`, `Watch` for `remove`; `ReadStatus` for `status`. An address
is a lease of a network or the n-th entry saved. `Bind` is `udhcpc`, `Roam` the radio, `Boot` a power
loss after which the stock `wifi_up.sh` starts `udhcpc` and nothing calls the boot hook. Each of
these may fall between any two steps. `ifconfig` and `route` may fail, which ends the process
(`CannotConfigure`). Two histories tell what `wlan0` was last set up for: `stranded` why it may be empty
without a client, `astray` that it was for a network the radio is not on.

### `WifiPanel`, `MCWifiPanel`

Three threads. The LVGL thread sends what a tap calls for (`script`, `todo`) under `lv_lock`. The
event thread (`TakeEvent` to `ShowResults`, `ShowConnected`) sends *before* it takes the lock
(`wifi_panel.cpp:194-206, 347-376`). A thread per join waits for an address and compares its generation before it
locks (`WaitChecks`, `WaitWrites`, `:528-548`). `Sends` and `Receives` are the two halves of
`wpa_ctrl_request` on the one socket: a reply goes to whoever reads first, or stays behind for the
next reader after a timeout. `Answer`, `ScanDone`, `ScanFails`, `Join`, `Outage` are `wpa_supplicant`, as the panel uses it.

### `PrintStatus`, `MCPrintStatus`

`Update` is the handling of a status message by the status screen, the home screen and the Objects
screen, in the order of the code: a changed file name starts afresh and asks for metadata (`FileChange`), a
changed state ends the print or begins it (`StateChange`), a change of `is_paused` lights the buttons
(`PauseChange`), a change of the objects closes or redraws (`ObjectChange`). `Snapshot` is what the
handshake's answer does, which goes another way. `HandleMetadata` takes any outstanding answer.
`TapButton`, `TapCancel`, `TapPart` open questions, `Answer` sends what the question decided when it opened.
Klipper (`Execute`, `Settle`) pauses in two halves, as its `PAUSE` macro does; other clients may send
the same commands. A print ends `complete`, `cancelled` or with an `error`; only the first two leave a summary, the third
just moves the screen to the background (`print_status_panel.cpp:454-468`).

## The runs

A dozen runs, one per question. None is expected to fail.

| run | instance | shows |
|---|---|---|
| `rpc_run` | 2 threads, 3 calls, 2 with a callback, 1 of them under the lock, 2 connection losses | the client implements `RpcPromise` and has every reply handled, except for calls whose sends overlapped; only those are mixed up or refused |
| `runout_dialog` | no M600, loads of 2 chunks, 1 script queued at Continue and Cancel, 2 at Load, 1 connection loss | feed and timer belong to an open dialog; a load keeps its budget, and no more chunks run than its own and those left over, when a chunk of an earlier dialog feeds on in it |
| `runout_watch` | no M600, loads of 1 chunk, 1 loss; the sensor may be disabled, files may change | a runout reaches the screen wherever the sensor is watched, unless it is told as the baseline or in a snapshot; Stop and Cancel take effect |
| `runout_m600` | with M600, which may fail, 1 loss; the sensor may be disabled | a runout reaches the screen, in the prompt or, after a failure, in the dialog, unless the line that tells of it is wasted |
| `init_settles` | 2 objects, 1 restart or loss, 1 change of a reading | after everything was heard State is the printer's; the overlay and the favourites are right but for one cause each; the panel comes up |
| `esteps_run` | 2 starts, up to 3 scripts and markers under way, 1 loss, any number of shutdowns of Klipper | a hot nozzle is guarded, Discard and RESULT are right, stages end, with the exceptions each property names |
| `wizard_run` | 2 starts, 1 loss | by whichever way out, Save & Restart included, the file holds what the screen said unless one of three races happened; a probe has its buttons; the stages without a button end |
| `extruder_run` | 2 levels of heat, loads of 2 chunks, 5 taps, 2 scripts queued at a tap, 1 loss, restart or target set by hand | one script at a time behind locked buttons; a heater is left on only for the causes named; a hotter target that the panel heard of is never lowered, and a wait is for a temperature that comes; nothing is fed behind a panel that was left; no lock is for good |
| `print_run` | 3 files (one in a USB folder, one without metadata), 1 spool, 4 taps, 1 event or loss | the list, the selection and the details are right once everything was heard; what is printed is what was tapped |
| `static_ip_run` | 2 networks, 2 processes, 2 saves, 1 revert, 2 visits, 1 roam, 1 power loss | interface and files agree but for the causes named, a snapshot is its network's lease unless it was taken in the dark or astray, `wlan0` is never left without address and client while a snapshot could be put back, the screen offers what is so, no entry is lost but to two changes at once |
| `wifi_run` | 2 networks, 3 taps, lost networks and late replies together, 1 rescan, any number of failed scans | once quiet, the list and the current network are `wpa_supplicant`'s, the spinner is gone, the label is true; a saved network is not asked for its password; each but for the causes named |
| `print_status` | 2 files of 2 parts, 2 prints, 2 taps, 1 command of another client or connection loss | the estimate is the print's own, its end is summarised, it can be paused and resumed, no print runs on with nothing in it; each but for the causes named |

`CHECK_DEADLOCK FALSE` is set everywhere: taps, connection losses and printer events are bounded,
so an instance comes to rest when the bounds are used up. What must not come to rest is stated as
a liveness property, or as an invariant of the states at rest (`Quiet`, `HeardAll`).

`wifi_run` and `print_status` use symmetry (networks; files and parts). Both check safety only, and
nothing in either module tells one network, file or part from another.

### Why the bounds are enough

* Every misbehaviour looked for needs at most two rounds: two sends that overlap, two dialogs with
  a chunk left over from the first, two runs of which the second starts over the first's
  scripts, two lists asked for at once. The bounds allow two of each (`MaxRuns = 2`,
  two threads with three calls, `MaxTaps = 4` which is select, Print, choose, start;
  5 in the extruder panel: open, start, give up, start again, give up again; two saves and a revert of two
  networks; two prints, of one file or of two).
* One connection loss reaches every state a loss can leave behind, since a reconnect starts the
  handshake from nothing; a second loss only repeats it. What carries over (`baselined`, the
  callback table, `refreshing_files`) is kept by the first.
* `MaxWire` of `FilamentRunout` is 1: a message that
  is under way when another is written is what matters there, and `ReportStatus` adds one to
  whatever the replies and prompts have put on the wire. `MaxScripts` and `MaxAtLoad` bound the scripts
  that wait when one is added: in `runout_dialog` a chunk and a cancel may wait when Load is tapped in the next
  dialog, so the first dialog's chunk is answered under the second's load. One chunk is enough for `TapsTakeEffect`: a
  feed that is stopped ends at the reply it waits for, whatever remains. `MaxUnderWay` bounds what may be under way *at a tap*
  and never stops a message.
* Each exception a property names (`overlapped`, `blind`, `interrupted`, ...) was checked to be needed: without
  it TLC finds the property violated under the same bounds, so the case it excuses does happen there. Only
  `unlisted` in `OnlyListingAsksAgain` takes a fourth tap. The instance with `MaxInputs = 4` has too many states
  for a run; without the rescan it has 10 million, was checked once, and all five properties hold there.
* The mutants in `PROJECT.json` are found under the same bounds, one or more for each property.

### Fairness

Fairness is on what the environment and the runtime do by themselves, and never on a tap, a loss,
a printer restart or a printer failure.

* `KWebSocketClient`: a thread that has begun to send goes on (`WF` of `Step` per thread; the lock
  is only held across these finite steps); Moonraker answers; the event loop reads.
* `FilamentRunout`: Klipper runs its queue, Moonraker reports what changed, `setReconnect` opens
  the connection again (`websocket_client.cpp:88-93`, without a limit on attempts), the event
  loop drains its socket, an `lv_timer` that is armed fires.
* `InitPanel`: the same, but that nothing makes a printer that is down come back: `ComesUp` is
  about one that stays up.
* `EstepsCalibration`, `RecalibrationWizard`: Klipper's scripts end, its timeout fires, restarts come up, the
  panel's timer fires.
* `ExtruderPanel`: an `lv_timer` that is armed fires, and nothing else: the buttons must come back
  without Klipper, the heater and the connection.
* `PrintPanel`, `StaticIp`, `WifiPanel` and `PrintStatus` state no liveness and assume no fairness.

## Where the code falls short of its own words

Properties that hold name the exceptions they need, and so say where the code does less than its
comments do:

* `SurfacesWhereWatched` (`runout_watch`): the baseline is taken once per process, from the first update, and a
  reconnect's snapshot goes to `State` without passing `consume()` (`filament_runout_panel.cpp:193`), so a
  runout between the first snapshot and the first update, or while the websocket is down, opens no
  dialog. `filament_runout_panel.h:12` promises one on a runout during a print.
* `RunoutSurfaces` (`runout_m600`): an error of M600 that comes before the update of the runout is
  dropped (`:168`), as is one while `State` is empty after a reconnection, where "a real failure never leaves
  the screen with nothing to tap" (`filament_runout_panel.h:21-25`). So is one lost with the connection.
* `OnlyOverlapLeavesHot` (`esteps_run`): Cancel returns to INTRO at once, while its script waits behind
  `M109`; a run started meanwhile leaves the hotend on with INTRO on the screen. Nothing else does.
* `StagesEnd` (`esteps_run`): a shutdown of Klipper during HEATING or EXTRUDING sends no marker, and the panel
  has no timer of its own, so the stage stays until Cancel is tapped (`esteps_calibration.cfg:74-80`).
* `OnlyBlindSavesSpoilSnapshot` (`static_ip_run`): "don't clobber a real DHCP snapshot with an
  already-static state" (`static_ip.py:79-89`) fails to protect a snapshot that was never taken: an entry saved while
  `wlan0` has no address leaves none (`blind`), and the next save records the static address as
  DHCP's. A roam between the check at `:379` and the snapshot records another network's. And nothing in
  `apply_static` or in a roam gives `wlan0` a lease again: Save on A, roam to B with A's address still in
  force, and the first Save on B records A's static address as B's DHCP state (`strays`), one tap after the other.
* `NeverStuck` (`static_ip_run`): "never stuck unconfigured" (`static_ip.py:289-306`) needs a snapshot. Without
  one the interface stays empty, and `remove` exits with 0 all the same, so the screen says that it worked
  (`"bare"`). And the fallback is itself a `configure_interface()` with nothing behind it: when its `ifconfig` raises
  (`:318-321, 337-343`), `wlan0` stays empty with `udhcpc` killed, as it does after `apply_static` raised (`"raised"`).
* `OnlyOverlapMisreads` (`wifi_run`): a reply of `wpa_supplicant` is read by the other thread
  only if both had commands under way, or a reply came after the timeout; then every later reply is one behind.
* `LastJoinHasTheLastWord` (`wifi_run`): a thread that waits for an address compares its generation
  before it locks (`wifi_panel.cpp:543`), so it may still overwrite the label of the join that came between; nor does
  a join that is ignored because a password is entered (`:361`) take a generation, so that the thread of the one before
  it goes on (both `outrun`).
* `QuietScreenIsRight` (`wifi_run`): a scan that the driver refuses ends with `CTRL-EVENT-SCAN-FAILED`, and one that was
  asked for is not repeated (`wpa_supplicant/wpa_supplicant/scan.c:200-222`). `handle_wpa_event` knows results and joins only
  (`wifi_panel.cpp:364, 436`), so the spinner that the screen was opened with, or a removal, goes on until another scan or
  join (`scanFailed`); so it does when the results come while a password is entered (`skipped`).
* `OnlyLateMetadataMisleads` (`print_status`): `handle_metadata` does not look whose metadata it gets
  (`print_status_panel.cpp:389-405`), and `reset()` keeps the file before. Metadata of an earlier print that arrives before
  this one's own stays if that is refused (`carried`), and replaces it if it arrives later (`overtaken`).
* `OnlyUnheardDims` (`print_status`): Pause and Resume dim when tapped and are lit by the next change of
  `is_paused` only (`print_status_panel.cpp:660`). After a command that was refused or lost, or
  a change a reconnect's snapshot brought, the button stays dim for the rest of the print (`unsure`).
* `OnlyBlindExclusionEmpties` (`print_status`): the question that offers to cancel instead counts the objects
  when it opens (`exclude_object_panel.cpp:302-328`); two exclusions asked for before the first was heard
  of leave a print running with nothing in it (`blind`).
* `OnlyRacesBreakPromises` (`wizard_run`): the offset is offered for choice on the line that
  precedes the macro's own save, which then overwrites the value picked (`hasty`);
  `recalibration_wizard_panel.h:29-30` says that nothing races. And a `z_offset` line does not say whose it is: the reading
  of a macro that the timer gave up on (`recalibration_wizard_panel.cpp:490-508`), heard after the next Start, takes that run
  from ZOFFSET to MESH (`:652-704`), and Save & Restart writes a new mesh beside the old offset (`misheard`).
* `OnlyUnheardMisleads` (`extruder_run`): "a manually-set hotter temperature is never lowered"
  (`extruder_panel.h:23-24`), but for one that came with the handshake's snapshot, which `consume()` never
  sees, or that is still on its way. In the same way an action leaves out its `M104` for a target that the panel's own
  cooldown is about to drop, and waits for a heat nobody asked for (`misjudged`).
* `BusyEnds` (`extruder_run`): a chunk's callback cancels the one timer before it looks whether
  its load is still on (`extruder_panel.cpp:586`), so a wait that began since has none (`disarmed`).
* `OnlyOverlapMixesUp` (`rpc_run`): two threads between `find` and `id++`.

## What is proved

`Connection_proofs` (the client and the handshake); `Filament_proofs` (both screens that feed filament);
`EstepsCalibration_proofs`; `PrintPanel_proofs`; `StaticIp_proofs`; `WifiPanel_proofs`;
`PrintStatus_proofs`; `RecalibrationWizard_proofs` prove theorems of the specification of each component
for every value of the constants that meets the module's named assumption; nothing is assumed besides.

* **The RPC client.** For any set of threads, calls and connection losses: `TypeCorrect`; `IdsAreDistinct`;
  `MixUpsNeedOverlap`: a callback that ran on another call's reply, or a refused call, was sent while another thread
  was sending. None of the three is inductive. `IInv` adds:
  where each thread is and which call it is sending, that two threads never send one call (`ThreadInv`); that every id on
  the wire or taken is below the counter and in one place only (`IdInv`); that an
  entry under an id below the counter belongs to the call that took that id, unless the two
  overlapped, and an entry at the counter to a thread between its insert and its `id++`
  (`TableInv`); what has become of a call that is on the wire (`SentInv`). The proof has a lemma per action. The delicate one
  is `TakeId`, which moves the counter over the entry just inserted; the second thread's
  interference is admitted there and nowhere else, which is why `overlapped` can be blamed.
* **The refinement.** `ImplementsPromise`: the client implements `RpcPromise`. `IInv` says that what is in
  the table is right; the refinement also needs that what must be in it is there. `PInv` adds: the entry of a call that no
  other send overlapped is there from its insert until its callback has run (`EntriesKept`); the
  entry about to be erased belongs to a request that is over (`HandlingInv`), so the erase takes nobody else's; a call is on
  the wire once (`OnceInv`), and no more once its callback ran (`RanInv`). Then `Stages` reads off how far
  a promised call is, and a lemma for each action that moves one names the step of `RpcPromise` it takes:
  `BeginAsks` (`Ask`, or `Clash` of all that overlap), `SendRequestLoses`, `AnswerServes`, `RunCallbackCompletes`,
  `CloseLoses`. The other actions move none (`HiddenSteps`).
* **The handshake.** For any set of objects and any number of restarts, lost connections and changes: `StateIsThePrinter`,
  that is `StateIsThePrinters`, and `ScreenTellsTheTruth`, that is `OnlyRefusalOrOvertakingMisleads`. Both properties are about a link on which
  nothing is under way, so neither is inductive: the invariants say, for a link that is not quiet, which message or
  which request will put right what is not right yet. Of an object list or a snapshot on the wire only one that no `ready` follows
  is about the printer's present objects, since `connected()` sweeps away what came before it (`Current`); a list is there or comes
  (`Listed`), so is the snapshot of a subscription, and after it no `ready` (`Delivered`); the last message that carries the
  reading carries the one last reported (`Followed`). For the screen: a Klipper that is up gets a subscription
  (`Subscribing`); one that is down is covered, will be, or was refused (`Covered`); the settings are there or
  come (`Configured`), and before the last snapshot unless it overtook them (`Pinned`). `WritingKeeps` and `ArrivalKeeps`
  say what a message that joins or leaves the wire does to the rest; `HandlingKeeps` is one proof for five of the six
  handlers. The sixth, `KlippyIsReady`, empties `State`: it is safe because a snapshot of the present
  subscription is still behind it.
* **The runout dialog.** For every length of load, bound and switch: `FeedAndTimerEndWithDialog`
  and `LoadNeverExceedsBudget`. The two are inductive together with the types of eight fields
  (`OwnTypes`); `PrinterSparesDialog` and `OthersPreserve` dispose of everything that does not
  touch these fields, which is all but a lost connection (`DisconnectPreserves`), `ShowPreserves` and `ClosePreserves` are used by each action that opens or
  closes the dialog. That a *stray* chunk of an earlier dialog cannot break the budget is the
  point: it takes from the same count.
* **The extruder panel.** For every load, temperature and bound: `NothingIsFedUnseen`. `NothingFeedsUnseen`
  alone is not inductive: Yes in the question about the spool starts a load without looking at
  the panel. `IInv` adds that the question is only up in front of the panel. `ChunkResponseKeeps`
  and `SafetyTimerKeeps` say that neither can bring a stopped load back. The other three are about what the
  panel has sent and Klipper not yet run, so their invariants quantify over the queue.
  `ButtonsStayLocked`, that is `LockedWhileItRuns`: a load, an action, a wait and the question exclude each other
  (`Turns`), and a script the panel waits for is counted where it is, in the queue or on the wire (`Locked`).
  `HeaterIsDropped`, that is `OnlyLeavingLeavesHot`: either the queue ends with the heater off, or the panel
  still has the cooldown in mind (`Cools`); a target set by hand is nobody's to drop (`Blamed`). `HotterIsKept`, that is
  `OnlyUnheardMisleads`: no heat command in the queue lowers what the script that decides before it leaves, whether that is
  Klipper's target or another command's (`Rises`), and once the queue has run the target reaches what is waited for (`Waits`).
* **The E-Steps calibration.** For any number of runs, scripts under way, lost connections and shutdowns: `EstepsTypes`;
  `HotendIsWatched`, that is `OnlyOverlapLeavesHot`; `ResultAndDiscardAreRight`, that is `RightUnlessUnheard`. Both
  properties are about a moment when nothing is queued or on its way, so the invariants say what the queue and the wire
  will still do. `HeatInv`: without an overlap a run begins with none of another's scripts and markers left, and its `ready` comes once
  (`Order`); a hot nozzle has the timeout armed, a script that cools it, a screen that asks for it, or the
  start of a run still in the queue, through each script that disarms the timeout and each marker that moves the
  stage (`Heat`). `RdInv`: in front of the screen the corrections not heard of yet lead from the value the visit began with to Klipper's
  (`Shown`), and after Discard the way back is the last change in the queue or was the last made (`Back`). `Stays`
  says what the fields of the screen say of one another, `Down` that a Klipper in shutdown has nothing to run and is cold.
* **The file browser.** For any files, folders and spools, and any number of changes, taps and requests under way: `PrintTypes`;
  `ListsTheDisk`, that is `OnlyOverlapMislists`; `ShowsTheFile`, that is `DetailsAreTheFiles`. Replies come in any order, so what is
  under way is a bag; `Goes` says which requests may leave it and which join in a step, with a lemma for each action, and
  the rest is proved from that. `RefreshInv`: a refresh marked as under way has its request, or the handshake will
  ask (`Refreshes`); without an overlap there is one request for the list (`OneRefresh`); the list is the
  disk's, or a right one is coming, or one after which it is asked for again (`ListComes`). `FileInv`: what is known of a file that has not changed
  is true of it (`KnownRight`), and the details of the file selected are right or will be brought up to date
  (`DetailInv`, `Awaited`); that no file or listing is younger than the last change keeps an old reply from
  passing for a new one (`DisksOld`, `ListingsOld`).
* **The question before a print.** `StartsTheTapped`, that is `PrintsTheTapped`: Print with no spool to ask about and Yes alone
  start a print, and while a path waits it is the one tapped (`TappedWaits`), whatever a refresh has selected since. `NamesTheSpool`,
  that is `OnlyOthersMislead`: until something misled the panel, what it has heard of the active spool is right or a
  reply is to come (`Heard`), and the question names that spool or the one whose choice is on its way, and no other choice is (`Named`).
  `StackInv` says which panels can be open together. The panels are a set with a relation, and not a
  sequence, since the prover has no facts about `SelectSeq`, with which one is taken out of a sequence. `PrintAssumption`
  says that `None` is no file and no spool.
* **The static IP back end.** For any set of networks and of processes, and any number of taps,
  roams and power losses: `OthersAreSpared`, that is `OnlyOverlapLosesEntries`. A process loads the whole
  file in one step and writes the whole of it back in another, so the theorem needs what holds in between.
  `IInv` says: a process about to save changes something (`SavesAreChanges`); without an overlap one process at
  a time does (`Alone`); and what it is about to write is the file but for its own network (`Current`). It also has the types
  these rest on, and that every process is about a network (`Aimed`), without which the snapshot it reads
  would be undefined. `SlotKeepsOrder` says that a step of one process keeps the order when nothing begins to change;
  `StartsKeeps` is the one place where an overlap may begin, and `LoadKeeps` the one where the file is read.
* **The way back to DHCP.** `WayBackEnds`, that is `NeverStuck`, however processes overlap and fail. On the way back the
  interface is emptied with no client running, and filled later. `Recovers` says that it is empty without a client only
  while a process is past its first command and before its last (`Reverting`), or since the last one to set it up had
  no snapshot or no address taken (`stranded`). Another process that kills the client meanwhile sets the interface up itself,
  or is such a process; a power loss kills them all and starts a client, so neither needs an exception.
  `StaticIpAssumption` says that `None` is no network and no address.
* **Files, interface and screen.** What the three promise each other only holds between processes, so each invariant says
  which step of which process will make it true again. `SnapshotsAreLeases`, that is `OnlyBlindSavesSpoilSnapshot`,
  over roams and overlaps: unless `wlan0` was set up for another network, an address in force that is no lease has its network's
  snapshot behind it already (`WlanRecorded`), since whoever is about to apply one took it and whoever puts one back
  found it (`JobRecorded`). `FilesAndInterfaceAgree`, that is
  `OnlyTroubleDisagrees`: as long as the radio does not roam everything is about the network in use (`Home`); a process that saved owns the entry of its network until it ends (`Owns`); that entry
  is in force, or a `set` is on its way there (`EntryInForce`); an address in no entry is about to be replaced
  (`NothingElse`). The roam is needed as an exception twice: a process then ends at the check, and one that reverts skips what is not
  its network. `ScreenIsRight`, that is `OnlyReopeningMisleads`: on a screen that was not reopened too early there is one
  process at most (`OneJob`), what it found is still so when it is heard of (`JobReports`), and so is what the screen says
  when none runs (`ScreenTells`). It holds over roams, but for what the label says.
* **The WiFi screen.** For any set of networks: `MisreadsNeedOverlap`, that is `OnlyOverlapMisreads`. `OneAtATime` says
  that as long as commands never overlapped and no reply was late, one thread waits at most, and its command, or the reply to
  it, is all that is on the socket. The delicate steps are the two sends: each may find the other thread waiting, and
  sets `overlapped` exactly then. `RowIsHiddenByLateEvents`, that is `OnlyLateEventHidesPassword`: a password that was not
  asked for amid an event is entered on a screen without a list, beside an event thread that stays idle (`RowStays`).
  The other three stand on `Base`: every command on the socket is awaited, or was given up and is counted as late (`Balance`);
  if none was misread or late, each is one sender's and the other is the other's (`Paired`); and each sender is at the
  point of its script its command belongs to (`EventAt`, `ScreenAt`). `OnlyAStaleListAsksAgain`, that is
  `OnlyListingAsksAgain`: a list that was read, or is on its way, holds every network known, but for one set up since
  (`ListRead`). `QuietShowsTheNetworks`, that is `QuietScreenIsRight`: what keeps the spinner on ends with a list
  (`SpinnerEnds`), a list is right or another one is coming (`Coming`, `ListRight`), and when all is quiet nothing is late
  (`QuietIsSilent`), so that *late* need not be an exception there. Nor need a network set up since: it is about to be
  selected, or to be joined (`JoinAt`, `NewIsSeen`), and the event of the join has the list read again. `LabelTellsTheLastJoin`, that is `LastJoinHasTheLastWord`: a
  join between its event and its label is the one excuse for a label, or a thread of the current generation, with another
  network (`Labelled`), and what is looked up meanwhile is the network joined last (`Named`). An attempt at this proof
  showed the property false from four inputs on: the ignored join is an exception since.
  `WifiAssumption` says that `None` is no network, thread, command or tap.
* **The print status screen.** For any files, parts, prints, taps, commands of other clients and losses of the
  connection. `ReportsInOrder` proves `Base`, on which the others stand: reports follow each other without a
  gap, from what the screen has to what was last reported (`Reports`, `Pending`), and each is one of the changes a print
  may make (`Changes`, `Life`). `MetadataIsTheFiles`, that is `OnlyLateMetadataMisleads`: the last request is for the file
  that is printed, and unless an earlier one is answered after it, what is shown waits for it, is from it, or arrived before
  it and was left there when it was refused (`OwnFile`). `EndsAreSummarised`, that is `EndIsSummarised`: reports come in the order of the prints (`InJobOrder`), so a
  screen whose last state is not a running one has a running report still to come (`Remembered`).
  `ButtonsAreLit`, that is `OnlyUnheardDims`: a dimmed button has its own command under way, or a change of `is_paused`
  between Klipper and the screen (`Coming`), through all of the queue (`ComingStays`). `ExclusionLeavesOne`, that is
  `OnlyBlindExclusionEmpties`: what was sent, with what Klipper has excluded, leaves a part (`LeavesOne`).
  `PrintStatusAssumption` says that there are parts, and that `None` is no file, part or status.
* **The recalibration wizard.** For any number of runs, scripts under way and losses of the websocket. Both properties are
  about a moment when nothing is under way, and rest on the order of Klipper's queue and of the lines it sent. `ProbeHasButtons`,
  that is `OnlyOverlapLosesProbe`: if no run began over another and no line was lost, a `PROBE_CALIBRATE` is the first script
  or comes right after the homing, and only what ends the probe follows it (`ComesFirst`); from then on the stage with its
  buttons is on the screen, or Accept or Abort is in the queue; and the last status line says what was told
  (`LastLine`). That homing outlasts a status tick is needed: a probe that ended and began again within one would never be told.
  `PromisesAreKept`, that is `OnlyRacesBreakPromises`, needs neither exception. For Save & Restart, DONE must mean that both
  values are pending: unless the offset was misheard it is Klipper's from the line that left ZOFFSET on (`Gathered`), and
  it still is when the `SAVE_CONFIG` is run (`Kept`). The mesh is the last script, and its line the last but for
  status lines (`MeshComesLast`, `MeshToldLast`), so the result is shown with an empty queue (`DoneIsLast`). Hence a `SAVE_CONFIG`
  that is still waiting when the next run starts is first in the queue (`SaveComesFirst`), and its restart takes that run's scripts along:
  the file is no longer the one that run started with, but nothing can get it past its first stage (`Barren`, `Unsaved`).
  The macro is in the queue only while its stage or the choice is on the screen, and the copy is then the file as it was at Start
  (`MacroIsShown`, `CopyIsBefore`).

Only model-checked: every liveness property (TLAPS has neither fairness nor `ENABLED`):
`EveryReplyHandled`, `TapsTakeEffect`, `SurfacesWhereWatched`, `RunoutSurfaces`, `ComesUp`, `StagesEnd`, `StepsEnd`, `BusyEnds`. Every
safety invariant and every action property of the runs is a theorem. Two further things are out of
the prover's reach: induction over data, since the library's induction theorems take an operator
as a parameter; and modules that reach a `RECURSIVE` operator, which is why no module here
declares one.

## Plan

The order is by what goes wrong most expensively on a printer. A dozen runs and forty properties are
the budget of the project: a further module takes the place of a weaker run (`runout_watch` and `runout_m600`
can be merged only if the instance is made smaller: together they take longer than five minutes).

1. **The notifications and prompts** (`notification_manager.cpp:61-240`: an error evicted by an
   information toast at `:163` or folded into one at `:157`; `prompt_panel.cpp:205-322`: a second
   prompt without an end of the first at `:275`, an end lost with the connection at `:315`).
2. **The mid-print gate** (`utils.cpp:193-212` and its callers): the printer is looked at when the
   button is tapped, the answer acts later (`:206`).
3. **The input shaper** (`inputshaper_panel.cpp:300-488, 649-769`: results of a run that was given
   up, `:401`; a lost line noticed by the watchdog alone, `:351`) with axis twist
   (`axis_twist_panel.cpp:241-400`: Accept tapped twice, `:375`).
4. **Start-up, sleep and configuration** (`guppyscreen.cpp:240-302`: a brightness of 0 remembered,
   `:280`; `config.cpp:205-230`: a file truncated and then written, `:228`, a tree shared by two
   threads, `:224`).

Hazards met in the components that are modelled, and covered by no property: a status delta
without the sensor's switch counts as switched on (`filament_runout_panel.cpp:225`); no reading
counts as filament present, so Continue may resume without (`:96`; nothing says what it should do);
a script sent without a connection is lost unnoticed (`websocket_client.cpp:184`: the
properties about heat exclude runs with a loss); `printer.cfg` is truncated before it is written
(`recalibration_wizard_panel.cpp:480`); the spool map is rebuilt without the lock
(`spoolman_panel.cpp:97`); the TMC Autotune row stays grey when two replies overtake each other
(`calibration_menu_panel.cpp:246`); Stop drops the heater while a chunk is still moving (`extruder_panel.cpp:688`,
where the automatic cooldown waits with `M400`: what the motion does below the queue is Klipper's);
the question before a print starts is asked of the printer as it was when it opened (`print_panel.cpp:459`).

Theorems: every invariant and action property a run checks is proved. A further module should bring its own along.

## What is not modelled, and why

* Drawing, layout, wording, themes, charts, touch geometry, sounds: no state that another part
  depends on.
* Panels that send one command computed from the last status (homing, fans, LEDs, power, limits, fine
  tuning, TMC forms, skew, retraction, bed mesh): each would restate one formula.
* Undefined behaviour of containers shared without a lock (`callbacks` as a `std::map`, the spool
  map): steps on the map are atomic in the models. What is checked is what goes wrong even so.
* The static IP subcommands `get`, `revert` and `apply-boot-hook`, which nothing in the repository runs, and the
  checks of what is typed; signal strength and networks out of range in the WiFi screen; times, layers and
  temperatures on the print status screen.
* In the modelled components: temperatures and amounts of filament, archived spools, jogging and nozzle cleaning in the wizard,
  unreadable files, replies that are only stored. `PROJECT.json` says so per component.
* Installer and service scripts, vendored code, generated assets.

## Running

`tlc -config <run>.cfg <module>` in this directory, with the module `PROJECT.json` names for the
run; `tlapm <module>_proofs.tla` for the proofs. Each run takes less than a minute with two workers.
