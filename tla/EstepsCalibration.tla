--------------------------- MODULE EstepsCalibration ---------------------------
(***************************************************************************)
(* The guided E-Steps calibration: the panel                               *)
(* (src/src/esteps_calibration_panel.cpp) that the RESPOND markers of a    *)
(* set of macros drive, and the macros themselves                          *)
(* (src/k1/k1_mods/klipper_mods/esteps_calibration/esteps_calibration.cfg).*)
(* Klipper runs scripts one after another, so a script the panel sends may *)
(* wait behind one it sent long before, and the markers of both come back  *)
(* to the same panel.  A websocket that is lost takes along what is on its *)
(* way in either direction; a Klipper that shuts down, by a fault or an    *)
(* emergency stop, ends the macro under way and refuses every other.       *)
(*                                                                         *)
(* Abstraction: rotation_distance on a logarithmic scale, in steps of one  *)
(* correction: a measurement that is off adds 1.  Temperatures are left    *)
(* out (the hotend is hot enough when M109 returns), and so is the print   *)
(* whose presence makes start_calibration() refuse.                        *)
(***************************************************************************)
EXTENDS Naturals, Sequences

CONSTANTS
  MaxRuns,         \* bound on the taps of Start and Verify Again
  MaxUnderWay,     \* bound on scripts and markers under way at a tap
  MaxRd,           \* bound on rotation_distance
  MaxDrops         \* bound on the losses of the websocket

ASSUME EstepsAssumption ==
  /\ MaxRuns \in Nat /\ MaxUnderWay \in Nat /\ MaxRd \in Nat /\ MaxDrops \in Nat

VARIABLES
  (* Klipper *)
  queue,           \* scripts, the first one may be under way
  phase,           \* "start", or "wait" within the first script
  timer,           \* delayed_gcode _CALIBRATE_ESTEPS_TIMEOUT is armed
  heater,          \* the hotend has a target
  ready,           \* not in shutdown
  rd,              \* rotation_distance
  (* the websocket *)
  wire,            \* notify_gcode_response markers on their way
  connected, drops,
  (* EstepsCalibrationPanel *)
  front,           \* the panel is in the foreground
  stage, active, haveOriginal, originalRd,
  shownRd,         \* the new value on the RESULT screen
  (* History *)
  runs,            \* taps of Start and Verify Again
  origin,          \* rotation_distance when the panel was opened
  discarded,       \* Discard was tapped since then, and no shutdown took it
  halted,          \* Klipper has shut down since the run was started, or
                   \* was down then
  overlapped,      \* a run was started over scripts of an earlier one
  unheard          \* a correction of an earlier visit, or one the panel did
                   \* not hear of, may have been made

klipper == <<queue, phase, timer, heater, ready, rd>>
link    == <<wire, connected, drops>>
memory  == <<haveOriginal, originalRd, shownRd>>
panel   == <<front, stage, active, memory>>
history == <<runs, origin, discarded, halted, overlapped, unheard>>
vars    == <<queue, phase, timer, heater, ready, rd, wire, connected, drops,
             front, stage, active, haveOriginal, originalRd, shownRd, runs,
             origin, discarded, halted, overlapped, unheard>>

Stages  == {"INTRO", "HEATING", "MARK", "EXTRUDING", "MEASURE", "RESULT"}
Rds     == 0..MaxRd
Scripts == [name : {"calibrate", "extrude", "cancel", "apply", "set",
                    "cool", "timeout"}, rd : Rds]
Markers == [kind : {"heating", "ready", "progress", "done", "cancelled",
                    "applied", "error"}, old : Rds, new : Rds]

TypeOK ==
  /\ queue \in Seq(Scripts) /\ phase \in {"start", "wait"}
  /\ phase = "wait" => queue # <<>> /\ Head(queue).name \in {"calibrate", "extrude"}
  /\ wire \in Seq(Markers)
  /\ {timer, heater, ready, connected, front, active, haveOriginal,
      discarded, halted, overlapped, unheard} \subseteq BOOLEAN
  /\ {rd, originalRd, shownRd, origin} \subseteq Rds
  /\ stage \in Stages
  /\ runs \in 0..MaxRuns /\ drops \in 0..MaxDrops

Init ==
  /\ queue = <<>> /\ phase = "start"
  /\ timer = FALSE /\ heater = FALSE /\ ready = TRUE /\ rd = 0
  /\ wire = <<>> /\ connected = TRUE /\ drops = 0
  /\ front = FALSE /\ stage = "INTRO" /\ active = FALSE
  /\ haveOriginal = FALSE /\ originalRd = 0 /\ shownRd = 0
  /\ runs = 0 /\ origin = 0
  /\ discarded = FALSE /\ halted = FALSE
  /\ overlapped = FALSE /\ unheard = FALSE

-----------------------------------------------------------------------------
(* Klipper: the macros *)

Respond(kind) ==
  wire' = IF connected THEN Append(wire, [kind |-> kind, old |-> rd, new |-> rd])
          ELSE wire

Runs(name) == queue # <<>> /\ Head(queue).name = name
Finish     == queue' = Tail(queue) /\ phase' = "start"

(* Mutant: the timeout is left out.                                        *)
CalibrateUntimed ==
  /\ Runs("calibrate")
  /\ \/ /\ phase = "start" /\ phase' = "wait"
        /\ heater' = TRUE
        /\ Respond("heating")
        /\ UNCHANGED <<queue, timer>>
     \/ /\ phase = "wait" /\ Finish
        /\ Respond("ready")
        /\ UNCHANGED <<heater, timer>>
  /\ UNCHANGED <<ready, rd, connected, drops, panel, history>>

(* CALIBRATE_ESTEPS heats, waits in M109 and arms the timeout at its end.  *)
Calibrate ==
  /\ Runs("calibrate")
  /\ \/ /\ phase = "start" /\ phase' = "wait"
        /\ heater' = TRUE
        /\ Respond("heating")
        /\ UNCHANGED <<queue, timer>>
     \/ /\ phase = "wait" /\ Finish
        /\ Respond("ready")
        /\ timer' = TRUE
        /\ UNCHANGED heater
  /\ UNCHANGED <<ready, rd, connected, drops, panel, history>>

(* _CALIBRATE_ESTEPS_EXTRUDE disarms it; without heat the extrusion may    *)
(* fail, which ends the macro.                                             *)
Extrude ==
  /\ Runs("extrude")
  /\ \/ /\ phase = "start" /\ phase' = "wait"
        /\ timer' = FALSE
        /\ Respond("progress")
        /\ UNCHANGED queue
     \/ /\ phase = "wait" /\ Finish
        /\ \/ Respond("done")
           \/ ~heater /\ Respond("error")
        /\ UNCHANGED timer
  /\ UNCHANGED <<heater, ready, rd, connected, drops, panel, history>>

(* _CALIBRATE_ESTEPS_CANCEL and the timeout's own commands *)
Cancel ==
  /\ Runs("cancel") \/ Runs("timeout")
  /\ Finish
  /\ timer' = (timer /\ Runs("timeout"))
  /\ heater' = FALSE
  /\ Respond("cancelled")
  /\ UNCHANGED <<ready, rd, connected, drops, panel, history>>

(* The delayed gcode fires and queues for the G-code lock.                 *)
Timeout ==
  /\ timer /\ timer' = FALSE
  /\ queue' = Append(queue, [name |-> "timeout", rd |-> 0])
  /\ UNCHANGED <<phase, heater, ready, rd, link, panel, history>>

(* CALIBRATE_ESTEPS_APPLY corrects rotation_distance by the measurement,   *)
(* exact or off, and refuses one that makes no sense.                      *)
Apply ==
  /\ Runs("apply")
  /\ Finish
  /\ \/ Respond("error") /\ UNCHANGED <<rd, unheard>>
     \/ \E new \in {rd, rd + 1} \cap Rds :
          /\ rd' = new
          /\ wire' = IF connected
                     THEN Append(wire, [kind |-> "applied", old |-> rd, new |-> new])
                     ELSE wire
          /\ unheard' = (unheard \/ ~connected)
  /\ UNCHANGED <<timer, heater, ready, connected, drops, panel, runs, origin,
                 discarded, halted, overlapped>>

(* SET_EXTRUDER_ROTATION_DISTANCE, and M104 S0 *)
SetOrCool ==
  /\ Runs("set") \/ Runs("cool")
  /\ Finish
  /\ rd' = IF Runs("set") THEN Head(queue).rd ELSE rd
  /\ heater' = (heater /\ Runs("set"))
  /\ UNCHANGED <<timer, ready, link, panel, history>>

(* The connection is lost, and with it the markers under way; comes back.  *)
Drop ==
  /\ connected /\ drops < MaxDrops
  /\ connected' = FALSE /\ drops' = drops + 1
  /\ wire' = <<>>
  /\ unheard' = (unheard \/ \E i \in DOMAIN wire : wire[i].kind = "applied")
  /\ UNCHANGED <<klipper, panel, runs, origin, discarded, halted, overlapped>>

Reconnect ==
  /\ ~connected /\ connected' = TRUE
  /\ UNCHANGED <<klipper, wire, drops, panel, history>>

(* Klipper shuts down: the heaters go off, M109 returns to a macro that is *)
(* not allowed its next line, and what waited fails.  No marker is sent,   *)
(* and the panel, which has no handler for it, stays as it is.             *)
Shutdown ==
  /\ ready /\ ready' = FALSE
  /\ queue' = <<>> /\ phase' = "start"
  /\ timer' = FALSE /\ heater' = FALSE
  /\ discarded' = (discarded /\ \A i \in DOMAIN queue : queue[i].name # "set")
  /\ halted' = TRUE
  /\ UNCHANGED <<rd, link, panel, runs, origin, overlapped, unheard>>

(* FIRMWARE_RESTART; the saved rotation_distance is loaded again.          *)
Restart ==
  /\ ~ready /\ ready' = TRUE
  /\ UNCHANGED <<queue, phase, timer, heater, rd, link, panel, history>>

-----------------------------------------------------------------------------
(* The panel: markers *)

Received(kind) == wire # <<>> /\ Head(wire).kind = kind /\ wire' = Tail(wire)

Hears(kind, new) ==
  /\ Received(kind)
  /\ stage' = IF active THEN new ELSE stage
  /\ UNCHANGED <<klipper, connected, drops, front, active, memory, history>>

HearProgress == \/ Hears("heating", stage) \/ Hears("ready", "MARK")
                \/ Hears("progress", "EXTRUDING") \/ Hears("done", "MEASURE")
                \/ Hears("error", stage)

(* Mutant: the panel only notes that nothing runs any more.                *)
HearCancelledStays ==
  /\ Received("cancelled")
  /\ active' = FALSE
  /\ UNCHANGED <<klipper, connected, drops, front, stage, memory, history>>

(* ESTEPS_CANCELLED: back on INTRO *)
HearCancelled ==
  /\ Received("cancelled")
  /\ active' = FALSE
  /\ stage' = IF active THEN "INTRO" ELSE stage
  /\ UNCHANGED <<klipper, connected, drops, front, memory, history>>

(* Mutant: the original value is taken from the last correction.           *)
HearAppliedOverwrites ==
  /\ Received("applied")
  /\ active' = FALSE
  /\ IF active
     THEN /\ haveOriginal' = TRUE
          /\ originalRd' = Head(wire).old
          /\ shownRd' = Head(wire).new
          /\ stage' = "RESULT"
          /\ UNCHANGED unheard
     ELSE unheard' = TRUE /\ UNCHANGED <<stage, memory>>
  /\ UNCHANGED <<klipper, connected, drops, front, runs, origin, discarded,
                 halted, overlapped>>

(* ESTEPS_APPLIED: the first one since foreground() has the value Discard  *)
(* goes back to.                                                           *)
HearApplied ==
  /\ Received("applied")
  /\ active' = FALSE
  /\ IF active
     THEN /\ haveOriginal' = TRUE
          /\ originalRd' = IF haveOriginal THEN originalRd ELSE Head(wire).old
          /\ shownRd' = Head(wire).new
          /\ stage' = "RESULT"
          /\ UNCHANGED unheard
     ELSE unheard' = TRUE /\ UNCHANGED <<stage, memory>>
  /\ UNCHANGED <<klipper, connected, drops, front, runs, origin, discarded,
                 halted, overlapped>>

-----------------------------------------------------------------------------
(* The panel: taps *)

Quiet == queue = <<>> /\ wire = <<>>
Room  == Len(queue) + Len(wire) < MaxUnderWay

(* gcode_script(): lost, unnoticed, without a connection, or refused       *)
Sent(scripts) ==
  queue' = IF connected /\ ready THEN queue \o scripts ELSE queue
Script(name)  == [name |-> name, rd |-> 0]

(* The panel is opened: it forgets the run before. *)
Foreground ==
  /\ ~front /\ front' = TRUE
  /\ stage' = "INTRO" /\ active' = FALSE /\ haveOriginal' = FALSE
  /\ origin' = rd /\ discarded' = FALSE
  /\ unheard' = \/ \E i \in DOMAIN queue : queue[i].name \in {"apply", "set"}
                \/ \E i \in DOMAIN wire : wire[i].kind = "applied"
  /\ UNCHANGED <<klipper, link, originalRd, shownRd, runs, halted, overlapped>>

(* Back on INTRO; "Done" comes with M104 S0, "Discard" with the way back.  *)
TapBack ==
  /\ front /\ stage = "INTRO"
  /\ front' = FALSE
  /\ UNCHANGED <<klipper, link, stage, active, memory, history>>

TapDone ==
  /\ front /\ stage = "RESULT" /\ Room
  /\ front' = FALSE
  /\ Sent(<<Script("cool")>>)
  /\ UNCHANGED <<phase, timer, heater, ready, rd, link, stage, active, memory,
                 history>>

TapDiscard ==
  /\ front /\ stage = "RESULT" /\ Room
  /\ front' = FALSE
  /\ Sent((IF haveOriginal THEN <<[name |-> "set", rd |-> originalRd]>>
                           ELSE <<>>) \o <<Script("cool")>>)
  /\ discarded' = ready
  /\ UNCHANGED <<phase, timer, heater, ready, rd, link, stage, active, memory,
                 runs, origin, halted, overlapped, unheard>>

(* start_calibration() *)
TapStart ==
  /\ front /\ stage \in {"INTRO", "RESULT"} /\ Room /\ runs < MaxRuns
  /\ active' = TRUE /\ stage' = "HEATING"
  /\ Sent(<<Script("calibrate")>>)
  /\ runs' = runs + 1
  /\ overlapped' = (overlapped \/ ~Quiet)
  /\ halted' = ~ready
  /\ UNCHANGED <<phase, timer, heater, ready, rd, link, front, memory, origin,
                 discarded, unheard>>

TapExtrude ==
  /\ front /\ stage = "MARK" /\ Room
  /\ active' = TRUE /\ stage' = "EXTRUDING"
  /\ Sent(<<Script("extrude")>>)
  /\ UNCHANGED <<phase, timer, heater, ready, rd, link, front, memory, history>>

(* apply_measurement(): the screen stays until the macro has answered.     *)
TapApply ==
  /\ front /\ stage = "MEASURE" /\ Room
  /\ active' = TRUE
  /\ Sent(<<Script("apply")>>)
  /\ UNCHANGED <<phase, timer, heater, ready, rd, link, front, stage, memory,
                 history>>

(* cancel_active_run(): back on INTRO at once                              *)
TapCancel ==
  /\ front /\ stage \in {"HEATING", "MARK", "EXTRUDING", "MEASURE"} /\ Room
  /\ active' = FALSE /\ stage' = "INTRO"
  /\ Sent(<<Script("cancel")>>)
  /\ UNCHANGED <<phase, timer, heater, ready, rd, link, front, memory, history>>

Macros == Calibrate \/ Extrude \/ Cancel \/ Apply \/ SetOrCool
Hear   == HearProgress \/ HearCancelled \/ HearApplied
Taps   == \/ Foreground \/ TapBack \/ TapDone \/ TapDiscard \/ TapStart
          \/ TapExtrude \/ TapApply \/ TapCancel

Next == \/ Macros \/ Timeout \/ Shutdown \/ Restart \/ Drop \/ Reconnect
        \/ Hear \/ Taps

Spec == Init /\ [][Next]_vars

(* Klipper runs its queue and fires its timer, the client reconnects, the  *)
(* event loop hands markers on; the user need not tap anything, nor        *)
(* restart a Klipper that has shut down.                                   *)
Fairness ==
  /\ WF_vars(Macros) /\ WF_vars(Timeout) /\ WF_vars(Reconnect) /\ WF_vars(Hear)

FairSpec == Spec /\ Fairness

-----------------------------------------------------------------------------
(* Properties *)

(* A hot nozzle with nothing left to run is either waiting for the         *)
(* timeout, or the screen in front has the buttons that cool it.           *)
Guarded == timer \/ (front /\ stage \in {"EXTRUDING", "MEASURE", "RESULT"})

(* While nobody starts a run over the scripts of another and the           *)
(* connection holds, the hotend is never left on unattended                *)
(* (esteps_calibration.cfg:26-29).                                         *)
OnlyOverlapLeavesHot ==
  Quiet /\ heater => Guarded \/ overlapped \/ drops > 0

(* The RESULT screen and Discard go by what the panel has heard: they are  *)
(* right unless a correction was made behind its back, or a shutdown of    *)
(* Klipper took the way back that Discard sent                             *)
(* (esteps_calibration_panel.cpp:485-515, 581-588).                        *)
RightUnlessUnheard ==
  Quiet /\ ~unheard /\ drops = 0 =>
    /\ front /\ stage = "RESULT" => shownRd = rd
    /\ discarded /\ ~front => rd = origin

(* The panel does not stay in a stage that only a marker can end           *)
(* (esteps_calibration_panel.h:18-25) while the connection holds, unless   *)
(* Klipper shuts down during the run or is down as it begins: a macro that *)
(* is ended so sends no marker (esteps_calibration.cfg:74-80), and Cancel  *)
(* is the only way on.  A run over the scripts of another ends its stages  *)
(* all the same, and so does the first one after a shutdown.               *)
StagesEnd ==
  stage \in {"HEATING", "EXTRUDING"} ~>
    stage \notin {"HEATING", "EXTRUDING"} \/ drops > 0 \/ halted
=============================================================================
