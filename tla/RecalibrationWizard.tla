-------------------------- MODULE RecalibrationWizard --------------------------
(***************************************************************************)
(* The recalibration wizard (src/src/recalibration_wizard_panel.cpp):      *)
(* paper test, bed mesh, and an optional reading of the load sensor, whose *)
(* macro saves printer.cfg by itself.  The panel copies printer.cfg before *)
(* that step and writes it behind Klipper's back: to restore the copy when *)
(* the step fails or times out, or to patch in the z_offset the user picks *)
(* -- while Klipper, which runs scripts one after another and loads the    *)
(* file only when it restarts, may not be done with the macro.             *)
(*                                                                         *)
(* Abstraction: printer.cfg is its z_offset and its mesh, and each value   *)
(* is where it comes from.  Files can be read and written.  Jogging, the   *)
(* nozzle cleaning macro, temperatures and wording are left out, and so is *)
(* the print whose presence makes the buttons refuse.  The overlay of the  *)
(* init panel takes the taps while Klipper or the connection is away.      *)
(***************************************************************************)
EXTENDS Naturals, Sequences

CONSTANTS
  MaxRuns,         \* bound on the taps of Start
  MaxUnderWay,     \* bound on scripts and lines under way at a tap
  MaxDrops         \* bound on the losses of the websocket

ASSUME WizardAssumption ==
  MaxRuns \in Nat /\ MaxUnderWay \in Nat /\ MaxDrops \in Nat

VARIABLES
  (* Klipper and its files *)
  cfg, backup,     \* printer.cfg and printer.cfg.bak-wizard-sensor
  pending,         \* what SAVE_CONFIG would write
  queue,           \* scripts, the first one may be under way
  phase,           \* how far the first script is
  probing,         \* a manual probe is in progress
  klippy,          \* "up" or restarting, "down"
  (* the websocket *)
  wire, toldProbing, connected, drops,
  (* RecalibrationWizardPanel *)
  front, stage, active, probeActive, stepActive, timer, backedUp,
  (* History *)
  runs,
  before,          \* printer.cfg when Start was last tapped
  outcome,         \* how the wizard was left since, or that refining failed
  hasty,           \* printer.cfg was written while the macro had yet to save it
  overlapped,      \* Start was tapped over scripts of an earlier run
  meshFailed,      \* BED_MESH_CALIBRATE failed, or its script was lost
  savedElsewhere,  \* another panel has run SAVE_CONFIG
  misheard         \* the offset shown is not the last that Klipper accepted

files   == <<cfg, backup>>
klipper == <<pending, queue, phase, probing, klippy>>
link    == <<toldProbing, connected, drops>>
probe   == <<active, probeActive>>
sensor  == <<stepActive, timer, backedUp>>
history == <<runs, before, outcome, hasty, overlapped, meshFailed, savedElsewhere,
             misheard>>
vars    == <<cfg, backup, pending, queue, phase, probing, klippy, wire,
             toldProbing, connected, drops, front, stage, active, probeActive,
             stepActive, timer, backedUp, runs, before, outcome, hasty,
             overlapped, meshFailed, savedElsewhere, misheard>>

Config  == [z : {"old", "paper", "sensor"}, mesh : {"old", "new"}]
Pending == [z : {"none", "paper"}, mesh : {"none", "new"}]
Nothing == [z |-> "none", mesh |-> "none"]
Stages  == {"INTRO", "ZOFFSET", "MESH", "DONE", "SENSOR_RUNNING", "SENSOR_CHOICE"}
Scripts == {"G28", "PROBE_CALIBRATE", "ACCEPT", "ABORT", "BED_MESH_CALIBRATE",
            "SAVE_CONFIG", "Z_OFFSET_CALIBRATION", "FIRMWARE_RESTART"}
Lines   == {"probing", "idle", "z_offset", "aborted", "mesh", "pr_err"}

TypeOK ==
  /\ cfg \in Config /\ before \in Config /\ backup \in Config \cup {Nothing}
  /\ pending \in Pending
  /\ queue \in Seq(Scripts) /\ phase \in {"start", "wait", "saving", "hung"}
  /\ phase # "start" => queue # <<>> /\ Head(queue) = "Z_OFFSET_CALIBRATION"
  /\ klippy \in {"up", "down"}
  /\ wire \in Seq(Lines)
  /\ {probing, toldProbing, connected, front, active, probeActive, stepActive,
      timer, backedUp, hasty, overlapped, meshFailed, savedElsewhere, misheard}
       \subseteq BOOLEAN
  /\ drops \in 0..MaxDrops /\ runs \in 0..MaxRuns
  /\ stage \in Stages
  /\ outcome \in {"none", "back", "save", "paper", "sensor", "discard", "failed"}

Init ==
  /\ cfg = [z |-> "old", mesh |-> "old"] /\ backup = Nothing /\ before = cfg
  /\ pending = Nothing /\ queue = <<>> /\ phase = "start"
  /\ probing = FALSE /\ klippy = "up"
  /\ wire = <<>> /\ toldProbing = FALSE /\ connected = TRUE /\ drops = 0
  /\ front = FALSE /\ stage = "INTRO"
  /\ active = FALSE /\ probeActive = FALSE
  /\ stepActive = FALSE /\ timer = FALSE /\ backedUp = FALSE
  /\ runs = 0 /\ outcome = "none"
  /\ hasty = FALSE /\ overlapped = FALSE /\ meshFailed = FALSE
  /\ savedElsewhere = FALSE /\ misheard = FALSE

-----------------------------------------------------------------------------
(* Klipper, as the panel uses it *)

Tell(line) == wire' = IF connected THEN Append(wire, line) ELSE wire

Runs(script) == klippy = "up" /\ queue # <<>> /\ Head(queue) = script
Finish       == queue' = Tail(queue) /\ phase' = "start"

(* G28 takes longer than a status tick.                                    *)
Homing ==
  /\ Runs("G28") /\ Finish
  /\ connected => toldProbing = probing
  /\ UNCHANGED <<files, pending, probing, klippy, wire, link, front, stage,
                 probe, sensor, history>>

(* PROBE_CALIBRATE ends by handing over to the manual probe, or fails.     *)
ProbeCalibrate ==
  /\ Runs("PROBE_CALIBRATE") /\ Finish
  /\ probing' \in {probing, TRUE}
  /\ UNCHANGED <<files, pending, klippy, wire, link, front, stage, probe,
                 sensor, history>>

(* ACCEPT and ABORT are commands only while a manual probe is in progress. *)
EndProbe ==
  /\ Runs("ACCEPT") \/ Runs("ABORT")
  /\ Finish
  /\ probing' = FALSE
  /\ IF ~probing THEN UNCHANGED <<pending, wire>>
     ELSE IF Runs("ACCEPT")
     THEN pending' = [pending EXCEPT !.z = "paper"] /\ Tell("z_offset")
     ELSE UNCHANGED pending /\ Tell("aborted")
  /\ misheard' = (misheard \/ (Runs("ACCEPT") /\ probing /\ stage = "MESH"))
  /\ UNCHANGED <<files, klippy, link, front, stage, probe, sensor, runs, before,
                 outcome, hasty, overlapped, meshFailed, savedElsewhere>>

BedMesh ==
  /\ Runs("BED_MESH_CALIBRATE") /\ Finish
  /\ \/ /\ pending' = [pending EXCEPT !.mesh = "new"]
        /\ Tell("mesh")
        /\ UNCHANGED meshFailed
     \/ /\ meshFailed' = TRUE
        /\ UNCHANGED <<pending, wire>>
  /\ UNCHANGED <<files, probing, klippy, link, front, stage, probe, sensor,
                 runs, before, outcome, hasty, overlapped, savedElsewhere,
                 misheard>>

(* Klipper starts again: scripts and unsaved values are gone.              *)
Restart ==
  /\ klippy' = "down"
  /\ queue' = <<>> /\ phase' = "start"
  /\ pending' = Nothing /\ probing' = FALSE /\ toldProbing' = FALSE
  /\ meshFailed' = (meshFailed \/ \E i \in DOMAIN queue :
                                    queue[i] = "BED_MESH_CALIBRATE")

(* What SAVE_CONFIG writes: printer.cfg with the pending values *)
Saved == [z    |-> IF pending.z = "none" THEN cfg.z ELSE pending.z,
          mesh |-> IF pending.mesh = "none" THEN cfg.mesh ELSE pending.mesh]

SaveOrRestart ==
  /\ Runs("SAVE_CONFIG") \/ Runs("FIRMWARE_RESTART")
  /\ cfg' = IF Runs("SAVE_CONFIG") THEN Saved ELSE cfg
  /\ Restart
  /\ UNCHANGED <<backup, wire, connected, drops, front, stage, probe, sensor,
                 runs, before, outcome, hasty, overlapped, savedElsewhere,
                 misheard>>

(* Z_OFFSET_CALIBRATION: it fails, hangs, or prints its reading and then   *)
(* saves it by itself, at times with a restart (recalibration_wizard_      *)
(* panel.h:22-26); whether the mesh is saved along is up to the firmware.  *)
SensorMacro ==
  /\ Runs("Z_OFFSET_CALIBRATION")
  /\ UNCHANGED <<backup, connected, drops, front, stage, probe, sensor, runs,
                 before, outcome, hasty, overlapped, savedElsewhere, misheard>>
  /\ \/ /\ phase = "start" /\ phase' \in {"wait", "hung"}
        /\ UNCHANGED <<cfg, pending, queue, probing, klippy, toldProbing, wire,
                       meshFailed>>
     \/ /\ phase = "wait" /\ phase' = "saving"
        /\ Tell("z_offset")
        /\ UNCHANGED <<cfg, pending, queue, probing, klippy, toldProbing,
                       meshFailed>>
     \/ /\ phase = "wait" /\ Finish
        /\ Tell("pr_err")
        /\ UNCHANGED <<cfg, pending, probing, klippy, toldProbing, meshFailed>>
     \/ /\ phase = "saving"
        /\ cfg' \in {[cfg EXCEPT !.z = "sensor"], [Saved EXCEPT !.z = "sensor"]}
        /\ \/ Restart
           \/ Finish /\ UNCHANGED <<pending, probing, klippy, toldProbing,
                                    meshFailed>>
        /\ UNCHANGED wire

KlippyUp ==
  /\ klippy = "down" /\ klippy' = "up"
  /\ UNCHANGED <<files, pending, queue, phase, probing, wire, link, front,
                 stage, probe, sensor, history>>

(* The status update with manual_probe in it *)
StatusTick ==
  /\ connected /\ toldProbing # probing
  /\ toldProbing' = probing
  /\ Tell(IF probing THEN "probing" ELSE "idle")
  /\ UNCHANGED <<files, klipper, connected, drops, front, stage, probe, sensor,
                 history>>

(* The connection is lost, and with it the lines under way; comes back.    *)
Drop ==
  /\ connected /\ drops < MaxDrops
  /\ connected' = FALSE /\ drops' = drops + 1
  /\ wire' = <<>> /\ toldProbing' = probing
  /\ UNCHANGED <<files, klipper, front, stage, probe, sensor, history>>

Reconnect ==
  /\ ~connected /\ connected' = TRUE
  /\ toldProbing' = probing
  /\ UNCHANGED <<files, klipper, wire, drops, front, stage, probe, sensor, history>>

(* SAVE_CONFIG from another panel *)
SaveElsewhere ==
  /\ ~front /\ connected /\ klippy = "up" /\ queue = <<>> /\ ~savedElsewhere
  /\ queue' = <<"SAVE_CONFIG">> /\ savedElsewhere' = TRUE
  /\ UNCHANGED <<files, pending, phase, probing, klippy, wire, link, front,
                 stage, probe, sensor, runs, before, outcome, hasty,
                 overlapped, meshFailed, misheard>>

-----------------------------------------------------------------------------
(* The panel: lines and status updates *)

Received(line) == wire # <<>> /\ Head(wire) = line /\ wire' = Tail(wire)

(* gcode_script(): lost, unnoticed, without Klipper or a connection        *)
Sent(scripts) ==
  queue' = IF connected /\ klippy = "up" THEN queue \o scripts ELSE queue

(* printer.cfg is written although the macro may save it once more.        *)
MacroUnfinished == "Z_OFFSET_CALIBRATION" \in {queue[i] : i \in DOMAIN queue}

(* consume(), which also enables and disables the jog buttons and Accept   *)
HearProbe ==
  /\ Received("probing") \/ Received("idle")
  /\ probeActive' = IF active THEN Head(wire) = "probing" ELSE probeActive
  /\ UNCHANGED <<files, klipper, link, front, stage, active, sensor, history>>

(* "Calibration aborted" *)
HearAborted ==
  /\ Received("aborted")
  /\ IF active /\ stage = "ZOFFSET"
     THEN active' = FALSE /\ stage' = "INTRO"
     ELSE UNCHANGED <<active, stage>>
  /\ UNCHANGED <<files, klipper, link, front, probeActive, sensor, history>>

(* The paper test's result starts the mesh, the sensor's ends its step.    *)
HearZOffset ==
  /\ Received("z_offset")
  /\ \/ /\ active /\ stage = "ZOFFSET"
        /\ probeActive' = FALSE
        /\ stage' = "MESH"
        /\ Sent(<<"BED_MESH_CALIBRATE">>)
        /\ meshFailed' = (meshFailed \/ klippy = "down")
        /\ misheard' = (pending.z # "paper" \/ \E i \in DOMAIN wire' :
                                                wire'[i] = "z_offset")
        /\ UNCHANGED <<active, sensor>>
     \/ /\ active /\ stage = "SENSOR_RUNNING"
        /\ timer' = FALSE /\ stepActive' = FALSE /\ active' = FALSE
        /\ stage' = "SENSOR_CHOICE"
        /\ UNCHANGED <<queue, probeActive, backedUp, meshFailed, misheard>>
     \/ /\ ~(active /\ stage \in {"ZOFFSET", "SENSOR_RUNNING"})
        /\ UNCHANGED <<queue, probe, stage, sensor, meshFailed, misheard>>
  /\ UNCHANGED <<files, pending, phase, probing, klippy, link, front, runs,
                 before, outcome, hasty, overlapped, savedElsewhere>>

(* "Mesh Bed Leveling Complete" *)
HearMesh ==
  /\ Received("mesh")
  /\ IF active /\ stage = "MESH"
     THEN active' = FALSE /\ stage' = "DONE"
     ELSE UNCHANGED <<active, stage>>
  /\ UNCHANGED <<files, klipper, link, front, probeActive, sensor, history>>

(* Mutant: the copy is not put back. *)
SensorRefineFailedKeeps ==
  /\ timer' = FALSE /\ active' = FALSE /\ stepActive' = FALSE
  /\ stage' = "INTRO" /\ outcome' = "failed"
  /\ UNCHANGED <<cfg, queue, hasty>>

(* sensor_refine_failed(): the copy is put back, and Klipper to load it.   *)
SensorRefineFailed ==
  /\ timer' = FALSE /\ active' = FALSE /\ stepActive' = FALSE
  /\ stage' = "INTRO" /\ outcome' = "failed"
  /\ IF backedUp
     THEN /\ cfg' = backup
          /\ hasty' = (hasty \/ MacroUnfinished)
          /\ Sent(<<"FIRMWARE_RESTART">>)
     ELSE UNCHANGED <<cfg, hasty, queue>>

(* PR_ERR_CODE *)
HearSensorError ==
  /\ Received("pr_err")
  /\ IF active /\ stage = "SENSOR_RUNNING"
     THEN SensorRefineFailed
     ELSE UNCHANGED <<timer, active, stepActive, stage, outcome, cfg, hasty, queue>>
  /\ UNCHANGED <<backup, pending, phase, probing, klippy, link, front,
                 probeActive, backedUp, runs, before, overlapped, meshFailed,
                 savedElsewhere, misheard>>

(* Mutant: the timer ends nothing. *)
SensorTimeoutIdle ==
  /\ timer /\ timer' = FALSE
  /\ UNCHANGED <<files, klipper, wire, link, front, stage, probe, stepActive,
                 backedUp, history>>

(* sensor_timeout_cb, after 8 minutes *)
SensorTimeout ==
  /\ timer
  /\ IF stepActive
     THEN SensorRefineFailed
     ELSE /\ timer' = FALSE
          /\ UNCHANGED <<active, stepActive, stage, outcome, cfg, hasty, queue>>
  /\ UNCHANGED <<backup, pending, phase, probing, klippy, wire, link, front,
                 probeActive, backedUp, runs, before, overlapped, meshFailed,
                 savedElsewhere, misheard>>

-----------------------------------------------------------------------------
(* The panel: taps *)

Tappable == front /\ connected /\ klippy = "up"
Room     == Len(queue) + Len(wire) < MaxUnderWay

Foreground ==
  /\ ~front /\ front' = TRUE
  /\ active' = FALSE /\ probeActive' = FALSE
  /\ stepActive' = FALSE /\ backedUp' = FALSE /\ timer' = FALSE
  /\ stage' = "INTRO"
  /\ UNCHANGED <<files, klipper, wire, link, history>>

TapIntroBack ==
  /\ Tappable /\ stage = "INTRO"
  /\ front' = FALSE
  /\ UNCHANGED <<files, klipper, wire, link, stage, probe, sensor, history>>

(* start_wizard() *)
TapStart ==
  /\ Tappable /\ stage = "INTRO" /\ Room /\ runs < MaxRuns
  /\ active' = TRUE /\ probeActive' = FALSE
  /\ stage' = "ZOFFSET"
  /\ Sent(<<"G28", "PROBE_CALIBRATE">>)
  /\ runs' = runs + 1 /\ before' = cfg /\ outcome' = "none" /\ misheard' = FALSE
  /\ overlapped' = (overlapped \/ queue # <<>> \/ wire # <<>> \/ probing)
  /\ UNCHANGED <<files, pending, phase, probing, klippy, wire, link, front,
                 sensor, hasty, meshFailed, savedElsewhere>>

(* Accept is enabled by the status updates, Abort always is.               *)
TapAccept ==
  /\ Tappable /\ stage = "ZOFFSET" /\ probeActive /\ Room
  /\ Sent(<<"ACCEPT">>)
  /\ UNCHANGED <<files, pending, phase, probing, klippy, wire, link, front,
                 stage, probe, sensor, history>>

(* Mutant: Abort only leaves the screen. *)
TapAbortSilent ==
  /\ Tappable /\ stage = "ZOFFSET" /\ Room
  /\ active' = FALSE /\ stage' = "INTRO"
  /\ UNCHANGED <<files, klipper, wire, link, front, probeActive, sensor,
                 history>>

TapAbort ==
  /\ Tappable /\ stage = "ZOFFSET" /\ Room
  /\ Sent(<<"ABORT">>)
  /\ active' = FALSE /\ stage' = "INTRO"
  /\ UNCHANGED <<files, pending, phase, probing, klippy, wire, link, front,
                 probeActive, sensor, history>>

(* Mutant: Save restarts Klipper before it saves. *)
TapSaveOrBackRestarts ==
  /\ Tappable /\ stage = "DONE" /\ Room
  /\ \/ Sent(<<"FIRMWARE_RESTART", "SAVE_CONFIG">>) /\ outcome' = "save"
     \/ Sent(<<"G28">>) /\ outcome' = "back"
  /\ front' = FALSE
  /\ UNCHANGED <<files, pending, phase, probing, klippy, wire, link, stage,
                 probe, sensor, runs, before, hasty, overlapped, meshFailed,
                 savedElsewhere, misheard>>

(* DONE: leave with or without saving *)
TapSaveOrBack ==
  /\ Tappable /\ stage = "DONE" /\ Room
  /\ \/ Sent(<<"SAVE_CONFIG">>) /\ outcome' = "save"
     \/ Sent(<<"G28">>) /\ outcome' = "back"
  /\ front' = FALSE
  /\ UNCHANGED <<files, pending, phase, probing, klippy, wire, link, stage,
                 probe, sensor, runs, before, hasty, overlapped, meshFailed,
                 savedElsewhere, misheard>>

(* start_sensor_refine() *)
TapRefine ==
  /\ Tappable /\ stage = "DONE" /\ Room
  /\ backup' = cfg /\ backedUp' = TRUE
  /\ stepActive' = TRUE /\ active' = TRUE /\ timer' = TRUE
  /\ stage' = "SENSOR_RUNNING"
  /\ Sent(<<"G28", "Z_OFFSET_CALIBRATION">>)
  /\ UNCHANGED <<cfg, pending, phase, probing, klippy, wire, link, front,
                 probeActive, history>>

(* apply_sensor_choice() patches the z_offset, apply_discard_all() puts    *)
(* the copy back; Klipper is to load the file.                             *)
TapChoice ==
  /\ Tappable /\ stage = "SENSOR_CHOICE" /\ Room
  /\ \/ \E z \in {"paper", "sensor"} :
          /\ cfg' = [cfg EXCEPT !.z = z]
          /\ outcome' = z
     \/ cfg' = backup /\ outcome' = "discard"
  /\ hasty' = (hasty \/ MacroUnfinished)
  /\ Sent(<<"FIRMWARE_RESTART">>)
  /\ front' = FALSE
  /\ UNCHANGED <<backup, pending, phase, probing, klippy, wire, link, stage,
                 probe, sensor, runs, before, overlapped, meshFailed,
                 savedElsewhere, misheard>>

Scripted == \/ Homing \/ ProbeCalibrate \/ EndProbe \/ BedMesh \/ SaveOrRestart
            \/ SensorMacro
Hear     == \/ HearProbe \/ HearAborted \/ HearZOffset \/ HearMesh
            \/ HearSensorError
Taps     == \/ Foreground \/ TapIntroBack \/ TapStart \/ TapAccept \/ TapAbort
            \/ TapSaveOrBack \/ TapRefine \/ TapChoice

Next == \/ Scripted \/ KlippyUp \/ StatusTick \/ Drop \/ Reconnect
        \/ SaveElsewhere \/ Hear \/ SensorTimeout \/ Taps

Spec == Init /\ [][Next]_vars

(* Klipper runs its queue and comes back from a restart, the client        *)
(* reconnects, the event loop hands lines on and LVGL fires its timer.     *)
Fairness ==
  /\ WF_vars(Scripted) /\ WF_vars(KlippyUp) /\ WF_vars(Reconnect)
  /\ WF_vars(StatusTick) /\ WF_vars(Hear) /\ WF_vars(SensorTimeout)

FairSpec == Spec /\ Fairness

-----------------------------------------------------------------------------
(* Properties *)

Settled == /\ queue = <<>> /\ wire = <<>> /\ klippy = "up"
           /\ connected /\ toldProbing = probing

(* However the wizard ends, printer.cfg holds what the screen said: the    *)
(* new mesh with the offset that was accepted, the value picked, or the    *)
(* file as it was at Start (recalibration_wizard_panel.cpp:675-680,        *)
(* 751-755, 599-601, 518-521, 724-729).  The offset is not the accepted    *)
(* one where the panel took the line of an earlier run's for this run's,   *)
(* or Klipper accepted another after it; the mesh is saved all the same.   *)
Promised ==
  /\ outcome = "save" => cfg.mesh = "new" /\ (cfg.z = "paper" \/ misheard)
  /\ outcome \in {"paper", "sensor"} => cfg.z = outcome
  /\ outcome \in {"back", "discard", "failed"} => cfg = before

(* Two more things alone break that: a file written before the macro was   *)
(* done with it, although its one response leaves "nothing sent after the  *)
(* one response that could race anything" (recalibration_wizard_panel.h:   *)
(* 29-30), and values left behind by Back that another panel's SAVE_CONFIG *)
(* picks up.                                                               *)
OnlyRacesBreakPromises ==
  Settled => Promised \/ hasty \/ savedElsewhere

(* A manual probe waits for a user who has its buttons on the screen       *)
(* (recalibration_wizard_panel.cpp:386-389), unless a run was started over *)
(* an earlier one or a line was lost.                                      *)
OnlyOverlapLosesProbe ==
  Settled /\ probing =>
    \/ front /\ stage = "ZOFFSET" /\ probeActive
    \/ overlapped \/ drops > 0

(* The two stages without a button end, the sensor's in any case, the      *)
(* mesh's unless the mesh failed or its line was lost.                     *)
StepsEnd ==
  /\ stage = "SENSOR_RUNNING" ~> stage # "SENSOR_RUNNING"
  /\ stage = "MESH" ~> stage # "MESH" \/ meshFailed \/ drops > 0
=============================================================================
