--------------------------- MODULE FilamentRunout ---------------------------
(***************************************************************************)
(* The filament runout dialog (src/src/filament_runout_panel.cpp): the     *)
(* sensor watch in consume(), the Load/Stop feed that asks for one chunk   *)
(* at a time, Continue, Cancel with its 10 s fallback timer, and the       *)
(* hand-off to the M600 macro.  Three parties take steps: the LVGL thread  *)
(* (taps and timers), the event loop (messages, in order), and, outside    *)
(* src/, Klipper behind Moonraker (its serial G-code queue, its status     *)
(* tick, its sensor).                                                      *)
(*                                                                         *)
(* Abstraction: print_stats.state is one of standby, printing and paused   *)
(* (complete, cancelled and error behave as standby does); the feed is     *)
(* counted in chunks of 10 mm; the sensor's reading does not flip twice    *)
(* within one 250 ms status tick, and its switch is not turned while a     *)
(* message is on its way to the panel.                                     *)
(***************************************************************************)
EXTENDS Naturals, Sequences

CONSTANTS
  LoadChunks,      \* RUNOUT_LOAD_TOTAL_MM / RUNOUT_LOAD_CHUNK_MM
  HasM600,         \* the printer has a gcode_macro M600
  MaxDrops,        \* bound on the losses of the websocket
  CanDisable,      \* somebody may turn the sensor off and on
  CanListFiles,    \* a file may change before the subscription is answered
  MaxWire,         \* bound on the messages under way when a tick adds one
  MaxScripts,      \* bounds on the scripts waiting in Klipper when another
  MaxAtLoad,       \*   joins them, and when Load is tapped
  None             \* no message

ASSUME LoadAssumption ==
  /\ LoadChunks \in Nat \ {0}
  /\ {HasM600, CanDisable, CanListFiles} \subseteq BOOLEAN
  /\ MaxDrops \in Nat
  /\ MaxWire \in Nat
  /\ MaxScripts \in Nat /\ MaxAtLoad \in Nat

VARIABLES
  (* Klipper and Moonraker *)
  print,           \* print_stats.state
  filament,        \* the sensor's reading
  sensor,          \* the sensor's enabled flag
  reported,        \* what the status subscription last reported
  scripts,         \* scripts Klipper has accepted, run one after another
  online,
  drops,           \* losses of the websocket so far
  subscribed,      \* the status subscription of this connection is answered
  wire,            \* messages on their way to the panel
  (* The event loop *)
  arriving,        \* message State has consumed and the panel has not
  st,              \* State's cached reading of print and sensor
  promptVisible,   \* PromptPanel::is_visible()
  (* FilamentRunoutPanel *)
  mbox, baselined, filKey, lastDetected, pendingFallback,
  loadActive, loadStop, loadRemaining, cancelling, cancelTimeout,
  (* History *)
  awaiting,        \* chunk callbacks that can still be called
  asked,           \* chunks asked for by the load under way
  strays,          \* of awaiting, those of earlier ones when it was tapped
  unseen,          \* whether there is a runout, of a sensor still on, that
                   \* nobody was told of: "noticed" once consume() was told,
                   \* "missed" once what should tell of it went by
  lastTold         \* the reading consume() was told last

printer == <<print, filament, sensor>>
websocket == <<online, drops, subscribed, reported>>
hearing == <<arriving, st, promptVisible>>
panel   == <<mbox, cancelling, cancelTimeout, baselined, filKey,
             lastDetected, pendingFallback, loadActive, loadStop,
             loadRemaining, awaiting, asked, strays>>
watch   == <<baselined, filKey, lastDetected>>
feed    == <<loadActive, loadStop, loadRemaining, awaiting, asked, strays>>
counted == <<asked, strays>>
box     == <<mbox, cancelling, cancelTimeout>>
runouts == <<unseen, lastTold>>
runoutVars == <<print, filament, sensor, reported, scripts, online, drops,
                subscribed, wire, arriving, st, promptVisible, mbox, baselined,
                filKey, lastDetected, pendingFallback, loadActive, loadStop,
                loadRemaining, cancelling, cancelTimeout, awaiting, asked,
                strays, unseen, lastTold>>

Prints   == {"standby", "printing", "paused"}
Readings == {"present", "absent"}
Switch   == {"on", "off"}
Message  == [kind : {"status", "snapshot", "files", "reply", "error",
                     "prompt_show", "prompt_end"},
             print : Prints, filament : Readings \cup {"same"},
             sensor : Switch \cup {"same"}]
RunoutScripts == {"chunk", "resume", "cancel", "m600"}

RunoutTypeOK ==
  /\ print \in Prints /\ filament \in Readings /\ sensor \in Switch
  /\ reported \in [filament : Readings, sensor : Switch]
  /\ scripts \in Seq(RunoutScripts)
  /\ online \in BOOLEAN /\ subscribed \in BOOLEAN
  /\ drops \in 0..MaxDrops
  /\ wire \in Seq(Message)
  /\ arriving \in Message \cup {None}
  /\ st \in [print : Prints \cup {"unknown"},
             filament : Readings \cup {"unknown"}]
  /\ {promptVisible, mbox, baselined, filKey, pendingFallback, loadActive,
      loadStop, cancelling, cancelTimeout} \subseteq BOOLEAN
  /\ unseen \in {"no", "yes", "noticed", "missed"}
  /\ {lastDetected, lastTold} \subseteq Readings
  /\ loadRemaining \in 0..LoadChunks
  /\ asked \in 0..LoadChunks
  /\ awaiting \in Nat /\ strays \in Nat

RunoutInit ==
  /\ print = "standby" /\ filament \in Readings /\ sensor = "on"
  /\ reported = [filament |-> filament, sensor |-> sensor]
  /\ scripts = <<>>
  /\ online = FALSE /\ subscribed = FALSE /\ drops = 0
  /\ wire = <<>>
  /\ arriving = None
  /\ st = [print |-> "unknown", filament |-> "unknown"]
  /\ promptVisible = FALSE
  /\ mbox = FALSE
  /\ baselined = FALSE /\ filKey = FALSE /\ lastDetected = "present"
  /\ pendingFallback = FALSE
  /\ loadActive = FALSE /\ loadStop = FALSE /\ loadRemaining = 0
  /\ cancelling = FALSE /\ cancelTimeout = FALSE
  /\ awaiting = 0 /\ asked = 0 /\ strays = 0
  /\ unseen = "no" /\ lastTold = "present"

-----------------------------------------------------------------------------
(* Klipper and Moonraker, as src/ uses them *)

Line(kind) == [kind |-> kind, print |-> print,
               filament |-> "same", sensor |-> "same"]
Room == Len(wire) < MaxWire
MissedIf(went) == unseen' = IF unseen # "no" /\ went THEN "missed" ELSE unseen
UnderWay(kind) == \E i \in DOMAIN wire : wire[i].kind = kind
(* A message reaches the panel's queue only over an open websocket. *)
Tell(kind) == wire' = IF online THEN Append(wire, Line(kind)) ELSE wire
SensorNow  == [filament |-> filament, sensor |-> sensor]

(* The status tick reports, of each object, only the fields that changed:  *)
(* often neither the print nor the sensor, but a temperature.              *)
ReportStatus ==
  /\ subscribed /\ Room
  /\ wire' = Append(wire,
       [kind |-> "status", print |-> print,
        filament |-> IF reported.filament = filament THEN "same" ELSE filament,
        sensor |-> IF reported.sensor = sensor THEN "same" ELSE sensor])
  /\ reported' = SensorNow
  /\ UNCHANGED <<printer, scripts, online, drops, subscribed, hearing, panel,
                 runouts>>

(* The filament runs out, or is loaded again.  During a print a sensor that *)
(* is on runs its runout_gcode: M600 where it is installed, else a pause.   *)
FilamentEdge ==
  /\ subscribed => reported.filament = filament
  /\ filament' = IF filament = "present" THEN "absent" ELSE "present"
  /\ LET runout == filament = "present" /\ print = "printing" /\ sensor = "on"
     IN  /\ IF runout /\ HasM600
            THEN /\ ~UnderWay("prompt_show") /\ ~UnderWay("error")
                 /\ Len(scripts) < MaxScripts
                 /\ scripts' = Append(scripts, "m600")
            ELSE UNCHANGED scripts
         /\ print' = IF runout /\ ~HasM600 THEN "paused" ELSE print
         /\ unseen' = IF runout /\ ~promptVisible THEN "yes" ELSE "no"
  /\ UNCHANGED <<sensor, websocket, wire, hearing, panel, lastTold>>

(* SET_FILAMENT_SENSOR from a console, while nothing is under way to the   *)
(* panel                                                                   *)
ToggleSensor ==
  /\ CanDisable
  /\ subscribed => reported.sensor = sensor
  /\ wire = <<>> /\ arriving = None
  /\ sensor' = IF sensor = "on" THEN "off" ELSE "on"
  /\ unseen' = IF sensor' = "on" THEN unseen ELSE "no"
  /\ UNCHANGED <<lastTold, print, filament, websocket, scripts, wire, hearing, panel>>

(* A print starts, ends or is resumed from elsewhere. *)
PrintChanges ==
  /\ print' \in CASE print = "standby"  -> {"printing"}
                  [] print = "printing" -> {"standby"}
                  [] print = "paused"   -> {"printing", "standby"}
  /\ unseen' = IF print' # "standby" THEN unseen ELSE "no"
  /\ UNCHANGED <<lastTold, filament, sensor, websocket, scripts, wire, hearing, panel>>

(* The script at the head of Klipper's queue runs; the feed's own scripts   *)
(* are answered, whether they succeed or not.                               *)
RunScript ==
  /\ scripts # <<>> /\ Head(scripts) # "m600"
  /\ scripts' = Tail(scripts)
  /\ \/ Head(scripts) = "chunk" /\ Tell("reply") /\ UNCHANGED print
     \/ /\ Head(scripts) = "resume"
        /\ print' = IF print = "paused" THEN "printing" ELSE print
        /\ UNCHANGED wire
     \/ /\ Head(scripts) = "cancel"        \* done, or its macro fails
        /\ print' \in {print, "standby"}
        /\ UNCHANGED wire
  /\ unseen' = IF print' # "standby" THEN unseen ELSE "no"
  /\ UNCHANGED <<lastTold, filament, sensor, websocket, hearing, panel>>

(* M600 pauses and ends by showing its prompt, or fails on the way, before *)
(* the tick that tells of the runout perhaps.                              *)
RunM600 ==
  /\ scripts # <<>> /\ Head(scripts) = "m600"
  /\ scripts' = Tail(scripts)
  /\ LET paused == IF print = "printing" THEN "paused" ELSE print
     IN  \/ Tell("prompt_show") /\ print' = paused
         \/ Tell("error") /\ print' \in {print, paused}
  /\ MissedIf(~online)
  /\ UNCHANGED <<filament, sensor, websocket, hearing, panel, lastTold>>

(* The prompt is dismissed by one of its own buttons. *)
EndPrompt ==
  /\ promptVisible /\ online /\ ~UnderWay("prompt_end")
  /\ Tell("prompt_end")
  /\ UNCHANGED <<printer, websocket, scripts, hearing, panel, runouts>>

(* notify_filelist_changed, which goes to the same consumers *)
FilesChange ==
  /\ CanListFiles /\ ~baselined
  /\ online /\ ~UnderWay("files")
  /\ Tell("files")
  /\ UNCHANGED <<printer, websocket, scripts, hearing, panel, runouts>>

(* The websocket is lost with every message on it; scripts Klipper has     *)
(* accepted still run, but their replies have nobody to go to: of a chunk  *)
(* nothing is left to be told.                                             *)
Disconnect ==
  /\ drops < MaxDrops
  /\ online /\ arriving = None
  /\ drops' = drops + 1
  /\ online' = FALSE /\ subscribed' = FALSE
  /\ wire' = <<>>
  /\ scripts' = SelectSeq(scripts, LAMBDA s : s # "chunk")
  /\ awaiting' = 0 /\ strays' = 0
  /\ MissedIf(UnderWay("prompt_show") \/ UnderWay("error"))
  /\ UNCHANGED <<printer, reported, hearing, mbox, cancelling, cancelTimeout,
                 baselined, filKey, lastDetected, pendingFallback, loadActive,
                 loadStop, loadRemaining, asked, lastTold>>

(* InitPanel::connected() resets State and starts its handshake. *)
Connect ==
  /\ ~online
  /\ online' = TRUE
  /\ st' = [print |-> "unknown", filament |-> "unknown"]
  /\ UNCHANGED <<printer, drops, subscribed, reported, scripts, wire, arriving,
                 promptVisible, panel, runouts>>

(* The handshake ends with printer.objects.subscribe, answered with a      *)
(* snapshot that later ticks are relative to.                              *)
Subscribe ==
  /\ online /\ ~subscribed
  /\ subscribed' = TRUE
  /\ reported' = SensorNow
  /\ wire' = Append(wire, [kind |-> "snapshot", print |-> print,
                           filament |-> filament, sensor |-> sensor])
  /\ MissedIf(~HasM600)
  /\ UNCHANGED <<printer, online, drops, scripts, hearing, panel, lastTold>>

-----------------------------------------------------------------------------
(* The event loop *)

Received(kind) ==
  /\ arriving = None
  /\ wire # <<>> /\ Head(wire).kind = kind
  /\ wire' = Tail(wire)

(* The subscription's callback stores the snapshot; consume() is not told. *)
ReceiveSnapshot ==
  /\ Received("snapshot")
  /\ st' = [print |-> Head(wire).print, filament |-> Head(wire).filament]
  /\ UNCHANGED <<printer, websocket, scripts, arriving, promptVisible, panel,
                 runouts>>

(* State is the first consumer: it merges the update under its own lock,   *)
(* before the panel gets its turn and lv_lock.                             *)
StateConsume ==
  /\ Received("status") \/ Received("files")
  /\ arriving' = Head(wire)
  /\ st' = IF Head(wire).kind = "files" THEN st
           ELSE [print |-> Head(wire).print,
                 filament |-> IF Head(wire).filament = "same"
                              THEN st.filament ELSE Head(wire).filament]
  /\ UNCHANGED <<printer, websocket, scripts, promptVisible, panel, runouts>>

(* PromptPanel shows and hides M600's prompt. *)
ReceivePrompt ==
  /\ Received("prompt_show") \/ Received("prompt_end")
  /\ promptVisible' = (Head(wire).kind = "prompt_show")
  /\ unseen' = IF promptVisible' THEN "no" ELSE unseen
  /\ UNCHANGED <<printer, websocket, scripts, arriving, st, panel, lastTold>>

-----------------------------------------------------------------------------
(* FilamentRunoutPanel *)

PrintingOrPaused == st.print \in {"printing", "paused"}

(* With no sensor known, or no reading, filament counts as present. *)
FilamentPresent == ~filKey \/ st.filament # "absent"

Show  == mbox' = TRUE /\ unseen' = "no"

(* Nothing is counted without a load. *)
Uncounted == asked' = 0 /\ strays' = 0

(* Mutant: close() forgets cancel_timeout. *)
CloseKeepsTimer ==
  /\ mbox' = FALSE
  /\ loadStop' = TRUE /\ loadActive' = FALSE
  /\ cancelling' = FALSE /\ UNCHANGED cancelTimeout
  /\ Uncounted

(* close(): stops the feed, disarms the fallback timer, takes the box down *)
Close ==
  /\ mbox' = FALSE
  /\ loadStop' = TRUE /\ loadActive' = FALSE
  /\ cancelling' = FALSE /\ cancelTimeout' = FALSE
  /\ Uncounted

Still == UNCHANGED <<mbox, loadStop, loadActive, cancelling, cancelTimeout, counted>>

(* An update tells of the runout if it tells a change: it is not used up   *)
(* as the baseline, nor of the reading consume() was told last, before a   *)
(* snapshot told another.                                                  *)
Noticing ==
  LET tells  == /\ arriving.filament = "absent" /\ reported.filament = "absent"
                /\ \A i \in DOMAIN wire : wire[i].filament = "same"
      change == baselined /\ lastTold = "present"
  IN  IF unseen = "yes" /\ tells /\ change THEN unseen' = "noticed"
      ELSE MissedIf(tells /\ ~change /\ ~HasM600)

(* Mutant: the fallback waits for filament to be back. *)
ConsumeErrorInverted ==
  /\ Received("error")
  /\ IF pendingFallback /\ FilamentPresent /\ ~promptVisible
     THEN pendingFallback' = FALSE /\ Show
     ELSE /\ MissedIf(unseen = "yes" \/ st.filament = "unknown")
          /\ UNCHANGED <<pendingFallback, mbox>>
  /\ UNCHANGED <<printer, websocket, scripts, hearing, cancelling,
                 cancelTimeout, watch, feed, lastTold>>

(* consume() on a G-code line: the fallback for an M600 that failed *)
ConsumeError ==
  /\ Received("error")
  /\ IF pendingFallback /\ ~FilamentPresent /\ ~promptVisible
     THEN pendingFallback' = FALSE /\ Show
     ELSE /\ MissedIf(unseen = "yes" \/ st.filament = "unknown")
          /\ UNCHANGED <<pendingFallback, mbox>>
  /\ UNCHANGED <<printer, websocket, scripts, hearing, cancelling,
                 cancelTimeout, watch, feed, lastTold>>

(* Mutant: last_detected follows the sensor only when filament runs out.   *)
ConsumeForgetsRefill ==
  /\ arriving # None
  /\ arriving' = None
  /\ baselined' = TRUE
  /\ LET found  == ~baselined /\ st.filament # "unknown"
         edge   == baselined /\ filKey
                   /\ arriving.filament \notin {"same", lastDetected}
         runout == /\ edge /\ arriving.filament = "absent"
                   /\ arriving.sensor # "off"
                   /\ PrintingOrPaused
     IN  /\ filKey' = (filKey \/ found)
         /\ lastDetected' = IF found THEN st.filament
                            ELSE IF runout THEN "absent"
                            ELSE lastDetected
         /\ pendingFallback' =
              \/ runout /\ HasM600
              \/ /\ pendingFallback /\ ~promptVisible
                 /\ ~(edge /\ arriving.filament = "present")
         /\ \/ /\ cancelling /\ ~PrintingOrPaused
               /\ Close /\ Noticing
            \/ /\ ~(cancelling /\ ~PrintingOrPaused)
               /\ runout /\ ~HasM600
               /\ Show
               /\ UNCHANGED <<loadStop, loadActive, cancelling, cancelTimeout,
                              counted>>
            \/ /\ ~(cancelling /\ ~PrintingOrPaused)
               /\ ~(runout /\ ~HasM600)
               /\ Still /\ Noticing
  /\ lastTold' = IF ~baselined /\ st.filament # "unknown" THEN st.filament
                 ELSE IF arriving.filament # "same" THEN arriving.filament
                 ELSE lastTold
  /\ UNCHANGED <<printer, websocket, scripts, wire, st, promptVisible,
                 loadRemaining, awaiting>>

(* consume() on anything else: tear down a cancelled print's dialog, look  *)
(* for the sensor the first time, and from then on watch for edges.        *)
Consume ==
  /\ arriving # None
  /\ arriving' = None
  /\ baselined' = TRUE
  /\ LET found  == ~baselined /\ st.filament # "unknown"
         edge   == baselined /\ filKey
                   /\ arriving.filament \notin {"same", lastDetected}
         runout == /\ edge /\ arriving.filament = "absent"
                   /\ arriving.sensor # "off"
                   /\ PrintingOrPaused
     IN  /\ filKey' = (filKey \/ found)
         /\ lastDetected' = IF found THEN st.filament
                            ELSE IF edge THEN arriving.filament
                            ELSE lastDetected
         /\ pendingFallback' =
              \/ runout /\ HasM600
              \/ /\ pendingFallback /\ ~promptVisible
                 /\ ~(edge /\ arriving.filament = "present")
         /\ \/ /\ cancelling /\ ~PrintingOrPaused
               /\ Close /\ Noticing
            \/ /\ ~(cancelling /\ ~PrintingOrPaused)
               /\ runout /\ ~HasM600
               /\ Show
               /\ UNCHANGED <<loadStop, loadActive, cancelling, cancelTimeout,
                              counted>>
            \/ /\ ~(cancelling /\ ~PrintingOrPaused)
               /\ ~(runout /\ ~HasM600)
               /\ Still /\ Noticing
  /\ lastTold' = IF ~baselined /\ st.filament # "unknown" THEN st.filament
                 ELSE IF arriving.filament # "same" THEN arriving.filament
                 ELSE lastTold
  /\ UNCHANGED <<printer, websocket, scripts, wire, st, promptVisible,
                 loadRemaining, awaiting>>

(* A script the panel sends is lost, unnoticed, without a connection.      *)
Send(script) == scripts' = IF online THEN Append(scripts, script) ELSE scripts

(* Mutant: the callback of a stopped feed just returns. *)
ChunkReplyIgnoresStop ==
  /\ Received("reply")
  /\ \/ /\ ~loadActive \/ loadStop
        /\ awaiting' = awaiting - 1
        /\ UNCHANGED <<loadActive, loadStop, loadRemaining, counted, scripts>>
     \/ /\ loadActive /\ ~loadStop /\ loadRemaining = 0
        /\ awaiting' = awaiting - 1
        /\ loadActive' = FALSE /\ loadStop' = FALSE
        /\ Uncounted /\ UNCHANGED <<scripts, loadRemaining>>
     \/ /\ loadActive /\ ~loadStop /\ loadRemaining > 0
        /\ loadRemaining' = loadRemaining - 1
        /\ Send("chunk")
        /\ asked' = asked + 1
        /\ UNCHANGED <<loadActive, loadStop, awaiting, strays>>
  /\ UNCHANGED <<printer, websocket, hearing, box, watch, pendingFallback,
                 runouts>>

(* The chunk's callback: the next chunk, or the end of the feed *)
ChunkReply ==
  /\ Received("reply")
  /\ \/ /\ ~loadActive
        /\ awaiting' = awaiting - 1
        /\ UNCHANGED <<loadActive, loadStop, loadRemaining, counted, scripts>>
     \/ /\ loadActive /\ (loadStop \/ loadRemaining = 0)
        /\ awaiting' = awaiting - 1
        /\ loadActive' = FALSE /\ loadStop' = FALSE /\ loadRemaining' = 0
        /\ Uncounted /\ UNCHANGED scripts
     \/ /\ loadActive /\ ~loadStop /\ loadRemaining > 0
        /\ loadRemaining' = loadRemaining - 1
        /\ Send("chunk")
        /\ asked' = asked + 1
        /\ UNCHANGED <<loadActive, loadStop, awaiting, strays>>
  /\ UNCHANGED <<printer, websocket, hearing, box, watch, pendingFallback,
                 runouts>>

(* The buttons, dead while a cancel is under way *)
Tappable == mbox /\ ~cancelling

(* First button while feeding *)
TapStop ==
  /\ Tappable /\ loadActive
  /\ loadStop' = TRUE
  /\ UNCHANGED <<printer, websocket, scripts, wire, hearing, box, watch,
                 loadActive, loadRemaining, awaiting, asked, strays, pendingFallback,
                 runouts>>

(* Mutant: the first chunk is not taken off what remains. *)
TapLoadMoreUncounted ==
  /\ Tappable /\ ~loadActive /\ Len(scripts) < MaxAtLoad
  /\ loadActive' = TRUE /\ loadStop' = FALSE
  /\ loadRemaining' = LoadChunks
  /\ asked' = 1 /\ strays' = awaiting
  /\ Send("chunk")
  /\ awaiting' = IF online THEN awaiting + 1 ELSE awaiting
  /\ UNCHANGED <<printer, websocket, wire, hearing, box, watch,
                 pendingFallback, runouts>>

(* First button when idle: begin_load() *)
TapLoadMore ==
  /\ Tappable /\ ~loadActive /\ Len(scripts) < MaxAtLoad
  /\ loadActive' = TRUE /\ loadStop' = FALSE
  /\ loadRemaining' = LoadChunks - 1
  /\ asked' = 1 /\ strays' = awaiting
  /\ Send("chunk")
  /\ awaiting' = IF online THEN awaiting + 1 ELSE awaiting
  /\ UNCHANGED <<printer, websocket, wire, hearing, box, watch,
                 pendingFallback, runouts>>

(* Continue stops a feed first; then it resumes, if there is filament.     *)
TapContinue ==
  /\ Tappable
  /\ \/ /\ loadActive
        /\ loadStop' = TRUE
        /\ UNCHANGED <<scripts, mbox, loadActive, cancelling, cancelTimeout, counted>>
     \/ /\ ~loadActive /\ FilamentPresent
        /\ Len(scripts) < MaxScripts
        /\ Send("resume")
        /\ Close
     \/ /\ ~loadActive /\ ~FilamentPresent
        /\ Still /\ UNCHANGED scripts
  /\ UNCHANGED <<printer, websocket, wire, hearing, watch, loadRemaining,
                 awaiting, pendingFallback, runouts>>

(* Cancel keeps the box up, with a timer to take it down in any case.      *)
TapCancel ==
  /\ Tappable /\ Len(scripts) < MaxScripts
  /\ loadStop' = TRUE
  /\ cancelling' = TRUE
  /\ cancelTimeout' = TRUE
  /\ Send("cancel")
  /\ UNCHANGED <<printer, websocket, wire, hearing, mbox, watch, loadActive,
                 loadRemaining, awaiting, asked, strays, pendingFallback, runouts>>

(* cancel_timeout fires after 10 s: no chunk's reply is still on the wire.  *)
CancelTimeout ==
  /\ cancelTimeout /\ ~UnderWay("reply")
  /\ Close
  /\ UNCHANGED <<printer, websocket, scripts, wire, hearing, watch,
                 loadRemaining, awaiting, pendingFallback, runouts>>

Printer == \/ ReportStatus \/ FilamentEdge \/ ToggleSensor \/ PrintChanges
           \/ RunScript \/ RunM600 \/ EndPrompt \/ FilesChange
           \/ Disconnect \/ Connect \/ Subscribe
Loop    == \/ ReceiveSnapshot \/ StateConsume \/ ReceivePrompt
           \/ ConsumeError \/ Consume \/ ChunkReply
Lvgl    == TapStop \/ TapLoadMore \/ TapContinue \/ TapCancel \/ CancelTimeout

RunoutNext == Printer \/ Loop \/ Lvgl

RunoutSpec == RunoutInit /\ [][RunoutNext]_runoutVars

(* Klipper runs what it accepted and reports what changed, the client      *)
(* reconnects, the event loop drains its socket and LVGL fires its timers; *)
(* nobody has to tap anything.                                             *)
Fairness ==
  /\ WF_runoutVars(RunScript \/ RunM600)
  /\ WF_runoutVars(ReportStatus) /\ WF_runoutVars(Connect \/ Subscribe)
  /\ WF_runoutVars(Loop)
  /\ WF_runoutVars(CancelTimeout)

RunoutFairSpec == RunoutSpec /\ Fairness

-----------------------------------------------------------------------------
(* Properties *)

(* The feed runs under an open dialog only, and the fallback timer is      *)
(* armed exactly while a cancel is under way: close() leaves no timer      *)
(* behind that would take down the next runout's dialog, and no feed that  *)
(* would go on without a Stop button (filament_runout_panel.cpp:65-79).    *)
DialogOwnsFeedAndTimer ==
  /\ loadActive => mbox
  /\ cancelTimeout <=> cancelling
  /\ cancelling => mbox

(* One tap of Load never asks for more than RUNOUT_LOAD_TOTAL_MM, even if  *)
(* a callback left over from an earlier dialog joins in: the chunks asked  *)
(* for and those remaining add up.  And load_stop "halts the feed within   *)
(* one chunk", but for those left over, each of which feeds on beside the  *)
(* load's own (filament_runout_panel.cpp:119-147).                         *)
LoadStaysInBudget ==
  loadActive => /\ asked + loadRemaining = LoadChunks
                /\ awaiting <= 1 + strays

(* Nothing that was tapped hangs: Cancel takes the dialog down whatever    *)
(* becomes of CANCEL_PRINT and of the connection, and a stopped feed ends, *)
(* so that Continue, which asks for that, gets through at the next tap,    *)
(* unless the connection took the chunk's reply along                      *)
(* (filament_runout_panel.cpp:265-271, 291-301).                           *)
TapsTakeEffect ==
  /\ cancelling ~> ~cancelling /\ ~mbox
  /\ loadActive /\ loadStop ~> ~loadActive \/ drops > 0

(* A runout during a print comes up on the screen, in M600's prompt or,    *)
(* when M600 fails, in this dialog, unless it is over before or the line   *)
(* that tells of it is wasted: lost with the connection, or an error that  *)
(* the panel gets before an update past the baseline has told it of the    *)
(* runout, or while State is empty after a reconnection                    *)
(* (filament_runout_panel.h:11-25, filament_runout_panel.cpp:166-175,      *)
(* 193-214, 227-238).                                                      *)
RunoutSurfaces == unseen # "no" ~> unseen \in {"no", "missed"} \/ mbox \/ promptVisible

(* Without M600 this dialog comes up, unless the runout is over before or  *)
(* is not told as a change: it was in the update used up as the baseline,  *)
(* or in a snapshot, which consume() is not told of.  And a baseline taken *)
(* while State had no reading leaves no sensor watched                     *)
(* (filament_runout_panel.cpp:193-216).                                    *)
SurfacesWhereWatched ==
  unseen # "no" ~> \/ unseen \in {"no", "missed"} \/ mbox \/ promptVisible
                   \/ baselined /\ ~filKey
=============================================================================
