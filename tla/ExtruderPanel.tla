---------------------------- MODULE ExtruderPanel ----------------------------
(***************************************************************************)
(* The extruder panel (src/src/extruder_panel.cpp): Extrude, Retract, Load *)
(* and Unload heat the hotend without blocking, wait for it in consume(),  *)
(* run, and drop the heater again; Load feeds one chunk per reply and      *)
(* Cooldown doubles as its Stop; one safety timer stands for three waits.  *)
(*                                                                         *)
(* Klipper (outside src/) runs scripts one after another, which may take   *)
(* longer than the timer, as they may wait behind anybody else's.  The     *)
(* panel hears of it through one ordered stream, so the end of a script    *)
(* and the handling of its reply are one step, and so are a status tick    *)
(* and consume().  The overlay of the init panel takes the taps while the  *)
(* connection is away.                                                     *)
(*                                                                         *)
(* Abstraction: temperatures are levels, the tolerance of 5 C is within    *)
(* one; Extrude, Retract and Unload are one action, "move".                *)
(***************************************************************************)
EXTENDS Naturals, Sequences, FiniteSets

CONSTANTS
  MaxTemp,         \* the highest level that can be selected
  ChunksPerLoad,   \* LOAD_TOTAL_MM / LOAD_CHUNK_MM
  MaxTaps,         \* bound on the taps
  MaxQueue,        \* bound on the scripts waiting at a tap
  MaxBreaks        \* bound on lost connections, restarts of Klipper and
                   \* targets set by hand or by others, together

ASSUME ExtruderAssumption ==
  /\ MaxTemp \in Nat \ {0} /\ ChunksPerLoad \in Nat \ {0}
  /\ {MaxTaps, MaxQueue, MaxBreaks} \subseteq Nat

VARIABLES
  (* Klipper and Moonraker *)
  queue,           \* the panel's scripts
  temp, target,    \* of the hotend
  told,            \* what the status subscription last reported of them
  connected,
  (* ExtruderPanel *)
  front, dialog,   \* the panel, and its question about the spool, are shown
  current_temp, current_target,
  pending_kind, pending_want,
  action_in_flight, auto_cool_after,
  load_active, load_stop, load_remaining,
  safety_timer,    \* it is armed
  (* History *)
  taps, breaks, sets,
  byHand,          \* the target is not one of the panel's
  acted,           \* the panel has asked for heat, or gone without
  gaveUp,          \* the timer fired on a script that had yet to end
  left,            \* a load or a wait for heat ended without its action
  misjudged,       \* the last action, or one whose heat is still to come,
                   \* went by a target that was not so, or that somebody
                   \* changed before its heat was set or reached
  disarmed         \* a chunk's reply took a timer that was not its own

hotend  == <<temp, target, byHand>>
link    == <<told, connected>>
heard   == <<current_temp, current_target>>
pending == <<pending_kind, pending_want>>
load    == <<load_active, load_stop, load_remaining>>
counts  == <<taps, breaks, sets>>
history == <<acted, gaveUp, left, misjudged, disarmed>>
vars    == <<queue, hotend, link, front, dialog, heard, pending,
             action_in_flight, auto_cool_after, load, safety_timer, counts,
             history>>

Temps   == 0..MaxTemp
Kinds   == {"none", "move", "load"}
Actions == {"move", "cool", "cool_after"}     \* answered by on_action_response
Scripts == [kind : Actions \cup {"heat", "chunk", "drop"},
            want : Temps,
            heard : BOOLEAN]                  \* somebody waits for the reply

TypeOK ==
  /\ queue \in Seq(Scripts)
  /\ {temp, target, current_temp, current_target, pending_want} \subseteq Temps
  /\ told \in [temp : Temps, target : Temps]
  /\ {connected, front, dialog, action_in_flight, auto_cool_after, load_active,
      load_stop, safety_timer, byHand, acted, gaveUp, left, misjudged, disarmed}
       \subseteq BOOLEAN
  /\ pending_kind \in Kinds
  /\ load_remaining \in 0..ChunksPerLoad
  /\ taps \in 0..MaxTaps /\ breaks \in 0..MaxBreaks /\ sets \in 0..MaxBreaks

(* The hotend may be hot before the program starts; the handshake's        *)
(* snapshot does not pass through consume().                               *)
Init ==
  /\ queue = <<>>
  /\ target \in Temps /\ temp = target
  /\ told = [temp |-> temp, target |-> target] /\ connected = TRUE
  /\ front = FALSE /\ dialog = FALSE
  /\ current_temp = 0 /\ current_target = 0
  /\ pending_kind = "none" /\ pending_want = 0
  /\ action_in_flight = FALSE /\ auto_cool_after = FALSE
  /\ load_active = FALSE /\ load_stop = FALSE /\ load_remaining = 0
  /\ safety_timer = FALSE
  /\ taps = 0 /\ breaks = 0 /\ sets = 0 /\ byHand = (target > 0)
  /\ acted = FALSE /\ gaveUp = FALSE /\ left = FALSE
  /\ misjudged = FALSE /\ disarmed = FALSE

-----------------------------------------------------------------------------
(* The panel's functions.  Each takes the queue its caller has sent to.    *)

Script(kind) == [kind |-> kind, want |-> 0, heard |-> kind # "drop"]
Heat(want)   == [kind |-> "heat", want |-> want, heard |-> FALSE]
Waiting      == pending_kind # "none"

(* Mutant: a load that is feeding does not count. *)
BusyWithoutLoad == action_in_flight \/ Waiting

Busy == action_in_flight \/ Waiting \/ load_active

(* send_action(): lock the buttons, arm the timer, send. *)
SendAction(q, kind) ==
  /\ action_in_flight' = TRUE
  /\ safety_timer' = TRUE
  /\ queue' = Append(q, Script(kind))

(* begin_load() with the first of its send_load_chunk() *)
BeginLoad(q) ==
  /\ load_active' = TRUE /\ load_stop' = FALSE
  /\ load_remaining' = ChunksPerLoad - 1
  /\ safety_timer' = TRUE
  /\ queue' = Append(q, Script("chunk"))

(* An action, or a load, that is hot enough to start *)
Start(q, kind) ==
  \/ kind = "load" /\ BeginLoad(q) /\ UNCHANGED action_in_flight
  \/ kind # "load" /\ SendAction(q, kind) /\ UNCHANGED load

(* Mutant: auto_cool_after is cleared before it is looked at. *)
MaybeAutoCooldownNever(q) ==
  /\ auto_cool_after' = FALSE
  /\ queue' = q /\ action_in_flight' = FALSE /\ safety_timer' = FALSE

(* maybe_auto_cooldown(), which both its callers call with the timer let   *)
(* go and no action in flight any more                                     *)
MaybeAutoCooldown(q) ==
  /\ auto_cool_after' = FALSE
  /\ IF auto_cool_after
     THEN SendAction(q, "cool_after")
     ELSE queue' = q /\ action_in_flight' = FALSE /\ safety_timer' = FALSE

ClearPending == pending_kind' = "none" /\ pending_want' = 0

StopFeeding ==
  load_active' = FALSE /\ load_stop' = FALSE /\ load_remaining' = 0

(* The target once Klipper has run the scripts it has *)
Coming ==
  LET setters == {i \in DOMAIN queue : queue[i].kind \notin {"move", "chunk"}}
  IN  IF setters = {} THEN target
      ELSE queue[CHOOSE i \in setters : \A j \in setters : j <= i].want

Hotter(a, b) == IF a > b THEN a ELSE b

(* Mutant: the selected temperature is set, whatever the target is. *)
RunWhenHotAsSelected(kind, selected) ==
  LET q == IF selected # current_target
           THEN Append(queue, Heat(selected)) ELSE queue
  IN  /\ auto_cool_after' = TRUE
      /\ acted' = TRUE
      /\ misjudged' = \/ current_target # Coming
                      \/ misjudged /\ \E i \in DOMAIN queue : queue[i].kind = "heat"
      /\ \/ /\ current_temp >= selected
            /\ Start(q, kind)
            /\ UNCHANGED pending
         \/ /\ current_temp < selected
            /\ pending_kind' = kind /\ pending_want' = selected
            /\ safety_timer' = TRUE
            /\ queue' = q
            /\ UNCHANGED <<action_in_flight, load>>

(* run_when_hot() *)
RunWhenHot(kind, selected) ==
  LET want == Hotter(selected, current_target)
      q    == IF want > current_target THEN Append(queue, Heat(want)) ELSE queue
  IN  /\ auto_cool_after' = TRUE
      /\ acted' = TRUE
      /\ misjudged' = \/ current_target # Coming
                      \/ misjudged /\ \E i \in DOMAIN queue : queue[i].kind = "heat"
      /\ \/ /\ current_temp >= want
            /\ Start(q, kind)
            /\ UNCHANGED pending
         \/ /\ current_temp < want
            /\ pending_kind' = kind /\ pending_want' = want
            /\ safety_timer' = TRUE
            /\ queue' = q
            /\ UNCHANGED <<action_in_flight, load>>

-----------------------------------------------------------------------------
(* What the panel hears *)

Now == [temp |-> temp, target |-> target]

(* consume(): the fields that changed, and the pending action if they do   *)
StatusTick ==
  /\ connected /\ told # Now
  /\ told' = Now
  /\ current_temp' = IF told.temp = temp THEN current_temp ELSE temp
  /\ current_target' = IF told.target = target THEN current_target ELSE target
  /\ IF Waiting /\ current_temp' >= pending_want
     THEN ClearPending /\ Start(queue, pending_kind)
     ELSE UNCHANGED <<pending, queue, action_in_flight, load, safety_timer>>
  /\ UNCHANGED <<hotend, connected, front, dialog, auto_cool_after, counts,
                 history>>

Ends(kinds) == /\ queue # <<>> /\ Head(queue).kind \in kinds
               /\ IF Head(queue).kind \in {"move", "chunk"}
                  THEN UNCHANGED <<target, byHand>>
                  ELSE target' = Head(queue).want /\ byHand' = FALSE
               /\ UNCHANGED temp

(* A script nobody waits for: M104, the drop of Stop, or one whose         *)
(* connection was lost                                                     *)
EndsUnheard ==
  /\ queue # <<>> /\ ~Head(queue).heard
  /\ Ends({Head(queue).kind})
  /\ queue' = Tail(queue)
  /\ UNCHANGED <<link, front, dialog, heard, pending, action_in_flight,
                 auto_cool_after, load, safety_timer, counts, history>>

(* on_action_response() *)
ActionResponse ==
  /\ Ends(Actions) /\ Head(queue).heard
  /\ IF action_in_flight
     THEN MaybeAutoCooldown(Tail(queue))
     ELSE /\ queue' = Tail(queue)
          /\ UNCHANGED <<action_in_flight, auto_cool_after, safety_timer>>
  /\ UNCHANGED <<link, front, dialog, heard, pending, load, counts, history>>

(* Mutant: the watchdog is armed for the first chunk only. *)
SendLoadChunkUnwatched(q) ==
  /\ load_active /\ ~load_stop /\ load_remaining > 0
  /\ load_remaining' = load_remaining - 1
  /\ safety_timer' = FALSE
  /\ queue' = Append(q, Script("chunk"))
  /\ UNCHANGED <<load_active, load_stop, action_in_flight, auto_cool_after>>

(* send_load_chunk() when there is one more to send *)
SendLoadChunk(q) ==
  /\ load_active /\ ~load_stop /\ load_remaining > 0
  /\ load_remaining' = load_remaining - 1
  /\ safety_timer' = TRUE
  /\ queue' = Append(q, Script("chunk"))
  /\ UNCHANGED <<load_active, load_stop, action_in_flight, auto_cool_after>>

(* A chunk's callback: cancel_safety_timer(), whosever it is, and          *)
(* send_load_chunk()                                                       *)
ChunkResponse ==
  /\ Ends({"chunk"}) /\ Head(queue).heard
  /\ disarmed' = (disarmed \/ (safety_timer /\ ~load_active))
  /\ \/ /\ ~load_active
        /\ safety_timer' = FALSE
        /\ queue' = Tail(queue)
        /\ UNCHANGED <<load, action_in_flight, auto_cool_after>>
     \/ /\ load_active /\ load_stop
        /\ StopFeeding
        /\ safety_timer' = FALSE
        /\ queue' = Tail(queue)
        /\ UNCHANGED <<action_in_flight, auto_cool_after>>
     \/ /\ load_active /\ ~load_stop /\ load_remaining = 0
        /\ StopFeeding
        /\ MaybeAutoCooldown(Tail(queue))
     \/ SendLoadChunk(Tail(queue))
  /\ UNCHANGED <<link, front, dialog, heard, pending, counts, acted, gaveUp,
                 left, misjudged>>

(* The safety timer: a load that is stuck, else an action, else a wait     *)
SafetyTimer ==
  /\ safety_timer /\ safety_timer' = FALSE
  /\ gaveUp' = (gaveUp \/ \E i \in DOMAIN queue : queue[i].heard)
  /\ left' = (left \/ load_active \/ Waiting)
  /\ \/ /\ load_active
        /\ StopFeeding
        /\ UNCHANGED <<action_in_flight, pending>>
     \/ /\ ~load_active /\ action_in_flight
        /\ action_in_flight' = FALSE
        /\ UNCHANGED <<load, pending>>
     \/ /\ ~load_active /\ ~action_in_flight
        /\ ClearPending
        /\ UNCHANGED <<load, action_in_flight>>
  /\ UNCHANGED <<queue, hotend, link, front, dialog, heard, auto_cool_after,
                 counts, acted, misjudged, disarmed>>

-----------------------------------------------------------------------------
(* Taps *)

Tap == /\ connected /\ Len(queue) < MaxQueue
       /\ taps < MaxTaps /\ taps' = taps + 1
       /\ UNCHANGED <<breaks, sets, hotend, link, heard, gaveUp, disarmed>>

Foreground ==
  /\ Tap /\ ~front
  /\ front' = TRUE
  /\ UNCHANGED <<queue, dialog, pending, action_in_flight, auto_cool_after, load,
                 safety_timer, acted, left, misjudged>>

OnPanel == Tap /\ front /\ ~dialog

(* Extrude, Retract and Unload, and Load without Spoolman                  *)
TapAction(kind, selected) ==
  /\ OnPanel /\ ~Busy
  /\ RunWhenHot(kind, selected)
  /\ UNCHANGED <<front, dialog, left>>

(* Load with Spoolman asks first; "No" goes to the spools, and the choice  *)
(* of one asks again.                                                      *)
TapLoad ==
  /\ OnPanel /\ ~Busy
  /\ dialog' = TRUE
  /\ UNCHANGED <<queue, front, pending, action_in_flight, auto_cool_after, load,
                 safety_timer, acted, left, misjudged>>

TapNo ==
  /\ Tap /\ dialog
  /\ dialog' \in BOOLEAN
  /\ UNCHANGED <<queue, front, pending, action_in_flight, auto_cool_after, load,
                 safety_timer, acted, left, misjudged>>

TapYes(selected) ==
  /\ Tap /\ dialog
  /\ dialog' = FALSE
  /\ RunWhenHot("load", selected)
  /\ UNCHANGED <<front, left>>

(* Cooldown: Stop for a load, cancel for a wait, else what it says         *)
TapCooldown ==
  /\ OnPanel /\ ~action_in_flight
  /\ auto_cool_after' = FALSE
  /\ \/ /\ load_active
        /\ load_stop' = TRUE
        /\ queue' = Append(queue, Script("drop"))
        /\ UNCHANGED <<load_active, load_remaining, pending, action_in_flight,
                       safety_timer>>
     \/ /\ ~load_active
        /\ ClearPending
        /\ SendAction(queue, "cool")
        /\ UNCHANGED load
  /\ UNCHANGED <<front, dialog, acted, left, misjudged>>

(* Mutant: Back stops a load but keeps a wait. *)
TapBackKeepsPending ==
  /\ OnPanel
  /\ front' = FALSE
  /\ load_stop' = TRUE
  /\ left' = (left \/ load_active)
  /\ UNCHANGED <<queue, dialog, pending, action_in_flight, auto_cool_after,
                 load_active, load_remaining, safety_timer, acted, misjudged>>

(* Back gives up a wait and stops a load, and leaves the heater alone.     *)
TapBack ==
  /\ OnPanel
  /\ front' = FALSE
  /\ ClearPending
  /\ safety_timer' = (safety_timer /\ ~Waiting)
  /\ load_stop' = TRUE
  /\ left' = (left \/ Waiting \/ load_active)
  /\ UNCHANGED <<queue, dialog, action_in_flight, auto_cool_after, load_active,
                 load_remaining, acted, misjudged>>

-----------------------------------------------------------------------------
(* The printer and everybody else *)

TempMoves ==
  /\ temp # target
  /\ temp' = IF temp < target THEN temp + 1 ELSE temp - 1
  /\ UNCHANGED <<queue, target, byHand, link, front, dialog, heard, pending,
                 action_in_flight, auto_cool_after, load, safety_timer, counts,
                 history>>

(* The console, another client, or the temperature on the panel itself     *)
SetElsewhere ==
  /\ breaks + sets < MaxBreaks /\ sets' = sets + 1
  /\ target' \in Temps /\ byHand' = TRUE
  /\ misjudged' = \/ misjudged \/ Waiting
                  \/ \E i \in DOMAIN queue : queue[i].kind = "heat"
  /\ UNCHANGED <<queue, temp, link, front, dialog, heard, pending,
                 action_in_flight, auto_cool_after, load, safety_timer, taps,
                 breaks, acted, gaveUp, left, disarmed>>

Break == /\ breaks + sets < MaxBreaks /\ breaks' = breaks + 1
         /\ UNCHANGED <<taps, sets, temp, front, dialog, heard, pending,
                        action_in_flight, auto_cool_after, load, safety_timer,
                        acted, gaveUp, left, disarmed>>

(* A script that ends with an error sets no target.                        *)
Failed(script) ==
  [script EXCEPT !.kind = IF script.kind = "chunk" THEN "chunk" ELSE "move"]

(* Klipper restarts: what it had is answered with an error, and its        *)
(* heaters are off.                                                        *)
KlipperRestarts ==
  /\ Break
  /\ target' = 0 /\ byHand' = FALSE
  /\ misjudged' = (misjudged \/ Waiting)
  /\ queue' = [i \in DOMAIN queue |-> Failed(queue[i])]
  /\ UNCHANGED link

Drop ==
  /\ Break /\ connected
  /\ connected' = FALSE
  /\ queue' = [i \in DOMAIN queue |-> [queue[i] EXCEPT !.heard = FALSE]]
  /\ UNCHANGED <<target, byHand, told, misjudged>>

(* The handshake subscribes anew; its snapshot is State's alone.           *)
Reconnect ==
  /\ ~connected
  /\ connected' = TRUE
  /\ told' = Now
  /\ UNCHANGED <<queue, hotend, front, dialog, heard, pending,
                 action_in_flight, auto_cool_after, load, safety_timer, counts,
                 history>>

Next ==
  \/ StatusTick \/ EndsUnheard \/ ActionResponse \/ ChunkResponse
  \/ SafetyTimer
  \/ Foreground \/ TapLoad \/ TapNo \/ TapCooldown \/ TapBack
  \/ \E t \in Temps \ {0} : TapYes(t) \/ \E k \in Kinds \ {"none"} : TapAction(k, t)
  \/ TempMoves \/ SetElsewhere \/ KlipperRestarts \/ Drop \/ Reconnect

Spec == Init /\ [][Next]_vars

(* LVGL fires its timers.  Nothing else has to happen: neither Klipper nor *)
(* the heater nor the connection is relied on.                             *)
FairSpec == Spec /\ WF_vars(SafetyTimer)

-----------------------------------------------------------------------------
(* Properties *)

Awaited == {i \in DOMAIN queue : queue[i].heard}

(* The buttons are locked while a script of the panel runs, one script at  *)
(* a time, and until it ends, unless the timer had given one up            *)
(* (extruder_panel.cpp:391-434, 497-517).                                  *)
LockedWhileItRuns ==
  ~gaveUp =>
    /\ Cardinality(Awaited) <= 1
    /\ \A i \in Awaited : IF queue[i].kind = "chunk" THEN load_active
                                                     ELSE action_in_flight
    /\ (action_in_flight \/ load_active) /\ Awaited = {} => breaks > 0

(* "once it finishes we drop the heater back to 0 instead of leaving it    *)
(* hot (and oozing)" (extruder_panel.h:98-100): a hotend that is on with   *)
(* nothing left to happen was left on by Back, by the timer or by a reply  *)
(* that was lost, or has been set by somebody else since.                  *)
OnlyLeavingLeavesHot ==
  acted /\ queue = <<>> /\ ~Busy /\ target > 0 =>
    left \/ gaveUp \/ breaks > 0 \/ byHand

(* "a manually-set hotter temperature is never lowered by an               *)
(* extrude/load/unload action" (extruder_panel.h:23-24), and an action     *)
(* waits for a temperature that the hotend is heated to, unless the target *)
(* the panel had heard of when it was tapped was not the one to come --    *)
(* its own cooldown, still in the queue, included -- or was changed before *)
(* the M104 was run or the temperature reached.                            *)
OnlyUnheardMisleads ==
  /\ [][Ends({"heat"}) /\ target' < target => misjudged]_vars
  /\ [](Waiting /\ queue = <<>> => pending_want <= target \/ misjudged)

(* "don't auto-extrude after the user navigates away"                      *)
(* (extruder_panel.cpp:663): behind a panel that was left nothing waits to *)
(* be hot enough, and no reply asks for another chunk.                     *)
NothingFeedsUnseen == Waiting \/ (load_active /\ ~load_stop) => front

(* The buttons do not stay locked, whatever becomes of Klipper, the heater *)
(* and the connection, unless a chunk's reply that came too late has taken *)
(* the timer of the wait that followed it (extruder_panel.cpp:584-588).    *)
BusyEnds ==
  /\ load_active ~> ~load_active
  /\ Busy ~> ~Busy \/ disarmed
=============================================================================
