----------------------------- MODULE PrintStatus -----------------------------
(***************************************************************************)
(* The print status screen (src/src/print_status_panel.cpp), the overlay   *)
(* and the "Paused" chip on the home screen that lead to it                *)
(* (mini_print_status.cpp) and the screen that excludes objects            *)
(* (exclude_object_panel.cpp).  All three follow the status Klipper        *)
(* reports: a snapshot on every handshake, and then what changed.  A       *)
(* change of the file name starts the screen afresh and asks for the       *)
(* file's metadata; Pause and Resume dim when tapped and wait to be lit by *)
(* the next change of is_paused.                                           *)
(*                                                                         *)
(* Klipper and Moonraker are outside src/.  Klipper reports every 250 ms:  *)
(* a print, a pause and an exclusion take longer, so two of them do not    *)
(* fall into one report; the two halves of a pause may.                    *)
(*                                                                         *)
(* Abstraction: of the metadata, whose it is; of the numbers on the        *)
(* screen, nothing.  Which screen is in front is in PrintPanel, restarts   *)
(* of Klipper are in InitPanel.  Every file has the same parts in it.      *)
(***************************************************************************)
EXTENDS Naturals, Sequences, FiniteSets

CONSTANTS
  Files, Parts,    \* the files that are printed, the labelled objects in each
  None,
  MaxJobs,         \* bounds: prints,
  MaxTaps,         \*   taps that open a question or send a command,
  MaxTroubles      \*   commands of other clients and losses of the
                   \*   connection, together

VARIABLES
  (* Klipper *)
  status,          \* print_stats, pause_resume and exclude_object
  going,           \* the second half of a "pause" or a "resume" is to come
  (* the connection *)
  connected,
  reported,        \* the status last reported to a subscriber, or None
  wire,            \* reports under way
  asked,           \* server.files.metadata requests under way
  commands,        \* commands under way
  (* the screen *)
  cache,           \* State's copy of the status
  synced,          \* the overlay of the handshake is gone
  estimate,        \* the file estimated_time_s is of, None for 0
  details,         \* the file current_file is of
  lastState,       \* last_print_state
  summary,         \* the completion summary
  shown, dimmed,   \* the one of "pause" and "resume" shown, those disabled
  mini, chip,      \* the overlay and the chip are shown
  open, boxes,     \* the Objects screen is up; what it crosses out
  question,        \* the message box
  (* History *)
  jobs, taps, others, breaks, requests,
  told, ended,     \* the last print heard to run, and to end, by a change
  done,            \* the last print whose summary was dismissed
  overtaken,       \* an answer came after that to a later request
  carried,         \* the newest metadata is still to come, or could not be
                   \* had, and earlier metadata came after it was asked for
  refused,         \* the last metadata asked for could not be had
  heard,           \* is_paused as last heard by a change
  unsure,          \* Pause and Resume missed something (see below)
  blind            \* an exclusion was not known of when another was asked
                   \* for, or another client excluded the last part

klipper == <<status, going, jobs, others>>
link    == <<connected, reported, wire>>
buttons == <<shown, dimmed, heard, unsure>>
home    == <<mini, chip>>
file    == <<asked, estimate, details, requests, overtaken, carried, refused>>
endings == <<lastState, summary, told, ended, done>>
objects == <<open, boxes, blind>>
asking  == <<question, taps, commands>>
vars    == <<status, going, connected, reported, wire, asked, commands, cache,
             synced, estimate, details, lastState, summary, shown, dimmed,
             mini, chip, open, boxes, question, jobs, taps, others, breaks,
             requests, told, ended, done, overtaken, carried, refused, heard,
             unsure, blind>>

Running == {"printing", "paused"}
Ended   == {"complete", "cancelled"}
Over    == Ended \cup {"error"}
Status  == [state : Running \cup Over \cup {"standby"}, file : Files \cup {None},
            paused : BOOLEAN, excluded : SUBSET Parts]
Report  == [snapshot : BOOLEAN, was : Status, now : Status, job : 0..MaxJobs]
Command == [op : {"pause", "resume", "cancel"}, part : {None}]
             \cup [op : {"exclude"}, part : Parts]

ASSUME PrintStatusAssumption ==
  /\ Files # {} /\ None \notin Files
  /\ Parts # {} /\ None \notin Parts /\ IsFiniteSet(Parts)
  /\ None \notin Status
  /\ {MaxJobs, MaxTaps, MaxTroubles} \subseteq Nat

NoQuestion == [op |-> "none", part |-> None, known |-> {}, fresh |-> TRUE]
NoSummary  == [state |-> "none", file |-> None]

TypeOK ==
  /\ status \in Status /\ cache \in Status
  /\ going \in {"no", "pause", "resume"}
  /\ reported = None \/ reported \in Status
  /\ wire \in Seq(Report)
  /\ asked \subseteq [file : Files, n : Nat]
  /\ commands \subseteq Command
  /\ {connected, synced, mini, chip, open} \subseteq BOOLEAN
  /\ {overtaken, carried, refused, unsure, blind} \subseteq BOOLEAN
  /\ {estimate, details} \subseteq Files \cup {None}
  /\ lastState \in Running \cup Over \cup {"standby", "none"}
  /\ summary \in [state : Ended, file : Files] \cup {NoSummary}
  /\ shown \in {"pause", "resume"} /\ dimmed \subseteq {"pause", "resume"}
  /\ boxes \subseteq Parts
  /\ question \in [op : {"cancel", "exclude", "none"}, part : Parts \cup {None},
                   known : SUBSET Parts, fresh : BOOLEAN]
  /\ heard \in {"never", "yes", "no"}
  /\ {jobs, told, ended, done} \subseteq 0..MaxJobs
  /\ taps \in 0..MaxTaps /\ others + breaks \in 0..MaxTroubles
  /\ requests \in Nat

Idle == [state |-> "standby", file |-> None, paused |-> FALSE, excluded |-> {}]

Init ==
  /\ status = Idle /\ cache = Idle /\ going = "no"
  /\ connected = FALSE /\ reported = None /\ wire = <<>>
  /\ asked = {} /\ commands = {} /\ synced = FALSE
  /\ estimate = None /\ details = None
  /\ lastState = "none" /\ summary = NoSummary
  /\ shown = "pause" /\ dimmed = {}
  /\ mini = FALSE /\ chip = FALSE
  /\ open = FALSE /\ boxes = {} /\ question = NoQuestion
  /\ jobs = 0 /\ taps = 0 /\ others = 0 /\ breaks = 0 /\ requests = 0
  /\ told = 0 /\ ended = 0 /\ done = 0
  /\ overtaken = FALSE /\ carried = FALSE /\ refused = FALSE
  /\ heard = "never" /\ unsure = FALSE /\ blind = FALSE

-----------------------------------------------------------------------------
(* Klipper and Moonraker, as src/ uses them *)

(* What a subscriber is told of keeps up with what happens.                *)
Steady == reported \in {None, status}

Excluding == \E c \in commands : c.op = "exclude"

StartPrint(f) ==
  /\ Steady /\ status.state \notin Running /\ jobs < MaxJobs
  /\ status' = [Idle EXCEPT !.state = "printing", !.file = f]
  /\ jobs' = jobs + 1
  /\ blind' = (blind /\ Excluding)
  /\ UNCHANGED <<going, others, link, cache, synced, buttons, home, file,
                 endings, open, boxes, asking, breaks>>

FinishPrint ==
  /\ Steady /\ status.state = "printing" /\ going = "no"
  /\ \E state \in {"complete", "error"} : status' = [status EXCEPT !.state = state]
  /\ UNCHANGED <<going, jobs, others, link, cache, synced, buttons, home, file,
                 endings, objects, asking, breaks>>

(* What a command does, when it can be done.                               *)
Takes(c) ==
  \/ /\ c.op = "pause" /\ status.state = "printing" /\ going = "no"
     /\ status' = [status EXCEPT !.state = "paused"] /\ going' = "pause"
  \/ /\ c.op = "resume" /\ status.state = "paused" /\ going = "no"
     /\ status' = [status EXCEPT !.paused = FALSE] /\ going' = "resume"
  \/ /\ c.op = "cancel" /\ status.state \in Running
     /\ status' = [status EXCEPT !.state = "cancelled", !.paused = FALSE]
     /\ going' = "no"
  \/ /\ c.op = "exclude" /\ status.file # None
     /\ status' = [status EXCEPT !.excluded = @ \cup {c.part}]
     /\ UNCHANGED going

(* The moves of a pause are over, the file is read again.                  *)
Settle ==
  /\ going # "no"
  /\ status' = IF going = "pause" THEN [status EXCEPT !.paused = TRUE]
               ELSE [status EXCEPT !.state = "printing"]
  /\ going' = "no"
  /\ UNCHANGED <<jobs, others, link, cache, synced, buttons, home, file,
                 endings, objects, asking, breaks>>

(* A command is carried out, or refused: an error, or nothing to do it to. *)
(* The G-code of a pause keeps others waiting.                             *)
Execute(c) ==
  /\ c \in commands /\ Steady /\ going # "pause"
  /\ commands' = commands \ {c}
  /\ \/ Takes(c) /\ UNCHANGED unsure
     \/ /\ UNCHANGED <<status, going>>
        /\ unsure' = (unsure \/ c.op \in {"pause", "resume"})
  /\ UNCHANGED <<jobs, others, link, cache, synced, shown, dimmed, heard, home,
                 file, endings, objects, question, taps, breaks>>

OtherClient(c) ==
  /\ others + breaks < MaxTroubles /\ Steady /\ going # "pause"
  /\ others' = others + 1
  /\ Takes(c)
  /\ blind' = \/ blind
              \/ c.op = "exclude" /\ (Excluding \/ status'.excluded = Parts)
  /\ UNCHANGED <<jobs, link, cache, synced, buttons, home, file, endings, open,
                 boxes, asking, breaks>>

(* SDCARD_RESET_FILE by another client *)
ClearFile ==
  /\ others + breaks < MaxTroubles /\ Steady
  /\ status.state \notin Running /\ status.file # None
  /\ others' = others + 1
  /\ status' = Idle
  /\ UNCHANGED <<going, jobs, link, cache, synced, buttons, home, file,
                 endings, objects, asking, breaks>>

(* notify_status_update *)
Tick ==
  /\ reported \notin {None, status}
  /\ reported' = status
  /\ wire' = Append(wire, [snapshot |-> FALSE, was |-> reported,
                           now |-> status, job |-> jobs])
  /\ UNCHANGED <<klipper, connected, cache, synced, buttons, home, file,
                 endings, objects, asking, breaks>>

-----------------------------------------------------------------------------
(* The handshake *)

OnOpen ==
  /\ ~connected
  /\ connected' = TRUE
  /\ UNCHANGED <<klipper, reported, wire, cache, synced, buttons, home, file,
                 endings, objects, asking, breaks>>

(* The subscription is answered with the whole status.                     *)
Subscribed ==
  /\ connected /\ reported = None
  /\ reported' = status
  /\ wire' = <<[snapshot |-> TRUE, was |-> status, now |-> status, job |-> jobs]>>
  /\ UNCHANGED <<klipper, connected, cache, synced, buttons, home, file,
                 endings, objects, asking, breaks>>

(* Callbacks and reports are lost, commands may be.                        *)
OnClose ==
  /\ connected /\ others + breaks < MaxTroubles
  /\ breaks' = breaks + 1
  /\ connected' = FALSE /\ synced' = FALSE
  /\ reported' = None /\ wire' = <<>> /\ asked' = {}
  /\ commands' \in SUBSET commands
  /\ unsure' = (unsure \/ shown \in dimmed)
  /\ UNCHANGED <<klipper, cache, shown, dimmed, heard, home, estimate, details,
                 requests, overtaken, carried, refused, endings, objects, question,
                 taps>>

-----------------------------------------------------------------------------
(* The event loop *)

(* reset() and populate() as far as the metadata goes: the estimate is     *)
(* dropped, current_file is kept until the new one is there.               *)
StartsAfresh(f) ==
  /\ estimate' = None
  /\ requests' = IF f = None THEN requests ELSE requests + 1
  /\ asked' = IF f = None THEN asked ELSE asked \cup {[file |-> f, n |-> requests']}
  /\ overtaken' = FALSE /\ carried' = FALSE
  /\ UNCHANGED <<details, refused>>

(* populate(): the button to show.  Neither is lit or dimmed.              *)
Offered(s) == IF s.state = "paused" THEN "resume" ELSE "pause"

(* The reply to the subscription: State is filled and init() follows.      *)
Snapshot ==
  /\ wire # <<>> /\ Head(wire).snapshot
  /\ wire' = Tail(wire)
  /\ LET s == Head(wire).now
     IN  /\ cache' = s
         /\ StartsAfresh(s.file)
         /\ shown' = Offered(s)
         /\ mini' = (s.state = "printing") /\ chip' = (s.state = "paused")
         /\ unsure' = \/ unsure
                      \/ heard # "never" /\ s.paused # (heard = "yes")
                      \/ s.paused # (s.state = "paused")
  /\ synced' = TRUE
  /\ summary' = NoSummary /\ ended' = 0
  /\ UNCHANGED <<klipper, connected, reported, dimmed, heard, lastState, told,
                 done, objects, asking, breaks>>

(* Mutant: the screen looks at State before State has the change.          *)
FileChangeEarly(r) ==
  IF r.was.file = r.now.file THEN UNCHANGED file
  ELSE StartsAfresh(cache.file)

(* "filename change indicates a start of a print" *)
FileChange(r) ==
  IF r.was.file = r.now.file THEN UNCHANGED file
  ELSE StartsAfresh(r.now.file)

(* Mutant: last_print_state is brought up to date first.                   *)
StateChangeForgets(r) ==
  LET new == r.now.state
  IN  /\ summary' = IF new = "printing" \/ r.was.file # r.now.file THEN NoSummary
                                                              ELSE summary
      /\ lastState' = new
      /\ told' = IF new \in Running THEN r.job ELSE told
      /\ ended' = IF new \in Ended THEN r.job ELSE ended
      /\ UNCHANGED done

(* A change of print_stats.state: a print that was heard to run and ends   *)
(* leaves its summary; a new file or a print that runs takes it away.      *)
StateChange(r) ==
  LET new == r.now.state
  IN  /\ summary' = IF new = r.was.state THEN summary
                  ELSE IF new \in Ended /\ lastState \in Running
                       THEN [state |-> new, file |-> r.now.file]
                  ELSE IF new = "printing" \/ r.was.file # r.now.file THEN NoSummary
                  ELSE summary
      /\ lastState' = IF new = r.was.state THEN lastState ELSE new
      /\ told' = IF new # r.was.state /\ new \in Running THEN r.job ELSE told
      /\ ended' = IF new # r.was.state /\ new \in Ended THEN r.job ELSE ended
      /\ UNCHANGED done

(* The overlay is there while it prints, the chip while it is paused; a    *)
(* new file shows the overlay.                                             *)
HomeScreen(r) ==
  IF r.was.state = r.now.state
  THEN /\ mini' = (mini \/ (r.was.file # r.now.file /\ r.now.file # None))
       /\ UNCHANGED chip
  ELSE /\ mini' = (r.now.state = "printing")
       /\ chip' = (r.now.state = "paused")

(* Mutant: the other button is hidden only.                                *)
PauseChangeLights(r) ==
  IF r.was.paused = r.now.paused
  THEN /\ shown' = IF r.was.file = r.now.file THEN shown ELSE Offered(r.now)
       /\ UNCHANGED <<dimmed, heard, unsure>>
  ELSE /\ shown' = IF r.now.paused THEN "resume" ELSE "pause"
       /\ heard' = IF r.now.paused THEN "yes" ELSE "no"
       /\ unsure' = FALSE
       /\ UNCHANGED dimmed

(* A change of is_paused shows and lights one button, dims the other.      *)
PauseChange(r) ==
  IF r.was.paused = r.now.paused
  THEN /\ shown' = IF r.was.file = r.now.file THEN shown ELSE Offered(r.now)
       /\ UNCHANGED <<dimmed, heard, unsure>>
  ELSE /\ shown' = IF r.now.paused THEN "resume" ELSE "pause"
       /\ dimmed' = {"pause", "resume"} \ {shown'}
       /\ heard' = IF r.now.paused THEN "yes" ELSE "no"
       /\ unsure' = FALSE

(* The Objects screen draws itself again while it is up.                   *)
ObjectChange(r) ==
  boxes' = IF open /\ (r.was.excluded # r.now.excluded \/ r.was.file # r.now.file)
           THEN r.now.excluded ELSE boxes

(* State::consume, PrintStatusPanel::consume, ExcludeObjectPanel::consume  *)
Update ==
  /\ wire # <<>> /\ ~Head(wire).snapshot
  /\ wire' = Tail(wire)
  /\ cache' = Head(wire).now
  /\ FileChange(Head(wire)) /\ StateChange(Head(wire)) /\ HomeScreen(Head(wire))
  /\ PauseChange(Head(wire)) /\ ObjectChange(Head(wire))
  /\ UNCHANGED <<klipper, connected, reported, synced, open, blind, asking, breaks>>

(* handle_metadata: whatever file it was asked for, it is taken; an error  *)
(* has no estimate and empties current_file.                               *)
HandleMetadata(r, ok) ==
  /\ r \in asked
  /\ asked' = asked \ {r}
  /\ estimate' = IF ok THEN r.file ELSE estimate
  /\ details' = IF ok THEN r.file ELSE None
  /\ \/ /\ r.n = requests
        /\ refused' = ~ok /\ carried' = (carried /\ ~ok)
        /\ UNCHANGED overtaken
     \/ /\ r.n # requests /\ \E q \in asked : q.n = requests
        /\ carried' = (carried \/ ok)
        /\ UNCHANGED <<overtaken, refused>>
     \/ /\ r.n # requests /\ ~\E q \in asked : q.n = requests
        /\ overtaken' = TRUE
        /\ UNCHANGED <<carried, refused>>
  /\ UNCHANGED <<klipper, link, cache, synced, buttons, home, requests, endings,
                 objects, asking, breaks>>

-----------------------------------------------------------------------------
(* The user *)

Free == synced /\ question = NoQuestion /\ summary = NoSummary

Send(op, part) ==
  commands' = IF connected THEN commands \cup {[op |-> op, part |-> part]}
              ELSE commands

(* Pause or Resume: sent, and dimmed.                                      *)
TapButton(op) ==
  /\ Free /\ ~open /\ taps < MaxTaps /\ cache.state \in Running
  /\ shown = op /\ op \notin dimmed
  /\ taps' = taps + 1
  /\ Send(op, None)
  /\ dimmed' = dimmed \cup {op}
  /\ UNCHANGED <<klipper, link, cache, synced, shown, heard, unsure, home, file,
                 endings, objects, question, breaks>>

TapCancel ==
  /\ Free /\ ~open /\ taps < MaxTaps
  /\ taps' = taps + 1
  /\ question' = [NoQuestion EXCEPT !.op = "cancel"]
  /\ UNCHANGED <<klipper, link, cache, synced, buttons, home, file, endings,
                 objects, commands, breaks>>

TapObjects ==
  /\ Free /\ ~open /\ cache.file # None
  /\ open' = TRUE /\ boxes' = cache.excluded
  /\ UNCHANGED <<klipper, link, cache, synced, buttons, home, file, endings,
                 blind, asking, breaks>>

TapBack ==
  /\ Free /\ open
  /\ open' = FALSE
  /\ UNCHANGED <<klipper, link, cache, synced, buttons, home, file, endings,
                 boxes, blind, asking, breaks>>

(* Mutant: the object itself counts as one that remains.                   *)
ConfirmExcludeItself(p) ==
  [op    |-> IF Parts \ cache.excluded = {} THEN "cancel" ELSE "exclude",
   part  |-> p,
   known |-> cache.excluded,
   fresh |-> ~Excluding /\ status.excluded = cache.excluded]

(* confirm_exclude: whether the last object is meant is decided here.      *)
ConfirmExclude(p) ==
  [op    |-> IF Parts \ ({p} \cup cache.excluded) = {} THEN "cancel" ELSE "exclude",
   part  |-> p,
   known |-> cache.excluded,
   fresh |-> ~Excluding /\ status.excluded = cache.excluded]

(* A tap into the outline of an object that is not crossed out.            *)
TapPart(p) ==
  /\ Free /\ open /\ taps < MaxTaps /\ cache.file # None /\ p \notin boxes
  /\ taps' = taps + 1
  /\ question' = ConfirmExclude(p)
  /\ UNCHANGED <<klipper, link, cache, synced, buttons, home, file, endings,
                 objects, commands, breaks>>

(* The question is answered, by then without the connection perhaps: the   *)
(* box is above everything.                                                *)
Answer(yes) ==
  /\ question # NoQuestion
  /\ question' = NoQuestion
  /\ IF yes
     THEN /\ Send(question.op, IF question.op = "exclude" THEN question.part ELSE None)
          /\ open' = (open /\ question.op = "exclude")
          /\ blind' = \/ blind
                      \/ question.op = "exclude"
                         /\ (~question.fresh \/ question.known # status.excluded)
     ELSE UNCHANGED <<commands, open, blind>>
  /\ UNCHANGED <<klipper, link, cache, synced, buttons, home, file, endings,
                 boxes, taps, breaks>>

TapDone ==
  /\ summary # NoSummary /\ synced /\ question = NoQuestion
  /\ summary' = NoSummary /\ done' = ended
  /\ UNCHANGED <<klipper, link, cache, synced, buttons, home, file, lastState,
                 told, ended, objects, asking, breaks>>

Next ==
  \/ \E f \in Files : StartPrint(f)
  \/ FinishPrint \/ Settle \/ ClearFile \/ Tick
  \/ \E c \in commands : Execute(c)
  \/ \E c \in Command : OtherClient(c)
  \/ OnOpen \/ Subscribed \/ OnClose
  \/ Snapshot \/ Update
  \/ \E r \in asked, ok \in BOOLEAN : HandleMetadata(r, ok)
  \/ \E op \in {"pause", "resume"} : TapButton(op)
  \/ TapCancel \/ TapObjects \/ TapBack \/ TapDone
  \/ \E p \in Parts : TapPart(p)
  \/ \E yes \in BOOLEAN : Answer(yes)

Spec == Init /\ [][Next]_vars

-----------------------------------------------------------------------------
(* Properties *)

(* Everything that happened has reached the screen. *)
HeardAll == synced /\ reported = status /\ wire = <<>> /\ going = "no"

(* The time left and the layers are computed from the metadata of the file *)
(* that is printed, never of an earlier one, with two exceptions, since    *)
(* handle_metadata does not look whose metadata it gets.  Earlier metadata *)
(* may arrive while the file's own is still out, and then stays if that    *)
(* cannot be had; an answer may come after that to a later request.  With  *)
(* nothing under way current_file is the file's too, or empty when its     *)
(* metadata could not be had (print_status_panel.cpp:258-280, 329-345,     *)
(* 389-405, 446-452).                                                      *)
OnlyLateMetadataMisleads ==
  synced /\ cache.file # None /\ ~overtaken =>
    /\ estimate \in {None, cache.file} \/ carried
    /\ asked = {} => \/ refused /\ details = None
                     \/ ~refused /\ details = cache.file /\ estimate = cache.file

(* "otherwise the user is left with no confirmation": a print that was     *)
(* heard to run and heard to end has its summary on the screen until Done, *)
(* with how it ended and its own file.  A print that was already running   *)
(* at the handshake and changes no more than to its end has none, and a    *)
(* reconnection takes it away (print_status_panel.cpp:258-259, 454-486).   *)
EndIsSummarised ==
  HeardAll /\ status.state \in Ended /\ told = jobs /\ ended = jobs =>
    done = jobs \/ summary = [state |-> status.state, file |-> status.file]

(* A print can be paused and resumed from the screen: the button that is   *)
(* shown is the one that applies, and is lit unless its command is under   *)
(* way.  What can spoil it is that nothing but a change of is_paused       *)
(* lights a button: a command refused or lost, or a change that a          *)
(* reconnection brought with the snapshot (print_status_panel.cpp:347-353, *)
(* 621-638, 658-664).  The home screen has the overlay while it prints and *)
(* the chip while it is paused (309-327, 454-482).                         *)
OnlyUnheardDims ==
  HeardAll =>
    /\ mini = (status.state = "printing") /\ chip = (status.state = "paused")
    /\ status.state \in Running /\ ~unsure =>
         /\ shown = Offered(status)
         /\ shown \in dimmed => [op |-> shown, part |-> None] \in commands

(* "Excluding it will cancel the print": no print is left running with     *)
(* every object in it excluded, unless one exclusion was asked for before  *)
(* another had been heard of - the question counts the objects that State  *)
(* has, and decides when it opens - or another client excluded the last    *)
(* part (exclude_object_panel.cpp:302-328, 383-401).                       *)
OnlyBlindExclusionEmpties ==
  status.state \in Running /\ status.excluded = Parts => blind
=============================================================================
