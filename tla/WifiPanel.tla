------------------------------ MODULE WifiPanel ------------------------------
(***************************************************************************)
(* The WiFi screen (src/src/wifi_panel.cpp) and its control socket         *)
(* (src/src/wpa_event.cpp).  The LVGL thread sends commands from taps,     *)
(* under lv_lock; the event thread sends some from the handler of          *)
(* wpa_supplicant's messages before it takes the lock; a thread per join   *)
(* waits for an address.  Both senders write to and read from one socket:  *)
(* a reply goes to whoever reads first, and one that comes after the       *)
(* timeout of 10 s stays for the next reader.                              *)
(*                                                                         *)
(* Abstraction: a network and its id are one; every network is in range,   *)
(* so that a scan tells nothing but that it is over; the question before a *)
(* removal is modal and one tap with its answer; SETUP stands for the two  *)
(* SET_NETWORK commands and ENABLE_NETWORK.  What runs under lv_lock       *)
(* between two commands is one step.                                       *)
(***************************************************************************)
EXTENDS Naturals, Sequences

CONSTANTS
  Ssids,
  None,            \* no network, no command, no thread, no tap
  MaxInputs,       \* bound on taps, lost networks and replies that take over
                   \* 10 s, together
  Rescans          \* rescan_budget

VARIABLES
  (* wpa_supplicant *)
  known,           \* networks in its configuration
  selected,        \* the one to join
  current,         \* the one joined
  scanning,
  (* the sockets *)
  requests, replies,
  events,          \* messages on the monitor socket
  (* the threads *)
  lvLock,
  waiting,         \* the command each sender awaits the reply to
  script,          \* what the LVGL thread does: a kind of tap
  todo,            \* commands it still has to send
  at, event,       \* where the event thread is, in which event
  found,           \* what find_current_network() returned
  waits,           \* the threads in wait_for_connectivity()
  (* WifiPanel *)
  listNetworks, curNetwork,
  front,           \* the screen is in front
  tapped,          \* selected_network
  rows,            \* the list is shown
  saved,           \* its rows with a trash can
  enteringPassword,
  pwRow,           \* the row to type it in is shown
  spinner, label, rescanBudget, connGen,
  (* History *)
  taps, outages, late,
  overlapped,      \* two commands were under way at once
  misread,         \* a sender read the reply to another command
  skipped,         \* an event was ignored while a password was entered
  interrupted,     \* a password was asked for, or the current network
                   \* forgotten, while an event was being handled
  outrun,          \* a waiting thread wrote after another had begun, or a
                   \* join was ignored while one waited
  unlisted,        \* a network was added since the list was last read
  scanFailed       \* no scan has ended well since one failed

supplicant == <<known, selected, current, scanning>>
sockets    == <<requests, replies>>
screen     == <<script, todo>>
eventLoop  == <<at, event, found>>
lists      == <<listNetworks, curNetwork>>
widgets    == <<front, tapped, rows, saved, enteringPassword, pwRow, spinner, label>>
joins      == <<rescanBudget, connGen, waits>>
counts     == <<taps, outages>>
senders    == <<late, overlapped, misread>>
marks      == <<skipped, interrupted, outrun, unlisted, scanFailed>>
vars       == <<known, selected, current, scanning, requests, replies, events,
                lvLock, waiting, script, todo, at, event, found, waits,
                listNetworks, curNetwork, front, tapped, rows, saved,
                enteringPassword, pwRow, spinner, label, rescanBudget, connGen,
                taps, outages, late, overlapped, misread, skipped, interrupted,
                outrun, unlisted, scanFailed>>

Threads  == {"lvgl", "event"}
Networks == Ssids \cup {None}
Commands == [name : {"SCAN", "SCAN_RESULTS", "LIST_NETWORKS", "SELECT_NETWORK",
                     "REASSOCIATE", "SAVE_CONFIG", "REMOVE_NETWORK",
                     "ADD_NETWORK", "SETUP"}, net : Networks]

ASSUME WifiAssumption ==
  /\ None \notin Ssids \cup Threads \cup Commands \cup {"open", "select", "join", "remove"}
  /\ {MaxInputs, Rescans} \subseteq Nat

Replies  == [to : Commands, ok : BOOLEAN, nets : SUBSET Ssids, cur : Networks]
Labels   == [says : {"select", "connecting", "enter", "getting", "connected",
                     "failed"}, net : Networks]
Waits    == [gen : Nat, net : Networks, checked : BOOLEAN]

TypeOK ==
  /\ known \subseteq Ssids /\ {selected, current} \subseteq Networks
  /\ requests \in Seq(Commands) /\ replies \in Seq(Replies)
  /\ events \in Seq({"results", "connected"})
  /\ lvLock \in Threads \cup {None}
  /\ waiting \in [Threads -> Commands \cup {None}]
  /\ todo \in Seq(Commands)
  /\ script # None \/ todo # <<>> \/ waiting["lvgl"] # None => lvLock = "lvgl"
  /\ at \in {"idle", "results", "list", "listing", "show", "rescan"}
  /\ event \in {"results", "connected"}
  /\ at = "rescan" <=> lvLock = "event"
  /\ waits \subseteq Waits /\ connGen \in Nat
  /\ listNetworks \cup saved \subseteq Ssids
  /\ {curNetwork, tapped} \subseteq Networks
  /\ label \in Labels /\ rescanBudget \in 0..Rescans
  /\ {scanning, found, front, rows, enteringPassword, pwRow, spinner, overlapped,
      misread, skipped, interrupted, outrun, unlisted, scanFailed} \subseteq BOOLEAN
  /\ {taps, outages, late} \subseteq 0..MaxInputs

Cmd(name, net) == [name |-> name, net |-> net]
Room            == taps + outages + late < MaxInputs
Says(what, net) == label' = [says |-> what, net |-> net]

Init ==
  /\ known \in SUBSET Ssids
  /\ current \in known \cup {None} /\ selected = current /\ scanning = FALSE
  /\ requests = <<>> /\ replies = <<>> /\ events = <<>>
  /\ lvLock = None /\ waiting = [t \in Threads |-> None]
  /\ script = None /\ todo = <<>>
  /\ at = "idle" /\ event = "results" /\ found = FALSE /\ waits = {}
  /\ listNetworks = {} /\ curNetwork = None
  /\ front = FALSE /\ tapped = None /\ rows = FALSE /\ saved = {}
  /\ enteringPassword = FALSE /\ pwRow = FALSE /\ spinner = FALSE
  /\ label = [says |-> "select", net |-> None]
  /\ rescanBudget = 0 /\ connGen = 0
  /\ taps = 0 /\ outages = 0 /\ late = 0
  /\ overlapped = FALSE /\ misread = FALSE
  /\ skipped = FALSE /\ interrupted = FALSE /\ outrun = FALSE /\ unlisted = FALSE
  /\ scanFailed = FALSE

-----------------------------------------------------------------------------
(* wpa_supplicant *)

Answered(cmd, ok, nets, cur) ==
  /\ requests' = Tail(requests)
  /\ replies' = Append(replies, [to |-> cmd, ok |-> ok, nets |-> nets, cur |-> cur])

Text(cmd) == Answered(cmd, TRUE, {}, None)

(* The commands are carried out in the order they were sent.               *)
Answer ==
  /\ requests # <<>>
  /\ LET cmd == Head(requests) IN
     \/ /\ cmd.name = "SCAN"                      \* FAIL-BUSY during a scan
        /\ Answered(cmd, ~scanning, {}, None)
        /\ scanning' = TRUE /\ UNCHANGED <<known, selected, current, unlisted>>
     \/ /\ cmd.name = "LIST_NETWORKS"
        /\ Answered(cmd, TRUE, known, current)
        /\ unlisted' = FALSE /\ UNCHANGED supplicant
     \/ /\ cmd.name = "SELECT_NETWORK" /\ Text(cmd)
        /\ IF cmd.net \in known
           THEN /\ selected' = cmd.net
                /\ current' = IF current = cmd.net THEN current ELSE None
           ELSE UNCHANGED <<selected, current>>
        /\ UNCHANGED <<known, scanning, unlisted>>
     \/ /\ cmd.name = "REASSOCIATE" /\ Text(cmd)
        /\ current' = None /\ UNCHANGED <<known, selected, scanning, unlisted>>
     \/ /\ cmd.name = "REMOVE_NETWORK" /\ Text(cmd)
        /\ known' = known \ {cmd.net}
        /\ selected' = IF selected = cmd.net THEN None ELSE selected
        /\ current' = IF current = cmd.net THEN None ELSE current
        /\ UNCHANGED <<scanning, unlisted>>
     \/ /\ cmd.name = "SETUP" /\ Text(cmd)
        /\ known' = known \cup ({cmd.net} \ {None})
        /\ unlisted' = (unlisted \/ cmd.net \notin known \cup {None})
        /\ UNCHANGED <<selected, current, scanning>>
     \/ /\ cmd.name \in {"SAVE_CONFIG", "SCAN_RESULTS", "ADD_NETWORK"} /\ Text(cmd)
        /\ UNCHANGED <<supplicant, unlisted>>
  /\ UNCHANGED <<events, lvLock, waiting, screen, eventLoop, lists, widgets,
                 joins, counts, senders, skipped, interrupted, outrun, scanFailed>>

ScanDone ==
  /\ scanning /\ scanning' = FALSE
  /\ events' = Append(events, "results") /\ scanFailed' = FALSE
  /\ UNCHANGED <<known, selected, current, sockets, lvLock, waiting, screen,
                 eventLoop, lists, widgets, joins, counts, senders, skipped,
                 interrupted, outrun, unlisted>>

(* The driver refuses it; the panel ignores CTRL-EVENT-SCAN-FAILED, and a  *)
(* scan asked for is not repeated.                                         *)
ScanFails ==
  /\ scanning /\ scanning' = FALSE /\ scanFailed' = TRUE
  /\ UNCHANGED <<known, selected, current, sockets, events, lvLock, waiting,
                 screen, eventLoop, lists, widgets, joins, counts, senders,
                 skipped, interrupted, outrun, unlisted>>

Join ==
  /\ current = None /\ selected # None
  /\ current' = selected
  /\ events' = Append(events, "connected")
  /\ UNCHANGED <<known, selected, scanning, sockets, lvLock, waiting, screen,
                 eventLoop, lists, widgets, joins, counts, senders, marks>>

(* The network is lost and looked for again, or another one; the panel     *)
(* ignores CTRL-EVENT-DISCONNECTED.                                        *)
Outage ==
  /\ Room /\ current # None
  /\ outages' = outages + 1
  /\ current' = None /\ selected' \in known /\ scanning' = TRUE
  /\ UNCHANGED <<known, sockets, events, lvLock, waiting, screen,
                 eventLoop, lists, widgets, joins, taps, senders, marks>>

-----------------------------------------------------------------------------
(* send_command(): wpa_ctrl_request() on the shared connection *)

Other(t) == CHOOSE u \in Threads : u # t

Sends(t, cmd) ==
  /\ requests' = Append(requests, cmd)
  /\ waiting' = [waiting EXCEPT ![t] = cmd]
  /\ overlapped' = (overlapped \/ waiting[Other(t)] # None)
  /\ UNCHANGED <<replies, late, misread>>

NoReply == [to |-> Cmd("SCAN", None), ok |-> FALSE, nets |-> {}, cur |-> None]

(* The next reply on the socket, or none within 10 s.  *)
Receives(t, reply) ==
  /\ waiting[t] # None
  /\ \/ /\ replies # <<>> /\ reply = Head(replies)
        /\ replies' = Tail(replies)
        /\ misread' = (misread \/ reply.to # waiting[t])
        /\ UNCHANGED late
     \/ /\ replies = <<>> /\ reply = NoReply
        /\ Room /\ late' = late + 1
        /\ UNCHANGED <<replies, misread>>
  /\ waiting' = [waiting EXCEPT ![t] = None]
  /\ UNCHANGED <<requests, overlapped>>

Readable == {NoReply} \cup {replies[i] : i \in 1..Len(replies)}

-----------------------------------------------------------------------------
(* The LVGL thread: a tap takes lv_lock and keeps it for all its commands *)

Tap(kind, cmds) ==
  /\ Room /\ lvLock = None
  /\ taps' = taps + 1
  /\ IF cmds = <<>> THEN UNCHANGED <<lvLock, screen>>
     ELSE lvLock' = "lvgl" /\ script' = kind /\ todo' = cmds
  /\ UNCHANGED <<supplicant, sockets, events, waiting, eventLoop, outages,
                 senders, skipped, outrun, unlisted, scanFailed>>

Foreground ==
  /\ ~front
  /\ Tap("open", <<Cmd("SCAN", None)>>)
  /\ front' = TRUE /\ spinner' = TRUE /\ rescanBudget' = Rescans
  /\ UNCHANGED <<lists, tapped, rows, saved, enteringPassword, pwRow, label,
                 connGen, waits, interrupted>>

(* handle_back_btn(); the button is hidden while a password is entered.    *)
TapBack ==
  /\ front /\ ~enteringPassword
  /\ Tap("back", <<>>)
  /\ front' = FALSE /\ rows' = FALSE
  /\ UNCHANGED <<lists, tapped, saved, enteringPassword, pwRow, spinner, label,
                 joins, interrupted>>

(* handle_row_activated() of a network in list_networks; the row of        *)
(* cur_network opens its details.                                          *)
TapKnown(s) ==
  /\ front /\ rows /\ s \in listNetworks \ {curNetwork}
  /\ Tap("select", <<Cmd("SELECT_NETWORK", s), Cmd("SAVE_CONFIG", None),
                     Cmd("REASSOCIATE", None)>>)
  /\ tapped' = s /\ Says("connecting", s) /\ pwRow' = FALSE
  /\ UNCHANGED <<lists, front, rows, saved, enteringPassword, spinner, joins, interrupted>>

(* ... and of one that is not.                                             *)
TapUnknown(s) ==
  /\ front /\ rows /\ s \notin listNetworks \cup {curNetwork}
  /\ Tap("ask", <<>>)
  /\ tapped' = s /\ Says("enter", s)
  /\ enteringPassword' = TRUE /\ pwRow' = TRUE /\ rows' = FALSE
  /\ interrupted' = (interrupted \/ at # "idle" \/ \E w \in waits : w.checked)
  /\ UNCHANGED <<lists, front, saved, spinner, joins>>

(* READY: connect().                                                       *)
TapReady ==
  /\ enteringPassword
  /\ Tap("join", <<Cmd("ADD_NETWORK", None)>>)
  /\ enteringPassword' = FALSE /\ pwRow' = FALSE /\ rows' = TRUE
  /\ Says("connecting", tapped)
  /\ UNCHANGED <<lists, front, tapped, saved, spinner, joins, interrupted>>

TapCancel ==
  /\ enteringPassword
  /\ Tap("cancel", <<>>)
  /\ enteringPassword' = FALSE /\ pwRow' = FALSE /\ rows' = TRUE
  /\ Says("select", None)
  /\ UNCHANGED <<lists, front, tapped, saved, spinner, joins, interrupted>>

(* The answer to confirm_remove_network(), from a row or from the details  *)
(* of the current network.                                                 *)
TapRemove(s) ==
  /\ front /\ rows /\ s \in saved \cup ({curNetwork} \cap listNetworks)
  /\ Tap("remove", <<Cmd("REMOVE_NETWORK", s), Cmd("SAVE_CONFIG", None)>>)
  /\ UNCHANGED <<lists, widgets, joins, interrupted>>

(* Mutant: the next command is sent before the reply to the last is read.  *)
ScreenSendsOn ==
  /\ todo # <<>>
  /\ Sends("lvgl", Head(todo)) /\ todo' = Tail(todo)
  /\ UNCHANGED <<supplicant, events, lvLock, script, eventLoop, lists, widgets,
                 joins, counts, marks>>

ScreenSends ==
  /\ todo # <<>> /\ waiting["lvgl"] = None
  /\ Sends("lvgl", Head(todo)) /\ todo' = Tail(todo)
  /\ UNCHANGED <<supplicant, events, lvLock, script, eventLoop, lists, widgets,
                 joins, counts, marks>>

(* What a tap does with a reply: a reply of its own, the id of the added   *)
(* network is in the reply to ADD_NETWORK, or what was read for it.        *)
Continues(reply) ==
  \/ /\ script = "open" /\ todo' = <<>>
     /\ IF reply.ok THEN UNCHANGED <<spinner, label>>
        ELSE spinner' = FALSE /\ Says("failed", None)
     /\ UNCHANGED <<curNetwork, tapped, rows, interrupted>>
  \/ /\ script = "join" /\ waiting["lvgl"].name = "ADD_NETWORK"
     /\ LET id == IF reply.to.name = "ADD_NETWORK" THEN tapped ELSE None IN
        todo' = IF reply = NoReply THEN <<>>
                ELSE <<Cmd("SETUP", id), Cmd("SELECT_NETWORK", id),
                       Cmd("SAVE_CONFIG", None)>>
     /\ UNCHANGED <<curNetwork, tapped, rows, spinner, label, interrupted>>
  \/ /\ script = "remove" /\ waiting["lvgl"].name = "SAVE_CONFIG"
     /\ todo' = <<Cmd("SCAN", None)>>
     /\ curNetwork' = None /\ tapped' = None /\ rows' = FALSE /\ spinner' = TRUE
     /\ interrupted' = (interrupted \/ at # "idle")
     /\ Says("select", None)
  \/ /\ ~ \/ script = "open"
          \/ script = "join" /\ waiting["lvgl"].name = "ADD_NETWORK"
          \/ script = "remove" /\ waiting["lvgl"].name = "SAVE_CONFIG"
     /\ UNCHANGED <<todo, curNetwork, tapped, rows, spinner, label, interrupted>>

ScreenReceives(reply) ==
  /\ Receives("lvgl", reply)
  /\ Continues(reply)
  /\ IF todo' = <<>> THEN lvLock' = None /\ script' = None
                     ELSE UNCHANGED <<lvLock, script>>
  /\ UNCHANGED <<supplicant, events, eventLoop, listNetworks, front, saved,
                 enteringPassword, pwRow, joins, counts, skipped, outrun, unlisted,
                 scanFailed>>

-----------------------------------------------------------------------------
(* The event thread: handle_wpa_event() *)

(* Mutant: events are handled while a password is entered, too.            *)
TakeEventAlways ==
  /\ at = "idle" /\ events # <<>>
  /\ events' = Tail(events) /\ event' = Head(events)
  /\ at' = IF Head(events) = "results" THEN "results" ELSE "list"
  /\ UNCHANGED <<supplicant, sockets, lvLock, waiting, screen, found, lists,
                 widgets, joins, counts, senders, marks>>

(* The next event; one that comes while a password is entered is dropped. *)
TakeEvent ==
  /\ at = "idle" /\ events # <<>>
  /\ events' = Tail(events)
  /\ IF enteringPassword
     THEN /\ skipped' = TRUE /\ UNCHANGED <<at, event>>
          /\ outrun' = (outrun \/ (Head(events) = "connected" /\ waits # {}))
     ELSE /\ event' = Head(events) /\ UNCHANGED <<skipped, outrun>>
          /\ at' = IF Head(events) = "results" THEN "results" ELSE "list"
  /\ UNCHANGED <<supplicant, sockets, lvLock, waiting, screen, found, lists,
                 widgets, joins, counts, senders, interrupted, unlisted, scanFailed>>

(* Mutant: the list is added to and never cleared.                         *)
EventSendsKeeps ==
  /\ waiting["event"] = None
  /\ \/ /\ at = "results" /\ Sends("event", Cmd("SCAN_RESULTS", None)) /\ at' = at
     \/ /\ at = "list" /\ Sends("event", Cmd("LIST_NETWORKS", None))
        /\ at' = "listing"
     \/ /\ at = "rescan" /\ Sends("event", Cmd("SCAN", None)) /\ at' = at
  /\ UNCHANGED <<supplicant, events, lvLock, screen, event, found, lists,
                 widgets, joins, counts, marks>>

(* SCAN_RESULTS, then find_current_network(), without the lock.            *)
EventSends ==
  /\ waiting["event"] = None
  /\ \/ /\ at = "results" /\ Sends("event", Cmd("SCAN_RESULTS", None))
        /\ UNCHANGED <<at, listNetworks>>
     \/ /\ at = "list" /\ Sends("event", Cmd("LIST_NETWORKS", None))
        /\ listNetworks' = {} /\ at' = "listing"
     \/ /\ at = "rescan" /\ Sends("event", Cmd("SCAN", None))
        /\ UNCHANGED <<at, listNetworks>>
  /\ UNCHANGED <<supplicant, events, lvLock, screen, event, found, curNetwork,
                 widgets, joins, counts, marks>>

(* Mutant: only the line marked [CURRENT] is kept.                         *)
EventReceivesCurrent(reply) ==
  /\ Receives("event", reply)
  /\ \/ /\ at = "results" /\ at' = "list"
        /\ UNCHANGED <<lvLock, found, lists>>
     \/ /\ at = "listing"
        /\ listNetworks' = listNetworks \cup (reply.nets \cap {reply.cur})
        /\ curNetwork' = IF reply.cur # None THEN reply.cur ELSE curNetwork
        /\ found' = (reply.cur # None)
        /\ at' = IF event = "results" \/ found' THEN "show" ELSE "idle"
        /\ UNCHANGED lvLock
     \/ /\ at = "rescan" /\ at' = "idle" /\ lvLock' = None
        /\ UNCHANGED <<found, lists>>
  /\ UNCHANGED <<supplicant, events, screen, event, widgets, joins, counts,
                 marks>>

EventReceives(reply) ==
  /\ Receives("event", reply)
  /\ \/ /\ at = "results" /\ at' = "list"
        /\ UNCHANGED <<lvLock, found, lists>>
     \/ /\ at = "listing"
        /\ listNetworks' = listNetworks \cup reply.nets
        /\ curNetwork' = IF reply.cur # None THEN reply.cur ELSE curNetwork
        /\ found' = (reply.cur # None)
        /\ at' = IF event = "results" \/ found' THEN "show" ELSE "idle"
        /\ UNCHANGED lvLock
     \/ /\ at = "rescan" /\ at' = "idle" /\ lvLock' = None
        /\ UNCHANGED <<found, lists>>
  /\ UNCHANGED <<supplicant, events, screen, event, widgets, joins, counts,
                 marks>>

Shows ==
  /\ at = "show" /\ lvLock = None
  /\ rows' = TRUE /\ spinner' = FALSE
  /\ saved' = listNetworks \ {curNetwork}
  /\ UNCHANGED <<supplicant, sockets, events, waiting, screen, event, found, lists,
                 front, tapped, enteringPassword, counts, senders, marks>>

(* The end of a scan; while the list grows there is another.               *)
ShowResults ==
  /\ event = "results" /\ Shows
  /\ IF curNetwork # None THEN Says("connected", curNetwork) /\ pwRow' = FALSE
     ELSE /\ UNCHANGED pwRow
          /\ IF found THEN UNCHANGED label ELSE Says("select", None)
  /\ \/ at' = "idle" /\ UNCHANGED <<lvLock, rescanBudget>>
     \/ /\ rescanBudget > 0 /\ rescanBudget' = rescanBudget - 1
        /\ at' = "rescan" /\ lvLock' = "event"
  /\ UNCHANGED <<connGen, waits>>

(* Mutant: a join does not get a number of its own.                        *)
ShowConnectedAnew ==
  /\ event = "connected" /\ Shows
  /\ Says("getting", curNetwork) /\ pwRow' = FALSE
  /\ waits' = waits \cup {[gen |-> connGen, net |-> curNetwork, checked |-> FALSE]}
  /\ at' = "idle" /\ UNCHANGED <<lvLock, rescanBudget, connGen>>

ShowConnected ==
  /\ event = "connected" /\ Shows
  /\ Says("getting", curNetwork) /\ pwRow' = FALSE
  /\ connGen' = connGen + 1
  /\ waits' = waits \cup {[gen |-> connGen', net |-> curNetwork, checked |-> FALSE]}
  /\ at' = "idle" /\ UNCHANGED <<lvLock, rescanBudget>>

(* wait_for_connectivity(), in a thread of its own: ten seconds at most,   *)
(* then a last look, without the lock, at what may have happened.          *)
WaitChecks(w) ==
  /\ ~w.checked
  /\ waits' = (waits \ {w}) \cup
       IF connGen # w.gen \/ enteringPassword THEN {} ELSE {[w EXCEPT !.checked = TRUE]}
  /\ UNCHANGED <<supplicant, sockets, events, lvLock, waiting, screen, eventLoop,
                 lists, widgets, rescanBudget, connGen, counts, senders, marks>>

WaitWrites(w) ==
  /\ w.checked /\ lvLock = None
  /\ waits' = waits \ {w}
  /\ Says("connected", w.net)
  /\ outrun' = (outrun \/ connGen # w.gen)
  /\ UNCHANGED <<supplicant, sockets, events, lvLock, waiting, screen, eventLoop,
                 lists, front, tapped, rows, saved, enteringPassword, pwRow, spinner,
                 rescanBudget, connGen, counts, senders, skipped, interrupted,
                 unlisted, scanFailed>>

-----------------------------------------------------------------------------
ScreenThread == ScreenSends \/ \E reply \in Readable : ScreenReceives(reply)
EventThread  == \/ TakeEvent \/ EventSends \/ ShowResults \/ ShowConnected
                \/ \E reply \in Readable : EventReceives(reply)
Waiters      == \E w \in waits : WaitChecks(w) \/ WaitWrites(w)

Next ==
  \/ Answer \/ ScanDone \/ ScanFails \/ Join \/ Outage
  \/ Foreground \/ TapBack \/ TapReady \/ TapCancel
  \/ \E s \in Ssids : TapKnown(s) \/ TapUnknown(s) \/ TapRemove(s)
  \/ ScreenThread \/ EventThread \/ Waiters

Spec == Init /\ [][Next]_vars

-----------------------------------------------------------------------------
(* Properties *)

Quiet == /\ requests = <<>> /\ replies = <<>> /\ events = <<>> /\ ~scanning
         /\ at = "idle" /\ lvLock = None /\ waits = {}

(* ... and wpa_supplicant is on the network it is to be on.                *)
Settled == Quiet /\ current = selected

(* A thread gets the reply to another command only after the two threads   *)
(* had commands under way at once or a reply came too late; and then it is *)
(* another thread's, or it stays one behind (wpa_event.cpp:104-116).       *)
OnlyOverlapMisreads == misread => overlapped \/ late > 0

(* When all is quiet the spinner is gone, unless the event that would have *)
(* ended it was ignored while a password was entered, or no scan has ended *)
(* well since one failed.  With neither, and if replies were read by those *)
(* they were meant for, the list on the screen is wpa_supplicant's and the *)
(* current network the one it is on.  After a failure a list that was      *)
(* behind, from before a removal, stays too (wifi_panel.cpp:194-206,       *)
(* 347-376, 426, 571-592).                                                 *)
QuietScreenIsRight ==
  /\ Quiet /\ spinner => skipped \/ scanFailed
  /\ Settled /\ rows /\ ~misread /\ ~skipped /\ ~scanFailed =>
       /\ listNetworks = known
       /\ current # None => curNetwork = current /\ current \in listNetworks

(* The row to type the password in stays while one is entered, unless it   *)
(* was asked for amid the handling of an event (wifi_panel.cpp:361, 417).  *)
OnlyLateEventHidesPassword == enteringPassword /\ ~pwRow => interrupted

(* What the label says when all is quiet is true of the network in use:    *)
(* the last join wins over the threads of earlier ones, unless one of      *)
(* these had already looked, or the join was ignored because a password    *)
(* was entered; and removing any network clears cur_network, so that a     *)
(* join being handled then has no name (wifi_panel.cpp:350, 361, 441-459,  *)
(* 528-548).                                                               *)
LastJoinHasTheLastWord ==
  Settled /\ current # None /\ label.says \in {"connected", "getting"} =>
    \/ label.net = current /\ label.says = "connected"
    \/ outrun \/ misread \/ interrupted

(* The password of a saved network is asked for only if it is tapped while *)
(* list_networks is being filled or is behind, or after a reply was read   *)
(* as another's or came after its timeout (wifi_panel.cpp:302, 571-573):   *)
(* joining it again would add it twice.                                    *)
OnlyListingAsksAgain ==
  [][label' # label /\ label'.says = "enter" /\ label'.net \in known =>
       at = "listing" \/ unlisted \/ misread \/ late > 0]_vars
=============================================================================
