------------------------------ MODULE InitPanel ------------------------------
(***************************************************************************)
(* The connection handshake (src/src/init_panel.cpp): connected() empties  *)
(* State and asks for the object list, whose reply asks for everything     *)
(* else; the reply to the status subscription fills State, fills the       *)
(* screens from it and hides the "Waiting for printer"                     *)
(* overlay that disconnected() shows.  connected() runs on onopen and on   *)
(* notify_klippy_ready, so two handshakes may be under way at once.        *)
(*                                                                         *)
(* Moonraker (outside src/) answers the requests of a connection in any    *)
(* order and each request as things are when it answers it; what it writes *)
(* arrives in order, or is lost with the connection.                       *)
(*                                                                         *)
(* Abstraction: of Klipper's status, which objects it has and one reading; *)
(* of the objects, whether they are there.  Of what else is asked for, the *)
(* settings, with a favourite macro in them.                               *)
(***************************************************************************)
EXTENDS Naturals, Sequences, FiniteSets

CONSTANTS
  Objects,         \* the printer objects Klipper can have
  MaxBreaks,       \* bound on the restarts and connection losses
  MaxUpdates       \* bound on the changes of the reading

ASSUME HandshakeAssumption ==
  /\ Objects # {} /\ IsFiniteSet(Objects)
  /\ MaxBreaks \in Nat
  /\ MaxUpdates \in Nat

VARIABLES
  (* Klipper and Moonraker *)
  klippy,          \* "up" or "down"
  objects,         \* the objects in its configuration
  reading,         \* the value of one of them
  reported,        \* the value the subscription last reported
  subscribed,      \* this connection has a status subscription
  pending,         \* requests Moonraker has not answered
  wire,            \* what it has written
  online,
  (* the panel *)
  state,           \* State::data
  overlay,         \* the init panel is shown
  macros,          \* "none", or the macro list "plain" or with "favorites"
  (* History *)
  handshakes,      \* calls of connected()
  breaks,          \* restarts and connection losses
  updates,
  refused,         \* a subscription of this connection met an error
  overtaken        \* its snapshot was answered before its settings

printer == <<klippy, objects, reading, updates>>
link    == <<reported, subscribed, pending, wire, online>>
counts  == <<handshakes, breaks, refused, overtaken>>
panelVars ==
           <<klippy, objects, reading, reported, subscribed, pending, wire,
             online, state, overlay, macros, handshakes, breaks, updates,
             refused, overtaken>>

Kinds   == {"list", "settings", "subscribe"}
Request == [kind : Kinds, n : 1..(MaxBreaks + 2)]
PanelMessage ==
           [kind : Kinds \cup {"update", "disconnected", "ready"},
            ok : BOOLEAN, objects : SUBSET Objects, reading : 0..MaxUpdates]
(* State's sections: "printer_objs", "printer_state" with its reading, and *)
(* whether "guppysettings" is there.                                       *)
Empty   == [objs |-> {}, status |-> {}, reading |-> 0, settings |-> FALSE]

PanelTypeOK ==
  /\ klippy \in {"up", "down"}
  /\ objects \subseteq Objects
  /\ reading \in 0..MaxUpdates /\ reported \in 0..MaxUpdates
  /\ updates \in 0..MaxUpdates
  /\ pending \subseteq Request
  /\ wire \in Seq(PanelMessage)
  /\ {subscribed, online, overlay, refused, overtaken} \subseteq BOOLEAN
  /\ state \in [objs : SUBSET Objects, status : SUBSET Objects,
                reading : 0..MaxUpdates, settings : BOOLEAN]
  /\ macros \in {"none", "plain", "favorites"}
  /\ handshakes \in 0..(MaxBreaks + 2)
  /\ breaks \in 0..MaxBreaks

PanelInit ==
  /\ klippy \in {"up", "down"}
  /\ objects \in (SUBSET Objects) \ {{}}
  /\ reading = 0 /\ reported = 0 /\ updates = 0
  /\ subscribed = FALSE /\ pending = {} /\ wire = <<>> /\ online = FALSE
  /\ state = Empty
  /\ overlay = TRUE
  /\ macros = "none"
  /\ handshakes = 0 /\ breaks = 0 /\ refused = FALSE /\ overtaken = FALSE

-----------------------------------------------------------------------------
(* Klipper and Moonraker, as src/ uses them *)

Written(kind, ok) ==
  [kind |-> kind, ok |-> ok, objects |-> objects, reading |-> reading]
Write(kind, ok) ==
  wire' = IF online THEN Append(wire, Written(kind, ok)) ELSE wire

UnderWay(kind) == \E i \in DOMAIN wire : wire[i].kind = kind

(* Klipper restarts: its subscriptions end, and its configuration may be   *)
(* another one when it is back.  Restarts take seconds: the panel has      *)
(* heard of the last one before the next.                                  *)
KlippyDown ==
  /\ klippy = "up" /\ breaks < MaxBreaks
  /\ ~UnderWay("disconnected") /\ ~UnderWay("ready")
  /\ klippy' = "down" /\ breaks' = breaks + 1
  /\ subscribed' = FALSE
  /\ Write("disconnected", TRUE)
  /\ UNCHANGED <<objects, reading, updates, reported, pending, online,
                 state, overlay, macros, handshakes, refused, overtaken>>

KlippyReady ==
  /\ klippy = "down"
  /\ klippy' = "up"
  /\ objects' \in (SUBSET Objects) \ {{}}
  /\ Write("ready", TRUE)
  /\ UNCHANGED <<reading, updates, reported, subscribed, pending, online,
                 state, overlay, macros, counts>>

(* A request is answered; those that need Klipper fail while it is down.   *)
AnswerRequest(r) ==
  /\ r \in pending
  /\ pending' = pending \ {r}
  /\ LET ok == r.kind = "settings" \/ klippy = "up"
     IN  /\ Write(r.kind, ok)
         /\ IF r.kind = "subscribe" /\ ok
            THEN subscribed' = TRUE /\ reported' = reading
            ELSE UNCHANGED <<subscribed, reported>>
  /\ overtaken' = IF r.kind = "subscribe"
                  THEN \E q \in pending : q.kind = "settings"
                  ELSE overtaken
  /\ UNCHANGED <<printer, online, state, overlay, macros, handshakes,
                 breaks, refused>>

ReadingChanges ==
  /\ updates < MaxUpdates
  /\ updates' = updates + 1 /\ reading' = reading + 1
  /\ UNCHANGED <<klippy, objects, link, state, overlay, macros, counts>>

(* notify_status_update, with what changed *)
StatusTick ==
  /\ subscribed /\ reported # reading
  /\ reported' = reading
  /\ Write("update", TRUE)
  /\ UNCHANGED <<printer, subscribed, pending, online, state, overlay,
                 macros, counts>>

-----------------------------------------------------------------------------
(* The event loop *)

AskFor(kinds) == [kind : kinds, n : {handshakes}]

(* Mutant: State keeps what an earlier connection left.                    *)
ConnectedKeepsState ==
  /\ handshakes' = handshakes + 1
  /\ pending' = pending \cup [kind : {"list"}, n : {handshakes + 1}]
  /\ UNCHANGED state

(* connected(): State is emptied, and the object list asked for.           *)
Connected ==
  /\ handshakes' = handshakes + 1
  /\ pending' = pending \cup [kind : {"list"}, n : {handshakes + 1}]
  /\ state' = Empty

OnOpen ==
  /\ ~online
  /\ online' = TRUE
  /\ Connected
  /\ UNCHANGED <<printer, reported, subscribed, wire, overlay, macros,
                 breaks, refused, overtaken>>

(* onclose: nothing under way arrives any more; disconnected().            *)
OnClose ==
  /\ online /\ breaks < MaxBreaks
  /\ breaks' = breaks + 1
  /\ online' = FALSE /\ subscribed' = FALSE
  /\ pending' = {} /\ wire' = <<>>
  /\ overlay' = TRUE
  /\ refused' = FALSE
  /\ UNCHANGED <<printer, reported, state, macros, handshakes, overtaken>>

Received(kind) == wire # <<>> /\ Head(wire).kind = kind /\ wire' = Tail(wire)

(* The object list: the rest is asked for.  An error has no objects, so    *)
(* nothing is subscribed to.                                               *)
ObjectList ==
  /\ Received("list")
  /\ state' = IF Head(wire).ok THEN [state EXCEPT !.objs = Head(wire).objects]
              ELSE state
  /\ pending' = pending \cup AskFor({"settings"})
                        \cup (IF Head(wire).ok THEN AskFor({"subscribe"}) ELSE {})
  /\ UNCHANGED <<printer, reported, subscribed, online, overlay, macros, counts>>

(* The guppyscreen settings just go to State.                              *)
StoreReply ==
  /\ Received("settings")
  /\ state' = [state EXCEPT !.settings = TRUE]
  /\ UNCHANGED <<printer, reported, subscribed, pending, online, overlay,
                 macros, counts>>

Merge(m) == IF m.ok THEN [state EXCEPT !.status = @ \cup m.objects,
                                       !.reading = m.reading]
            ELSE state

(* Mutant: the overlay is left where it is.                                *)
SnapshotKeepsOverlay ==
  /\ Received("subscribe")
  /\ state' = Merge(Head(wire))
  /\ macros' = IF state'.status = {} THEN "none"
             ELSE IF state'.settings THEN "favorites" ELSE "plain"
  /\ refused' = (refused \/ ~Head(wire).ok)
  /\ UNCHANGED <<printer, reported, subscribed, pending, online, overlay,
                 handshakes, breaks, overtaken>>

(* The reply to the subscription, error or not: MainPanel::init lists the  *)
(* macros, and the overlay goes.                                           *)
Snapshot ==
  /\ Received("subscribe")
  /\ state' = Merge(Head(wire))
  /\ macros' = IF state'.status = {} THEN "none"
             ELSE IF state'.settings THEN "favorites" ELSE "plain"
  /\ overlay' = FALSE
  /\ refused' = (refused \/ ~Head(wire).ok)
  /\ UNCHANGED <<printer, reported, subscribed, pending, online,
                 handshakes, breaks, overtaken>>

(* State::consume *)
StatusUpdate ==
  /\ Received("update")
  /\ state' = [state EXCEPT !.reading = Head(wire).reading]
  /\ UNCHANGED <<printer, reported, subscribed, pending, online, overlay,
                 macros, counts>>

(* Mutant: only the connection's own loss shows the overlay.               *)
KlippyDisconnectedIgnored ==
  /\ Received("disconnected")
  /\ UNCHANGED <<overlay, printer, reported, subscribed, pending, online,
                 state, macros, counts>>

(* notify_klippy_disconnected: disconnected() *)
KlippyDisconnected ==
  /\ Received("disconnected")
  /\ overlay' = TRUE
  /\ UNCHANGED <<printer, reported, subscribed, pending, online, state,
                 macros, counts>>

(* notify_klippy_ready: connected() *)
KlippyIsReady ==
  /\ Received("ready")
  /\ Connected
  /\ refused' = FALSE
  /\ UNCHANGED <<printer, reported, subscribed, online, overlay, macros,
                 breaks, overtaken>>

Handle == \/ ObjectList \/ StoreReply \/ Snapshot \/ StatusUpdate
          \/ KlippyDisconnected \/ KlippyIsReady

PanelNext ==
  \/ KlippyDown \/ KlippyReady \/ ReadingChanges \/ StatusTick
  \/ \E r \in pending : AnswerRequest(r)
  \/ OnOpen \/ OnClose
  \/ Handle

PanelSpec == PanelInit /\ [][PanelNext]_panelVars

(* Moonraker answers and reports, the client reconnects, and its event     *)
(* loop drains the socket; Klipper and the network need not come back.     *)
PanelFairness ==
  /\ WF_panelVars(\E r \in pending : AnswerRequest(r))
  /\ WF_panelVars(StatusTick)
  /\ WF_panelVars(OnOpen)
  /\ WF_panelVars(Handle)

PanelFairSpec == PanelSpec /\ PanelFairness

-----------------------------------------------------------------------------
(* Properties *)

(* Nothing is under way between the panel and Moonraker. *)
Quiet == online /\ pending = {} /\ wire = <<>>

(* Once a subscribed panel has heard everything, State is the printer's    *)
(* own: nothing of an earlier configuration, of a snapshot that was        *)
(* overtaken or of a handshake that another one interrupted is left in it  *)
(* (init_panel.cpp:43-60, state.cpp:45-59).                                *)
StateIsThePrinters ==
  Quiet /\ subscribed /\ reported = reading =>
    /\ state.objs = objects
    /\ state.status = objects
    /\ state.reading = reading

(* The screen tells the truth.  The overlay covers a panel that is not     *)
(* following a printer: "the failing connect's disconnected callback       *)
(* re-shows the init overlay" (guppyscreen.cpp:187), and the Favorites     *)
(* view shows the pinned macros (Using-GuppyKE.md:285).  Two things alone  *)
(* break that: a subscription answered with an error, which the snapshot's *)
(* callback does not look for (init_panel.cpp:123-134), and settings that  *)
(* come after the snapshot (macros_panel.cpp:146, its "TODO").             *)
OnlyRefusalOrOvertakingMisleads ==
  /\ ~online => overlay
  /\ Quiet /\ ~subscribed /\ ~overlay => refused
  /\ Quiet /\ subscribed => macros = "favorites" \/ overtaken

(* A printer that stays up gets a panel that shows it.                     *)
ComesUp ==
  klippy = "up" /\ online ~>
    \/ klippy = "down" \/ ~online
    \/ ~overlay /\ state.status = objects
=============================================================================
