----------------------------- MODULE PrintPanel -----------------------------
(***************************************************************************)
(* The file browser (src/src/print_panel.cpp) and the question it asks     *)
(* before a print (with src/src/spoolman_panel.cpp): a list kept in step   *)
(* with the printer's storage, one selected file with its details, Print,  *)
(* "Use the same filament?", and a choice of another spool in between.     *)
(*                                                                         *)
(* Taps and replies take turns under lv_lock, so each handler is a step.   *)
(* Moonraker (outside src/) answers the requests of a connection in any    *)
(* order.  The panel hears of the printer through one ordered stream only, *)
(* so a step of the printer and the handling of the message it writes are  *)
(* one step here: each is taken as late as the panel hears of it.  A       *)
(* directory takes time to read, so its list may be older than its reply.  *)
(*                                                                         *)
(* Abstraction: a file is its path, in a folder; its content is the event  *)
(* that wrote it last, which is its modification time as well.  One screen *)
(* stands for print_status, running or done.  The Status button, the       *)
(* amount of filament in the question and archived spools are left out.    *)
(***************************************************************************)
EXTENDS Naturals, FiniteSets, Bags, BagsExt

CONSTANTS
  Files,
  Spools,          \* empty: Moonraker has no Spoolman component
  None,            \* no file, no spool
  Folder,          \* the folder of each file, a child of the root
  Root,
  Usb,             \* files Moonraker does not scan when they appear
  Unscannable,     \* files it finds no metadata in
  MaxEvents,       \* bound on what the printer and other clients do, and
                   \* on the connection losses, together
  MaxTaps,         \* bound on the taps
  MaxUnderWay      \* bound on the requests under way at a tap

ASSUME PrintAssumption ==
  /\ None \notin Files \cup Spools
  /\ DOMAIN Folder = Files
  /\ Usb \subseteq Files /\ Unscannable \subseteq Files
  /\ {MaxEvents, MaxTaps, MaxUnderWay} \subseteq Nat

VARIABLES
  (* The printer, Moonraker and its connection *)
  disk,            \* the event that wrote each file, 0 when it is not there
  scanned,         \* the files Moonraker holds metadata of
  printing,        \* a print runs
  spool,           \* the active spool
  connected,
  pending,         \* requests it has not answered
  (* PrintPanel *)
  tree,            \* root: the files it lists
  cur_dir,
  cur_file,
  metadata,        \* of the files it lists, 0 when it has none
  details,         \* file_panel: what the screen says of which file
  newestFirst,     \* sort_mode and sort_reversed are the default
  refreshing_files,
  refresh_pending,
  spoolman_enabled,
  pending_print_path,
  asked,           \* the spool the question names
  (* SpoolmanPanel *)
  active_id,
  listed,          \* the spool its table marks as active
  select_for_print,\* select_for_print_cb is set
  (* The screen *)
  open,            \* the panels that lie over the main screen
  over,            \* and which of them lies over which
  known,           \* State's print status
  (* History *)
  events, taps, breaks,
  tapped,          \* the file the screen named when Print was tapped
  overlapped,      \* the last refresh began before the one before had ended
  misled           \* a spool was unheard of, changed or refused

printer == <<disk, scanned, printing, spool>>
list    == <<tree, cur_dir, newestFirst>>
choice  == <<cur_file, metadata, details>>
refresh == <<refreshing_files, refresh_pending>>
spools  == <<active_id, listed, select_for_print>>
prompt  == <<pending_print_path, asked>>
stack   == <<open, over>>
counts  == <<events, taps, breaks>>
history == <<tapped, misled, overlapped>>
vars == <<printer, connected, pending, list, choice, refresh,
          spoolman_enabled, spools, prompt, stack, known, counts, history>>

Screens == {"files", "dialog", "spools", "status"}
Version == 0..(MaxEvents + 1)
Request ==
       [kind : {"objects", "subscribe", "info", "list", "spool"}]
  \cup [kind : {"listing"}, disk : [Files -> Version]]
  \cup [kind : {"metadata", "metascan", "start"}, file : Files]
  \cup [kind : {"post"}, spool : Spools]

TypeOK ==
  /\ disk \in [Files -> Version] /\ tree \in [Files -> Version]
  /\ scanned \subseteq Files
  /\ {spool, active_id, listed, asked} \subseteq Spools \cup {None}
  /\ IsABag(pending) /\ BagToSet(pending) \subseteq Request
  /\ cur_dir \in {Root} \cup {Folder[f] : f \in Files}
  /\ {cur_file, pending_print_path, tapped} \subseteq Files \cup {None}
  /\ metadata \in [Files -> Version]
  /\ details \in [file : Files \cup {None}, version : Version,
                  state : {"loading", "shown", "missing"}]
  /\ open \subseteq Screens /\ over \subseteq open \X open
  /\ \A s, t \in open : <<s, t>> \in over <=> s # t /\ <<t, s>> \notin over
  /\ known \in {"unknown", "idle", "running"}
  /\ {printing, connected, newestFirst, refreshing_files, refresh_pending,
      spoolman_enabled, select_for_print, misled, overlapped}
       \subseteq BOOLEAN
  /\ events \in 1..(MaxEvents + 1)
  /\ taps \in 0..MaxTaps /\ breaks \in 0..MaxEvents

Init ==
  /\ disk \in [Files -> {0, 1}]
  /\ scanned = {f \in Files \ (Usb \cup Unscannable) : disk[f] # 0}
  /\ printing = FALSE
  /\ spool \in Spools \cup {None}
  /\ connected = FALSE /\ pending = EmptyBag
  /\ tree = [f \in Files |-> 0] /\ cur_dir = Root /\ newestFirst = TRUE
  /\ cur_file = None /\ metadata = [f \in Files |-> 0]
  /\ details = [file |-> None, version |-> 0, state |-> "missing"]
  /\ refreshing_files = FALSE /\ refresh_pending = FALSE
  /\ spoolman_enabled = FALSE
  /\ active_id = None /\ listed = None /\ select_for_print = FALSE
  /\ pending_print_path = None /\ asked = None
  /\ open = {} /\ over = {} /\ known = "unknown"
  /\ events = 1 /\ taps = 0 /\ breaks = 0
  /\ tapped = None /\ misled = FALSE
  /\ overlapped = FALSE

-----------------------------------------------------------------------------
(* Requests and screens *)

(* Requests rs join those in p; on a lost connection they go nowhere. *)
SendWith(p, rs) == pending' = IF connected THEN p (+) SetToBag(rs) ELSE p
Send(rs) == SendWith(pending, rs)

(* The reply to r arrives. *)
Reply(r) == r \in DOMAIN pending
Rest(r)  == BagRemove(pending, r)

Ask(kind)    == [kind |-> kind]
Listing(d)   == [kind |-> "listing", disk |-> d]
About(kind, f) == [kind |-> kind, file |-> f]

(* The panels ss close; another, s, comes to the front. *)
Lower(ss) ==
  /\ open' = open \ ss
  /\ over' = {p \in over : p[1] \notin ss /\ p[2] \notin ss}
Raise(s, ss) ==
  LET kept == open \ (ss \cup {s})
  IN  /\ open' = kept \cup {s}
      /\ over' = {p \in over : p[1] \in kept /\ p[2] \in kept}
                   \cup ({s} \X kept)
OnTop(s) == s \in open /\ \A t \in open \ {s} : <<s, t>> \in over

-----------------------------------------------------------------------------
(* What PrintPanel's handlers call *)

Leaves(t, dir) == {f \in Files : t[f] # 0 /\ Folder[f] = dir}
Newest(t, fs)  == {f \in fs : \A g \in fs : t[g] <= t[f]}
First(t, dir, newest) ==
  IF newest THEN Newest(t, Leaves(t, dir)) ELSE Leaves(t, dir)

(* show_file_detail: what is known is shown, the rest is asked for, after  *)
(* the requests p.                                                         *)
ShowFileDetail(f, data, p) ==
  /\ cur_file' = f
  /\ metadata' = data
  /\ IF data[f] # 0
     THEN /\ details' = [file |-> f, version |-> data[f], state |-> "shown"]
          /\ pending' = p
     ELSE /\ details' = [file |-> f, version |-> 0, state |-> "loading"]
          /\ SendWith(p, {About("metadata", f)})

(* show_dir: the first file listed is selected. *)
ShowDir(t, dir, newest, selected, data, p) ==
  \/ \E f \in First(t, dir, newest) : ShowFileDetail(f, data, p)
  \/ /\ Leaves(t, dir) = {}
     /\ cur_file' = selected /\ metadata' = data /\ pending' = p
     /\ UNCHANGED details

(* subscribe, beside the requests p *)
Refreshing(p) == \E r \in DOMAIN p : r.kind \in {"list", "listing"}
Subscribing(p) ==
  /\ refreshing_files' = TRUE /\ refresh_pending' = FALSE
  /\ overlapped' = Refreshing(p)

(* start_pending_print; without a path nothing starts *)
StartPendingPrint(f) ==
  /\ Send({About("start", g) : g \in {f} \ {None}})
  /\ pending_print_path' = None
  /\ IF f = None THEN Lower({"dialog", "status"})
     ELSE Raise("status", {"dialog"})

(* show_filament_dialog, as the panels in closed go *)
ShowFilamentDialog(s, closed) ==
  /\ asked' = s
  /\ Raise("dialog", closed)
  /\ misled' = (misled \/ \E r \in DOMAIN pending :
                            r.kind \in {"objects", "info", "spool", "post"})

-----------------------------------------------------------------------------
(* The printer and other clients, and what the panel does as it hears *)

Happens == events + breaks <= MaxEvents /\ events' = events + 1

(* Mutant: a change during a refresh is forgotten. *)
FilelistDropped ==
  IF ~connected THEN UNCHANGED <<refresh, pending, overlapped>>
  ELSE IF refreshing_files
  THEN UNCHANGED <<refresh, pending, overlapped>>
  ELSE Subscribing(pending) /\ Send({Ask("list")})

(* consume: one refresh is under way at a time, and one may wait for it.   *)
FilelistChanged ==
  IF ~connected THEN UNCHANGED <<refresh, pending, overlapped>>
  ELSE IF refreshing_files
  THEN refresh_pending' = TRUE
       /\ UNCHANGED <<refreshing_files, pending, overlapped>>
  ELSE Subscribing(pending) /\ Send({Ask("list")})

(* A file is uploaded, or written again. *)
WriteFile(f) ==
  /\ Happens
  /\ disk' = [disk EXCEPT ![f] = events + 1]
  /\ scanned' = IF f \in Usb \cup Unscannable THEN scanned \ {f}
                ELSE scanned \cup {f}
  /\ FilelistChanged
  /\ UNCHANGED <<printing, spool, connected, list, choice, spoolman_enabled,
                 spools, prompt, stack, known, taps, breaks, tapped,
                 misled>>

DeleteFile(f) ==
  /\ disk[f] # 0 /\ Happens
  /\ disk' = [disk EXCEPT ![f] = 0]
  /\ scanned' = scanned \ {f}
  /\ FilelistChanged
  /\ UNCHANGED <<printing, spool, connected, list, choice, spoolman_enabled,
                 spools, prompt, stack, known, taps, breaks, tapped,
                 misled>>

(* Another client starts a print; a print ends. *)
PrintChanges ==
  /\ Happens
  /\ printing' = ~printing
  /\ UNCHANGED <<disk, scanned, spool, connected, pending, list, choice, refresh,
                 spoolman_enabled, spools, prompt, stack, known, taps, breaks,
                 history>>

Known == IF printing THEN "running" ELSE "idle"

(* The status subscription tells.  A print that starts brings print_status *)
(* to the front, unless its file is the last one again; one that ends      *)
(* raises its summary, or closes it.                                       *)
Status ==
  /\ connected /\ known \notin {"unknown", Known}
  /\ known' = Known
  /\ \/ Raise("status", {})
     \/ ~printing /\ Lower({"status"})
     \/ UNCHANGED stack
  /\ UNCHANGED <<printer, connected, pending, list, choice, refresh,
                 spoolman_enabled, spools, prompt, counts, tapped, misled,
                 overlapped>>

(* handle_active_id_update, and the reply to get_spool_id: no id, no       *)
(* change.                                                                 *)
Hear(s) ==
  IF s = None \/ ~connected THEN UNCHANGED <<active_id, listed>>
  ELSE active_id' = s /\ listed' = s

(* Another client makes a spool the active one, or none. *)
SpoolChanges(s) ==
  /\ s # spool /\ Spools # {} /\ Happens
  /\ spool' = s
  /\ Hear(s)
  /\ misled' = TRUE
  /\ UNCHANGED <<disk, scanned, printing, connected, pending, list, choice,
                 refresh, spoolman_enabled, select_for_print, prompt, stack,
                 known, taps, breaks, tapped, overlapped>>

-----------------------------------------------------------------------------
(* The replies, which the event loop hands to their callbacks *)

(* onopen: State is emptied, and the handshake begins. *)
OnOpen ==
  /\ ~connected
  /\ connected' = TRUE
  /\ known' = "unknown"
  /\ pending' = SetToBag({Ask("objects")})
  /\ UNCHANGED <<printer, list, choice, refresh, spoolman_enabled, spools,
                 prompt, stack, counts, history>>

(* Nothing under way arrives any more. *)
OnClose ==
  /\ connected /\ events + breaks <= MaxEvents
  /\ breaks' = breaks + 1
  /\ connected' = FALSE
  /\ misled' = (misled \/ \E r \in DOMAIN pending : r.kind = "post")
  /\ pending' = EmptyBag
  /\ UNCHANGED <<printer, list, choice, refresh, spoolman_enabled, spools,
                 prompt, stack, known, events, taps, tapped,
                 overlapped>>

(* The object list: MainPanel::subscribe, and the rest of the handshake.   *)
ObjectList ==
  /\ Reply(Ask("objects"))
  /\ SendWith(Rest(Ask("objects")), {Ask("list"), Ask("subscribe"), Ask("info")})
  /\ Subscribing(pending)
  /\ UNCHANGED <<printer, connected, list, choice, spoolman_enabled, spools,
                 prompt, stack, known, counts, tapped, misled>>

(* The snapshot of the status subscription goes to State. *)
Snapshot ==
  /\ Reply(Ask("subscribe"))
  /\ pending' = Rest(Ask("subscribe"))
  /\ known' = Known
  /\ UNCHANGED <<printer, connected, list, choice, refresh, spoolman_enabled,
                 spools, prompt, stack, counts, tapped, misled,
                 overlapped>>

(* enable_spoolman, when Moonraker has that component *)
ServerInfo ==
  /\ Reply(Ask("info"))
  /\ spoolman_enabled' = (spoolman_enabled \/ Spools # {})
  /\ SendWith(Rest(Ask("info")), IF Spools # {} THEN {Ask("spool")} ELSE {})
  /\ UNCHANGED <<printer, connected, list, choice, refresh, spools, prompt,
                 stack, known, counts, history>>

SpoolId ==
  /\ Reply(Ask("spool"))
  /\ pending' = Rest(Ask("spool"))
  /\ Hear(spool)
  /\ UNCHANGED <<printer, connected, list, choice, refresh, spoolman_enabled,
                 select_for_print, prompt, stack, known, counts, history>>

(* Moonraker has read the directory, and has still to reply. *)
ListRead ==
  /\ Reply(Ask("list"))
  /\ pending' = Rest(Ask("list")) (+) SetToBag({Listing(disk)})
  /\ UNCHANGED <<printer, connected, list, choice, refresh, spoolman_enabled,
                 spools, prompt, stack, known, counts, history>>

(* Mutant: what was known of a file is kept. *)
FileListKeepsMetadata(d) ==
  LET rest == Rest(Listing(d))
      again == IF refresh_pending THEN {Ask("list")} ELSE {}
  IN  /\ Reply(Listing(d))
      /\ tree' = d
      /\ cur_dir' = IF Leaves(d, cur_dir) # {} THEN cur_dir ELSE Root
      /\ newestFirst' = TRUE
      /\ ShowDir(d, cur_dir', TRUE, None, metadata,
                 rest (+) SetToBag(again))
      /\ refreshing_files' = refresh_pending /\ refresh_pending' = FALSE
      /\ overlapped' = IF refresh_pending THEN Refreshing(rest) ELSE overlapped
      /\ UNCHANGED <<printer, connected, spoolman_enabled, spools, prompt,
                     stack, known, counts, tapped, misled>>

(* The reply to subscribe(): the tree is built anew, the folder kept while *)
(* it has files, the order reset, and the newest file selected.            *)
FileList(d) ==
  LET rest == Rest(Listing(d))
      again == IF refresh_pending THEN {Ask("list")} ELSE {}
  IN  /\ Reply(Listing(d))
      /\ tree' = d
      /\ cur_dir' = IF Leaves(d, cur_dir) # {} THEN cur_dir ELSE Root
      /\ newestFirst' = TRUE
      /\ ShowDir(d, cur_dir', TRUE, None, [f \in Files |-> 0],
                 rest (+) SetToBag(again))
      /\ refreshing_files' = refresh_pending /\ refresh_pending' = FALSE
      /\ overlapped' = IF refresh_pending THEN Refreshing(rest) ELSE overlapped
      /\ UNCHANGED <<printer, connected, spoolman_enabled, spools, prompt,
                     stack, known, counts, tapped, misled>>

(* set_metadata and refresh_view, while the file is still selected *)
Got(f) ==
  IF cur_file # f THEN UNCHANGED <<metadata, details>>
  ELSE /\ metadata' = [metadata EXCEPT ![f] = disk[f]]
       /\ details' = [file |-> f, version |-> disk[f], state |-> "shown"]

(* The reply to files.metadata: of a file Moonraker has not scanned, a     *)
(* scan is asked for, while the file is still selected.                    *)
GotMetadata(f) ==
  LET r == About("metadata", f)
  IN  /\ Reply(r)
      /\ IF f \in scanned THEN pending' = Rest(r) /\ Got(f)
         ELSE /\ SendWith(Rest(r), {About("metascan", g) : g \in {f} \cap {cur_file}})
              /\ UNCHANGED <<metadata, details>>
      /\ UNCHANGED <<printer, connected, list, cur_file, refresh,
                     spoolman_enabled, spools, prompt, stack, known, counts,
                     history>>

GotMetascan(f) ==
  LET r == About("metascan", f)
  IN  /\ Reply(r)
      /\ pending' = Rest(r)
      /\ IF disk[f] # 0 /\ f \notin Unscannable
         THEN scanned' = scanned \cup {f} /\ Got(f)
         ELSE /\ details' = IF cur_file = f
                            THEN [details EXCEPT !.state = "missing", !.version = 0]
                            ELSE details
              /\ UNCHANGED <<scanned, metadata>>
      /\ UNCHANGED <<disk, printing, spool, connected, list, cur_file, refresh,
                     spoolman_enabled, spools, prompt, stack, known, counts,
                     history>>

(* Klipper refuses a print while one runs. *)
Started(f) ==
  /\ Reply(About("start", f))
  /\ pending' = Rest(About("start", f))
  /\ printing' = (printing \/ disk[f] # 0)
  /\ UNCHANGED <<disk, scanned, spool, connected, list, choice, refresh,
                 spoolman_enabled, spools, prompt, stack, known, counts,
                 history>>

(* Spoolman takes the spool and every client is told, or is out of reach.  *)
Posted(s) ==
  LET r == [kind |-> "post", spool |-> s]
  IN  /\ Reply(r)
      /\ pending' = Rest(r)
      /\ \/ spool' = s /\ Hear(s) /\ UNCHANGED misled
         \/ misled' = TRUE /\ UNCHANGED <<spool, active_id, listed>>
      /\ UNCHANGED <<disk, scanned, printing, connected, list, choice, refresh,
                     spoolman_enabled, select_for_print, prompt, stack, known,
                     counts, tapped, overlapped>>

-----------------------------------------------------------------------------
(* The taps, which the init panel's overlay keeps out until the snapshot   *)

Tap ==
  /\ connected /\ known # "unknown"
  /\ BagCardinality(pending) <= MaxUnderWay
  /\ taps < MaxTaps /\ taps' = taps + 1

Untapped == <<printer, connected, known, events, breaks, spoolman_enabled>>

(* foreground *)
OpenFiles ==
  /\ Tap /\ open = {}
  /\ Raise("files", {})
  /\ ShowDir(tree, cur_dir, newestFirst, cur_file, metadata,
             pending (+) SetToBag({Ask("list")}))
  /\ Subscribing(pending)
  /\ UNCHANGED <<Untapped, list, spools, prompt, tapped, misled>>

Reload ==
  /\ Tap /\ OnTop("files")
  /\ Subscribing(pending) /\ Send({Ask("list")})
  /\ UNCHANGED <<Untapped, list, choice, spools, prompt, stack, tapped, misled>>

SortTap ==
  /\ Tap /\ OnTop("files")
  /\ newestFirst' \in BOOLEAN
  /\ ShowDir(tree, cur_dir, newestFirst', cur_file, metadata, pending)
  /\ UNCHANGED <<Untapped, tree, cur_dir, refresh, spools, prompt, stack,
                 history>>

TapFile(f) ==
  /\ Tap /\ OnTop("files")
  /\ f \in Leaves(tree, cur_dir) \ {cur_file}
  /\ ShowFileDetail(f, metadata, pending)
  /\ UNCHANGED <<Untapped, list, refresh, spools, prompt, stack, history>>

TapFolder(dir) ==
  /\ Tap /\ OnTop("files")
  /\ dir # cur_dir
  /\ dir = Root \/ (cur_dir = Root /\ Leaves(tree, dir) # {})
  /\ cur_dir' = dir
  /\ ShowDir(tree, dir, newestFirst, cur_file, metadata, pending)
  /\ UNCHANGED <<Untapped, tree, newestFirst, refresh, spools, prompt, stack,
                 history>>

Back ==
  /\ Tap /\ OnTop("files")
  /\ Lower({"files", "status"})
  /\ UNCHANGED <<Untapped, pending, list, choice, refresh, spools, prompt,
                 history>>

(* print_status's Back, or Done *)
BackStatus ==
  /\ Tap /\ OnTop("status")
  /\ Lower({"status"})
  /\ UNCHANGED <<Untapped, pending, list, choice, refresh, spools, prompt,
                 history>>

(* handle_print_callback; what is known to print is not printed over. *)
TapPrint ==
  /\ Tap /\ OnTop("files")
  /\ cur_file # None /\ known = "idle"
  /\ tapped' = details.file
  /\ IF spoolman_enabled
     THEN /\ pending_print_path' = cur_file
          /\ ShowFilamentDialog(active_id, {})
          /\ UNCHANGED pending
     ELSE StartPendingPrint(cur_file) /\ UNCHANGED <<asked, misled>>
  /\ UNCHANGED <<Untapped, list, choice, refresh, spools, overlapped>>

(* Mutant: what is selected now is printed. *)
TapYesSelected ==
  /\ Tap /\ OnTop("dialog")
  /\ StartPendingPrint(cur_file)
  /\ UNCHANGED <<Untapped, list, choice, refresh, spools, asked, history>>

(* handle_filament_btns: Yes *)
TapYes ==
  /\ Tap /\ OnTop("dialog")
  /\ StartPendingPrint(pending_print_path)
  /\ UNCHANGED <<Untapped, list, choice, refresh, spools, asked, history>>

(* handle_filament_btns: No; request_select_for_print *)
TapNo ==
  /\ Tap /\ OnTop("dialog")
  /\ select_for_print' = TRUE
  /\ Raise("spools", {"dialog"})
  /\ UNCHANGED <<Untapped, pending, list, choice, refresh, active_id, listed,
                 prompt, history>>

(* From the settings, or the extruder panel *)
OpenSpools ==
  /\ Tap /\ open = {} /\ spoolman_enabled
  /\ Raise("spools", {})
  /\ UNCHANGED <<Untapped, pending, list, choice, refresh, spools, prompt,
                 history>>

ReloadSpools ==
  /\ Tap /\ OnTop("spools")
  /\ Send({Ask("spool")})
  /\ UNCHANGED <<Untapped, list, choice, refresh, spools, prompt, stack,
                 history>>

(* Mutant: active_id waits for Spoolman. *)
TapSpoolWaits(s) ==
  /\ Tap /\ OnTop("spools")
  /\ s # listed
  /\ Send({[kind |-> "post", spool |-> s]})
  /\ select_for_print' = FALSE
  /\ IF select_for_print
     THEN UNCHANGED active_id /\ ShowFilamentDialog(active_id, {"spools"})
     ELSE UNCHANGED <<active_id, asked, stack, misled>>
  /\ UNCHANGED <<Untapped, list, choice, refresh, listed, pending_print_path,
                 tapped, overlapped>>

(* A spool that is not marked as active is chosen: a print that waits for  *)
(* the choice has its question asked again.                                *)
TapSpool(s) ==
  /\ Tap /\ OnTop("spools")
  /\ s # listed
  /\ Send({[kind |-> "post", spool |-> s]})
  /\ select_for_print' = FALSE
  /\ IF select_for_print
     THEN active_id' = s /\ ShowFilamentDialog(s, {"spools"})
     ELSE UNCHANGED <<active_id, asked, stack, misled>>
  /\ UNCHANGED <<Untapped, list, choice, refresh, listed, pending_print_path,
                 tapped, overlapped>>

BackSpools ==
  /\ Tap /\ OnTop("spools")
  /\ select_for_print' = FALSE
  /\ Lower({"spools"})
  /\ UNCHANGED <<Untapped, pending, list, choice, refresh, active_id, listed,
                 prompt, history>>

Next ==
  \/ \E f \in Files : WriteFile(f) \/ DeleteFile(f) \/ TapFile(f)
                     \/ GotMetadata(f) \/ GotMetascan(f) \/ Started(f)
  \/ \E s \in Spools : TapSpool(s) \/ Posted(s)
  \/ \E s \in Spools \cup {None} : SpoolChanges(s)
  \/ \E dir \in {Root} \cup {Folder[f] : f \in Files} : TapFolder(dir)
  \/ PrintChanges \/ Status
  \/ OnOpen \/ OnClose \/ ObjectList \/ Snapshot \/ ServerInfo \/ SpoolId
  \/ ListRead \/ \E r \in DOMAIN pending : r.kind = "listing" /\ FileList(r.disk)
  \/ OpenFiles \/ Reload \/ SortTap \/ Back \/ BackStatus
  \/ TapPrint \/ TapYes \/ TapNo
  \/ OpenSpools \/ ReloadSpools \/ BackSpools

Spec == Init /\ [][Next]_vars

-----------------------------------------------------------------------------
(* Properties *)

(* The panel has heard everything. *)
Quiet == connected /\ pending = EmptyBag

(* The browser lists what is on disk, however notifications, reloads and   *)
(* lost connections overlap with a refresh, unless two lists were asked    *)
(* for at once: nothing tells which of two replies is the newer            *)
(* (print_panel.cpp:206-254).                                              *)
OnlyOverlapMislists == Quiet => ~refreshing_files /\ (tree = disk \/ overlapped)

(* The selected file is one of those listed, and the one the screen names: *)
(* no refresh leaves cur_file in the tree it cleared.  While the list is   *)
(* right, what the screen says of it is true of the file there is now: no  *)
(* late reply, and nothing kept through a refresh, describes an earlier    *)
(* one (print_panel.cpp:237, 367-404).                                     *)
DetailsAreTheFiles ==
  cur_file # None =>
    /\ tree[cur_file] # 0 /\ details.file = cur_file
    /\ Quiet /\ tree = disk =>
         IF cur_file \in Unscannable THEN details.state = "missing"
         ELSE details.state = "shown" /\ details.version = disk[cur_file]

Starts(f) ==
  LET r == About("start", f)
  IN  r \in DOMAIN pending' /\ (r \in DOMAIN pending => pending'[r] > pending[r])

(* The file that is printed is the one the screen named when Print was     *)
(* tapped, whatever a refresh selects while the question is open           *)
(* (print_panel.cpp:430, 459-468).                                         *)
PrintsTheTapped == [][\A f \in Files : Starts(f) => f = tapped']_vars

(* "a Use this filament? popup shows the active spool"                     *)
(* (Using-GuppyKE.md:764): the question is about a print that still waits, *)
(* not about one given up on an earlier visit to the spools, and names the *)
(* spool the print will be charged to, unless another client or a refusal  *)
(* changed that, or the spool it is charged to has not been heard of yet   *)
(* (spoolman_panel.cpp:324, 457).                                          *)
OnlyOthersMislead ==
  /\ select_for_print => "spools" \in open
  /\ "dialog" \in open =>
       /\ pending_print_path # None
       /\ Quiet /\ ~misled => asked = spool
=============================================================================
