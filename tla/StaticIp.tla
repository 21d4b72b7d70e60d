------------------------------- MODULE StaticIp -------------------------------
(***************************************************************************)
(* The static IP settings of a WiFi network: the screen                    *)
(* (src/src/static_ip_panel.cpp), which runs a process of the back end     *)
(* (src/k1/scripts/static_ip.py) per tap, and that back end, which keeps   *)
(* one file of entries and one of snapshots and sets up wlan0.  Processes  *)
(* overlap, the printer may lose power between any two of their steps, and *)
(* the radio may roam to another network.                                  *)
(*                                                                         *)
(* Abstraction: an address stands for address, netmask, gateway and DNS;   *)
(* it is a lease of a network or the n-th entry saved.  The two files are  *)
(* replaced atomically, as save_json does.  The DHCP / Manual switch is a  *)
(* view; Revert and its modal question are one tap.  The subcommands get,  *)
(* revert and apply-boot-hook are left out: nothing here runs them.        *)
(***************************************************************************)
EXTENDS Naturals

CONSTANTS
  Ssids,           \* networks the printer knows
  Jobs,            \* slots for processes of the back end
  None,            \* no network, no address
  MaxSaves,        \* bound on the taps of Save
  MaxReverts,      \* bound on the taps of Revert
  MaxOpens,        \* bound on the visits to the screen
  MaxRoams, MaxBoots

ASSUME StaticIpAssumption ==
  /\ None \notin Ssids \cup [net : Ssids, n : Nat]
  /\ {MaxSaves, MaxReverts, MaxOpens, MaxRoams, MaxBoots} \subseteq Nat

VARIABLES
  (* disk *)
  entry,           \* static_ip.json: the entry of each network, 0 for none
  snapshot,        \* static_ip_dhcp_snapshot.json: its address under DHCP
  (* wlan0 *)
  iface,           \* the address in force
  daemon,          \* a udhcpc runs and renews
  assoc,           \* the network the radio is on
  (* the back end *)
  jobs,
  (* StaticIpPanel *)
  front,           \* the screen is in front
  ssid,            \* the network it is about
  busy, hasStatic,
  label,           \* what status_label says of the last Save
  (* History *)
  saves, reverts, opens, roams, boots,
  reopened,        \* two jobs were under way at once
  overlapped,      \* two of them changing something
  failed,          \* an ifconfig or route command or a status call failed
  stranded,        \* why wlan0 may be empty: the last who set it up found no
                   \* snapshot ("bare"), or ifconfig took no address ("raised")
  astray,          \* the radio has left the network wlan0 was set up for, or
                   \* the one a process went on to set it up for
  blind,           \* networks given an entry while wlan0 had no address
  strays           \* networks whose snapshot was taken astray, or off them

disk    == <<entry, snapshot>>
wlan0   == <<iface, daemon, assoc>>
panel   == <<front, ssid, busy, hasStatic, label>>
counts  == <<saves, reverts, opens, roams, boots>>
setup   == <<stranded, astray>>
spoilt  == <<blind, strays>>
history == <<counts, reopened, overlapped, failed, setup, spoilt>>
vars    == <<entry, snapshot, iface, daemon, assoc, jobs, front, ssid,
             busy, hasStatic, label, saves, reverts, opens, roams, boots,
             reopened, overlapped, failed, stranded, astray, blind, strays>>

Versions  == 0..MaxSaves
Addresses == [net : Ssids, n : Versions]
Lease(s)  == [net |-> s, n |-> 0]

Steps == {"off", "load", "save", "check", "snapshot", "apply", "revert",
          "lease", "offer", "watch", "exit"}

JobRecord ==
  [op : {"status", "set", "remove"}, at : Steps, ssid : Ssids \cup {None},
   n : Versions,                      \* the entry to save
   config : [Ssids -> Versions],      \* load_config(), as changed in memory
   active : BOOLEAN,                  \* was_active_ssid
   fallback : Addresses \cup {None},  \* the snapshot that was loaded
   ok : BOOLEAN]                      \* exit status 0

StepsOf == [status |-> {"off", "load", "exit"},
            set    |-> {"load", "save", "check", "snapshot", "apply", "exit"},
            remove |-> {"load", "save", "revert", "lease", "offer", "watch", "exit"}]

NoConfig == [s \in Ssids |-> 0]
Off      == [op |-> "status", at |-> "off", ssid |-> None, n |-> 0,
             config |-> NoConfig, active |-> FALSE, fallback |-> None,
             ok |-> TRUE]

TypeOK ==
  /\ entry \in [Ssids -> Versions]
  /\ snapshot \in [Ssids -> Addresses \cup {None}]
  /\ iface \in Addresses \cup {None} /\ daemon \in BOOLEAN /\ assoc \in Ssids
  /\ jobs \in [Jobs -> JobRecord]
  /\ \A j \in Jobs : jobs[j].at \in StepsOf[jobs[j].op]
  /\ ssid \in Ssids \cup {None} /\ {front, busy, hasStatic} \subseteq BOOLEAN
  /\ label \in {"state", "applied", "failed"}
  /\ saves \in 0..MaxSaves /\ reverts \in 0..MaxReverts
  /\ opens \in 0..MaxOpens /\ roams \in 0..MaxRoams /\ boots \in 0..MaxBoots
  /\ {reopened, overlapped, failed, astray} \subseteq BOOLEAN
  /\ stranded \in {"no", "bare", "raised"}
  /\ blind \subseteq Ssids /\ strays \subseteq Ssids

Init ==
  /\ entry = NoConfig /\ snapshot = [s \in Ssids |-> None]
  /\ iface = None /\ daemon = TRUE /\ assoc \in Ssids
  /\ jobs = [j \in Jobs |-> Off]
  /\ front = FALSE /\ ssid = None /\ busy = FALSE /\ hasStatic = FALSE /\ label = "state"
  /\ saves = 0 /\ reverts = 0 /\ opens = 0 /\ roams = 0 /\ boots = 0
  /\ reopened = FALSE /\ overlapped = FALSE /\ failed = FALSE
  /\ stranded = "no" /\ astray = FALSE /\ blind = {} /\ strays = {}

-----------------------------------------------------------------------------
(* The back end: the steps of set, remove and status *)

At(j, op, step) == jobs[j].op = op /\ jobs[j].at = step
Go(j, step)     == jobs' = [jobs EXCEPT ![j].at = step]
Exit(j, ok)     == jobs' = [jobs EXCEPT ![j] =
                     [Off EXCEPT !.op = jobs[j].op, !.ssid = jobs[j].ssid,
                                 !.at = "exit", !.ok = ok]]

SetsUp(j) == astray' = (astray \/ jobs[j].ssid # assoc)

(* configure_interface(): ifconfig takes the address, then route may fail, *)
(* or ifconfig fails; either raises, which ends the process.               *)
Configures(j, address) ==
  /\ iface' = address /\ stranded' = "no" /\ SetsUp(j) /\ UNCHANGED failed

CannotConfigure(j, address) ==
  /\ iface' \in {iface, address} /\ failed' = TRUE /\ SetsUp(j)
  /\ stranded' = IF iface' = None THEN "raised" ELSE "no"

(* set: load_config(), the entry added in memory.                          *)
SetLoads(j) ==
  /\ At(j, "set", "load")
  /\ jobs' = [jobs EXCEPT ![j].at = "save",
                ![j].config = [entry EXCEPT ![jobs[j].ssid] = jobs[j].n]]
  /\ UNCHANGED <<disk, wlan0, panel, history>>

(* remove: load_config(), then current_ssid().                             *)
RemoveLoads(j) ==
  /\ At(j, "remove", "load")
  /\ jobs' = [jobs EXCEPT ![j].at = "save",
                ![j].config = [entry EXCEPT ![jobs[j].ssid] = 0],
                ![j].active = (assoc = jobs[j].ssid)]
  /\ UNCHANGED <<disk, wlan0, panel, history>>

(* Mutant: the file is written with the entry of this network alone.       *)
SaveConfigAlone(j) ==
  /\ jobs[j].at = "save"
  /\ entry' = [NoConfig EXCEPT ![jobs[j].ssid] = jobs[j].n]
  /\ jobs' = [jobs EXCEPT ![j].config = NoConfig,
                ![j].at = IF jobs[j].op = "set" THEN "check" ELSE "revert"]
  /\ UNCHANGED <<snapshot, wlan0, panel, history>>

(* save_config(): the whole file, as it was loaded but for one entry.      *)
SaveConfig(j) ==
  /\ jobs[j].at = "save"
  /\ entry' = jobs[j].config
  /\ jobs' = [jobs EXCEPT ![j].config = NoConfig,
                ![j].at = IF jobs[j].op = "set" THEN "check" ELSE "revert"]
  /\ UNCHANGED <<snapshot, wlan0, panel, history>>

(* set goes on only if the network is the one the radio is on.             *)
CheckSsid(j) ==
  /\ At(j, "set", "check")
  /\ IF assoc = jobs[j].ssid THEN Go(j, "snapshot") ELSE Exit(j, TRUE)
  /\ UNCHANGED <<disk, wlan0, panel, history>>

(* What is wrong with a snapshot that is taken now                         *)
Notes(j, taken) ==
  LET s == jobs[j].ssid IN
  /\ blind' = IF taken /\ iface = None THEN blind \cup {s} ELSE blind
  /\ strays' = IF taken /\ (astray \/ assoc # s) THEN strays \cup {s} ELSE strays

(* Mutant: a snapshot is taken every time.                                 *)
SnapshotDhcpStateAlways(j) ==
  /\ At(j, "set", "snapshot")
  /\ snapshot' = [snapshot EXCEPT ![jobs[j].ssid] = iface]
  /\ Go(j, "apply") /\ Notes(j, TRUE)
  /\ UNCHANGED <<entry, wlan0, panel, counts, reopened, overlapped, failed, setup>>

(* snapshot_dhcp_state(): the live address, the first time there is one.   *)
SnapshotDhcpState(j) ==
  /\ At(j, "set", "snapshot")
  /\ LET first == snapshot[jobs[j].ssid] = None IN
     /\ snapshot' = IF first THEN [snapshot EXCEPT ![jobs[j].ssid] = iface]
                             ELSE snapshot
     /\ Notes(j, first)
  /\ Go(j, "apply")
  /\ UNCHANGED <<entry, wlan0, panel, counts, reopened, overlapped, failed, setup>>

(* Mutant: the udhcpc that runs is not killed.                             *)
ApplyStaticBeside(j) ==
  /\ At(j, "set", "apply")
  /\ Configures(j, [net |-> jobs[j].ssid, n |-> jobs[j].n]) /\ Exit(j, TRUE)
  /\ UNCHANGED <<disk, daemon, assoc, panel, counts, reopened, overlapped, spoilt>>

(* apply_static(): no udhcpc is left to undo it.                           *)
ApplyStatic(j) ==
  /\ At(j, "set", "apply")
  /\ daemon' = FALSE
  /\ LET address == [net |-> jobs[j].ssid, n |-> jobs[j].n] IN
     \/ Configures(j, address) /\ Exit(j, TRUE)
     \/ CannotConfigure(j, address) /\ Exit(j, FALSE)
  /\ UNCHANGED <<disk, assoc, panel, counts, reopened, overlapped, spoilt>>

(* revert_to_dhcp() of a network the radio was on: the snapshot first.     *)
Revert(j) ==
  /\ At(j, "remove", "revert")
  /\ LET back == snapshot[jobs[j].ssid] IN
     IF ~jobs[j].active
     THEN Exit(j, TRUE) /\ UNCHANGED <<iface, daemon, failed, setup>>
     ELSE /\ daemon' = FALSE
          /\ \/ /\ IF back = None THEN UNCHANGED <<iface, failed, setup>>
                                  ELSE Configures(j, back)
                /\ jobs' = [jobs EXCEPT ![j].at = "lease", ![j].fallback = back]
             \/ back # None /\ CannotConfigure(j, back) /\ Exit(j, FALSE)
  /\ UNCHANGED <<disk, assoc, panel, counts, reopened, overlapped, spoilt>>

(* A udhcpc clears the interface before it asks.                           *)
Clears == iface' = None /\ stranded' = "no" /\ astray' = FALSE

(* The one-shot udhcpc                                                     *)
TryFreshLease(j) ==
  /\ At(j, "remove", "lease")
  /\ Clears
  /\ Go(j, "offer")
  /\ UNCHANGED <<disk, daemon, assoc, panel, counts, reopened, overlapped, failed,
                 spoilt>>

(* Back to the snapshot, if there is one; without one the exit status is 0 *)
(* all the same.                                                           *)
FallBack(j) ==
  LET back == jobs[j].fallback IN
  \/ /\ back = None /\ Exit(j, TRUE)
     /\ stranded' = "bare" /\ UNCHANGED <<iface, failed, astray>>
  \/ back # None /\ Configures(j, back) /\ Exit(j, TRUE)
  \/ back # None /\ CannotConfigure(j, back) /\ Exit(j, FALSE)

(* A lease, and the daemon that is to keep it clears the interface again;  *)
(* or none within FRESH_LEASE_TIMEOUT_S.                                   *)
Offer(j) ==
  /\ At(j, "remove", "offer")
  /\ \/ daemon' = TRUE /\ Clears /\ Go(j, "watch") /\ UNCHANGED failed
     \/ FallBack(j) /\ UNCHANGED daemon
  /\ UNCHANGED <<disk, assoc, panel, counts, reopened, overlapped, spoilt>>

(* Mutant: the watchdog ends the daemon and leaves it at that.             *)
WatchGivesUp(j) ==
  /\ At(j, "remove", "watch")
  /\ daemon' = (daemon /\ iface # None)
  /\ Exit(j, TRUE)
  /\ UNCHANGED <<disk, iface, assoc, panel, history>>

(* The watchdog, DAEMON_WATCHDOG_WAIT_S later.                             *)
Watch(j) ==
  /\ At(j, "remove", "watch")
  /\ IF iface # None
     THEN Exit(j, TRUE) /\ UNCHANGED <<iface, daemon, failed, setup>>
     ELSE FallBack(j) /\ daemon' = FALSE
  /\ UNCHANGED <<disk, assoc, panel, counts, reopened, overlapped, spoilt>>

(* status prints what it finds, or fails.                                  *)
ReadStatus(j) ==
  /\ At(j, "status", "load")
  /\ \/ /\ jobs' = [jobs EXCEPT ![j].at = "exit", ![j].config = entry]
        /\ UNCHANGED failed
     \/ Exit(j, FALSE) /\ failed' = TRUE
  /\ UNCHANGED <<disk, wlan0, panel, counts, reopened, overlapped, setup, spoilt>>

BackEnd(j) ==
  \/ SetLoads(j) \/ RemoveLoads(j) \/ SaveConfig(j) \/ CheckSsid(j)
  \/ SnapshotDhcpState(j) \/ ApplyStatic(j) \/ Revert(j) \/ TryFreshLease(j)
  \/ Offer(j) \/ Watch(j) \/ ReadStatus(j)

-----------------------------------------------------------------------------
(* The screen.  What runs under lv_lock is one step. *)

(* run_backend_async() and refresh_status() start a process and a thread   *)
(* that waits for it, whatever else is under way.                          *)
Starts(j, op, s, n) ==
  LET others == {i \in Jobs \ {j} : jobs[i].at # "off"} IN
  /\ jobs' = [jobs EXCEPT ![j] = [Off EXCEPT !.op = op, !.at = "load",
                                             !.ssid = s, !.n = n]]
  /\ busy' = TRUE
  /\ reopened' = (reopened \/ others # {})
  /\ overlapped' = (overlapped \/ /\ op # "status"
                                  /\ \E i \in others : jobs[i].op # "status")

(* foreground(), from the details of the current network.                  *)
Foreground(j) ==
  /\ opens < MaxOpens /\ ~front /\ jobs[j].at = "off"
  /\ front' = TRUE /\ ssid' = assoc
  /\ Starts(j, "status", assoc, 0)
  /\ opens' = opens + 1
  /\ UNCHANGED <<disk, wlan0, hasStatic, label, saves, reverts, roams, boots,
                 failed, setup, spoilt>>

(* Back does not look whether a job is under way.                          *)
TapBack ==
  /\ front
  /\ front' = FALSE
  /\ UNCHANGED <<disk, wlan0, jobs, ssid, busy, hasStatic, label, history>>

TapSave(j) ==
  /\ saves < MaxSaves /\ front /\ ~busy /\ jobs[j].at = "off"
  /\ Starts(j, "set", ssid, saves + 1)
  /\ saves' = saves + 1
  /\ UNCHANGED <<disk, wlan0, front, ssid, hasStatic, label, reverts, opens, roams,
                 boots, failed, setup, spoilt>>

TapRevert(j) ==
  /\ reverts < MaxReverts /\ front /\ ~busy /\ hasStatic
  /\ jobs[j].at = "off"
  /\ Starts(j, "remove", ssid, 0)
  /\ reverts' = reverts + 1
  /\ UNCHANGED <<disk, wlan0, front, ssid, hasStatic, label, saves, opens, roams,
                 boots, failed, setup, spoilt>>

(* The completion of set writes to the screen as it is now.                *)
SetDone(j) ==
  /\ At(j, "set", "exit")
  /\ jobs' = [jobs EXCEPT ![j] = Off]
  /\ busy' = FALSE
  /\ hasStatic' = (hasStatic \/ jobs[j].ok)
  /\ label' = IF jobs[j].ok THEN "applied" ELSE "failed"
  /\ UNCHANGED <<disk, wlan0, front, ssid, history>>

(* That of remove asks for the state again.                                *)
RemoveDone(j) ==
  /\ At(j, "remove", "exit")
  /\ IF jobs[j].ok
     THEN hasStatic' = FALSE /\ Starts(j, "status", ssid, 0)
     ELSE /\ jobs' = [jobs EXCEPT ![j] = Off] /\ busy' = FALSE
          /\ UNCHANGED <<hasStatic, reopened, overlapped>>
  /\ label' = IF jobs[j].ok THEN "state" ELSE "failed"
  /\ UNCHANGED <<disk, wlan0, front, ssid, counts, failed, setup, spoilt>>

(* Mutant: a network that has an entry at all will do.                     *)
StatusDoneAny(j) ==
  /\ At(j, "status", "exit")
  /\ jobs' = [jobs EXCEPT ![j] = Off]
  /\ busy' = FALSE
  /\ hasStatic' = (jobs[j].ok /\ jobs[j].config # NoConfig)
  /\ label' = "state"
  /\ UNCHANGED <<disk, wlan0, front, ssid, history>>

(* refresh_status() shows the network it was asked for, or DHCP.           *)
StatusDone(j) ==
  /\ At(j, "status", "exit")
  /\ jobs' = [jobs EXCEPT ![j] = Off]
  /\ busy' = FALSE
  /\ hasStatic' = (jobs[j].ok /\ jobs[j].config[jobs[j].ssid] # 0)
  /\ label' = "state"
  /\ UNCHANGED <<disk, wlan0, front, ssid, history>>

Screen(j) == SetDone(j) \/ RemoveDone(j) \/ StatusDone(j)

-----------------------------------------------------------------------------
(* Around it *)

(* A udhcpc that runs gets a lease, and with it the interface.             *)
Bind ==
  /\ daemon /\ iface # Lease(assoc)
  /\ iface' = Lease(assoc) /\ stranded' = "no" /\ astray' = FALSE
  /\ UNCHANGED <<disk, daemon, assoc, jobs, panel, counts, reopened, overlapped,
                 failed, spoilt>>

Roam ==
  /\ roams < MaxRoams
  /\ assoc' \in Ssids \ {assoc}
  /\ roams' = roams + 1 /\ astray' = TRUE
  /\ UNCHANGED <<disk, iface, daemon, jobs, panel, saves, reverts, opens,
                 boots, reopened, overlapped, failed, stranded, spoilt>>

(* Power is lost, and wifi_up.sh starts the stock udhcpc.                  *)
Boot ==
  /\ boots < MaxBoots
  /\ Clears /\ daemon' = TRUE /\ assoc' \in Ssids
  /\ jobs' = [j \in Jobs |-> Off]
  /\ front' = FALSE /\ ssid' = None /\ busy' = FALSE /\ hasStatic' = FALSE /\ label' = "state"
  /\ boots' = boots + 1
  /\ UNCHANGED <<disk, saves, reverts, opens, roams, reopened, overlapped,
                 failed, spoilt>>

Next ==
  \/ \E j \in Jobs : \/ BackEnd(j) \/ Screen(j)
                     \/ Foreground(j) \/ TapSave(j) \/ TapRevert(j)
  \/ TapBack \/ Bind \/ Roam \/ Boot

Spec == Init /\ [][Next]_vars

-----------------------------------------------------------------------------
(* Properties *)

Quiet == \A j \in Jobs : jobs[j].at \in {"off", "exit"}

(* When no process is under way wlan0 has the entry of its network if that *)
(* has one (lost at a reboot, as nothing calls the boot hook), and a       *)
(* static address is one that is still in the file.  Apart from a command  *)
(* that failed only a roam and two changes at once break this, and a       *)
(* snapshot that was taken of a static address (static_ip.py:365-399).     *)
OnlyTroubleDisagrees ==
  Quiet /\ ~failed /\ ~overlapped /\ roams = 0 =>
    /\ entry[assoc] # 0 /\ boots = 0 => iface = [net |-> assoc, n |-> entry[assoc]]
    /\ iface # None /\ blind = {} => iface.n \in {0, entry[iface.net]}

(* A snapshot is the lease of its network: "don't clobber a real DHCP      *)
(* snapshot with an already-static state" (static_ip.py:79-97).  Not so    *)
(* for a network that was given its entry while wlan0 had no address,      *)
(* whose next entry records the first as DHCP's; nor for one whose         *)
(* snapshot was taken after the radio came from another network and before *)
(* a udhcpc set wlan0 up again, which is that network's address; nor for   *)
(* one the radio left between the check and the snapshot.  Changes at once *)
(* do it no harm.                                                          *)
OnlyBlindSavesSpoilSnapshot ==
  \A s \in Ssids \ (blind \cup strays) : snapshot[s] \in {None, Lease(s)}

(* Once no process is under way wlan0 has an address or a udhcpc that gets *)
(* it one: "the worst case is back to the last-known-good values, never    *)
(* stuck unconfigured" (static_ip.py:284-306), however processes overlap,  *)
(* the radio roams and power is lost.  Not so if the last to set it up had *)
(* found no snapshot, or ended in configure_interface() with an ifconfig   *)
(* that took no address: the fallback itself may raise (338-343).          *)
NeverStuck ==
  Quiet /\ iface = None /\ ~daemon => stranded # "no"

(* A change to the entry of one network leaves the others' alone, unless   *)
(* two changes were under way at once (static_ip.py:369-376, 388-392).     *)
OnlyOverlapLosesEntries ==
  [][\A s \in Ssids : entry'[s] # entry[s] =>
       \/ overlapped
       \/ \E j \in Jobs : jobs[j].ssid = s /\ jobs[j].at = "save"]_vars

(* What the screen offers is right once it is not busy: Revert for a       *)
(* network with an entry, "Static IP applied" for one that is in force.    *)
(* It takes a job of an earlier visit, a failed command or a roam to make  *)
(* it wrong (static_ip_panel.cpp:393-462, 527-543).                        *)
OnlyReopeningMisleads ==
  front /\ ~reopened =>
    /\ busy <=> \E j \in Jobs : jobs[j].at # "off"
    /\ ~busy /\ ~failed =>
         /\ hasStatic <=> entry[ssid] # 0
         /\ label = "applied" /\ roams = 0 =>
              iface = [net |-> ssid, n |-> entry[ssid]]
=============================================================================
