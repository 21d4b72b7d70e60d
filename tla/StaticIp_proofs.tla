--------------------------- MODULE StaticIp_proofs ---------------------------
(***************************************************************************)
(* For any number of networks, processes and bounds: a change to the entry *)
(* of one network leaves the others' alone, unless two changes were under  *)
(* way at once; wlan0 is left with an address or a client; a snapshot is   *)
(* the lease of its network; files, interface and screen agree.  The file  *)
(* is loaded and written back whole in two steps, so what makes the first  *)
(* true is that a process about to save holds the file as it is, but for   *)
(* its own network; that lasts because no other process changes entries    *)
(* meanwhile.                                                              *)
(***************************************************************************)
EXTENDS StaticIp, TLAPS

(* The types that the argument needs: of the file, of the processes, and   *)
(* of what ends up in a process.                                           *)
FileTypes ==
  /\ entry \in [Ssids -> Versions]
  /\ snapshot \in [Ssids -> Addresses \cup {None}]
  /\ iface \in Addresses \cup {None} /\ assoc \in Ssids
  /\ ssid \in Ssids \cup {None} /\ saves \in 0..MaxSaves

JobTypes == jobs \in [Jobs -> JobRecord]

(* A process that changes something, from its start to its completion.     *)
Changing(i) == jobs[i].op # "status" /\ jobs[i].at # "off"

SavesAreChanges == \A i \in Jobs : jobs[i].at = "save" => jobs[i].op # "status"

(* Without an overlap one process at a time changes something, ...         *)
Alone == \A i, j \in Jobs : Changing(i) /\ Changing(j) => i = j

(* ... and what it is about to write is the file but for its own network.  *)
Holds(i) == \A s \in Ssids : s # jobs[i].ssid => jobs[i].config[s] = entry[s]
Current  == \A i \in Jobs : jobs[i].at = "save" => Holds(i)

Orderly == SavesAreChanges /\ (~overlapped => Alone /\ Current)

(* A process is about a network, and so is the screen once it was opened.  *)
UnderWay(i) == jobs[i].at # "off"
Aimed ==
  /\ \A i \in Jobs : UnderWay(i) => jobs[i].ssid \in Ssids
  /\ front \/ (\E i \in Jobs : UnderWay(i)) => ssid \in Ssids

IInv == FileTypes /\ JobTypes /\ Orderly /\ Aimed

-----------------------------------------------------------------------------
(* Records and slots *)

LEMMA Constants == 0 \in Versions /\ NoConfig \in [Ssids -> Versions]
BY StaticIpAssumption DEF StaticIpAssumption, Versions, NoConfig

LEMMA OffIsAJob == Off \in JobRecord /\ Off.op = "status" /\ Off.at = "off"
BY Constants DEF Off, JobRecord, Steps

(* A process moved on to another step is the same process.                 *)
LEMMA MovedOn ==
  ASSUME JobTypes, NEW j \in Jobs, NEW step \in Steps, Go(j, step)
  PROVE  /\ JobTypes'
         /\ \A i \in Jobs \ {j} : jobs'[i] = jobs[i]
         /\ jobs'[j].op = jobs[j].op /\ jobs'[j].at = step
         /\ jobs'[j].ssid = jobs[j].ssid /\ jobs'[j].fallback = jobs[j].fallback
<1>1. jobs \in [Jobs -> JobRecord] BY DEF JobTypes
<1>2. jobs[j] \in JobRecord BY <1>1
<1>3. jobs' = [jobs EXCEPT ![j].at = step] BY DEF Go
<1>4. jobs'[j] = [jobs[j] EXCEPT !.at = step] BY <1>1, <1>3, Zenon
<1>5. \A i \in Jobs \ {j} : jobs'[i] = jobs[i] BY <1>1, <1>3, Zenon
<1>6. [jobs[j] EXCEPT !.at = step] \in JobRecord BY <1>2, Zenon DEF JobRecord
<1>7. /\ [jobs[j] EXCEPT !.at = step].op = jobs[j].op
      /\ [jobs[j] EXCEPT !.at = step].at = step
      /\ [jobs[j] EXCEPT !.at = step].ssid = jobs[j].ssid
      /\ [jobs[j] EXCEPT !.at = step].fallback = jobs[j].fallback
  BY <1>2, Zenon DEF JobRecord
<1>8. jobs' = [i \in Jobs |-> jobs'[i]] BY <1>1, <1>3, Zenon
<1>9. \A i \in Jobs : jobs'[i] \in JobRecord BY <1>1, <1>4, <1>5, <1>6
<1> QED BY <1>4, <1>5, <1>7, <1>8, <1>9 DEF JobTypes

(* A slot that was given another process.                                  *)
LEMMA Replaced ==
  ASSUME JobTypes, NEW j \in Jobs, NEW r \in JobRecord, jobs' = [jobs EXCEPT ![j] = r]
  PROVE  /\ JobTypes'
         /\ \A i \in Jobs \ {j} : jobs'[i] = jobs[i]
         /\ jobs'[j] = r
BY DEF JobTypes

LEMMA Ended ==
  ASSUME JobTypes, NEW j \in Jobs, NEW ok \in BOOLEAN, Exit(j, ok)
  PROVE  /\ JobTypes'
         /\ \A i \in Jobs \ {j} : jobs'[i] = jobs[i]
         /\ jobs'[j].op = jobs[j].op /\ jobs'[j].at = "exit"
         /\ jobs'[j].ssid = jobs[j].ssid
<1> DEFINE r == [Off EXCEPT !.op = jobs[j].op, !.ssid = jobs[j].ssid,
                            !.at = "exit", !.ok = ok]
<1>1. jobs[j] \in JobRecord BY DEF JobTypes
<1>2. jobs[j].op \in {"status", "set", "remove"} /\ jobs[j].ssid \in Ssids \cup {None}
  BY <1>1 DEF JobRecord
<1>3. r \in JobRecord
  <2>1. "exit" \in Steps BY DEF Steps
  <2> QED BY <1>2, <2>1, OffIsAJob, Zenon DEF JobRecord
<1>4. r.op = jobs[j].op /\ r.at = "exit" /\ r.ssid = jobs[j].ssid
  BY OffIsAJob, Zenon DEF JobRecord
<1>5. jobs' = [jobs EXCEPT ![j] = r] BY DEF Exit
<1> HIDE DEF r
<1>6. JobTypes' /\ (\A i \in Jobs \ {j} : jobs'[i] = jobs[i]) /\ jobs'[j] = r
  BY <1>3, <1>5, Replaced
<1> QED BY <1>4, <1>6

(* Order lasts when one slot is changed, nothing begins to change, and     *)
(* what is about to save holds the file.                                   *)
LEMMA SlotKeepsOrder ==
  ASSUME Orderly, NEW j \in Jobs,
         \A i \in Jobs \ {j} : jobs'[i] = jobs[i],
         Changing(j)' => Changing(j),
         jobs'[j].at = "save" => jobs'[j].op # "status" /\ Holds(j)',
         entry' = entry, overlapped => overlapped'
  PROVE  Orderly'
<1>1. SavesAreChanges' BY DEF Orderly, SavesAreChanges
<1>2. ASSUME ~overlapped' PROVE Alone' /\ Current'
  <2>1. Alone /\ Current BY <1>2 DEF Orderly
  <2>2. \A i \in Jobs : Changing(i)' => Changing(i) BY DEF Changing
  <2>3. Alone' BY <2>1, <2>2 DEF Alone
  <2>4. \A i \in Jobs \ {j} : jobs'[i].at = "save" => Holds(i)'
    BY <2>1 DEF Current, Holds
  <2>5. Current' BY <2>4 DEF Current
  <2> QED BY <2>3, <2>5
<1> QED BY <1>1, <1>2 DEF Orderly

LEMMA SlotKeepsAim ==
  ASSUME Aimed, NEW j \in Jobs, UnderWay(j),
         \A i \in Jobs \ {j} : jobs'[i] = jobs[i],
         UnderWay(j)' => jobs'[j].ssid \in {jobs[j].ssid, ssid},
         ssid' = ssid
  PROVE  Aimed'
BY DEF Aimed, UnderWay

(* The steps of a process after it saved.                                  *)
LEMMA StepKeeps ==
  ASSUME JobTypes, Orderly, Aimed, NEW j \in Jobs, UnderWay(j),
         \/ \E step \in Steps \ {"save"} : Go(j, step)
         \/ \E ok \in BOOLEAN : Exit(j, ok),
         entry' = entry, overlapped' = overlapped, ssid' = ssid
  PROVE  JobTypes' /\ Orderly' /\ Aimed'
<1>1. /\ JobTypes'
      /\ \A i \in Jobs \ {j} : jobs'[i] = jobs[i]
      /\ jobs'[j].op = jobs[j].op /\ jobs'[j].at # "save"
      /\ jobs'[j].ssid = jobs[j].ssid
  BY MovedOn, Ended
<1>2. Changing(j)' => Changing(j) BY <1>1 DEF Changing, UnderWay
<1>3. Orderly' BY <1>1, <1>2, SlotKeepsOrder
<1>4. Aimed' BY <1>1, SlotKeepsAim
<1> QED BY <1>1, <1>3, <1>4

-----------------------------------------------------------------------------
(* The back end *)

LEMMA InitHolds == Init => IInv
<1> SUFFICES ASSUME Init PROVE IInv OBVIOUS
<1>1. entry = NoConfig /\ snapshot = [s \in Ssids |-> None] /\ iface = None BY DEF Init
<1>2. assoc \in Ssids /\ ssid = None /\ saves = 0 BY DEF Init
<1>3. FileTypes
  BY <1>1, <1>2, Constants, StaticIpAssumption
  DEF FileTypes, StaticIpAssumption
<1>4. jobs = [j \in Jobs |-> Off] BY DEF Init
<1>5. JobTypes BY <1>4, OffIsAJob DEF JobTypes
<1>6. Orderly
  BY <1>4, OffIsAJob DEF Orderly, SavesAreChanges, Alone, Current, Changing
<1>7. Aimed
  <2>1. front = FALSE BY DEF Init
  <2> QED BY <1>4, <2>1, OffIsAJob DEF Aimed, UnderWay
<1> QED BY <1>3, <1>5, <1>6, <1>7 DEF IInv

(* Only the process at its save writes the file.                           *)
LEMMA Saved ==
  ASSUME JobTypes, NEW j \in Jobs, SaveConfig(j)
  PROVE  /\ JobTypes'
         /\ \A i \in Jobs \ {j} : jobs'[i] = jobs[i]
         /\ jobs'[j].op = jobs[j].op /\ jobs'[j].at \in {"check", "revert"}
         /\ jobs'[j].ssid = jobs[j].ssid
<1> DEFINE next == IF jobs[j].op = "set" THEN "check" ELSE "revert"
<1>1. jobs \in [Jobs -> JobRecord] BY DEF JobTypes
<1>2. jobs[j] \in JobRecord BY <1>1
<1>3. jobs' = [jobs EXCEPT ![j].config = NoConfig, ![j].at = next] BY DEF SaveConfig
<1>4. next \in Steps BY DEF Steps
<1>5. next \in {"check", "revert"} OBVIOUS
<1> HIDE DEF next
<1>6. \A i \in Jobs \ {j} : jobs'[i] = jobs[i] BY <1>1, <1>3, Zenon
<1>7. jobs'[j] = [[jobs[j] EXCEPT !.config = NoConfig] EXCEPT !.at = next]
  BY <1>1, <1>3, Zenon
<1>8. jobs'[j] \in JobRecord BY <1>2, <1>4, <1>7, Constants, Zenon DEF JobRecord
<1>9. /\ jobs'[j].at = next /\ jobs'[j].op = jobs[j].op
      /\ jobs'[j].ssid = jobs[j].ssid
  BY <1>2, <1>7, Zenon DEF JobRecord
<1>10. jobs' = [i \in Jobs |-> jobs'[i]] BY <1>1, <1>3, Zenon
<1>11. \A i \in Jobs : jobs'[i] \in JobRecord BY <1>1, <1>6, <1>8
<1>12. JobTypes' BY <1>10, <1>11 DEF JobTypes
<1> QED BY <1>5, <1>6, <1>9, <1>12

LEMMA SaveConfigKeeps ==
  ASSUME IInv, NEW j \in Jobs, SaveConfig(j)
  PROVE  IInv'
<1> USE DEF IInv
<1>1. jobs[j] \in JobRecord BY DEF JobTypes
<1>2. jobs[j].at = "save" /\ entry' = jobs[j].config /\ overlapped' = overlapped
  BY DEF SaveConfig, history
<1>3. /\ JobTypes'
      /\ \A i \in Jobs \ {j} : jobs'[i] = jobs[i]
      /\ jobs'[j].op = jobs[j].op /\ jobs'[j].at \in {"check", "revert"}
      /\ jobs'[j].ssid = jobs[j].ssid
  BY Saved
<1>4. FileTypes'
  BY <1>1, <1>2 DEF FileTypes, JobRecord, SaveConfig, wlan0, panel, history, counts
<1>5. SavesAreChanges' BY <1>3 DEF Orderly, SavesAreChanges
<1>6. ASSUME ~overlapped' PROVE Alone' /\ Current'
  <2>1. Alone BY <1>2, <1>6 DEF Orderly
  <2>2. \A i \in Jobs : Changing(i)' => Changing(i) BY <1>2, <1>3 DEF Changing
  <2>3. Alone' BY <2>1, <2>2 DEF Alone
  <2>4. Changing(j) BY <1>2 DEF Orderly, SavesAreChanges, Changing
  <2>5. ASSUME NEW i \in Jobs, jobs'[i].at = "save" PROVE FALSE
    <3>1. i # j /\ jobs[i].at = "save" BY <1>3, <2>5
    <3>2. Changing(i) BY <3>1 DEF Orderly, SavesAreChanges, Changing
    <3> QED BY <2>1, <2>4, <3>1, <3>2 DEF Alone
  <2> QED BY <2>3, <2>5 DEF Current
<1>7. Aimed' BY <1>2, <1>3, SlotKeepsAim DEF UnderWay, SaveConfig, panel
<1> QED BY <1>3, <1>4, <1>5, <1>6, <1>7 DEF Orderly

(* The load, which is where the file is read: what is in memory differs    *)
(* from it at most in the entry of the process's own network.              *)
Loads(j, v) ==
  \/ jobs' = [jobs EXCEPT ![j].at = "save",
                ![j].config = [entry EXCEPT ![jobs[j].ssid] = v]]
  \/ \E a \in BOOLEAN :
       jobs' = [jobs EXCEPT ![j].at = "save",
                 ![j].config = [entry EXCEPT ![jobs[j].ssid] = v],
                 ![j].active = a]

LEMMA Loaded ==
  ASSUME JobTypes, entry \in [Ssids -> Versions],
         NEW j \in Jobs, NEW v \in Versions, Loads(j, v)
  PROVE  /\ JobTypes'
         /\ \A i \in Jobs \ {j} : jobs'[i] = jobs[i]
         /\ jobs'[j].op = jobs[j].op /\ jobs'[j].at = "save"
         /\ jobs'[j].ssid = jobs[j].ssid
         /\ \A s \in Ssids : s # jobs[j].ssid => jobs'[j].config[s] = entry[s]
<1> DEFINE c == [entry EXCEPT ![jobs[j].ssid] = v]
<1>1. jobs \in [Jobs -> JobRecord] BY DEF JobTypes
<1>2. jobs[j] \in JobRecord BY <1>1
<1>3. c \in [Ssids -> Versions] /\ \A s \in Ssids : s # jobs[j].ssid => c[s] = entry[s]
  OBVIOUS
<1>4. "save" \in Steps BY DEF Steps
<1> HIDE DEF c
<1>5. /\ \A i \in Jobs \ {j} : jobs'[i] = jobs[i]
      /\ jobs' = [i \in Jobs |-> jobs'[i]]
      /\ \/ jobs'[j] = [[jobs[j] EXCEPT !.at = "save"] EXCEPT !.config = c]
         \/ \E a \in BOOLEAN :
              jobs'[j] = [[[jobs[j] EXCEPT !.at = "save"] EXCEPT !.config = c]
                           EXCEPT !.active = a]
  BY <1>1, Zenon DEF c, Loads
<1>6. jobs'[j] \in JobRecord BY <1>2, <1>3, <1>4, <1>5, Zenon DEF JobRecord
<1>7. /\ jobs'[j].op = jobs[j].op /\ jobs'[j].ssid = jobs[j].ssid
      /\ jobs'[j].config = c /\ jobs'[j].at = "save"
  BY <1>2, <1>5, Zenon DEF JobRecord
<1>8. \A i \in Jobs : jobs'[i] \in JobRecord BY <1>1, <1>5, <1>6
<1>9. JobTypes' BY <1>5, <1>8 DEF JobTypes
<1> QED BY <1>3, <1>5, <1>7, <1>9

LEMMA LoadKeeps ==
  ASSUME IInv, NEW j \in Jobs, NEW v \in Versions, Changing(j), Loads(j, v),
         entry' = entry, overlapped' = overlapped, ssid' = ssid
  PROVE  JobTypes' /\ Orderly' /\ Aimed'
<1>1. /\ JobTypes'
      /\ \A i \in Jobs \ {j} : jobs'[i] = jobs[i]
      /\ jobs'[j].op = jobs[j].op /\ jobs'[j].ssid = jobs[j].ssid
      /\ \A s \in Ssids : s # jobs[j].ssid => jobs'[j].config[s] = entry[s]
  BY Loaded DEF IInv, FileTypes
<1>2. Holds(j)' BY <1>1 DEF Holds
<1>3. jobs'[j].op # "status" BY <1>1 DEF Changing
<1>4. Orderly' BY <1>1, <1>2, <1>3, SlotKeepsOrder DEF IInv
<1>5. UnderWay(j) BY DEF Changing, UnderWay
<1>6. Aimed' BY <1>1, <1>5, SlotKeepsAim DEF IInv
<1> QED BY <1>1, <1>4, <1>6

LEMMA SetLoadsKeeps == ASSUME IInv, NEW j \in Jobs, SetLoads(j) PROVE IInv'
<1>1. jobs[j].n \in Versions BY DEF IInv, JobTypes, JobRecord
<1>2. Changing(j) BY DEF SetLoads, At, Changing
<1>3. Loads(j, jobs[j].n) BY DEF SetLoads, Loads
<1>4. JobTypes' /\ Orderly' /\ Aimed'
  BY <1>1, <1>2, <1>3, LoadKeeps DEF SetLoads, disk, panel, history
<1>5. FileTypes' BY DEF IInv, FileTypes, SetLoads, disk, wlan0, panel, history, counts
<1> QED BY <1>4, <1>5 DEF IInv

LEMMA RemoveLoadsKeeps == ASSUME IInv, NEW j \in Jobs, RemoveLoads(j) PROVE IInv'
<1>1. 0 \in Versions BY Constants
<1>2. Changing(j) BY DEF RemoveLoads, At, Changing
<1>3. Loads(j, 0) BY DEF RemoveLoads, Loads
<1>4. JobTypes' /\ Orderly' /\ Aimed'
  BY <1>1, <1>2, <1>3, LoadKeeps DEF RemoveLoads, disk, panel, history
<1>5. FileTypes'
  BY DEF IInv, FileTypes, RemoveLoads, disk, wlan0, panel, history, counts
<1> QED BY <1>4, <1>5 DEF IInv

LEMMA CheckSsidKeeps == ASSUME IInv, NEW j \in Jobs, CheckSsid(j) PROVE IInv'
<1>1. Go(j, "snapshot") \/ Exit(j, TRUE) BY DEF CheckSsid
<1>2. UnderWay(j) BY DEF CheckSsid, At, UnderWay
<1>3. JobTypes' /\ Orderly' /\ Aimed'
  BY <1>1, <1>2, StepKeeps DEF IInv, CheckSsid, Steps, disk, panel, history
<1>4. FileTypes' BY DEF IInv, FileTypes, CheckSsid, disk, wlan0, panel, history, counts
<1> QED BY <1>3, <1>4 DEF IInv

LEMMA SnapshotKeeps == ASSUME IInv, NEW j \in Jobs, SnapshotDhcpState(j) PROVE IInv'
<1>1. Go(j, "apply") BY DEF SnapshotDhcpState
<1>2. UnderWay(j) BY DEF SnapshotDhcpState, At, UnderWay
<1>3. JobTypes' /\ Orderly' /\ Aimed'
  BY <1>1, <1>2, StepKeeps DEF IInv, SnapshotDhcpState, Steps, panel
<1>4. FileTypes' BY DEF IInv, FileTypes, SnapshotDhcpState, wlan0, panel, counts
<1> QED BY <1>3, <1>4 DEF IInv

(* A command that fails leaves the interface as it was or configured.      *)
LEMMA ConfiguresTypes ==
  ASSUME IInv, NEW j, NEW address \in Addresses,
         Configures(j, address) \/ CannotConfigure(j, address)
  PROVE  iface' \in Addresses \cup {None}
BY DEF IInv, FileTypes, Configures, CannotConfigure

LEMMA ApplyStaticKeeps == ASSUME IInv, NEW j \in Jobs, ApplyStatic(j) PROVE IInv'
<1> DEFINE address == [net |-> jobs[j].ssid, n |-> jobs[j].n]
<1>1. Exit(j, TRUE) \/ Exit(j, FALSE) BY DEF ApplyStatic
<1>2. UnderWay(j) BY DEF ApplyStatic, At, UnderWay
<1>3. UNCHANGED <<disk, assoc, panel, counts, overlapped>> BY DEF ApplyStatic
<1>4. JobTypes' /\ Orderly' /\ Aimed'
  BY <1>1, <1>2, <1>3, StepKeeps DEF IInv, disk, panel
<1>5. Configures(j, address) \/ CannotConfigure(j, address) BY DEF ApplyStatic
<1>6. address \in Addresses
  BY <1>2 DEF IInv, JobTypes, JobRecord, Addresses, Aimed
<1>7. iface' \in Addresses \cup {None} BY <1>5, <1>6, ConfiguresTypes
<1>8. FileTypes' BY <1>3, <1>7 DEF IInv, FileTypes, disk, panel, counts
<1> QED BY <1>4, <1>8 DEF IInv

LEMMA TryFreshLeaseKeeps == ASSUME IInv, NEW j \in Jobs, TryFreshLease(j) PROVE IInv'
<1>1. Go(j, "offer") BY DEF TryFreshLease
<1>2. UnderWay(j) BY DEF TryFreshLease, At, UnderWay
<1>3. JobTypes' /\ Orderly' /\ Aimed'
  BY <1>1, <1>2, StepKeeps DEF IInv, TryFreshLease, Steps, disk, panel
<1>4. FileTypes' BY DEF IInv, FileTypes, TryFreshLease, Clears, disk, panel, counts
<1> QED BY <1>3, <1>4 DEF IInv

(* The one step that notes the snapshot down for those that follow.        *)
LEMMA RevertKeeps == ASSUME IInv, NEW j \in Jobs, Revert(j) PROVE IInv'
<1> DEFINE back == snapshot[jobs[j].ssid]
           r == [[jobs[j] EXCEPT !.at = "lease"] EXCEPT !.fallback = back]
<1>1. UnderWay(j) BY DEF Revert, At, UnderWay
<1>2. UNCHANGED <<disk, assoc, panel, counts, overlapped>> BY DEF Revert
<1>3. jobs \in [Jobs -> JobRecord] /\ jobs[j] \in JobRecord BY DEF IInv, JobTypes
<1>4. back \in Addresses \cup {None} BY <1>1 DEF IInv, Aimed, FileTypes
<1>5. iface' \in Addresses \cup {None}
  BY <1>4, ConfiguresTypes DEF Revert, IInv, FileTypes
<1>6. FileTypes' BY <1>2, <1>5 DEF IInv, FileTypes, disk, panel, counts
<1>7. CASE Exit(j, TRUE) \/ Exit(j, FALSE)
  BY <1>1, <1>2, <1>6, <1>7, StepKeeps DEF IInv, disk, panel
<1>8. CASE jobs' = [jobs EXCEPT ![j].at = "lease", ![j].fallback = back]
  <2>1. jobs' = [jobs EXCEPT ![j] = r] BY <1>3, <1>8, Zenon
  <2>2. "lease" \in Steps BY DEF Steps
  <2> HIDE DEF back
  <2>3. r \in JobRecord BY <1>3, <1>4, <2>2, Zenon DEF JobRecord
  <2>4. r.op = jobs[j].op /\ r.at = "lease" /\ r.ssid = jobs[j].ssid
    BY <1>3, Zenon DEF JobRecord
  <2> HIDE DEF r
  <2>5. JobTypes' /\ (\A i \in Jobs \ {j} : jobs'[i] = jobs[i]) /\ jobs'[j] = r
    BY <2>1, <2>3, Replaced DEF IInv
  <2>6. Changing(j)' => Changing(j) BY <1>1, <2>4, <2>5 DEF Changing, UnderWay
  <2>7. Orderly' BY <1>2, <2>4, <2>5, <2>6, SlotKeepsOrder DEF IInv, disk
  <2>8. Aimed' BY <1>1, <1>2, <2>4, <2>5, SlotKeepsAim DEF IInv, panel
  <2> QED BY <1>6, <2>5, <2>7, <2>8 DEF IInv
<1> QED BY <1>7, <1>8 DEF Revert

(* The way back, whichever way it fails.                                   *)
LEMMA FallBackTypes ==
  ASSUME IInv, NEW j \in Jobs, FallBack(j)
  PROVE  iface' \in Addresses \cup {None} /\ \E ok \in BOOLEAN : Exit(j, ok)
<1>1. jobs[j].fallback \in Addresses \cup {None} BY DEF IInv, JobTypes, JobRecord
<1> QED BY <1>1, ConfiguresTypes DEF FallBack, IInv, FileTypes

LEMMA OfferKeeps == ASSUME IInv, NEW j \in Jobs, Offer(j) PROVE IInv'
<1>1. UnderWay(j) BY DEF Offer, At, UnderWay
<1>2. UNCHANGED <<disk, assoc, panel, counts, overlapped>> BY DEF Offer
<1>3. /\ iface' \in Addresses \cup {None}
      /\ Go(j, "watch") \/ \E ok \in BOOLEAN : Exit(j, ok)
  BY FallBackTypes DEF Offer, Clears
<1>4. JobTypes' /\ Orderly' /\ Aimed'
  BY <1>1, <1>2, <1>3, StepKeeps DEF IInv, Steps, disk, panel
<1>5. FileTypes' BY <1>2, <1>3 DEF IInv, FileTypes, disk, panel, counts
<1> QED BY <1>4, <1>5 DEF IInv

LEMMA WatchKeeps == ASSUME IInv, NEW j \in Jobs, Watch(j) PROVE IInv'
<1>1. UnderWay(j) BY DEF Watch, At, UnderWay
<1>2. UNCHANGED <<disk, assoc, panel, counts, overlapped>> BY DEF Watch
<1>3. iface' \in Addresses \cup {None} /\ \E ok \in BOOLEAN : Exit(j, ok)
  BY FallBackTypes DEF Watch, IInv, FileTypes
<1>4. JobTypes' /\ Orderly' /\ Aimed'
  BY <1>1, <1>2, <1>3, StepKeeps DEF IInv, disk, panel
<1>5. FileTypes' BY <1>2, <1>3 DEF IInv, FileTypes, disk, panel, counts
<1> QED BY <1>4, <1>5 DEF IInv

LEMMA ReadStatusKeeps == ASSUME IInv, NEW j \in Jobs, ReadStatus(j) PROVE IInv'
<1> DEFINE r == [[jobs[j] EXCEPT !.at = "exit"] EXCEPT !.config = entry]
<1>1. UnderWay(j) /\ jobs[j].op = "status" BY DEF ReadStatus, At, UnderWay
<1>2. UNCHANGED <<disk, wlan0, panel, counts, overlapped>> BY DEF ReadStatus
<1>3. FileTypes' BY <1>2 DEF IInv, FileTypes, disk, wlan0, panel, counts
<1>4. CASE Exit(j, FALSE)
  BY <1>1, <1>2, <1>3, <1>4, StepKeeps DEF IInv, disk, panel
<1>5. CASE jobs' = [jobs EXCEPT ![j].at = "exit", ![j].config = entry]
  <2>1. jobs \in [Jobs -> JobRecord] /\ jobs[j] \in JobRecord BY DEF IInv, JobTypes
  <2>2. jobs' = [jobs EXCEPT ![j] = r] BY <2>1, <1>5, Zenon
  <2>3. "exit" \in Steps BY DEF Steps
  <2>4. entry \in [Ssids -> Versions] BY DEF IInv, FileTypes
  <2>5. r \in JobRecord BY <2>1, <2>3, <2>4, Zenon DEF JobRecord
  <2>6. r.op = jobs[j].op /\ r.at = "exit" /\ r.ssid = jobs[j].ssid
    BY <2>1, Zenon DEF JobRecord
  <2> HIDE DEF r
  <2>7. JobTypes' /\ (\A i \in Jobs \ {j} : jobs'[i] = jobs[i]) /\ jobs'[j] = r
    BY <2>2, <2>5, Replaced DEF IInv
  <2>8. ~Changing(j)' BY <1>1, <2>6, <2>7 DEF Changing
  <2>9. Orderly' BY <1>2, <2>6, <2>7, <2>8, SlotKeepsOrder DEF IInv, disk
  <2>10. Aimed' BY <1>1, <1>2, <2>6, <2>7, SlotKeepsAim DEF IInv, panel
  <2> QED BY <1>3, <2>7, <2>9, <2>10 DEF IInv
<1> QED BY <1>4, <1>5 DEF ReadStatus

-----------------------------------------------------------------------------
(* The screen *)

(* A new process is the only one that changes something, or overlapped is  *)
(* set; and it holds nothing of the file yet.                              *)
LEMMA StartsKeeps ==
  ASSUME JobTypes, Orderly, Aimed, NEW j \in Jobs,
         NEW op \in {"status", "set", "remove"}, NEW s \in Ssids, NEW n \in Versions,
         Starts(j, op, s, n), UnderWay(j) => op = "status",
         entry' = entry, ssid' = s
  PROVE  JobTypes' /\ Orderly' /\ Aimed'
<1> DEFINE r == [Off EXCEPT !.op = op, !.at = "load", !.ssid = s, !.n = n]
<1>1. r \in JobRecord
  <2>1. "load" \in Steps BY DEF Steps
  <2> QED BY <2>1, OffIsAJob, Zenon DEF JobRecord
<1>2. r.op = op /\ r.at = "load" /\ r.ssid = s BY OffIsAJob, Zenon DEF JobRecord
<1>3. jobs' = [jobs EXCEPT ![j] = r] BY DEF Starts
<1> HIDE DEF r
<1>4. JobTypes' /\ (\A i \in Jobs \ {j} : jobs'[i] = jobs[i]) /\ jobs'[j] = r
  BY <1>1, <1>3, Replaced
<1>5. Aimed' BY <1>2, <1>4 DEF Aimed, UnderWay
<1>6. overlapped => overlapped' BY DEF Starts
<1>7. CASE op = "status"
  <2>1. ~Changing(j)' BY <1>2, <1>4, <1>7 DEF Changing
  <2>2. Orderly' BY <1>2, <1>4, <1>6, <2>1, SlotKeepsOrder
  <2> QED BY <1>4, <1>5, <2>2
<1>8. CASE op # "status"
  <2>1. SavesAreChanges' BY <1>2, <1>4 DEF Orderly, SavesAreChanges
  <2>2. ASSUME ~overlapped' PROVE Alone' /\ Current'
    <3>1. Alone /\ Current BY <1>6, <2>2 DEF Orderly
    <3>2. \A i \in Jobs \ {j} : ~Changing(i) BY <1>8, <2>2 DEF Starts, Changing
    <3>3. \A i \in Jobs \ {j} : ~Changing(i)' BY <1>4, <3>2 DEF Changing
    <3>4. Alone' BY <3>3 DEF Alone
    <3>5. \A i \in Jobs : jobs'[i].at = "save" => jobs[i].at = "save" /\ i # j
      BY <1>2, <1>4
    <3>6. Current' BY <1>4, <3>1, <3>5 DEF Current, Holds
    <3> QED BY <3>4, <3>6
  <2> QED BY <1>4, <1>5, <2>1, <2>2 DEF Orderly
<1> QED BY <1>7, <1>8

LEMMA ForegroundKeeps == ASSUME IInv, NEW j \in Jobs, Foreground(j) PROVE IInv'
<1>1. FileTypes' BY DEF IInv, FileTypes, Foreground, disk, wlan0
<1>2. assoc \in Ssids BY DEF IInv, FileTypes
<1>3. ~UnderWay(j) BY DEF Foreground, UnderWay
<1>4. Starts(j, "status", assoc, 0) /\ entry' = entry /\ ssid' = assoc
  BY DEF Foreground, disk
<1>5. JobTypes' /\ Orderly' /\ Aimed'
  BY <1>2, <1>3, <1>4, StartsKeeps, Constants DEF IInv
<1> QED BY <1>1, <1>5 DEF IInv

LEMMA TapSaveKeeps == ASSUME IInv, NEW j \in Jobs, TapSave(j) PROVE IInv'
<1>1. saves + 1 \in 0..MaxSaves
  BY StaticIpAssumption DEF IInv, FileTypes, TapSave, StaticIpAssumption
<1>2. FileTypes' BY <1>1 DEF IInv, FileTypes, TapSave, disk, wlan0
<1>3. ssid \in Ssids BY DEF IInv, Aimed, TapSave
<1>4. ~UnderWay(j) BY DEF TapSave, UnderWay
<1>5. Starts(j, "set", ssid, saves + 1) /\ entry' = entry /\ ssid' = ssid
  BY DEF TapSave, disk
<1>6. saves + 1 \in Versions BY <1>1 DEF Versions
<1>7. JobTypes' /\ Orderly' /\ Aimed'
  BY <1>3, <1>4, <1>5, <1>6, StartsKeeps DEF IInv
<1> QED BY <1>2, <1>7 DEF IInv

LEMMA TapRevertKeeps == ASSUME IInv, NEW j \in Jobs, TapRevert(j) PROVE IInv'
<1>1. FileTypes' BY DEF IInv, FileTypes, TapRevert, disk, wlan0
<1>2. ssid \in Ssids BY DEF IInv, Aimed, TapRevert
<1>3. ~UnderWay(j) BY DEF TapRevert, UnderWay
<1>4. Starts(j, "remove", ssid, 0) /\ entry' = entry /\ ssid' = ssid
  BY DEF TapRevert, disk
<1>5. JobTypes' /\ Orderly' /\ Aimed'
  BY <1>2, <1>3, <1>4, StartsKeeps, Constants DEF IInv
<1> QED BY <1>1, <1>5 DEF IInv

(* A completion that asks for nothing more.                                *)
LEMMA DoneKeeps ==
  ASSUME JobTypes, Orderly, Aimed, NEW j \in Jobs, UnderWay(j),
         jobs' = [jobs EXCEPT ![j] = Off],
         entry' = entry, overlapped' = overlapped, ssid' = ssid
  PROVE  JobTypes' /\ Orderly' /\ Aimed'
<1>1. JobTypes' /\ (\A i \in Jobs \ {j} : jobs'[i] = jobs[i]) /\ jobs'[j] = Off
  BY OffIsAJob, Replaced
<1>2. ~Changing(j)' /\ ~UnderWay(j)' BY <1>1, OffIsAJob DEF Changing, UnderWay
<1>3. Orderly' BY <1>1, <1>2, OffIsAJob, SlotKeepsOrder
<1>4. Aimed' BY <1>1, <1>2, SlotKeepsAim
<1> QED BY <1>1, <1>3, <1>4

LEMMA ScreenKeeps == ASSUME IInv, NEW j \in Jobs, Screen(j) PROVE IInv'
<1>1. UnderWay(j) BY DEF Screen, SetDone, RemoveDone, StatusDone, At, UnderWay
<1>2. UNCHANGED <<disk, wlan0, front, ssid, counts>>
  BY DEF Screen, SetDone, RemoveDone, StatusDone, history
<1>3. FileTypes' BY <1>2 DEF IInv, FileTypes, disk, wlan0, counts
<1>4. CASE jobs' = [jobs EXCEPT ![j] = Off] /\ overlapped' = overlapped
  BY <1>1, <1>2, <1>3, <1>4, DoneKeeps DEF IInv, disk
<1>5. CASE RemoveDone(j) /\ Starts(j, "status", ssid, 0)
  <2>1. ssid \in Ssids BY <1>1 DEF IInv, Aimed
  <2>2. JobTypes' /\ Orderly' /\ Aimed'
    <3>1. UnderWay(j) => "status" = "status" OBVIOUS
    <3> QED BY <1>2, <1>5, <2>1, <3>1, StartsKeeps, Constants DEF IInv, disk
  <2> QED BY <1>3, <2>2 DEF IInv
<1> QED BY <1>4, <1>5 DEF Screen, SetDone, RemoveDone, StatusDone, history

-----------------------------------------------------------------------------
(* Around it, and all of it *)

LEMMA AroundKeeps == ASSUME IInv, TapBack \/ Bind \/ Roam PROVE IInv'
<1>1. UNCHANGED <<disk, jobs, ssid, saves, overlapped>> /\ (front' => front)
  BY DEF TapBack, Bind, Roam, panel, history, counts
<1>2. iface' \in Addresses \cup {None} /\ assoc' \in Ssids
  <2>1. 0 \in Versions BY Constants
  <2> QED BY <2>1 DEF IInv, FileTypes, TapBack, Bind, Roam, wlan0, Lease, Addresses
<1>3. FileTypes' BY <1>1, <1>2 DEF IInv, FileTypes, disk
<1>4. JobTypes' BY <1>1 DEF IInv, JobTypes
<1>5. Orderly'
  BY <1>1 DEF IInv, Orderly, SavesAreChanges, Alone, Current, Changing, Holds, disk
<1>6. Aimed' BY <1>1 DEF IInv, Aimed, UnderWay
<1> QED BY <1>3, <1>4, <1>5, <1>6 DEF IInv

LEMMA BootKeeps == ASSUME IInv, Boot PROVE IInv'
<1>1. jobs' = [j \in Jobs |-> Off] /\ front' = FALSE /\ ssid' = None BY DEF Boot
<1>2. FileTypes' BY <1>1 DEF IInv, FileTypes, Boot, Clears, disk
<1>3. JobTypes' BY <1>1, OffIsAJob DEF JobTypes
<1>4. Orderly'
  BY <1>1, OffIsAJob DEF Orderly, SavesAreChanges, Alone, Current, Changing
<1>5. Aimed' BY <1>1, OffIsAJob DEF Aimed, UnderWay
<1> QED BY <1>2, <1>3, <1>4, <1>5 DEF IInv

LEMMA StutterKeeps == ASSUME IInv, UNCHANGED vars PROVE IInv'
BY DEF IInv, FileTypes, JobTypes, Orderly, Aimed, SavesAreChanges, Alone,
       Current, Changing, Holds, UnderWay, vars

LEMMA NextKeeps == ASSUME IInv, [Next]_vars PROVE IInv'
<1>1. CASE \E j \in Jobs : BackEnd(j)
  BY <1>1, SetLoadsKeeps, RemoveLoadsKeeps, SaveConfigKeeps, CheckSsidKeeps,
     SnapshotKeeps, ApplyStaticKeeps, RevertKeeps, TryFreshLeaseKeeps,
     OfferKeeps, WatchKeeps, ReadStatusKeeps DEF BackEnd
<1>2. CASE \E j \in Jobs : Screen(j) \/ Foreground(j) \/ TapSave(j) \/ TapRevert(j)
  BY <1>2, ScreenKeeps, ForegroundKeeps, TapSaveKeeps, TapRevertKeeps
<1>3. CASE TapBack \/ Bind \/ Roam BY <1>3, AroundKeeps
<1>4. CASE Boot BY <1>4, BootKeeps
<1>5. CASE UNCHANGED vars BY <1>5, StutterKeeps
<1> QED BY <1>1, <1>2, <1>3, <1>4, <1>5 DEF Next

(* The inductive invariant: a process about to save holds the file as it   *)
(* is but for its own network, unless two changes overlapped; every        *)
(* process is about a network.                                             *)
THEOREM Inductive == Spec => []IInv
BY InitHolds, NextKeeps, PTL DEF Spec

(* Only save_config() writes the file (static_ip.py:62-76).                *)
LEMMA OnlySavesWrite ==
  ASSUME Next, entry' # entry
  PROVE  \E j \in Jobs : SaveConfig(j)
<1>1. CASE \E j \in Jobs : BackEnd(j)
  BY <1>1 DEF BackEnd, SetLoads, RemoveLoads, CheckSsid, SnapshotDhcpState,
    ApplyStatic, Revert, TryFreshLease, Offer, Watch, ReadStatus, disk
<1>2. CASE \E j \in Jobs : Screen(j) \/ Foreground(j) \/ TapSave(j) \/ TapRevert(j)
  BY <1>2 DEF Screen, SetDone, RemoveDone, StatusDone, Foreground, TapSave,
    TapRevert, disk
<1>3. CASE TapBack \/ Bind \/ Roam \/ Boot
  BY <1>3 DEF TapBack, Bind, Roam, Boot, disk
<1> QED BY <1>1, <1>2, <1>3 DEF Next

(* However many networks, processes, roams and power losses: the entry of  *)
(* a network changes when a process saves for that network, or two changes *)
(* were under way at once (static_ip.py:369-376, 388-392).                 *)
THEOREM OthersAreSpared == Spec => OnlyOverlapLosesEntries
<1> DEFINE Spared == \A s \in Ssids : entry'[s] # entry[s] =>
                       \/ overlapped
                       \/ \E j \in Jobs : jobs[j].ssid = s /\ jobs[j].at = "save"
<1>1. ASSUME IInv, Next PROVE Spared
  <2>1. CASE entry' = entry BY <2>1
  <2>2. CASE entry' # entry
    <3>1. PICK j \in Jobs : SaveConfig(j) BY <1>1, <2>2, OnlySavesWrite
    <3>2. jobs[j].at = "save" /\ entry' = jobs[j].config BY <3>1 DEF SaveConfig
    <3>3. ~overlapped => Holds(j) BY <1>1, <3>2 DEF IInv, Orderly, Current
    <3> QED BY <3>2, <3>3 DEF Holds
  <2> QED BY <2>1, <2>2
<1>2. ASSUME IInv, [Next]_vars PROVE [Spared]_vars BY <1>1, <1>2
<1> QED BY <1>2, Inductive, PTL DEF Spec, OnlyOverlapLosesEntries

-----------------------------------------------------------------------------
(* What a step leaves of the process that makes it, and of the others *)

(* One process makes a step.                                               *)
OnlyMoves(j) == \A i \in Jobs \ {j} : jobs'[i] = jobs[i]

(* What a process keeps until it ends: what it is to do.                   *)
SameTask(j) ==
  /\ jobs'[j].op = jobs[j].op /\ jobs'[j].ssid = jobs[j].ssid
  /\ jobs'[j].n = jobs[j].n

LEMMA GoEffect ==
  ASSUME JobTypes, NEW j \in Jobs, NEW step \in Steps, Go(j, step)
  PROVE  /\ OnlyMoves(j) /\ SameTask(j) /\ jobs'[j].at = step
         /\ jobs'[j].fallback = jobs[j].fallback /\ jobs'[j].ok = jobs[j].ok
<1>1. jobs \in [Jobs -> JobRecord] /\ jobs[j] \in JobRecord BY DEF JobTypes
<1>2. jobs' = [jobs EXCEPT ![j].at = step] BY DEF Go
<1>3. jobs'[j] = [jobs[j] EXCEPT !.at = step] BY <1>1, <1>2, Zenon
<1>4. /\ SameTask(j) /\ jobs'[j].at = step
      /\ jobs'[j].fallback = jobs[j].fallback /\ jobs'[j].ok = jobs[j].ok
  BY <1>1, <1>3, Zenon DEF JobRecord, SameTask
<1>5. OnlyMoves(j) BY <1>1, <1>2, Zenon DEF OnlyMoves
<1> QED BY <1>4, <1>5

LEMMA ExitEffect ==
  ASSUME JobTypes, NEW j \in Jobs, NEW ok \in BOOLEAN, Exit(j, ok)
  PROVE  /\ OnlyMoves(j) /\ jobs'[j].at = "exit"
         /\ jobs'[j].op = jobs[j].op /\ jobs'[j].ssid = jobs[j].ssid
         /\ jobs'[j].ok = ok
<1>1. jobs \in [Jobs -> JobRecord] BY DEF JobTypes
<1>2. OnlyMoves(j) /\ jobs'[j].at = "exit"
      /\ jobs'[j].op = jobs[j].op /\ jobs'[j].ssid = jobs[j].ssid
  BY Ended DEF OnlyMoves
<1>3. jobs' = [jobs EXCEPT ![j] =
                [Off EXCEPT !.op = jobs[j].op, !.ssid = jobs[j].ssid,
                            !.at = "exit", !.ok = ok]]
  BY DEF Exit
<1>4. jobs'[j] = [Off EXCEPT !.op = jobs[j].op, !.ssid = jobs[j].ssid,
                             !.at = "exit", !.ok = ok]
  BY <1>1, <1>3, Zenon
<1>5. jobs'[j].ok = ok BY <1>4, Zenon DEF Off
<1> QED BY <1>2, <1>5

(* The two loads: the entry of the network as it is to be.                 *)
LEMMA SetLoadsEffect ==
  ASSUME JobTypes, entry \in [Ssids -> Versions],
         NEW j \in Jobs, jobs[j].ssid \in Ssids, SetLoads(j)
  PROVE  /\ OnlyMoves(j) /\ SameTask(j) /\ jobs'[j].at = "save"
         /\ jobs'[j].config[jobs[j].ssid] = jobs[j].n
         /\ jobs'[j].ok = jobs[j].ok
<1> DEFINE c == [entry EXCEPT ![jobs[j].ssid] = jobs[j].n]
<1>1. jobs \in [Jobs -> JobRecord] /\ jobs[j] \in JobRecord BY DEF JobTypes
<1>2. jobs' = [jobs EXCEPT ![j].at = "save", ![j].config = c] BY DEF SetLoads
<1>3. c[jobs[j].ssid] = jobs[j].n OBVIOUS
<1> HIDE DEF c
<1>4. jobs'[j] = [[jobs[j] EXCEPT !.at = "save"] EXCEPT !.config = c]
  BY <1>1, <1>2, Zenon
<1>5. /\ SameTask(j) /\ jobs'[j].at = "save" /\ jobs'[j].config = c
      /\ jobs'[j].ok = jobs[j].ok
  BY <1>1, <1>4, Zenon DEF JobRecord, SameTask
<1>6. OnlyMoves(j) BY <1>1, <1>2, Zenon DEF OnlyMoves
<1> QED BY <1>3, <1>5, <1>6

LEMMA RemoveLoadsEffect ==
  ASSUME JobTypes, entry \in [Ssids -> Versions],
         NEW j \in Jobs, jobs[j].ssid \in Ssids, RemoveLoads(j)
  PROVE  /\ OnlyMoves(j) /\ SameTask(j) /\ jobs'[j].at = "save"
         /\ jobs'[j].config[jobs[j].ssid] = 0
         /\ jobs'[j].active = (assoc = jobs[j].ssid)
         /\ jobs'[j].ok = jobs[j].ok
<1> DEFINE c == [entry EXCEPT ![jobs[j].ssid] = 0]
           a == assoc = jobs[j].ssid
<1>1. jobs \in [Jobs -> JobRecord] /\ jobs[j] \in JobRecord BY DEF JobTypes
<1>2. jobs' = [jobs EXCEPT ![j].at = "save", ![j].config = c, ![j].active = a]
  BY DEF RemoveLoads
<1>3. c[jobs[j].ssid] = 0 OBVIOUS
<1> HIDE DEF c, a
<1>4. jobs'[j] = [[[jobs[j] EXCEPT !.at = "save"] EXCEPT !.config = c]
                   EXCEPT !.active = a]
  BY <1>1, <1>2, Zenon
<1>5. /\ SameTask(j) /\ jobs'[j].at = "save" /\ jobs'[j].config = c
      /\ jobs'[j].active = a /\ jobs'[j].ok = jobs[j].ok
  BY <1>1, <1>4, Zenon DEF JobRecord, SameTask
<1>6. OnlyMoves(j) BY <1>1, <1>2, Zenon DEF OnlyMoves
<1> QED BY <1>3, <1>5, <1>6 DEF a

LEMMA SaveEffect ==
  ASSUME JobTypes, NEW j \in Jobs, SaveConfig(j)
  PROVE  /\ OnlyMoves(j) /\ SameTask(j)
         /\ jobs'[j].at = IF jobs[j].op = "set" THEN "check" ELSE "revert"
         /\ jobs'[j].active = jobs[j].active /\ jobs'[j].ok = jobs[j].ok
<1> DEFINE next == IF jobs[j].op = "set" THEN "check" ELSE "revert"
<1>1. jobs \in [Jobs -> JobRecord] /\ jobs[j] \in JobRecord BY DEF JobTypes
<1>2. jobs' = [jobs EXCEPT ![j].config = NoConfig, ![j].at = next] BY DEF SaveConfig
<1> HIDE DEF next
<1>3. jobs'[j] = [[jobs[j] EXCEPT !.config = NoConfig] EXCEPT !.at = next]
  BY <1>1, <1>2, Zenon
<1>4. /\ SameTask(j) /\ jobs'[j].at = next
      /\ jobs'[j].active = jobs[j].active /\ jobs'[j].ok = jobs[j].ok
  BY <1>1, <1>3, Zenon DEF JobRecord, SameTask
<1>5. OnlyMoves(j) BY <1>1, <1>2, Zenon DEF OnlyMoves
<1> QED BY <1>4, <1>5 DEF next

LEMMA RevertEffect ==
  ASSUME JobTypes, NEW j \in Jobs, NEW back,
         jobs' = [jobs EXCEPT ![j].at = "lease", ![j].fallback = back]
  PROVE  /\ OnlyMoves(j) /\ SameTask(j) /\ jobs'[j].at = "lease"
         /\ jobs'[j].fallback = back /\ jobs'[j].ok = jobs[j].ok
<1>1. jobs \in [Jobs -> JobRecord] /\ jobs[j] \in JobRecord BY DEF JobTypes
<1>2. jobs'[j] = [[jobs[j] EXCEPT !.at = "lease"] EXCEPT !.fallback = back]
  BY <1>1, Zenon
<1>3. /\ SameTask(j) /\ jobs'[j].at = "lease"
      /\ jobs'[j].fallback = back /\ jobs'[j].ok = jobs[j].ok
  BY <1>1, <1>2, Zenon DEF JobRecord, SameTask
<1>4. OnlyMoves(j) BY <1>1, Zenon DEF OnlyMoves
<1> QED BY <1>3, <1>4

(* A status that is read, or fails.                                        *)
LEMMA ReadEffect ==
  ASSUME JobTypes, NEW j \in Jobs, ReadStatus(j)
  PROVE  /\ OnlyMoves(j) /\ jobs'[j].at = "exit"
         /\ jobs'[j].op = "status" /\ jobs'[j].ssid = jobs[j].ssid
         /\ \/ jobs'[j].config = entry /\ jobs'[j].ok = jobs[j].ok /\ failed' = failed
            \/ failed' = TRUE
<1>1. jobs \in [Jobs -> JobRecord] /\ jobs[j] \in JobRecord BY DEF JobTypes
<1>2. jobs[j].op = "status" BY DEF ReadStatus, At
<1>3. CASE Exit(j, FALSE) /\ failed' = TRUE
  BY <1>2, <1>3, ExitEffect
<1>4. CASE jobs' = [jobs EXCEPT ![j].at = "exit", ![j].config = entry]
           /\ UNCHANGED failed
  <2>1. jobs'[j] = [[jobs[j] EXCEPT !.at = "exit"] EXCEPT !.config = entry]
    BY <1>1, <1>4, Zenon
  <2>2. /\ jobs'[j].op = jobs[j].op /\ jobs'[j].ssid = jobs[j].ssid
        /\ jobs'[j].at = "exit" /\ jobs'[j].config = entry
        /\ jobs'[j].ok = jobs[j].ok
    BY <1>1, <2>1, Zenon DEF JobRecord
  <2>3. OnlyMoves(j) BY <1>1, <1>4, Zenon DEF OnlyMoves
  <2> QED BY <1>2, <1>4, <2>2, <2>3
<1> QED BY <1>3, <1>4 DEF ReadStatus

LEMMA StartsEffect ==
  ASSUME JobTypes, NEW j \in Jobs, NEW op \in {"status", "set", "remove"},
         NEW s \in Ssids, NEW n \in Versions, Starts(j, op, s, n)
  PROVE  /\ OnlyMoves(j) /\ jobs'[j].at = "load" /\ jobs'[j].op = op
         /\ jobs'[j].ssid = s /\ jobs'[j].n = n /\ jobs'[j].ok = TRUE
<1> DEFINE r == [Off EXCEPT !.op = op, !.at = "load", !.ssid = s, !.n = n]
<1>1. jobs \in [Jobs -> JobRecord] BY DEF JobTypes
<1>2. jobs' = [jobs EXCEPT ![j] = r] BY DEF Starts
<1>3. /\ r.at = "load" /\ r.op = op /\ r.ssid = s /\ r.n = n /\ r.ok = TRUE
  BY Zenon DEF Off
<1> HIDE DEF r
<1>4. jobs'[j] = r /\ OnlyMoves(j) BY <1>1, <1>2, Zenon DEF OnlyMoves
<1> QED BY <1>3, <1>4

LEMMA OffEffect ==
  ASSUME JobTypes, NEW j \in Jobs, jobs' = [jobs EXCEPT ![j] = Off]
  PROVE  OnlyMoves(j) /\ jobs'[j].at = "off" /\ jobs'[j].op = "status"
<1>1. jobs \in [Jobs -> JobRecord] BY DEF JobTypes
<1>2. jobs'[j] = Off /\ OnlyMoves(j) BY <1>1, Zenon DEF OnlyMoves
<1> QED BY <1>2, OffIsAJob

-----------------------------------------------------------------------------
(* No process leaves wlan0 empty without a client, however processes       *)
(* overlap (NeverStuck).  The way back empties the interface with no       *)
(* client running and fills it later, so what holds in between is that a   *)
(* process is there that will, or will have been unable to.                *)

(* A process that undoes a static address, past the first command.         *)
Reverting(i) == jobs[i].op = "remove" /\ jobs[i].at \in {"lease", "offer", "watch"}

Recovers ==
  iface = None /\ ~daemon => stranded # "no" \/ \E i \in Jobs : Reverting(i)

(* A step of a process that has nothing to do with the way back.           *)
LEMMA SpareStep ==
  ASSUME Recovers, NEW j \in Jobs, OnlyMoves(j), ~Reverting(j),
         UNCHANGED <<iface, daemon, stranded>>
  PROVE  Recovers'
BY DEF Recovers, Reverting, OnlyMoves

LEMMA SparesWayBack ==
  ASSUME IInv, Recovers, NEW j \in Jobs,
         \/ SetLoads(j) \/ RemoveLoads(j) \/ SaveConfig(j) \/ CheckSsid(j)
         \/ SnapshotDhcpState(j) \/ ReadStatus(j)
  PROVE  Recovers'
<1>1. UNCHANGED <<iface, daemon, stranded>>
  BY DEF SetLoads, RemoveLoads, SaveConfig, CheckSsid, SnapshotDhcpState, ReadStatus,
    wlan0, history, setup
<1>2. ~Reverting(j) /\ UnderWay(j)
  BY DEF SetLoads, RemoveLoads, SaveConfig, CheckSsid, SnapshotDhcpState, ReadStatus,
    At, Reverting, UnderWay
<1>3. OnlyMoves(j)
  <2>1. jobs[j].ssid \in Ssids BY <1>2 DEF IInv, Aimed
  <2>2. CASE SetLoads(j) \/ RemoveLoads(j)
    BY <2>1, <2>2, SetLoadsEffect, RemoveLoadsEffect DEF IInv, FileTypes
  <2>3. CASE SaveConfig(j) \/ ReadStatus(j) BY <2>3, SaveEffect, ReadEffect DEF IInv
  <2>4. CASE CheckSsid(j) \/ SnapshotDhcpState(j)
    BY <2>4, GoEffect, ExitEffect DEF CheckSsid, SnapshotDhcpState, Steps, IInv
  <2> QED BY <2>2, <2>3, <2>4
<1> QED BY <1>1, <1>2, <1>3, SpareStep

(* No address is None.                                                     *)
LEMMA AddressesAreSome == None \notin Addresses
BY StaticIpAssumption DEF StaticIpAssumption, Addresses, Versions

(* Who sets wlan0 up leaves an address, or is known to have been unable to *)
(* (static_ip.py:177-197).                                                 *)
LEMMA ConfiguredRecovers ==
  ASSUME NEW j, NEW address \in Addresses,
         Configures(j, address) \/ CannotConfigure(j, address)
  PROVE  Recovers'
<1>1. iface' # None \/ stranded' = "raised"
  BY AddressesAreSome DEF Configures, CannotConfigure
<1> QED BY <1>1 DEF Recovers

LEMMA ApplyStaticRecovers ==
  ASSUME IInv, Recovers, NEW j \in Jobs, ApplyStatic(j)
  PROVE  Recovers'
<1> DEFINE address == [net |-> jobs[j].ssid, n |-> jobs[j].n]
<1>1. address \in Addresses
  BY DEF ApplyStatic, At, IInv, JobTypes, JobRecord, Addresses, Aimed, UnderWay
<1>2. Configures(j, address) \/ CannotConfigure(j, address) BY DEF ApplyStatic
<1> QED BY <1>1, <1>2, ConfiguredRecovers

(* Past its first command a process goes on to a lease.                    *)
LEMMA RevertRecovers ==
  ASSUME IInv, Recovers, NEW j \in Jobs, Revert(j)
  PROVE  Recovers'
<1> DEFINE back == snapshot[jobs[j].ssid]
<1>1. back \in Addresses \cup {None}
  BY DEF Revert, At, IInv, Aimed, UnderWay, FileTypes
<1>2. CASE ~jobs[j].active
  <2>1. Exit(j, TRUE) /\ UNCHANGED <<iface, daemon, stranded>>
    BY <1>2 DEF Revert, setup
  <2>2. OnlyMoves(j) BY <2>1, ExitEffect DEF IInv
  <2>3. ~Reverting(j) BY DEF Revert, At, Reverting
  <2> QED BY <2>1, <2>2, <2>3, SpareStep
<1>3. CASE back # None /\ CannotConfigure(j, back)
  BY <1>1, <1>3, ConfiguredRecovers
<1>4. CASE jobs' = [jobs EXCEPT ![j].at = "lease", ![j].fallback = back]
  <2>1. jobs'[j].op = "remove" /\ jobs'[j].at = "lease"
    BY <1>4, RevertEffect DEF IInv, SameTask, Revert, At
  <2>2. Reverting(j)' BY <2>1 DEF Reverting
  <2> QED BY <2>2 DEF Recovers
<1> QED BY <1>2, <1>3, <1>4 DEF Revert

LEMMA TryFreshLeaseRecovers ==
  ASSUME IInv, NEW j \in Jobs, TryFreshLease(j)
  PROVE  Recovers'
<1>1. jobs'[j].op = "remove" /\ jobs'[j].at = "offer"
  BY GoEffect DEF TryFreshLease, Steps, IInv, SameTask, At
<1>2. Reverting(j)' BY <1>1 DEF Reverting
<1> QED BY <1>2 DEF Recovers

(* The last step of the way back: the snapshot, or there was none          *)
(* (static_ip.py:318-328, 337-344).                                        *)
LEMMA FallBackRecovers ==
  ASSUME IInv, NEW j \in Jobs, FallBack(j)
  PROVE  Recovers'
<1>1. jobs[j].fallback \in Addresses \cup {None} BY DEF IInv, JobTypes, JobRecord
<1>2. CASE jobs[j].fallback = None
  <2>1. stranded' = "bare" BY <1>2 DEF FallBack
  <2> QED BY <2>1 DEF Recovers
<1>3. CASE jobs[j].fallback # None
  BY <1>1, <1>3, ConfiguredRecovers DEF FallBack
<1> QED BY <1>2, <1>3

LEMMA LastStepsRecover ==
  ASSUME IInv, Recovers, NEW j \in Jobs, Offer(j) \/ Watch(j)
  PROVE  Recovers'
<1>1. CASE FallBack(j) BY <1>1, FallBackRecovers
<1>2. CASE daemon' = TRUE BY <1>2 DEF Recovers
<1>3. CASE iface # None /\ iface' = iface BY <1>3 DEF Recovers
<1> QED BY <1>1, <1>2, <1>3 DEF Offer, Watch

LEMMA ScreenRecovers ==
  ASSUME IInv, Recovers, NEW j \in Jobs,
         Screen(j) \/ Foreground(j) \/ TapSave(j) \/ TapRevert(j)
  PROVE  Recovers'
<1>1. UNCHANGED <<iface, daemon, stranded>>
  BY DEF Screen, SetDone, RemoveDone, StatusDone, Foreground, TapSave, TapRevert,
    wlan0, history, setup
<1>2. OnlyMoves(j)
  <2>1. jobs \in [Jobs -> JobRecord] BY DEF IInv, JobTypes
  <2> QED BY <2>1, Zenon DEF Screen, SetDone, RemoveDone, StatusDone, Foreground,
        TapSave, TapRevert, Starts, OnlyMoves
<1>3. ~Reverting(j)
  BY DEF Screen, SetDone, RemoveDone, StatusDone, Foreground, TapSave, TapRevert,
    At, Reverting
<1> QED BY <1>1, <1>2, <1>3, SpareStep

(* A power loss starts a udhcpc, and a udhcpc is what Bind needs.          *)
LEMMA AroundRecovers ==
  ASSUME Recovers, TapBack \/ Bind \/ Roam \/ Boot \/ UNCHANGED vars
  PROVE  Recovers'
<1>1. CASE Bind \/ Boot
  <2>1. daemon' BY <1>1 DEF Bind, Boot
  <2> QED BY <2>1 DEF Recovers
<1>2. CASE TapBack \/ Roam \/ UNCHANGED vars
  <2>1. UNCHANGED <<jobs, iface, daemon, stranded>>
    BY <1>2 DEF TapBack, Roam, vars, wlan0, history, setup
  <2> QED BY <2>1 DEF Recovers, Reverting
<1> QED BY <1>1, <1>2

LEMMA NextRecovers == ASSUME IInv, Recovers, [Next]_vars PROVE Recovers'
<1>1. CASE \E j \in Jobs : BackEnd(j)
  BY <1>1, SparesWayBack, ApplyStaticRecovers, RevertRecovers,
     TryFreshLeaseRecovers, LastStepsRecover DEF BackEnd
<1>2. CASE \E j \in Jobs : Screen(j) \/ Foreground(j) \/ TapSave(j) \/ TapRevert(j)
  BY <1>2, ScreenRecovers
<1>3. CASE TapBack \/ Bind \/ Roam \/ Boot \/ UNCHANGED vars
  BY <1>3, AroundRecovers
<1> QED BY <1>1, <1>2, <1>3 DEF Next

(* However many networks, roams and power losses, and however processes    *)
(* overlap and fail: once none runs wlan0 has an address or a udhcpc,      *)
(* unless the last to set it up found no snapshot, or ended in a           *)
(* configure_interface() whose ifconfig took no address                    *)
(* (static_ip.py:284-344).                                                 *)
THEOREM WayBackEnds == Spec => []NeverStuck
<1>1. Init => Recovers BY DEF Init, Recovers
<1>2. Recovers => NeverStuck BY DEF Recovers, NeverStuck, Quiet, Reverting
<1> QED BY <1>1, <1>2, Inductive, NextRecovers, PTL DEF Spec

-----------------------------------------------------------------------------
(***************************************************************************)
(* For any number of networks, processes and bounds: what the files, wlan0 *)
(* and the screen have to do with each other.  A snapshot is the lease of  *)
(* its network; the entry of the network in use is the address in force;   *)
(* and the screen offers what the files have.  Each is true but for the    *)
(* trouble the property names, and each needs to know in which step of     *)
(* which process it is about to become true.                               *)
(***************************************************************************)

-----------------------------------------------------------------------------
(* As long as the radio does not roam everything is about the network it   *)
(* is on, and an address that is not a lease is in force only after that   *)
(* network's snapshot was taken, or in the dark.                           *)

HasSnapshot(s) == snapshot[s] # None \/ s \in blind

(* An address that may stand for network s's DHCP state                    *)
Fits(address, s) == address # None =>
  address.net = s /\ (address.n # 0 => s \in blind)

JobAtHome(i) ==
  /\ UnderWay(i) => jobs[i].ssid = assoc
  /\ jobs[i].op = "remove" /\ jobs[i].at \in {"save", "revert"} => jobs[i].active
  /\ jobs[i].at = "apply" => HasSnapshot(assoc)
  /\ jobs[i].at \in {"lease", "offer", "watch"} => Fits(jobs[i].fallback, assoc)

WlanAtHome == iface # None =>
  iface.net = assoc /\ (iface.n # 0 => HasSnapshot(assoc))

Home ==
  /\ ssid \in {None, assoc} /\ WlanAtHome
  /\ \A s \in Ssids : Fits(snapshot[s], s)
  /\ \A i \in Jobs : JobAtHome(i)

AtHome == roams = 0 => Home

(* A step of one process that leaves the snapshots alone.                  *)
LEMMA HomeStep ==
  ASSUME Home, NEW j \in Jobs, OnlyMoves(j),
         UNCHANGED <<snapshot, assoc, blind>>,
         ssid' \in {None, assoc}, WlanAtHome', JobAtHome(j)'
  PROVE  Home'
<1>1. \A i \in Jobs \ {j} : JobAtHome(i)'
  BY DEF Home, JobAtHome, OnlyMoves, UnderWay, HasSnapshot, Fits
<1>2. \A s \in Ssids : Fits(snapshot[s], s)'
  BY DEF Home, Fits
<1> QED BY <1>1, <1>2 DEF Home

LEMMA WlanStays ==
  ASSUME WlanAtHome, UNCHANGED <<iface, snapshot, assoc, blind>>
  PROVE  WlanAtHome'
BY DEF WlanAtHome, HasSnapshot

(* A process that ends is at home if it was.                               *)
LEMMA EndsAtHome ==
  ASSUME JobTypes, Home, NEW j \in Jobs, UnderWay(j), NEW ok \in BOOLEAN, Exit(j, ok),
         UNCHANGED <<snapshot, assoc, blind, ssid>>, WlanAtHome'
  PROVE  Home'
<1>1. OnlyMoves(j) /\ jobs'[j].at = "exit" /\ jobs'[j].ssid = jobs[j].ssid
  BY ExitEffect
<1>2. JobAtHome(j)' BY <1>1 DEF Home, JobAtHome, UnderWay
<1> QED BY <1>1, <1>2, HomeStep DEF Home

LEMMA SetLoadsHome ==
  ASSUME IInv, Home, NEW j \in Jobs, SetLoads(j) PROVE Home'
<1>1. UnderWay(j) /\ jobs[j].ssid \in Ssids /\ jobs[j].op = "set"
  BY DEF SetLoads, At, UnderWay, IInv, Aimed
<1>2. OnlyMoves(j) /\ SameTask(j) /\ jobs'[j].at = "save"
  BY <1>1, SetLoadsEffect DEF IInv, FileTypes
<1>3. UNCHANGED <<snapshot, iface, assoc, blind, ssid>>
  BY DEF SetLoads, disk, wlan0, panel, history, spoilt
<1>4. JobAtHome(j)' BY <1>1, <1>2, <1>3 DEF Home, JobAtHome, UnderWay, SameTask
<1>5. WlanAtHome' BY <1>3, WlanStays DEF Home
<1> QED BY <1>2, <1>3, <1>4, <1>5, HomeStep DEF Home

LEMMA RemoveLoadsHome ==
  ASSUME IInv, Home, NEW j \in Jobs, RemoveLoads(j) PROVE Home'
<1>1. UnderWay(j) /\ jobs[j].ssid \in Ssids
  BY DEF RemoveLoads, At, UnderWay, IInv, Aimed
<1>2. /\ OnlyMoves(j) /\ SameTask(j) /\ jobs'[j].at = "save"
      /\ jobs'[j].active = (assoc = jobs[j].ssid)
  BY <1>1, RemoveLoadsEffect DEF IInv, FileTypes
<1>3. UNCHANGED <<snapshot, iface, assoc, blind, ssid>>
  BY DEF RemoveLoads, disk, wlan0, panel, history, spoilt
<1>4. jobs[j].ssid = assoc BY <1>1 DEF Home, JobAtHome
<1>5. jobs'[j].active = TRUE BY <1>2, <1>4
<1>6. JobAtHome(j)'
  BY <1>2, <1>3, <1>4, <1>5 DEF JobAtHome, UnderWay, SameTask
<1>7. WlanAtHome' BY <1>3, WlanStays DEF Home
<1> QED BY <1>2, <1>3, <1>6, <1>7, HomeStep DEF Home

LEMMA SaveConfigHome ==
  ASSUME IInv, Home, NEW j \in Jobs, SaveConfig(j) PROVE Home'
<1>1. jobs[j].at = "save" /\ jobs[j].op # "status"
  BY DEF SaveConfig, IInv, Orderly, SavesAreChanges
<1>2. /\ OnlyMoves(j) /\ SameTask(j)
      /\ jobs'[j].at = IF jobs[j].op = "set" THEN "check" ELSE "revert"
      /\ jobs'[j].active = jobs[j].active
  BY SaveEffect DEF IInv
<1>3. UNCHANGED <<snapshot, iface, assoc, blind, ssid>>
  BY DEF SaveConfig, wlan0, panel, history, spoilt
<1>4. jobs[j].op \in {"status", "set", "remove"}
  BY DEF IInv, JobTypes, JobRecord
<1>5. JobAtHome(j)'
  BY <1>1, <1>2, <1>3, <1>4 DEF Home, JobAtHome, UnderWay, SameTask
<1>6. WlanAtHome' BY <1>3, WlanStays DEF Home
<1> QED BY <1>2, <1>3, <1>5, <1>6, HomeStep DEF Home

(* At home the check never ends a process: its network is the one in use.  *)
LEMMA ChecksAtHome ==
  ASSUME IInv, Home, NEW j \in Jobs, CheckSsid(j)
  PROVE  /\ OnlyMoves(j) /\ SameTask(j) /\ jobs'[j].at = "snapshot"
         /\ jobs'[j].ok = jobs[j].ok
<1>1. UnderWay(j) BY DEF CheckSsid, At, UnderWay
<1>2. jobs[j].ssid = assoc BY <1>1 DEF Home, JobAtHome
<1>3. Go(j, "snapshot") BY <1>2 DEF CheckSsid
<1> QED BY <1>3, GoEffect DEF IInv, Steps

LEMMA CheckSsidHome ==
  ASSUME IInv, Home, NEW j \in Jobs, CheckSsid(j) PROVE Home'
<1>1. UNCHANGED <<snapshot, iface, assoc, blind, ssid>>
  BY DEF CheckSsid, disk, wlan0, panel, history, spoilt
<1>2. OnlyMoves(j) /\ SameTask(j) /\ jobs'[j].at = "snapshot" BY ChecksAtHome
<1>3. JobAtHome(j)'
  BY <1>1, <1>2 DEF Home, JobAtHome, UnderWay, SameTask, CheckSsid, At
<1>4. WlanAtHome' BY <1>1, WlanStays DEF Home
<1> QED BY <1>1, <1>2, <1>3, <1>4, HomeStep DEF Home

(* The snapshot: a lease, unless there was one already that was not, or    *)
(* nothing to take one of.                                                 *)
LEMMA SnapshotHome ==
  ASSUME IInv, Home, NEW j \in Jobs, SnapshotDhcpState(j) PROVE Home'
<1>1. UnderWay(j) /\ jobs[j].ssid = assoc
  BY DEF SnapshotDhcpState, At, UnderWay, Home, JobAtHome
<1>2. assoc \in Ssids /\ snapshot \in [Ssids -> Addresses \cup {None}]
  BY DEF IInv, FileTypes
<1>3. OnlyMoves(j) /\ SameTask(j) /\ jobs'[j].at = "apply"
  BY GoEffect DEF SnapshotDhcpState, Steps, IInv
<1>4. UNCHANGED <<iface, assoc, ssid>> BY DEF SnapshotDhcpState, wlan0, panel
<1>5. \/ snapshot[assoc] # None /\ snapshot' = snapshot /\ blind' = blind
      \/ /\ snapshot[assoc] = None /\ snapshot' = [snapshot EXCEPT ![assoc] = iface]
         /\ blind' = IF iface = None THEN blind \cup {assoc} ELSE blind
  BY <1>1 DEF SnapshotDhcpState, Notes
<1>6. HasSnapshot(assoc)' BY <1>2, <1>4, <1>5 DEF HasSnapshot
<1>7. blind \subseteq blind' BY <1>5
<1>8. \A s \in Ssids : Fits(snapshot[s], s)'
  <2>1. Fits(iface, assoc) \/ snapshot[assoc] # None
    BY DEF Home, WlanAtHome, Fits, HasSnapshot
  <2>2. Fits(iface, assoc)' \/ snapshot[assoc] # None
    BY <1>4, <1>7, <2>1 DEF Fits
  <2>3. \A s \in Ssids : snapshot'[s] = snapshot[s] => Fits(snapshot[s], s)'
    BY <1>7 DEF Home, Fits
  <2>4. \A s \in Ssids : snapshot'[s] # snapshot[s] =>
          s = assoc /\ snapshot[assoc] = None /\ snapshot'[s] = iface
    BY <1>2, <1>5
  <2> QED BY <1>4, <2>2, <2>3, <2>4 DEF Fits
<1>9. \A i \in Jobs : JobAtHome(i)'
  <2>1. JobAtHome(j)' BY <1>1, <1>3, <1>4, <1>6 DEF JobAtHome, SameTask
  <2>2. \A i \in Jobs \ {j} : JobAtHome(i)'
    BY <1>3, <1>4, <1>6, <1>7 DEF Home, JobAtHome, OnlyMoves, UnderWay, Fits
  <2> QED BY <2>1, <2>2
<1>10. WlanAtHome' BY <1>4, <1>6 DEF Home, WlanAtHome
<1> QED BY <1>4, <1>8, <1>9, <1>10 DEF Home

LEMMA ApplyStaticHome ==
  ASSUME IInv, Home, NEW j \in Jobs, ApplyStatic(j) PROVE Home'
<1> DEFINE address == [net |-> jobs[j].ssid, n |-> jobs[j].n]
<1>1. UnderWay(j) /\ jobs[j].ssid = assoc /\ HasSnapshot(assoc)
  BY DEF ApplyStatic, At, UnderWay, Home, JobAtHome
<1>2. UNCHANGED <<snapshot, assoc, blind, ssid>> BY DEF ApplyStatic, disk, panel, spoilt
<1>3. iface' \in {iface, address} BY DEF ApplyStatic, Configures, CannotConfigure
<1>4. WlanAtHome' BY <1>1, <1>2, <1>3 DEF Home, WlanAtHome, HasSnapshot
<1>5. \E ok \in BOOLEAN : Exit(j, ok) BY DEF ApplyStatic
<1> QED BY <1>1, <1>2, <1>4, <1>5, EndsAtHome DEF IInv

(* An address that fits may be put in force.                               *)
LEMMA FitsInForce ==
  ASSUME WlanAtHome, UNCHANGED <<snapshot, assoc, blind>>,
         NEW back, Fits(back, assoc), iface' \in {iface, back}
  PROVE  WlanAtHome'
BY DEF WlanAtHome, Fits, HasSnapshot

LEMMA RevertHome ==
  ASSUME IInv, Home, NEW j \in Jobs, Revert(j) PROVE Home'
<1> DEFINE back == snapshot[jobs[j].ssid]
<1>1. UnderWay(j) /\ jobs[j].ssid = assoc
  BY DEF Revert, At, UnderWay, Home, JobAtHome
<1>2. UNCHANGED <<snapshot, assoc, blind, ssid>> BY DEF Revert, disk, panel, spoilt
<1>3. Fits(back, assoc) BY <1>1 DEF Home, IInv, FileTypes
<1>4. iface' \in {iface, back} BY DEF Revert, Configures, CannotConfigure
<1>5. WlanAtHome' BY <1>2, <1>3, <1>4, FitsInForce DEF Home
<1>6. CASE \E ok \in BOOLEAN : Exit(j, ok)
  BY <1>1, <1>2, <1>5, <1>6, EndsAtHome DEF IInv
<1>7. CASE jobs' = [jobs EXCEPT ![j].at = "lease", ![j].fallback = back]
  <2>1. OnlyMoves(j) /\ SameTask(j) /\ jobs'[j].at = "lease" /\ jobs'[j].fallback = back
    BY <1>7, RevertEffect DEF IInv
  <2>2. JobAtHome(j)' BY <1>1, <1>2, <1>3, <2>1 DEF JobAtHome, SameTask, Fits
  <2> QED BY <1>2, <1>5, <2>1, <2>2, HomeStep DEF Home
<1> QED BY <1>6, <1>7 DEF Revert

LEMMA TryFreshLeaseHome ==
  ASSUME IInv, Home, NEW j \in Jobs, TryFreshLease(j) PROVE Home'
<1>1. UNCHANGED <<snapshot, assoc, blind, ssid>> /\ iface' = None
  BY DEF TryFreshLease, disk, panel, history, spoilt, Clears
<1>2. /\ OnlyMoves(j) /\ SameTask(j) /\ jobs'[j].at = "offer"
      /\ jobs'[j].fallback = jobs[j].fallback
  BY GoEffect DEF TryFreshLease, Steps, IInv
<1>3. JobAtHome(j)'
  BY <1>1, <1>2 DEF Home, JobAtHome, UnderWay, SameTask, TryFreshLease, At, Fits
<1>4. WlanAtHome' BY <1>1 DEF WlanAtHome
<1> QED BY <1>1, <1>2, <1>3, <1>4, HomeStep DEF Home

LEMMA FallBackHome ==
  ASSUME IInv, Home, NEW j \in Jobs, jobs[j].at \in {"offer", "watch"}, FallBack(j),
         UNCHANGED <<snapshot, assoc, blind, ssid>>
  PROVE  Home'
<1>1. UnderWay(j) BY DEF UnderWay
<1>2. Fits(jobs[j].fallback, assoc) BY DEF Home, JobAtHome
<1>3. iface' \in {iface, jobs[j].fallback}
  BY DEF FallBack, Configures, CannotConfigure
<1>4. WlanAtHome' BY <1>2, <1>3, FitsInForce DEF Home
<1>5. \E ok \in BOOLEAN : Exit(j, ok) BY DEF FallBack
<1> QED BY <1>1, <1>4, <1>5, EndsAtHome DEF IInv

LEMMA OfferHome ==
  ASSUME IInv, Home, NEW j \in Jobs, Offer(j) PROVE Home'
<1>1. UNCHANGED <<snapshot, assoc, blind, ssid>> BY DEF Offer, disk, panel, spoilt
<1>2. jobs[j].at = "offer" BY DEF Offer, At
<1>3. CASE iface' = None /\ Go(j, "watch")
  <2>1. /\ OnlyMoves(j) /\ SameTask(j) /\ jobs'[j].at = "watch"
        /\ jobs'[j].fallback = jobs[j].fallback
    BY <1>3, GoEffect DEF Steps, IInv
  <2>2. JobAtHome(j)'
    BY <1>1, <1>2, <2>1 DEF Home, JobAtHome, UnderWay, SameTask, Fits
  <2>3. WlanAtHome' BY <1>3 DEF WlanAtHome
  <2> QED BY <1>1, <2>1, <2>2, <2>3, HomeStep DEF Home
<1>4. CASE FallBack(j) BY <1>1, <1>2, <1>4, FallBackHome
<1> QED BY <1>3, <1>4 DEF Offer, Clears

LEMMA WatchHome ==
  ASSUME IInv, Home, NEW j \in Jobs, Watch(j) PROVE Home'
<1>1. UNCHANGED <<snapshot, assoc, blind, ssid>> BY DEF Watch, disk, panel, spoilt
<1>2. jobs[j].at = "watch" BY DEF Watch, At
<1>3. CASE Exit(j, TRUE) /\ UNCHANGED iface
  <2>1. WlanAtHome' BY <1>1, <1>3, WlanStays DEF Home
  <2>2. UnderWay(j) BY <1>2 DEF UnderWay
  <2> QED BY <1>1, <1>3, <2>1, <2>2, EndsAtHome DEF IInv
<1>4. CASE FallBack(j) BY <1>1, <1>2, <1>4, FallBackHome
<1> QED BY <1>3, <1>4 DEF Watch

LEMMA ReadStatusHome ==
  ASSUME IInv, Home, NEW j \in Jobs, ReadStatus(j) PROVE Home'
<1>1. UNCHANGED <<snapshot, iface, assoc, blind, ssid>>
  BY DEF ReadStatus, disk, wlan0, panel, spoilt
<1>2. OnlyMoves(j) /\ jobs'[j].at = "exit" /\ jobs'[j].ssid = jobs[j].ssid
  BY ReadEffect DEF IInv
<1>3. JobAtHome(j)'
  BY <1>1, <1>2 DEF Home, JobAtHome, UnderWay, ReadStatus, At
<1>4. WlanAtHome' BY <1>1, WlanStays DEF Home
<1> QED BY <1>1, <1>2, <1>3, <1>4, HomeStep DEF Home

(* The screen starts processes for the network that is in use.             *)
LEMMA StartsHome ==
  ASSUME JobTypes, Home, NEW j \in Jobs, NEW op \in {"status", "set", "remove"},
         NEW n \in Versions, assoc \in Ssids, Starts(j, op, assoc, n),
         UNCHANGED <<snapshot, iface, assoc, blind>>, ssid' = assoc
  PROVE  Home'
<1>1. OnlyMoves(j) /\ jobs'[j].at = "load" /\ jobs'[j].ssid = assoc
  BY StartsEffect
<1>2. JobAtHome(j)' BY <1>1 DEF JobAtHome
<1>3. WlanAtHome' BY WlanStays DEF Home
<1> QED BY <1>1, <1>2, <1>3, HomeStep

LEMMA TapsHome ==
  ASSUME IInv, Home, NEW j \in Jobs, Foreground(j) \/ TapSave(j) \/ TapRevert(j)
  PROVE  Home'
<1>1. UNCHANGED <<snapshot, iface, assoc, blind>>
  BY DEF Foreground, TapSave, TapRevert, disk, wlan0, spoilt
<1>2. assoc \in Ssids BY DEF IInv, FileTypes
<1>3. CASE Foreground(j)
  BY <1>1, <1>2, <1>3, StartsHome, Constants DEF Foreground, IInv
<1>4. front => ssid = assoc
  BY StaticIpAssumption DEF Home, IInv, Aimed, StaticIpAssumption
<1>5. CASE TapSave(j)
  <2>1. saves + 1 \in Versions
    BY <1>5, StaticIpAssumption
    DEF IInv, FileTypes, TapSave, Versions, StaticIpAssumption
  <2>2. Starts(j, "set", assoc, saves + 1) /\ ssid' = assoc
    BY <1>4, <1>5 DEF TapSave
  <2> QED BY <1>1, <1>2, <2>1, <2>2, StartsHome DEF IInv
<1>6. CASE TapRevert(j)
  <2>1. Starts(j, "remove", assoc, 0) /\ ssid' = assoc BY <1>4, <1>6 DEF TapRevert
  <2> QED BY <1>1, <1>2, <2>1, StartsHome, Constants DEF IInv
<1> QED BY <1>3, <1>5, <1>6

LEMMA ScreenHome ==
  ASSUME IInv, Home, NEW j \in Jobs, Screen(j) PROVE Home'
<1>1. UNCHANGED <<snapshot, iface, assoc, blind, ssid>> /\ UnderWay(j)
  BY DEF Screen, SetDone, RemoveDone, StatusDone, disk, wlan0, history, At, UnderWay, spoilt
<1>2. CASE jobs' = [jobs EXCEPT ![j] = Off]
  <2>1. OnlyMoves(j) /\ jobs'[j].at = "off" /\ jobs'[j].op = "status"
    BY <1>2, OffEffect DEF IInv
  <2>2. JobAtHome(j)' BY <2>1 DEF JobAtHome, UnderWay
  <2>3. WlanAtHome' BY <1>1, WlanStays DEF Home
  <2> QED BY <1>1, <2>1, <2>2, <2>3, HomeStep DEF Home
<1>3. CASE Starts(j, "status", ssid, 0)
  <2>1. ssid = assoc /\ assoc \in Ssids
    BY <1>1, StaticIpAssumption DEF Home, IInv, Aimed, StaticIpAssumption
  <2> QED BY <1>1, <1>3, <2>1, StartsHome, Constants DEF IInv
<1> QED BY <1>2, <1>3 DEF Screen, SetDone, RemoveDone, StatusDone

(* What goes on around it; a power loss may bring up another network, but  *)
(* nothing is under way then and no address in force.                      *)
LEMMA AroundHome ==
  ASSUME IInv, Home, TapBack \/ Bind \/ Boot \/ UNCHANGED vars
  PROVE  Home'
<1>1. CASE Boot
  <2>1. UNCHANGED <<snapshot, blind>> /\ ssid' = None /\ iface' = None
        /\ jobs' = [j \in Jobs |-> Off]
    BY <1>1 DEF Boot, Clears, disk, spoilt
  <2>2. \A i \in Jobs : JobAtHome(i)'
    BY <2>1, OffIsAJob DEF JobAtHome, UnderWay
  <2> QED BY <2>1, <2>2 DEF Home, WlanAtHome, Fits
<1>2. CASE TapBack \/ Bind \/ UNCHANGED vars
  <2>1. UNCHANGED <<jobs, snapshot, assoc, blind, ssid>>
    BY <1>2 DEF TapBack, Bind, vars, disk, wlan0, panel, history, spoilt
  <2>2. iface' \in {iface, Lease(assoc)} BY <1>2 DEF TapBack, Bind, vars, wlan0
  <2>3. WlanAtHome' BY <2>1, <2>2 DEF Home, WlanAtHome, HasSnapshot, Lease
  <2> QED BY <2>1, <2>3 DEF Home, JobAtHome, UnderWay, HasSnapshot, Fits
<1> QED BY <1>1, <1>2

LEMMA BackEndHome ==
  ASSUME IInv, Home, NEW j \in Jobs, BackEnd(j) PROVE Home'
BY SetLoadsHome, RemoveLoadsHome, SaveConfigHome, CheckSsidHome, SnapshotHome,
   ApplyStaticHome, RevertHome, TryFreshLeaseHome, OfferHome, WatchHome,
   ReadStatusHome DEF BackEnd

(* A roam is counted, and nothing takes one back.                          *)
LEMMA RoamsCounted ==
  ASSUME roams \in Nat, [Next]_vars
  PROVE  roams' \in Nat /\ (roams' = 0 => roams = 0 /\ ~Roam)
<1>1. CASE Roam BY <1>1 DEF Roam
<1>2. CASE \E j \in Jobs : BackEnd(j)
  <2>1. UNCHANGED roams
    BY <1>2 DEF BackEnd, SetLoads, RemoveLoads, SaveConfig, CheckSsid,
      SnapshotDhcpState, ApplyStatic, Revert, TryFreshLease, Offer, Watch,
      ReadStatus, history, counts
  <2>2. ~Roam \/ roams' = roams + 1 BY DEF Roam
  <2> QED BY <2>1, <2>2
<1>3. CASE \E j \in Jobs : Screen(j) \/ Foreground(j) \/ TapSave(j) \/ TapRevert(j)
  <2>1. UNCHANGED roams
    BY <1>3 DEF Screen, SetDone, RemoveDone, StatusDone, Foreground, TapSave,
      TapRevert, history, counts
  <2>2. ~Roam \/ roams' = roams + 1 BY DEF Roam
  <2> QED BY <2>1, <2>2
<1>4. CASE TapBack \/ Bind \/ Boot \/ UNCHANGED vars
  <2>1. UNCHANGED roams BY <1>4 DEF TapBack, Bind, Boot, vars, history, counts
  <2>2. ~Roam \/ roams' = roams + 1 BY DEF Roam
  <2> QED BY <2>1, <2>2
<1> QED BY <1>1, <1>2, <1>3, <1>4 DEF Next

HomeInv == roams \in Nat /\ AtHome

LEMMA InitHome == Init => HomeInv
<1> SUFFICES ASSUME Init PROVE HomeInv OBVIOUS
<1>1. /\ snapshot = [s \in Ssids |-> None] /\ iface = None /\ ssid = None
      /\ jobs = [j \in Jobs |-> Off] /\ roams = 0
  BY DEF Init
<1>2. \A i \in Jobs : JobAtHome(i) BY <1>1, OffIsAJob DEF JobAtHome, UnderWay
<1> QED BY <1>1, <1>2 DEF HomeInv, AtHome, Home, WlanAtHome, Fits

LEMMA NextHome == ASSUME IInv, HomeInv, [Next]_vars PROVE HomeInv'
<1>1. roams' \in Nat /\ (roams' = 0 => roams = 0 /\ ~Roam)
  BY RoamsCounted DEF HomeInv
<1>2. ASSUME roams' = 0 PROVE Home'
  <2>1. Home /\ ~Roam BY <1>1, <1>2 DEF HomeInv, AtHome
  <2>2. CASE \E j \in Jobs : BackEnd(j) BY <2>1, <2>2, BackEndHome
  <2>3. CASE \E j \in Jobs : Screen(j) \/ Foreground(j) \/ TapSave(j) \/ TapRevert(j)
    BY <2>1, <2>3, ScreenHome, TapsHome
  <2>4. CASE TapBack \/ Bind \/ Boot \/ UNCHANGED vars BY <2>1, <2>4, AroundHome
  <2> QED BY <2>1, <2>2, <2>3, <2>4 DEF Next
<1> QED BY <1>1, <1>2 DEF HomeInv, AtHome

LEMMA HomeHolds == Spec => []HomeInv
BY InitHome, NextHome, Inductive, PTL DEF Spec

-----------------------------------------------------------------------------
(* However the radio roams: what a static address replaces was recorded as *)
(* its network's snapshot first.  That makes an address that is in force   *)
(* while there is no snapshot the lease a snapshot is to be, unless wlan0  *)
(* was set up for another network (static_ip.py:79-97, 376-384).           *)

JobRecorded(i) ==
  /\ jobs[i].at = "apply" => HasSnapshot(jobs[i].ssid)
  /\ jobs[i].at \in {"lease", "offer", "watch"} /\ jobs[i].fallback # None =>
       snapshot[jobs[i].ssid] # None

WlanRecorded == ~astray /\ iface # None =>
  iface = Lease(assoc) \/ HasSnapshot(assoc)

Recorded ==
  /\ OnlyBlindSavesSpoilSnapshot /\ WlanRecorded
  /\ \A i \in Jobs : JobRecorded(i)

LEMMA RecordedStep ==
  ASSUME Recorded, NEW j \in Jobs, OnlyMoves(j), JobRecorded(j)', WlanRecorded',
         UNCHANGED <<snapshot, blind, strays>>
  PROVE  Recorded'
<1>1. \A i \in Jobs \ {j} : JobRecorded(i)'
  BY DEF Recorded, JobRecorded, OnlyMoves, HasSnapshot
<1>2. OnlyBlindSavesSpoilSnapshot' BY DEF Recorded, OnlyBlindSavesSpoilSnapshot, Lease
<1> QED BY <1>1, <1>2 DEF Recorded

(* A step that neither snapshots nor sets wlan0 up, before the latter or   *)
(* after it.                                                               *)
LEMMA AsideRecorded ==
  ASSUME Recorded, NEW j \in Jobs, OnlyMoves(j),
         jobs'[j].at \notin {"apply", "lease", "offer", "watch"},
         UNCHANGED <<snapshot, blind, strays, iface, assoc, astray>>
  PROVE  Recorded'
<1>1. JobRecorded(j)' BY DEF JobRecorded
<1>2. WlanRecorded' BY DEF Recorded, WlanRecorded, HasSnapshot, Lease
<1> QED BY <1>1, <1>2, RecordedStep

LEMMA StepsAsideRecorded ==
  ASSUME IInv, Recorded, NEW j \in Jobs,
         \/ SetLoads(j) \/ RemoveLoads(j) \/ SaveConfig(j) \/ CheckSsid(j)
         \/ ReadStatus(j)
  PROVE  Recorded'
<1>1. UNCHANGED <<snapshot, blind, strays, iface, assoc, astray>>
  BY DEF SetLoads, RemoveLoads, SaveConfig, CheckSsid, ReadStatus, disk, wlan0,
    history, setup, spoilt
<1>2. UnderWay(j)
  BY DEF SetLoads, RemoveLoads, SaveConfig, CheckSsid, ReadStatus, At, UnderWay
<1>3. OnlyMoves(j) /\ jobs'[j].at \in {"save", "check", "revert", "snapshot", "exit"}
  <2>1. jobs[j].ssid \in Ssids BY <1>2 DEF IInv, Aimed
  <2>2. CASE SetLoads(j) \/ RemoveLoads(j)
    BY <2>1, <2>2, SetLoadsEffect, RemoveLoadsEffect DEF IInv, FileTypes
  <2>3. CASE SaveConfig(j) \/ ReadStatus(j) BY <2>3, SaveEffect, ReadEffect DEF IInv
  <2>4. CASE CheckSsid(j)
    BY <2>4, GoEffect, ExitEffect DEF CheckSsid, Steps, IInv
  <2> QED BY <2>2, <2>3, <2>4
<1> QED BY <1>1, <1>3, AsideRecorded

(* The snapshot: the lease, or there was one, or the set is told why not.  *)
LEMMA SnapshotRecorded ==
  ASSUME IInv, Recorded, NEW j \in Jobs, SnapshotDhcpState(j)
  PROVE  Recorded'
<1> PICK s \in Ssids : s = jobs[j].ssid
  BY DEF SnapshotDhcpState, At, UnderWay, IInv, Aimed
<1>1. snapshot \in [Ssids -> Addresses \cup {None}] BY DEF IInv, FileTypes
<1>2. OnlyMoves(j) /\ jobs'[j].at = "apply" /\ jobs'[j].ssid = s
  BY GoEffect DEF SnapshotDhcpState, Steps, IInv, SameTask
<1>3. UNCHANGED <<iface, assoc, astray>> BY DEF SnapshotDhcpState, wlan0, setup
<1>4. \/ snapshot[s] # None /\ UNCHANGED <<snapshot, blind, strays>>
      \/ /\ snapshot[s] = None /\ snapshot' = [snapshot EXCEPT ![s] = iface]
         /\ blind' = IF iface = None THEN blind \cup {s} ELSE blind
         /\ strays' = IF astray \/ assoc # s THEN strays \cup {s} ELSE strays
  BY DEF SnapshotDhcpState, Notes
<1>5. /\ blind \subseteq blind' /\ strays \subseteq strays'
      /\ \A t \in Ssids : \/ snapshot'[t] = snapshot[t]
                          \/ t = s /\ snapshot[s] = None /\ snapshot'[s] = iface
  <2>1. blind \subseteq blind' /\ strays \subseteq strays'
    <3>1. /\ blind' = blind \/ blind' = blind \cup {s}
          /\ strays' = strays \/ strays' = strays \cup {s}
      BY <1>4, Zenon
    <3> QED BY <3>1
  <2>2. CASE snapshot' = snapshot BY <2>1, <2>2
  <2>3. CASE snapshot[s] = None /\ snapshot' = [snapshot EXCEPT ![s] = iface]
    <3>1. \A t \in Ssids : snapshot'[t] = IF t = s THEN iface ELSE snapshot[t]
      BY <1>1, <2>3
    <3> QED BY <2>1, <2>3, <3>1
  <2> QED BY <1>4, <2>2, <2>3
<1>6. HasSnapshot(s)' BY <1>1, <1>4 DEF HasSnapshot
<1>7. \A t : HasSnapshot(t) /\ t \in Ssids => HasSnapshot(t)'
  BY <1>5, <1>6 DEF HasSnapshot
<1>8. OnlyBlindSavesSpoilSnapshot'
  <2>1. SUFFICES ASSUME NEW t \in Ssids, t \notin blind', t \notin strays'
                 PROVE  snapshot'[t] \in {None, Lease(t)}
    BY DEF OnlyBlindSavesSpoilSnapshot, Lease
  <2>2. CASE snapshot'[t] = snapshot[t]
    BY <1>5, <2>1, <2>2 DEF Recorded, OnlyBlindSavesSpoilSnapshot
  <2>3. CASE t = s /\ snapshot[s] = None /\ snapshot'[s] = iface
    <3>1. s \notin blind /\ ~astray /\ assoc = s BY <1>4, <1>5, <2>1, <2>3
    <3>2. iface \in {None, Lease(s)}
      BY <2>3, <3>1 DEF Recorded, WlanRecorded, HasSnapshot
    <3> QED BY <2>3, <3>2
  <2> QED BY <1>5, <2>2, <2>3
<1>9. WlanRecorded'
  BY <1>3, <1>7 DEF Recorded, WlanRecorded, Lease, IInv, FileTypes
<1>10. \A i \in Jobs : JobRecorded(i)'
  <2>1. JobRecorded(j)' BY <1>2, <1>6 DEF JobRecorded
  <2>2. ASSUME NEW i \in Jobs \ {j} PROVE JobRecorded(i)'
    <3>1. jobs'[i] = jobs[i] BY <1>2 DEF OnlyMoves
    <3>2. jobs[i].at # "off" => jobs[i].ssid \in Ssids
      BY DEF IInv, Aimed, UnderWay
    <3>3. JobRecorded(i) BY DEF Recorded
    <3>4. jobs[i].at = "apply" => HasSnapshot(jobs[i].ssid)'
      BY <1>7, <3>1, <3>2, <3>3 DEF JobRecorded, HasSnapshot
    <3>5. jobs[i].at \in {"lease", "offer", "watch"} /\ jobs[i].fallback # None =>
            snapshot'[jobs[i].ssid] # None
      BY <1>5, <3>2, <3>3 DEF JobRecorded
    <3> QED BY <3>1, <3>4, <3>5 DEF JobRecorded, HasSnapshot
  <2> QED BY <2>1, <2>2
<1> QED BY <1>8, <1>9, <1>10 DEF Recorded

(* Who sets wlan0 up for a network that has a snapshot                     *)
LEMMA ConfiguredRecorded ==
  ASSUME Recorded, NEW j \in Jobs, NEW address, HasSnapshot(jobs[j].ssid),
         Configures(j, address) \/ CannotConfigure(j, address),
         UNCHANGED <<snapshot, blind, assoc>>
  PROVE  WlanRecorded'
<1>1. ~astray' => jobs[j].ssid = assoc' BY DEF Configures, CannotConfigure, SetsUp
<1>2. ~astray' => HasSnapshot(assoc)' BY <1>1 DEF HasSnapshot
<1> QED BY <1>2 DEF WlanRecorded

LEMMA ApplyStaticRecorded ==
  ASSUME IInv, Recorded, NEW j \in Jobs, ApplyStatic(j)
  PROVE  Recorded'
<1> DEFINE address == [net |-> jobs[j].ssid, n |-> jobs[j].n]
<1>1. UNCHANGED <<snapshot, blind, strays, assoc>> BY DEF ApplyStatic, disk, spoilt
<1>2. HasSnapshot(jobs[j].ssid) BY DEF ApplyStatic, At, Recorded, JobRecorded
<1>3. Configures(j, address) \/ CannotConfigure(j, address) BY DEF ApplyStatic
<1>4. WlanRecorded' BY <1>1, <1>2, <1>3, ConfiguredRecorded
<1>5. OnlyMoves(j) /\ jobs'[j].at = "exit" BY ExitEffect DEF ApplyStatic, IInv
<1>6. JobRecorded(j)' BY <1>5 DEF JobRecorded
<1> QED BY <1>1, <1>4, <1>5, <1>6, RecordedStep

LEMMA RevertRecorded ==
  ASSUME IInv, Recorded, NEW j \in Jobs, Revert(j)
  PROVE  Recorded'
<1> DEFINE back == snapshot[jobs[j].ssid]
<1>1. UNCHANGED <<snapshot, blind, strays, assoc>> BY DEF Revert, disk, spoilt
<1>2. back # None => HasSnapshot(jobs[j].ssid) BY DEF HasSnapshot
<1>3. WlanRecorded'
  <2>1. UNCHANGED <<iface, setup>> => WlanRecorded'
    BY <1>1 DEF Recorded, WlanRecorded, HasSnapshot, Lease, setup
  <2>2. back # None /\ (Configures(j, back) \/ CannotConfigure(j, back)) => WlanRecorded'
    BY <1>1, <1>2, ConfiguredRecorded
  <2> QED BY <2>1, <2>2 DEF Revert
<1>4. CASE \E ok \in BOOLEAN : Exit(j, ok)
  <2>1. OnlyMoves(j) /\ jobs'[j].at = "exit" BY <1>4, ExitEffect DEF IInv
  <2>2. JobRecorded(j)' BY <2>1 DEF JobRecorded
  <2> QED BY <1>1, <1>3, <2>1, <2>2, RecordedStep
<1>5. CASE jobs' = [jobs EXCEPT ![j].at = "lease", ![j].fallback = back]
  <2>1. /\ OnlyMoves(j) /\ jobs'[j].at = "lease" /\ jobs'[j].fallback = back
        /\ jobs'[j].ssid = jobs[j].ssid
    BY <1>5, RevertEffect DEF IInv, SameTask
  <2>2. JobRecorded(j)' BY <1>1, <2>1 DEF JobRecorded
  <2> QED BY <1>1, <1>3, <2>1, <2>2, RecordedStep
<1> QED BY <1>4, <1>5 DEF Revert

(* From here on the process knows a snapshot or goes without.              *)
LEMMA GoesOnRecorded ==
  ASSUME IInv, Recorded, NEW j \in Jobs, jobs[j].at \in {"lease", "offer"},
         NEW step \in {"offer", "watch"}, Go(j, step), Clears,
         UNCHANGED <<snapshot, blind, strays>>
  PROVE  Recorded'
<1>1. /\ OnlyMoves(j) /\ SameTask(j) /\ jobs'[j].at = step
      /\ jobs'[j].fallback = jobs[j].fallback
  BY GoEffect DEF Steps, IInv
<1>2. JobRecorded(j)' BY <1>1 DEF Recorded, JobRecorded, SameTask
<1>3. WlanRecorded' BY DEF Clears, WlanRecorded
<1> QED BY <1>1, <1>2, <1>3, RecordedStep

LEMMA FallBackRecorded ==
  ASSUME IInv, Recorded, NEW j \in Jobs, jobs[j].at \in {"offer", "watch"},
         FallBack(j), UNCHANGED <<snapshot, blind, strays, assoc>>
  PROVE  Recorded'
<1> DEFINE back == jobs[j].fallback
<1>1. back # None => HasSnapshot(jobs[j].ssid)
  BY DEF Recorded, JobRecorded, HasSnapshot
<1>2. WlanRecorded'
  <2>1. CASE back = None
    BY <2>1 DEF FallBack, Recorded, WlanRecorded, HasSnapshot, Lease
  <2>2. CASE back # None BY <1>1, <2>2, ConfiguredRecorded DEF FallBack
  <2> QED BY <2>1, <2>2
<1>3. OnlyMoves(j) /\ jobs'[j].at = "exit" BY ExitEffect DEF FallBack, IInv
<1>4. JobRecorded(j)' BY <1>3 DEF JobRecorded
<1> QED BY <1>2, <1>3, <1>4, RecordedStep

LEMMA WayBackRecorded ==
  ASSUME IInv, Recorded, NEW j \in Jobs, TryFreshLease(j) \/ Offer(j) \/ Watch(j)
  PROVE  Recorded'
<1>1. UNCHANGED <<snapshot, blind, strays, assoc>>
  BY DEF TryFreshLease, Offer, Watch, disk, spoilt
<1>2. jobs[j].at \in {"lease", "offer", "watch"}
  BY DEF TryFreshLease, Offer, Watch, At
<1>3. CASE TryFreshLease(j)
  BY <1>1, <1>3, GoesOnRecorded DEF TryFreshLease, At
<1>4. CASE Offer(j)
  BY <1>1, <1>4, GoesOnRecorded, FallBackRecorded DEF Offer, At
<1>5. CASE Watch(j)
  <2>1. CASE FallBack(j) BY <1>1, <1>5, <2>1, FallBackRecorded DEF Watch, At
  <2>2. CASE Exit(j, TRUE) /\ UNCHANGED <<iface, setup>>
    <3>1. OnlyMoves(j) /\ jobs'[j].at = "exit" BY <2>2, ExitEffect DEF IInv
    <3> QED BY <1>1, <2>2, <3>1, AsideRecorded DEF setup
  <2> QED BY <1>5, <2>1, <2>2 DEF Watch
<1> QED BY <1>3, <1>4, <1>5

LEMMA ScreenRecorded ==
  ASSUME IInv, Recorded, NEW j \in Jobs,
         Screen(j) \/ Foreground(j) \/ TapSave(j) \/ TapRevert(j)
  PROVE  Recorded'
<1>1. UNCHANGED <<snapshot, blind, strays, iface, assoc, astray>>
  BY DEF Screen, SetDone, RemoveDone, StatusDone, Foreground, TapSave, TapRevert,
    disk, wlan0, history, setup, spoilt
<1>2. OnlyMoves(j) /\ jobs'[j].at \in {"off", "load"}
  <2>1. jobs \in [Jobs -> JobRecord] BY DEF IInv, JobTypes
  <2>2. CASE jobs' = [jobs EXCEPT ![j] = Off] BY <2>2, OffEffect DEF IInv
  <2>3. ASSUME NEW op, NEW s, NEW n, Starts(j, op, s, n)
        PROVE  OnlyMoves(j) /\ jobs'[j].at = "load"
    <3> DEFINE r == [Off EXCEPT !.op = op, !.at = "load", !.ssid = s, !.n = n]
    <3>1. jobs' = [jobs EXCEPT ![j] = r] BY <2>3 DEF Starts
    <3>2. r.at = "load" BY Zenon DEF Off
    <3> HIDE DEF r
    <3> QED BY <2>1, <3>1, <3>2, Zenon DEF OnlyMoves
  <2> QED BY <2>2, <2>3 DEF Screen, SetDone, RemoveDone, StatusDone, Foreground,
        TapSave, TapRevert
<1> QED BY <1>1, <1>2, AsideRecorded

(* A udhcpc brings the lease of the network in use; a roam leaves wlan0 to *)
(* the network before.                                                     *)
LEMMA AroundRecorded ==
  ASSUME Recorded, TapBack \/ Bind \/ Roam \/ Boot \/ UNCHANGED vars
  PROVE  Recorded'
<1>1. UNCHANGED <<snapshot, blind, strays>>
  BY DEF TapBack, Bind, Roam, Boot, vars, disk, history, spoilt
<1>2. OnlyBlindSavesSpoilSnapshot'
  BY <1>1 DEF Recorded, OnlyBlindSavesSpoilSnapshot, Lease
<1>3. \A i \in Jobs : JobRecorded(i)'
  <2>1. CASE Boot BY <2>1, OffIsAJob DEF Boot, JobRecorded
  <2>2. CASE jobs' = jobs BY <1>1, <2>2 DEF Recorded, JobRecorded, HasSnapshot
  <2> QED BY <2>1, <2>2 DEF TapBack, Bind, Roam, vars
<1>4. WlanRecorded'
  <2>1. CASE Bind BY <2>1 DEF Bind, WlanRecorded, Lease
  <2>2. CASE Roam BY <2>2 DEF Roam, WlanRecorded
  <2>3. CASE Boot BY <2>3 DEF Boot, Clears, WlanRecorded
  <2>4. CASE TapBack \/ UNCHANGED vars
    <3>1. UNCHANGED <<iface, assoc, astray>>
      BY <2>4 DEF TapBack, vars, wlan0, history, setup
    <3> QED BY <1>1, <3>1 DEF Recorded, WlanRecorded, HasSnapshot, Lease
  <2> QED BY <2>1, <2>2, <2>3, <2>4
<1> QED BY <1>2, <1>3, <1>4 DEF Recorded

LEMMA InitRecorded == Init => Recorded
<1> SUFFICES ASSUME Init PROVE Recorded OBVIOUS
<1>1. jobs = [i \in Jobs |-> Off] BY DEF Init
<1>2. \A i \in Jobs : JobRecorded(i) BY <1>1, OffIsAJob DEF JobRecorded
<1>3. OnlyBlindSavesSpoilSnapshot /\ WlanRecorded
  BY DEF Init, OnlyBlindSavesSpoilSnapshot, WlanRecorded
<1> QED BY <1>2, <1>3 DEF Recorded

LEMMA NextRecorded == ASSUME IInv, Recorded, [Next]_vars PROVE Recorded'
<1>1. CASE \E j \in Jobs : BackEnd(j)
  BY <1>1, StepsAsideRecorded, SnapshotRecorded, ApplyStaticRecorded, RevertRecorded,
     WayBackRecorded DEF BackEnd
<1>2. CASE \E j \in Jobs : Screen(j) \/ Foreground(j) \/ TapSave(j) \/ TapRevert(j)
  BY <1>2, ScreenRecorded
<1>3. CASE TapBack \/ Bind \/ Roam \/ Boot \/ UNCHANGED vars
  BY <1>3, AroundRecorded
<1> QED BY <1>1, <1>2, <1>3 DEF Next

(* However many networks, processes, roams and power losses, and however   *)
(* processes overlap and fail: a snapshot is the lease of its network, but *)
(* for the entries saved without an address, and the snapshots taken while *)
(* wlan0 was set up for another network or the radio on another            *)
(* (static_ip.py:79-97).                                                   *)
THEOREM SnapshotsAreLeases == Spec => []OnlyBlindSavesSpoilSnapshot
<1>1. Recorded => OnlyBlindSavesSpoilSnapshot BY DEF Recorded
<1> QED BY <1>1, InitRecorded, NextRecorded, Inductive, PTL DEF Spec

-----------------------------------------------------------------------------
(* Without an overlap the entry of a network is what the process that      *)
(* saved it wanted, until that process ends.                               *)

Wanted(i) == IF jobs[i].op = "set" THEN jobs[i].n ELSE 0
HasSaved(i) == jobs[i].at \in
  {"check", "snapshot", "apply", "revert", "lease", "offer", "watch"}

JobOwns(i) ==
  /\ jobs[i].at = "save" => jobs[i].config[jobs[i].ssid] = Wanted(i)
  /\ HasSaved(i) => entry[jobs[i].ssid] = Wanted(i) /\ jobs[i].op # "status"

Owns   == \A i \in Jobs : JobOwns(i)
OwnInv == ~overlapped => Owns

LEMMA OwnStep ==
  ASSUME Owns, NEW j \in Jobs, OnlyMoves(j), entry' = entry, JobOwns(j)'
  PROVE  Owns'
BY DEF Owns, JobOwns, OnlyMoves, HasSaved, Wanted

(* From one step after the save to another, or to the end.                 *)
LEMMA GoOwns ==
  ASSUME JobTypes, Owns, NEW j \in Jobs, HasSaved(j), entry' = entry,
         \/ \E step \in Steps \ {"save"} : Go(j, step)
         \/ \E ok \in BOOLEAN : Exit(j, ok)
  PROVE  Owns'
<1>1. CASE \E step \in Steps \ {"save"} : Go(j, step)
  <2>1. OnlyMoves(j) /\ SameTask(j) /\ jobs'[j].at # "save" BY <1>1, GoEffect
  <2>2. JobOwns(j)' BY <2>1 DEF Owns, JobOwns, SameTask, Wanted
  <2> QED BY <2>1, <2>2, OwnStep
<1>2. CASE \E ok \in BOOLEAN : Exit(j, ok)
  <2>1. OnlyMoves(j) /\ jobs'[j].at = "exit" BY <1>2, ExitEffect
  <2>2. JobOwns(j)' BY <2>1 DEF JobOwns, HasSaved
  <2> QED BY <2>1, <2>2, OwnStep
<1> QED BY <1>1, <1>2

LEMMA LoadsOwn ==
  ASSUME IInv, Owns, NEW j \in Jobs, SetLoads(j) \/ RemoveLoads(j) PROVE Owns'
<1>1. jobs[j].ssid \in Ssids /\ entry' = entry
  BY DEF SetLoads, RemoveLoads, At, UnderWay, IInv, Aimed, disk
<1>2. CASE SetLoads(j)
  <2>1. jobs[j].op = "set" BY <1>2 DEF SetLoads, At
  <2>2. /\ OnlyMoves(j) /\ SameTask(j) /\ jobs'[j].at = "save"
        /\ jobs'[j].config[jobs[j].ssid] = jobs[j].n
    BY <1>1, <1>2, SetLoadsEffect DEF IInv, FileTypes
  <2>3. JobOwns(j)' BY <2>1, <2>2 DEF JobOwns, SameTask, Wanted, HasSaved
  <2> QED BY <1>1, <2>2, <2>3, OwnStep
<1>3. CASE RemoveLoads(j)
  <2>1. jobs[j].op = "remove" BY <1>3 DEF RemoveLoads, At
  <2>2. /\ OnlyMoves(j) /\ SameTask(j) /\ jobs'[j].at = "save"
        /\ jobs'[j].config[jobs[j].ssid] = 0
    BY <1>1, <1>3, RemoveLoadsEffect DEF IInv, FileTypes
  <2>3. JobOwns(j)' BY <2>1, <2>2 DEF JobOwns, SameTask, Wanted, HasSaved
  <2> QED BY <1>1, <2>2, <2>3, OwnStep
<1> QED BY <1>2, <1>3

LEMMA SaveConfigOwns ==
  ASSUME IInv, ~overlapped, Owns, NEW j \in Jobs, SaveConfig(j) PROVE Owns'
<1>1. /\ jobs[j].at = "save" /\ entry' = jobs[j].config /\ jobs[j].op # "status"
  BY DEF SaveConfig, IInv, Orderly, SavesAreChanges
<1>2. /\ OnlyMoves(j) /\ SameTask(j)
      /\ jobs'[j].at = IF jobs[j].op = "set" THEN "check" ELSE "revert"
  BY SaveEffect DEF IInv
<1>3. JobOwns(j)' BY <1>1, <1>2 DEF Owns, JobOwns, SameTask, Wanted
<1>4. ASSUME NEW i \in Jobs \ {j} PROVE ~HasSaved(i) /\ jobs[i].at # "save"
  <2>1. ~Changing(i) BY <1>1, <1>4 DEF IInv, Orderly, Alone, Changing
  <2> QED BY <2>1 DEF Changing, Owns, JobOwns, HasSaved, IInv, Orderly, SavesAreChanges
<1>5. \A i \in Jobs \ {j} : JobOwns(i)' BY <1>2, <1>4 DEF OnlyMoves, JobOwns, HasSaved
<1> QED BY <1>3, <1>5 DEF Owns

LEMMA LaterStepsOwn ==
  ASSUME IInv, Owns, NEW j \in Jobs,
         \/ CheckSsid(j) \/ SnapshotDhcpState(j) \/ ApplyStatic(j)
         \/ TryFreshLease(j) \/ Offer(j) \/ Watch(j)
  PROVE  Owns'
<1>1. HasSaved(j) /\ entry' = entry
  BY DEF HasSaved, At, CheckSsid, SnapshotDhcpState, ApplyStatic, TryFreshLease,
     Offer, Watch, disk
<1>2. \/ \E step \in Steps \ {"save"} : Go(j, step)
      \/ \E ok \in BOOLEAN : Exit(j, ok)
  BY DEF CheckSsid, SnapshotDhcpState, ApplyStatic, TryFreshLease, Offer, Watch,
     FallBack, Steps
<1> QED BY <1>1, <1>2, GoOwns DEF IInv

LEMMA RevertOwns ==
  ASSUME IInv, Owns, NEW j \in Jobs, Revert(j) PROVE Owns'
<1> DEFINE back == snapshot[jobs[j].ssid]
<1>1. HasSaved(j) /\ entry' = entry BY DEF Revert, At, HasSaved, disk
<1>2. CASE \E ok \in BOOLEAN : Exit(j, ok) BY <1>1, <1>2, GoOwns DEF IInv
<1>3. CASE jobs' = [jobs EXCEPT ![j].at = "lease", ![j].fallback = back]
  <2>1. OnlyMoves(j) /\ SameTask(j) /\ jobs'[j].at = "lease"
    BY <1>3, RevertEffect DEF IInv
  <2>2. JobOwns(j)' BY <1>1, <2>1 DEF Owns, JobOwns, SameTask, Wanted
  <2> QED BY <1>1, <2>1, <2>2, OwnStep
<1> QED BY <1>2, <1>3 DEF Revert

LEMMA OthersOwn ==
  ASSUME IInv, Owns, NEW j \in Jobs,
         \/ ReadStatus(j) \/ Screen(j)
         \/ Foreground(j) \/ TapSave(j) \/ TapRevert(j)
  PROVE  Owns'
<1>1. entry' = entry
  BY DEF ReadStatus, Screen, SetDone, RemoveDone, StatusDone, Foreground, TapSave,
     TapRevert, disk
<1>2. OnlyMoves(j) /\ jobs'[j].at \in {"off", "load", "exit"}
  <2>1. CASE ReadStatus(j) BY <2>1, ReadEffect DEF IInv
  <2>2. CASE jobs' = [jobs EXCEPT ![j] = Off] BY <2>2, OffEffect DEF IInv
  <2>3. CASE RemoveDone(j) /\ Starts(j, "status", ssid, 0)
    <3>1. ssid \in Ssids BY <2>3 DEF RemoveDone, At, IInv, Aimed, UnderWay
    <3> QED BY <2>3, <3>1, StartsEffect, Constants DEF IInv
  <2>4. CASE Foreground(j)
    BY <2>4, StartsEffect, Constants DEF Foreground, IInv, FileTypes
  <2>5. CASE TapSave(j)
    <3>1. saves + 1 \in Versions
      BY <2>5, StaticIpAssumption
      DEF IInv, FileTypes, TapSave, Versions, StaticIpAssumption
    <3>2. ssid \in Ssids BY <2>5 DEF TapSave, IInv, Aimed
    <3>3. Starts(j, "set", ssid, saves + 1) BY <2>5 DEF TapSave
    <3> QED BY <3>1, <3>2, <3>3, StartsEffect DEF IInv
  <2>6. CASE TapRevert(j)
    BY <2>6, StartsEffect, Constants DEF TapRevert, IInv, Aimed
  <2> QED BY <2>1, <2>2, <2>3, <2>4, <2>5, <2>6
          DEF Screen, SetDone, RemoveDone, StatusDone
<1>3. JobOwns(j)' BY <1>2 DEF JobOwns, HasSaved
<1> QED BY <1>1, <1>2, <1>3, OwnStep

LEMMA AroundOwns ==
  ASSUME Owns, TapBack \/ Bind \/ Roam \/ Boot \/ UNCHANGED vars PROVE Owns'
<1>1. CASE Boot BY <1>1, OffIsAJob DEF Boot, Owns, JobOwns, HasSaved
<1>2. CASE TapBack \/ Bind \/ Roam \/ UNCHANGED vars
  <2>1. UNCHANGED <<jobs, entry>> BY <1>2 DEF TapBack, Bind, Roam, vars, disk
  <2> QED BY <2>1 DEF Owns, JobOwns, HasSaved, Wanted
<1> QED BY <1>1, <1>2

(* Nothing takes an overlap or a failure back.                             *)
LEMMA TroubleLasts ==
  ASSUME [Next]_vars
  PROVE  (overlapped => overlapped') /\ (failed => failed')
<1>1. CASE \E j \in Jobs : BackEnd(j)
  <2>1. PICK j \in Jobs : BackEnd(j) BY <1>1
  <2>2. overlapped' = overlapped
    BY <2>1 DEF BackEnd, SetLoads, RemoveLoads, SaveConfig, CheckSsid,
      SnapshotDhcpState, ApplyStatic, Revert, TryFreshLease, Offer, Watch,
      ReadStatus, history
  <2>3. failed' = failed \/ failed' = TRUE
    <3>1. CASE \/ SetLoads(j) \/ RemoveLoads(j) \/ SaveConfig(j) \/ CheckSsid(j)
               \/ SnapshotDhcpState(j) \/ TryFreshLease(j)
      BY <3>1 DEF SetLoads, RemoveLoads, SaveConfig, CheckSsid,
        SnapshotDhcpState, TryFreshLease, history
    <3>2. CASE ApplyStatic(j)
      BY <3>2, Zenon DEF ApplyStatic, Configures, CannotConfigure
    <3>3. CASE Revert(j) BY <3>3, Zenon DEF Revert, Configures, CannotConfigure
    <3>4. CASE Offer(j) \/ Watch(j)
      BY <3>4, Zenon DEF Offer, Watch, FallBack, Configures, CannotConfigure
    <3>5. CASE ReadStatus(j) BY <3>5, Zenon DEF ReadStatus
    <3> QED BY <2>1, <3>1, <3>2, <3>3, <3>4, <3>5 DEF BackEnd
  <2> QED BY <2>2, <2>3
<1>2. CASE \E j \in Jobs : Screen(j) \/ Foreground(j) \/ TapSave(j) \/ TapRevert(j)
  <2>1. PICK j \in Jobs : Screen(j) \/ Foreground(j) \/ TapSave(j) \/ TapRevert(j)
    BY <1>2
  <2>2. failed' = failed
    BY <2>1 DEF Screen, SetDone, RemoveDone, StatusDone, Foreground, TapSave,
      TapRevert, history
  <2>3. overlapped' = overlapped \/ \E op, s, n : Starts(j, op, s, n)
    BY <2>1 DEF Screen, SetDone, RemoveDone, StatusDone, Foreground, TapSave,
      TapRevert, history
  <2>4. ASSUME NEW op, NEW s, NEW n, Starts(j, op, s, n)
        PROVE  overlapped => overlapped'
    BY <2>4 DEF Starts
  <2> QED BY <2>2, <2>3, <2>4
<1>3. CASE TapBack \/ Bind \/ Roam \/ Boot \/ UNCHANGED vars
  BY <1>3 DEF TapBack, Bind, Roam, Boot, vars, history
<1> QED BY <1>1, <1>2, <1>3 DEF Next

LEMMA InitOwns == Init => OwnInv
<1> SUFFICES ASSUME Init PROVE Owns BY DEF OwnInv
<1>1. jobs = [j \in Jobs |-> Off] BY DEF Init
<1> QED BY <1>1, OffIsAJob DEF Owns, JobOwns, HasSaved

LEMMA NextOwns == ASSUME IInv, OwnInv, [Next]_vars PROVE OwnInv'
<1> SUFFICES ASSUME ~overlapped' PROVE Owns' BY DEF OwnInv
<1>1. ~overlapped /\ Owns BY TroubleLasts DEF OwnInv
<1>2. CASE \E j \in Jobs : BackEnd(j)
  BY <1>1, <1>2, LoadsOwn, SaveConfigOwns, LaterStepsOwn, RevertOwns, OthersOwn
  DEF BackEnd
<1>3. CASE \E j \in Jobs : Screen(j) \/ Foreground(j) \/ TapSave(j) \/ TapRevert(j)
  BY <1>1, <1>3, OthersOwn
<1>4. CASE TapBack \/ Bind \/ Roam \/ Boot \/ UNCHANGED vars
  BY <1>1, <1>4, AroundOwns
<1> QED BY <1>2, <1>3, <1>4 DEF Next

LEMMA OwnHolds == Spec => []OwnInv
BY InitOwns, NextOwns, Inductive, PTL DEF Spec

-----------------------------------------------------------------------------
(* As long as nothing fails and nothing overlaps, the entry of the network *)
(* in use is in force or a process is about to put it there, and a static  *)
(* address that is in no entry is about to be undone.                      *)

InForce(s) == iface = [net |-> s, n |-> entry[s]] /\ ~daemon

Setting(i) == jobs[i].op = "set" /\ HasSaved(i)
Undoing(i) == jobs[i].at \in {"revert", "lease"}

EntryInForce ==
  boots = 0 /\ entry[assoc] # 0 => InForce(assoc) \/ \E i \in Jobs : Setting(i)

NothingElse ==
  blind = {} /\ iface # None =>
    iface.n \in {0, entry[assoc]} \/ \E i \in Jobs : Setting(i) \/ Undoing(i)

Agrees   == EntryInForce /\ NothingElse
AgreeInv == ~failed /\ ~overlapped /\ roams = 0 => Agrees

(* A step of a process that is in none of those steps.                     *)
LEMMA NothingElseStep ==
  ASSUME NothingElse, NEW j \in Jobs, OnlyMoves(j), ~Setting(j), ~Undoing(j),
         UNCHANGED <<entry, iface, assoc, blind>>
  PROVE  NothingElse'
BY DEF NothingElse, OnlyMoves, Setting, Undoing, HasSaved

LEMMA AgreeStep ==
  ASSUME Agrees, NEW j \in Jobs, OnlyMoves(j), ~Setting(j), ~Undoing(j),
         UNCHANGED <<entry, iface, daemon, assoc, boots, blind>>
  PROVE  Agrees'
<1>1. NothingElse' BY NothingElseStep DEF Agrees
<1>2. EntryInForce'
  BY DEF Agrees, EntryInForce, OnlyMoves, Setting, HasSaved, InForce
<1> QED BY <1>1, <1>2 DEF Agrees

(* A process that sets an address is reason enough.                        *)
LEMMA SettingAgrees == ASSUME NEW j \in Jobs, Setting(j)' PROVE Agrees'
BY DEF Agrees, EntryInForce, NothingElse

LEMMA LoadsAgree ==
  ASSUME IInv, Agrees, NEW j \in Jobs,
         SetLoads(j) \/ RemoveLoads(j) \/ ReadStatus(j), ~failed'
  PROVE  Agrees'
<1>1. ~Setting(j) /\ ~Undoing(j)
  BY DEF SetLoads, RemoveLoads, ReadStatus, At, Setting, Undoing, HasSaved
<1>2. UNCHANGED <<entry, iface, daemon, assoc, boots, blind>>
  BY DEF SetLoads, RemoveLoads, ReadStatus, disk, wlan0, history, counts, spoilt
<1>3. OnlyMoves(j)
  <2>1. CASE SetLoads(j) \/ RemoveLoads(j)
    <3>1. jobs[j].ssid \in Ssids
      BY <2>1 DEF SetLoads, RemoveLoads, At, UnderWay, IInv, Aimed
    <3> QED BY <2>1, <3>1, SetLoadsEffect, RemoveLoadsEffect DEF IInv, FileTypes
  <2>2. CASE ReadStatus(j) BY <2>2, ReadEffect DEF IInv
  <2> QED BY <2>1, <2>2
<1> QED BY <1>1, <1>2, <1>3, AgreeStep

LEMMA SaveConfigAgrees ==
  ASSUME IInv, Home, Owns, NEW j \in Jobs, SaveConfig(j) PROVE Agrees'
<1>1. /\ OnlyMoves(j) /\ SameTask(j)
      /\ jobs'[j].at = IF jobs[j].op = "set" THEN "check" ELSE "revert"
  BY SaveEffect DEF IInv
<1>2. CASE jobs[j].op = "set"
  <2>1. Setting(j)' BY <1>1, <1>2 DEF Setting, HasSaved, SameTask
  <2> QED BY <2>1, SettingAgrees
<1>3. CASE jobs[j].op # "set"
  <2>1. jobs[j].at = "save" /\ entry' = jobs[j].config /\ assoc' = assoc
    BY DEF SaveConfig, wlan0
  <2>2. jobs[j].ssid = assoc BY <2>1 DEF Home, JobAtHome, UnderWay
  <2>3. entry'[assoc'] = 0 BY <1>3, <2>1, <2>2 DEF Owns, JobOwns, Wanted
  <2>4. Undoing(j)' BY <1>1, <1>3 DEF Undoing
  <2> QED BY <2>3, <2>4 DEF Agrees, EntryInForce, NothingElse
<1> QED BY <1>2, <1>3

LEMMA CheckSsidAgrees ==
  ASSUME IInv, Home, NEW j \in Jobs, CheckSsid(j) PROVE Agrees'
<1>1. SameTask(j) /\ jobs'[j].at = "snapshot" BY ChecksAtHome
<1>2. Setting(j)' BY <1>1 DEF Setting, HasSaved, SameTask, CheckSsid, At
<1> QED BY <1>2, SettingAgrees

LEMMA SnapshotAgrees ==
  ASSUME IInv, NEW j \in Jobs, SnapshotDhcpState(j) PROVE Agrees'
<1>1. SameTask(j) /\ jobs'[j].at = "apply"
  BY GoEffect DEF SnapshotDhcpState, Steps, IInv
<1>2. Setting(j)' BY <1>1 DEF Setting, HasSaved, SameTask, SnapshotDhcpState, At
<1> QED BY <1>2, SettingAgrees

(* The address that is applied is the entry's.                             *)
LEMMA ApplyStaticInForce ==
  ASSUME IInv, Owns, NEW j \in Jobs, ApplyStatic(j), ~failed'
  PROVE  /\ iface' = [net |-> jobs[j].ssid, n |-> entry[jobs[j].ssid]]
         /\ ~daemon' /\ entry[jobs[j].ssid] = jobs[j].n
         /\ UNCHANGED <<entry, assoc>>
<1>1. entry[jobs[j].ssid] = jobs[j].n
  BY DEF ApplyStatic, At, Owns, JobOwns, HasSaved, Wanted
<1>2. ~daemon' /\ UNCHANGED <<entry, assoc>> BY DEF ApplyStatic, disk
<1> QED BY <1>1, <1>2 DEF ApplyStatic, Configures, CannotConfigure

LEMMA ApplyStaticAgrees ==
  ASSUME IInv, Home, Owns, NEW j \in Jobs, ApplyStatic(j), ~failed' PROVE Agrees'
<1>1. jobs[j].ssid = assoc BY DEF ApplyStatic, At, Home, JobAtHome, UnderWay
<1>2. /\ iface' = [net |-> assoc, n |-> entry[assoc]] /\ ~daemon'
      /\ UNCHANGED <<entry, assoc>>
  BY <1>1, ApplyStaticInForce
<1>3. InForce(assoc)' /\ iface'.n = entry'[assoc'] BY <1>2 DEF InForce
<1> QED BY <1>3 DEF Agrees, EntryInForce, NothingElse

(* A remove that saved left no entry, so only the address is in question.  *)
LEMMA NoEntryLeft ==
  ASSUME Home, Owns, NEW j \in Jobs, jobs[j].op = "remove", HasSaved(j),
         UNCHANGED <<entry, assoc>>
  PROVE  EntryInForce'
<1>1. jobs[j].ssid = assoc BY DEF Home, JobAtHome, UnderWay, HasSaved
<1>2. entry[assoc] = 0 BY <1>1 DEF Owns, JobOwns, Wanted
<1> QED BY <1>2 DEF EntryInForce

LEMMA RevertAgrees ==
  ASSUME IInv, Home, Owns, NEW j \in Jobs, Revert(j), ~failed' PROVE Agrees'
<1>1. UNCHANGED <<entry, assoc>> /\ jobs[j].op = "remove" /\ HasSaved(j)
  BY DEF Revert, disk, At, HasSaved
<1>2. jobs[j].active = TRUE \/ jobs[j].active
  BY DEF Home, JobAtHome, Revert, At
<1>3. jobs' = [jobs EXCEPT ![j].at = "lease", ![j].fallback = snapshot[jobs[j].ssid]]
  BY <1>2 DEF Revert, CannotConfigure
<1>4. jobs'[j].at = "lease" BY <1>3, RevertEffect DEF IInv
<1>5. NothingElse' BY <1>4 DEF NothingElse, Undoing
<1> QED BY <1>1, <1>5, NoEntryLeft DEF Agrees

LEMMA TryFreshLeaseAgrees ==
  ASSUME Home, Owns, NEW j \in Jobs, TryFreshLease(j) PROVE Agrees'
<1>1. UNCHANGED <<entry, assoc>> /\ jobs[j].op = "remove" /\ HasSaved(j)
  BY DEF TryFreshLease, disk, At, HasSaved
<1>2. NothingElse' BY DEF TryFreshLease, Clears, NothingElse
<1> QED BY <1>1, <1>2, NoEntryLeft DEF Agrees

LEMMA LastStepsAgree ==
  ASSUME IInv, Home, Owns, Agrees, NEW j \in Jobs, Offer(j) \/ Watch(j), ~failed'
  PROVE  Agrees'
<1>1. UNCHANGED <<entry, assoc, blind>> BY DEF Offer, Watch, disk, spoilt
<1>2. /\ jobs[j].op = "remove" /\ jobs[j].at \in {"offer", "watch"}
      /\ HasSaved(j) /\ ~Setting(j) /\ ~Undoing(j)
  BY DEF Offer, Watch, At, HasSaved, Setting, Undoing
<1>3. OnlyMoves(j)
  BY GoEffect, ExitEffect DEF Offer, Watch, FallBack, Steps, IInv
<1>4. \/ iface' = None \/ iface' = iface
      \/ iface' = jobs[j].fallback
  BY DEF Offer, Watch, FallBack, Clears, Configures, CannotConfigure
<1>5. NothingElse'
  <2>1. CASE iface' = None BY <2>1 DEF NothingElse
  <2>2. CASE iface' = iface BY <1>1, <1>2, <1>3, <2>2, NothingElseStep DEF Agrees
  <2>3. CASE iface' = jobs[j].fallback
    <3>1. Fits(jobs[j].fallback, assoc) BY <1>2 DEF Home, JobAtHome
    <3> QED BY <1>1, <2>3, <3>1 DEF NothingElse, Fits
  <2> QED BY <1>4, <2>1, <2>2, <2>3
<1> QED BY <1>1, <1>2, <1>5, NoEntryLeft DEF Agrees

LEMMA ScreenMoves ==
  ASSUME IInv, NEW j \in Jobs,
         Screen(j) \/ Foreground(j) \/ TapSave(j) \/ TapRevert(j)
  PROVE  OnlyMoves(j) /\ jobs'[j].at \in {"off", "load"}
<1>1. CASE jobs' = [jobs EXCEPT ![j] = Off] BY <1>1, OffEffect DEF IInv
<1>2. CASE RemoveDone(j) /\ Starts(j, "status", ssid, 0)
  <2>1. ssid \in Ssids BY <1>2 DEF RemoveDone, At, IInv, Aimed, UnderWay
  <2> QED BY <1>2, <2>1, StartsEffect, Constants DEF IInv
<1>3. CASE Foreground(j)
  BY <1>3, StartsEffect, Constants DEF Foreground, IInv, FileTypes
<1>4. CASE TapSave(j)
  <2>1. saves + 1 \in Versions
    BY <1>4, StaticIpAssumption
    DEF IInv, FileTypes, TapSave, Versions, StaticIpAssumption
  <2>2. ssid \in Ssids BY <1>4 DEF TapSave, IInv, Aimed
  <2>3. Starts(j, "set", ssid, saves + 1) BY <1>4 DEF TapSave
  <2> QED BY <2>1, <2>2, <2>3, StartsEffect DEF IInv
<1>5. CASE TapRevert(j)
  BY <1>5, StartsEffect, Constants DEF TapRevert, IInv, Aimed
<1> QED BY <1>1, <1>2, <1>3, <1>4, <1>5 DEF Screen, SetDone, RemoveDone, StatusDone

LEMMA ScreenAgrees ==
  ASSUME IInv, Agrees, NEW j \in Jobs,
         Screen(j) \/ Foreground(j) \/ TapSave(j) \/ TapRevert(j)
  PROVE  Agrees'
<1>1. UNCHANGED <<entry, iface, daemon, assoc, boots, blind>>
  BY DEF Screen, SetDone, RemoveDone, StatusDone, Foreground, TapSave,
     TapRevert, disk, wlan0, history, counts, spoilt
<1>2. ~Setting(j) /\ ~Undoing(j)
  BY DEF Screen, SetDone, RemoveDone, StatusDone, Foreground, TapSave,
     TapRevert, At, Setting, Undoing, HasSaved
<1> QED BY <1>1, <1>2, ScreenMoves, AgreeStep

(* A udhcpc that binds finds no entry in force, and a power loss ends what *)
(* the entry promised.                                                     *)
LEMMA AroundAgrees ==
  ASSUME Agrees, boots \in Nat, TapBack \/ Bind \/ Boot \/ UNCHANGED vars
  PROVE  Agrees'
<1>1. CASE Boot
  <2>1. iface' = None /\ boots' = boots + 1 BY <1>1 DEF Boot, Clears
  <2> QED BY <2>1 DEF Agrees, EntryInForce, NothingElse
<1>2. CASE Bind
  <2>1. daemon /\ iface' = Lease(assoc) /\ UNCHANGED <<jobs, entry, assoc, boots>>
    BY <1>2 DEF Bind, disk, history, counts
  <2>2. EntryInForce'
    BY <2>1 DEF Agrees, EntryInForce, InForce, Setting, HasSaved
  <2> QED BY <2>1, <2>2 DEF Agrees, NothingElse, Lease
<1>3. CASE TapBack \/ UNCHANGED vars
  <2>1. UNCHANGED <<jobs, entry, iface, daemon, assoc, boots, blind>>
    BY <1>3 DEF TapBack, vars, disk, wlan0, history, counts, spoilt
  <2> QED BY <2>1 DEF Agrees, EntryInForce, NothingElse, InForce, Setting, Undoing,
                      HasSaved
<1> QED BY <1>1, <1>2, <1>3

LEMMA BackEndAgrees ==
  ASSUME IInv, Home, Owns, Agrees, NEW j \in Jobs, BackEnd(j), ~failed'
  PROVE  Agrees'
BY LoadsAgree, SaveConfigAgrees, CheckSsidAgrees, SnapshotAgrees,
   ApplyStaticAgrees, RevertAgrees, TryFreshLeaseAgrees, LastStepsAgree DEF BackEnd

LEMMA BootsCounted == ASSUME boots \in Nat, [Next]_vars PROVE boots' \in Nat
<1>1. CASE \E j \in Jobs : BackEnd(j)
  <2>1. UNCHANGED boots
    BY <1>1 DEF BackEnd, SetLoads, RemoveLoads, SaveConfig, CheckSsid,
      SnapshotDhcpState, ApplyStatic, Revert, TryFreshLease, Offer, Watch,
      ReadStatus, history, counts
  <2> QED BY <2>1
<1>2. CASE \E j \in Jobs : Screen(j) \/ Foreground(j) \/ TapSave(j) \/ TapRevert(j)
  <2>1. UNCHANGED boots
    BY <1>2 DEF Screen, SetDone, RemoveDone, StatusDone, Foreground, TapSave,
      TapRevert, history, counts
  <2> QED BY <2>1
<1>3. CASE Boot BY <1>3 DEF Boot
<1>4. CASE TapBack \/ Bind \/ Roam \/ UNCHANGED vars
  <2>1. UNCHANGED boots BY <1>4 DEF TapBack, Bind, Roam, vars, history, counts
  <2> QED BY <2>1
<1> QED BY <1>1, <1>2, <1>3, <1>4 DEF Next

Agreement == boots \in Nat /\ AgreeInv

LEMMA InitAgrees == Init => Agreement
BY DEF Init, Agreement, AgreeInv, Agrees, EntryInForce, NothingElse, NoConfig

LEMMA NextAgrees ==
  ASSUME IInv, HomeInv, OwnInv, Agreement, [Next]_vars PROVE Agreement'
<1>1. boots' \in Nat BY BootsCounted DEF Agreement
<1>2. ASSUME ~failed', ~overlapped', roams' = 0 PROVE Agrees'
  <2>1. ~failed /\ ~overlapped /\ roams = 0 /\ ~Roam
    BY <1>2, TroubleLasts, RoamsCounted DEF HomeInv
  <2>2. Home /\ Owns /\ Agrees BY <2>1 DEF HomeInv, AtHome, OwnInv, Agreement, AgreeInv
  <2>3. CASE \E j \in Jobs : BackEnd(j) BY <1>2, <2>2, <2>3, BackEndAgrees
  <2>4. CASE \E j \in Jobs : Screen(j) \/ Foreground(j) \/ TapSave(j) \/ TapRevert(j)
    BY <2>2, <2>4, ScreenAgrees
  <2>5. CASE TapBack \/ Bind \/ Boot \/ UNCHANGED vars
    BY <2>2, <2>5, AroundAgrees DEF Agreement
  <2> QED BY <2>1, <2>3, <2>4, <2>5 DEF Next
<1> QED BY <1>1, <1>2 DEF Agreement, AgreeInv

LEMMA AgreementHolds == Spec => []Agreement
BY InitAgrees, NextAgrees, Inductive, HomeHolds, OwnHolds, PTL DEF Spec

(* However many networks, processes and power losses: once no process is   *)
(* under way wlan0 has the entry of its network, and no static address     *)
(* that is in no entry, but for the trouble OnlyTroubleDisagrees names     *)
(* (static_ip.py:365-399).                                                 *)
THEOREM FilesAndInterfaceAgree == Spec => []OnlyTroubleDisagrees
<1>1. ASSUME HomeInv, Agreement PROVE OnlyTroubleDisagrees
  <2>1. SUFFICES ASSUME Quiet, ~failed, ~overlapped, roams = 0
        PROVE /\ entry[assoc] # 0 /\ boots = 0 =>
                   iface = [net |-> assoc, n |-> entry[assoc]]
              /\ iface # None /\ blind = {} => iface.n \in {0, entry[iface.net]}
    BY DEF OnlyTroubleDisagrees
  <2>2. Home /\ Agrees BY <1>1, <2>1 DEF HomeInv, AtHome, Agreement, AgreeInv
  <2>3. \A i \in Jobs : ~Setting(i) /\ ~Undoing(i)
    BY <2>1 DEF Quiet, Setting, Undoing, HasSaved
  <2> QED BY <2>1, <2>2, <2>3
          DEF Agrees, EntryInForce, NothingElse, InForce, Home, WlanAtHome
<1> QED BY <1>1, HomeHolds, AgreementHolds, PTL

-----------------------------------------------------------------------------
(* As long as no job of an earlier visit is about there is one process at  *)
(* most, it is about the network on the screen, and the screen is busy as  *)
(* long as it runs; what it found is still so when the screen hears of it. *)

Idle == \A i \in Jobs : ~UnderWay(i)

JobInView(i) == UnderWay(i) =>
  /\ jobs[i].ssid = ssid
  /\ jobs[i].op = "set" /\ jobs[i].at # "exit" => jobs[i].n # 0

OneJob ==
  /\ ~overlapped
  /\ \A i, k \in Jobs : UnderWay(i) /\ UnderWay(k) => i = k
  /\ busy <=> ~Idle
  /\ \A i \in Jobs : JobInView(i)

JobReports(i) ==
  /\ UnderWay(i) => jobs[i].ok
  /\ At(i, "status", "exit") => jobs[i].config[ssid] = entry[ssid]
  /\ At(i, "set", "exit") => entry[ssid] # 0 /\ (roams = 0 => InForce(ssid))

ScreenTells ==
  /\ hasStatic <=> entry[ssid] # 0
  /\ label = "applied" /\ roams = 0 => InForce(ssid)

Reports ==
  /\ \A i \in Jobs : JobReports(i)
  /\ Idle /\ ssid # None => ScreenTells

Shown == ~reopened => OneJob /\ (~failed => Reports)

(* The one process goes on.                                                *)
LEMMA OneJobStep ==
  ASSUME OneJob, NEW j \in Jobs, OnlyMoves(j), UnderWay(j), UnderWay(j)',
         jobs'[j].ssid = jobs[j].ssid,
         jobs'[j].at = "exit" \/ (jobs[j].at # "exit" /\ SameTask(j)),
         UNCHANGED <<overlapped, busy, ssid>>
  PROVE  OneJob'
<1>1. \A i \in Jobs \ {j} : ~UnderWay(i) BY DEF OneJob
<1>2. \A i \in Jobs \ {j} : ~UnderWay(i)' BY <1>1 DEF OnlyMoves, UnderWay
<1>3. busy' <=> ~Idle'
  <2>1. ~Idle /\ ~Idle' BY DEF Idle
  <2>2. busy BY <2>1 DEF OneJob
  <2>3. busy' = busy OBVIOUS
  <2>4. busy' BY <2>2, <2>3
  <2> QED BY <2>1, <2>4
<1>4. JobInView(j)' BY DEF OneJob, JobInView, SameTask, UnderWay
<1>5. \A i \in Jobs \ {j} : JobInView(i)' BY DEF OneJob, JobInView, OnlyMoves, UnderWay
<1> QED BY <1>2, <1>3, <1>4, <1>5 DEF OneJob

LEMMA OneReports ==
  ASSUME OneJob', NEW j \in Jobs, UnderWay(j)', JobReports(j)' PROVE Reports'
<1>1. \A i \in Jobs \ {j} : ~UnderWay(i)' BY DEF OneJob
<1>2. \A i \in Jobs \ {j} : JobReports(i)' BY <1>1 DEF JobReports, UnderWay, At
<1>3. ~Idle' BY DEF Idle
<1> QED BY <1>2, <1>3 DEF Reports

(* A step that is not the last of its process, or the last of a revert.    *)
LEMMA ReportsLater ==
  ASSUME OneJob, ~failed => Reports, NEW j \in Jobs, OnlyMoves(j), SameTask(j),
         jobs[j].at \notin {"off", "exit"}, jobs'[j].at \notin {"off", "exit"},
         jobs'[j].ok = jobs[j].ok,
         UNCHANGED <<overlapped, busy, ssid>>, failed => failed'
  PROVE  OneJob' /\ (~failed' => Reports')
<1>1. UnderWay(j) /\ UnderWay(j)' BY DEF UnderWay
<1>2. OneJob' BY <1>1, OneJobStep DEF SameTask
<1>3. ASSUME ~failed' PROVE Reports'
  <2>1. jobs[j].ok BY <1>1, <1>3 DEF Reports, JobReports
  <2>2. jobs'[j].ok BY <2>1
  <2>3. JobReports(j)' BY <2>2 DEF JobReports, At
  <2> QED BY <1>1, <1>2, <2>3, OneReports
<1> QED BY <1>2, <1>3

LEMMA EndsOneJob ==
  ASSUME JobTypes, OneJob, NEW j \in Jobs, UnderWay(j), NEW ok \in BOOLEAN,
         Exit(j, ok), UNCHANGED <<overlapped, busy, ssid>>
  PROVE  OneJob' /\ UnderWay(j)'
<1>1. OnlyMoves(j) /\ jobs'[j].at = "exit" /\ jobs'[j].ssid = jobs[j].ssid
  BY ExitEffect
<1>2. UnderWay(j)' BY <1>1 DEF UnderWay
<1> QED BY <1>1, <1>2, OneJobStep

LEMMA LoadsShown ==
  ASSUME IInv, OneJob, ~failed => Reports, NEW j \in Jobs,
         SetLoads(j) \/ RemoveLoads(j) \/ SaveConfig(j)
  PROVE  OneJob' /\ (~failed' => Reports')
<1>1. /\ UnderWay(j) /\ jobs[j].at \notin {"off", "exit"}
      /\ UNCHANGED <<overlapped, busy, ssid, failed>>
  BY DEF SetLoads, RemoveLoads, SaveConfig, At, UnderWay, panel, history
<1>2. jobs[j].ssid \in Ssids BY <1>1 DEF IInv, Aimed
<1>3. /\ OnlyMoves(j) /\ SameTask(j) /\ jobs'[j].ok = jobs[j].ok
      /\ jobs'[j].at \notin {"off", "exit"}
  BY <1>2, SetLoadsEffect, RemoveLoadsEffect, SaveEffect DEF IInv, FileTypes
<1> QED BY <1>1, <1>3, ReportsLater

(* The address is still to be set, or a roam has put the process off.      *)
LEMMA CheckSsidShown ==
  ASSUME IInv, HomeInv, Owns, OneJob, ~failed => Reports, NEW j \in Jobs, CheckSsid(j)
  PROVE  OneJob' /\ (~failed' => Reports')
<1>1. /\ UnderWay(j) /\ jobs[j].at \notin {"off", "exit"}
      /\ UNCHANGED <<overlapped, busy, ssid, failed, entry, roams>>
  BY DEF CheckSsid, At, UnderWay, panel, history, disk, counts
<1>2. CASE Go(j, "snapshot")
  <2>1. /\ OnlyMoves(j) /\ SameTask(j) /\ jobs'[j].ok = jobs[j].ok
        /\ jobs'[j].at \notin {"off", "exit"}
    BY <1>2, GoEffect DEF IInv, Steps
  <2> QED BY <1>1, <2>1, ReportsLater
<1>3. CASE assoc # jobs[j].ssid /\ Exit(j, TRUE)
  <2>1. OneJob' /\ UnderWay(j)' BY <1>1, <1>3, EndsOneJob DEF IInv
  <2>2. roams # 0 BY <1>1, <1>3 DEF HomeInv, AtHome, Home, JobAtHome
  <2>3. jobs[j].op = "set" /\ jobs[j].at = "check" BY DEF CheckSsid, At
  <2>4. jobs[j].ssid = ssid /\ jobs[j].n # 0
    BY <1>1, <2>3 DEF OneJob, JobInView
  <2>5. entry[ssid] # 0 BY <2>3, <2>4 DEF Owns, JobOwns, HasSaved, Wanted
  <2>6. jobs'[j].op = "set" /\ jobs'[j].ok = TRUE BY <1>3, <2>3, ExitEffect DEF IInv
  <2>7. JobReports(j)' BY <1>1, <2>2, <2>5, <2>6 DEF JobReports, At
  <2> QED BY <2>1, <2>7, OneReports
<1> QED BY <1>2, <1>3 DEF CheckSsid

LEMMA GoesOnShown ==
  ASSUME IInv, OneJob, ~failed => Reports, NEW j \in Jobs,
         SnapshotDhcpState(j) \/ TryFreshLease(j)
  PROVE  OneJob' /\ (~failed' => Reports')
<1>1. /\ UnderWay(j) /\ jobs[j].at \notin {"off", "exit"}
      /\ UNCHANGED <<overlapped, busy, ssid, failed>>
  BY DEF SnapshotDhcpState, TryFreshLease, At, UnderWay, panel, history
<1>2. /\ OnlyMoves(j) /\ SameTask(j) /\ jobs'[j].ok = jobs[j].ok
      /\ jobs'[j].at \notin {"off", "exit"}
  BY GoEffect DEF IInv, Steps, SnapshotDhcpState, TryFreshLease
<1> QED BY <1>1, <1>2, ReportsLater

LEMMA ApplyStaticShown ==
  ASSUME IInv, Owns, OneJob, NEW j \in Jobs, ApplyStatic(j)
  PROVE  OneJob' /\ (~failed' => Reports')
<1>1. UnderWay(j) /\ UNCHANGED <<overlapped, busy, ssid, roams>>
  BY DEF ApplyStatic, At, UnderWay, panel, counts
<1>2. OneJob' /\ UnderWay(j)'
  BY <1>1, EndsOneJob DEF ApplyStatic, IInv
<1>3. ASSUME ~failed' PROVE Reports'
  <2>1. jobs[j].op = "set" /\ jobs[j].ssid = ssid /\ jobs[j].n # 0
    BY <1>1 DEF ApplyStatic, At, OneJob, JobInView
  <2>2. /\ iface' = [net |-> ssid, n |-> entry[ssid]] /\ ~daemon'
        /\ entry[ssid] # 0 /\ entry' = entry
    BY <1>3, <2>1, ApplyStaticInForce
  <2>3. InForce(ssid)' /\ entry'[ssid'] # 0 BY <1>1, <2>2 DEF InForce
  <2>4. Exit(j, TRUE) BY <1>3 DEF ApplyStatic, CannotConfigure
  <2>5. jobs'[j].op = "set" /\ jobs'[j].ok = TRUE BY <2>1, <2>4, ExitEffect DEF IInv
  <2>6. JobReports(j)' BY <2>3, <2>5 DEF JobReports, At
  <2> QED BY <1>2, <2>6, OneReports
<1> QED BY <1>2, <1>3

(* A revert that ends well has nothing to report.                          *)
LEMMA EndOfRemove ==
  ASSUME IInv, OneJob, NEW j \in Jobs, jobs[j].op = "remove", UnderWay(j),
         \/ Exit(j, TRUE)
         \/ Exit(j, FALSE) /\ failed' = TRUE,
         UNCHANGED <<overlapped, busy, ssid>>
  PROVE  OneJob' /\ (~failed' => Reports')
<1>1. OneJob' /\ UnderWay(j)' BY EndsOneJob DEF IInv
<1>2. ASSUME ~failed' PROVE Reports'
  <2>1. jobs'[j].op = "remove" /\ jobs'[j].ok = TRUE
    BY <1>2, ExitEffect DEF IInv
  <2>2. JobReports(j)' BY <2>1 DEF JobReports, At
  <2> QED BY <1>1, <2>2, OneReports
<1> QED BY <1>1, <1>2

LEMMA RevertShown ==
  ASSUME IInv, OneJob, ~failed => Reports, NEW j \in Jobs, Revert(j)
  PROVE  OneJob' /\ (~failed' => Reports')
<1>1. /\ UnderWay(j) /\ jobs[j].op = "remove" /\ jobs[j].at \notin {"off", "exit"}
      /\ UNCHANGED <<overlapped, busy, ssid>>
  BY DEF Revert, At, UnderWay, panel
<1>2. CASE \/ Exit(j, TRUE)
           \/ Exit(j, FALSE) /\ failed' = TRUE
  BY <1>1, <1>2, EndOfRemove
<1>3. CASE jobs' = [jobs EXCEPT ![j].at = "lease", ![j].fallback = snapshot[jobs[j].ssid]]
           /\ UNCHANGED failed
  <2>1. /\ OnlyMoves(j) /\ SameTask(j) /\ jobs'[j].ok = jobs[j].ok
        /\ jobs'[j].at \notin {"off", "exit"}
    BY <1>3, RevertEffect DEF IInv
  <2> QED BY <1>1, <1>3, <2>1, ReportsLater
<1> QED BY <1>2, <1>3 DEF Revert, Configures, CannotConfigure

LEMMA LastStepsShown ==
  ASSUME IInv, OneJob, ~failed => Reports, NEW j \in Jobs, Offer(j) \/ Watch(j)
  PROVE  OneJob' /\ (~failed' => Reports')
<1>1. /\ UnderWay(j) /\ jobs[j].op = "remove" /\ jobs[j].at \notin {"off", "exit"}
      /\ UNCHANGED <<overlapped, busy, ssid>>
  BY DEF Offer, Watch, At, UnderWay, panel
<1>2. CASE \/ Exit(j, TRUE)
           \/ Exit(j, FALSE) /\ failed' = TRUE
  BY <1>1, <1>2, EndOfRemove
<1>3. CASE Go(j, "watch") /\ UNCHANGED failed
  <2>1. /\ OnlyMoves(j) /\ SameTask(j) /\ jobs'[j].ok = jobs[j].ok
        /\ jobs'[j].at \notin {"off", "exit"}
    BY <1>3, GoEffect DEF IInv, Steps
  <2> QED BY <1>1, <1>3, <2>1, ReportsLater
<1> QED BY <1>2, <1>3 DEF Offer, Watch, FallBack, CannotConfigure

LEMMA ReadStatusShown ==
  ASSUME IInv, OneJob, ~failed => Reports, NEW j \in Jobs, ReadStatus(j)
  PROVE  OneJob' /\ (~failed' => Reports')
<1>1. UnderWay(j) /\ UNCHANGED <<overlapped, busy, ssid, entry>>
  BY DEF ReadStatus, At, UnderWay, panel, disk
<1>2. /\ OnlyMoves(j) /\ jobs'[j].at = "exit"
      /\ jobs'[j].op = "status" /\ jobs'[j].ssid = jobs[j].ssid
      /\ \/ jobs'[j].config = entry /\ jobs'[j].ok = jobs[j].ok /\ failed' = failed
         \/ failed' = TRUE
  BY ReadEffect DEF IInv
<1>3. UnderWay(j)' BY <1>2 DEF UnderWay
<1>4. OneJob' BY <1>1, <1>2, <1>3, OneJobStep
<1>5. ASSUME ~failed' PROVE Reports'
  <2>1. jobs'[j].config = entry /\ jobs'[j].ok = jobs[j].ok /\ ~failed BY <1>2, <1>5
  <2>2. jobs[j].ok BY <1>1, <2>1 DEF Reports, JobReports
  <2>3. JobReports(j)' BY <1>1, <1>2, <2>1, <2>2 DEF JobReports, At
  <2> QED BY <1>3, <1>4, <2>3, OneReports
<1> QED BY <1>4, <1>5

(* The screen starts a process when none is under way, or it was left too  *)
(* early.                                                                  *)
LEMMA StartsShown ==
  ASSUME JobTypes, ~overlapped, NEW j \in Jobs, NEW op \in {"status", "set", "remove"},
         NEW s \in Ssids, NEW n \in Versions, Starts(j, op, s, n),
         op = "set" => n # 0, ssid' = s, ~reopened'
  PROVE  OneJob' /\ Reports'
<1>1. /\ OnlyMoves(j) /\ jobs'[j].at = "load" /\ jobs'[j].op = op
      /\ jobs'[j].ssid = s /\ jobs'[j].n = n /\ jobs'[j].ok = TRUE
  BY StartsEffect
<1>2. \A i \in Jobs \ {j} : ~UnderWay(i) BY DEF Starts, UnderWay
<1>3. ~overlapped' /\ busy' = TRUE BY <1>2 DEF Starts, UnderWay
<1>4. UnderWay(j)' /\ \A i \in Jobs \ {j} : ~UnderWay(i)'
  BY <1>1, <1>2 DEF UnderWay, OnlyMoves
<1>5. \A i \in Jobs : JobInView(i)' BY <1>1, <1>4 DEF JobInView
<1>6. OneJob' BY <1>3, <1>4, <1>5 DEF OneJob, Idle
<1>7. JobReports(j)' BY <1>1 DEF JobReports, At
<1> QED BY <1>4, <1>6, <1>7, OneReports

LEMMA TapsShown ==
  ASSUME IInv, ~overlapped, NEW j \in Jobs,
         Foreground(j) \/ TapSave(j) \/ TapRevert(j), ~reopened'
  PROVE  OneJob' /\ Reports'
<1>1. CASE Foreground(j)
  <2>1. assoc \in Ssids /\ ssid' = assoc /\ Starts(j, "status", assoc, 0)
    BY <1>1 DEF Foreground, IInv, FileTypes
  <2> QED BY <2>1, StartsShown, Constants DEF IInv
<1>2. CASE TapSave(j)
  <2>1. saves + 1 \in Versions /\ saves + 1 # 0
    BY <1>2, StaticIpAssumption
    DEF IInv, FileTypes, TapSave, Versions, StaticIpAssumption
  <2>2. ssid \in Ssids /\ ssid' = ssid /\ Starts(j, "set", ssid, saves + 1)
    BY <1>2 DEF TapSave, IInv, Aimed
  <2> QED BY <2>1, <2>2, StartsShown DEF IInv
<1>3. CASE TapRevert(j)
  <2>1. ssid \in Ssids /\ ssid' = ssid /\ Starts(j, "remove", ssid, 0)
    BY <1>3 DEF TapRevert, IInv, Aimed
  <2> QED BY <2>1, StartsShown, Constants DEF IInv
<1> QED BY <1>1, <1>2, <1>3

(* The one process is gone, and the screen shows what it found.            *)
LEMMA DoneShown ==
  ASSUME JobTypes, OneJob, NEW j \in Jobs, UnderWay(j),
         jobs' = [jobs EXCEPT ![j] = Off], busy' = FALSE,
         UNCHANGED <<overlapped, ssid>>, ~failed' => ScreenTells'
  PROVE  OneJob' /\ (~failed' => Reports')
<1>1. OnlyMoves(j) /\ jobs'[j].at = "off" /\ jobs'[j].op = "status" BY OffEffect
<1>2. \A i \in Jobs : ~UnderWay(i)' BY <1>1 DEF OneJob, OnlyMoves, UnderWay
<1>3. OneJob' BY <1>2 DEF OneJob, Idle, JobInView
<1>4. \A i \in Jobs : JobReports(i)' BY <1>2 DEF JobReports, UnderWay, At
<1> QED BY <1>3, <1>4 DEF Reports

LEMMA SetDoneShown ==
  ASSUME IInv, OneJob, ~failed => Reports, NEW j \in Jobs, SetDone(j)
  PROVE  OneJob' /\ (~failed' => Reports')
<1>1. /\ UnderWay(j) /\ At(j, "set", "exit") /\ jobs' = [jobs EXCEPT ![j] = Off]
      /\ busy' = FALSE
      /\ UNCHANGED <<overlapped, ssid, failed, entry, iface, daemon, roams>>
  BY DEF SetDone, At, UnderWay, disk, wlan0, history, counts
<1>2. ASSUME ~failed' PROVE ScreenTells'
  <2>1. JobReports(j) BY <1>1, <1>2 DEF Reports
  <2>2. jobs[j].ok /\ entry[ssid] # 0 /\ (roams = 0 => InForce(ssid))
    BY <1>1, <2>1 DEF JobReports
  <2>3. hasStatic' BY <2>2 DEF SetDone
  <2>4. entry'[ssid'] # 0 /\ (roams' = 0 => InForce(ssid)')
    BY <1>1, <2>2 DEF InForce
  <2> QED BY <2>3, <2>4 DEF ScreenTells
<1> QED BY <1>1, <1>2, DoneShown DEF IInv

LEMMA RemoveDoneShown ==
  ASSUME IInv, OneJob, ~failed => Reports, NEW j \in Jobs, RemoveDone(j), ~reopened'
  PROVE  OneJob' /\ (~failed' => Reports')
<1>1. UnderWay(j) /\ UNCHANGED <<ssid, failed>>
  BY DEF RemoveDone, At, UnderWay
<1>2. CASE jobs[j].ok
  <2>1. ssid \in Ssids /\ Starts(j, "status", ssid, 0)
    BY <1>1, <1>2 DEF RemoveDone, IInv, Aimed
  <2> QED BY <1>1, <2>1, StartsShown, Constants DEF IInv, OneJob
<1>3. CASE ~jobs[j].ok
  <2>1. jobs' = [jobs EXCEPT ![j] = Off] /\ busy' = FALSE /\ UNCHANGED overlapped
    BY <1>3 DEF RemoveDone
  <2>2. failed BY <1>1, <1>3 DEF Reports, JobReports
  <2> QED BY <1>1, <2>1, <2>2, DoneShown DEF IInv
<1> QED BY <1>2, <1>3

LEMMA StatusDoneShown ==
  ASSUME IInv, OneJob, ~failed => Reports, NEW j \in Jobs, StatusDone(j)
  PROVE  OneJob' /\ (~failed' => Reports')
<1>1. /\ UnderWay(j) /\ At(j, "status", "exit") /\ jobs' = [jobs EXCEPT ![j] = Off]
      /\ busy' = FALSE /\ label' = "state"
      /\ UNCHANGED <<overlapped, ssid, failed, entry>>
  BY DEF StatusDone, At, UnderWay, disk, history
<1>2. ASSUME ~failed' PROVE ScreenTells'
  <2>1. JobReports(j) /\ jobs[j].ssid = ssid
    BY <1>1, <1>2 DEF Reports, OneJob, JobInView
  <2>2. jobs[j].ok /\ jobs[j].config[jobs[j].ssid] = entry[ssid]
    BY <1>1, <2>1 DEF JobReports
  <2>3. hasStatic' <=> jobs[j].ok /\ jobs[j].config[jobs[j].ssid] # 0
    BY DEF StatusDone
  <2>4. hasStatic' <=> entry'[ssid'] # 0 BY <1>1, <2>2, <2>3
  <2> QED BY <1>1, <2>4 DEF ScreenTells
<1> QED BY <1>1, <1>2, DoneShown DEF IInv

(* Around it: a udhcpc that binds finds no entry in force, a roam lifts    *)
(* the promise, and after a power loss nothing is on the screen.           *)
LEMMA AroundShown ==
  ASSUME OneJob, ~failed => Reports, roams \in Nat,
         TapBack \/ Bind \/ Roam \/ Boot \/ UNCHANGED vars
  PROVE  OneJob' /\ (~failed' => Reports')
<1>1. CASE Boot
  <2>1. /\ jobs' = [i \in Jobs |-> Off] /\ ssid' = None /\ busy' = FALSE
        /\ UNCHANGED overlapped
    BY <1>1 DEF Boot
  <2>2. \A i \in Jobs : ~UnderWay(i)' BY <2>1, OffIsAJob DEF UnderWay
  <2>3. OneJob' BY <2>1, <2>2 DEF OneJob, Idle, JobInView
  <2>4. \A i \in Jobs : JobReports(i)' BY <2>2 DEF JobReports, UnderWay, At
  <2> QED BY <2>1, <2>3, <2>4 DEF Reports
<1>2. CASE TapBack \/ Bind \/ Roam \/ UNCHANGED vars
  <2>1. UNCHANGED <<jobs, ssid, busy, overlapped, failed, entry, hasStatic, label>>
    BY <1>2 DEF TapBack, Bind, Roam, vars, disk, panel, history
  <2>2. OneJob'
    <3>1. Idle' <=> Idle BY <2>1 DEF Idle, UnderWay
    <3>2. busy' <=> ~Idle'
      <4>1. busy' = busy BY <2>1
      <4> QED BY <3>1, <4>1 DEF OneJob
    <3> QED BY <2>1, <3>2 DEF OneJob, JobInView, UnderWay
  <2>3. ASSUME roams' = 0, InForce(ssid) PROVE roams = 0 /\ InForce(ssid)'
    BY <1>2, <2>1, <2>3 DEF TapBack, Bind, Roam, vars, wlan0, InForce, history, counts
  <2>4. roams' = 0 => roams = 0
    BY <1>2 DEF TapBack, Bind, Roam, vars, history, counts
  <2>5. ASSUME ~failed' PROVE Reports'
    <3>1. Reports BY <2>1, <2>5
    <3>2. \A i \in Jobs : JobReports(i)'
      BY <2>1, <2>3, <2>4, <3>1 DEF Reports, JobReports, At, UnderWay
    <3>3. (Idle /\ ssid # None)' => ScreenTells
      BY <2>1, <3>1 DEF Reports, Idle, UnderWay
    <3>4. ScreenTells => ScreenTells' BY <2>1, <2>3, <2>4 DEF ScreenTells
    <3> QED BY <3>2, <3>3, <3>4 DEF Reports
  <2> QED BY <2>2, <2>5
<1> QED BY <1>1, <1>2

(* A visit that began too early is not forgotten.                          *)
LEMMA ReopeningLasts == ASSUME [Next]_vars PROVE reopened => reopened'
<1>1. \/ UNCHANGED reopened
      \/ \E j \in Jobs : \E op, s, n : Starts(j, op, s, n)
  <2>1. CASE \E j \in Jobs : BackEnd(j)
    BY <2>1 DEF BackEnd, SetLoads, RemoveLoads, SaveConfig, CheckSsid,
      SnapshotDhcpState, ApplyStatic, Revert, TryFreshLease, Offer, Watch,
      ReadStatus, history
  <2>2. CASE \E j \in Jobs : Screen(j) \/ Foreground(j) \/ TapSave(j) \/ TapRevert(j)
    BY <2>2 DEF Screen, SetDone, RemoveDone, StatusDone, Foreground, TapSave,
      TapRevert, history
  <2>3. CASE TapBack \/ Bind \/ Roam \/ Boot \/ UNCHANGED vars
    BY <2>3 DEF TapBack, Bind, Roam, Boot, vars, history
  <2> QED BY <2>1, <2>2, <2>3 DEF Next
<1>2. ASSUME NEW j \in Jobs, NEW op, NEW s, NEW n, Starts(j, op, s, n)
      PROVE  reopened => reopened'
  BY <1>2 DEF Starts
<1> QED BY <1>1, <1>2

LEMMA BackEndShown ==
  ASSUME IInv, HomeInv, Owns, OneJob, ~failed => Reports, NEW j \in Jobs, BackEnd(j)
  PROVE  OneJob' /\ (~failed' => Reports')
BY LoadsShown, CheckSsidShown, GoesOnShown, ApplyStaticShown, RevertShown,
   LastStepsShown, ReadStatusShown DEF BackEnd

LEMMA InitShown == Init => Shown
<1> SUFFICES ASSUME Init PROVE Shown OBVIOUS
<1>1. /\ jobs = [j \in Jobs |-> Off] /\ ssid = None /\ busy = FALSE
      /\ overlapped = FALSE
  BY DEF Init
<1>2. \A i \in Jobs : ~UnderWay(i) BY <1>1, OffIsAJob DEF UnderWay
<1>3. OneJob BY <1>1, <1>2 DEF OneJob, Idle, JobInView
<1>4. \A i \in Jobs : JobReports(i) BY <1>2 DEF JobReports, UnderWay, At
<1> QED BY <1>1, <1>3, <1>4 DEF Shown, Reports

LEMMA NextShown ==
  ASSUME IInv, HomeInv, OwnInv, Shown, [Next]_vars PROVE Shown'
<1> SUFFICES ASSUME ~reopened' PROVE OneJob' /\ (~failed' => Reports') BY DEF Shown
<1>1. OneJob /\ (~failed => Reports) BY ReopeningLasts DEF Shown
<1>2. ~overlapped /\ Owns BY <1>1 DEF OneJob, OwnInv
<1>3. CASE \E j \in Jobs : BackEnd(j) BY <1>1, <1>2, <1>3, BackEndShown
<1>4. CASE \E j \in Jobs : Screen(j)
  BY <1>1, <1>4, SetDoneShown, RemoveDoneShown, StatusDoneShown DEF Screen
<1>5. CASE \E j \in Jobs : Foreground(j) \/ TapSave(j) \/ TapRevert(j)
  BY <1>2, <1>5, TapsShown
<1>6. CASE TapBack \/ Bind \/ Roam \/ Boot \/ UNCHANGED vars
  BY <1>1, <1>6, AroundShown DEF HomeInv
<1> QED BY <1>3, <1>4, <1>5, <1>6 DEF Next

(* However many networks, processes, roams and power losses: once it is    *)
(* not busy the screen offers to revert what the file has, and says that   *)
(* an address was applied if it is in force, but for what                  *)
(* OnlyReopeningMisleads names (static_ip_panel.cpp:393-462, 527-543).     *)
THEOREM ScreenIsRight == Spec => []OnlyReopeningMisleads
<1>1. ASSUME IInv, Shown PROVE OnlyReopeningMisleads
  <2>1. SUFFICES ASSUME front, ~reopened
        PROVE /\ busy <=> \E j \in Jobs : jobs[j].at # "off"
              /\ ~busy /\ ~failed => ScreenTells
    BY DEF OnlyReopeningMisleads, ScreenTells, InForce
  <2>2. OneJob /\ (~failed => Reports) BY <1>1, <2>1 DEF Shown
  <2>3. ssid # None
    BY <1>1, <2>1, StaticIpAssumption DEF IInv, Aimed, StaticIpAssumption
  <2>4. Idle <=> ~\E j \in Jobs : jobs[j].at # "off" BY DEF Idle, UnderWay
  <2> QED BY <2>2, <2>3, <2>4 DEF OneJob, Reports
<1>2. Spec => []Shown
  BY InitShown, NextShown, Inductive, HomeHolds, OwnHolds, PTL DEF Spec
<1> QED BY <1>1, <1>2, Inductive, PTL
=============================================================================
