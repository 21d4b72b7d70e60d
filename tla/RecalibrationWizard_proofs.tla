---------------------- MODULE RecalibrationWizard_proofs ----------------------
(***************************************************************************)
(* For any number of runs, scripts under way and losses of the websocket:  *)
(* a manual probe stays on the screen and printer.cfg holds what the       *)
(* screen said, but for the races the two properties name.  Both rest on   *)
(* the order of Klipper's queue and of the lines it has sent: what a stage *)
(* waits for is the last thing that was sent, so that a stage which is     *)
(* left for the next one has nothing of its own, nor of an earlier run,    *)
(* still to come.                                                          *)
(***************************************************************************)
EXTENDS RecalibrationWizard, TLAPS

Ticks == {"probing", "idle"}
Ends  == {"ACCEPT", "ABORT"}

Holds(script) == \E i \in DOMAIN queue : queue[i] = script
OnWire(line)  == \E i \in DOMAIN wire : wire[i] = line
Only(scripts) == \A i \in DOMAIN queue : queue[i] \in scripts
OnlyTicks     == \A i \in DOMAIN wire : wire[i] \in Ticks
Here(s)       == front /\ stage = s

(* What a stage keeps as long as it is on the screen.                      *)
Stays ==
  /\ stage \in {"ZOFFSET", "MESH", "SENSOR_RUNNING"} => front /\ active
  /\ stepActive => stage = "SENSOR_RUNNING"
  /\ front /\ stage # "INTRO" => outcome = "none"
  /\ stage = "SENSOR_RUNNING" => backedUp
  /\ stage \in {"SENSOR_RUNNING", "SENSOR_CHOICE"} \/ backedUp =>
       backup \in Config

-----------------------------------------------------------------------------
(* Sequences *)

LEMMA TailAt ==
  ASSUME NEW S, NEW s \in Seq(S), s # <<>>
  PROVE  /\ Tail(s) \in Seq(S) /\ Len(Tail(s)) = Len(s) - 1
         /\ Len(s) > 0 /\ Head(s) = s[1] /\ s[1] \in S
         /\ \A i \in DOMAIN Tail(s) : i + 1 \in DOMAIN s /\ Tail(s)[i] = s[i + 1]
         /\ DOMAIN s = 1..Len(s) /\ DOMAIN Tail(s) = 1..(Len(s) - 1)
OBVIOUS

LEMMA AppendAt ==
  ASSUME NEW S, NEW s \in Seq(S), NEW e \in S
  PROVE  /\ Append(s, e) \in Seq(S) /\ Append(s, e) # <<>>
         /\ Len(Append(s, e)) = Len(s) + 1
         /\ DOMAIN s = 1..Len(s) /\ DOMAIN Append(s, e) = 1..(Len(s) + 1)
         /\ \A i \in DOMAIN s : Append(s, e)[i] = s[i]
         /\ Append(s, e)[Len(s) + 1] = e
OBVIOUS

LEMMA OneMore ==
  ASSUME NEW S, NEW s \in Seq(S), NEW e \in S
  PROVE  s \o <<e>> = Append(s, e)
OBVIOUS

LEMMA TwoMore ==
  ASSUME NEW S, NEW s \in Seq(S), NEW e \in S, NEW f \in S
  PROVE  s \o <<e, f>> = Append(Append(s, e), f)
OBVIOUS

LEMMA EmptySeq ==
  ASSUME NEW S, NEW s \in Seq(S), s = <<>>
  PROVE  DOMAIN s = {} /\ Len(s) = 0
OBVIOUS

(* One script less, the first one.                                         *)
Shorter == /\ queue # <<>> /\ DOMAIN queue = 1..Len(queue) /\ Len(queue) \in Nat \ {0}
           /\ Len(queue') = Len(queue) - 1 /\ DOMAIN queue' = 1..Len(queue')
           /\ \A i \in DOMAIN queue' : i + 1 \in DOMAIN queue /\ queue'[i] = queue[i + 1]

LEMMA FinishShortens ==
  ASSUME TypeOK, queue # <<>>, queue' = Tail(queue)
  PROVE  Shorter /\ queue' \in Seq(Scripts) /\ Head(queue) = queue[1]
BY TailAt DEF TypeOK, Shorter

LEMMA RunsFirst ==
  ASSUME TypeOK, NEW script, Runs(script)
  PROVE  /\ klippy = "up" /\ queue # <<>> /\ queue[1] = script
         /\ 1 \in DOMAIN queue /\ Head(queue) = script
BY TailAt DEF TypeOK, Runs

(* Lines are told at the end of the wire.                                  *)
Grows(line) == /\ Len(wire') = Len(wire) + 1 /\ Len(wire) \in Nat
               /\ DOMAIN wire = 1..Len(wire) /\ DOMAIN wire' = 1..Len(wire')
               /\ wire' # <<>>
               /\ \A i \in DOMAIN wire : wire'[i] = wire[i]
               /\ wire'[Len(wire')] = line

LEMMA TellGrows ==
  ASSUME TypeOK, NEW line \in Lines, Tell(line)
  PROVE  wire' \in Seq(Lines) /\ (wire' = wire \/ (connected /\ Grows(line)))
<1>1. wire \in Seq(Lines) BY DEF TypeOK
<1>2. CASE wire' = wire BY <1>1, <1>2
<1>3. CASE connected /\ wire' = Append(wire, line)
  <2>1. /\ wire' \in Seq(Lines) /\ wire' # <<>> /\ Len(wire') = Len(wire) + 1
        /\ DOMAIN wire = 1..Len(wire) /\ DOMAIN wire' = 1..(Len(wire) + 1)
        /\ \A i \in DOMAIN wire : wire'[i] = wire[i]
        /\ wire'[Len(wire) + 1] = line
    BY <1>1, <1>3, AppendAt
  <2>2. Len(wire) \in Nat BY <1>1
  <2>3. Grows(line) BY <2>1, <2>2 DEF Grows
  <2> QED BY <1>3, <2>1, <2>3
<1> QED BY <1>2, <1>3 DEF Tell

(* A line is heard at the front.                                           *)
Shrinks == /\ wire # <<>> /\ DOMAIN wire = 1..Len(wire) /\ Len(wire) \in Nat \ {0}
           /\ Len(wire') = Len(wire) - 1 /\ DOMAIN wire' = 1..Len(wire')
           /\ \A i \in DOMAIN wire' : i + 1 \in DOMAIN wire /\ wire'[i] = wire[i + 1]

LEMMA HearShrinks ==
  ASSUME TypeOK, NEW line, Received(line)
  PROVE  /\ Shrinks /\ wire' \in Seq(Lines) /\ Head(wire) = line
         /\ wire[1] = line /\ 1 \in DOMAIN wire
BY TailAt DEF TypeOK, Received, Shrinks

(* Scripts are sent to the end of the queue, or lost.                      *)
Adds(n) == /\ Len(queue') = Len(queue) + n /\ Len(queue) \in Nat
           /\ DOMAIN queue = 1..Len(queue) /\ DOMAIN queue' = 1..Len(queue')
           /\ \A i \in DOMAIN queue : queue'[i] = queue[i]

LEMMA SentOne ==
  ASSUME TypeOK, NEW script \in Scripts, Sent(<<script>>)
  PROVE  /\ queue' \in Seq(Scripts)
         /\ queue # <<>> => queue' # <<>> /\ Head(queue') = Head(queue)
         /\ \/ queue' = queue /\ ~(connected /\ klippy = "up")
            \/ Adds(1) /\ queue'[Len(queue')] = script /\ queue' # <<>>
<1>1. queue \in Seq(Scripts) BY DEF TypeOK
<1>2. CASE queue' = queue /\ ~(connected /\ klippy = "up") BY <1>1, <1>2
<1>3. CASE queue' = Append(queue, script)
  <2>1. /\ queue' \in Seq(Scripts) /\ queue' # <<>> /\ Len(queue') = Len(queue) + 1
        /\ DOMAIN queue = 1..Len(queue) /\ DOMAIN queue' = 1..(Len(queue) + 1)
        /\ \A i \in DOMAIN queue : queue'[i] = queue[i]
        /\ queue'[Len(queue) + 1] = script
    BY <1>1, <1>3, AppendAt
  <2>2. queue # <<>> => Head(queue') = Head(queue)
    BY <1>1, <2>1, TailAt
  <2> QED BY <1>1, <2>1, <2>2 DEF Adds
<1> QED BY <1>1, <1>2, <1>3, OneMore DEF Sent

LEMMA SentTwo ==
  ASSUME TypeOK, NEW s \in Scripts, NEW t \in Scripts, Sent(<<s, t>>)
  PROVE  /\ queue' \in Seq(Scripts)
         /\ queue # <<>> => queue' # <<>> /\ Head(queue') = Head(queue)
         /\ \/ queue' = queue /\ ~(connected /\ klippy = "up")
            \/ Adds(2) /\ queue'[Len(queue) + 1] = s /\ queue'[Len(queue) + 2] = t
<1>1. queue \in Seq(Scripts) BY DEF TypeOK
<1>2. CASE queue' = queue /\ ~(connected /\ klippy = "up") BY <1>1, <1>2
<1>3. CASE queue' = Append(Append(queue, s), t)
  <2> DEFINE q == Append(queue, s)
  <2>1. /\ q \in Seq(Scripts) /\ q # <<>> /\ Len(q) = Len(queue) + 1
        /\ DOMAIN queue = 1..Len(queue) /\ DOMAIN q = 1..(Len(queue) + 1)
        /\ \A i \in DOMAIN queue : q[i] = queue[i]
        /\ q[Len(queue) + 1] = s
    BY <1>1, AppendAt
  <2>2. queue' = Append(q, t) BY <1>3
  <2> HIDE DEF q
  <2>3. /\ queue' \in Seq(Scripts) /\ queue' # <<>> /\ Len(queue') = Len(q) + 1
        /\ DOMAIN queue' = 1..(Len(q) + 1)
        /\ \A i \in DOMAIN q : queue'[i] = q[i]
        /\ queue'[Len(q) + 1] = t
    BY <2>1, <2>2, AppendAt
  <2>4. Len(queue) \in Nat BY <1>1
  <2>5. queue # <<>> => Head(queue') = Head(queue)
    BY <1>1, <2>1, <2>3, <2>4, TailAt
  <2> QED BY <2>1, <2>3, <2>4, <2>5 DEF Adds
<1> QED BY <1>1, <1>2, <1>3, TwoMore DEF Sent

-----------------------------------------------------------------------------
(* The types, and what a stage keeps *)

QueueType == queue \in Seq(Scripts) /\ phase \in {"start", "wait", "saving", "hung"}
             /\ (phase # "start" => queue # <<>> /\ Head(queue) = "Z_OFFSET_CALIBRATION")
FileType == /\ cfg \in Config /\ before \in Config
            /\ backup \in Config \cup {Nothing} /\ pending \in Pending
WireType == wire \in Seq(Lines)
PanelType == /\ front \in BOOLEAN /\ active \in BOOLEAN /\ probeActive \in BOOLEAN
             /\ stepActive \in BOOLEAN /\ timer \in BOOLEAN /\ backedUp \in BOOLEAN
FlagType == /\ probing \in BOOLEAN /\ toldProbing \in BOOLEAN
            /\ connected \in BOOLEAN /\ hasty \in BOOLEAN
            /\ overlapped \in BOOLEAN /\ meshFailed \in BOOLEAN
            /\ savedElsewhere \in BOOLEAN /\ misheard \in BOOLEAN
OtherType == /\ klippy \in {"up", "down"} /\ stage \in Stages
             /\ drops \in 0..MaxDrops /\ runs \in 0..MaxRuns
             /\ outcome \in {"none", "back", "save", "paper", "sensor",
                             "discard", "failed"}

LEMMA TypeParts == TypeOK <=> /\ QueueType /\ FileType /\ WireType
                              /\ FlagType /\ PanelType /\ OtherType
BY DEF TypeOK, QueueType, FileType, WireType, FlagType, PanelType, OtherType

LEMMA TypePartsNext == TypeOK' <=> /\ QueueType' /\ FileType' /\ WireType'
                                   /\ FlagType' /\ PanelType' /\ OtherType'
BY DEF TypeOK, QueueType, FileType, WireType, FlagType, PanelType, OtherType

LEMMA HomingTypes == ASSUME TypeOK, Stays, Homing PROVE TypeOK' /\ Stays'
<1>1. queue' \in Seq(Scripts)
  BY RunsFirst, FinishShortens DEF Homing, Finish
<1>2. QueueType'
  BY <1>1, TypeParts DEF Homing, Finish, QueueType, files, klipper, link, probe,
    sensor, history
<1>3. FileType'
  BY <1>1, TypeParts DEF Homing, Finish, FileType, files, klipper, link, probe,
    sensor, history
<1>4. WireType'
  BY <1>1, TypeParts DEF Homing, Finish, WireType, files, klipper, link, probe,
    sensor, history
<1>5. FlagType'
  BY <1>1, TypeParts DEF Homing, Finish, FlagType, files, klipper, link, probe,
    sensor, history
<1>6. PanelType'
  BY <1>1, TypeParts DEF Homing, Finish, PanelType, files, klipper, link, probe,
    sensor, history
<1>7. OtherType'
  BY <1>1, TypeParts DEF Homing, Finish, OtherType, Stages, files, klipper, link,
    probe, sensor, history
<1>8. Stays'
  BY <1>1, TypeParts DEF Homing, Finish, Stays, OtherType, FileType, files,
    klipper, link, probe, sensor, history
<1> QED BY <1>2, <1>3, <1>4, <1>5, <1>6, <1>7, <1>8, TypePartsNext

LEMMA ProbeCalibrateTypes == ASSUME TypeOK, Stays, ProbeCalibrate PROVE TypeOK' /\ Stays'
<1>1. queue' \in Seq(Scripts)
  BY RunsFirst, FinishShortens DEF ProbeCalibrate, Finish
<1>2. QueueType'
  BY <1>1, TypeParts DEF ProbeCalibrate, Finish, QueueType, files, klipper, link,
    probe, sensor, history
<1>3. FileType'
  BY <1>1, TypeParts DEF ProbeCalibrate, Finish, FileType, files, klipper, link,
    probe, sensor, history
<1>4. WireType'
  BY <1>1, TypeParts DEF ProbeCalibrate, Finish, WireType, files, klipper, link,
    probe, sensor, history
<1>5. FlagType'
  BY <1>1, TypeParts DEF ProbeCalibrate, Finish, FlagType, files, klipper, link,
    probe, sensor, history
<1>6. PanelType'
  BY <1>1, TypeParts DEF ProbeCalibrate, Finish, PanelType, files, klipper, link,
    probe, sensor, history
<1>7. OtherType'
  BY <1>1, TypeParts DEF ProbeCalibrate, Finish, OtherType, Stages, files, klipper,
    link, probe, sensor, history
<1>8. Stays'
  BY <1>1, TypeParts DEF ProbeCalibrate, Finish, Stays, OtherType, FileType, files,
    klipper, link, probe, sensor, history
<1> QED BY <1>2, <1>3, <1>4, <1>5, <1>6, <1>7, <1>8, TypePartsNext

LEMMA EndProbeTypes == ASSUME TypeOK, Stays, EndProbe PROVE TypeOK' /\ Stays'
<1>1. queue' \in Seq(Scripts)
  BY RunsFirst, FinishShortens DEF EndProbe, Finish
<1>2. wire' \in Seq(Lines)
  BY TellGrows, TypeParts DEF EndProbe, WireType, Lines
<1>3. QueueType'
  BY <1>1, <1>2, TypeParts DEF EndProbe, Finish, Pending, QueueType, files,
    klipper, link, probe, sensor, history
<1>4. FileType'
  BY <1>1, <1>2, TypeParts DEF EndProbe, Finish, Pending, FileType, files, klipper,
    link, probe, sensor, history
<1>5. WireType'
  BY <1>1, <1>2, TypeParts DEF EndProbe, Finish, Pending, WireType, files, klipper,
    link, probe, sensor, history
<1>6. FlagType'
  BY <1>1, <1>2, TypeParts DEF EndProbe, Finish, Pending, FlagType, files, klipper,
    link, probe, sensor, history
<1>7. PanelType'
  BY <1>1, <1>2, TypeParts DEF EndProbe, Finish, Pending, PanelType, files,
    klipper, link, probe, sensor, history
<1>8. OtherType'
  BY <1>1, <1>2, TypeParts DEF EndProbe, Finish, Pending, OtherType, Stages, files,
    klipper, link, probe, sensor, history
<1>9. Stays'
  BY <1>1, <1>2, TypeParts DEF EndProbe, Finish, Pending, Stays, OtherType,
    FileType, files, klipper, link, probe, sensor, history
<1> QED BY <1>3, <1>4, <1>5, <1>6, <1>7, <1>8, <1>9, TypePartsNext

LEMMA BedMeshTypes == ASSUME TypeOK, Stays, BedMesh PROVE TypeOK' /\ Stays'
<1>1. queue' \in Seq(Scripts)
  BY RunsFirst, FinishShortens DEF BedMesh, Finish
<1>2. wire' \in Seq(Lines)
  BY TellGrows, TypeParts DEF BedMesh, WireType, Lines
<1>3. QueueType'
  BY <1>1, <1>2, TypeParts DEF BedMesh, Finish, Pending, QueueType, files, klipper,
    link, probe, sensor, history
<1>4. FileType'
  BY <1>1, <1>2, TypeParts DEF BedMesh, Finish, Pending, FileType, files, klipper,
    link, probe, sensor, history
<1>5. WireType'
  BY <1>1, <1>2, TypeParts DEF BedMesh, Finish, Pending, WireType, files, klipper,
    link, probe, sensor, history
<1>6. FlagType'
  BY <1>1, <1>2, TypeParts DEF BedMesh, Finish, Pending, FlagType, files, klipper,
    link, probe, sensor, history
<1>7. PanelType'
  BY <1>1, <1>2, TypeParts DEF BedMesh, Finish, Pending, PanelType, files, klipper,
    link, probe, sensor, history
<1>8. OtherType'
  BY <1>1, <1>2, TypeParts DEF BedMesh, Finish, Pending, OtherType, Stages, files,
    klipper, link, probe, sensor, history
<1>9. Stays'
  BY <1>1, <1>2, TypeParts DEF BedMesh, Finish, Pending, Stays, OtherType,
    FileType, files, klipper, link, probe, sensor, history
<1> QED BY <1>3, <1>4, <1>5, <1>6, <1>7, <1>8, <1>9, TypePartsNext

LEMMA SaveOrRestartTypes == ASSUME TypeOK, Stays, SaveOrRestart PROVE TypeOK' /\ Stays'
<1>1. cfg' \in Config
  BY TypeParts DEF SaveOrRestart, Saved, FileType, Config, Pending
<1>2. QueueType'
  BY <1>1, TypeParts DEF SaveOrRestart, Restart, Nothing, Pending, QueueType,
    files, klipper, link, probe, sensor, history
<1>3. FileType'
  BY <1>1, TypeParts DEF SaveOrRestart, Restart, Nothing, Pending, FileType, files,
    klipper, link, probe, sensor, history
<1>4. WireType'
  BY <1>1, TypeParts DEF SaveOrRestart, Restart, Nothing, Pending, WireType, files,
    klipper, link, probe, sensor, history
<1>5. FlagType'
  BY <1>1, TypeParts DEF SaveOrRestart, Restart, Nothing, Pending, FlagType, files,
    klipper, link, probe, sensor, history
<1>6. PanelType'
  BY <1>1, TypeParts DEF SaveOrRestart, Restart, Nothing, Pending, PanelType,
    files, klipper, link, probe, sensor, history
<1>7. OtherType'
  BY <1>1, TypeParts DEF SaveOrRestart, Restart, Nothing, Pending, OtherType,
    Stages, files, klipper, link, probe, sensor, history
<1>8. Stays'
  BY <1>1, TypeParts DEF SaveOrRestart, Restart, Nothing, Pending, Stays,
    OtherType, FileType, files, klipper, link, probe, sensor, history
<1> QED BY <1>2, <1>3, <1>4, <1>5, <1>6, <1>7, <1>8, TypePartsNext

LEMMA SensorMacroTypes == ASSUME TypeOK, Stays, SensorMacro PROVE TypeOK' /\ Stays'
<1>1. queue # <<>> /\ Head(queue) = "Z_OFFSET_CALIBRATION" BY DEF SensorMacro, Runs
<1>a. queue' \in Seq(Scripts)
  <2>1. queue \in Seq(Scripts) BY TypeParts DEF QueueType
  <2>2. queue' = queue \/ queue' = Tail(queue) \/ queue' = <<>>
    BY DEF SensorMacro, Finish, Restart
  <2>3. queue' = Tail(queue) => queue' \in Seq(Scripts) BY <1>1, FinishShortens
  <2>4. queue' = <<>> => queue' \in Seq(Scripts) OBVIOUS
  <2> QED BY <2>1, <2>2, <2>3, <2>4
<1>2. wire' \in Seq(Lines)
  BY TellGrows, TypeParts DEF SensorMacro, WireType, Lines
<1>3. cfg' \in Config
  BY TypeParts DEF SensorMacro, Saved, FileType, Config, Pending
<1>4. QueueType'
  BY <1>a, <1>1, <1>2, <1>3, TypeParts DEF SensorMacro, Finish, Restart, Nothing,
    Pending, QueueType, files, klipper, link, probe, sensor, history
<1>5. FileType'
  BY <1>a, <1>1, <1>2, <1>3, TypeParts DEF SensorMacro, Finish, Restart, Nothing,
    Pending, FileType, files, klipper, link, probe, sensor, history
<1>6. WireType'
  BY <1>a, <1>1, <1>2, <1>3, TypeParts DEF SensorMacro, Finish, Restart, Nothing,
    Pending, WireType, files, klipper, link, probe, sensor, history
<1>7. FlagType'
  BY <1>a, <1>1, <1>2, <1>3, TypeParts DEF SensorMacro, Finish, Restart, Nothing,
    Pending, FlagType, files, klipper, link, probe, sensor, history
<1>8. PanelType'
  BY <1>a, <1>1, <1>2, <1>3, TypeParts DEF SensorMacro, Finish, Restart, Nothing,
    Pending, PanelType, files, klipper, link, probe, sensor, history
<1>9. OtherType'
  BY <1>a, <1>1, <1>2, <1>3, TypeParts DEF SensorMacro, Finish, Restart, Nothing,
    Pending, OtherType, Stages, files, klipper, link, probe, sensor, history
<1>10. Stays'
  BY <1>a, <1>1, <1>2, <1>3, TypeParts DEF SensorMacro, Finish, Restart, Nothing,
    Pending, Stays, OtherType, FileType, files, klipper, link, probe, sensor,
    history
<1> QED BY <1>4, <1>5, <1>6, <1>7, <1>8, <1>9, <1>10, TypePartsNext

LEMMA KlippyUpTypes == ASSUME TypeOK, Stays, KlippyUp PROVE TypeOK' /\ Stays'
<1>1. QueueType'
  BY TypeParts DEF KlippyUp, QueueType, files, klipper, link, probe, sensor, history
<1>2. FileType'
  BY TypeParts DEF KlippyUp, FileType, files, klipper, link, probe, sensor, history
<1>3. WireType'
  BY TypeParts DEF KlippyUp, WireType, files, klipper, link, probe, sensor, history
<1>4. FlagType'
  BY TypeParts DEF KlippyUp, FlagType, files, klipper, link, probe, sensor, history
<1>5. PanelType'
  BY TypeParts DEF KlippyUp, PanelType, files, klipper, link, probe, sensor, history
<1>6. OtherType'
  BY TypeParts DEF KlippyUp, OtherType, Stages, files, klipper, link, probe,
    sensor, history
<1>7. Stays'
  BY TypeParts DEF KlippyUp, Stays, OtherType, FileType, files, klipper, link,
    probe, sensor, history
<1> QED BY <1>1, <1>2, <1>3, <1>4, <1>5, <1>6, <1>7, TypePartsNext

LEMMA StatusTickTypes == ASSUME TypeOK, Stays, StatusTick PROVE TypeOK' /\ Stays'
<1>1. wire' \in Seq(Lines)
  BY TellGrows, TypeParts DEF StatusTick, Lines
<1>2. QueueType'
  BY <1>1, TypeParts DEF StatusTick, QueueType, files, klipper, link, probe,
    sensor, history
<1>3. FileType'
  BY <1>1, TypeParts DEF StatusTick, FileType, files, klipper, link, probe, sensor,
    history
<1>4. WireType'
  BY <1>1, TypeParts DEF StatusTick, WireType, files, klipper, link, probe, sensor,
    history
<1>5. FlagType'
  BY <1>1, TypeParts DEF StatusTick, FlagType, files, klipper, link, probe, sensor,
    history
<1>6. PanelType'
  BY <1>1, TypeParts DEF StatusTick, PanelType, files, klipper, link, probe,
    sensor, history
<1>7. OtherType'
  BY <1>1, TypeParts DEF StatusTick, OtherType, Stages, files, klipper, link,
    probe, sensor, history
<1>8. Stays'
  BY <1>1, TypeParts DEF StatusTick, Stays, OtherType, FileType, files, klipper,
    link, probe, sensor, history
<1> QED BY <1>2, <1>3, <1>4, <1>5, <1>6, <1>7, <1>8, TypePartsNext

LEMMA DropTypes == ASSUME TypeOK, Stays, Drop PROVE TypeOK' /\ Stays'
<1>1. QueueType'
  BY TypeParts, WizardAssumption DEF Drop, QueueType, files, klipper, link, probe,
    sensor, history
<1>2. FileType'
  BY TypeParts, WizardAssumption DEF Drop, FileType, files, klipper, link, probe,
    sensor, history
<1>3. WireType'
  BY TypeParts, WizardAssumption DEF Drop, WireType, files, klipper, link, probe,
    sensor, history
<1>4. FlagType'
  BY TypeParts, WizardAssumption DEF Drop, FlagType, files, klipper, link, probe,
    sensor, history
<1>5. PanelType'
  BY TypeParts, WizardAssumption DEF Drop, PanelType, files, klipper, link, probe,
    sensor, history
<1>6. OtherType'
  BY TypeParts, WizardAssumption DEF Drop, OtherType, Stages, files, klipper, link,
    probe, sensor, history
<1>7. Stays'
  BY TypeParts DEF Drop, Stays, OtherType, FileType, files, klipper, link, probe,
    sensor, history
<1> QED BY <1>1, <1>2, <1>3, <1>4, <1>5, <1>6, <1>7, TypePartsNext

LEMMA ReconnectTypes == ASSUME TypeOK, Stays, Reconnect PROVE TypeOK' /\ Stays'
<1>1. QueueType'
  BY TypeParts DEF Reconnect, QueueType, files, klipper, link, probe, sensor,
    history
<1>2. FileType'
  BY TypeParts DEF Reconnect, FileType, files, klipper, link, probe, sensor, history
<1>3. WireType'
  BY TypeParts DEF Reconnect, WireType, files, klipper, link, probe, sensor, history
<1>4. FlagType'
  BY TypeParts DEF Reconnect, FlagType, files, klipper, link, probe, sensor, history
<1>5. PanelType'
  BY TypeParts DEF Reconnect, PanelType, files, klipper, link, probe, sensor,
    history
<1>6. OtherType'
  BY TypeParts DEF Reconnect, OtherType, Stages, files, klipper, link, probe,
    sensor, history
<1>7. Stays'
  BY TypeParts DEF Reconnect, Stays, OtherType, FileType, files, klipper, link,
    probe, sensor, history
<1> QED BY <1>1, <1>2, <1>3, <1>4, <1>5, <1>6, <1>7, TypePartsNext

LEMMA SaveElsewhereTypes == ASSUME TypeOK, Stays, SaveElsewhere PROVE TypeOK' /\ Stays'
<1>1. QueueType'
  BY TypeParts DEF SaveElsewhere, Scripts, QueueType, files, klipper, link, probe,
    sensor, history
<1>2. FileType'
  BY TypeParts DEF SaveElsewhere, Scripts, FileType, files, klipper, link, probe,
    sensor, history
<1>3. WireType'
  BY TypeParts DEF SaveElsewhere, Scripts, WireType, files, klipper, link, probe,
    sensor, history
<1>4. FlagType'
  BY TypeParts DEF SaveElsewhere, Scripts, FlagType, files, klipper, link, probe,
    sensor, history
<1>5. PanelType'
  BY TypeParts DEF SaveElsewhere, Scripts, PanelType, files, klipper, link, probe,
    sensor, history
<1>6. OtherType'
  BY TypeParts DEF SaveElsewhere, Scripts, OtherType, Stages, files, klipper, link,
    probe, sensor, history
<1>7. Stays'
  BY TypeParts DEF SaveElsewhere, Scripts, Stays, OtherType, FileType, files,
    klipper, link, probe, sensor, history
<1> QED BY <1>1, <1>2, <1>3, <1>4, <1>5, <1>6, <1>7, TypePartsNext

LEMMA HearProbeTypes == ASSUME TypeOK, Stays, HearProbe PROVE TypeOK' /\ Stays'
<1>1. wire' \in Seq(Lines) BY HearShrinks DEF HearProbe
<1>2. probeActive' \in BOOLEAN BY TypeParts DEF HearProbe, PanelType
<1>3. QueueType'
  BY <1>1, <1>2, TypeParts DEF HearProbe, QueueType, files, klipper, link, probe,
    sensor, history
<1>4. FileType'
  BY <1>1, <1>2, TypeParts DEF HearProbe, FileType, files, klipper, link, probe,
    sensor, history
<1>5. WireType'
  BY <1>1, <1>2, TypeParts DEF HearProbe, WireType, files, klipper, link, probe,
    sensor, history
<1>6. FlagType'
  BY <1>1, <1>2, TypeParts DEF HearProbe, FlagType, files, klipper, link, probe,
    sensor, history
<1>7. PanelType'
  BY <1>1, <1>2, TypeParts DEF HearProbe, PanelType, files, klipper, link, probe,
    sensor, history
<1>8. OtherType'
  BY <1>1, <1>2, TypeParts DEF HearProbe, OtherType, Stages, files, klipper, link,
    probe, sensor, history
<1>9. Stays'
  BY <1>1, <1>2, TypeParts DEF HearProbe, Stays, OtherType, FileType, files,
    klipper, link, probe, sensor, history
<1> QED BY <1>3, <1>4, <1>5, <1>6, <1>7, <1>8, <1>9, TypePartsNext

LEMMA HearAbortedTypes == ASSUME TypeOK, Stays, HearAborted PROVE TypeOK' /\ Stays'
<1>1. wire' \in Seq(Lines)
  BY HearShrinks DEF HearAborted
<1>2. QueueType'
  BY <1>1, TypeParts DEF HearAborted, QueueType, files, klipper, link, probe,
    sensor, history
<1>3. FileType'
  BY <1>1, TypeParts DEF HearAborted, FileType, files, klipper, link, probe,
    sensor, history
<1>4. WireType'
  BY <1>1, TypeParts DEF HearAborted, WireType, files, klipper, link, probe,
    sensor, history
<1>5. FlagType'
  BY <1>1, TypeParts DEF HearAborted, FlagType, files, klipper, link, probe,
    sensor, history
<1>6. PanelType'
  BY <1>1, TypeParts DEF HearAborted, PanelType, files, klipper, link, probe,
    sensor, history
<1>7. OtherType'
  BY <1>1, TypeParts DEF HearAborted, OtherType, Stages, files, klipper, link,
    probe, sensor, history
<1>8. Stays'
  BY <1>1, TypeParts DEF HearAborted, Stays, OtherType, FileType, files, klipper,
    link, probe, sensor, history
<1> QED BY <1>2, <1>3, <1>4, <1>5, <1>6, <1>7, <1>8, TypePartsNext

LEMMA HearZOffsetTypes == ASSUME TypeOK, Stays, HearZOffset PROVE TypeOK' /\ Stays'
<1>1. wire' \in Seq(Lines)
  BY HearShrinks DEF HearZOffset
<1>2. /\ queue' \in Seq(Scripts)
      /\ queue # <<>> => queue' # <<>> /\ Head(queue') = Head(queue)
  BY SentOne, TypeParts DEF HearZOffset, Scripts, sensor, QueueType
<1>3. QueueType'
  BY <1>1, <1>2, TypeParts DEF HearZOffset, QueueType, files, klipper, link, probe,
    sensor, history
<1>4. FileType'
  BY <1>1, <1>2, TypeParts DEF HearZOffset, FileType, files, klipper, link, probe,
    sensor, history
<1>5. WireType'
  BY <1>1, <1>2, TypeParts DEF HearZOffset, WireType, files, klipper, link, probe,
    sensor, history
<1>6. FlagType'
  BY <1>1, <1>2, TypeParts DEF HearZOffset, FlagType, files, klipper, link, probe,
    sensor, history
<1>7. PanelType'
  BY <1>1, <1>2, TypeParts DEF HearZOffset, PanelType, files, klipper, link, probe,
    sensor, history
<1>8. OtherType'
  BY <1>1, <1>2, TypeParts DEF HearZOffset, OtherType, Stages, files, klipper,
    link, probe, sensor, history
<1>9. Stays'
  BY <1>1, <1>2, TypeParts DEF HearZOffset, Stays, OtherType, FileType, files,
    klipper, link, probe, sensor, history
<1> QED BY <1>3, <1>4, <1>5, <1>6, <1>7, <1>8, <1>9, TypePartsNext

LEMMA HearMeshTypes == ASSUME TypeOK, Stays, HearMesh PROVE TypeOK' /\ Stays'
<1>1. wire' \in Seq(Lines)
  BY HearShrinks DEF HearMesh
<1>2. QueueType'
  BY <1>1, TypeParts DEF HearMesh, QueueType, files, klipper, link, probe, sensor,
    history
<1>3. FileType'
  BY <1>1, TypeParts DEF HearMesh, FileType, files, klipper, link, probe, sensor,
    history
<1>4. WireType'
  BY <1>1, TypeParts DEF HearMesh, WireType, files, klipper, link, probe, sensor,
    history
<1>5. FlagType'
  BY <1>1, TypeParts DEF HearMesh, FlagType, files, klipper, link, probe, sensor,
    history
<1>6. PanelType'
  BY <1>1, TypeParts DEF HearMesh, PanelType, files, klipper, link, probe, sensor,
    history
<1>7. OtherType'
  BY <1>1, TypeParts DEF HearMesh, OtherType, Stages, files, klipper, link, probe,
    sensor, history
<1>8. Stays'
  BY <1>1, TypeParts DEF HearMesh, Stays, OtherType, FileType, files, klipper,
    link, probe, sensor, history
<1> QED BY <1>2, <1>3, <1>4, <1>5, <1>6, <1>7, <1>8, TypePartsNext

LEMMA FailureTypes ==
  ASSUME TypeOK, Stays, stepActive \/ stage = "SENSOR_RUNNING", SensorRefineFailed
  PROVE  /\ queue' \in Seq(Scripts)
         /\ queue # <<>> => queue' # <<>> /\ Head(queue') = Head(queue)
         /\ cfg' \in Config
BY SentOne, TypeParts DEF SensorRefineFailed, Stays, FileType, QueueType, Scripts

LEMMA HearSensorErrorTypes == ASSUME TypeOK, Stays, HearSensorError PROVE TypeOK' /\ Stays'
<1>1. wire' \in Seq(Lines)
  BY HearShrinks DEF HearSensorError
<1>2. /\ queue' \in Seq(Scripts)
      /\ queue # <<>> => queue' # <<>> /\ Head(queue') = Head(queue)
      /\ cfg' \in Config
  BY FailureTypes, TypeParts DEF HearSensorError, QueueType, FileType
<1>3. QueueType'
  BY <1>1, <1>2, TypeParts DEF HearSensorError, SensorRefineFailed, Stages,
    QueueType, files, klipper, link, probe, sensor, history
<1>4. FileType'
  BY <1>1, <1>2, TypeParts DEF HearSensorError, SensorRefineFailed, Stages,
    FileType, files, klipper, link, probe, sensor, history
<1>5. WireType'
  BY <1>1, <1>2, TypeParts DEF HearSensorError, SensorRefineFailed, Stages,
    WireType, files, klipper, link, probe, sensor, history
<1>6. FlagType'
  BY <1>1, <1>2, TypeParts DEF HearSensorError, SensorRefineFailed, Stages,
    FlagType, files, klipper, link, probe, sensor, history
<1>7. PanelType'
  BY <1>1, <1>2, TypeParts DEF HearSensorError, SensorRefineFailed, Stages,
    PanelType, files, klipper, link, probe, sensor, history
<1>8. OtherType'
  BY <1>1, <1>2, TypeParts DEF HearSensorError, SensorRefineFailed, Stages,
    OtherType, Stages, files, klipper, link, probe, sensor, history
<1>9. Stays'
  BY <1>1, <1>2, TypeParts DEF HearSensorError, SensorRefineFailed, Stages, Stays,
    OtherType, FileType, files, klipper, link, probe, sensor, history
<1> QED BY <1>3, <1>4, <1>5, <1>6, <1>7, <1>8, <1>9, TypePartsNext

LEMMA SensorTimeoutTypes == ASSUME TypeOK, Stays, SensorTimeout PROVE TypeOK' /\ Stays'
<1>1. /\ queue' \in Seq(Scripts)
      /\ queue # <<>> => queue' # <<>> /\ Head(queue') = Head(queue)
      /\ cfg' \in Config
  BY FailureTypes, TypeParts DEF SensorTimeout, QueueType, FileType
<1>2. QueueType'
  BY <1>1, TypeParts DEF SensorTimeout, SensorRefineFailed, Stages, QueueType,
    files, klipper, link, probe, sensor, history
<1>3. FileType'
  BY <1>1, TypeParts DEF SensorTimeout, SensorRefineFailed, Stages, FileType,
    files, klipper, link, probe, sensor, history
<1>4. WireType'
  BY <1>1, TypeParts DEF SensorTimeout, SensorRefineFailed, Stages, WireType,
    files, klipper, link, probe, sensor, history
<1>5. FlagType'
  BY <1>1, TypeParts DEF SensorTimeout, SensorRefineFailed, Stages, FlagType,
    files, klipper, link, probe, sensor, history
<1>6. PanelType'
  BY <1>1, TypeParts DEF SensorTimeout, SensorRefineFailed, Stages, PanelType,
    files, klipper, link, probe, sensor, history
<1>7. OtherType'
  BY <1>1, TypeParts DEF SensorTimeout, SensorRefineFailed, Stages, OtherType,
    Stages, files, klipper, link, probe, sensor, history
<1>8. Stays'
  BY <1>1, TypeParts DEF SensorTimeout, SensorRefineFailed, Stages, Stays,
    OtherType, FileType, files, klipper, link, probe, sensor, history
<1> QED BY <1>2, <1>3, <1>4, <1>5, <1>6, <1>7, <1>8, TypePartsNext

LEMMA ForegroundTypes == ASSUME TypeOK, Stays, Foreground PROVE TypeOK' /\ Stays'
<1>1. QueueType'
  BY TypeParts DEF Foreground, QueueType, files, klipper, link, probe, sensor,
    history
<1>2. FileType'
  BY TypeParts DEF Foreground, FileType, files, klipper, link, probe, sensor,
    history
<1>3. WireType'
  BY TypeParts DEF Foreground, WireType, files, klipper, link, probe, sensor,
    history
<1>4. FlagType'
  BY TypeParts DEF Foreground, FlagType, files, klipper, link, probe, sensor,
    history
<1>5. PanelType'
  BY TypeParts DEF Foreground, PanelType, files, klipper, link, probe, sensor,
    history
<1>6. OtherType'
  BY TypeParts DEF Foreground, OtherType, Stages, files, klipper, link, probe,
    sensor, history
<1>7. Stays'
  BY TypeParts DEF Foreground, Stays, OtherType, FileType, files, klipper, link,
    probe, sensor, history
<1> QED BY <1>1, <1>2, <1>3, <1>4, <1>5, <1>6, <1>7, TypePartsNext

LEMMA TapIntroBackTypes == ASSUME TypeOK, Stays, TapIntroBack PROVE TypeOK' /\ Stays'
<1>1. QueueType'
  BY TypeParts DEF TapIntroBack, QueueType, files, klipper, link, probe, sensor,
    history
<1>2. FileType'
  BY TypeParts DEF TapIntroBack, FileType, files, klipper, link, probe, sensor,
    history
<1>3. WireType'
  BY TypeParts DEF TapIntroBack, WireType, files, klipper, link, probe, sensor,
    history
<1>4. FlagType'
  BY TypeParts DEF TapIntroBack, FlagType, files, klipper, link, probe, sensor,
    history
<1>5. PanelType'
  BY TypeParts DEF TapIntroBack, PanelType, files, klipper, link, probe, sensor,
    history
<1>6. OtherType'
  BY TypeParts DEF TapIntroBack, OtherType, Stages, files, klipper, link, probe,
    sensor, history
<1>7. Stays'
  BY TypeParts DEF TapIntroBack, Stays, OtherType, FileType, files, klipper, link,
    probe, sensor, history
<1> QED BY <1>1, <1>2, <1>3, <1>4, <1>5, <1>6, <1>7, TypePartsNext

LEMMA TapStartTypes == ASSUME TypeOK, Stays, TapStart PROVE TypeOK' /\ Stays'
<1>1. /\ queue' \in Seq(Scripts)
      /\ queue # <<>> => queue' # <<>> /\ Head(queue') = Head(queue)
  BY SentOne, SentTwo, TypeParts DEF TapStart, Scripts, QueueType
<1>2. runs' \in 0..MaxRuns BY WizardAssumption, TypeParts DEF TapStart, OtherType
<1>3. QueueType'
  BY <1>1, <1>2, TypeParts, WizardAssumption DEF TapStart, QueueType, files,
    klipper, link, probe, sensor, history
<1>4. FileType'
  BY <1>1, <1>2, TypeParts, WizardAssumption DEF TapStart, FileType, files,
    klipper, link, probe, sensor, history
<1>5. WireType'
  BY <1>1, <1>2, TypeParts, WizardAssumption DEF TapStart, WireType, files,
    klipper, link, probe, sensor, history
<1>6. FlagType'
  BY <1>1, <1>2, TypeParts, WizardAssumption DEF TapStart, FlagType, files,
    klipper, link, probe, sensor, history
<1>7. PanelType'
  BY <1>1, <1>2, TypeParts, WizardAssumption DEF TapStart, PanelType, files,
    klipper, link, probe, sensor, history
<1>8. OtherType'
  BY <1>1, <1>2, TypeParts, WizardAssumption DEF TapStart, OtherType, Stages,
    files, klipper, link, probe, sensor, history
<1>9. Stays'
  <2>1. front /\ stage = "INTRO" BY DEF TapStart, Tappable
  <2>2. /\ front' = front /\ stage' = "ZOFFSET" /\ active' = TRUE
        /\ stepActive' = stepActive /\ outcome' = "none"
        /\ backedUp' = backedUp /\ backup' = backup
    BY DEF TapStart, sensor, files
  <2> QED BY <2>1, <2>2 DEF Stays
<1> QED BY <1>3, <1>4, <1>5, <1>6, <1>7, <1>8, <1>9, TypePartsNext

LEMMA TapAcceptTypes == ASSUME TypeOK, Stays, TapAccept PROVE TypeOK' /\ Stays'
<1>1. /\ queue' \in Seq(Scripts)
      /\ queue # <<>> => queue' # <<>> /\ Head(queue') = Head(queue)
  BY SentOne, SentTwo, TypeParts DEF TapAccept, Scripts, QueueType
<1>2. QueueType'
  BY <1>1, TypeParts DEF TapAccept, QueueType, files, klipper, link, probe, sensor,
    history
<1>3. FileType'
  BY <1>1, TypeParts DEF TapAccept, FileType, files, klipper, link, probe, sensor,
    history
<1>4. WireType'
  BY <1>1, TypeParts DEF TapAccept, WireType, files, klipper, link, probe, sensor,
    history
<1>5. FlagType'
  BY <1>1, TypeParts DEF TapAccept, FlagType, files, klipper, link, probe, sensor,
    history
<1>6. PanelType'
  BY <1>1, TypeParts DEF TapAccept, PanelType, files, klipper, link, probe, sensor,
    history
<1>7. OtherType'
  BY <1>1, TypeParts DEF TapAccept, OtherType, Stages, files, klipper, link, probe,
    sensor, history
<1>8. Stays'
  BY <1>1, TypeParts DEF TapAccept, Stays, OtherType, FileType, files, klipper,
    link, probe, sensor, history
<1> QED BY <1>2, <1>3, <1>4, <1>5, <1>6, <1>7, <1>8, TypePartsNext

LEMMA TapAbortTypes == ASSUME TypeOK, Stays, TapAbort PROVE TypeOK' /\ Stays'
<1>1. /\ queue' \in Seq(Scripts)
      /\ queue # <<>> => queue' # <<>> /\ Head(queue') = Head(queue)
  BY SentOne, SentTwo, TypeParts DEF TapAbort, Scripts, QueueType
<1>2. QueueType'
  BY <1>1, TypeParts DEF TapAbort, QueueType, files, klipper, link, probe, sensor,
    history
<1>3. FileType'
  BY <1>1, TypeParts DEF TapAbort, FileType, files, klipper, link, probe, sensor,
    history
<1>4. WireType'
  BY <1>1, TypeParts DEF TapAbort, WireType, files, klipper, link, probe, sensor,
    history
<1>5. FlagType'
  BY <1>1, TypeParts DEF TapAbort, FlagType, files, klipper, link, probe, sensor,
    history
<1>6. PanelType'
  BY <1>1, TypeParts DEF TapAbort, PanelType, files, klipper, link, probe, sensor,
    history
<1>7. OtherType'
  BY <1>1, TypeParts DEF TapAbort, OtherType, Stages, files, klipper, link, probe,
    sensor, history
<1>8. Stays'
  BY <1>1, TypeParts DEF TapAbort, Stays, OtherType, FileType, files, klipper,
    link, probe, sensor, history
<1> QED BY <1>2, <1>3, <1>4, <1>5, <1>6, <1>7, <1>8, TypePartsNext

LEMMA TapSaveOrBackTypes == ASSUME TypeOK, Stays, TapSaveOrBack PROVE TypeOK' /\ Stays'
<1>1. /\ queue' \in Seq(Scripts)
      /\ queue # <<>> => queue' # <<>> /\ Head(queue') = Head(queue)
  BY SentOne, SentTwo, TypeParts DEF TapSaveOrBack, Scripts, QueueType
<1>2. QueueType'
  BY <1>1, TypeParts DEF TapSaveOrBack, QueueType, files, klipper, link, probe,
    sensor, history
<1>3. FileType'
  BY <1>1, TypeParts DEF TapSaveOrBack, FileType, files, klipper, link, probe,
    sensor, history
<1>4. WireType'
  BY <1>1, TypeParts DEF TapSaveOrBack, WireType, files, klipper, link, probe,
    sensor, history
<1>5. FlagType'
  BY <1>1, TypeParts DEF TapSaveOrBack, FlagType, files, klipper, link, probe,
    sensor, history
<1>6. PanelType'
  BY <1>1, TypeParts DEF TapSaveOrBack, PanelType, files, klipper, link, probe,
    sensor, history
<1>7. OtherType'
  BY <1>1, TypeParts DEF TapSaveOrBack, OtherType, Stages, files, klipper, link,
    probe, sensor, history
<1>8. Stays'
  BY <1>1, TypeParts DEF TapSaveOrBack, Stays, OtherType, FileType, files, klipper,
    link, probe, sensor, history
<1> QED BY <1>2, <1>3, <1>4, <1>5, <1>6, <1>7, <1>8, TypePartsNext

LEMMA TapRefineTypes == ASSUME TypeOK, Stays, TapRefine PROVE TypeOK' /\ Stays'
<1>1. /\ queue' \in Seq(Scripts)
      /\ queue # <<>> => queue' # <<>> /\ Head(queue') = Head(queue)
  BY SentOne, SentTwo, TypeParts DEF TapRefine, Scripts, QueueType
<1>2. QueueType'
  BY <1>1, TypeParts DEF TapRefine, QueueType, files, klipper, link, probe, sensor,
    history
<1>3. FileType'
  BY <1>1, TypeParts DEF TapRefine, FileType, files, klipper, link, probe, sensor,
    history
<1>4. WireType'
  BY <1>1, TypeParts DEF TapRefine, WireType, files, klipper, link, probe, sensor,
    history
<1>5. FlagType'
  BY <1>1, TypeParts DEF TapRefine, FlagType, files, klipper, link, probe, sensor,
    history
<1>6. PanelType'
  BY <1>1, TypeParts DEF TapRefine, PanelType, files, klipper, link, probe, sensor,
    history
<1>7. OtherType'
  BY <1>1, TypeParts DEF TapRefine, OtherType, Stages, files, klipper, link, probe,
    sensor, history
<1>8. Stays'
  <2>1. front /\ stage = "DONE" /\ cfg \in Config
    BY TypeParts DEF TapRefine, Tappable, FileType
  <2>2. /\ front' = front /\ stage' = "SENSOR_RUNNING" /\ active' = TRUE
        /\ stepActive' = TRUE /\ outcome' = outcome
        /\ backedUp' = TRUE /\ backup' = cfg
    BY DEF TapRefine, history
  <2> QED BY <2>1, <2>2 DEF Stays
<1> QED BY <1>2, <1>3, <1>4, <1>5, <1>6, <1>7, <1>8, TypePartsNext

LEMMA TapChoiceTypes == ASSUME TypeOK, Stays, TapChoice PROVE TypeOK' /\ Stays'
<1>1. /\ queue' \in Seq(Scripts)
      /\ queue # <<>> => queue' # <<>> /\ Head(queue') = Head(queue)
  BY SentOne, SentTwo, TypeParts DEF TapChoice, Scripts, QueueType
<1>2. cfg' \in Config BY TypeParts DEF TapChoice, Stays, FileType, Config
<1>3. hasty' \in BOOLEAN BY TypeParts DEF TapChoice, FlagType, MacroUnfinished
<1>4. QueueType'
  BY <1>1, <1>2, <1>3, TypeParts DEF TapChoice, QueueType, files, klipper, link,
    probe, sensor, history
<1>5. FileType'
  BY <1>1, <1>2, <1>3, TypeParts DEF TapChoice, FileType, files, klipper, link,
    probe, sensor, history
<1>6. WireType'
  BY <1>1, <1>2, <1>3, TypeParts DEF TapChoice, WireType, files, klipper, link,
    probe, sensor, history
<1>7. FlagType'
  BY <1>1, <1>2, <1>3, TypeParts DEF TapChoice, FlagType, files, klipper, link,
    probe, sensor, history
<1>8. PanelType'
  BY <1>1, <1>2, <1>3, TypeParts DEF TapChoice, PanelType, files, klipper, link,
    probe, sensor, history
<1>9. OtherType'
  BY <1>1, <1>2, <1>3, TypeParts DEF TapChoice, OtherType, Stages, files, klipper,
    link, probe, sensor, history
<1>10. Stays'
  BY <1>1, <1>2, <1>3, TypeParts DEF TapChoice, Stays, OtherType, FileType, files,
    klipper, link, probe, sensor, history
<1> QED BY <1>4, <1>5, <1>6, <1>7, <1>8, <1>9, <1>10, TypePartsNext

LEMMA NextTypes == ASSUME TypeOK, Stays, [Next]_vars PROVE TypeOK' /\ Stays'
<1>1. CASE Scripted
  BY <1>1, HomingTypes, ProbeCalibrateTypes, EndProbeTypes, BedMeshTypes,
    SaveOrRestartTypes, SensorMacroTypes DEF Scripted
<1>2. CASE KlippyUp \/ StatusTick \/ Drop \/ Reconnect \/ SaveElsewhere \/ SensorTimeout
  BY <1>2, KlippyUpTypes, StatusTickTypes, DropTypes, ReconnectTypes,
    SaveElsewhereTypes, SensorTimeoutTypes
<1>3. CASE Hear
  BY <1>3, HearProbeTypes, HearAbortedTypes, HearZOffsetTypes, HearMeshTypes,
    HearSensorErrorTypes DEF Hear
<1>4. CASE Taps
  BY <1>4, ForegroundTypes, TapIntroBackTypes, TapStartTypes, TapAcceptTypes,
    TapAbortTypes, TapSaveOrBackTypes, TapRefineTypes, TapChoiceTypes DEF Taps
<1>5. CASE UNCHANGED vars
  BY <1>5 DEF vars, TypeOK, Stays
<1> QED BY <1>1, <1>2, <1>3, <1>4, <1>5 DEF Next

LEMMA InitTypes == Init => TypeOK /\ Stays
<1> SUFFICES ASSUME Init PROVE TypeOK /\ Stays OBVIOUS
<1>1. QueueType BY DEF Init, QueueType
<1>2. FileType
  <2>1. cfg \in Config /\ before = cfg BY DEF Init, Config
  <2>2. backup = Nothing /\ pending \in Pending BY DEF Init, Nothing, Pending
  <2> QED BY <2>1, <2>2 DEF FileType
<1>3. WireType
  <2>1. wire = <<>> BY DEF Init
  <2> QED BY <2>1 DEF WireType
<1>4. OtherType BY WizardAssumption DEF Init, OtherType, Stages
<1>5. Stays BY DEF Init, Stays
<1>6. FlagType /\ PanelType BY DEF Init, FlagType, PanelType
<1> QED BY <1>1, <1>2, <1>3, <1>4, <1>5, <1>6, TypeParts

(* Every variable keeps to its type.                                       *)
THEOREM TypeCorrect == Spec => [](TypeOK /\ Stays)
BY InitTypes, NextTypes, PTL DEF Spec

-----------------------------------------------------------------------------
(* The manual probe: as long as nothing was started over an earlier run    *)
(* and the connection held, the queue from PROBE_CALIBRATE on, the probe   *)
(* and the lines it causes belong to the stage with its buttons, or Accept *)
(* or Abort waits in the queue to end it.                                  *)

Clean == ~overlapped /\ drops = 0
Busy  == probing \/ Holds("PROBE_CALIBRATE")

(* While it is to come, it is first or right after the homing, and nothing *)
(* but its end follows.                                                    *)
ComesFirst ==
  \A i \in DOMAIN queue : queue[i] = "PROBE_CALIBRATE" =>
    /\ ~probing /\ ~probeActive /\ ~OnWire("probing")
    /\ i = 1 => ~toldProbing
    /\ i = 1 \/ (i = 2 /\ queue[1] = "G28")
    /\ \A j \in DOMAIN queue : j > i => queue[j] \in Ends

(* The last status line says what was told last.                           *)
LastLine ==
  /\ wire = <<>> => (probeActive <=> toldProbing)
  /\ wire # <<>> => wire[Len(wire)] = IF toldProbing THEN "probing" ELSE "idle"

ProbeInv == Clean =>
  /\ connected
  /\ Busy => stage \in {"INTRO", "ZOFFSET"} /\ OnlyTicks
  /\ Busy => Holds("ACCEPT") \/ Holds("ABORT") \/ stage = "ZOFFSET"
  /\ ComesFirst
  /\ probing => Only(Ends)
  /\ probing /\ stage = "ZOFFSET" => LastLine

LEMMA HomingKeepsIdle == ASSUME TypeOK, ~Busy, Homing PROVE ~Busy'
<1>1. Shorter
  BY FinishShortens DEF Homing, Runs, Finish
<1>2. probing' = probing \/ ~probing' BY DEF Homing
<1> QED BY <1>1, <1>2 DEF Busy, Holds, Shorter

LEMMA EndProbeKeepsIdle == ASSUME TypeOK, ~Busy, EndProbe PROVE ~Busy'
<1>1. Shorter
  BY FinishShortens DEF EndProbe, Runs, Finish
<1>2. probing' = probing \/ ~probing' BY DEF EndProbe
<1> QED BY <1>1, <1>2 DEF Busy, Holds, Shorter

LEMMA BedMeshKeepsIdle == ASSUME TypeOK, ~Busy, BedMesh PROVE ~Busy'
<1>1. Shorter
  BY FinishShortens DEF BedMesh, Runs, Finish
<1>2. probing' = probing \/ ~probing' BY DEF BedMesh
<1> QED BY <1>1, <1>2 DEF Busy, Holds, Shorter

LEMMA SaveOrRestartKeepsIdle == ASSUME TypeOK, ~Busy, SaveOrRestart PROVE ~Busy'
BY DEF SaveOrRestart, Restart, Busy, Holds

LEMMA SensorMacroKeepsIdle == ASSUME TypeOK, ~Busy, SensorMacro PROVE ~Busy'
<1>1. queue # <<>> BY DEF SensorMacro, Runs
<1>2. \/ queue' = queue /\ probing' = probing
      \/ queue' = Tail(queue) /\ probing' = probing
      \/ queue' = <<>> /\ ~probing'
  BY DEF SensorMacro, Finish, Restart
<1>3. CASE queue' = Tail(queue) /\ probing' = probing
  BY <1>1, <1>3, FinishShortens DEF Busy, Holds, Shorter
<1> QED BY <1>2, <1>3 DEF Busy, Holds

LEMMA OthersKeepIdle ==
  ASSUME TypeOK, ~Busy,
         \/ KlippyUp \/ StatusTick \/ Drop \/ Reconnect \/ SaveElsewhere \/ HearProbe
         \/ HearAborted \/ HearMesh \/ Foreground \/ TapIntroBack \/ UNCHANGED vars
  PROVE  ~Busy'
<1>1. CASE SaveElsewhere
  BY <1>1 DEF SaveElsewhere, Busy, Holds
<1>2. CASE ~SaveElsewhere
  <2>1. queue' = queue /\ probing' = probing
    BY <1>2 DEF KlippyUp, StatusTick, Drop, Reconnect, HearProbe, HearAborted,
      HearMesh, Foreground, TapIntroBack, klipper, vars
  <2> QED BY <2>1 DEF Busy, Holds
<1> QED BY <1>1, <1>2

LEMMA SendingKeepsIdle ==
  ASSUME TypeOK, ~Busy,
         HearZOffset \/ HearSensorError \/ SensorTimeout \/ TapAccept \/ TapAbort
           \/ TapSaveOrBack \/ TapRefine \/ TapChoice
  PROVE  ~Busy'
<1>1. probing' = probing
  BY DEF HearZOffset, HearSensorError, SensorTimeout, TapAccept, TapAbort,
    TapSaveOrBack, TapRefine, TapChoice
<1>2. \/ queue' = queue
      \/ \E s \in Scripts \ {"PROBE_CALIBRATE"} : Sent(<<s>>)
      \/ Sent(<<"G28", "Z_OFFSET_CALIBRATION">>)
  BY DEF HearZOffset, HearSensorError, SensorTimeout, TapAccept, TapAbort,
    TapSaveOrBack, TapRefine, TapChoice, SensorRefineFailed, Scripts
<1>3. CASE queue' = queue BY <1>1, <1>3 DEF Busy, Holds
<1>4. ASSUME NEW s \in Scripts \ {"PROBE_CALIBRATE"}, Sent(<<s>>) PROVE ~Busy'
  <2>1. queue' = queue \/ (Adds(1) /\ queue'[Len(queue')] = s) BY <1>4, SentOne
  <2> QED BY <1>1, <1>4, <2>1 DEF Busy, Holds, Adds
<1>5. CASE Sent(<<"G28", "Z_OFFSET_CALIBRATION">>)
  <2>1. \/ queue' = queue
        \/ /\ Adds(2) /\ queue'[Len(queue) + 1] = "G28"
           /\ queue'[Len(queue) + 2] = "Z_OFFSET_CALIBRATION"
    BY <1>5, SentTwo DEF Scripts
  <2> QED BY <1>1, <2>1 DEF Busy, Holds, Adds
<1> QED BY <1>2, <1>3, <1>4, <1>5

LEMMA IdleIsFine == ASSUME ~Busy', connected' PROVE ProbeInv'
BY DEF Busy, Holds, ProbeInv, ComesFirst

LEMMA StaysLinked ==
  ASSUME TypeOK, ProbeInv, [Next]_vars, Clean'
  PROVE  Clean /\ connected /\ connected'
<1>1. overlapped => overlapped'
  BY DEF Next, Scripted, Hear, Taps, vars, history, Homing, ProbeCalibrate,
    EndProbe, BedMesh, SaveOrRestart, SensorMacro, KlippyUp, StatusTick, Drop,
    Reconnect, SaveElsewhere, HearProbe, HearAborted, HearZOffset, HearMesh,
    HearSensorError, SensorTimeout, Foreground, TapIntroBack, TapStart, TapAccept,
    TapAbort, TapSaveOrBack, TapRefine, TapChoice
<1>2. drops \in Nat BY WizardAssumption DEF TypeOK
<1>3. drops' = drops \/ (Drop /\ drops' = drops + 1)
  BY DEF Next, Scripted, Hear, Taps, vars, link, Homing, ProbeCalibrate, EndProbe,
    BedMesh, SaveOrRestart, SensorMacro, KlippyUp, StatusTick, Drop, Reconnect,
    SaveElsewhere, HearProbe, HearAborted, HearZOffset, HearMesh, HearSensorError,
    SensorTimeout, Foreground, TapIntroBack, TapStart, TapAccept, TapAbort,
    TapSaveOrBack, TapRefine, TapChoice
<1>4. Clean /\ ~Drop BY <1>1, <1>2, <1>3 DEF Clean, Drop
<1>5. connected BY <1>4 DEF ProbeInv
<1>6. connected' = connected \/ Drop \/ connected'
  BY DEF Next, Scripted, Hear, Taps, vars, link, Homing, ProbeCalibrate, EndProbe,
    BedMesh, SaveOrRestart, SensorMacro, KlippyUp, StatusTick, Drop, Reconnect,
    SaveElsewhere, HearProbe, HearAborted, HearZOffset, HearMesh, HearSensorError,
    SensorTimeout, Foreground, TapIntroBack, TapStart, TapAccept, TapAbort,
    TapSaveOrBack, TapRefine, TapChoice
<1> QED BY <1>4, <1>5, <1>6

LEMMA IdleProbe ==
  ASSUME TypeOK, ProbeInv, ~Busy, [Next]_vars, ~TapStart
  PROVE  ProbeInv'
<1> SUFFICES ASSUME Clean' PROVE ProbeInv' BY DEF ProbeInv
<1>1. ASSUME ProbeCalibrate PROVE FALSE
  <2>1. Runs("PROBE_CALIBRATE") BY <1>1 DEF ProbeCalibrate
  <2> QED BY <2>1, RunsFirst DEF Busy, Holds
<1>2. ~Busy'
  BY <1>1, HomingKeepsIdle, EndProbeKeepsIdle, BedMeshKeepsIdle,
    SaveOrRestartKeepsIdle, SensorMacroKeepsIdle, OthersKeepIdle,
    SendingKeepsIdle DEF Next, Scripted, Hear, Taps
<1>3. connected' BY StaysLinked
<1> QED BY <1>2, <1>3, IdleIsFine

LEMMA HomingProbe ==
  ASSUME TypeOK, Clean, ProbeInv, Busy, Homing, connected'
  PROVE  ProbeInv'
<1>1. /\ Shorter /\ queue[1] = "G28" /\ 1 \in DOMAIN queue
  BY FinishShortens, RunsFirst DEF Homing, Finish
<1>2. /\ probing' = probing /\ wire' = wire /\ stage' = stage
      /\ probeActive' = probeActive /\ connected /\ toldProbing' = probing
  BY DEF Homing, probe, link, ProbeInv
<1>3. ~probing BY <1>1 DEF ProbeInv, Only, Ends
<1>4. PICK p \in DOMAIN queue : queue[p] = "PROBE_CALIBRATE"
  BY <1>3 DEF Busy, Holds
<1>5. p = 2 /\ ~probeActive /\ ~OnWire("probing")
      /\ \A j \in DOMAIN queue : j > 2 => queue[j] \in Ends
  BY <1>1, <1>4 DEF ProbeInv, ComesFirst
<1>6. 1 \in DOMAIN queue' /\ queue'[1] = "PROBE_CALIBRATE"
      /\ \A j \in DOMAIN queue' : j > 1 => queue'[j] \in Ends
  BY <1>1, <1>4, <1>5 DEF Shorter
<1>7. ComesFirst'
  BY <1>1, <1>2, <1>3, <1>5, <1>6 DEF ComesFirst, OnWire, Ends, Shorter
<1>8. (Busy => stage \in {"INTRO", "ZOFFSET"} /\ OnlyTicks)'
  BY <1>2 DEF ProbeInv, OnlyTicks
<1>9. (Holds("ACCEPT") \/ Holds("ABORT") \/ stage = "ZOFFSET")'
  <2>1. \A e \in Ends : Holds(e) => Holds(e)'
    <3> SUFFICES ASSUME NEW e \in Ends, NEW i \in DOMAIN queue, queue[i] = e
                 PROVE  Holds(e)'
      BY DEF Holds
    <3>1. i # 1 BY <1>1 DEF Ends
    <3>2. i - 1 \in DOMAIN queue' /\ queue'[i - 1] = e BY <1>1, <3>1 DEF Shorter
    <3> QED BY <3>2 DEF Holds
  <2> QED BY <1>2, <2>1 DEF ProbeInv, Ends
<1> QED BY <1>2, <1>3, <1>7, <1>8, <1>9 DEF ProbeInv

LEMMA ProbeCalibrateProbe ==
  ASSUME TypeOK, Clean, ProbeInv, Busy, ProbeCalibrate, connected'
  PROVE  ProbeInv'
<1>1. /\ Shorter /\ queue[1] = "PROBE_CALIBRATE" /\ 1 \in DOMAIN queue
  BY FinishShortens, RunsFirst DEF ProbeCalibrate, Finish
<1>2. /\ wire' = wire /\ stage' = stage
      /\ probeActive' = probeActive /\ toldProbing' = toldProbing
  BY DEF ProbeCalibrate, probe, link
<1>3. /\ ~probing /\ ~probeActive /\ ~OnWire("probing") /\ ~toldProbing
      /\ \A j \in DOMAIN queue : j > 1 => queue[j] \in Ends
  BY <1>1 DEF ProbeInv, ComesFirst
<1>4. \A j \in DOMAIN queue' : queue'[j] \in Ends
  BY <1>1, <1>3 DEF Shorter
<1>5. ~Holds("PROBE_CALIBRATE")' BY <1>4 DEF Holds, Ends
<1>6. ComesFirst' BY <1>4 DEF ComesFirst, Ends
<1>7. \A e \in Ends : Holds(e) => Holds(e)'
  <2> SUFFICES ASSUME NEW e \in Ends, NEW i \in DOMAIN queue, queue[i] = e
               PROVE  Holds(e)'
    BY DEF Holds
  <2>1. i # 1 BY <1>1 DEF Ends
  <2>2. i - 1 \in DOMAIN queue' /\ queue'[i - 1] = e BY <1>1, <2>1 DEF Shorter
  <2> QED BY <2>2 DEF Holds
<1>8. OnlyTicks /\ stage \in {"INTRO", "ZOFFSET"} BY DEF ProbeInv
<1>9. LastLine'
  <2>1. wire \in Seq(Lines) BY DEF TypeOK
  <2>2. wire # <<>> => wire[Len(wire)] = "idle"
    BY <1>3, <1>8, <2>1 DEF OnlyTicks, Ticks, OnWire
  <2> QED BY <1>2, <1>3, <2>2 DEF LastLine
<1> QED BY <1>2, <1>4, <1>6, <1>7, <1>8, <1>9 DEF ProbeInv, OnlyTicks, Only, Ends

LEMMA EndProbeProbe ==
  ASSUME TypeOK, Clean, ProbeInv, Busy, EndProbe, connected'
  PROVE  ProbeInv'
<1>1. Shorter /\ queue[1] \in Ends /\ 1 \in DOMAIN queue
  BY FinishShortens, RunsFirst DEF EndProbe, Finish, Ends
<1>2. ~probing' BY DEF EndProbe
<1>3. ~Holds("PROBE_CALIBRATE")
  <2>1. ASSUME NEW i \in DOMAIN queue, queue[i] = "PROBE_CALIBRATE" PROVE FALSE
    <3>1. i = 1 \/ queue[1] = "G28" BY <2>1 DEF ProbeInv, ComesFirst
    <3> QED BY <1>1, <2>1, <3>1 DEF Ends
  <2> QED BY <2>1 DEF Holds
<1>4. ~Busy' BY <1>1, <1>2, <1>3 DEF Busy, Holds, Shorter
<1> QED BY <1>4, IdleIsFine

LEMMA StatusTickProbe ==
  ASSUME TypeOK, Clean, ProbeInv, Busy, StatusTick, connected'
  PROVE  ProbeInv'
<1> DEFINE line == IF probing THEN "probing" ELSE "idle"
<1>1. /\ queue' = queue /\ probing' = probing /\ stage' = stage
      /\ probeActive' = probeActive /\ toldProbing' = probing
      /\ Tell(line) /\ connected
  BY DEF StatusTick, klipper, probe
<1>2. line \in Lines /\ line \in Ticks BY DEF Lines, Ticks
<1> HIDE DEF line
<1>3. Grows(line)
  <2>1. wire' = Append(wire, line) BY <1>1 DEF Tell
  <2>2. wire \in Seq(Lines) BY DEF TypeOK
  <2>3. wire' # wire BY <1>2, <2>1, <2>2
  <2> QED BY <1>1, <1>2, <2>3, TellGrows
<1>4. OnlyTicks /\ stage \in {"INTRO", "ZOFFSET"} BY DEF ProbeInv
<1>5. OnlyTicks' BY <1>2, <1>3, <1>4 DEF OnlyTicks, Grows
<1>6. LastLine' BY <1>1, <1>3 DEF LastLine, Grows, line
<1>7. ComesFirst'
  <2>1. SUFFICES ASSUME NEW i \in DOMAIN queue, queue[i] = "PROBE_CALIBRATE"
                 PROVE  /\ ~probing' /\ ~probeActive' /\ ~OnWire("probing")'
                        /\ (i = 1 => ~toldProbing')
                        /\ (i = 1 \/ (i = 2 /\ queue[1] = "G28"))
                        /\ \A j \in DOMAIN queue : j > i => queue[j] \in Ends
    BY <1>1 DEF ComesFirst
  <2>2. /\ ~probing /\ ~probeActive /\ ~OnWire("probing")
        /\ (i = 1 \/ (i = 2 /\ queue[1] = "G28"))
        /\ \A j \in DOMAIN queue : j > i => queue[j] \in Ends
    BY <2>1 DEF ProbeInv, ComesFirst
  <2>3. line = "idle" BY <2>2 DEF line
  <2>4. ~OnWire("probing")' BY <1>3, <2>2, <2>3 DEF OnWire, Grows
  <2> QED BY <1>1, <2>2, <2>4
<1>8. Busy' => stage' \in {"INTRO", "ZOFFSET"} /\ OnlyTicks' BY <1>1, <1>4, <1>5
<1>9. Busy' => (Holds("ACCEPT") \/ Holds("ABORT") \/ stage = "ZOFFSET")'
  BY <1>1 DEF ProbeInv, Holds
<1>10. probing' => Only(Ends)' BY <1>1 DEF ProbeInv, Only
<1> QED BY <1>6, <1>7, <1>8, <1>9, <1>10 DEF ProbeInv

LEMMA HearProbeProbe ==
  ASSUME TypeOK, Stays, Clean, ProbeInv, Busy, HearProbe, connected'
  PROVE  ProbeInv'
<1>1. /\ queue' = queue /\ probing' = probing /\ stage' = stage
      /\ toldProbing' = toldProbing
      /\ probeActive' = IF active THEN Head(wire) = "probing" ELSE probeActive
  BY DEF HearProbe, klipper, link
<1>2. Shrinks /\ wire[1] = Head(wire) /\ 1 \in DOMAIN wire
  BY HearShrinks DEF HearProbe
<1>3. wire' # <<>> => Len(wire') # 0
  BY HearShrinks DEF HearProbe
<1>4. OnlyTicks /\ stage \in {"INTRO", "ZOFFSET"} BY DEF ProbeInv
<1>5. OnlyTicks' BY <1>2, <1>4 DEF OnlyTicks, Shrinks
<1>6. probing /\ stage = "ZOFFSET" => LastLine'
  <2> SUFFICES ASSUME probing, stage = "ZOFFSET" PROVE LastLine' OBVIOUS
  <2>1. active BY DEF Stays
  <2>2. wire[Len(wire)] = IF toldProbing THEN "probing" ELSE "idle"
    BY <1>2 DEF ProbeInv, LastLine, Shrinks
  <2>3. CASE wire' = <<>>
    <3>1. Len(wire') = 0 BY <2>3
    <3>2. Len(wire) = 1 BY <1>2, <3>1 DEF Shrinks
    <3>3. Head(wire) = IF toldProbing THEN "probing" ELSE "idle"
      BY <1>2, <2>2, <3>2
    <3>4. (Head(wire) = "probing") <=> toldProbing BY <3>3
    <3> QED BY <1>1, <2>1, <2>3, <3>4 DEF LastLine
  <2>4. CASE wire' # <<>>
    <3>1. Len(wire') \in DOMAIN wire' /\ Len(wire') + 1 = Len(wire)
      BY <1>2, <1>3, <2>4 DEF Shrinks
    <3>2. wire'[Len(wire')] = wire[Len(wire)] BY <1>2, <3>1 DEF Shrinks
    <3> QED BY <1>1, <2>2, <2>4, <3>2 DEF LastLine
  <2> QED BY <2>3, <2>4
<1>7. ComesFirst'
  <2>1. ASSUME NEW i \in DOMAIN queue, queue[i] = "PROBE_CALIBRATE"
        PROVE  ~probeActive' /\ ~OnWire("probing")'
    <3>1. ~probeActive /\ ~OnWire("probing") BY <2>1 DEF ProbeInv, ComesFirst
    <3>2. Head(wire) # "probing" BY <1>2, <3>1 DEF OnWire
    <3>3. ~OnWire("probing")' BY <1>2, <3>1 DEF OnWire, Shrinks
    <3> QED BY <1>1, <3>1, <3>2, <3>3
  <2> QED BY <1>1, <2>1 DEF ProbeInv, ComesFirst
<1>8. Busy' => stage' \in {"INTRO", "ZOFFSET"} /\ OnlyTicks' BY <1>1, <1>4, <1>5
<1>9. Busy' => (Holds("ACCEPT") \/ Holds("ABORT") \/ stage = "ZOFFSET")'
  BY <1>1 DEF ProbeInv, Holds
<1>10. probing' => Only(Ends)' BY <1>1 DEF ProbeInv, Only
<1> QED BY <1>1, <1>6, <1>7, <1>8, <1>9, <1>10 DEF ProbeInv

LEMMA TapEndProbe ==
  ASSUME TypeOK, Clean, ProbeInv, Busy, TapAccept \/ TapAbort, connected'
  PROVE  ProbeInv'
<1>1. PICK e \in Ends : Adds(1) /\ queue'[Len(queue')] = e
  <2>1. PICK e \in Ends : Sent(<<e>>) BY DEF TapAccept, TapAbort, Ends
  <2>2. connected /\ klippy = "up" BY DEF TapAccept, TapAbort, Tappable
  <2> QED BY <2>1, <2>2, SentOne DEF Ends, Scripts
<1>2. /\ probing' = probing /\ toldProbing' = toldProbing /\ wire' = wire
      /\ probeActive' = probeActive
      /\ stage' = stage \/ stage' = "INTRO"
  BY DEF TapAccept, TapAbort, link, probe
<1>3. OnlyTicks' /\ stage' \in {"INTRO", "ZOFFSET"} BY <1>2 DEF ProbeInv, OnlyTicks
<1>4. (Holds("ACCEPT") \/ Holds("ABORT"))'
  <2>1. Len(queue') \in DOMAIN queue' BY <1>1 DEF Adds
  <2> QED BY <1>1, <2>1 DEF Holds, Ends
<1>5. probing' => Only(Ends)' BY <1>1, <1>2 DEF ProbeInv, Only, Adds
<1>6. ComesFirst'
  <2>1. ASSUME NEW i \in DOMAIN queue', queue'[i] = "PROBE_CALIBRATE"
        PROVE  i \in DOMAIN queue /\ queue[i] = "PROBE_CALIBRATE"
    BY <1>1, <2>1 DEF Adds, Ends
  <2>2. ASSUME NEW i \in DOMAIN queue', queue'[i] = "PROBE_CALIBRATE"
        PROVE  /\ i = 1 \/ (i = 2 /\ queue'[1] = "G28")
               /\ \A j \in DOMAIN queue' : j > i => queue'[j] \in Ends
    <3>1. /\ i = 1 \/ (i = 2 /\ queue[1] = "G28")
          /\ \A j \in DOMAIN queue : j > i => queue[j] \in Ends
      BY <2>1, <2>2 DEF ProbeInv, ComesFirst
    <3> QED BY <1>1, <2>1, <2>2, <3>1 DEF Adds
  <2>3. ASSUME NEW i \in DOMAIN queue', queue'[i] = "PROBE_CALIBRATE"
        PROVE  /\ ~probing' /\ ~probeActive' /\ ~OnWire("probing")'
               /\ (i = 1 => ~toldProbing')
    BY <1>2, <2>1, <2>3 DEF ProbeInv, ComesFirst, OnWire
  <2> QED BY <2>2, <2>3 DEF ComesFirst
<1>7. probing' /\ stage' = "ZOFFSET" => LastLine'
  BY <1>2 DEF ProbeInv, LastLine
<1> QED BY <1>3, <1>4, <1>5, <1>6, <1>7 DEF ProbeInv

(* What nothing of the probe depends on.                                   *)
LEMMA AroundProbe ==
  ASSUME TypeOK, Stays, Clean, ProbeInv, Busy, connected',
         KlippyUp \/ SensorTimeout \/ Foreground \/ TapIntroBack \/ UNCHANGED vars
  PROVE  ProbeInv'
<1>1. stage \in {"INTRO", "ZOFFSET"} BY DEF ProbeInv
<1>2. /\ queue' = queue /\ probing' = probing /\ toldProbing' = toldProbing
      /\ wire' = wire /\ stage' = stage
      /\ probeActive' = probeActive \/ (stage = "INTRO" /\ ~probeActive')
  BY <1>1 DEF KlippyUp, SensorTimeout, Foreground, TapIntroBack, vars, klipper,
    link, probe, Stays
<1>3. Busy' <=> Busy BY <1>2 DEF Busy, Holds
<1>4. ComesFirst' BY <1>2 DEF ProbeInv, ComesFirst, OnWire
<1>5. OnlyTicks' /\ stage' \in {"INTRO", "ZOFFSET"} BY <1>2 DEF ProbeInv, OnlyTicks
<1>6. (Holds("ACCEPT") \/ Holds("ABORT") \/ stage = "ZOFFSET")'
  BY <1>2 DEF ProbeInv, Holds
<1>7. probing' => Only(Ends)' BY <1>2 DEF ProbeInv, Only
<1>8. probing' /\ stage' = "ZOFFSET" => LastLine' BY <1>2 DEF ProbeInv, LastLine
<1> QED BY <1>4, <1>5, <1>6, <1>7, <1>8 DEF ProbeInv

(* Meanwhile nothing else can happen.                                      *)
LEMMA BusyWith ==
  ASSUME TypeOK, Stays, Clean, ProbeInv, Busy
  PROVE  /\ ~BedMesh /\ ~SaveOrRestart /\ ~SensorMacro
         /\ ~Reconnect /\ ~SaveElsewhere
         /\ ~HearAborted /\ ~HearZOffset /\ ~HearMesh /\ ~HearSensorError
         /\ ~TapSaveOrBack /\ ~TapRefine /\ ~TapChoice
<1>1. connected /\ stage \in {"INTRO", "ZOFFSET"} /\ OnlyTicks BY DEF ProbeInv
<1>2. ASSUME NEW script, Runs(script)
      PROVE  script \in {"G28", "PROBE_CALIBRATE", "ACCEPT", "ABORT"}
  <2>1. queue[1] = script /\ 1 \in DOMAIN queue BY <1>2, RunsFirst
  <2>2. CASE probing BY <2>1, <2>2 DEF ProbeInv, Only, Ends
  <2>3. CASE ~probing
    <3>1. PICK p \in DOMAIN queue : queue[p] = "PROBE_CALIBRATE"
      BY <2>3 DEF Busy, Holds
    <3>2. p = 1 \/ queue[1] = "G28" BY <3>1 DEF ProbeInv, ComesFirst
    <3> QED BY <2>1, <3>1, <3>2
  <2> QED BY <2>2, <2>3
<1>3. ~BedMesh /\ ~SaveOrRestart /\ ~SensorMacro
  BY <1>2 DEF BedMesh, SaveOrRestart, SensorMacro
<1>4. ASSUME NEW line, Received(line) PROVE line \in Ticks
  BY <1>1, <1>4, HearShrinks DEF OnlyTicks
<1>5. ~HearAborted /\ ~HearZOffset /\ ~HearMesh /\ ~HearSensorError
  BY <1>4 DEF HearAborted, HearZOffset, HearMesh, HearSensorError, Ticks
<1>6. ~SaveElsewhere
  <2> SUFFICES ASSUME SaveElsewhere PROVE FALSE OBVIOUS
  <2>1. queue = <<>> /\ ~front BY DEF SaveElsewhere
  <2>2. DOMAIN queue = {} BY <2>1
  <2>3. stage = "ZOFFSET" BY <2>2 DEF ProbeInv, Holds
  <2> QED BY <2>1, <2>3 DEF Stays
<1> QED BY <1>1, <1>3, <1>5, <1>6 DEF Reconnect, TapSaveOrBack, TapRefine, TapChoice

LEMMA TapStartProbe ==
  ASSUME TypeOK, Clean', ProbeInv, TapStart, connected'
  PROVE  ProbeInv'
<1>1. /\ queue = <<>> /\ wire' = <<>> /\ ~probing'
      /\ ~probeActive' /\ stage' = "ZOFFSET"
  BY DEF TapStart, Clean
<1>2. queue' = <<"G28", "PROBE_CALIBRATE">> \/ queue' = <<>>
  BY <1>1 DEF TapStart, Sent
<1>3. DOMAIN wire' = {} BY <1>1
<1>4. CASE queue' = <<>>
  <2>1. DOMAIN queue' = {} BY <1>4
  <2> QED BY <1>1, <2>1, IdleIsFine DEF Busy, Holds
<1>5. CASE queue' = <<"G28", "PROBE_CALIBRATE">>
  <2>1. DOMAIN queue' = {1, 2} /\ queue'[1] = "G28" /\ queue'[2] = "PROBE_CALIBRATE"
    BY <1>5
  <2>2. ComesFirst' BY <1>1, <1>3, <2>1 DEF ComesFirst, OnWire
  <2> QED BY <1>1, <1>3, <2>2 DEF ProbeInv, OnlyTicks
<1> QED BY <1>2, <1>4, <1>5

LEMMA NextProbe == ASSUME TypeOK, Stays, ProbeInv, [Next]_vars PROVE ProbeInv'
<1> SUFFICES ASSUME Clean' PROVE ProbeInv' BY DEF ProbeInv
<1>1. Clean /\ connected /\ connected' BY StaysLinked
<1>2. CASE TapStart BY <1>1, <1>2, TapStartProbe
<1>3. CASE ~TapStart /\ ~Busy BY <1>3, IdleProbe
<1>4. CASE ~TapStart /\ Busy
  <2>1. ~Drop BY <1>1 DEF Drop
  <2> QED
    BY <1>1, <1>4, <2>1, BusyWith, HomingProbe, ProbeCalibrateProbe, EndProbeProbe,
      StatusTickProbe, HearProbeProbe, TapEndProbe, AroundProbe DEF Next, Scripted,
      Hear, Taps
<1> QED BY <1>2, <1>3, <1>4

(* However many runs, scripts and losses of the connection: once nothing   *)
(* is under way, a manual probe in progress has its buttons on the screen, *)
(* unless a run was started over an earlier one or the connection was lost *)
(* (recalibration_wizard_panel.cpp:386-389).                               *)
THEOREM ProbeHasButtons == Spec => []OnlyOverlapLosesProbe
<1>1. Init => ProbeInv
  <2> SUFFICES ASSUME Init PROVE ProbeInv OBVIOUS
  <2>1. DOMAIN queue = {} BY DEF Init
  <2> QED BY <2>1 DEF Init, ProbeInv, Busy, Holds, ComesFirst
<1>2. TypeOK /\ Stays /\ ProbeInv => OnlyOverlapLosesProbe
  <2> SUFFICES ASSUME TypeOK, Stays, ProbeInv, Settled, probing, ~overlapped, ~(drops > 0)
               PROVE  front /\ stage = "ZOFFSET" /\ probeActive
    BY DEF OnlyOverlapLosesProbe
  <2>1. Clean BY WizardAssumption DEF Clean, TypeOK
  <2>2. DOMAIN queue = {} BY DEF Settled
  <2>3. stage = "ZOFFSET" /\ LastLine
    BY <2>1, <2>2 DEF ProbeInv, Busy, Holds
  <2> QED BY <2>3 DEF Stays, LastLine, Settled
<1> QED BY <1>1, <1>2, InitTypes, NextTypes, NextProbe, PTL DEF Spec

-----------------------------------------------------------------------------
(* printer.cfg: as long as it is written only when the macro is done, and  *)
(* no other panel saves.  BED_MESH_CALIBRATE is the last script and its    *)
(* line the last but for status lines, so that the result is shown with    *)
(* an empty queue; hence a SAVE_CONFIG comes first in the queue, and one   *)
(* that is still there when the next run starts takes that run's scripts   *)
(* along, so that it gets no further than its first stage.                 *)

Fair == ~hasty /\ ~savedElsewhere

MeshComesLast ==
  \A i \in DOMAIN queue : queue[i] = "BED_MESH_CALIBRATE" =>
    i = Len(queue) /\ stage = "MESH" /\ ~OnWire("mesh")

MeshToldLast ==
  \A i \in DOMAIN wire : wire[i] = "mesh" =>
    /\ queue = <<>> /\ stage = "MESH"
    /\ \A j \in DOMAIN wire : j > i => wire[j] \in Ticks

DoneIsLast == Here("DONE") => queue = <<>> /\ OnlyTicks

SaveComesFirst ==
  \A i \in DOMAIN queue : queue[i] = "SAVE_CONFIG" =>
    /\ i = 1 /\ OnlyTicks
    /\ stage \in {"INTRO", "ZOFFSET", "DONE"} /\ outcome \in {"none", "save"}

(* Nothing is to come that gets a run past its first stage.                *)
Barren == OnlyTicks /\ ~probing /\ Only(Ends)

Unsaved ==
  /\ stage = "ZOFFSET" => cfg = before \/ Barren
  /\ stage = "MESH" \/ Here("DONE") => cfg = before

MacroIsShown ==
  Holds("Z_OFFSET_CALIBRATION") =>
    front /\ stage \in {"SENSOR_RUNNING", "SENSOR_CHOICE"}

CopyIsBefore ==
  stage = "SENSOR_RUNNING" \/ Here("SENSOR_CHOICE") =>
    Only({"G28", "Z_OFFSET_CALIBRATION"}) /\ backup = before

(* What Save & Restart is to write is among the pending values.            *)
OffsetTaken == misheard \/ pending.z = "paper"
Gathered ==
  /\ stage = "MESH" /\ (Holds("BED_MESH_CALIBRATE") \/ OnWire("mesh")) => OffsetTaken
  /\ OnWire("mesh") => pending.mesh = "new"
  /\ Here("DONE") => OffsetTaken /\ pending.mesh = "new"

(* The promise, with the SAVE_CONFIG it may still be waiting for           *)
Kept ==
  IF outcome = "save" /\ queue # <<>>
  THEN /\ Len(queue) = 1 /\ queue[1] = "SAVE_CONFIG"
       /\ OffsetTaken /\ pending.mesh = "new"
  ELSE Promised

Agreed == /\ MeshComesLast /\ MeshToldLast /\ DoneIsLast /\ SaveComesFirst
          /\ Unsaved /\ MacroIsShown /\ CopyIsBefore /\ Gathered /\ Kept
FileInv == Fair => Agreed

(* Neither the stage nor the file changes.                                 *)
SameScreen == UNCHANGED <<cfg, before, backup, outcome, front, stage>>

LEMMA SameScreenKeepsPromise ==
  ASSUME Kept, SameScreen,
         outcome = "save" => UNCHANGED <<queue, pending, misheard>>
  PROVE  Kept'
BY DEF Kept, OffsetTaken, Promised, SameScreen

(* A script that is done says nothing of a mesh.                           *)
LEMMA DoneAgrees ==
  ASSUME TypeOK, Agreed, Shorter, SameScreen, Barren => Barren',
         wire' = wire \/ \E l \in Lines \ {"mesh"} : Grows(l),
         OffsetTaken => OffsetTaken', queue[1] # "SAVE_CONFIG"
  PROVE  Agreed'
<1>1. /\ cfg' = cfg /\ before' = before /\ backup' = backup
      /\ outcome' = outcome /\ front' = front /\ stage' = stage
  BY DEF SameScreen
<1>2. ~OnWire("mesh") BY DEF Agreed, MeshToldLast, OnWire, Shorter
<1>3. ~OnWire("mesh")' BY <1>2 DEF OnWire, Grows
<1>4. MeshComesLast' BY <1>1, <1>3 DEF Agreed, MeshComesLast, Shorter
<1>5. MeshToldLast' BY <1>3 DEF MeshToldLast, OnWire
<1>6. ~Here("DONE")' BY <1>1 DEF Agreed, DoneIsLast, Here, Shorter
<1>7. SaveComesFirst'
  <2> SUFFICES ASSUME NEW i \in DOMAIN queue', queue'[i] = "SAVE_CONFIG" PROVE FALSE
    BY DEF SaveComesFirst
  <2>1. i + 1 \in DOMAIN queue /\ queue[i + 1] = "SAVE_CONFIG" /\ i + 1 # 1
    BY DEF Shorter
  <2> QED BY <2>1 DEF Agreed, SaveComesFirst
<1>8. Unsaved' BY <1>1, <1>6 DEF Agreed, Unsaved
<1>9. MacroIsShown' BY <1>1 DEF Agreed, MacroIsShown, Holds, Shorter
<1>10. CopyIsBefore' BY <1>1 DEF Agreed, CopyIsBefore, Here, Only, Shorter
<1>11. Kept'
  <2>1. outcome # "save" BY DEF Agreed, Kept, Shorter
  <2> QED BY <2>1, SameScreenKeepsPromise DEF Agreed
<1>12. Gathered'
  BY <1>1, <1>3, <1>6 DEF Agreed, Gathered, Holds, Shorter
<1> QED
  BY <1>4, <1>5, <1>6, <1>7, <1>8, <1>9, <1>10, <1>11, <1>12 DEF Agreed, DoneIsLast

LEMMA HomingAgrees == ASSUME TypeOK, Agreed, Homing PROVE Agreed'
<1>1. Shorter /\ queue[1] = "G28" /\ 1 \in DOMAIN queue
  BY FinishShortens, RunsFirst DEF Homing, Finish
<1>2. ~Barren BY <1>1 DEF Barren, Only, Ends
<1>3. SameScreen /\ wire' = wire BY DEF Homing, SameScreen, files, history
<1>4. OffsetTaken => OffsetTaken' BY DEF Homing, OffsetTaken, history
<1> QED BY <1>1, <1>2, <1>3, <1>4, DoneAgrees

LEMMA ProbeCalibrateAgrees == ASSUME TypeOK, Agreed, ProbeCalibrate PROVE Agreed'
<1>1. Shorter /\ queue[1] = "PROBE_CALIBRATE" /\ 1 \in DOMAIN queue
  BY FinishShortens, RunsFirst DEF ProbeCalibrate, Finish
<1>2. ~Barren BY <1>1 DEF Barren, Only, Ends
<1>3. SameScreen /\ wire' = wire BY DEF ProbeCalibrate, SameScreen, files, history
<1>4. OffsetTaken => OffsetTaken' BY DEF ProbeCalibrate, OffsetTaken, history
<1> QED BY <1>1, <1>2, <1>3, <1>4, DoneAgrees

LEMMA EndProbeAgrees == ASSUME TypeOK, Agreed, EndProbe PROVE Agreed'
<1>1. Shorter /\ queue[1] # "SAVE_CONFIG"
  BY FinishShortens, RunsFirst DEF EndProbe, Finish
<1>2. SameScreen BY DEF EndProbe, SameScreen, files
<1>3. wire' = wire \/ (probing /\ \E l \in Lines \ {"mesh"} : Grows(l))
  <2>1. wire' = wire \/ (probing /\ (Tell("z_offset") \/ Tell("aborted")))
    BY DEF EndProbe
  <2> QED BY <2>1, TellGrows DEF Lines
<1>4. Barren => Barren'
  BY <1>1, <1>3 DEF EndProbe, Barren, OnlyTicks, Only, Shorter
<1>5. OffsetTaken => OffsetTaken'
  <2>1. pending' = pending \/ pending' = [pending EXCEPT !.z = "paper"]
    BY DEF EndProbe
  <2>2. pending \in Pending BY DEF TypeOK
  <2>3. pending.z = "paper" => pending'.z = "paper" BY <2>1, <2>2 DEF Pending
  <2>4. misheard => misheard' BY DEF EndProbe
  <2> QED BY <2>3, <2>4 DEF OffsetTaken
<1> QED BY <1>1, <1>2, <1>3, <1>4, <1>5, DoneAgrees

LEMMA BedMeshAgrees == ASSUME TypeOK, Stays, Agreed, BedMesh PROVE Agreed'
<1>1. Shorter /\ queue[1] = "BED_MESH_CALIBRATE" /\ 1 \in DOMAIN queue
      /\ queue' \in Seq(Scripts)
  BY FinishShortens, RunsFirst DEF BedMesh, Finish
<1>2. Len(queue) = 1 /\ stage = "MESH" /\ ~OnWire("mesh")
  BY <1>1 DEF Agreed, MeshComesLast
<1>3. queue' = <<>> /\ DOMAIN queue' = {} BY <1>1, <1>2 DEF Shorter
<1>4. /\ cfg' = cfg /\ before' = before /\ front' = front /\ stage' = stage
      /\ SameScreen
  BY DEF BedMesh, files, SameScreen
<1>5. wire' = wire \/ Grows("mesh")
  BY TellGrows DEF BedMesh, Lines
<1>6. MeshToldLast'
  BY <1>2, <1>3, <1>4, <1>5 DEF MeshToldLast, OnWire, Grows
<1>7. Unsaved' BY <1>2, <1>4 DEF Agreed, Unsaved
<1>8. Kept'
  <2>1. outcome # "save" BY <1>2 DEF Stays
  <2> QED BY <1>4, <2>1, SameScreenKeepsPromise DEF Agreed
<1>9. Gathered'
  <2>1. OffsetTaken BY <1>1, <1>2 DEF Agreed, Gathered, Holds
  <2>2. pending \in Pending /\ misheard' = misheard BY DEF TypeOK, BedMesh
  <2>3. OffsetTaken'
    <3>1. pending' = pending \/ pending' = [pending EXCEPT !.mesh = "new"]
      BY DEF BedMesh
    <3> QED BY <2>1, <2>2, <3>1 DEF OffsetTaken, Pending
  <2>4. OnWire("mesh")' => pending'.mesh = "new"
    <3>1. \/ pending' = [pending EXCEPT !.mesh = "new"]
          \/ wire' = wire
      BY DEF BedMesh
    <3>2. wire' = wire => ~OnWire("mesh")' BY <1>2 DEF OnWire
    <3> QED BY <2>2, <3>1, <3>2 DEF Pending
  <2> QED BY <1>2, <1>4, <2>3, <2>4 DEF Gathered, Here
<1> QED
  BY <1>2, <1>3, <1>4, <1>6, <1>7, <1>8, <1>9 DEF Agreed, MeshComesLast, DoneIsLast,
    Here, SaveComesFirst, MacroIsShown, Holds, CopyIsBefore

LEMMA SaveOrRestartAgrees == ASSUME TypeOK, Stays, Agreed, SaveOrRestart PROVE Agreed'
<1>1. /\ queue # <<>> /\ 1 \in DOMAIN queue
      /\ queue[1] = "SAVE_CONFIG" \/ queue[1] = "FIRMWARE_RESTART"
      /\ Runs("SAVE_CONFIG") => queue[1] = "SAVE_CONFIG"
  BY RunsFirst DEF SaveOrRestart
<1>2. /\ queue' = <<>> /\ ~probing' /\ wire' = wire /\ before' = before
      /\ backup' = backup /\ outcome' = outcome /\ front' = front /\ stage' = stage
  BY DEF SaveOrRestart, Restart
<1>3. DOMAIN queue' = {} BY <1>2
<1>4. ~OnWire("mesh") /\ ~Here("DONE")
  BY <1>1 DEF Agreed, MeshToldLast, OnWire, DoneIsLast
<1>5. MeshToldLast' /\ ~Here("DONE")' BY <1>2, <1>4 DEF MeshToldLast, OnWire, Here
<1>6. CopyIsBefore' BY <1>2, <1>3 DEF Agreed, CopyIsBefore, Here, Only
<1>7. Unsaved' /\ Kept'
  <2>1. CASE Runs("SAVE_CONFIG")
    <3>1. /\ OnlyTicks /\ stage \in {"INTRO", "ZOFFSET", "DONE"}
          /\ outcome \in {"none", "save"}
      BY <1>1, <2>1 DEF Agreed, SaveComesFirst
    <3>2. Barren' BY <1>2, <1>3, <3>1 DEF Barren, OnlyTicks, Only
    <3>3. Unsaved' BY <1>2, <1>5, <3>1, <3>2 DEF Unsaved
    <3>4. Promised'
      <4>1. CASE outcome = "none" BY <1>2, <4>1 DEF Promised
      <4>2. CASE outcome = "save"
        <5>1. OffsetTaken /\ pending.mesh = "new"
          BY <1>1, <4>2 DEF Agreed, Kept
        <5>2. cfg' = Saved /\ misheard' = misheard
          BY <2>1 DEF SaveOrRestart
        <5>3. cfg'.mesh = "new" /\ (cfg'.z = "paper" \/ misheard')
          BY <5>1, <5>2 DEF Saved, OffsetTaken
        <5> QED BY <1>2, <4>2, <5>3 DEF Promised
      <4> QED BY <3>1, <4>1, <4>2
    <3> QED BY <1>2, <3>3, <3>4 DEF Kept
  <2>2. CASE ~Runs("SAVE_CONFIG")
    <3>1. cfg' = cfg BY <2>2 DEF SaveOrRestart
    <3>2. SameScreen BY <1>2, <3>1 DEF SameScreen
    <3>3. Barren => Barren' BY <1>2, <1>3 DEF Barren, OnlyTicks, Only
    <3>4. Unsaved' BY <1>2, <1>5, <3>1, <3>3 DEF Agreed, Unsaved
    <3>5. outcome # "save"
      <4>1. queue[1] # "SAVE_CONFIG" BY <1>1, <2>2, RunsFirst DEF SaveOrRestart
      <4> QED BY <1>1, <4>1 DEF Agreed, Kept
    <3> QED BY <3>2, <3>4, <3>5, SameScreenKeepsPromise DEF Agreed
  <2> QED BY <2>1, <2>2
<1>8. Gathered' BY <1>2, <1>3, <1>4, <1>5 DEF Gathered, Holds, OnWire
<1> QED
  BY <1>3, <1>5, <1>6, <1>7, <1>8 DEF Agreed, MeshComesLast, DoneIsLast, SaveComesFirst,
    MacroIsShown, Holds

(* While the macro is on the screen.                                       *)
LEMMA SensorAgrees ==
  ASSUME front', stage' \in {"SENSOR_RUNNING", "SENSOR_CHOICE"}, outcome' = "none",
         Only({"G28", "Z_OFFSET_CALIBRATION"})', ~OnWire("mesh")', backup' = before'
  PROVE  Agreed'
<1>1. MeshComesLast' BY DEF MeshComesLast, Only
<1>2. MeshToldLast' BY DEF MeshToldLast, OnWire
<1>3. SaveComesFirst' BY DEF SaveComesFirst, Only
<1>4. DoneIsLast' /\ Unsaved' /\ MacroIsShown' /\ CopyIsBefore'
  BY DEF DoneIsLast, Unsaved, MacroIsShown, CopyIsBefore, Here
<1>5. Kept' BY DEF Kept, Promised
<1>6. Gathered' BY DEF Gathered, Here
<1> QED BY <1>1, <1>2, <1>3, <1>4, <1>5, <1>6 DEF Agreed

LEMMA SensorMacroAgrees == ASSUME TypeOK, Stays, Agreed, SensorMacro PROVE Agreed'
<1>1. Runs("Z_OFFSET_CALIBRATION") BY DEF SensorMacro
<1>2. queue # <<>> /\ 1 \in DOMAIN queue /\ queue[1] = "Z_OFFSET_CALIBRATION"
  BY <1>1, RunsFirst
<1>3. front /\ stage \in {"SENSOR_RUNNING", "SENSOR_CHOICE"}
  BY <1>2 DEF Agreed, MacroIsShown, Holds
<1>4. outcome = "none" BY <1>3 DEF Stays
<1>5. Only({"G28", "Z_OFFSET_CALIBRATION"}) /\ backup = before
  BY <1>3 DEF Agreed, CopyIsBefore, Here
<1>6. ~OnWire("mesh") BY <1>2 DEF Agreed, MeshToldLast, OnWire
<1>7. /\ front' = front /\ stage' = stage /\ outcome' = outcome
      /\ backup' = backup /\ before' = before
  BY DEF SensorMacro
<1>8. ~OnWire("mesh")'
  <2>1. wire' = wire \/ \E l \in Lines \ {"mesh"} : Grows(l)
    <3>1. wire' = wire \/ Tell("z_offset") \/ Tell("pr_err") BY DEF SensorMacro
    <3> QED BY <3>1, TellGrows DEF Lines
  <2> QED BY <1>6, <2>1 DEF OnWire, Grows
<1>9. Only({"G28", "Z_OFFSET_CALIBRATION"})'
  <2>1. queue' = queue \/ queue' = Tail(queue) \/ queue' = <<>>
    BY DEF SensorMacro, Finish, Restart
  <2>2. CASE queue' = Tail(queue)
    <3>1. Shorter BY <1>2, <2>2, FinishShortens
    <3> QED BY <1>5, <3>1 DEF Only, Shorter
  <2>3. CASE queue' = <<>>
    <3>1. DOMAIN queue' = {} BY <2>3
    <3> QED BY <3>1 DEF Only
  <2>4. CASE queue' = queue BY <1>5, <2>4 DEF Only
  <2> QED BY <2>1, <2>2, <2>3, <2>4
<1> QED BY <1>3, <1>4, <1>5, <1>7, <1>8, <1>9, SensorAgrees

(* Lines come and go.                                                      *)
LEMMA LinesAgree ==
  ASSUME TypeOK, Agreed, SameScreen, queue' = queue,
         probing' = probing, pending' = pending, misheard' = misheard,
         wire' = wire \/ wire' = <<>> \/ Shrinks \/ \E l \in Ticks : Grows(l)
  PROVE  Agreed'
<1>1. /\ cfg' = cfg /\ before' = before /\ backup' = backup
      /\ outcome' = outcome /\ front' = front /\ stage' = stage
  BY DEF SameScreen
<1>2. OnlyTicks => OnlyTicks'
  <2>1. CASE wire' = <<>>
    <3>1. DOMAIN wire' = {} BY <2>1
    <3> QED BY <3>1 DEF OnlyTicks
  <2>2. CASE wire' # <<>> BY <2>2 DEF OnlyTicks, Shrinks, Grows
  <2> QED BY <2>1, <2>2
<1>3. MeshToldLast' /\ (OnWire("mesh")' => OnWire("mesh"))
  <2>1. CASE wire' = wire BY <1>1, <2>1 DEF Agreed, MeshToldLast, OnWire
  <2>2. CASE wire' = <<>>
    <3>1. DOMAIN wire' = {} BY <2>2
    <3> QED BY <3>1 DEF MeshToldLast, OnWire
  <2>3. CASE Shrinks
    <3>1. ASSUME NEW i \in DOMAIN wire', wire'[i] = "mesh"
          PROVE  /\ queue = <<>> /\ stage = "MESH" /\ OnWire("mesh")
                 /\ \A j \in DOMAIN wire' : j > i => wire'[j] \in Ticks
      <4>1. i + 1 \in DOMAIN wire /\ wire[i + 1] = "mesh" BY <2>3, <3>1 DEF Shrinks
      <4>2. /\ queue = <<>> /\ stage = "MESH"
            /\ \A j \in DOMAIN wire : j > i + 1 => wire[j] \in Ticks
        BY <4>1 DEF Agreed, MeshToldLast
      <4>3. ASSUME NEW j \in DOMAIN wire', j > i PROVE wire'[j] \in Ticks
        BY <2>3, <3>1, <4>2, <4>3 DEF Shrinks
      <4> QED BY <4>1, <4>2, <4>3 DEF OnWire
    <3> QED BY <1>1, <3>1 DEF MeshToldLast, OnWire
  <2>4. ASSUME NEW l \in Ticks, Grows(l) PROVE MeshToldLast' /\ (OnWire("mesh")' => OnWire("mesh"))
    <3>1. ASSUME NEW i \in DOMAIN wire', wire'[i] = "mesh"
          PROVE  /\ queue = <<>> /\ stage = "MESH" /\ OnWire("mesh")
                 /\ \A j \in DOMAIN wire' : j > i => wire'[j] \in Ticks
      <4>1. i \in DOMAIN wire /\ wire[i] = "mesh"
        BY <2>4, <3>1 DEF Grows, Ticks
      <4>2. /\ queue = <<>> /\ stage = "MESH"
            /\ \A j \in DOMAIN wire : j > i => wire[j] \in Ticks
        BY <4>1 DEF Agreed, MeshToldLast
      <4>3. ASSUME NEW j \in DOMAIN wire', j > i PROVE wire'[j] \in Ticks
        BY <2>4, <4>2, <4>3 DEF Grows
      <4> QED BY <4>1, <4>2, <4>3 DEF OnWire
    <3> QED BY <1>1, <3>1 DEF MeshToldLast, OnWire
  <2> QED BY <2>1, <2>2, <2>3, <2>4
<1>4. MeshComesLast' BY <1>1, <1>3 DEF Agreed, MeshComesLast
<1>5. DoneIsLast' BY <1>1, <1>2 DEF Agreed, DoneIsLast, Here
<1>6. SaveComesFirst' BY <1>1, <1>2 DEF Agreed, SaveComesFirst
<1>7. Barren => Barren' BY <1>2 DEF Barren, Only
<1>8. Unsaved' BY <1>1, <1>7 DEF Agreed, Unsaved, Here
<1>9. MacroIsShown' /\ CopyIsBefore'
  BY <1>1 DEF Agreed, MacroIsShown, Holds, CopyIsBefore, Only, Here
<1>10. Kept' BY SameScreenKeepsPromise DEF Agreed
<1>11. Gathered'
  BY <1>1, <1>3 DEF Agreed, Gathered, OffsetTaken, Holds, Here
<1> QED BY <1>3, <1>4, <1>5, <1>6, <1>8, <1>9, <1>10, <1>11 DEF Agreed

LEMMA AroundAgrees ==
  ASSUME TypeOK, Agreed,
         KlippyUp \/ StatusTick \/ Drop \/ Reconnect \/ HearProbe \/ UNCHANGED vars
  PROVE  Agreed'
<1>1. SameScreen /\ queue' = queue /\ probing' = probing /\ pending' = pending
      /\ misheard' = misheard
  BY DEF KlippyUp, StatusTick, Drop, Reconnect, HearProbe, vars, SameScreen, files,
    history, klipper
<1>2. CASE StatusTick
  <2>1. PICK l \in Ticks : Tell(l) BY <1>2 DEF StatusTick, Ticks
  <2>2. wire' = wire \/ Grows(l) BY <2>1, TellGrows DEF Ticks, Lines
  <2> QED BY <1>1, <2>2, LinesAgree
<1>3. CASE HearProbe
  <2>1. Shrinks BY <1>3, HearShrinks DEF HearProbe
  <2> QED BY <1>1, <2>1, LinesAgree
<1>4. CASE KlippyUp \/ Drop \/ Reconnect \/ UNCHANGED vars
  <2>1. wire' = wire \/ wire' = <<>> BY <1>4 DEF KlippyUp, Drop, Reconnect, vars
  <2> QED BY <1>1, <2>1, LinesAgree
<1> QED BY <1>2, <1>3, <1>4

(* On the way back to the intro, or to where the wizard was entered from:  *)
(* nothing of the stages is to come.                                       *)
LEMMA LeavingAgrees ==
  ASSUME stage' \in {"INTRO", "DONE", "SENSOR_CHOICE"}, stage' # "INTRO" => ~front',
         ~Holds("BED_MESH_CALIBRATE")', ~Holds("Z_OFFSET_CALIBRATION")',
         ~OnWire("mesh")', SaveComesFirst', Kept'
  PROVE  Agreed'
<1>1. MeshComesLast' BY DEF MeshComesLast, Holds
<1>2. MeshToldLast' BY DEF MeshToldLast, OnWire
<1>3. DoneIsLast' /\ Unsaved' /\ MacroIsShown' /\ CopyIsBefore' /\ Gathered'
  BY DEF DoneIsLast, Unsaved, MacroIsShown, CopyIsBefore, Gathered, Here
<1> QED BY <1>1, <1>2, <1>3 DEF Agreed

(* What the stages without a script of their own can count on.             *)
LEMMA NoScripts ==
  ASSUME Agreed, stage # "MESH",
         ~(front /\ stage \in {"SENSOR_RUNNING", "SENSOR_CHOICE"})
  PROVE  /\ ~Holds("BED_MESH_CALIBRATE") /\ ~Holds("Z_OFFSET_CALIBRATION")
         /\ ~OnWire("mesh")
BY DEF Agreed, MeshComesLast, MeshToldLast, MacroIsShown, Holds, OnWire

LEMMA HearAbortedAgrees == ASSUME TypeOK, Stays, Agreed, HearAborted PROVE Agreed'
<1>1. Shrinks /\ wire[1] = "aborted" /\ 1 \in DOMAIN wire
  BY HearShrinks DEF HearAborted
<1>2. /\ queue' = queue /\ probing' = probing /\ cfg' = cfg /\ before' = before
      /\ backup' = backup /\ outcome' = outcome /\ front' = front
      /\ pending' = pending /\ misheard' = misheard
  BY DEF HearAborted, klipper, files, history
<1>3. CASE active /\ stage = "ZOFFSET"
  <2>1. stage' = "INTRO" BY <1>3 DEF HearAborted
  <2>2. ~OnlyTicks BY <1>1 DEF OnlyTicks, Ticks
  <2>3. ~Holds("BED_MESH_CALIBRATE") /\ ~Holds("Z_OFFSET_CALIBRATION")
        /\ ~OnWire("mesh")
    BY <1>3, NoScripts
  <2>4. ~OnWire("mesh")' BY <1>1, <2>3 DEF OnWire, Shrinks
  <2>5. SaveComesFirst' BY <1>2, <2>2 DEF Agreed, SaveComesFirst
  <2>6. Kept' BY <1>2 DEF Agreed, Kept, OffsetTaken, Promised
  <2> QED BY <1>2, <2>1, <2>3, <2>4, <2>5, <2>6, LeavingAgrees DEF Holds
<1>4. CASE ~(active /\ stage = "ZOFFSET")
  <2>1. SameScreen BY <1>2, <1>4 DEF HearAborted, SameScreen
  <2> QED BY <1>1, <1>2, <2>1, LinesAgree
<1> QED BY <1>3, <1>4

LEMMA HearZOffsetAgrees == ASSUME TypeOK, Stays, Agreed, HearZOffset PROVE Agreed'
<1>1. Shrinks /\ wire[1] = "z_offset" /\ 1 \in DOMAIN wire
  BY HearShrinks DEF HearZOffset
<1>2. /\ probing' = probing /\ cfg' = cfg /\ before' = before
      /\ backup' = backup /\ outcome' = outcome /\ front' = front
      /\ pending' = pending
  BY DEF HearZOffset, files
<1>3. ~OnlyTicks BY <1>1 DEF OnlyTicks, Ticks
<1>4. CASE active /\ stage = "ZOFFSET"
  <2>1. stage' = "MESH" /\ Sent(<<"BED_MESH_CALIBRATE">>) BY <1>4 DEF HearZOffset
  <2>2. ~Holds("BED_MESH_CALIBRATE") /\ ~Holds("Z_OFFSET_CALIBRATION")
        /\ ~OnWire("mesh")
    BY <1>4, NoScripts
  <2>3. ~OnWire("mesh")' BY <1>1, <2>2 DEF OnWire, Shrinks
  <2>4. ~Holds("SAVE_CONFIG") BY <1>3 DEF Agreed, SaveComesFirst, Holds
  <2>5. cfg = before BY <1>3, <1>4 DEF Agreed, Unsaved, Barren
  <2>6. queue' = queue \/ (Adds(1) /\ queue'[Len(queue')] = "BED_MESH_CALIBRATE")
    BY <2>1, SentOne DEF Scripts
  <2>7. MeshComesLast' BY <2>1, <2>2, <2>3, <2>6 DEF MeshComesLast, Holds, Adds
  <2>8. SaveComesFirst' BY <2>4, <2>6 DEF SaveComesFirst, Holds, Adds
  <2>9. MacroIsShown' BY <2>2, <2>6 DEF MacroIsShown, Holds, Adds
  <2>10. MeshToldLast' BY <2>3 DEF MeshToldLast, OnWire
  <2>11. DoneIsLast' /\ Unsaved' /\ CopyIsBefore'
    BY <1>2, <2>1, <2>5 DEF DoneIsLast, Unsaved, CopyIsBefore, Here
  <2>12. outcome = "none" BY <1>4 DEF Stays
  <2>13. Kept' BY <1>2, <2>12 DEF Kept, Promised
  <2>14. OffsetTaken' BY <1>2, <1>4 DEF HearZOffset, OffsetTaken
  <2>15. Gathered' BY <2>1, <2>3, <2>14 DEF Gathered, Here
  <2> QED BY <2>7, <2>8, <2>9, <2>10, <2>11, <2>13, <2>15 DEF Agreed
<1>5. CASE active /\ stage = "SENSOR_RUNNING"
  <2>1. stage' = "SENSOR_CHOICE" /\ queue' = queue BY <1>5 DEF HearZOffset
  <2>2. front /\ outcome = "none" BY <1>5 DEF Stays
  <2>3. Only({"G28", "Z_OFFSET_CALIBRATION"}) /\ backup = before
    BY <1>5 DEF Agreed, CopyIsBefore
  <2>4. ~OnWire("mesh")' BY <1>1, <1>5 DEF Agreed, MeshToldLast, OnWire, Shrinks
  <2> QED BY <1>2, <2>1, <2>2, <2>3, <2>4, SensorAgrees DEF Only
<1>6. CASE ~(active /\ stage \in {"ZOFFSET", "SENSOR_RUNNING"})
  <2>1. queue' = queue /\ stage' = stage /\ misheard' = misheard
    BY <1>6 DEF HearZOffset
  <2>2. SameScreen BY <1>2, <2>1 DEF SameScreen
  <2> QED BY <1>1, <1>2, <2>1, <2>2, LinesAgree
<1> QED BY <1>4, <1>5, <1>6

LEMMA HearMeshAgrees == ASSUME TypeOK, Stays, Agreed, HearMesh PROVE Agreed'
<1>1. Shrinks /\ wire[1] = "mesh" /\ 1 \in DOMAIN wire
  BY HearShrinks DEF HearMesh
<1>2. /\ queue' = queue /\ probing' = probing /\ cfg' = cfg /\ before' = before
      /\ backup' = backup /\ outcome' = outcome /\ front' = front
      /\ pending' = pending /\ misheard' = misheard
  BY DEF HearMesh, klipper, files, history
<1>3. /\ queue = <<>> /\ stage = "MESH"
      /\ \A j \in DOMAIN wire : j > 1 => wire[j] \in Ticks
  BY <1>1 DEF Agreed, MeshToldLast
<1>4. front /\ active /\ outcome = "none" /\ cfg = before
  BY <1>3 DEF Stays, Agreed, Unsaved
<1>5. stage' = "DONE" BY <1>3, <1>4 DEF HearMesh
<1>6. OnlyTicks' BY <1>1, <1>3 DEF OnlyTicks, Shrinks
<1>7. DOMAIN queue' = {} BY <1>2, <1>3
<1>8. MeshToldLast' BY <1>6 DEF MeshToldLast, OnlyTicks, Ticks
<1>9. DoneIsLast' /\ Unsaved'
  BY <1>2, <1>3, <1>4, <1>5, <1>6 DEF DoneIsLast, Unsaved
<1>10. Kept' BY <1>2, <1>4 DEF Kept, Promised
<1>11. OffsetTaken /\ pending.mesh = "new"
  BY <1>1, <1>3 DEF Agreed, Gathered, OnWire
<1>12. Gathered' BY <1>2, <1>5, <1>11 DEF Gathered, OffsetTaken
<1> QED
  BY <1>5, <1>7, <1>8, <1>9, <1>10, <1>12 DEF Agreed, MeshComesLast, SaveComesFirst,
    MacroIsShown, Holds, CopyIsBefore, Here

(* The copy is what was there at Start.                                    *)
LEMMA FailureAgrees ==
  ASSUME TypeOK, Stays, Agreed, stage = "SENSOR_RUNNING", SensorRefineFailed,
         ~hasty', before' = before, wire' = wire \/ Shrinks
  PROVE  Agreed'
<1>1. backedUp /\ backup = before /\ Only({"G28", "Z_OFFSET_CALIBRATION"})
  BY DEF Stays, Agreed, CopyIsBefore
<1>2. /\ stage' = "INTRO" /\ outcome' = "failed" /\ cfg' = before
      /\ ~MacroUnfinished /\ Sent(<<"FIRMWARE_RESTART">>)
  BY <1>1 DEF SensorRefineFailed
<1>3. Only({"G28"})
  BY <1>1, <1>2 DEF Only, MacroUnfinished
<1>4. queue' = queue \/ (Adds(1) /\ queue'[Len(queue')] = "FIRMWARE_RESTART")
  BY <1>2, SentOne DEF Scripts
<1>5. Only({"G28", "FIRMWARE_RESTART"})'
  BY <1>3, <1>4 DEF Only, Adds
<1>6. ~OnWire("mesh")'
  BY DEF Agreed, MeshToldLast, OnWire, Shrinks
<1>7. SaveComesFirst' BY <1>5 DEF SaveComesFirst, Only
<1>8. Kept' BY <1>2 DEF Kept, Promised
<1> QED BY <1>2, <1>5, <1>6, <1>7, <1>8, LeavingAgrees DEF Holds, Only

LEMMA HearSensorErrorAgrees ==
  ASSUME TypeOK, Stays, Agreed, HearSensorError, ~hasty' PROVE Agreed'
<1>1. Shrinks BY HearShrinks DEF HearSensorError
<1>2. /\ before' = before /\ backup' = backup /\ probing' = probing /\ front' = front
      /\ pending' = pending /\ misheard' = misheard
  BY DEF HearSensorError
<1>3. CASE active /\ stage = "SENSOR_RUNNING"
  BY <1>1, <1>2, <1>3, FailureAgrees DEF HearSensorError
<1>4. CASE ~(active /\ stage = "SENSOR_RUNNING")
  <2>1. SameScreen /\ queue' = queue BY <1>2, <1>4 DEF HearSensorError, SameScreen
  <2> QED BY <1>1, <1>2, <2>1, LinesAgree
<1> QED BY <1>3, <1>4

LEMMA SensorTimeoutAgrees ==
  ASSUME TypeOK, Stays, Agreed, SensorTimeout, ~hasty' PROVE Agreed'
<1>1. /\ before' = before /\ backup' = backup /\ probing' = probing /\ front' = front
      /\ wire' = wire /\ pending' = pending /\ misheard' = misheard
  BY DEF SensorTimeout
<1>2. CASE stepActive
  BY <1>1, <1>2, FailureAgrees DEF SensorTimeout, Stays
<1>3. CASE ~stepActive
  <2>1. SameScreen /\ queue' = queue BY <1>1, <1>3 DEF SensorTimeout, SameScreen
  <2> QED BY <1>1, <2>1, LinesAgree
<1> QED BY <1>2, <1>3

LEMMA EnterAgrees ==
  ASSUME TypeOK, Stays, Agreed, Foreground \/ TapIntroBack PROVE Agreed'
<1>1. /\ queue' = queue /\ wire' = wire /\ cfg' = cfg /\ before' = before
      /\ outcome' = outcome /\ stage' = "INTRO"
      /\ pending' = pending /\ misheard' = misheard
  BY DEF Foreground, TapIntroBack, klipper, files, history
<1>2. ~front \/ stage = "INTRO" BY DEF Foreground, TapIntroBack
<1>3. ~Holds("BED_MESH_CALIBRATE") /\ ~Holds("Z_OFFSET_CALIBRATION")
      /\ ~OnWire("mesh")
  BY <1>2, NoScripts DEF Stays
<1>4. SaveComesFirst' BY <1>1 DEF Agreed, SaveComesFirst, OnlyTicks
<1>5. Kept' BY <1>1 DEF Agreed, Kept, OffsetTaken, Promised
<1> QED BY <1>1, <1>3, <1>4, <1>5, LeavingAgrees DEF Holds, OnWire

LEMMA TapStartAgrees == ASSUME TypeOK, Stays, Agreed, TapStart PROVE Agreed'
<1>1. /\ wire' = wire /\ cfg' = cfg /\ before' = cfg /\ outcome' = "none"
      /\ stage = "INTRO" /\ stage' = "ZOFFSET" /\ Sent(<<"G28", "PROBE_CALIBRATE">>)
  BY DEF TapStart, files
<1>2. ~Holds("BED_MESH_CALIBRATE") /\ ~Holds("Z_OFFSET_CALIBRATION")
      /\ ~OnWire("mesh")
  BY <1>1, NoScripts
<1>3. \/ queue' = queue
      \/ /\ Adds(2) /\ queue'[Len(queue) + 1] = "G28"
         /\ queue'[Len(queue) + 2] = "PROBE_CALIBRATE"
  BY <1>1, SentTwo DEF Scripts
<1>4. ~Holds("BED_MESH_CALIBRATE")' /\ ~Holds("Z_OFFSET_CALIBRATION")'
  BY <1>2, <1>3 DEF Holds, Adds
<1>5. SaveComesFirst'
  <2> SUFFICES ASSUME NEW i \in DOMAIN queue', queue'[i] = "SAVE_CONFIG"
               PROVE  i = 1 /\ OnlyTicks
    BY <1>1 DEF SaveComesFirst, OnlyTicks
  <2>1. i \in DOMAIN queue /\ queue[i] = "SAVE_CONFIG" BY <1>3 DEF Adds
  <2> QED BY <2>1 DEF Agreed, SaveComesFirst
<1>6. MeshComesLast' /\ MacroIsShown' BY <1>4 DEF MeshComesLast, MacroIsShown, Holds
<1>7. MeshToldLast' BY <1>1, <1>2 DEF MeshToldLast, OnWire
<1>8. DoneIsLast' /\ Unsaved' /\ CopyIsBefore'
  BY <1>1 DEF DoneIsLast, Unsaved, CopyIsBefore, Here
<1>9. Kept' BY <1>1 DEF Kept, Promised
<1>10. Gathered' BY <1>1, <1>7 DEF Gathered, MeshToldLast, OnWire, Here
<1> QED BY <1>5, <1>6, <1>7, <1>8, <1>9, <1>10 DEF Agreed

LEMMA TapAcceptAgrees == ASSUME TypeOK, Stays, Agreed, TapAccept PROVE Agreed'
<1>1. /\ wire' = wire /\ SameScreen /\ probing' = probing
      /\ stage = "ZOFFSET" /\ Sent(<<"ACCEPT">>)
  BY DEF TapAccept, SameScreen, files, history
<1>2. /\ cfg' = cfg /\ before' = before /\ outcome' = outcome /\ front' = front
      /\ stage' = "ZOFFSET"
  BY <1>1 DEF SameScreen
<1>3. ~Holds("BED_MESH_CALIBRATE") /\ ~Holds("Z_OFFSET_CALIBRATION")
      /\ ~OnWire("mesh")
  BY <1>1, NoScripts
<1>4. queue' = queue \/ (Adds(1) /\ queue'[Len(queue')] = "ACCEPT")
  BY <1>1, SentOne DEF Scripts
<1>5. ~Holds("BED_MESH_CALIBRATE")' /\ ~Holds("Z_OFFSET_CALIBRATION")'
  BY <1>3, <1>4 DEF Holds, Adds
<1>6. SaveComesFirst'
  <2> SUFFICES ASSUME NEW i \in DOMAIN queue', queue'[i] = "SAVE_CONFIG"
               PROVE  i = 1 /\ OnlyTicks /\ outcome \in {"none", "save"}
    BY <1>1, <1>2 DEF SaveComesFirst, OnlyTicks
  <2>1. i \in DOMAIN queue /\ queue[i] = "SAVE_CONFIG" BY <1>4 DEF Adds
  <2> QED BY <2>1 DEF Agreed, SaveComesFirst
<1>7. Barren => Barren' BY <1>1, <1>4 DEF Barren, OnlyTicks, Only, Adds, Ends
<1>8. MeshComesLast' /\ MacroIsShown' BY <1>5 DEF MeshComesLast, MacroIsShown, Holds
<1>9. MeshToldLast' BY <1>1, <1>3 DEF MeshToldLast, OnWire
<1>10. DoneIsLast' /\ Unsaved' /\ CopyIsBefore'
  BY <1>1, <1>2, <1>7 DEF Agreed, DoneIsLast, Unsaved, CopyIsBefore, Here
<1>11. outcome = "none" BY <1>1 DEF Stays
<1>12. Kept' BY <1>1, <1>11, SameScreenKeepsPromise DEF Agreed
<1>13. Gathered' BY <1>1, <1>2, <1>3 DEF Gathered, OnWire, Here
<1> QED BY <1>6, <1>8, <1>9, <1>10, <1>12, <1>13 DEF Agreed

LEMMA TapAbortAgrees == ASSUME TypeOK, Stays, Agreed, TapAbort PROVE Agreed'
<1>1. /\ wire' = wire /\ cfg' = cfg /\ before' = before /\ outcome' = outcome
      /\ stage = "ZOFFSET" /\ stage' = "INTRO" /\ Sent(<<"ABORT">>)
  BY DEF TapAbort, files, history
<1>2. ~Holds("BED_MESH_CALIBRATE") /\ ~Holds("Z_OFFSET_CALIBRATION")
      /\ ~OnWire("mesh")
  BY <1>1, NoScripts
<1>3. queue' = queue \/ (Adds(1) /\ queue'[Len(queue')] = "ABORT")
  BY <1>1, SentOne DEF Scripts
<1>4. ~Holds("BED_MESH_CALIBRATE")' /\ ~Holds("Z_OFFSET_CALIBRATION")'
  BY <1>2, <1>3 DEF Holds, Adds
<1>5. SaveComesFirst'
  <2> SUFFICES ASSUME NEW i \in DOMAIN queue', queue'[i] = "SAVE_CONFIG"
               PROVE  i = 1 /\ OnlyTicks /\ outcome \in {"none", "save"}
    BY <1>1 DEF SaveComesFirst, OnlyTicks
  <2>1. i \in DOMAIN queue /\ queue[i] = "SAVE_CONFIG" BY <1>3 DEF Adds
  <2> QED BY <2>1 DEF Agreed, SaveComesFirst
<1>6. outcome = "none" BY <1>1 DEF Stays
<1>7. Kept' BY <1>1, <1>6 DEF Kept, Promised
<1> QED BY <1>1, <1>2, <1>4, <1>5, <1>7, LeavingAgrees DEF OnWire

LEMMA TapSaveOrBackAgrees == ASSUME TypeOK, Stays, Agreed, TapSaveOrBack PROVE Agreed'
<1>1. front /\ stage = "DONE" BY DEF TapSaveOrBack, Tappable
<1>2. queue = <<>> /\ OnlyTicks /\ cfg = before
  BY <1>1 DEF Agreed, DoneIsLast, Unsaved, Here
<1>3. /\ wire' = wire /\ cfg' = cfg /\ before' = before /\ ~front' /\ stage' = "DONE"
  BY <1>1 DEF TapSaveOrBack, files
<1>4. PICK s \in {"SAVE_CONFIG", "G28"} :
        /\ Sent(<<s>>) /\ (s = "SAVE_CONFIG" => outcome' = "save")
        /\ outcome' \in {"save", "back"}
        /\ (outcome' = "save" => s = "SAVE_CONFIG")
  BY DEF TapSaveOrBack
<1>5. Adds(1) /\ queue'[Len(queue')] = s
  <2>1. connected /\ klippy = "up" BY DEF TapSaveOrBack, Tappable
  <2> QED BY <1>4, <2>1, SentOne DEF Scripts
<1>6. \A i \in DOMAIN queue' : i = 1 /\ queue'[i] = s
  <2>1. DOMAIN queue = {} /\ Len(queue) = 0 BY <1>2
  <2> QED BY <1>5, <2>1 DEF Adds
<1>7. SaveComesFirst' BY <1>2, <1>3, <1>4, <1>6 DEF SaveComesFirst, OnlyTicks
<1>8. Kept'
  <2>1. CASE outcome' = "back" BY <1>2, <1>3, <2>1 DEF Kept, Promised
  <2>2. CASE outcome' = "save"
    <3>1. OffsetTaken /\ pending.mesh = "new" BY <1>1 DEF Agreed, Gathered, Here
    <3>2. pending' = pending /\ misheard' = misheard BY DEF TapSaveOrBack
    <3>3. Len(queue) = 0 BY <1>2
    <3>4. Len(queue') = 1 /\ queue'[1] = "SAVE_CONFIG"
      BY <1>4, <1>5, <2>2, <3>3 DEF Adds
    <3>5. queue' # <<>> BY <3>4
    <3> QED BY <2>2, <3>1, <3>2, <3>4, <3>5 DEF Kept, OffsetTaken
  <2> QED BY <1>4, <2>1, <2>2
<1>9. ~OnWire("mesh")' BY <1>2, <1>3 DEF OnWire, OnlyTicks, Ticks
<1>10. ~Holds("BED_MESH_CALIBRATE")' /\ ~Holds("Z_OFFSET_CALIBRATION")'
  BY <1>6 DEF Holds
<1> QED BY <1>3, <1>7, <1>8, <1>9, <1>10, LeavingAgrees

LEMMA TapRefineAgrees == ASSUME TypeOK, Stays, Agreed, TapRefine PROVE Agreed'
<1>1. front /\ stage = "DONE" BY DEF TapRefine, Tappable
<1>2. queue = <<>> /\ OnlyTicks /\ cfg = before /\ outcome = "none"
  BY <1>1 DEF Agreed, DoneIsLast, Unsaved, Here, Stays
<1>3. /\ wire' = wire /\ backup' = cfg /\ before' = before /\ front' = front
      /\ stage' = "SENSOR_RUNNING" /\ outcome' = outcome
      /\ Sent(<<"G28", "Z_OFFSET_CALIBRATION">>)
  BY DEF TapRefine, history
<1>4. \/ queue' = queue
      \/ /\ Adds(2) /\ queue'[Len(queue) + 1] = "G28"
         /\ queue'[Len(queue) + 2] = "Z_OFFSET_CALIBRATION"
  BY <1>3, SentTwo DEF Scripts
<1>5. Only({"G28", "Z_OFFSET_CALIBRATION"})'
  <2>1. DOMAIN queue = {} /\ Len(queue) = 0 BY <1>2
  <2> QED BY <1>4, <2>1 DEF Only, Adds
<1>6. ~OnWire("mesh")' BY <1>2, <1>3 DEF OnWire, OnlyTicks, Ticks
<1> QED BY <1>1, <1>2, <1>3, <1>5, <1>6, SensorAgrees

LEMMA TapChoiceAgrees == ASSUME TypeOK, Stays, Agreed, TapChoice, ~hasty' PROVE Agreed'
<1>1. front /\ stage = "SENSOR_CHOICE" BY DEF TapChoice, Tappable
<1>2. backup = before /\ Only({"G28", "Z_OFFSET_CALIBRATION"})
  BY <1>1 DEF Agreed, CopyIsBefore, Here
<1>3. /\ wire' = wire /\ before' = before /\ ~front' /\ stage' = stage
      /\ ~MacroUnfinished /\ Sent(<<"FIRMWARE_RESTART">>)
  BY DEF TapChoice
<1>4. Only({"G28"}) BY <1>2, <1>3 DEF Only, MacroUnfinished
<1>5. queue' = queue \/ (Adds(1) /\ queue'[Len(queue')] = "FIRMWARE_RESTART")
  BY <1>3, SentOne DEF Scripts
<1>6. Only({"G28", "FIRMWARE_RESTART"})' BY <1>4, <1>5 DEF Only, Adds
<1>7. ~OnWire("mesh")' BY <1>1, <1>3 DEF Agreed, MeshToldLast, OnWire
<1>8. SaveComesFirst' BY <1>6 DEF SaveComesFirst, Only
<1>9. Kept'
  <2>1. CASE cfg' = backup /\ outcome' = "discard"
    BY <1>2, <1>3, <2>1 DEF Kept, Promised
  <2>2. ASSUME NEW z \in {"paper", "sensor"}, cfg' = [cfg EXCEPT !.z = z], outcome' = z
        PROVE  Kept'
    <3>1. cfg \in Config BY DEF TypeOK
    <3>2. cfg'.z = z BY <2>2, <3>1 DEF Config
    <3> QED BY <2>2, <3>2 DEF Kept, Promised
  <2> QED BY <2>1, <2>2 DEF TapChoice
<1> QED BY <1>1, <1>3, <1>6, <1>7, <1>8, <1>9, LeavingAgrees DEF Holds, Only

LEMMA NextFile == ASSUME TypeOK, Stays, FileInv, [Next]_vars PROVE FileInv'
<1> SUFFICES ASSUME Fair' PROVE Agreed' BY DEF FileInv
<1>1. (hasty => hasty') /\ (savedElsewhere => savedElsewhere')
  <2>1. HearSensorError \/ SensorTimeout \/ TapChoice => (hasty => hasty')
    <3>1. SensorRefineFailed => (hasty => hasty')
      <4>1. SensorRefineFailed => hasty' = hasty \/ hasty' = (hasty \/ MacroUnfinished)
        BY Zenon DEF SensorRefineFailed
      <4> QED BY <4>1
    <3>2. TapChoice => (hasty => hasty') BY DEF TapChoice
    <3> QED BY <3>1, <3>2 DEF HearSensorError, SensorTimeout
  <2>2. ~(HearSensorError \/ SensorTimeout \/ TapChoice) => hasty' = hasty
    BY DEF Next, Scripted, Hear, Taps, vars, history, Homing, ProbeCalibrate,
      EndProbe, BedMesh, SaveOrRestart, SensorMacro, KlippyUp, StatusTick, Drop,
      Reconnect, SaveElsewhere, HearProbe, HearAborted, HearZOffset, HearMesh,
      HearSensorError, SensorTimeout, Foreground, TapIntroBack, TapStart,
      TapAccept, TapAbort, TapSaveOrBack, TapRefine, TapChoice
  <2>3. savedElsewhere => savedElsewhere'
    BY DEF Next, Scripted, Hear, Taps, vars, history, Homing, ProbeCalibrate,
      EndProbe, BedMesh, SaveOrRestart, SensorMacro, KlippyUp, StatusTick, Drop,
      Reconnect, SaveElsewhere, HearProbe, HearAborted, HearZOffset, HearMesh,
      HearSensorError, SensorTimeout, Foreground, TapIntroBack, TapStart,
      TapAccept, TapAbort, TapSaveOrBack, TapRefine, TapChoice
  <2> QED BY <2>1, <2>2, <2>3
<1>2. Agreed /\ ~SaveElsewhere /\ ~hasty' BY <1>1 DEF Fair, FileInv, SaveElsewhere
<1>3. CASE Scripted
  BY <1>2, <1>3, HomingAgrees, ProbeCalibrateAgrees, EndProbeAgrees, BedMeshAgrees,
    SaveOrRestartAgrees, SensorMacroAgrees DEF Scripted
<1>4. CASE Hear
  BY <1>2, <1>4, AroundAgrees, HearAbortedAgrees, HearZOffsetAgrees,
    HearMeshAgrees, HearSensorErrorAgrees DEF Hear
<1>5. CASE Taps
  BY <1>2, <1>5, EnterAgrees, TapStartAgrees, TapAcceptAgrees, TapAbortAgrees,
    TapSaveOrBackAgrees, TapRefineAgrees, TapChoiceAgrees DEF Taps
<1>6. CASE KlippyUp \/ StatusTick \/ Drop \/ Reconnect \/ SensorTimeout \/ UNCHANGED vars
  BY <1>2, <1>6, AroundAgrees, SensorTimeoutAgrees
<1> QED BY <1>2, <1>3, <1>4, <1>5, <1>6 DEF Next

(* However many runs, scripts and losses of the connection, and whichever  *)
(* scripts fail or hang: however the wizard is left, printer.cfg holds     *)
(* what the screen said -- after Save & Restart the new mesh and the       *)
(* accepted offset, unless the offset was an earlier run's --, unless it   *)
(* was written while the sensor macro had yet to save it or another panel  *)
(* has run SAVE_CONFIG (recalibration_wizard_panel.cpp:675-680, 751-755,   *)
(* 599-601, 518-521, 724-729).                                             *)
THEOREM PromisesAreKept == Spec => []OnlyRacesBreakPromises
<1>1. Init => FileInv
  <2> SUFFICES ASSUME Init PROVE Agreed BY DEF FileInv
  <2>1. DOMAIN queue = {} /\ DOMAIN wire = {} BY DEF Init
  <2> QED
    BY <2>1 DEF Init, Agreed, MeshComesLast, MeshToldLast, DoneIsLast,
      SaveComesFirst, Unsaved, MacroIsShown, CopyIsBefore, Gathered, Kept,
      Promised, Holds, OnWire, Here
<1>2. FileInv => OnlyRacesBreakPromises
  BY DEF FileInv, Fair, Agreed, Kept, Settled, OnlyRacesBreakPromises
<1> QED BY <1>1, <1>2, InitTypes, NextTypes, NextFile, PTL DEF Spec
=============================================================================
