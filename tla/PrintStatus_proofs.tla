-------------------------- MODULE PrintStatus_proofs --------------------------
(***************************************************************************)
(* What the print status screen, the home screen and the Objects screen    *)
(* make of the reports of Klipper, for any files, parts, prints, taps,     *)
(* commands of other clients and losses of the connection.                 *)
(***************************************************************************)
EXTENDS PrintStatus, SequenceTheorems, TLAPS

-----------------------------------------------------------------------------
(* What a print does *)

Types ==
  /\ status \in Status /\ cache \in Status
  /\ reported \in Status \cup {None} /\ wire \in Seq(Report)
  /\ commands \subseteq Command /\ jobs \in 0..MaxJobs
  /\ question = NoQuestion \/ question.op \in {"cancel", "exclude"}
  /\ question.op = "exclude" => question.part \in Parts

Life ==
  /\ going # "no" => status.state = "paused"
  /\ status.state = "standby" => status.file = None
  /\ status.state # "standby" => jobs # 0
  /\ status.paused => status.state = "paused" /\ going = "no"
  /\ status.state = "paused" /\ going = "no" => status.paused

(* The ways the status moves, one after the other.                         *)
Starts ==
  /\ Steady /\ status.state \notin Running
  /\ status'.state = "printing" /\ ~status'.paused /\ status'.excluded = {}
  /\ jobs' = jobs + 1 /\ going' = going
Ends ==
  /\ Steady /\ status.state \in Running /\ status'.state \in Over
  /\ status'.file = status.file /\ ~status'.paused
  /\ jobs' = jobs /\ going # "pause" /\ going' = "no"
Clears ==
  /\ Steady /\ status.state \in Over /\ status' = Idle
  /\ jobs' = jobs /\ going' = going
Pauses ==
  /\ Steady /\ status.state = "printing" /\ status'.state = "paused"
  /\ status'.file = status.file /\ status'.paused = status.paused
  /\ jobs' = jobs /\ going = "no" /\ going' = "pause"
Resumes ==
  /\ Steady /\ status.state = "paused" /\ status'.state = "paused"
  /\ status'.file = status.file /\ ~status'.paused
  /\ jobs' = jobs /\ going = "no" /\ going' = "resume"
Excludes ==
  /\ status'.state = status.state
  /\ status'.file = status.file /\ status'.paused = status.paused
  /\ jobs' = jobs /\ going' = going
Settles ==
  /\ going # "no" /\ going' = "no" /\ jobs' = jobs /\ status'.file = status.file
  /\ IF going = "pause" THEN status'.state = status.state /\ status'.paused
     ELSE status'.state = "printing" /\ status'.paused = status.paused

Moves == Starts \/ Ends \/ Clears \/ Pauses \/ Resumes \/ Excludes \/ Settles

Klipper ==
  \/ \E f \in Files : StartPrint(f)
  \/ FinishPrint \/ Settle \/ ClearFile
  \/ \E c \in commands : Execute(c)
  \/ \E c \in Command : OtherClient(c)

User ==
  \/ \E r \in asked, ok \in BOOLEAN : HandleMetadata(r, ok)
  \/ \E op \in {"pause", "resume"} : TapButton(op)
  \/ TapCancel \/ TapObjects \/ TapBack \/ TapDone
  \/ \E p \in Parts : TapPart(p)
  \/ \E yes \in BOOLEAN : Answer(yes)
  \/ UNCHANGED vars

(* A status with some of its fields changed is one.                        *)
LEMMA StateSet ==
  ASSUME NEW s \in Status, NEW x \in Running \cup Over, NEW t,
         t = [s EXCEPT !.state = x]
  PROVE  /\ t \in Status /\ t.state = x
         /\ t.file = s.file /\ t.paused = s.paused /\ t.excluded = s.excluded
  BY DEF Status

LEMMA PausedSet ==
  ASSUME NEW s \in Status, NEW b \in BOOLEAN, NEW t, t = [s EXCEPT !.paused = b]
  PROVE  /\ t \in Status /\ t.paused = b
         /\ t.file = s.file /\ t.state = s.state /\ t.excluded = s.excluded
  BY DEF Status

LEMMA Cancelled ==
  ASSUME NEW s \in Status, NEW t,
         t = [s EXCEPT !.state = "cancelled", !.paused = FALSE]
  PROVE  /\ t \in Status /\ t.state = "cancelled" /\ t.paused = FALSE
         /\ t.file = s.file /\ t.excluded = s.excluded
  BY DEF Status, Ended, Over

LEMMA ExcludedSet ==
  ASSUME NEW s \in Status, NEW p \in Parts, NEW t,
         t = [s EXCEPT !.excluded = @ \cup {p}]
  PROVE  /\ t \in Status /\ t.excluded = s.excluded \cup {p}
         /\ t.state = s.state /\ t.file = s.file /\ t.paused = s.paused
  BY DEF Status

LEMMA Fresh ==
  ASSUME NEW f \in Files, NEW t, t = [Idle EXCEPT !.state = "printing", !.file = f]
  PROVE  /\ t \in Status /\ t.state = "printing" /\ t.file = f
         /\ t.paused = FALSE /\ t.excluded = {}
  BY DEF Status, Idle, Running

LEMMA IdleIsOne ==
  /\ Idle \in Status /\ Idle.state = "standby" /\ Idle.file = None
  /\ Idle.paused = FALSE /\ Idle.excluded = {}
  BY DEF Status, Idle

LEMMA Taken ==
  ASSUME Types, Life, Steady, NEW c \in Command, Takes(c), jobs' = jobs, going # "pause"
  PROVE  /\ status' \in Status /\ Moves
         /\ c.op # "exclude" => status'.excluded = status.excluded
         /\ c.op = "exclude" => status'.excluded = status.excluded \cup {c.part}
<1>0. /\ status \in Status
      /\ {"paused", "complete", "cancelled"} \subseteq Running \cup Over
  BY DEF Types, Running, Ended, Over
<1>1. CASE c.op = "pause"
  <2>1. /\ status' = [status EXCEPT !.state = "paused"]
        /\ status.state = "printing" /\ going = "no" /\ going' = "pause"
    BY <1>1 DEF Takes
  <2>2. /\ status' \in Status /\ status'.state = "paused" /\ status'.file = status.file
        /\ status'.paused = status.paused /\ status'.excluded = status.excluded
    BY <1>0, <2>1, StateSet
  <2>3. QED BY <1>1, <2>1, <2>2 DEF Moves, Pauses
<1>2. CASE c.op = "resume"
  <2>1. /\ status' = [status EXCEPT !.paused = FALSE]
        /\ status.state = "paused" /\ going = "no" /\ going' = "resume"
    BY <1>2 DEF Takes
  <2>2. /\ status' \in Status /\ status'.state = "paused" /\ status'.file = status.file
        /\ ~status'.paused /\ status'.excluded = status.excluded
    BY <1>0, <2>1, PausedSet
  <2>3. QED BY <1>2, <2>1, <2>2 DEF Moves, Resumes
<1>3. CASE c.op = "cancel"
  <2>1. /\ status' = [status EXCEPT !.state = "cancelled", !.paused = FALSE]
        /\ status.state \in Running /\ going' = "no"
    BY <1>3 DEF Takes
  <2>2. /\ status' \in Status /\ status'.state = "cancelled" /\ status'.file = status.file
        /\ status'.paused = FALSE /\ status'.excluded = status.excluded
    BY <1>0, <2>1, Cancelled
  <2>3. QED BY <1>3, <2>1, <2>2 DEF Moves, Ends, Ended, Over
<1>4. CASE c.op = "exclude"
  <2>1. c.part \in Parts
    BY <1>4 DEF Command
  <2>2. status' = [status EXCEPT !.excluded = @ \cup {c.part}] /\ going' = going
    BY <1>4 DEF Takes
  <2>3. /\ status' \in Status /\ status'.excluded = status.excluded \cup {c.part}
        /\ status'.state = status.state /\ status'.file = status.file
        /\ status'.paused = status.paused
    BY <1>0, <2>1, <2>2, ExcludedSet
  <2>4. QED BY <1>4, <2>2, <2>3 DEF Moves, Excludes
<1>5. QED BY <1>1, <1>2, <1>3, <1>4 DEF Takes

(* Klipper moves the status in these ways only.                            *)
LEMMA KlipperMoves ==
  ASSUME Types, Life, Klipper
  PROVE  /\ status' \in Status /\ jobs' \in 0..MaxJobs /\ commands' \subseteq Command
         /\ Moves \/ UNCHANGED <<status, jobs, going>>
         /\ UNCHANGED <<connected, reported, wire, cache, synced, question>>
<1> USE DEF link
<1>0. /\ status \in Status
      /\ {"printing", "complete", "error"} \subseteq Running \cup Over
      /\ {"complete", "error"} \subseteq Over
  BY DEF Types, Running, Ended, Over
<1>1. ASSUME NEW f \in Files, StartPrint(f) PROVE status' \in Status /\ Starts
  <2>1. status' = [Idle EXCEPT !.state = "printing", !.file = f]
    BY <1>1 DEF StartPrint
  <2>2. QED BY <1>1, <2>1, Fresh DEF StartPrint, Starts
<1>2. CASE FinishPrint
  <2>1. /\ status.state = "printing"
        /\ \E x \in {"complete", "error"} : status' = [status EXCEPT !.state = x]
    BY <1>2 DEF FinishPrint
  <2>2. status' \in Status /\ status'.state \in Over /\ status'.file = status.file
        /\ status'.paused = status.paused
    <3>1. PICK x \in {"complete", "error"} : status' = [status EXCEPT !.state = x]
      BY <2>1
    <3>2. QED BY <1>0, <3>1, StateSet
  <2>3. ~status'.paused
    BY <2>1, <2>2 DEF Life
  <2>4. Ends
    BY <1>2, <2>1, <2>2, <2>3 DEF FinishPrint, Ends, Running
  <2>5. QED
    BY <1>2, <2>2, <2>4 DEF FinishPrint, Moves, Types, asking
<1>3. CASE Settle
  <2>1. going # "no" /\ going' = "no" /\ UNCHANGED jobs
    BY <1>3 DEF Settle
  <2>2. CASE going = "pause"
    <3>1. status' = [status EXCEPT !.paused = TRUE]
      BY <1>3, <2>2 DEF Settle
    <3>2. status' \in Status /\ Settles
      BY <1>0, <2>1, <2>2, <3>1, PausedSet DEF Settles
    <3>3. QED BY <1>3, <3>2 DEF Settle, Moves, Types, asking
  <2>3. CASE going # "pause"
    <3>1. status' = [status EXCEPT !.state = "printing"]
      BY <1>3, <2>3 DEF Settle
    <3>2. status' \in Status /\ Settles
      BY <1>0, <2>1, <2>3, <3>1, StateSet DEF Settles
    <3>3. QED BY <1>3, <3>2 DEF Settle, Moves, Types, asking
  <2>4. QED BY <2>2, <2>3
<1>4. CASE ClearFile
  <2>1. status' = Idle /\ status.state \in Over
    BY <1>4 DEF ClearFile, Life, Types, Status
  <2>2. QED
    BY <1>4, <2>1, IdleIsOne DEF ClearFile, Clears, Moves, Types, asking
<1>5. ASSUME NEW c \in commands, Execute(c)
      PROVE  status' \in Status /\ (Moves \/ UNCHANGED <<status, jobs, going>>)
  <2>1. c \in Command /\ Steady /\ jobs' = jobs /\ going # "pause"
    BY <1>5 DEF Execute, Types
  <2>2. Takes(c) \/ UNCHANGED <<status, going>>
    BY <1>5 DEF Execute
  <2>3. QED BY <2>1, <2>2, Taken DEF Types
<1>6. ASSUME NEW c \in Command, OtherClient(c) PROVE status' \in Status /\ Moves
  <2>1. Steady /\ jobs' = jobs /\ Takes(c) /\ going # "pause"
    BY <1>6 DEF OtherClient
  <2>2. QED BY <2>1, Taken
<1>7. ASSUME NEW f \in Files, StartPrint(f)
      PROVE  /\ jobs' \in 0..MaxJobs /\ commands' \subseteq Command
             /\ UNCHANGED <<connected, reported, wire, cache, synced, question>>
  BY <1>7, PrintStatusAssumption DEF StartPrint, Types, asking
<1>8. ASSUME NEW c, Execute(c) \/ OtherClient(c)
      PROVE  /\ jobs' \in 0..MaxJobs /\ commands' \subseteq Command
             /\ UNCHANGED <<connected, reported, wire, cache, synced, question>>
  BY <1>8 DEF Execute, OtherClient, Types, asking
<1>9. QED
  BY <1>1, <1>2, <1>3, <1>4, <1>5, <1>6, <1>7, <1>8 DEF Klipper, Moves

(* Nothing the user does, and no metadata, touches reports or the status.  *)
LEMMA UserLeaves ==
  ASSUME User
  PROVE  UNCHANGED <<status, jobs, going, connected, reported, wire, cache, synced>>
  BY DEF User, HandleMetadata, TapButton, TapCancel, TapObjects, TapBack, TapDone,
         TapPart, Answer, klipper, link, vars

LEMMA UserTypes ==
  ASSUME Types, User
  PROVE  /\ commands' \subseteq Command
         /\ question' = NoQuestion \/ question'.op \in {"cancel", "exclude"}
         /\ question'.op = "exclude" => question'.part \in Parts
<1>1. CASE \/ \E r \in asked, ok \in BOOLEAN : HandleMetadata(r, ok)
          \/ TapObjects \/ TapBack \/ TapDone \/ UNCHANGED vars
  BY <1>1 DEF HandleMetadata, TapObjects, TapBack, TapDone, asking, vars, Types
<1>2. CASE \E op \in {"pause", "resume"} : TapButton(op)
  BY <1>2 DEF TapButton, Send, Command, Types
<1>3. CASE TapCancel
  <2>1. question'.op = "cancel" /\ UNCHANGED commands
    BY <1>3 DEF TapCancel, NoQuestion
  <2>2. QED BY <2>1 DEF Types
<1>4. ASSUME NEW p \in Parts, TapPart(p)
      PROVE  /\ question'.op \in {"cancel", "exclude"} /\ question'.part \in Parts
             /\ UNCHANGED commands
  BY <1>4 DEF TapPart, ConfirmExclude
<1>5. ASSUME NEW yes \in BOOLEAN, Answer(yes) PROVE commands' \subseteq Command
  <2> DEFINE part == IF question.op = "exclude" THEN question.part ELSE None
             cmd  == [op |-> question.op, part |-> part]
  <2>1. question.op \in {"cancel", "exclude"} /\ commands \subseteq Command
    BY <1>5 DEF Answer, Types
  <2>2. cmd \in Command
    BY <2>1 DEF Command, Types
  <2>3. commands' \in {commands, commands \cup {cmd}}
    BY <1>5 DEF Answer, Send
  <2>4. QED BY <2>1, <2>2, <2>3
<1>6. ASSUME NEW yes \in BOOLEAN, Answer(yes)
      PROVE  question' = NoQuestion /\ question'.op = "none"
  BY <1>6 DEF Answer, NoQuestion
<1>7. QED BY <1>1, <1>2, <1>3, <1>4, <1>5, <1>6 DEF User, Types

-----------------------------------------------------------------------------
(* The reports *)

(* Reports follow each other without a gap, from what the screen has to    *)
(* what was last reported; the first after a handshake is the snapshot.    *)
Reports ==
  /\ ~connected => reported = None
  /\ reported = None => wire = <<>> /\ ~synced
  /\ reported # None => IF wire = <<>> THEN synced /\ cache = reported
                        ELSE wire[Len(wire)].now = reported
  /\ \A i \in 1..Len(wire) :
       /\ wire[i].snapshot <=> i = 1 /\ ~synced
       /\ wire[i].was = IF i # 1 THEN wire[i-1].now
                        ELSE IF synced THEN cache ELSE wire[i].now

(* What may change from one report to the next.                            *)
Change(was, now) ==
  /\ was.state = now.state => was.file = now.file
  /\ was.state # now.state /\ now.state \in Over => was.state \in Running
  /\ was.file # now.file => now.state \in {"printing", "standby"} /\ ~now.paused

Pending ==
  reported # None =>
    /\ Change(reported, status)
    /\ reported.state \in Running => reported.file = status.file
    /\ reported # status /\ reported.state \notin Running => going = "no"
    /\ going = "pause" => ~reported.paused

Changes == \A i \in 1..Len(wire) : Change(wire[i].was, wire[i].now)

Base == Types /\ Life /\ Reports /\ Pending /\ Changes

LEMMA Appended ==
  ASSUME NEW S, NEW s \in Seq(S), NEW x \in S
  PROVE  /\ Append(s, x) \in Seq(S) /\ Append(s, x) # <<>>
         /\ Len(Append(s, x)) = Len(s) + 1 /\ Len(s) \in Nat
         /\ Append(s, x)[Len(s) + 1] = x
         /\ \A i \in 1..Len(s) : Append(s, x)[i] = s[i]
         /\ \A i \in 1..(Len(s) + 1) : i = Len(s) + 1 \/ i \in 1..Len(s)
<1>1. /\ Append(s, x) \in Seq(S) /\ Len(Append(s, x)) = Len(s) + 1 /\ Len(s) \in Nat
  OBVIOUS
<1>2. /\ Append(s, x)[Len(s) + 1] = x
      /\ \A i \in 1..Len(s) : Append(s, x)[i] = s[i]
  OBVIOUS
<1>3. \A i \in 1..(Len(s) + 1) : i = Len(s) + 1 \/ i \in 1..Len(s)
  BY <1>1
<1>4. Append(s, x) # <<>>
  BY <1>1
<1>5. QED BY <1>1, <1>2, <1>3, <1>4

LEMMA Tailed ==
  ASSUME NEW S, NEW s \in Seq(S), s # <<>>
  PROVE  /\ Tail(s) \in Seq(S) /\ Head(s) = s[1] /\ s[1] \in S
         /\ Len(Tail(s)) = Len(s) - 1 /\ Len(s) \in Nat /\ 1 \in 1..Len(s)
         /\ \A i \in 1..Len(Tail(s)) : i + 1 \in 1..Len(s) /\ Tail(s)[i] = s[i + 1]
         /\ (Tail(s) = <<>> <=> Len(s) = 1)
<1>1. /\ Tail(s) \in Seq(S) /\ Len(Tail(s)) = Len(s) - 1 /\ Len(s) \in Nat
      /\ Len(s) # 0 /\ Head(s) = s[1]
  OBVIOUS
<1>2. 1 \in 1..Len(s) /\ s[1] \in S
  BY <1>1
<1>3. \A i \in 1..Len(Tail(s)) : i + 1 \in 1..Len(s) /\ Tail(s)[i] = s[i + 1]
  BY <1>1
<1>4. Tail(s) = <<>> <=> Len(s) = 1
  <2> DEFINE u == Tail(s)
  <2>1. u \in Seq(S) /\ Len(u) = Len(s) - 1 BY <1>1
  <2> HIDE DEF u
  <2>2. u = <<>> <=> Len(u) = 0 BY <2>1, EmptySeq
  <2>3. QED BY <1>1, <2>1, <2>2 DEF u
<1>5. QED BY <1>1, <1>2, <1>3, <1>4

LEMMA MovesKeepLife == ASSUME Types, Life, Moves PROVE Life'
  BY DEF Types, Life, Moves, Starts, Ends, Clears, Pauses, Resumes, Excludes, Settles,
         Running, Ended, Over, Idle

LEMMA MovesKeepPending ==
  ASSUME Types, Life, Pending, Moves, UNCHANGED reported
  PROVE  Pending'
<1>1. CASE reported = None
  BY <1>1 DEF Pending
<1>2. CASE reported # None /\ Steady
  <2>1. reported = status
    BY <1>2 DEF Steady
  <2>2. QED
    BY <2>1 DEF Types, Life, Pending, Change, Moves, Starts, Ends, Clears, Pauses, Resumes,
       Excludes, Settles, Running, Ended, Over, Idle
<1>3. CASE reported # None /\ ~Steady
  <2>1. Excludes \/ Settles
    BY <1>3 DEF Moves, Starts, Ends, Clears, Pauses, Resumes
  <2>2. QED
    BY <2>1, <1>3 DEF Types, Life, Pending, Change, Excludes, Settles, Running, Ended, Over
<1>4. QED BY <1>1, <1>2, <1>3

LEMMA KlipperKeeps == ASSUME Base, Klipper PROVE Base'
<1>1. /\ status' \in Status /\ jobs' \in 0..MaxJobs /\ commands' \subseteq Command
      /\ Moves \/ UNCHANGED <<status, jobs, going>>
      /\ UNCHANGED <<connected, reported, wire, cache, synced, question>>
  BY KlipperMoves DEF Base
<1>2. Types' BY <1>1 DEF Base, Types
<1>3. Reports' /\ Changes' BY <1>1 DEF Base, Reports, Changes
<1>4. Life' /\ Pending'
  <2>1. CASE Moves
    BY <1>1, <2>1, MovesKeepLife, MovesKeepPending DEF Base
  <2>2. CASE UNCHANGED <<status, jobs, going>>
    BY <1>1, <2>2 DEF Base, Life, Pending
  <2>3. QED BY <1>1, <2>1, <2>2
<1>5. QED BY <1>2, <1>3, <1>4 DEF Base

LEMMA UserKeeps == ASSUME Base, User PROVE Base'
<1>1. UNCHANGED <<status, jobs, going, connected, reported, wire, cache, synced>>
  BY UserLeaves
<1>2. Types'
  BY <1>1, UserTypes DEF Base, Types
<1>3. QED BY <1>1, <1>2 DEF Base, Life, Reports, Pending, Changes

(* A report is sent: what changed since the last.                          *)
LEMMA TickKeeps == ASSUME Base, Tick PROVE Base'
<1> DEFINE r == [snapshot |-> FALSE, was |-> reported, now |-> status, job |-> jobs]
           n == Len(wire)
<1>1. /\ reported # None /\ reported' = status /\ wire' = Append(wire, r)
      /\ UNCHANGED <<status, jobs, going, connected, cache, synced, commands, question>>
  BY DEF Tick, klipper, asking
<1>2. r \in Report /\ reported \in Status
  BY <1>1 DEF Base, Types, Report
<1>3. /\ r.snapshot = FALSE /\ r.was = reported /\ r.now = status
  OBVIOUS
<1> HIDE DEF r
<1>4. /\ wire' \in Seq(Report) /\ Len(wire') = n + 1 /\ n \in Nat /\ wire'[n + 1] = r
      /\ wire' # <<>>
      /\ \A i \in 1..n : wire'[i] = wire[i]
      /\ \A i \in 1..(n + 1) : i = n + 1 \/ i \in 1..n
  BY <1>1, <1>2, Appended DEF Base, Types
<1>5. status # None
  BY PrintStatusAssumption DEF Base, Types
<1>6. Types'
  BY <1>1, <1>4 DEF Base, Types
<1>7. Reports'
  <2>1. wire'[Len(wire')].now = reported' /\ reported' # None /\ connected'
    BY <1>1, <1>3, <1>4, <1>5 DEF Base, Reports
  <2>2. CASE n = 0
    <3>1. wire = <<>>
      BY <2>2, EmptySeq DEF Base, Types
    <3>2. synced /\ cache = reported
      BY <1>1, <3>1 DEF Base, Reports
    <3>3. \A i \in 1..Len(wire') : i = 1 /\ wire'[i] = r
      BY <1>4, <2>2
    <3>4. QED BY <1>1, <1>3, <1>4, <2>1, <3>2, <3>3 DEF Reports
  <2>3. CASE n # 0
    <3>1. wire[n].now = reported /\ n \in 1..n
      BY <1>1, <1>4, <2>3, EmptySeq DEF Base, Reports
    <3>2. ASSUME NEW i \in 1..n
          PROVE  /\ wire'[i].snapshot <=> i = 1 /\ ~synced
                 /\ wire'[i].was = IF i # 1 THEN wire'[i-1].now
                                   ELSE IF synced THEN cache ELSE wire'[i].now
      BY <1>4 DEF Base, Reports
    <3>3. /\ wire'[n+1].snapshot = FALSE /\ n + 1 # 1
          /\ wire'[n+1].was = wire'[(n+1)-1].now
      BY <1>3, <1>4, <2>3, <3>1
    <3>4. QED BY <1>1, <1>4, <2>1, <3>2, <3>3 DEF Reports
  <2>4. QED BY <1>4, <2>2, <2>3
<1>8. Pending'
  BY <1>1 DEF Base, Life, Pending, Change
<1>9. Changes'
  <2>1. Change(r.was, r.now)
    BY <1>1, <1>3 DEF Base, Pending
  <2>2. ASSUME NEW i \in 1..Len(wire') PROVE Change(wire'[i].was, wire'[i].now)
    BY <1>4, <2>1 DEF Base, Changes
  <2>3. QED BY <2>2 DEF Changes, Change
<1>10. Life'
  BY <1>1 DEF Base, Life
<1>11. QED BY <1>6, <1>7, <1>8, <1>9, <1>10 DEF Base

LEMMA OneReport ==
  ASSUME NEW r \in Report
  PROVE  /\ <<r>> \in Seq(Report) /\ <<r>> # <<>> /\ Len(<<r>>) = 1 /\ <<r>>[1] = r
         /\ \A i \in 1..1 : i = 1
  OBVIOUS

(* The connection opens, the subscription is answered, the connection is   *)
(* lost.                                                                   *)
LEMMA ConnectionKeeps == ASSUME Base, OnOpen \/ Subscribed \/ OnClose PROVE Base'
<1>1. CASE OnOpen
  <2>1. /\ connected' /\ ~connected
        /\ UNCHANGED <<status, jobs, going, reported, wire, cache, synced, commands, question>>
    BY <1>1 DEF OnOpen, klipper, asking
  <2>2. QED BY <2>1 DEF Base, Types, Life, Reports, Pending, Changes
<1>2. CASE Subscribed
  <2> DEFINE r == [snapshot |-> TRUE, was |-> status, now |-> status, job |-> jobs]
  <2>1. /\ connected /\ reported = None /\ reported' = status /\ wire' = <<r>>
        /\ UNCHANGED <<status, jobs, going, connected, cache, synced, commands, question>>
    BY <1>2 DEF Subscribed, klipper, asking
  <2>2. r \in Report /\ r.snapshot = TRUE /\ r.was = status /\ r.now = status
    BY DEF Base, Types, Report
  <2> HIDE DEF r
  <2>3. /\ wire' \in Seq(Report) /\ wire' # <<>> /\ Len(wire') = 1 /\ wire'[1] = r
        /\ \A i \in 1..1 : i = 1
    BY <2>1, <2>2, OneReport
  <2>4. ~synced /\ status # None
    BY <2>1, PrintStatusAssumption DEF Base, Types, Reports
  <2>5. Types' /\ Life'
    BY <2>1, <2>3 DEF Base, Types, Life
  <2>6. Reports'
    BY <2>1, <2>2, <2>3, <2>4 DEF Reports
  <2>7. Pending' /\ Changes'
    BY <2>1, <2>2, <2>3 DEF Base, Life, Pending, Changes, Change
  <2>8. QED BY <2>5, <2>6, <2>7 DEF Base
<1>3. CASE OnClose
  <2>1. /\ ~connected' /\ ~synced' /\ reported' = None /\ wire' = <<>>
        /\ commands' \subseteq commands
        /\ UNCHANGED <<status, jobs, going, cache, question>>
    BY <1>3 DEF OnClose, klipper
  <2>2. wire' \in Seq(Report) /\ Len(wire') = 0
    BY <2>1, EmptySeq
  <2>3. QED BY <2>1, <2>2 DEF Base, Types, Life, Reports, Pending, Changes
<1>4. QED BY <1>1, <1>2, <1>3

(* A report is taken in.                                                   *)
LEMMA HeardKeeps == ASSUME Base, Snapshot \/ Update PROVE Base'
<1> DEFINE n == Len(wire)
<1>1. /\ wire # <<>> /\ wire' = Tail(wire) /\ cache' = Head(wire).now /\ synced'
      /\ UNCHANGED <<status, jobs, going, connected, reported, commands, question>>
  <2>1. CASE Snapshot
    BY <2>1 DEF Snapshot, klipper, asking
  <2>2. CASE Update
    <3>1. wire # <<>> /\ ~Head(wire).snapshot /\ wire' = Tail(wire)
          /\ cache' = Head(wire).now
          /\ UNCHANGED <<status, jobs, going, connected, reported, synced, commands, question>>
      BY <2>2 DEF Update, klipper, asking
    <3>2. synced
      BY <3>1, Tailed DEF Base, Types, Reports
    <3>3. QED BY <3>1, <3>2
  <2>3. QED BY <2>1, <2>2
<1>2. /\ wire' \in Seq(Report) /\ Head(wire) = wire[1] /\ wire[1] \in Report
      /\ Len(wire') = n - 1 /\ n \in Nat /\ 1 \in 1..n
      /\ \A i \in 1..Len(wire') : i + 1 \in 1..n /\ wire'[i] = wire[i + 1]
      /\ (wire' = <<>> <=> n = 1)
  BY <1>1, Tailed DEF Base, Types
<1>3. cache' = wire[1].now /\ cache' \in Status
  BY <1>1, <1>2 DEF Report
<1>4. Types'
  BY <1>1, <1>2, <1>3 DEF Base, Types
<1>5. Reports'
  <2>1. reported' # None /\ connected' /\ wire[n].now = reported'
    BY <1>1 DEF Base, Reports
  <2>2. wire' = <<>> => cache' = reported'
    BY <1>2, <1>3, <2>1
  <2>3. wire' # <<>> => wire'[Len(wire')].now = reported'
    <3>1. ASSUME wire' # <<>> PROVE Len(wire') \in 1..Len(wire')
      BY <1>2, <3>1
    <3>2. QED BY <1>2, <2>1, <3>1
  <2>4. ASSUME NEW i \in 1..Len(wire')
        PROVE  /\ ~wire'[i].snapshot
               /\ wire'[i].was = IF i # 1 THEN wire'[i-1].now ELSE cache'
    <3>1. /\ i + 1 \in 1..n /\ i + 1 # 1 /\ i \in Nat /\ (i + 1) - 1 = i
          /\ wire'[i] = wire[i + 1]
      BY <1>2
    <3>2. ~wire[i + 1].snapshot /\ wire[i + 1].was = wire[i].now
      BY <3>1 DEF Base, Reports
    <3>3. i # 1 => i - 1 \in 1..Len(wire') /\ (i - 1) + 1 = i
      BY <1>2, <3>1
    <3>4. QED BY <1>2, <1>3, <3>1, <3>2, <3>3
  <2>5. QED BY <1>1, <2>1, <2>2, <2>3, <2>4 DEF Reports
<1>6. Life' /\ Pending'
  BY <1>1 DEF Base, Life, Pending, Change
<1>7. Changes'
  <2>1. ASSUME NEW i \in 1..Len(wire') PROVE Change(wire'[i].was, wire'[i].now)
    BY <1>2 DEF Base, Changes
  <2>2. QED BY <2>1 DEF Changes, Change
<1>8. QED BY <1>4, <1>5, <1>6, <1>7 DEF Base

LEMMA NextIs ==
  ASSUME [Next]_vars
  PROVE  Klipper \/ User \/ Tick \/ OnOpen \/ Subscribed \/ OnClose \/ Snapshot \/ Update
  BY DEF Next, Klipper, User

(* What every other theorem here starts from: the fields keep their types, a
   status is reported to the panel change by change and in order, and what the
   panel holds is the printer's status but for the reports still on the wire. *)
THEOREM ReportsInOrder == Spec => []Base
<1>1. Init => Base
  <2>1. SUFFICES ASSUME Init PROVE Base OBVIOUS
  <2>2. status = Idle /\ cache = Idle /\ going = "no" /\ reported = None /\ wire = <<>>
        /\ commands = {} /\ jobs = 0 /\ ~connected /\ ~synced /\ question = NoQuestion
    BY <2>1 DEF Init
  <2>3. wire \in Seq(Report) /\ Len(wire) = 0
    BY <2>2, EmptySeq
  <2>4. Types
    BY <2>2, <2>3, IdleIsOne, PrintStatusAssumption DEF Types, NoQuestion
  <2>5. Life /\ Reports /\ Pending /\ Changes
    BY <2>2, <2>3, IdleIsOne DEF Life, Reports, Pending, Changes
  <2>6. QED BY <2>4, <2>5 DEF Base
<1>2. Base /\ [Next]_vars => Base'
  BY NextIs, KlipperKeeps, UserKeeps, TickKeeps, ConnectionKeeps, HeardKeeps
<1>3. QED BY <1>1, <1>2, PTL DEF Spec

-----------------------------------------------------------------------------
(* The Objects screen *)

(* What is under way cannot empty the print: an exclusion that was sent,   *)
(* with what Klipper has excluded, leaves a part, as long as there is one  *)
(* only; one that is asked about leaves a part, by what State has.         *)
LeavesOne ==
  /\ ~blind =>
       /\ status.excluded # Parts
       /\ \A c \in commands : c.op = "exclude" => status.excluded \cup {c.part} # Parts
       /\ \A c, d \in commands : c.op = "exclude" /\ d.op = "exclude" => c = d
  /\ question.op = "exclude" =>
       /\ question.known \cup {question.part} # Parts
       /\ question.fresh => ~Excluding

(* A step that excludes nothing and sends no exclusion.                    *)
LEMMA FewerExclusions ==
  ASSUME Types, LeavesOne, commands' \subseteq commands, UNCHANGED question,
         status'.excluded \in {status.excluded, {}},
         ~blind' => ~blind \/ (~Excluding /\ status'.excluded = {})
  PROVE  LeavesOne'
<1>1. status.excluded \subseteq Parts /\ Parts # {}
  BY PrintStatusAssumption DEF Types, Status
<1>2. ASSUME ~blind'
      PROVE  /\ status'.excluded # Parts
             /\ \A c \in commands' :
                  c.op = "exclude" => status'.excluded \cup {c.part} # Parts
             /\ \A c, d \in commands' : c.op = "exclude" /\ d.op = "exclude" => c = d
  <2>1. CASE ~Excluding /\ status'.excluded = {}
    BY <1>1, <2>1 DEF Excluding
  <2>2. CASE ~blind
    BY <1>1, <2>2 DEF LeavesOne
  <2>3. QED BY <1>2, <2>1, <2>2
<1>3. QED BY <1>2 DEF LeavesOne, Excluding

LEMMA KlipperLeavesOne == ASSUME Base, LeavesOne, Klipper PROVE LeavesOne'
<1> USE DEF Base
<1>0. status \in Status /\ status.excluded \subseteq Parts /\ Types /\ Life
  BY DEF Types, Status
<1>1. ASSUME NEW f \in Files, StartPrint(f) PROVE LeavesOne'
  <2>1. /\ status' = [Idle EXCEPT !.state = "printing", !.file = f]
        /\ blind' = (blind /\ Excluding) /\ UNCHANGED <<commands, question>>
    BY <1>1 DEF StartPrint, asking
  <2>2. status'.excluded = {}
    BY <2>1, Fresh
  <2>3. ~blind' => ~blind \/ (~Excluding /\ status'.excluded = {})
    BY <2>1, <2>2
  <2>4. QED BY <1>0, <2>1, <2>2, <2>3, FewerExclusions
<1>2. CASE FinishPrint \/ Settle \/ ClearFile
  <2>1. UNCHANGED <<commands, question, blind>>
    BY <1>2 DEF FinishPrint, Settle, ClearFile, asking, objects
  <2>2. status'.excluded \in {status.excluded, {}}
    <3>1. \/ status' = Idle
          \/ \E x \in Running \cup Over : status' = [status EXCEPT !.state = x]
          \/ status' = [status EXCEPT !.paused = TRUE]
      BY <1>2 DEF FinishPrint, Settle, ClearFile, Running, Ended, Over
    <3>2. ASSUME NEW x \in Running \cup Over, status' = [status EXCEPT !.state = x]
          PROVE  status'.excluded = status.excluded
      BY <1>0, <3>2, StateSet
    <3>3. ASSUME status' = [status EXCEPT !.paused = TRUE]
          PROVE  status'.excluded = status.excluded
      BY <1>0, <3>3, PausedSet
    <3>4. QED BY <3>1, <3>2, <3>3, IdleIsOne
  <2>3. QED BY <1>0, <2>1, <2>2, FewerExclusions
<1>3. ASSUME NEW c \in commands, Execute(c) PROVE LeavesOne'
  <2>1. /\ c \in Command /\ Steady /\ jobs' = jobs /\ commands' = commands \ {c}
        /\ going # "pause"
        /\ UNCHANGED <<question, blind>>
    BY <1>3 DEF Execute, Types, objects
  <2>2. Takes(c) \/ UNCHANGED status
    BY <1>3 DEF Execute
  <2>3. CASE Takes(c) /\ c.op = "exclude"
    <3>1. status'.excluded = status.excluded \cup {c.part}
      BY <1>0, <2>1, <2>3, Taken
    <3>2. ~blind => ~Excluding'
      BY <2>1, <2>3 DEF LeavesOne, Excluding
    <3>3. QED BY <2>1, <2>3, <3>1, <3>2 DEF LeavesOne, Excluding
  <2>4. CASE status'.excluded = status.excluded
    BY <1>0, <2>1, <2>4, FewerExclusions
  <2>5. QED BY <1>0, <2>1, <2>2, <2>3, <2>4, Taken
<1>4. ASSUME NEW c \in Command, OtherClient(c) PROVE LeavesOne'
  <2>1. /\ Steady /\ jobs' = jobs /\ Takes(c) /\ going # "pause"
        /\ UNCHANGED <<commands, question>>
        /\ blind' = \/ blind
                    \/ c.op = "exclude" /\ (Excluding \/ status'.excluded = Parts)
    BY <1>4 DEF OtherClient, asking
  <2>2. CASE c.op = "exclude"
    <3>1. ~blind' => ~blind /\ ~Excluding /\ status'.excluded # Parts
      BY <2>1, <2>2
    <3>2. QED BY <2>1, <3>1 DEF LeavesOne, Excluding
  <2>3. CASE c.op # "exclude"
    <3>1. status'.excluded = status.excluded
      BY <1>0, <2>1, <2>3, Taken
    <3>2. ~blind' => ~blind
      BY <2>1
    <3>3. QED BY <1>0, <2>1, <3>1, <3>2, FewerExclusions
  <2>4. QED BY <2>2, <2>3
<1>5. QED BY <1>1, <1>2, <1>3, <1>4 DEF Klipper

LEMMA UserLeavesOne == ASSUME Base, LeavesOne, User PROVE LeavesOne'
<1>0. Types /\ status' = status
  BY UserLeaves DEF Base
<1>1. CASE \/ \E r \in asked, ok \in BOOLEAN : HandleMetadata(r, ok)
          \/ TapObjects \/ TapBack \/ TapDone \/ UNCHANGED vars
  <2>1. UNCHANGED <<commands, question, blind>>
    BY <1>1 DEF HandleMetadata, TapObjects, TapBack, TapDone, asking, objects, vars
  <2>2. QED BY <1>0, <2>1, FewerExclusions
<1>2. ASSUME NEW op \in {"pause", "resume"}, TapButton(op) PROVE LeavesOne'
  <2>1. /\ commands' \in {commands, commands \cup {[op |-> op, part |-> None]}}
        /\ UNCHANGED <<question, blind>>
    BY <1>2 DEF TapButton, Send, objects
  <2>2. \A c \in commands' : c.op = "exclude" => c \in commands
    BY <1>2, <2>1
  <2>3. QED BY <1>0, <2>1, <2>2 DEF LeavesOne, Excluding
<1>3. CASE TapCancel
  <2>1. question'.op = "cancel" /\ UNCHANGED <<commands, blind>>
    BY <1>3 DEF TapCancel, NoQuestion, objects
  <2>2. QED BY <1>0, <2>1 DEF LeavesOne
<1>4. ASSUME NEW p \in Parts, TapPart(p) PROVE LeavesOne'
  <2>1. question' = ConfirmExclude(p) /\ UNCHANGED <<commands, blind>>
    BY <1>4 DEF TapPart, objects
  <2>2. question'.op = "exclude" => question'.known \cup {question'.part} # Parts
    BY <2>1 DEF ConfirmExclude
  <2>3. question'.fresh => ~Excluding
    BY <2>1 DEF ConfirmExclude
  <2>4. QED BY <1>0, <2>1, <2>2, <2>3 DEF LeavesOne, Excluding
<1>5. ASSUME NEW yes \in BOOLEAN, Answer(yes) PROVE LeavesOne'
  <2>1. question'.op = "none"
    BY <1>5 DEF Answer, NoQuestion
  <2>2. CASE ~yes
    <3>1. UNCHANGED <<commands, blind>>
      BY <1>5, <2>2 DEF Answer
    <3>2. QED BY <1>0, <2>1, <3>1 DEF LeavesOne
  <2>3. CASE yes /\ question.op # "exclude"
    <3>1. /\ commands' \in {commands, commands \cup {[op |-> question.op, part |-> None]}}
          /\ ~blind' => ~blind
      BY <1>5, <2>3 DEF Answer, Send
    <3>2. \A c \in commands' : c.op = "exclude" => c \in commands
      BY <2>3, <3>1
    <3>3. QED BY <1>0, <2>1, <3>1, <3>2 DEF LeavesOne
  <2>4. CASE yes /\ question.op = "exclude"
    <3> DEFINE cmd == [op |-> "exclude", part |-> question.part]
    <3>1. /\ commands' \in {commands, commands \cup {cmd}}
          /\ ~blind' => ~blind /\ question.fresh /\ question.known = status.excluded
      BY <1>5, <2>4 DEF Answer, Send
    <3>2. ASSUME ~blind'
          PROVE  /\ status.excluded # Parts
                 /\ \A c \in commands' :
                      c.op = "exclude" => status.excluded \cup {c.part} # Parts
                 /\ \A c, d \in commands' : c.op = "exclude" /\ d.op = "exclude" => c = d
      <4>1. /\ ~blind /\ ~Excluding /\ status.excluded # Parts
            /\ status.excluded \cup {question.part} # Parts
        BY <2>4, <3>1, <3>2 DEF LeavesOne
      <4>2. cmd.part = question.part
        OBVIOUS
      <4> HIDE DEF cmd
      <4>3. \A c \in commands' : c.op = "exclude" => c = cmd /\ c.part = question.part
        BY <3>1, <4>1, <4>2 DEF Excluding
      <4>4. \A c \in commands' : c.op = "exclude" => status.excluded \cup {c.part} # Parts
        BY <4>1, <4>3
      <4>5. \A c, d \in commands' : c.op = "exclude" /\ d.op = "exclude" => c = d
        BY <4>3
      <4>6. QED BY <4>1, <4>4, <4>5
    <3>3. QED BY <1>0, <2>1, <3>2 DEF LeavesOne
  <2>5. QED BY <2>2, <2>3, <2>4
<1>6. QED BY <1>1, <1>2, <1>3, <1>4, <1>5 DEF User

(* No print is left running with every object in it excluded, unless one   *)
(* exclusion was asked for before another had been heard of or another     *)
(* client excluded the last part (exclude_object_panel.cpp:302-328,        *)
(* 383-401).                                                               *)
THEOREM ExclusionLeavesOne == Spec => []OnlyBlindExclusionEmpties
<1>1. Init => LeavesOne
  BY IdleIsOne, PrintStatusAssumption DEF Init, LeavesOne, NoQuestion
<1>2. Base /\ LeavesOne /\ [Next]_vars => LeavesOne'
  <2>1. SUFFICES ASSUME Base, LeavesOne, [Next]_vars PROVE LeavesOne' OBVIOUS
  <2>2. CASE Tick \/ OnOpen \/ Subscribed \/ OnClose \/ Snapshot \/ Update
    <3>1. status' = status /\ commands' \subseteq commands /\ UNCHANGED <<question, blind>>
      BY <2>2 DEF Tick, OnOpen, Subscribed, OnClose, Snapshot, Update, klipper, asking,
                  objects
    <3>2. QED BY <2>1, <3>1, FewerExclusions DEF Base
  <2>3. QED
    BY <2>1, <2>2, NextIs, KlipperLeavesOne, UserLeavesOne
<1>3. LeavesOne => OnlyBlindExclusionEmpties
  BY DEF LeavesOne, OnlyBlindExclusionEmpties
<1>4. QED BY <1>1, <1>2, <1>3, ReportsInOrder, PTL DEF Spec

-----------------------------------------------------------------------------
(* The metadata *)

(* The last request is for the file that is printed, and unless an earlier *)
(* one was answered after it, what is shown waits for it or is from it;    *)
(* while it waits, or in vain, the estimate may be carried over.           *)
OwnFile ==
  /\ requests \in Nat /\ asked \subseteq [file : Files, n : Nat]
  /\ asked # {} => synced
  /\ \A r \in asked : /\ r.n <= requests
                      /\ r.n = requests /\ cache.file # None => r.file = cache.file
  /\ synced /\ cache.file # None /\ ~overtaken =>
       /\ estimate \in {None, cache.file} \/ carried
       /\ \/ \E r \in asked : r.n = requests
          \/ refused /\ details = None
          \/ ~refused /\ details = cache.file /\ estimate = cache.file

LEMMA AfreshKeeps ==
  ASSUME OwnFile, NEW f \in Files \cup {None}, cache'.file = f, synced',
         StartsAfresh(f)
  PROVE  OwnFile'
<1> DEFINE r == [file |-> f, n |-> requests + 1]
<1>1. CASE f = None
  <2>1. UNCHANGED <<requests, asked>>
    BY <1>1 DEF StartsAfresh
  <2>2. QED BY <1>1, <2>1 DEF OwnFile
<1>2. CASE f # None
  <2>1. /\ requests' = requests + 1 /\ asked' = asked \cup {r} /\ estimate' = None
    BY <1>2 DEF StartsAfresh
  <2>2. r \in [file : Files, n : Nat] /\ r.n = requests' /\ r.file = f
    BY <1>2, <2>1 DEF OwnFile
  <2> HIDE DEF r
  <2>3. requests' \in Nat /\ asked' \subseteq [file : Files, n : Nat]
    BY <2>1, <2>2 DEF OwnFile
  <2>4. \A q \in asked' : q.n <= requests' /\ (q.n = requests' => q = r)
    <3>1. ASSUME NEW q \in asked PROVE q.n \in Nat /\ q.n <= requests
      BY DEF OwnFile
    <3>2. QED BY <2>1, <2>2, <2>3, <3>1 DEF OwnFile
  <2>5. \E q \in asked' : q.n = requests'
    BY <2>1, <2>2
  <2>6. \A q \in asked' :
          q.n <= requests' /\ (q.n = requests' /\ cache'.file # None => q.file = cache'.file)
    BY <2>2, <2>4
  <2>7. QED BY <2>1, <2>3, <2>5, <2>6 DEF OwnFile
<1>3. QED BY <1>1, <1>2

LEMMA HeardKeepsFile == ASSUME Base, OwnFile, Snapshot \/ Update PROVE OwnFile'
<1>1. /\ wire # <<>> /\ Head(wire) = wire[1] /\ wire[1] \in Report /\ 1 \in 1..Len(wire)
      /\ wire[1].now \in Status /\ wire[1].now.file \in Files \cup {None}
  <2>1. wire # <<>>
    BY DEF Snapshot, Update
  <2>2. /\ Head(wire) = wire[1] /\ wire[1] \in Report /\ 1 \in 1..Len(wire)
    BY <2>1, Tailed DEF Base, Types
  <2>3. \A r \in Report : r.now \in Status
    BY DEF Report
  <2>4. \A t \in Status : t.file \in Files \cup {None}
    BY DEF Status
  <2>5. QED BY <2>1, <2>2, <2>3, <2>4
<1>2. CASE Snapshot
  <2>1. /\ cache' = wire[1].now /\ synced' /\ StartsAfresh(wire[1].now.file)
    BY <1>1, <1>2 DEF Snapshot
  <2>2. QED BY <1>1, <2>1, AfreshKeeps
<1>3. CASE Update
  <2>1. /\ ~wire[1].snapshot /\ cache' = wire[1].now /\ synced' = synced
        /\ FileChange(wire[1])
    BY <1>1, <1>3 DEF Update
  <2>2. synced /\ wire[1].was = cache
    BY <1>1, <2>1 DEF Base, Reports
  <2>3. CASE wire[1].was.file = wire[1].now.file
    <3>1. UNCHANGED file /\ cache'.file = cache.file
      BY <2>1, <2>2, <2>3 DEF FileChange
    <3>2. QED BY <2>1, <3>1 DEF OwnFile, file
  <2>4. CASE wire[1].was.file # wire[1].now.file
    <3>1. StartsAfresh(wire[1].now.file)
      BY <2>1, <2>4 DEF FileChange
    <3>2. QED BY <1>1, <2>1, <2>2, <3>1, AfreshKeeps
  <2>5. QED BY <2>3, <2>4
<1>4. QED BY <1>2, <1>3

(* An answer: to the last request, or to an earlier one.                   *)
LEMMA AnsweredKeepsFile ==
  ASSUME Base, OwnFile, NEW r \in asked, NEW ok \in BOOLEAN, HandleMetadata(r, ok)
  PROVE  OwnFile'
<1>1. /\ asked' = asked \ {r} /\ UNCHANGED <<cache, synced, requests>>
      /\ estimate' = (IF ok THEN r.file ELSE estimate)
      /\ details' = (IF ok THEN r.file ELSE None)
  BY DEF HandleMetadata
<1>2. /\ r.n \in Nat /\ requests \in Nat /\ r.n <= requests /\ synced
      /\ r.n = requests /\ cache.file # None => r.file = cache.file
  BY DEF OwnFile
<1>3. ASSUME cache.file # None, ~overtaken'
      PROVE  /\ estimate' \in {None, cache.file} \/ carried'
             /\ \/ \E q \in asked' : q.n = requests
                \/ refused' /\ details' = None
                \/ ~refused' /\ details' = cache.file /\ estimate' = cache.file
  <2>1. CASE r.n = requests
    <3>1. r.file = cache.file /\ refused' = ~ok /\ carried' = (carried /\ ~ok)
          /\ ~overtaken
      BY <1>2, <1>3, <2>1 DEF HandleMetadata
    <3>2. estimate \in {None, cache.file} \/ carried
      BY <1>2, <1>3, <3>1 DEF OwnFile
    <3>3. QED BY <1>1, <3>1, <3>2
  <2>2. CASE r.n # requests
    <3>1. /\ \E q \in asked : q.n = requests
          /\ ~overtaken /\ carried' = (carried \/ ok)
      BY <1>3, <2>2 DEF HandleMetadata
    <3>2. \E q \in asked' : q.n = requests
      BY <1>1, <2>2, <3>1
    <3>3. estimate \in {None, cache.file} \/ carried
      BY <1>2, <1>3, <3>1 DEF OwnFile
    <3>4. QED BY <1>1, <3>1, <3>2, <3>3
  <2>3. QED BY <2>1, <2>2
<1>4. QED BY <1>1, <1>2, <1>3 DEF OwnFile

(* The time left and the layers are computed from the metadata of the file *)
(* that is printed, unless an earlier answer came after a later one, or    *)
(* while the file's own was out (print_status_panel.cpp:258-280, 329-345,  *)
(* 389-405, 446-452).                                                      *)
THEOREM MetadataIsTheFiles == Spec => []OnlyLateMetadataMisleads
<1>1. Init => OwnFile
  BY DEF Init, OwnFile
<1>2. Base /\ OwnFile /\ [Next]_vars => OwnFile'
  <2>1. SUFFICES ASSUME Base, OwnFile, [Next]_vars PROVE OwnFile' OBVIOUS
  <2>2. CASE OnClose
    <3>1. asked' = {} /\ ~synced' /\ UNCHANGED requests
      BY <2>2 DEF OnClose
    <3>2. QED BY <2>1, <3>1 DEF OwnFile
  <2>3. CASE \E r \in asked, ok \in BOOLEAN : HandleMetadata(r, ok)
    BY <2>1, <2>3, AnsweredKeepsFile
  <2>4. CASE Snapshot \/ Update
    BY <2>1, <2>4, HeardKeepsFile
  <2>5. CASE Klipper \/ Tick \/ OnOpen \/ Subscribed
    <3>1. UNCHANGED <<cache, synced, file>>
      BY <2>5 DEF Klipper, StartPrint, FinishPrint, Settle, ClearFile, Execute, OtherClient,
                  Tick, OnOpen, Subscribed, file
    <3>2. QED BY <2>1, <3>1 DEF OwnFile, file
  <2>6. CASE User /\ ~\E r \in asked, ok \in BOOLEAN : HandleMetadata(r, ok)
    <3>1. UNCHANGED <<cache, synced, file>>
      BY <2>6 DEF User, TapButton, TapCancel, TapObjects, TapBack, TapDone, TapPart,
                  Answer, file, vars
    <3>2. QED BY <2>1, <3>1 DEF OwnFile, file
  <2>7. QED BY <2>1, <2>2, <2>3, <2>4, <2>5, <2>6, NextIs
<1>3. OwnFile => OnlyLateMetadataMisleads
  <2>1. SUFFICES ASSUME OwnFile, synced, cache.file # None, ~overtaken
                 PROVE  /\ estimate \in {None, cache.file} \/ carried
                        /\ asked = {} => \/ refused /\ details = None
                                         \/ /\ ~refused /\ details = cache.file
                                            /\ estimate = cache.file
    BY DEF OnlyLateMetadataMisleads
  <2>2. QED BY <2>1 DEF OwnFile
<1>4. QED BY <1>1, <1>2, <1>3, ReportsInOrder, PTL DEF Spec

-----------------------------------------------------------------------------
(* The end of a print *)

(* Reports come in the order of the prints: a print that runs again after  *)
(* one did not is a later one.                                             *)
InJobOrder ==
  /\ told \in Nat /\ ended \in Nat /\ told <= jobs
  /\ \A i \in 1..Len(wire) :
       /\ told <= wire[i].job /\ wire[i].job <= jobs
       /\ wire[i].now.state \notin Running /\ status.state \in Running => wire[i].job < jobs
  /\ \A i, j \in 1..Len(wire) : i < j =>
       /\ wire[i].job <= wire[j].job
       /\ wire[i].now.state \notin Running /\ wire[j].now.state \in Running =>
            wire[i].job < wire[j].job

(* A print that runs, or is about to be heard to run or to end, is one the *)
(* screen has heard to run, or a later one.                                *)
Remembered ==
  lastState \notin Running =>
    /\ status.state \in Running => told < jobs
    /\ reported # None => (reported.state \in Running => told < jobs)
    /\ \A i \in 1..Len(wire) :
         wire[i].was.state \in Running \/ wire[i].now.state \in Running => told < wire[i].job

Summarised ==
  synced /\ cache.state \in Ended /\ told = ended /\ ended # 0 =>
    done = ended \/ summary = [state |-> cache.state, file |-> cache.file]

EndInv == InJobOrder /\ Remembered /\ Summarised

LEMMA ReportAt ==
  ASSUME Types, NEW i \in 1..Len(wire)
  PROVE  wire[i] \in Report /\ wire[i].job \in 0..MaxJobs /\ wire[i].job \in Nat
<1>1. wire[i] \in Report
  BY DEF Types
<1>2. MaxJobs \in Nat
  BY PrintStatusAssumption
<1>3. QED BY <1>1, <1>2 DEF Report

LEMMA RunsOn ==
  ASSUME Types, Life, Klipper
  PROVE  /\ jobs \in Nat /\ jobs' \in Nat
         /\ \/ jobs' = jobs /\ (status'.state \in Running => status.state \in Running)
            \/ jobs' = jobs + 1 /\ status.state \notin Running
<1>1. jobs \in 0..MaxJobs /\ jobs' \in 0..MaxJobs /\ MaxJobs \in Nat
      /\ (Moves \/ UNCHANGED <<status, jobs, going>>)
  BY KlipperMoves, PrintStatusAssumption DEF Types
<1>2. QED
  BY <1>1, IdleIsOne
     DEF Life, Moves, Starts, Ends, Clears, Pauses, Resumes, Excludes, Settles, Running, Ended, Over

LEMMA KlipperKeepsEnd == ASSUME Base, EndInv, Klipper PROVE EndInv'
<1>1. UNCHANGED <<reported, wire, cache, synced>>
  BY KlipperMoves DEF Base
<1>2. UNCHANGED <<lastState, summary, told, ended, done>>
  BY DEF Klipper, StartPrint, FinishPrint, Settle, ClearFile, Execute, OtherClient, endings
<1>3. /\ jobs \in Nat /\ jobs' \in Nat
      /\ \/ jobs' = jobs /\ (status'.state \in Running => status.state \in Running)
         \/ jobs' = jobs + 1 /\ status.state \notin Running
  BY RunsOn DEF Base
<1>4. \A i \in 1..Len(wire) : wire[i].job \in Nat
  BY ReportAt DEF Base
<1>5. InJobOrder'
  BY <1>1, <1>2, <1>3, <1>4 DEF EndInv, InJobOrder
<1>6. Remembered'
  BY <1>1, <1>2, <1>3, <1>4 DEF EndInv, InJobOrder, Remembered
<1>7. Summarised'
  BY <1>1, <1>2 DEF EndInv, Summarised
<1>8. QED BY <1>5, <1>6, <1>7 DEF EndInv

LEMMA TickKeepsEnd == ASSUME Base, EndInv, Tick PROVE EndInv'
<1> DEFINE r == [snapshot |-> FALSE, was |-> reported, now |-> status, job |-> jobs]
           n == Len(wire)
<1>1. /\ reported # None /\ reported' = status /\ wire' = Append(wire, r)
      /\ UNCHANGED <<status, jobs, cache, synced, lastState, summary, told, ended, done>>
  BY DEF Tick, klipper, endings
<1>2. r \in Report
  BY <1>1 DEF Base, Types, Report
<1>3. r.was = reported /\ r.now = status /\ r.job = jobs
  OBVIOUS
<1> HIDE DEF r
<1>4. /\ Len(wire') = n + 1 /\ n \in Nat /\ wire'[n + 1] = r
      /\ \A i \in 1..n : wire'[i] = wire[i]
      /\ \A i \in 1..(n + 1) : i = n + 1 \/ i \in 1..n
  BY <1>1, <1>2, Appended DEF Base, Types
<1>5. jobs \in Nat /\ \A i \in 1..n : wire[i].job \in Nat
  BY ReportAt, PrintStatusAssumption DEF Base, Types
<1>6. InJobOrder'
  <2>1. ASSUME NEW i \in 1..(n + 1)
        PROVE  /\ told <= wire'[i].job /\ wire'[i].job <= jobs
               /\ wire'[i].now.state \notin Running /\ status.state \in Running =>
                    wire'[i].job < jobs
    BY <1>3, <1>4, <1>5 DEF EndInv, InJobOrder
  <2>2. ASSUME NEW i \in 1..(n + 1), NEW j \in 1..(n + 1), i < j
        PROVE  /\ wire'[i].job <= wire'[j].job
               /\ wire'[i].now.state \notin Running /\ wire'[j].now.state \in Running =>
                    wire'[i].job < wire'[j].job
    <3>1. i \in 1..n
      BY <1>4, <2>2
    <3>2. CASE j \in 1..n
      BY <1>4, <2>2, <3>1, <3>2 DEF EndInv, InJobOrder
    <3>3. CASE j = n + 1
      BY <1>3, <1>4, <3>1, <3>3 DEF EndInv, InJobOrder
    <3>4. QED BY <1>4, <3>2, <3>3
  <2>3. QED BY <1>1, <1>4, <2>1, <2>2 DEF EndInv, InJobOrder
<1>7. Remembered'
  <2>1. ASSUME lastState \notin Running, NEW i \in 1..(n + 1)
        PROVE  wire'[i].was.state \in Running \/ wire'[i].now.state \in Running =>
                 told < wire'[i].job
    BY <1>1, <1>3, <1>4, <2>1 DEF EndInv, Remembered
  <2>2. QED BY <1>1, <1>4, <2>1 DEF EndInv, Remembered
<1>8. Summarised'
  BY <1>1 DEF EndInv, Summarised
<1>9. QED BY <1>6, <1>7, <1>8 DEF EndInv

LEMMA ConnectionKeepsEnd ==
  ASSUME Base, EndInv, OnOpen \/ Subscribed \/ OnClose PROVE EndInv'
<1>1. CASE OnOpen
  <2>1. UNCHANGED <<status, jobs, reported, wire, cache, synced, lastState, summary, told,
                    ended, done>>
    BY <1>1 DEF OnOpen, klipper, endings
  <2>2. QED BY <2>1 DEF EndInv, InJobOrder, Remembered, Summarised
<1>2. CASE Subscribed
  <2> DEFINE r == [snapshot |-> TRUE, was |-> status, now |-> status, job |-> jobs]
  <2>1. /\ reported' = status /\ wire' = <<r>>
        /\ UNCHANGED <<status, jobs, cache, synced, lastState, summary, told, ended, done>>
    BY <1>2 DEF Subscribed, klipper, endings
  <2>2. r \in Report /\ r.was = status /\ r.now = status /\ r.job = jobs
    BY DEF Base, Types, Report
  <2> HIDE DEF r
  <2>3. Len(wire') = 1 /\ wire'[1] = r /\ \A i \in 1..1 : i = 1
    BY <2>1, <2>2, OneReport
  <2>4. jobs \in Nat
    BY PrintStatusAssumption DEF Base, Types
  <2>5. InJobOrder'
    BY <2>1, <2>2, <2>3, <2>4 DEF EndInv, InJobOrder, Remembered
  <2>6. Remembered' /\ Summarised'
    BY <2>1, <2>2, <2>3 DEF EndInv, Remembered, Summarised
  <2>7. QED BY <2>5, <2>6 DEF EndInv
<1>3. CASE OnClose
  <2>1. /\ ~synced' /\ reported' = None /\ wire' = <<>>
        /\ UNCHANGED <<status, jobs, lastState, told, ended>>
    BY <1>3 DEF OnClose, klipper, endings
  <2>2. Len(wire') = 0
    BY <2>1, EmptySeq
  <2>3. QED BY <2>1, <2>2 DEF EndInv, InJobOrder, Remembered, Summarised
<1>4. QED BY <1>1, <1>2, <1>3

(* What a report that is taken in leaves on the way.                       *)
LEMMA OneTaken ==
  ASSUME Base, Snapshot \/ Update
  PROVE  /\ wire # <<>> /\ Head(wire) = wire[1] /\ wire[1] \in Report /\ 1 \in 1..Len(wire)
         /\ Len(wire') = Len(wire) - 1 /\ Len(wire) \in Nat
         /\ \A i \in 1..Len(wire') : i + 1 \in 1..Len(wire) /\ wire'[i] = wire[i + 1]
         /\ reported # None /\ reported = wire[Len(wire)].now
         /\ UNCHANGED <<status, jobs, reported>>
<1>1. wire # <<>> /\ wire' = Tail(wire) /\ UNCHANGED <<status, jobs, reported>>
  BY DEF Snapshot, Update, klipper
<1>2. reported # None /\ reported = wire[Len(wire)].now
  BY <1>1 DEF Base, Reports
<1>3. QED BY <1>1, <1>2, Tailed DEF Base, Types

LEMMA SnapshotKeepsEnd == ASSUME Base, EndInv, Snapshot PROVE EndInv'
<1>1. UNCHANGED <<lastState, told>> /\ ended' = 0
  BY DEF Snapshot
<1>2. InJobOrder'
  BY <1>1, OneTaken DEF EndInv, InJobOrder
<1>3. Remembered'
  BY <1>1, OneTaken DEF EndInv, Remembered
<1>4. Summarised'
  BY <1>1 DEF Summarised
<1>5. QED BY <1>2, <1>3, <1>4 DEF EndInv

LEMMA UpdateKeepsEnd == ASSUME Base, EndInv, Update PROVE EndInv'
<1> DEFINE n == Len(wire)
<1>1. PICK r : r = wire[1]
  OBVIOUS
<1>2. /\ StateChange(r) /\ ~r.snapshot /\ cache' = r.now /\ r \in Report
      /\ r.job \in Nat /\ 1 \in 1..n /\ n \in Nat
  BY <1>1, OneTaken, ReportAt DEF Update, Base
<1>3. synced /\ r.was = cache
  BY <1>1, <1>2 DEF Base, Reports
<1>4. Change(r.was, r.now)
  BY <1>1, <1>2 DEF Base, Changes
<1>5. /\ told <= r.job /\ r.job <= jobs
      /\ r.now.state \notin Running /\ status.state \in Running => r.job < jobs
  BY <1>1, <1>2 DEF EndInv, InJobOrder
<1>6. \A i \in 1..n : i # 1 =>
        /\ r.job <= wire[i].job /\ wire[i].job \in Nat
        /\ r.now.state \notin Running /\ wire[i].now.state \in Running => r.job < wire[i].job
  <2>1. \A i \in 1..n : i # 1 => 1 < i
    BY <1>2
  <2>2. QED BY <1>1, <1>2, <2>1, ReportAt DEF Base, EndInv, InJobOrder
<1>7. told \in Nat /\ ended \in Nat /\ jobs \in Nat
  BY PrintStatusAssumption DEF Base, Types, EndInv, InJobOrder
<1>8. /\ told' \in {told, r.job} /\ ended' \in {ended, r.job} /\ done' = done
      /\ r.now.state \notin Running => told' = told
  BY <1>2 DEF StateChange
<1>9. InJobOrder'
  <2>1. ASSUME NEW i \in 1..Len(wire')
        PROVE  /\ told' <= wire'[i].job /\ wire'[i].job <= jobs
               /\ wire'[i].now.state \notin Running /\ status.state \in Running =>
                    wire'[i].job < jobs
    <3>1. i + 1 \in 1..n /\ i + 1 # 1 /\ wire'[i] = wire[i + 1]
      BY OneTaken
    <3>2. r.job <= wire[i + 1].job /\ told <= wire[i + 1].job
      BY <1>6, <3>1 DEF EndInv, InJobOrder
    <3>3. QED BY <1>8, <3>1, <3>2 DEF EndInv, InJobOrder
  <2>2. \A i, j \in 1..Len(wire') : i < j =>
          /\ wire'[i].job <= wire'[j].job
          /\ wire'[i].now.state \notin Running /\ wire'[j].now.state \in Running =>
               wire'[i].job < wire'[j].job
    BY OneTaken DEF EndInv, InJobOrder
  <2>3. told' \in Nat /\ ended' \in Nat /\ told' <= jobs
    BY <1>2, <1>5, <1>7, <1>8 DEF EndInv, InJobOrder
  <2>4. QED BY <2>1, <2>2, <2>3, OneTaken DEF InJobOrder
<1>10. Remembered'
  <2>1. CASE r.now.state = r.was.state
    <3>1. lastState' = lastState /\ told' = told
      BY <1>2, <2>1 DEF StateChange
    <3>2. QED BY <3>1, OneTaken DEF EndInv, Remembered
  <2>2. CASE r.now.state # r.was.state /\ r.now.state \in Running
    <3>1. lastState' \in Running
      BY <1>2, <2>2 DEF StateChange
    <3>2. QED BY <3>1 DEF Remembered
  <2>3. CASE r.now.state # r.was.state /\ r.now.state \notin Running
    <3>1. told' = told
      BY <1>8, <2>3
    <3>2. status.state \in Running => told < jobs
      BY <1>2, <1>5, <1>7, <2>3
    <3>3. reported.state \in Running => told < jobs
      <4>1. reported = wire[n].now /\ n \in 1..n
        BY <1>2, OneTaken
      <4>2. wire[n].job <= jobs
        BY <4>1 DEF EndInv, InJobOrder
      <4>3. ASSUME reported.state \in Running PROVE told < jobs
        <5>1. n # 1
          BY <1>1, <2>3, <4>1, <4>3
        <5>2. r.job < wire[n].job /\ wire[n].job \in Nat
          BY <1>6, <2>3, <4>1, <4>3, <5>1
        <5>3. QED BY <1>2, <1>5, <1>7, <4>2, <5>2
      <4>4. QED BY <4>3
    <3>4. ASSUME NEW i \in 1..Len(wire'),
                 wire'[i].was.state \in Running \/ wire'[i].now.state \in Running
          PROVE  told < wire'[i].job
      <4>1. /\ i + 1 \in 1..n /\ i + 1 # 1 /\ i \in 1..n /\ (i + 1) - 1 = i
            /\ i < i + 1 /\ wire'[i] = wire[i + 1]
        BY OneTaken
      <4>2. CASE wire[i + 1].now.state \in Running
        BY <1>2, <1>5, <1>6, <1>7, <2>3, <4>1, <4>2
      <4>3. CASE wire[i + 1].was.state \in Running
        <5>1. wire[i + 1].was = wire[i].now
          BY <4>1 DEF Base, Reports
        <5>2. i # 1
          BY <1>1, <2>3, <4>3, <5>1
        <5>3. r.job < wire[i].job /\ wire[i].job \in Nat
          BY <1>6, <2>3, <4>1, <4>3, <5>1, <5>2
        <5>4. wire[i].job <= wire[i + 1].job /\ wire[i + 1].job \in Nat
          BY <1>6, <4>1 DEF EndInv, InJobOrder
        <5>5. QED BY <1>2, <1>5, <1>7, <4>1, <5>3, <5>4
      <4>4. QED BY <3>4, <4>1, <4>2, <4>3
    <3>5. QED BY <3>1, <3>2, <3>3, <3>4, OneTaken DEF Remembered
  <2>4. QED BY <2>1, <2>2, <2>3
<1>11. Summarised'
  <2>1. SUFFICES ASSUME r.now.state \in Ended, told' = ended', ended' # 0
                 PROVE  \/ done' = ended'
                        \/ summary' = [state |-> r.now.state, file |-> r.now.file]
    BY <1>2 DEF Summarised
  <2>2. CASE r.now.state = r.was.state
    <3>1. UNCHANGED <<summary, told, ended, done>> /\ r.now.file = r.was.file
      BY <1>2, <1>4, <2>2 DEF StateChange, Change
    <3>2. QED BY <1>3, <2>1, <2>2, <3>1 DEF EndInv, Summarised
  <2>3. CASE r.now.state # r.was.state
    <3>1. r.was.state \in Running /\ told' = told /\ ended' = r.job
      BY <1>2, <1>4, <2>1, <2>3 DEF StateChange, Change, Running, Ended, Over
    <3>2. lastState \in Running
      <4>1. lastState \notin Running => told < r.job
        BY <1>1, <1>2, <3>1 DEF EndInv, Remembered
      <4>2. told = r.job
        BY <2>1, <3>1
      <4>3. ~(told < r.job)
        BY <1>7, <4>2
      <4>4. QED BY <4>1, <4>3
    <3>3. summary' = [state |-> r.now.state, file |-> r.now.file]
      BY <1>2, <2>1, <2>3, <3>2 DEF StateChange
    <3>4. QED BY <3>3
  <2>4. QED BY <2>2, <2>3
<1>12. QED BY <1>9, <1>10, <1>11 DEF EndInv

LEMMA UserKeepsEnd == ASSUME Base, EndInv, User PROVE EndInv'
<1>1. UNCHANGED <<status, jobs, reported, wire, cache, synced>>
  BY UserLeaves
<1>2. /\ UNCHANGED <<lastState, told, ended>>
      /\ UNCHANGED <<summary, done>> \/ done' = ended
  BY DEF User, HandleMetadata, TapButton, TapCancel, TapObjects, TapBack, TapDone, TapPart,
         Answer, endings, vars
<1>3. QED BY <1>1, <1>2 DEF EndInv, InJobOrder, Remembered, Summarised

(* A print that was heard to run and heard to end has its summary on the   *)
(* screen until Done, with how it ended and its own file                   *)
(* (print_status_panel.cpp:258-259, 454-486).                              *)
THEOREM EndsAreSummarised == Spec => []EndIsSummarised
<1>1. Init => EndInv
  <2>1. SUFFICES ASSUME Init PROVE EndInv OBVIOUS
  <2>2. /\ status = Idle /\ jobs = 0 /\ told = 0 /\ ended = 0 /\ reported = None
        /\ Len(wire) = 0
    BY <2>1, EmptySeq DEF Init
  <2>3. QED
    BY <2>2, IdleIsOne DEF EndInv, InJobOrder, Remembered, Summarised, Running
<1>2. Base /\ EndInv /\ [Next]_vars => EndInv'
  BY NextIs, KlipperKeepsEnd, TickKeepsEnd, ConnectionKeepsEnd, SnapshotKeepsEnd,
     UpdateKeepsEnd, UserKeepsEnd
<1>3. Base /\ EndInv => EndIsSummarised
  <2>1. SUFFICES ASSUME Base, EndInv, HeardAll, status.state \in Ended,
                        told = jobs, ended = jobs
                 PROVE  \/ done = jobs
                        \/ summary = [state |-> status.state, file |-> status.file]
    BY DEF EndIsSummarised
  <2>2. cache = status
    BY <2>1, PrintStatusAssumption DEF Base, Types, Reports, HeardAll
  <2>3. jobs # 0
    BY <2>1 DEF Base, Life, Ended
  <2>4. QED BY <2>1, <2>2, <2>3 DEF EndInv, Summarised, HeardAll
<1>4. QED BY <1>1, <1>2, <1>3, ReportsInOrder, PTL DEF Spec

-----------------------------------------------------------------------------
(* Pause and Resume, the overlay and the chip *)

HomeIsRight ==
  synced => mini = (cache.state = "printing") /\ chip = (cache.state = "paused")

(* A change of is_paused that the screen has still to hear of.             *)
Coming ==
  \/ \E i \in 1..Len(wire) : wire[i].was.paused # wire[i].now.paused
  \/ reported # None /\ reported.paused # status.paused
  \/ going = "pause"

Awaited == [op |-> shown, part |-> None] \in commands \/ Coming

(* The button that is shown is the one for what was last heard; if it is   *)
(* dimmed, its command or a change that lights one is under way.           *)
ButtonsFollow ==
  ~unsure =>
    /\ synced => shown = IF cache.paused THEN "resume" ELSE "pause"
    /\ heard = "yes" => shown = "resume"
    /\ heard = "no" => shown = "pause"
    /\ heard = "never" => dimmed \subseteq {shown}
    /\ shown \in dimmed => synced /\ Awaited

ScreenInv == HomeIsRight /\ heard \in {"never", "yes", "no"} /\ ButtonsFollow

(* A change that is on its way stays so until it is heard.                 *)
LEMMA ComingStays == ASSUME Base, synced, Coming, Klipper PROVE Coming'
<1>1. /\ Moves \/ UNCHANGED <<status, jobs, going>>
      /\ UNCHANGED <<wire, reported>> /\ reported # None
  BY KlipperMoves DEF Base, Reports
<1>2. CASE \E i \in 1..Len(wire) : wire[i].was.paused # wire[i].now.paused
  BY <1>1, <1>2 DEF Coming
<1>3. CASE UNCHANGED <<status, jobs, going>>
  BY <1>1, <1>3 DEF Coming
<1>4. CASE Moves /\ reported.paused # status.paused
  <2>1. Excludes \/ Settles
    BY <1>1, <1>4 DEF Moves, Steady, Starts, Ends, Clears, Pauses, Resumes
  <2>2. going # "pause"
    BY <1>1, <1>4 DEF Base, Types, Life, Pending, Status
  <2>3. QED BY <1>1, <1>4, <2>1, <2>2 DEF Coming, Excludes, Settles
<1>5. CASE Moves /\ going = "pause"
  <2>1. Excludes \/ Settles
    BY <1>5 DEF Base, Life, Moves, Starts, Ends, Clears, Pauses, Resumes, Running, Ended, Over
  <2>2. ~reported.paused
    BY <1>1, <1>5 DEF Base, Pending
  <2>3. QED BY <1>1, <1>5, <2>1, <2>2 DEF Coming, Excludes, Settles
<1>6. QED BY <1>1, <1>2, <1>3, <1>4, <1>5 DEF Coming

LEMMA KlipperKeepsScreen == ASSUME Base, ScreenInv, Klipper PROVE ScreenInv'
<1>1. UNCHANGED <<cache, synced, shown, dimmed, heard, mini, chip>>
  BY KlipperMoves
     DEF Base, Klipper, StartPrint, FinishPrint, Settle, ClearFile, Execute, OtherClient,
         buttons, home
<1>2. ~unsure' => ~unsure
  BY DEF Klipper, StartPrint, FinishPrint, Settle, ClearFile, Execute, OtherClient, buttons
<1>3. ASSUME ~unsure', shown \in dimmed PROVE Awaited'
  <2>1. synced /\ Awaited /\ shown \in {"pause", "resume"}
    BY <1>2, <1>3 DEF ScreenInv, ButtonsFollow
  <2>2. CASE Coming
    BY <2>1, <2>2, ComingStays DEF Awaited
  <2>3. CASE ~Coming
    <3> DEFINE cmd == [op |-> shown, part |-> None]
    <3>1. cmd \in commands /\ cmd.op = shown /\ cmd = [op |-> shown', part |-> None]
      BY <1>1, <2>1, <2>3 DEF Awaited
    <3> HIDE DEF cmd
    <3>2. CASE cmd \in commands'
      BY <3>1, <3>2 DEF Awaited
    <3>3. CASE cmd \notin commands'
      <4>1. PICK c \in commands : Execute(c) /\ cmd = c
        BY <3>1, <3>3
           DEF Klipper, StartPrint, FinishPrint, Settle, ClearFile, Execute, OtherClient,
               asking
      <4>2. Takes(c) /\ Steady /\ c.op = shown
        BY <1>3, <2>1, <3>1, <4>1 DEF Execute
      <4>3. CASE shown = "pause"
        BY <4>2, <4>3 DEF Takes, Awaited, Coming
      <4>4. CASE shown = "resume"
        <5>1. /\ status.state = "paused" /\ going = "no"
              /\ status' = [status EXCEPT !.paused = FALSE]
          BY <4>2, <4>4 DEF Takes
        <5>2. status.paused /\ ~status'.paused
          BY <5>1, PausedSet DEF Base, Types, Life
        <5>3. reported' = status /\ reported' # None
          BY <2>1, <4>2, KlipperMoves DEF Base, Reports, Steady
        <5>4. QED BY <5>2, <5>3 DEF Awaited, Coming
      <4>5. QED BY <2>1, <4>3, <4>4
    <3>4. QED BY <3>2, <3>3
  <2>4. QED BY <2>2, <2>3
<1>4. HomeIsRight' /\ heard' \in {"never", "yes", "no"}
  BY <1>1 DEF ScreenInv, HomeIsRight
<1>5. ButtonsFollow'
  BY <1>1, <1>2, <1>3 DEF ScreenInv, ButtonsFollow
<1>6. QED BY <1>4, <1>5 DEF ScreenInv

LEMMA TickKeepsScreen == ASSUME Base, ScreenInv, Tick PROVE ScreenInv'
<1> DEFINE r == [snapshot |-> FALSE, was |-> reported, now |-> status, job |-> jobs]
           n == Len(wire)
<1>1. /\ reported # None /\ reported' = status /\ wire' = Append(wire, r)
      /\ UNCHANGED <<status, going, cache, synced, commands, shown, dimmed, heard, unsure,
                     mini, chip>>
  BY DEF Tick, klipper, buttons, home, asking
<1>2. r \in Report /\ r.was = reported /\ r.now = status
  BY <1>1 DEF Base, Types, Report
<1> HIDE DEF r
<1>3. /\ Len(wire') = n + 1 /\ n \in Nat /\ wire'[n + 1] = r
      /\ \A i \in 1..n : wire'[i] = wire[i]
  BY <1>1, <1>2, Appended DEF Base, Types
<1>4. Coming => Coming'
  <2>1. CASE \E i \in 1..n : wire[i].was.paused # wire[i].now.paused
    BY <1>3, <2>1 DEF Coming
  <2>2. CASE reported.paused # status.paused
    <3>1. n + 1 \in 1..Len(wire') /\ wire'[n + 1].was.paused # wire'[n + 1].now.paused
      BY <1>2, <1>3, <2>2
    <3>2. QED BY <3>1 DEF Coming
  <2>3. CASE going = "pause"
    BY <1>1, <2>3 DEF Coming
  <2>4. QED BY <2>1, <2>2, <2>3 DEF Coming
<1>5. QED BY <1>1, <1>4 DEF ScreenInv, HomeIsRight, ButtonsFollow, Awaited

LEMMA ConnectionKeepsScreen ==
  ASSUME Base, ScreenInv, OnOpen \/ Subscribed \/ OnClose PROVE ScreenInv'
<1>1. UNCHANGED <<shown, dimmed, heard, mini, chip>> /\ (synced' => synced /\ OnOpen)
  BY DEF OnOpen, Subscribed, OnClose, Base, Reports, buttons, home
<1>2. ASSUME ~unsure', shown \in dimmed PROVE ~unsure /\ synced /\ OnOpen
  <2>1. ASSUME OnClose PROVE FALSE
    <3>1. unsure' = (unsure \/ shown \in dimmed)
      BY <2>1 DEF OnClose
    <3>2. QED BY <1>2, <3>1, Zenon
  <2>2. unsure' = unsure
    BY <2>1 DEF OnOpen, Subscribed, buttons
  <2>3. synced
    BY <1>2, <2>2 DEF ScreenInv, ButtonsFollow
  <2>4. QED BY <1>2, <2>1, <2>2, <2>3 DEF Base, Reports, Subscribed
<1>3. OnOpen => UNCHANGED <<cache, synced, wire, reported, status, going, commands, unsure>>
  BY DEF OnOpen, klipper, buttons, asking
<1>4. ~unsure' => ~unsure
  BY DEF OnOpen, Subscribed, OnClose, buttons
<1>5. HomeIsRight' /\ heard' \in {"never", "yes", "no"}
  BY <1>1, <1>3 DEF ScreenInv, HomeIsRight
<1>6. ButtonsFollow'
  BY <1>1, <1>2, <1>3, <1>4 DEF ScreenInv, ButtonsFollow, Awaited, Coming
<1>7. QED BY <1>5, <1>6 DEF ScreenInv

(* Neither is lit by a snapshot: what it shows is lit unless the screen    *)
(* missed something.                                                       *)
LEMMA SnapshotKeepsScreen == ASSUME Base, ScreenInv, Snapshot PROVE ScreenInv'
<1>1. PICK s \in Status : s = wire[1].now
  BY OneTaken DEF Report
<1>2. /\ cache' = s /\ synced' /\ UNCHANGED <<dimmed, heard>>
      /\ shown' = Offered(s)
      /\ mini' = (s.state = "printing") /\ chip' = (s.state = "paused")
      /\ unsure' = \/ unsure
                   \/ heard # "never" /\ s.paused # (heard = "yes")
                   \/ s.paused # (s.state = "paused")
  BY <1>1, OneTaken DEF Snapshot
<1>3. ~synced
  BY OneTaken DEF Snapshot, Base, Reports
<1>4. HomeIsRight'
  BY <1>2 DEF HomeIsRight
<1>5. ASSUME ~unsure'
      PROVE  /\ ~unsure /\ s.paused = (s.state = "paused")
             /\ heard = "never" \/ s.paused = (heard = "yes")
  BY <1>2, <1>5, Zenon
<1>6. ASSUME ~unsure'
      PROVE  /\ shown' = IF s.paused THEN "resume" ELSE "pause"
             /\ heard # "never" => shown' = shown
             /\ heard = "never" => dimmed = {}
             /\ shown \notin dimmed
  <2>1. shown' = IF s.paused THEN "resume" ELSE "pause"
    BY <1>2, <1>5, <1>6 DEF Offered
  <2>2. shown \notin dimmed /\ (heard = "never" => dimmed = {})
    BY <1>3, <1>5, <1>6 DEF ScreenInv, ButtonsFollow
  <2>3. heard # "never" => shown' = shown
    BY <1>5, <1>6, <2>1 DEF ScreenInv, ButtonsFollow
  <2>4. QED BY <2>1, <2>2, <2>3
<1>7. ButtonsFollow'
  BY <1>2, <1>5, <1>6 DEF ScreenInv, ButtonsFollow
<1>8. QED BY <1>2, <1>4, <1>7 DEF ScreenInv

LEMMA UpdateKeepsScreen == ASSUME Base, ScreenInv, Update PROVE ScreenInv'
<1>1. PICK r \in Report : r = wire[1]
  BY OneTaken
<1>2. /\ PauseChange(r) /\ HomeScreen(r) /\ ~r.snapshot /\ cache' = r.now
      /\ synced' = synced /\ UNCHANGED <<status, going, reported, commands>>
  BY <1>1, OneTaken DEF Update, klipper, asking
<1>3. synced /\ r.was = cache
  BY <1>1, <1>2, OneTaken DEF Base, Reports
<1>4. Change(r.was, r.now) /\ r.was \in Status /\ r.now \in Status
  BY <1>1, OneTaken DEF Base, Changes, Report
<1>5. HomeIsRight'
  <2>1. CASE r.was.state = r.now.state
    <3>1. r.was.file = r.now.file
      BY <1>4, <2>1 DEF Change
    <3>2. mini = (cache.state = "printing") /\ chip = (cache.state = "paused")
      BY <1>3 DEF ScreenInv, HomeIsRight
    <3>3. mini' = (mini \/ (r.was.file # r.now.file /\ r.now.file # None)) /\ chip' = chip
      BY <1>2, <2>1 DEF HomeScreen
    <3>4. mini' = (cache.state = "printing")
      BY <3>1, <3>2, <3>3
    <3>5. QED BY <1>2, <1>3, <2>1, <3>2, <3>3, <3>4 DEF HomeIsRight
  <2>2. CASE r.was.state # r.now.state
    BY <1>2, <2>2 DEF HomeScreen, HomeIsRight
  <2>3. QED BY <2>1, <2>2
<1>6. CASE r.was.paused # r.now.paused
  <2>1. /\ shown' = IF r.now.paused THEN "resume" ELSE "pause"
        /\ dimmed' = {"pause", "resume"} \ {shown'}
        /\ heard' = IF r.now.paused THEN "yes" ELSE "no"
    BY <1>2, <1>6 DEF PauseChange
  <2>2. ButtonsFollow' /\ heard' \in {"never", "yes", "no"}
    BY <1>2, <2>1 DEF ButtonsFollow
  <2>3. QED BY <1>5, <2>2 DEF ScreenInv
<1>7. CASE r.was.paused = r.now.paused
  <2>1. /\ shown' = IF r.was.file = r.now.file THEN shown ELSE Offered(r.now)
        /\ UNCHANGED <<dimmed, heard, unsure>>
    BY <1>2, <1>7 DEF PauseChange
  <2>2. ~unsure => shown' = shown
    <3>1. r.was.file # r.now.file => Offered(r.now) = "pause" /\ ~r.now.paused
      BY <1>4 DEF Change, Offered
    <3>2. QED BY <1>3, <1>7, <2>1, <3>1 DEF ScreenInv, ButtonsFollow
  <2>3. Coming => Coming'
    <3>1. ASSUME NEW i \in 1..Len(wire), wire[i].was.paused # wire[i].now.paused
          PROVE  Coming'
      <4>1. i # 1
        BY <1>1, <1>7, <3>1
      <4>2. PICK j \in 1..Len(wire') : j + 1 = i
        BY <4>1, OneTaken
      <4>3. wire'[j] = wire[i]
        BY <4>2, OneTaken
      <4>4. QED BY <3>1, <4>3 DEF Coming
    <3>2. QED BY <1>2, <3>1 DEF Coming
  <2>4. ButtonsFollow'
    BY <1>2, <1>3, <1>7, <2>1, <2>2, <2>3 DEF ScreenInv, ButtonsFollow, Awaited
  <2>5. QED BY <1>5, <2>1, <2>4 DEF ScreenInv
<1>8. QED BY <1>6, <1>7

LEMMA UserKeepsScreen == ASSUME Base, ScreenInv, User PROVE ScreenInv'
<1>1. /\ UNCHANGED <<status, going, reported, wire, cache, synced>>
      /\ UNCHANGED <<shown, heard, unsure, mini, chip>>
  BY UserLeaves
     DEF User, HandleMetadata, TapButton, TapCancel, TapObjects, TapBack, TapDone, TapPart,
         Answer, buttons, home, vars
<1>2. commands \subseteq commands'
  BY DEF User, HandleMetadata, TapButton, TapCancel, TapObjects, TapBack, TapDone, TapPart,
         Answer, Send, asking, vars
<1>3. HomeIsRight' /\ heard' \in {"never", "yes", "no"}
  BY <1>1 DEF ScreenInv, HomeIsRight
<1>4. CASE dimmed' = dimmed
  BY <1>1, <1>2, <1>3, <1>4 DEF ScreenInv, ButtonsFollow, Awaited, Coming
<1>5. ASSUME NEW op \in {"pause", "resume"}, TapButton(op) PROVE ScreenInv'
  <2>1. /\ shown = op /\ dimmed' = dimmed \cup {op} /\ synced
        /\ Send(op, None)
    BY <1>5 DEF TapButton, Free
  <2>2. connected
    BY <2>1 DEF Base, Reports
  <2>3. Awaited'
    BY <1>1, <2>1, <2>2 DEF Send, Awaited
  <2>4. ButtonsFollow'
    BY <1>1, <2>1, <2>3 DEF ScreenInv, ButtonsFollow
  <2>5. QED BY <1>3, <2>4 DEF ScreenInv
<1>6. User => dimmed' = dimmed \/ \E op \in {"pause", "resume"} : TapButton(op)
  BY DEF User, HandleMetadata, TapCancel, TapObjects, TapBack, TapDone, TapPart, Answer,
         buttons, vars
<1>7. QED BY <1>4, <1>5, <1>6

(* The button that is shown is the one that applies, and is lit unless its *)
(* command is under way or a command was refused or lost or a change came  *)
(* with a snapshot; the home screen has the overlay while it prints and    *)
(* the chip while it is paused                                             *)
(* (print_status_panel.cpp:309-327, 347-353, 454-482, 621-638, 658-664).   *)
THEOREM ButtonsAreLit == Spec => []OnlyUnheardDims
<1>1. Init => ScreenInv
  BY DEF Init, ScreenInv, HomeIsRight, ButtonsFollow
<1>2. Base /\ ScreenInv /\ [Next]_vars => ScreenInv'
  BY NextIs, KlipperKeepsScreen, TickKeepsScreen, ConnectionKeepsScreen,
     SnapshotKeepsScreen, UpdateKeepsScreen, UserKeepsScreen
<1>3. Base /\ ScreenInv => OnlyUnheardDims
  <2>1. SUFFICES ASSUME Base, ScreenInv, HeardAll PROVE
                   /\ mini = (status.state = "printing") /\ chip = (status.state = "paused")
                   /\ status.state \in Running /\ ~unsure =>
                        /\ shown = Offered(status)
                        /\ shown \in dimmed => [op |-> shown, part |-> None] \in commands
    BY DEF OnlyUnheardDims
  <2>2. /\ cache = status /\ synced /\ reported = status /\ going = "no"
        /\ Len(wire) = 0
    BY <2>1, PrintStatusAssumption, EmptySeq DEF Base, Types, Reports, HeardAll
  <2>3. mini = (status.state = "printing") /\ chip = (status.state = "paused")
    BY <2>1, <2>2 DEF ScreenInv, HomeIsRight
  <2>4. ~Coming
    BY <2>2 DEF Coming
  <2>5. ASSUME status.state \in Running, ~unsure
        PROVE  /\ shown = Offered(status)
               /\ shown \in dimmed => [op |-> shown, part |-> None] \in commands
    <3>1. shown = IF status.paused THEN "resume" ELSE "pause"
      BY <2>1, <2>2, <2>5 DEF ScreenInv, ButtonsFollow
    <3>2. status.paused <=> status.state = "paused"
      BY <2>1, <2>2 DEF Base, Life
    <3>3. shown = Offered(status)
      BY <3>1, <3>2 DEF Offered
    <3>4. shown \in dimmed => Awaited
      BY <2>1, <2>5 DEF ScreenInv, ButtonsFollow
    <3>5. QED BY <2>4, <3>3, <3>4 DEF Awaited
  <2>6. QED BY <2>3, <2>5
<1>4. QED BY <1>1, <1>2, <1>3, ReportsInOrder, PTL DEF Spec
=============================================================================
